------------------------ MODULE CircuitBreaker_proofs ------------------------
(***************************************************************************)
(* Proofs that the dashboard's invariants hold for every set of tabs and   *)
(* hosts and every bound: type correctness, that each live tab shows the   *)
(* last snapshot delivered (LatestSnapshotShown), and that the dashboard  *)
(* implements its contract SnapshotView.                                   *)
(***************************************************************************)
EXTENDS CircuitBreaker, SequenceTheorems, TLAPS

(* What one tab's socket, channel and view satisfy.  The socket is always *)
(* to the host the title names; a socket that is not live has nothing in  *)
(* transit; the channel holds the snapshots after the ones delivered; the  *)
(* view is empty or one whole snapshot of that host, and while the socket  *)
(* is live it is the last one delivered.                                   *)
TabInv(t) ==
    /\ sockHost[t] = title[t]
    /\ sockSt[t] # "none" => sockHost[t] \in Hosts
    /\ sockSt[t] \notin {"connecting", "open"} => net[t] = <<>>
    /\ Len(net[t]) <= sentCnt[t]
    /\ \A i \in 1..Len(net[t]) :
           net[t][i] = Snapshot(sockHost[t], Delivered(t) + i)
    /\ \/ displayed[t] = <<>>
       \/ sockHost[t] \in Hosts /\
          \E k \in 1..MaxSnaps : displayed[t] = Snapshot(sockHost[t], k)
    /\ sockSt[t] \in {"connecting", "open"} =>
           displayed[t] = IF Delivered(t) = 0 THEN <<>>
                          ELSE Snapshot(sockHost[t], Delivered(t))

CBInv == TypeOK /\ \A t \in Tabs : TabInv(t)

USE CircuitBreakerAssumption

(* A snapshot is a sequence of NB rows.                                   *)
LEMMA SnapshotRows ==
    ASSUME NEW h \in Hosts, NEW k \in 1..MaxSnaps
    PROVE  /\ Snapshot(h, k) \in [1..NB -> Row]
           /\ Snapshot(h, k) \in Seq(Row)
           /\ Len(Snapshot(h, k)) = NB
           /\ \A i \in 1..NB : Snapshot(h, k)[i].host = h
<1>1. Snapshot(h, k) \in [1..NB -> Row]
  BY DEF Snapshot, Row
<1>2. Snapshot(h, k) \in Seq(Row)
  BY <1>1, SeqDef
<1>3. QED
  BY <1>1, <1>2 DEF Snapshot

(* A step that leaves a tab's socket, channel and view alone keeps its     *)
(* invariant.                                                              *)
LEMMA TabInvFrame ==
    ASSUME NEW s,
           title'[s] = title[s], sockHost'[s] = sockHost[s],
           sockSt'[s] = sockSt[s], sentCnt'[s] = sentCnt[s],
           net'[s] = net[s], displayed'[s] = displayed[s]
    PROVE  TabInv(s)' <=> TabInv(s)
  BY DEF TabInv, Delivered

(* The tabs other than t keep their invariant over a step that changes     *)
(* only t's entries.                                                       *)
LEMMA OtherTabs ==
    ASSUME NEW t, CBInv,
           \A s \in Tabs \ {t} :
              /\ title'[s] = title[s] /\ sockHost'[s] = sockHost[s]
              /\ sockSt'[s] = sockSt[s] /\ sentCnt'[s] = sentCnt[s]
              /\ net'[s] = net[s] /\ displayed'[s] = displayed[s]
    PROVE  \A s \in Tabs \ {t} : TabInv(s)'
  BY TabInvFrame DEF CBInv

(* A page load of /cb: the tab starts over on the stored or default host. *)
LEMMA LoadPageInv ==
    ASSUME CBInv, NEW t \in Tabs, LoadPage(t)
    PROVE  CBInv'
<1> DEFINE h == IF stored = None THEN DefaultHost ELSE stored
<1>1. h \in Hosts
  BY DEF CBInv, TypeOK
<1>2. TypeOK'
  BY <1>1 DEF LoadPage, CBInv, TypeOK
<1>3. TabInv(t)'
  BY <1>1 DEF LoadPage, CBInv, TypeOK, TabInv, Delivered
<1>4. \A s \in Tabs \ {t} : TabInv(s)'
  BY OtherTabs DEF LoadPage, CBInv, TypeOK
<1>5. QED
  BY <1>2, <1>3, <1>4 DEF CBInv

(* The service at an open socket sends the next snapshot.                  *)
LEMMA ServerSendInv ==
    ASSUME CBInv, NEW t \in Tabs, ServerSend(t)
    PROVE  CBInv'
<1> DEFINE h == sockHost[t]
           n == sentCnt[t]
           q == net[t]
           snap == Snapshot(h, n + 1)
<1>1. /\ h \in Hosts /\ n \in 0..MaxSnaps - 1 /\ q \in Seq([1..NB -> Row])
      /\ Len(q) <= n
      /\ \A i \in 1..Len(q) : q[i] = Snapshot(h, n - Len(q) + i)
      /\ sockSt[t] = "open"
  BY DEF ServerSend, CBInv, TypeOK, TabInv, Delivered
<1>2. snap \in [1..NB -> Row]
  BY <1>1, SnapshotRows
<1>3. /\ sentCnt'[t] = n + 1
      /\ net'[t] = Append(q, snap)
  BY DEF ServerSend, CBInv, TypeOK
<1>4. /\ Append(q, snap) \in Seq([1..NB -> Row])
      /\ Len(Append(q, snap)) = Len(q) + 1
      /\ \A i \in 1..Len(q) : Append(q, snap)[i] = q[i]
      /\ Append(q, snap)[Len(q) + 1] = snap
  BY <1>1, <1>2, AppendProperties
<1>5. TypeOK'
  BY <1>1, <1>3, <1>4 DEF ServerSend, CBInv, TypeOK
<1>6. \A i \in 1..Len(net'[t]) :
         net'[t][i] = Snapshot(h, (n + 1) - Len(net'[t]) + i)
  <2> SUFFICES ASSUME NEW i \in 1..Len(q) + 1
               PROVE  net'[t][i] = Snapshot(h, (n + 1) - (Len(q) + 1) + i)
    BY <1>3, <1>4
  <2>1. Len(q) \in Nat
    BY <1>1, LenProperties
  <2>2. CASE i <= Len(q)
    <3>1. net'[t][i] = q[i]
      BY <1>3, <1>4, <2>2
    <3>2. (n + 1) - (Len(q) + 1) + i = n - Len(q) + i
      BY <1>1, <2>1
    <3>3. QED
      BY <3>1, <3>2, <1>1, <2>2
  <2>3. CASE i = Len(q) + 1
    <3>1. net'[t][i] = snap
      BY <1>3, <1>4, <2>3
    <3>2. (n + 1) - (Len(q) + 1) + i = n + 1
      BY <1>1, <2>1, <2>3
    <3>3. QED
      BY <3>1, <3>2
  <2>4. QED
    BY <2>1, <2>2, <2>3
<1>7. TabInv(t)'
  <2>1. Len(q) \in Nat
    BY <1>1, LenProperties
  <2>2. /\ sockHost'[t] = h /\ title'[t] = title[t] /\ sockSt'[t] = "open"
        /\ displayed'[t] = displayed[t]
    BY <1>1 DEF ServerSend
  <2>3. Delivered(t)' = Delivered(t)
    BY <1>1, <1>3, <1>4, <2>1 DEF Delivered
  <2>4. Len(net'[t]) <= sentCnt'[t]
    BY <1>1, <1>3, <1>4, <2>1
  <2>5. \A i \in 1..Len(net'[t]) :
           net'[t][i] = Snapshot(sockHost'[t], Delivered(t)' + i)
    BY <1>3, <1>6, <2>2 DEF Delivered
  <2>6. /\ sockHost[t] = title[t]
        /\ \/ displayed[t] = <<>>
           \/ sockHost[t] \in Hosts /\
              \E k \in 1..MaxSnaps : displayed[t] = Snapshot(sockHost[t], k)
        /\ displayed[t] = IF Delivered(t) = 0 THEN <<>>
                          ELSE Snapshot(sockHost[t], Delivered(t))
    BY <1>1 DEF CBInv, TabInv
  <2>7. QED
    BY <1>1, <2>2, <2>3, <2>4, <2>5, <2>6 DEF TabInv
<1>8. \A s \in Tabs \ {t} : TabInv(s)'
  BY OtherTabs DEF ServerSend, CBInv, TypeOK
<1>9. QED
  BY <1>5, <1>7, <1>8 DEF CBInv

(* onmessage takes the first snapshot in transit and shows it.             *)
LEMMA ReceiveInv ==
    ASSUME CBInv, NEW t \in Tabs, Receive(t)
    PROVE  CBInv'
<1> DEFINE h == sockHost[t]
           n == sentCnt[t]
           q == net[t]
           d == n - Len(q)
<1>1. /\ h \in Hosts /\ n \in 0..MaxSnaps /\ q \in Seq([1..NB -> Row])
      /\ q # <<>> /\ Len(q) <= n
      /\ \A i \in 1..Len(q) : q[i] = Snapshot(h, d + i)
      /\ sockSt[t] = "open"
  BY DEF Receive, CBInv, TypeOK, TabInv, Delivered
<1>2. /\ Len(q) \in Nat /\ Len(q) >= 1
      /\ Tail(q) \in Seq([1..NB -> Row])
      /\ Len(Tail(q)) = Len(q) - 1
      /\ \A i \in 1..Len(Tail(q)) : Tail(q)[i] = q[i + 1]
  BY <1>1, HeadTailProperties, LenProperties, EmptySeq
<1>3. d + 1 \in 1..MaxSnaps
  BY <1>1, <1>2
<1>4. Head(q) = Snapshot(h, d + 1)
  <2>1. Head(q) = q[1]
    OBVIOUS
  <2>2. 1 \in 1..Len(q)
    BY <1>2
  <2>3. QED
    BY <1>1, <2>1, <2>2
<1>5. /\ displayed'[t] = Snapshot(h, d + 1)
      /\ net'[t] = Tail(q)
      /\ sentCnt'[t] = n /\ sockHost'[t] = h /\ title'[t] = title[t]
      /\ sockSt'[t] = "open"
  BY <1>1, <1>4 DEF Receive, CBInv, TypeOK
<1>6. Snapshot(h, d + 1) \in Seq(Row)
  BY <1>1, <1>3, SnapshotRows
<1>7. TypeOK'
  BY <1>1, <1>2, <1>5, <1>6 DEF Receive, CBInv, TypeOK
<1>8. TabInv(t)'
  <2>1. Delivered(t)' = d + 1
    BY <1>1, <1>2, <1>5 DEF Delivered
  <2>2. Len(net'[t]) <= sentCnt'[t]
    BY <1>1, <1>2, <1>5
  <2>3. \A i \in 1..Len(net'[t]) :
           net'[t][i] = Snapshot(sockHost'[t], Delivered(t)' + i)
    <3> SUFFICES ASSUME NEW i \in 1..Len(q) - 1
                 PROVE  Tail(q)[i] = Snapshot(h, (d + 1) + i)
      BY <1>2, <1>5, <2>1
    <3>1. i + 1 \in 1..Len(q) /\ d + (i + 1) = (d + 1) + i
      BY <1>1, <1>2
    <3>2. QED
      BY <1>1, <1>2, <3>1
  <2>4. sockHost[t] = title[t]
    BY DEF CBInv, TabInv
  <2>5. QED
    BY <1>1, <1>3, <1>5, <2>1, <2>2, <2>3, <2>4 DEF TabInv
<1>9. \A s \in Tabs \ {t} : TabInv(s)'
  BY OtherTabs DEF Receive, CBInv, TypeOK
<1>10. QED
  BY <1>7, <1>8, <1>9 DEF CBInv

(* The connection drops: nothing more arrives, the view stays.            *)
LEMMA DropInv ==
    ASSUME CBInv, NEW t \in Tabs, Drop(t)
    PROVE  CBInv'
<1>1. TypeOK'
  BY DEF Drop, CBInv, TypeOK
<1>2. TabInv(t)'
  <2>1. /\ sentCnt[t] \in Nat /\ net'[t] = <<>> /\ sockSt'[t] = "closed"
        /\ UNCHANGED <<title, sockHost, sentCnt, displayed>>
    BY DEF Drop, CBInv, TypeOK
  <2>2. /\ sockHost[t] = title[t]
        /\ sockSt[t] # "none"
        /\ sockHost[t] \in Hosts
        /\ \/ displayed[t] = <<>>
           \/ sockHost[t] \in Hosts /\
              \E k \in 1..MaxSnaps : displayed[t] = Snapshot(sockHost[t], k)
    BY DEF Drop, CBInv, TabInv
  <2>3. QED
    BY <2>1, <2>2 DEF TabInv
<1>3. \A s \in Tabs \ {t} : TabInv(s)'
  BY OtherTabs DEF Drop, CBInv, TypeOK
<1>4. QED
  BY <1>1, <1>2, <1>3 DEF CBInv

(* The handshake completes.                                                *)
LEMMA ConnectedInv ==
    ASSUME CBInv, NEW t \in Tabs, Connected(t)
    PROVE  CBInv'
<1>1. TypeOK'
  BY DEF Connected, CBInv, TypeOK
<1>2. TabInv(t)'
  BY DEF Connected, CBInv, TypeOK, TabInv, Delivered
<1>3. \A s \in Tabs \ {t} : TabInv(s)'
  BY OtherTabs DEF Connected, CBInv, TypeOK
<1>4. QED
  BY <1>1, <1>2, <1>3 DEF CBInv

(* Editing the field and submitting touch no socket, channel or view.      *)
LEMMA FormInv ==
    ASSUME CBInv, NEW t \in Tabs,
           \/ \E v \in Hosts \cup {Blank} : Edit(t, v)
           \/ Submit(t)
    PROVE  CBInv'
<1>1. TypeOK'
  <2>1. CASE \E v \in Hosts \cup {Blank} : Edit(t, v)
    BY <2>1 DEF Edit, CBInv, TypeOK
  <2>2. CASE Submit(t)
    <3>1. stored' \in Hosts \cup {None}
      BY <2>2 DEF Submit, CBInv, TypeOK
    <3>2. page' \in [Tabs -> {"closed", "shown", "leaving"}]
      BY <2>2 DEF Submit, CBInv, TypeOK
    <3>3. QED
      BY <2>2, <3>1, <3>2 DEF Submit, CBInv, TypeOK
  <2>3. QED
    BY <2>1, <2>2
<1>2. \A s \in Tabs : TabInv(s)'
  BY TabInvFrame DEF Edit, Submit, CBInv
<1>3. QED
  BY <1>1, <1>2 DEF CBInv

(* CBInv is an inductive invariant of the dashboard.                       *)
THEOREM Invariant == Spec => []CBInv
<1>1. Init => CBInv
  BY DEF Init, CBInv, TypeOK, TabInv, Delivered
<1>2. CBInv /\ [Next]_vars => CBInv'
  <2> SUFFICES ASSUME CBInv, [Next]_vars PROVE CBInv'
    OBVIOUS
  <2>1. ASSUME NEW t \in Tabs, Open(t) \/ Reload(t) PROVE CBInv'
    BY <2>1, LoadPageInv DEF Open, Reload
  <2>2. CASE UNCHANGED vars
    BY <2>2 DEF vars, CBInv, TypeOK, TabInv, Delivered
  <2>3. QED
    BY <2>1, <2>2, ConnectedInv, ServerSendInv, ReceiveInv, DropInv,
       FormInv DEF Next
<1>3. QED
  BY <1>1, <1>2, PTL DEF Spec

(* Every reachable state is well typed.                                    *)
THEOREM TypeCorrect == Spec => []TypeOK
  BY Invariant, PTL DEF CBInv

(* Spec 8: a live tab shows exactly the last snapshot delivered, and the   *)
(* rest follow in order, for every number of tabs, hosts and snapshots.    *)
THEOREM SnapshotsReplace == Spec => []LatestSnapshotShown
<1>1. CBInv => LatestSnapshotShown
  BY DEF CBInv, TabInv, LatestSnapshotShown
<1>2. QED
  BY <1>1, Invariant, PTL

-----------------------------------------------------------------------------
(* The refinement of the dashboard's contract SnapshotView.                *)

(* The views of different arrays of a service differ: the first row names  *)
(* the array, and no array is empty.                                        *)
LEMMA ViewOfInjective ==
    ASSUME NEW h, NEW j \in 0..MaxSnaps, NEW k \in 0..MaxSnaps,
           ViewOf(h, j) = ViewOf(h, k)
    PROVE  j = k
<1>1. CASE j = 0 /\ k # 0
  <2>1. ViewOf(h, k) = Snapshot(h, k) /\ ViewOf(h, j) = <<>>
    BY <1>1 DEF ViewOf
  <2>2. DOMAIN Snapshot(h, k) = 1..NB /\ 1 \in 1..NB
    BY DEF Snapshot
  <2>3. DOMAIN <<>> = {}
    OBVIOUS
  <2>4. QED
    BY <2>1, <2>2, <2>3
<1>2. CASE j # 0 /\ k = 0
  <2>1. ViewOf(h, j) = Snapshot(h, j) /\ ViewOf(h, k) = <<>>
    BY <1>2 DEF ViewOf
  <2>2. DOMAIN Snapshot(h, j) = 1..NB /\ 1 \in 1..NB
    BY DEF Snapshot
  <2>3. DOMAIN <<>> = {}
    OBVIOUS
  <2>4. Snapshot(h, j) = <<>>
    BY <2>1, Zenon
  <2>5. QED
    BY <2>2, <2>3, <2>4
<1>3. CASE j # 0 /\ k # 0
  <2>1. Snapshot(h, j) = Snapshot(h, k)
    BY <1>3 DEF ViewOf
  <2>2. Snapshot(h, j)[1].at = j /\ Snapshot(h, k)[1].at = k
    BY DEF Snapshot
  <2>3. QED
    BY <2>1, <2>2
<1>4. QED
  BY <1>1, <1>2, <1>3

(* Rows that are the k-th array of host h are numbered k.                   *)
LEMMA ArrayNumberIs ==
    ASSUME NEW d, NEW h, NEW k \in 0..MaxSnaps, d = ViewOf(h, k)
    PROVE  ArrayNumber(d, h) = k
<1>1. \E j \in 0..MaxSnaps : d = ViewOf(h, j)
  OBVIOUS
<1>2. ASSUME NEW j \in 0..MaxSnaps, d = ViewOf(h, j)
      PROVE  j = k
  <2>1. ViewOf(h, j) = ViewOf(h, k)
    BY <1>2
  <2>2. QED
    BY <2>1, ViewOfInjective
<1>3. ArrayNumber(d, h) = CHOOSE j \in 0..MaxSnaps : d = ViewOf(h, j)
  BY <1>1 DEF ArrayNumber
<1>4. QED
  BY <1>1, <1>2, <1>3

(* An array number is a natural number.                                   *)
LEMMA ArrayNumberNat ==
    ASSUME NEW d, NEW h
    PROVE  ArrayNumber(d, h) \in Nat
<1>1. CASE \E k \in 0..MaxSnaps : d = ViewOf(h, k)
  <2>1. (CHOOSE k \in 0..MaxSnaps : d = ViewOf(h, k)) \in 0..MaxSnaps
    BY <1>1
  <2>2. QED
    BY <1>1, <2>1 DEF ArrayNumber
<1>2. CASE ~\E k \in 0..MaxSnaps : d = ViewOf(h, k)
  BY <1>2 DEF ArrayNumber
<1>3. QED
  BY <1>1, <1>2

(* In every state a tab's view is some array of its titled service.        *)
LEMMA ViewIsIndexed ==
    ASSUME CBInv, NEW t \in Tabs
    PROVE  \E k \in 0..MaxSnaps : displayed[t] = ViewOf(title[t], k)
<1>1. CASE displayed[t] = <<>>
  BY <1>1 DEF ViewOf
<1>2. CASE displayed[t] # <<>>
  <2>1. PICK k \in 1..MaxSnaps : displayed[t] = Snapshot(sockHost[t], k)
    BY <1>2 DEF CBInv, TabInv
  <2>2. sockHost[t] = title[t]
    BY DEF CBInv, TabInv
  <2>3. QED
    BY <2>1, <2>2 DEF ViewOf
<1>3. QED
  BY <1>1, <1>2

(* A tab that has not loaded the dashboard has no socket.                   *)
ClosedInv == \A t \in Tabs : page[t] = "closed" => sockSt[t] = "none"

(* No step opens a socket in a closed tab: only a page load opens one, and *)
(* it marks the page shown; nothing closes a page again.                    *)
LEMMA ClosedStep == CBInv /\ ClosedInv /\ [Next]_vars => ClosedInv'
<1> SUFFICES ASSUME CBInv, ClosedInv, [Next]_vars, NEW s \in Tabs,
                    page'[s] = "closed"
             PROVE  sockSt'[s] = "none"
  BY DEF ClosedInv
<1>1. ASSUME NEW t \in Tabs, Open(t) \/ Reload(t) PROVE sockSt'[s] = "none"
  <2>1. LoadPage(t)
    BY <1>1 DEF Open, Reload
  <2>2. s # t
    BY <2>1 DEF LoadPage, CBInv, TypeOK
  <2>3. QED
    BY <2>1, <2>2 DEF LoadPage, ClosedInv, CBInv, TypeOK
<1>2. ASSUME NEW t \in Tabs, Submit(t) PROVE sockSt'[s] = "none"
  <2>1. s # t
    BY <1>2 DEF Submit, CBInv, TypeOK
  <2>2. QED
    BY <1>2, <2>1 DEF Submit, ClosedInv, CBInv, TypeOK
<1>3. ASSUME NEW t \in Tabs,
             \/ Connected(t) \/ ServerSend(t) \/ Receive(t) \/ Drop(t)
             \/ \E v \in Hosts \cup {Blank} : Edit(t, v)
      PROVE  sockSt'[s] = "none"
  BY <1>3 DEF Connected, ServerSend, Receive, Drop, Edit, ClosedInv, CBInv,
              TypeOK
<1>4. CASE UNCHANGED vars
  BY <1>4 DEF vars, ClosedInv
<1>5. QED
  BY <1>1, <1>2, <1>3, <1>4 DEF Next

(* No closed tab ever has a socket.                                         *)
THEOREM ClosedTabsIdle == Spec => [](CBInv /\ ClosedInv)
<1>1. Init => ClosedInv
  BY DEF Init, ClosedInv
<1>2. CBInv /\ ClosedInv /\ [Next]_vars => ClosedInv'
  BY ClosedStep
<1>3. QED
  BY <1>1, <1>2, Invariant, PTL DEF Spec

(* A step that changes no page, title, view or stored host is a stutter    *)
(* of the contract.                                                          *)
LEMMA ViewStutter ==
    ASSUME UNCHANGED <<stored, page, title, displayed>>
    PROVE  UNCHANGED View!vars
<1>1. OpenedTabs' = OpenedTabs
  BY DEF OpenedTabs
<1>2. ShownIndex' = ShownIndex
  BY DEF ShownIndex
<1>3. QED
  BY <1>1, <1>2 DEF View!vars

(* A page load is the contract's Load.                                      *)
LEMMA LoadPageRefines ==
    ASSUME CBInv, NEW t \in Tabs, LoadPage(t)
    PROVE  View!Load(t)
<1> DEFINE h == IF stored = None THEN DefaultHost ELSE stored
<1>1. stored' = h /\ title' = [title EXCEPT ![t] = h]
  BY DEF LoadPage
<1>2. OpenedTabs' = OpenedTabs \cup {t}
  BY DEF LoadPage, OpenedTabs, CBInv, TypeOK
<1>3. ShownIndex' = [ShownIndex EXCEPT ![t] = 0]
  <2>1. displayed' = [displayed EXCEPT ![t] = <<>>]
    BY DEF LoadPage
  <2>2. ArrayNumber(displayed'[t], title'[t]) = 0
    <3>1. displayed'[t] = ViewOf(title'[t], 0)
      BY <2>1 DEF CBInv, TypeOK, ViewOf
    <3>2. QED
      BY <3>1, ArrayNumberIs
  <2>3. \A s \in Tabs \ {t} : displayed'[s] = displayed[s] /\ title'[s] = title[s]
    BY <1>1, <2>1 DEF CBInv, TypeOK
  <2>4. \A s \in Tabs : ArrayNumber(displayed'[s], title'[s])
                         = IF s = t THEN 0 ELSE ShownIndex[s]
    BY <2>2, <2>3 DEF ShownIndex
  <2>5. ShownIndex' = [s \in Tabs |-> IF s = t THEN 0 ELSE ShownIndex[s]]
    BY <2>4 DEF ShownIndex
  <2>6. [ShownIndex EXCEPT ![t] = 0]
          = [s \in Tabs |-> IF s = t THEN 0 ELSE ShownIndex[s]]
    <3>1. ShownIndex \in [Tabs -> Nat]
      BY ArrayNumberNat DEF ShownIndex
    <3>2. QED
      BY <3>1
  <2>7. QED
    BY <2>5, <2>6
<1>4. QED
  BY <1>1, <1>2, <1>3 DEF View!Load

(* A delivered message is the contract's Show: the view moves from the     *)
(* array last delivered to the next one, of the same titled service.       *)
LEMMA ReceiveRefines ==
    ASSUME CBInv, ClosedInv, NEW t \in Tabs, Receive(t)
    PROVE  View!Show(t)
<1>1. TabInv(t) /\ TypeOK
  BY DEF CBInv
<1> DEFINE d == Delivered(t)
<1>2. Len(net[t]) \in Nat /\ Len(net[t]) >= 1 /\ sentCnt[t] \in 0..MaxSnaps
  <2>1. net[t] \in Seq([1..NB -> Row]) /\ net[t] # <<>>
    BY <1>1 DEF Receive, TypeOK
  <2>2. QED
    BY <1>1, <2>1, EmptySeq, LenProperties DEF TypeOK
<1>3. d \in 0..MaxSnaps /\ d < MaxSnaps
  BY <1>1, <1>2 DEF TabInv, Delivered
<1>4. displayed[t] = ViewOf(title[t], d)
  BY <1>1, <1>3 DEF Receive, TabInv, ViewOf
<1>5. displayed'[t] = ViewOf(title[t], d + 1)
  <2>1. displayed'[t] = net[t][1]
    BY <1>1 DEF Receive, TypeOK
  <2>2. net[t][1] = Snapshot(sockHost[t], d + 1)
    BY <1>1, <1>2 DEF TabInv
  <2>3. sockHost[t] = title[t] /\ d + 1 # 0
    BY <1>1, <1>3 DEF TabInv
  <2>4. QED
    BY <2>1, <2>2, <2>3 DEF ViewOf
<1>6. ShownIndex[t] = d /\ ShownIndex'[t] = d + 1
  <2>1. ArrayNumber(displayed[t], title[t]) = d
    BY <1>3, <1>4, ArrayNumberIs
  <2>2. title'[t] = title[t]
    BY DEF Receive
  <2>3. ArrayNumber(displayed'[t], title'[t]) = d + 1
    BY <1>3, <1>5, <2>2, ArrayNumberIs
  <2>4. QED
    BY <2>1, <2>3 DEF ShownIndex
<1>7. ShownIndex' = [ShownIndex EXCEPT ![t] = @ + 1]
  <2>1. \A s \in Tabs \ {t} : displayed'[s] = displayed[s] /\ title'[s] = title[s]
    BY <1>1 DEF Receive, TypeOK
  <2>2. \A s \in Tabs : ArrayNumber(displayed'[s], title'[s])
                         = IF s = t THEN ShownIndex[t] + 1 ELSE ShownIndex[s]
    BY <1>6, <2>1 DEF ShownIndex
  <2>3. ShownIndex' = [s \in Tabs |-> IF s = t THEN ShownIndex[t] + 1
                                       ELSE ShownIndex[s]]
    BY <2>2 DEF ShownIndex
  <2>4. [ShownIndex EXCEPT ![t] = @ + 1]
          = [s \in Tabs |-> IF s = t THEN ShownIndex[t] + 1 ELSE ShownIndex[s]]
    <3>1. ShownIndex \in [Tabs -> Nat]
      BY ArrayNumberNat DEF ShownIndex
    <3>2. QED
      BY <3>1
  <2>5. QED
    BY <2>3, <2>4
<1>8. t \in OpenedTabs
  BY DEF Receive, ClosedInv, OpenedTabs
<1>9. UNCHANGED <<stored, OpenedTabs, title>>
  BY DEF Receive, OpenedTabs
<1>10. QED
  BY <1>3, <1>6, <1>7, <1>8, <1>9 DEF View!Show

(* The dashboard implements its contract SnapshotView: a page load is a    *)
(* Load, a delivered array is the next Show of the titled service, a       *)
(* submit of a non-blank host is a Store, and the handshake, the service's *)
(* sends, drops, edits and blank submits change nothing the contract sees. *)
THEOREM ViewRefinement == Spec => ImplementsView
<1>1. Init => View!Init
  <2> SUFFICES ASSUME Init PROVE View!Init
    OBVIOUS
  <2>1. OpenedTabs = {}
    BY DEF Init, OpenedTabs
  <2>2. \A t \in Tabs : ArrayNumber(displayed[t], title[t]) = 0
    <3> SUFFICES ASSUME NEW t \in Tabs
                 PROVE  ArrayNumber(displayed[t], title[t]) = 0
      OBVIOUS
    <3>1. displayed[t] = ViewOf(title[t], 0)
      BY DEF Init, ViewOf
    <3>2. QED
      BY <3>1, ArrayNumberIs
  <2>3. ShownIndex = [t \in Tabs |-> 0]
    BY <2>2 DEF ShownIndex
  <2>4. QED
    BY <2>1, <2>3 DEF Init, View!Init
<1>2. CBInv /\ ClosedInv /\ [Next]_vars => [View!Next]_View!vars
  <2> SUFFICES ASSUME CBInv, ClosedInv, [Next]_vars
               PROVE  [View!Next]_View!vars
    OBVIOUS
  <2>1. ASSUME NEW t \in Tabs, Open(t) \/ Reload(t)
        PROVE  [View!Next]_View!vars
    <3>1. View!Load(t)
      BY <2>1, LoadPageRefines DEF Open, Reload
    <3>2. QED
      BY <3>1 DEF View!Next
  <2>2. ASSUME NEW t \in Tabs, Receive(t) PROVE [View!Next]_View!vars
    <3>1. View!Show(t)
      BY <2>2, ReceiveRefines
    <3>2. QED
      BY <3>1 DEF View!Next
  <2>3. ASSUME NEW t \in Tabs, Submit(t) PROVE [View!Next]_View!vars
    <3>1. page[t] # "closed" /\ page' = [page EXCEPT ![t] = "leaving"]
      BY <2>3 DEF Submit
    <3>2. OpenedTabs' = OpenedTabs /\ t \in OpenedTabs
      BY <3>1 DEF OpenedTabs, CBInv, TypeOK
    <3>3. ShownIndex' = ShownIndex
      BY <2>3 DEF Submit, ShownIndex
    <3>4. CASE typed[t] = Blank
      BY <2>3, <3>2, <3>3, <3>4 DEF Submit, View!vars
    <3>5. CASE typed[t] # Blank
      <4>1. typed[t] \in Hosts
        BY <3>5 DEF CBInv, TypeOK
      <4>2. View!Store(t, typed[t])
        BY <2>3, <3>2, <3>3, <3>5 DEF Submit, View!Store
      <4>3. QED
        BY <4>1, <4>2 DEF View!Next
    <3>6. QED
      BY <3>4, <3>5
  <2>4. ASSUME NEW t \in Tabs,
               \/ Connected(t) \/ ServerSend(t) \/ Drop(t)
               \/ \E v \in Hosts \cup {Blank} : Edit(t, v)
        PROVE  [View!Next]_View!vars
    <3>1. UNCHANGED <<stored, page, title, displayed>>
      BY <2>4 DEF Connected, ServerSend, Drop, Edit
    <3>2. QED
      BY <3>1, ViewStutter
  <2>5. CASE UNCHANGED vars
    <3>1. UNCHANGED <<stored, page, title, displayed>>
      BY <2>5 DEF vars
    <3>2. QED
      BY <3>1, ViewStutter
  <2>6. QED
    BY <2>1, <2>2, <2>3, <2>4, <2>5 DEF Next
<1>3. QED
  BY <1>1, <1>2, ClosedTabsIdle, PTL DEF Spec, ImplementsView, View!Spec

=============================================================================

------------------------- MODULE ChirpStream_proofs -------------------------
(***************************************************************************)
(* Proofs about the chirp feed, for every set of users, every bound on the *)
(* chirps and either kind of stream.                                       *)
(***************************************************************************)
EXTENDS ChirpStream, SequenceTheorems, TLAPS

(* Every author of a sequence of chirps is a user.                         *)
LEMMA AuthorsTyped ==
    ASSUME NEW s \in Seq(Chirp)
    PROVE  Authors(s) \subseteq Users
<1> SUFFICES ASSUME NEW i \in 1..Len(s) PROVE s[i].userId \in Users
  BY DEF Authors
<1>1. s[i] \in Chirp
  OBVIOUS
<1>2. QED
  BY <1>1 DEF Chirp

(* A render over a feed of chirps keeps loadingUsers a set of users and    *)
(* the request counts natural numbers.                                     *)
LEMMA RenderTyped ==
    ASSUME TypeOK, NEW ch \in Seq(Chirp), NEW us, NEW base \in [Users -> Nat],
           RenderLoads(ch, us, base)
    PROVE  loadingUsers' \subseteq Users /\ inflight' \in [Users -> Nat]
<1>1. ToLoad(ch, us, loadingUsers) \subseteq Users
  BY AuthorsTyped DEF ToLoad
<1>2. QED
  BY <1>1 DEF RenderLoads, TypeOK

(* The initial state is well typed.                                        *)
LEMMA InitTyped == Init => TypeOK
<1> SUFFICES ASSUME Init PROVE TypeOK
  OBVIOUS
<1>1. sent \in Seq(Chirp) /\ net \in Seq(Chirp) /\ chirps \in Seq(Chirp)
  BY DEF Init
<1>2. users \subseteq Users /\ loadingUsers \subseteq Users
      /\ inflight \in [Users -> Nat]
  BY DEF Init
<1>3. phase \in {"new", "mounted", "unmounted"}
      /\ sock \in {"none", "connecting", "open", "closed"}
      /\ subscribed \in BOOLEAN
  BY DEF Init
<1>4. QED
  BY <1>1, <1>2, <1>3 DEF TypeOK

(* Every step keeps the state well typed.                                  *)
LEMMA NextTyped == TypeOK /\ [Next]_vars => TypeOK'
<1> SUFFICES ASSUME TypeOK, [Next]_vars PROVE TypeOK'
  OBVIOUS
<1>1. CASE Mount
  BY <1>1 DEF Mount, TypeOK
<1>2. CASE Open
  BY <1>2, ConstantsAssumption DEF Open, TypeOK
<1>3. CASE ServerSubscribe
  BY <1>3 DEF ServerSubscribe, TypeOK
<1>4. ASSUME NEW u \in Users, ServerPush(u) PROVE TypeOK'
  BY <1>4, ConstantsAssumption DEF ServerPush, TypeOK, Chirp
<1>5. CASE Receive
  <2>1. <<Head(net)>> \o chirps \in Seq(Chirp) /\ Tail(net) \in Seq(Chirp)
    BY <1>5 DEF Receive, TypeOK
  <2>2. loadingUsers' \subseteq Users /\ inflight' \in [Users -> Nat]
    BY <1>5, <2>1, RenderTyped DEF Receive, TypeOK
  <2>3. QED
    BY <1>5, <2>1, <2>2 DEF Receive, TypeOK
<1>6. ASSUME NEW u \in Users, FetchOk(u) PROVE TypeOK'
  <2>1. [inflight EXCEPT ![u] = @ - 1] \in [Users -> Nat]
    BY <1>6 DEF FetchOk, TypeOK
  <2>2. loadingUsers' \subseteq Users /\ inflight' \in [Users -> Nat]
    BY <1>6, <2>1, RenderTyped DEF FetchOk, TypeOK
  <2>3. QED
    BY <1>6, <2>2 DEF FetchOk, TypeOK
<1>7. ASSUME NEW u \in Users, FetchFail(u) PROVE TypeOK'
  BY <1>7 DEF FetchFail, TypeOK
<1>8. CASE Drop
  BY <1>8 DEF Drop, TypeOK
<1>9. CASE Unmount
  BY <1>9 DEF Unmount, TypeOK
<1>10. CASE UNCHANGED vars
  BY <1>10 DEF vars, TypeOK
<1>11. QED
  BY <1>1, <1>2, <1>3, <1>4, <1>5, <1>6, <1>7, <1>8, <1>9, <1>10 DEF Next

(* Type correctness: the feed and the channel hold chirps and every        *)
(* request count is a natural number, whatever order renders, responses    *)
(* and socket events take.                                                 *)
THEOREM TypeCorrect == Spec => []TypeOK
  BY InitTyped, NextTyped, PTL DEF Spec


-----------------------------------------------------------------------------
(* The inductive invariant.  LifeInv ties the socket to the component's    *)
(* lifecycle: no socket before componentDidMount, a closed one after       *)
(* componentWillUnmount.  FetchInv is the in-flight guard: a request is    *)
(* outstanding only for an id in loadingUsers, so render never starts a    *)
(* second one; Mount may reset loadingUsers because nothing is outstanding *)
(* before it.                                                              *)
LifeInv ==
    /\ phase = "new" <=> sock = "none"
    /\ phase = "new" => chirps = <<>>
    /\ phase = "unmounted" => sock = "closed"

FetchInv ==
    /\ \A u \in Users : inflight[u] <= 1
    /\ \A u \in Users : inflight[u] > 0 => u \in loadingUsers
    /\ phase = "new" => \A u \in Users : inflight[u] = 0

(* Every chirp on screen has its author resolved or requested: the render *)
(* fact the in-flight bookkeeping rests on, since a resolved user may be   *)
(* dropped from loadingUsers only because it is in users.                  *)
EveryAuthorRequested ==
    Authors(chirps) \subseteq users \cup loadingUsers

IInv == TypeOK /\ LifeInv /\ FetchInv /\ EveryAuthorRequested

(* A render adds to loadingUsers exactly the authors it starts requests    *)
(* for, each from a count of zero, and every author of the feed it renders *)
(* is then resolved or loading.                                            *)
LEMMA RenderKeepsGuard ==
    ASSUME TypeOK, FetchInv, NEW ch \in Seq(Chirp), NEW us,
           NEW base \in [Users -> Nat],
           \A u \in Users : base[u] <= 1,
           \A u \in Users : base[u] > 0 => u \in loadingUsers,
           RenderLoads(ch, us, base)
    PROVE  /\ \A u \in Users : inflight'[u] <= 1
           /\ \A u \in Users : inflight'[u] > 0 => u \in loadingUsers'
           /\ Authors(ch) \subseteq us \cup loadingUsers'
<1>1. ToLoad(ch, us, loadingUsers) \subseteq Users
  BY AuthorsTyped DEF ToLoad
<1>2. QED
  BY <1>1 DEF RenderLoads, ToLoad

(* IInv holds in every reachable state of the feed.                        *)
THEOREM Invariant == Spec => []IInv
<1>1. Init => IInv
  BY InitTyped DEF Init, IInv, LifeInv, FetchInv, EveryAuthorRequested, Authors
<1>2. IInv /\ [Next]_vars => IInv'
  <2> SUFFICES ASSUME IInv, [Next]_vars PROVE IInv'
    OBVIOUS
  <2> USE DEF IInv
  <2>0. TypeOK'
    BY NextTyped
  <2>1. CASE Mount
    BY <2>0, <2>1 DEF Mount, LifeInv, FetchInv, EveryAuthorRequested, Authors
  <2>2. CASE Open
    BY <2>0, <2>2 DEF Open, LifeInv, FetchInv, EveryAuthorRequested
  <2>3. CASE ServerSubscribe
    BY <2>0, <2>3 DEF ServerSubscribe, LifeInv, FetchInv, EveryAuthorRequested
  <2>4. ASSUME NEW u \in Users, ServerPush(u) PROVE IInv'
    BY <2>0, <2>4 DEF ServerPush, LifeInv, FetchInv, EveryAuthorRequested
  <2>5. CASE Receive
    <3> DEFINE ch == <<Head(net)>> \o chirps
    <3>1. ch \in Seq(Chirp)
      BY <2>5 DEF Receive, TypeOK
    <3>2. phase = "mounted"
      BY <2>5 DEF Receive, LifeInv, TypeOK
    <3>3. /\ \A u \in Users : inflight'[u] <= 1
          /\ \A u \in Users : inflight'[u] > 0 => u \in loadingUsers'
          /\ Authors(ch) \subseteq users \cup loadingUsers'
      BY <2>5, <3>1, RenderKeepsGuard DEF Receive, TypeOK, FetchInv
    <3>4. LifeInv'
      BY <2>5, <3>2 DEF Receive, LifeInv
    <3>5. QED
      BY <2>0, <2>5, <3>2, <3>3, <3>4 DEF Receive, FetchInv, EveryAuthorRequested
  <2>6. ASSUME NEW u \in Users, FetchOk(u) PROVE IInv'
    <3> DEFINE settled == [inflight EXCEPT ![u] = @ - 1]
    <3>1. /\ settled \in [Users -> Nat]
          /\ \A v \in Users : settled[v] <= 1
          /\ \A v \in Users : settled[v] > 0 => v \in loadingUsers
      BY <2>6 DEF FetchOk, TypeOK, FetchInv
    <3>2. CASE phase = "mounted"
      <4>0. RenderLoads(chirps, users \cup {u}, settled)
        BY <2>6, <3>2 DEF FetchOk
      <4>1. /\ \A v \in Users : inflight'[v] <= 1
            /\ \A v \in Users : inflight'[v] > 0 => v \in loadingUsers'
            /\ Authors(chirps) \subseteq (users \cup {u}) \cup loadingUsers'
        BY <3>1, <4>0, RenderKeepsGuard DEF TypeOK
      <4>2. QED
        BY <2>0, <2>6, <3>2, <4>1 DEF FetchOk, LifeInv, FetchInv, EveryAuthorRequested
    <3>3. CASE phase # "mounted"
      BY <2>0, <2>6, <3>1, <3>3 DEF FetchOk, LifeInv, FetchInv, EveryAuthorRequested
    <3>4. QED
      BY <3>2, <3>3
  <2>7. ASSUME NEW u \in Users, FetchFail(u) PROVE IInv'
    BY <2>0, <2>7 DEF FetchFail, LifeInv, FetchInv, EveryAuthorRequested, TypeOK
  <2>8. CASE Drop
    BY <2>0, <2>8 DEF Drop, LifeInv, FetchInv, EveryAuthorRequested
  <2>9. CASE Unmount
    BY <2>0, <2>9 DEF Unmount, LifeInv, FetchInv, EveryAuthorRequested
  <2>10. CASE UNCHANGED vars
    BY <2>0, <2>10 DEF vars, LifeInv, FetchInv, EveryAuthorRequested
  <2>11. QED
    BY <2>0, <2>1, <2>2, <2>3, <2>4, <2>5, <2>6, <2>7, <2>8, <2>9, <2>10 DEF Next
<1>3. QED
  BY <1>1, <1>2, PTL DEF Spec

(* The in-flight guard of loadUser works for every number of users and     *)
(* chirps: at most one getUser request per id is ever outstanding.         *)
THEOREM FetchDeduplicated == Spec => []NoDuplicateFetch
<1>1. IInv => NoDuplicateFetch
  BY DEF IInv, FetchInv, NoDuplicateFetch
<1>2. QED
  BY <1>1, Invariant, PTL

-----------------------------------------------------------------------------
(* The channel invariant.  Besides FeedIsReversedDelivery, which says how  *)
(* the feed and the frames in transit cut the server's pushes, it records *)
(* that nothing is in transit on a socket that is not live and nothing is *)
(* pushed before the socket exists.                                        *)
FifoInv ==
    /\ FeedIsReversedDelivery
    /\ sock \notin {"connecting", "open"} => net = <<>>
    /\ sock = "none" => sent = <<>>

(* A push appends the same chirp to the server's log and to the channel,   *)
(* which keeps the channel the suffix of the log after the feed.           *)
LEMMA PushKeepsFifo ==
    ASSUME TypeOK, FifoInv, sock = "open", NEW c \in Chirp,
           sent' = Append(sent, c), net' = Append(net, c),
           chirps' = chirps, sock' = sock
    PROVE  FifoInv'
<1> DEFINE L == Len(chirps)
<1>1. /\ Len(sent') = Len(sent) + 1 /\ sent'[Len(sent) + 1] = c
      /\ \A i \in 1..Len(sent) : sent'[i] = sent[i]
  BY AppendProperties DEF TypeOK
<1>2. /\ Len(net') = Len(net) + 1 /\ net'[Len(net) + 1] = c
      /\ \A i \in 1..Len(net) : net'[i] = net[i]
  BY AppendProperties DEF TypeOK
<1>3. /\ L <= Len(sent) /\ Len(net) = Len(sent) - L
      /\ \A i \in 1..L : chirps[i] = sent[L + 1 - i]
      /\ \A i \in 1..Len(net) : net[i] = sent[L + i]
  BY DEF FifoInv, FeedIsReversedDelivery
<1>4. L \in Nat /\ Len(sent) \in Nat /\ Len(net) \in Nat
  BY LenProperties DEF TypeOK
<1>5. \A i \in 1..L : chirps'[i] = sent'[L + 1 - i]
  BY <1>1, <1>3, <1>4
<1>6. \A i \in 1..Len(net') : net'[i] = sent'[L + i]
  <2> SUFFICES ASSUME NEW i \in 1..Len(net') PROVE net'[i] = sent'[L + i]
    OBVIOUS
  <2>1. CASE i <= Len(net)
    <3>1. i \in 1..Len(net) /\ L + i \in 1..Len(sent)
      BY <2>1, <1>2, <1>3, <1>4
    <3>2. net'[i] = net[i]
      BY <3>1, <1>2
    <3>3. net[i] = sent[L + i]
      BY <3>1, <1>3
    <3>4. sent'[L + i] = sent[L + i]
      BY <3>1, <1>1
    <3>5. QED
      BY <3>2, <3>3, <3>4, Zenon
  <2>2. CASE i = Len(net) + 1
    <3>1. L + i = Len(sent) + 1
      BY <2>2, <1>3, <1>4
    <3>2. QED
      BY <2>2, <3>1, <1>1, <1>2
  <2>3. i <= Len(net) \/ i = Len(net) + 1
    BY <1>2, <1>4
  <2>4. QED
    BY <2>1, <2>2, <2>3
<1>7. QED
  BY <1>1, <1>2, <1>3, <1>4, <1>5, <1>6 DEF FifoInv, FeedIsReversedDelivery

(* onmessage takes the head of the channel, the next chirp of the log,     *)
(* and puts it at the head of the feed.                                    *)
LEMMA ReceiveKeepsFifo ==
    ASSUME TypeOK, FifoInv, sock = "open", net # <<>>,
           chirps' = <<Head(net)>> \o chirps, net' = Tail(net),
           sent' = sent, sock' = sock
    PROVE  FifoInv' /\ Head(net) = sent[Len(chirps) + 1]
                    /\ Len(chirps) < Len(sent)
<1> DEFINE L == Len(chirps)
<1>1. /\ L <= Len(sent) /\ Len(net) = Len(sent) - L
      /\ \A i \in 1..L : chirps[i] = sent[L + 1 - i]
      /\ \A i \in 1..Len(net) : net[i] = sent[L + i]
  BY DEF FifoInv, FeedIsReversedDelivery
<1>2. L \in Nat /\ Len(sent) \in Nat /\ Len(net) \in Nat /\ Len(net) > 0
  BY LenProperties, EmptySeq DEF TypeOK
<1>3. /\ Head(net) \in Chirp /\ Tail(net) \in Seq(Chirp)
      /\ Len(Tail(net)) = Len(net) - 1
      /\ \A i \in 1..Len(Tail(net)) : Tail(net)[i] = net[i + 1]
  BY HeadTailProperties DEF TypeOK
<1>4. Head(net) = sent[L + 1]
  <2>1. Head(net) = net[1]
    OBVIOUS
  <2>2. 1 \in 1..Len(net)
    BY <1>2
  <2>3. QED
    BY <2>1, <2>2, <1>1
<1>5. /\ Len(chirps') = L + 1
      /\ \A i \in 1..L + 1 :
            chirps'[i] = IF i <= 1 THEN Head(net) ELSE chirps[i - 1]
  <2>1. <<Head(net)>> \in Seq(Chirp) /\ Len(<<Head(net)>>) = 1
    BY <1>3
  <2>2. QED
    BY <2>1, ConcatProperties DEF TypeOK
<1>6. \A i \in 1..L + 1 : chirps'[i] = sent[(L + 1) + 1 - i]
  <2> SUFFICES ASSUME NEW i \in 1..L + 1
               PROVE chirps'[i] = sent[(L + 1) + 1 - i]
    OBVIOUS
  <2>1. CASE i = 1
    BY <2>1, <1>2, <1>4, <1>5
  <2>2. CASE i # 1
    <3>1. i - 1 \in 1..L /\ (L + 1) + 1 - i = L + 1 - (i - 1)
      BY <2>2, <1>2
    <3>2. chirps'[i] = chirps[i - 1]
      BY <2>2, <1>2, <1>5
    <3>3. QED
      BY <3>1, <3>2, <1>1
  <2>3. QED
    BY <2>1, <2>2
<1>7. \A i \in 1..Len(net') : net'[i] = sent[(L + 1) + i]
  <2> SUFFICES ASSUME NEW i \in 1..Len(net')
               PROVE net'[i] = sent[(L + 1) + i]
    OBVIOUS
  <2>1. i + 1 \in 1..Len(net) /\ (L + 1) + i = L + (i + 1)
    BY <1>2, <1>3
  <2>2. net'[i] = net[i + 1]
    BY <1>3
  <2>3. QED
    BY <2>1, <2>2, <1>1
<1>8. QED
  BY <1>1, <1>2, <1>3, <1>4, <1>5, <1>6, <1>7 DEF FifoInv,
     FeedIsReversedDelivery

(* FifoInv holds in every reachable state, given the lifecycle invariant.  *)
THEOREM Fifo == Spec => []FifoInv
<1>1. Init => FifoInv
  BY DEF Init, FifoInv, FeedIsReversedDelivery
<1>2. IInv /\ FifoInv /\ [Next]_vars => FifoInv'
  <2> SUFFICES ASSUME IInv, FifoInv, [Next]_vars PROVE FifoInv'
    OBVIOUS
  <2> USE DEF IInv
  <2>1. CASE Mount
    <3>1. sent = <<>> /\ net = <<>> /\ chirps = <<>>
      BY <2>1 DEF Mount, LifeInv, FifoInv
    <3>2. QED
      BY <2>1, <3>1 DEF Mount, FifoInv, FeedIsReversedDelivery
  <2>2. CASE Open
    BY <2>2 DEF Open, FifoInv, FeedIsReversedDelivery
  <2>3. CASE ServerSubscribe
    BY <2>3 DEF ServerSubscribe, FifoInv, FeedIsReversedDelivery
  <2>4. ASSUME NEW u \in Users, ServerPush(u) PROVE FifoInv'
    <3> DEFINE c == [userId |-> u, uuid |-> Len(sent) + 1]
    <3>0. Len(sent) \in Nat /\ Len(sent) < MaxChirps
      BY <2>4, LenProperties DEF ServerPush, TypeOK
    <3>1. c \in Chirp
      BY <3>0, ConstantsAssumption DEF Chirp
    <3>2. sent' = Append(sent, c) /\ net' = Append(net, c)
          /\ chirps' = chirps /\ sock' = sock /\ sock = "open"
      BY <2>4 DEF ServerPush
    <3>3. QED
      BY <3>1, <3>2, PushKeepsFifo
  <2>5. CASE Receive
    BY <2>5, ReceiveKeepsFifo DEF Receive
  <2>6. ASSUME NEW u \in Users, FetchOk(u) PROVE FifoInv'
    BY <2>6 DEF FetchOk, FifoInv, FeedIsReversedDelivery
  <2>7. ASSUME NEW u \in Users, FetchFail(u) PROVE FifoInv'
    BY <2>7 DEF FetchFail, FifoInv, FeedIsReversedDelivery
  <2>8. CASE Drop
    BY <2>8 DEF Drop, FifoInv, FeedIsReversedDelivery
  <2>9. CASE Unmount
    BY <2>9 DEF Unmount, FifoInv, FeedIsReversedDelivery
  <2>10. CASE UNCHANGED vars
    BY <2>10 DEF vars, FifoInv, FeedIsReversedDelivery
  <2>11. QED
    BY <2>1, <2>2, <2>3, <2>4, <2>5, <2>6, <2>7, <2>8, <2>9, <2>10 DEF Next
<1>3. QED
  BY <1>1, <1>2, Invariant, PTL DEF Spec

(* The feed is the server's pushes in reverse, for every bound: no chirp   *)
(* is lost, duplicated or reordered between the socket and the screen.     *)
THEOREM FeedOrdered == Spec => []FeedIsReversedDelivery
  BY Fifo, PTL DEF FifoInv

-----------------------------------------------------------------------------
(* ChirpStream implements the stream-subscriber contract of spec 4.2       *)
(* under the mapping of ChirpStream.tla: mount connects, a push publishes, *)
(* onmessage folds the next published chirp in at the head, unmount        *)
(* disconnects, and every other step (the handshake, the subscription, a   *)
(* lookup, a drop) leaves the subscriber's view unchanged.                 *)
THEOREM Refinement == Spec => ImplementsSubscriber
<1>1. Init => Subscriber!Init
  BY DEF Init, Subscriber!Init, SubscriberStatus
<1>2. IInv /\ FifoInv /\ [Next]_vars => [Subscriber!Next]_Subscriber!vars
  <2> SUFFICES ASSUME IInv, FifoInv, [Next]_vars
               PROVE  [Subscriber!Next]_Subscriber!vars
    OBVIOUS
  <2> USE DEF IInv
  <2>1. CASE Mount
    <3>1. Subscriber!Connect
      BY <2>1 DEF Mount, Subscriber!Connect, SubscriberStatus
    <3>2. QED
      BY <3>1 DEF Subscriber!Next
  <2>2. ASSUME NEW u \in Users, ServerPush(u)
        PROVE  [Subscriber!Next]_Subscriber!vars
    <3> DEFINE c == [userId |-> u, uuid |-> Len(sent) + 1]
    <3>1. Len(sent) \in Nat /\ Len(sent) < MaxChirps
      BY <2>2, LenProperties DEF ServerPush, TypeOK
    <3>2. c \in Chirp
      BY <3>1, ConstantsAssumption DEF Chirp
    <3>3. phase = "mounted"
      BY <2>2 DEF ServerPush, LifeInv, TypeOK
    <3>4. Subscriber!Publish(c)
      BY <2>2, <3>3 DEF ServerPush, Subscriber!Publish, SubscriberStatus
    <3>5. QED
      BY <3>2, <3>4 DEF Subscriber!Next
  <2>3. CASE Receive
    <3>1. phase = "mounted"
      BY <2>3 DEF Receive, LifeInv, TypeOK
    <3>2. /\ Head(net) = sent[Len(chirps) + 1]
          /\ Len(chirps) < Len(sent)
      BY <2>3, ReceiveKeepsFifo DEF Receive
    <3>3. Subscriber!Fold
      BY <2>3, <3>1, <3>2 DEF Receive, Subscriber!Fold, SubscriberStatus
    <3>4. QED
      BY <3>3 DEF Subscriber!Next
  <2>4. CASE Unmount
    <3>1. Subscriber!Disconnect
      BY <2>4 DEF Unmount, Subscriber!Disconnect, SubscriberStatus
    <3>2. QED
      BY <3>1 DEF Subscriber!Next
  <2>5. CASE Open \/ ServerSubscribe \/ Drop \/ UNCHANGED vars
        \/ \E u \in Users : FetchOk(u) \/ FetchFail(u)
    BY <2>5 DEF Open, ServerSubscribe, Drop, FetchOk, FetchFail, vars,
       Subscriber!vars, SubscriberStatus
  <2>6. QED
    BY <2>1, <2>2, <2>3, <2>4, <2>5 DEF Next
<1>3. QED
  BY <1>1, <1>2, Invariant, Fifo, PTL DEF Spec, ImplementsSubscriber,
     Subscriber!Spec
=============================================================================

--------------------------- MODULE CircuitBreaker ---------------------------
(***************************************************************************)
(* The circuit-breaker dashboard (circuitbreaker.jsx) open in one or more  *)
(* browser tabs that share localStorage.serviceHostPort.                   *)
(*                                                                         *)
(* Loading /cb renders CircuitBreakers, which defaults the stored host,    *)
(* titles the page with it and mounts a CircuitBreakerStream whose         *)
(* componentDidMount opens a WebSocket to that host (no onopen handler).   *)
(* Each message is a whole array of breaker states that replaces           *)
(* state.circuitBreakers.  ServiceHostPortForm.handleSubmit stores the     *)
(* trimmed host but never calls preventDefault, so the browser then        *)
(* submits the form: the tab navigates to /cb again and the page reloads.  *)
(* The navigation is not immediate; the old page keeps running (and keeps  *)
(* receiving) until it is unloaded.                                        *)
(*                                                                         *)
(* The service at each host is the environment: it sends snapshots in      *)
(* order over a FIFO channel and may drop the connection.                  *)
(***************************************************************************)
EXTENDS Naturals, Sequences

CONSTANTS
    Tabs,         \* browser tabs showing the dashboard
    Hosts,        \* host:port values a user may type
    DefaultHost,  \* "localhost:27462"
    None,         \* localStorage.serviceHostPort unset
    Blank,        \* a whitespace-only input
    NB,           \* number of breakers a service reports
    MaxSnaps      \* bound on the snapshots sent on one connection

ASSUME CircuitBreakerAssumption ==
    /\ DefaultHost \in Hosts
    /\ None \notin Hosts
    /\ Blank \notin Hosts
    /\ NB \in Nat \ {0}
    /\ MaxSnaps \in Nat

VARIABLES
    stored,     \* localStorage.serviceHostPort, shared by all tabs
    page,       \* page[t]: "closed", "shown", or "leaving" (navigating)
    title,      \* host named in the page's subtitle
    typed,      \* ServiceHostPortForm's state.serviceHostPort
    sockHost,   \* host the tab's WebSocket was opened to
    sockSt,     \* its readyState: "none", "connecting", "open", "closed"
    sentCnt,    \* snapshots the service has sent on that socket
    net,        \* snapshots sent and not yet dispatched to onmessage
    displayed   \* CircuitBreakerStream's state.circuitBreakers

vars == <<stored, page, title, typed, sockHost, sockSt, sentCnt, net,
          displayed>>

(* One row of a snapshot: breaker id, the service it came from, and which *)
(* snapshot of the connection it belongs to.                               *)
Row == [id : 1..NB, host : Hosts, at : 1..MaxSnaps]

(* The k-th array the service at h sends on a connection.                 *)
Snapshot(h, k) == [i \in 1..NB |-> [id |-> i, host |-> h, at |-> k]]

-----------------------------------------------------------------------------
(* Page load of /cb: CircuitBreakers.render defaults and reads the stored *)
(* host, ServiceHostPortForm's getInitialState copies it, and              *)
(* CircuitBreakerStream starts empty and connects in componentDidMount.    *)
(* The previous page of the tab, if any, is unloaded and its socket gone. *)
LoadPage(t) ==
    LET h == IF stored = None THEN DefaultHost ELSE stored IN
    /\ stored' = h
    /\ page' = [page EXCEPT ![t] = "shown"]
    /\ title' = [title EXCEPT ![t] = h]
    /\ typed' = [typed EXCEPT ![t] = h]
    /\ sockHost' = [sockHost EXCEPT ![t] = h]
    /\ sockSt' = [sockSt EXCEPT ![t] = "connecting"]
    /\ sentCnt' = [sentCnt EXCEPT ![t] = 0]
    /\ net' = [net EXCEPT ![t] = <<>>]
    /\ displayed' = [displayed EXCEPT ![t] = <<>>]

Init ==
    /\ stored \in Hosts \cup {None}
    /\ page = [t \in Tabs |-> "closed"]
    /\ title = [t \in Tabs |-> None]
    /\ typed = [t \in Tabs |-> Blank]
    /\ sockHost = [t \in Tabs |-> None]
    /\ sockSt = [t \in Tabs |-> "none"]
    /\ sentCnt = [t \in Tabs |-> 0]
    /\ net = [t \in Tabs |-> <<>>]
    /\ displayed = [t \in Tabs |-> <<>>]

(* The user opens /cb in a tab.                                            *)
Open(t) ==
    /\ page[t] = "closed"
    /\ LoadPage(t)

(* The WebSocket handshake completes.                                      *)
Connected(t) ==
    /\ sockSt[t] = "connecting"
    /\ sockSt' = [sockSt EXCEPT ![t] = "open"]
    /\ UNCHANGED <<stored, page, title, typed, sockHost, sentCnt, net,
                   displayed>>

(* The service pushes its next snapshot.                                   *)
ServerSend(t) ==
    /\ sockSt[t] = "open"
    /\ sentCnt[t] < MaxSnaps
    /\ sentCnt' = [sentCnt EXCEPT ![t] = @ + 1]
    /\ net' = [net EXCEPT ![t] =
                   Append(@, Snapshot(sockHost[t], sentCnt'[t]))]
    /\ UNCHANGED <<stored, page, title, typed, sockHost, sockSt, displayed>>

(* Mutant: the feed's prepend pattern kept in place of replacement.        *)
ReceiveAccumulates(t) ==
    /\ sockSt[t] = "open"
    /\ net[t] # <<>>
    /\ displayed' = [displayed EXCEPT ![t] = Head(net[t]) \o @]
    /\ net' = [net EXCEPT ![t] = Tail(@)]
    /\ UNCHANGED <<stored, page, title, typed, sockHost, sockSt, sentCnt>>

(* onmessage parses the array and the connect callback replaces           *)
(* state.circuitBreakers with it.                                          *)
Receive(t) ==
    /\ sockSt[t] = "open"
    /\ net[t] # <<>>
    /\ displayed' = [displayed EXCEPT ![t] = Head(net[t])]
    /\ net' = [net EXCEPT ![t] = Tail(@)]
    /\ UNCHANGED <<stored, page, title, typed, sockHost, sockSt, sentCnt>>

(* The connection fails or the service closes it; nothing reconnects.      *)
Drop(t) ==
    /\ sockSt[t] \in {"connecting", "open"}
    /\ sockSt' = [sockSt EXCEPT ![t] = "closed"]
    /\ net' = [net EXCEPT ![t] = <<>>]
    /\ UNCHANGED <<stored, page, title, typed, sockHost, sentCnt, displayed>>

(* handleMessageChange: the user edits the host field.                     *)
Edit(t, v) ==
    /\ page[t] # "closed"
    /\ typed' = [typed EXCEPT ![t] = v]
    /\ UNCHANGED <<stored, page, title, sockHost, sockSt, sentCnt, net,
                   displayed>>

(* Mutant: the early return on an empty trimmed host dropped.             *)
SubmitNoBlankCheck(t) ==
    /\ page[t] # "closed"
    /\ stored' = typed[t]
    /\ page' = [page EXCEPT ![t] = "leaving"]
    /\ UNCHANGED <<title, typed, sockHost, sockSt, sentCnt, net, displayed>>

(* handleSubmit: a blank host returns early, any other is stored; in both *)
(* cases the default form submission then starts a navigation to /cb.      *)
Submit(t) ==
    /\ page[t] # "closed"
    /\ stored' = IF typed[t] = Blank THEN stored ELSE typed[t]
    /\ page' = [page EXCEPT ![t] = "leaving"]
    /\ UNCHANGED <<title, typed, sockHost, sockSt, sentCnt, net, displayed>>

(* The navigation started by a submit completes, or the user reloads.     *)
Reload(t) ==
    /\ page[t] \in {"shown", "leaving"}
    /\ LoadPage(t)

Next ==
    \E t \in Tabs :
        \/ Open(t)
        \/ Connected(t)
        \/ ServerSend(t)
        \/ Receive(t)
        \/ Drop(t)
        \/ \E v \in Hosts \cup {Blank} : Edit(t, v)
        \/ Submit(t)
        \/ Reload(t)

Spec == Init /\ [][Next]_vars

-----------------------------------------------------------------------------
(* Type correctness of the dashboard state.                                *)
TypeOK ==
    /\ stored \in Hosts \cup {None}
    /\ page \in [Tabs -> {"closed", "shown", "leaving"}]
    /\ title \in [Tabs -> Hosts \cup {None}]
    /\ typed \in [Tabs -> Hosts \cup {Blank}]
    /\ sockHost \in [Tabs -> Hosts \cup {None}]
    /\ sockSt \in [Tabs -> {"none", "connecting", "open", "closed"}]
    /\ sentCnt \in [Tabs -> 0..MaxSnaps]
    /\ net \in [Tabs -> Seq([1..NB -> Row])]
    /\ displayed \in [Tabs -> Seq(Row)]

(* Snapshots a tab has taken off its current socket.                       *)
Delivered(t) == sentCnt[t] - Len(net[t])

(* Spec 8: while its socket is live, a tab shows exactly the last array    *)
(* the service sent that onmessage has dispatched (no accumulation), and   *)
(* the arrays still in transit are the later ones, in order.              *)
LatestSnapshotShown ==
    \A t \in Tabs : sockSt[t] \in {"connecting", "open"} =>
        /\ Len(net[t]) <= sentCnt[t]
        /\ displayed[t] = IF Delivered(t) = 0 THEN <<>>
                          ELSE Snapshot(sockHost[t], Delivered(t))
        /\ \A i \in 1..Len(net[t]) :
               net[t][i] = Snapshot(sockHost[t], Delivered(t) + i)

-----------------------------------------------------------------------------
(* Refinement mapping onto the dashboard's contract: a tab is opened once  *)
(* its page is not "closed", and the array it shows is numbered by its     *)
(* rows when they are exactly one whole array of the service the title    *)
(* names; any other view maps to a number the contract never reaches.      *)
(* Sockets, channels, the form's text and navigation are hidden.           *)
OpenedTabs == {t \in Tabs : page[t] # "closed"}

(* The view of the k-th array of host h, none for k = 0.                   *)
ViewOf(h, k) == IF k = 0 THEN <<>> ELSE Snapshot(h, k)

(* The number of the array of host h that rows d are, MaxSnaps + 1 if     *)
(* they are none.                                                           *)
ArrayNumber(d, h) ==
    IF \E k \in 0..MaxSnaps : d = ViewOf(h, k)
      THEN CHOOSE k \in 0..MaxSnaps : d = ViewOf(h, k)
      ELSE MaxSnaps + 1

ShownIndex == [t \in Tabs |-> ArrayNumber(displayed[t], title[t])]

View == INSTANCE SnapshotView
            WITH opened <- OpenedTabs, shown <- ShownIndex

(* The dashboard implements its contract: every tab shows, one after the   *)
(* other and none skipped, the arrays of the service its title names, and  *)
(* starts over on each page load, across drops, submits and other tabs.    *)
ImplementsView == View!Spec
=============================================================================

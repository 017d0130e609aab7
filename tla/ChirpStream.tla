---------------------------- MODULE ChirpStream ----------------------------
(***************************************************************************)
(* The live chirp feed of the Chirper front end (main.jsx): one mounted    *)
(* ChirpStream component, the WebSocket opened for it by createStream's    *)
(* connect, and the lazy author lookup of loadUser / getUser.              *)
(*                                                                         *)
(* The server end of the socket is the environment: it pushes chirps in    *)
(* order over a FIFO channel (TCP), and it may drop the connection.  Each  *)
(* getUser call is an outstanding XHR that later succeeds (only for a user *)
(* the backend has) or fails; getUser maps every failure to null.          *)
(*                                                                         *)
(* React runs every handler to completion on the single UI thread, and a   *)
(* setState from a WebSocket or XHR callback re-renders synchronously, so  *)
(* each action below is one callback together with the render it causes.   *)
(***************************************************************************)
EXTENDS Naturals, Sequences

CONSTANTS
    Users,      \* user ids that can author a chirp
    Known,      \* the ids GET /api/users/{id} finds
    HasOnOpen,  \* TRUE for createUserStream (sends {userIds} on open)
    MaxChirps   \* bound on the chirps the server pushes on the socket

ASSUME ConstantsAssumption ==
    /\ Known \subseteq Users
    /\ HasOnOpen \in BOOLEAN
    /\ MaxChirps \in Nat

VARIABLES
    phase,        \* lifecycle of the ChirpStream instance
    sock,         \* readyState of the WebSocket made in connect
    subscribed,   \* the server streams chirps to this socket
    sent,         \* chirps the server has pushed on this socket, in order
    net,          \* chirps pushed and not yet dispatched to onmessage
    chirps,       \* this.state.chirps, newest first
    users,        \* ids in this.state.users (resolved authors)
    loadingUsers, \* ids in this.loadingUsers
    inflight      \* inflight[u]: getUser(u) requests not yet settled

vars == <<phase, sock, subscribed, sent, net, chirps, users, loadingUsers,
          inflight>>

(* A chirp event as the server sends it; uuid is its position on the      *)
(* socket, so that two chirps of one author stay distinct.                 *)
Chirp == [userId : Users, uuid : 1..MaxChirps]

Authors(s) == {s[i].userId : i \in 1..Len(s)}

-----------------------------------------------------------------------------
(* ChirpStream.render: every chirp whose author is not in state.users      *)
(* calls loadUser, which issues getUser for an id not yet in loadingUsers. *)
(* ToLoad is the set of ids that render starts a request for.              *)
ToLoad(ch, us, loading) == Authors(ch) \ (us \cup loading)

(* Mutants (plausible slips in render / loadUser).  NoGuard drops the      *)
(* hasOwnProperty test on loadingUsers; WholeChirp calls loadUser(chirp)   *)
(* instead of loadUser(chirp.userId).                                      *)
RenderLoadsNoGuard(ch, us, base) ==
    LET new == Authors(ch) \ us IN
    /\ loadingUsers' = loadingUsers \cup new
    /\ inflight' = [u \in Users |-> IF u \in new THEN base[u] + 1 ELSE base[u]]

RenderLoadsWholeChirp(ch, us, base) ==
    LET new == ToLoad(ch, us, loadingUsers) IN
    /\ loadingUsers' = loadingUsers \cup
                          {ch[i] : i \in {j \in 1..Len(ch) : ch[j].userId \in new}}
    /\ inflight' = [u \in Users |-> IF u \in new THEN base[u] + 1 ELSE base[u]]

RenderLoads(ch, us, base) ==
    LET new == ToLoad(ch, us, loadingUsers) IN
    /\ loadingUsers' = loadingUsers \cup new
    /\ inflight' = [u \in Users |-> IF u \in new THEN base[u] + 1 ELSE base[u]]

-----------------------------------------------------------------------------
(* getInitialState: no chirps, and users from the users prop, which both   *)
(* parents pass empty at mount (ActivityStream's fresh state.users, and    *)
(* UserChirps before its own getUser returns).  The component is           *)
(* constructed and rendered but componentDidMount has not run yet.         *)
Init ==
    /\ phase = "new"
    /\ sock = "none"
    /\ subscribed = FALSE
    /\ sent = <<>>
    /\ net = <<>>
    /\ chirps = <<>>
    /\ users = {}
    /\ loadingUsers = {}
    /\ inflight = [u \in Users |-> 0]

(* componentDidMount: reset loadingUsers and connect, which creates the    *)
(* WebSocket (CONNECTING) and installs onopen and onmessage.               *)
Mount ==
    /\ phase = "new"
    /\ phase' = "mounted"
    /\ sock' = "connecting"
    /\ loadingUsers' = {}
    /\ UNCHANGED <<subscribed, sent, net, chirps, users, inflight>>

(* The socket opens.  With an onopen (createUserStream) the handler sends  *)
(* the subscription and the server streams once it has it; the activity   *)
(* stream needs no message and streams from the start.                     *)
Open ==
    /\ sock = "connecting"
    /\ sock' = "open"
    /\ subscribed' = ~HasOnOpen
    /\ UNCHANGED <<phase, sent, net, chirps, users, loadingUsers, inflight>>

ServerSubscribe ==
    /\ HasOnOpen
    /\ sock = "open"
    /\ ~subscribed
    /\ subscribed' = TRUE
    /\ UNCHANGED <<phase, sock, sent, net, chirps, users, loadingUsers,
                   inflight>>

(* The server pushes a chirp of author u on the socket.                    *)
ServerPush(u) ==
    /\ sock = "open"
    /\ subscribed
    /\ Len(sent) < MaxChirps
    /\ LET c == [userId |-> u, uuid |-> Len(sent) + 1] IN
         /\ sent' = Append(sent, c)
         /\ net' = Append(net, c)
    /\ UNCHANGED <<phase, sock, subscribed, chirps, users, loadingUsers,
                   inflight>>

(* Mutants of onmessage: Appends concatenates in the wrong order           *)
(* (chirps.concat([chirp])); OnlyWithOnOpen installs onmessage inside the  *)
(* if (onopen) block of connect.                                           *)
ReceiveAppends ==
    /\ sock = "open"
    /\ net # <<>>
    /\ LET newChirps == chirps \o <<Head(net)>> IN
         /\ chirps' = newChirps
         /\ RenderLoads(newChirps, users, inflight)
    /\ net' = Tail(net)
    /\ UNCHANGED <<phase, sock, subscribed, sent, users>>

ReceiveOnlyWithOnOpen ==
    /\ HasOnOpen
    /\ sock = "open"
    /\ net # <<>>
    /\ LET newChirps == <<Head(net)>> \o chirps IN
         /\ chirps' = newChirps
         /\ RenderLoads(newChirps, users, inflight)
    /\ net' = Tail(net)
    /\ UNCHANGED <<phase, sock, subscribed, sent, users>>

(* stream.onmessage: parse the frame and call the connect callback, which  *)
(* prepends the chirp and calls setState; the re-render runs loadUser.     *)
Receive ==
    /\ sock = "open"
    /\ net # <<>>
    /\ LET newChirps == <<Head(net)>> \o chirps IN
         /\ chirps' = newChirps
         /\ RenderLoads(newChirps, users, inflight)
    /\ net' = Tail(net)
    /\ UNCHANGED <<phase, sock, subscribed, sent, users>>

(* getUser(u) succeeds.  loadUser's callback mutates state.users in place  *)
(* and calls setState, which re-renders only while mounted (after unmount  *)
(* React ignores it, but the in-place write has happened).                 *)
FetchOk(u) ==
    /\ inflight[u] > 0
    /\ u \in Known
    /\ users' = users \cup {u}
    /\ LET settled == [inflight EXCEPT ![u] = @ - 1] IN
         IF phase = "mounted"
           THEN RenderLoads(chirps, users \cup {u}, settled)
           ELSE /\ inflight' = settled
                /\ UNCHANGED loadingUsers
    /\ UNCHANGED <<phase, sock, subscribed, sent, net, chirps>>

(* getUser(u) resolves to null (not found, or any transport error): the    *)
(* callback does nothing, and u stays in loadingUsers, so it is never      *)
(* requested again.                                                        *)
FetchFail(u) ==
    /\ inflight[u] > 0
    /\ inflight' = [inflight EXCEPT ![u] = @ - 1]
    /\ UNCHANGED <<phase, sock, subscribed, sent, net, chirps, users,
                   loadingUsers>>

(* The connection fails or the server closes it.  No onclose or onerror is *)
(* installed: nothing reconnects, and undispatched frames are lost.        *)
Drop ==
    /\ sock \in {"connecting", "open"}
    /\ sock' = "closed"
    /\ net' = <<>>
    /\ UNCHANGED <<phase, subscribed, sent, chirps, users, loadingUsers,
                   inflight>>

(* componentWillUnmount: this.stream.close().  After close no message      *)
(* event is dispatched; outstanding getUser requests are not cancelled.    *)
Unmount ==
    /\ phase = "mounted"
    /\ phase' = "unmounted"
    /\ sock' = "closed"
    /\ net' = <<>>
    /\ UNCHANGED <<subscribed, sent, chirps, users, loadingUsers, inflight>>

Next ==
    \/ Mount
    \/ Open
    \/ ServerSubscribe
    \/ \E u \in Users : ServerPush(u)
    \/ Receive
    \/ \E u \in Users : FetchOk(u) \/ FetchFail(u)
    \/ Drop
    \/ Unmount

Spec == Init /\ [][Next]_vars

(* The browser dispatches every frame that reached an open socket, and     *)
(* every XHR eventually settles.  The user need never unmount.             *)
Fairness ==
    /\ WF_vars(Receive)
    /\ \A u \in Users : WF_vars(FetchOk(u) \/ FetchFail(u))

FairSpec == Spec /\ Fairness

-----------------------------------------------------------------------------
TypeOK ==
    /\ phase \in {"new", "mounted", "unmounted"}
    /\ sock \in {"none", "connecting", "open", "closed"}
    /\ subscribed \in BOOLEAN
    /\ sent \in Seq(Chirp)
    /\ net \in Seq(Chirp)
    /\ chirps \in Seq(Chirp)
    /\ users \subseteq Users
    /\ loadingUsers \subseteq Users
    /\ inflight \in [Users -> Nat]

(* Ordering (spec 3, 8): the feed shows exactly the chirps the server      *)
(* pushed and onmessage dispatched, newest first, none lost, duplicated or *)
(* reordered; while the socket is live the frames still in transit are    *)
(* exactly the rest of what the server pushed.                             *)
FeedIsReversedDelivery ==
    /\ Len(chirps) <= Len(sent)
    /\ \A i \in 1..Len(chirps) : chirps[i] = sent[Len(chirps) + 1 - i]
    /\ sock \in {"connecting", "open"} =>
          /\ Len(net) = Len(sent) - Len(chirps)
          /\ \A i \in 1..Len(net) : net[i] = sent[Len(chirps) + i]

(* The in-flight guard of loadUser: at most one getUser request per id is  *)
(* outstanding, however the renders triggered by chirps and by resolved    *)
(* users interleave with the responses.                                    *)
NoDuplicateFetch ==
    \A u \in Users : inflight[u] <= 1

(* Every chirp the server pushes is eventually on screen, unless the       *)
(* connection is closed before it is dispatched.                           *)
PushedEventuallyShown ==
    \A k \in 1..MaxChirps :
        Len(sent) >= k ~> (Len(chirps) >= k \/ sock = "closed")
-----------------------------------------------------------------------------
(* Refinement mapping onto the abstract stream subscriber: the lifecycle   *)
(* of the component, the chirps the server pushed on its socket, and       *)
(* state.chirps.  Sockets, subscription, lookups and frames in transit are *)
(* hidden.                                                                 *)
SubscriberStatus ==
    IF phase = "new" THEN "new"
    ELSE IF phase = "mounted" THEN "connected" ELSE "disconnected"

Subscriber == INSTANCE StreamSubscriber
                  WITH Event <- Chirp, status <- SubscriberStatus,
                       published <- sent, events <- chirps

(* ChirpStream implements the stream subscriber of spec 4.2: every step of *)
(* mount, onopen, onmessage, lookup callbacks, drops and unmount is a      *)
(* connect, publish, fold, disconnect or stutter of the abstract one.      *)
ImplementsSubscriber == Subscriber!Spec
=============================================================================

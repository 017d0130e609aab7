--------------------------- MODULE StreamSubscriber ---------------------------
(***************************************************************************)
(* What a stream subscriber promises (spec 4.2), independent of sockets,  *)
(* renders and lookups.  A view node is created disconnected, connects     *)
(* once on mount, folds every event its endpoint publishes into an ordered *)
(* list with the new event at the head, and is torn down once, after which *)
(* its list never changes.  Events the endpoint published need not all be *)
(* folded in: a dropped connection silently stops delivery.                *)
(***************************************************************************)
EXTENDS Naturals, Sequences

CONSTANT Event      \* the events an endpoint can publish

VARIABLES
    status,     \* "new", "connected", or "disconnected" (torn down)
    published,  \* events the endpoint has published to this subscriber
    events      \* the subscriber's list, newest first

vars == <<status, published, events>>

Init ==
    /\ status = "new"
    /\ published = <<>>
    /\ events = <<>>

(* Mount: the one connection is opened.                                    *)
Connect ==
    /\ status = "new"
    /\ status' = "connected"
    /\ UNCHANGED <<published, events>>

(* The endpoint publishes e to a connected subscriber.                     *)
Publish(e) ==
    /\ status = "connected"
    /\ published' = Append(published, e)
    /\ UNCHANGED <<status, events>>

(* The next published event, in publication order, becomes the head.       *)
Fold ==
    /\ status = "connected"
    /\ Len(events) < Len(published)
    /\ events' = <<published[Len(events) + 1]>> \o events
    /\ UNCHANGED <<status, published>>

(* Unmount: the connection is closed, once.                                *)
Disconnect ==
    /\ status = "connected"
    /\ status' = "disconnected"
    /\ UNCHANGED <<published, events>>

Next ==
    \/ Connect
    \/ \E e \in Event : Publish(e)
    \/ Fold
    \/ Disconnect

Spec == Init /\ [][Next]_vars

-----------------------------------------------------------------------------
(* The promise: the list is the first Len(events) published events in     *)
(* reverse order.                                                          *)
EventsReversePrefix ==
    /\ Len(events) <= Len(published)
    /\ \A i \in 1..Len(events) : events[i] = published[Len(events) + 1 - i]
=============================================================================

---------------------------- MODULE SnapshotView ----------------------------
(***************************************************************************)
(* What the circuit-breaker dashboard promises (spec 4.2 with the          *)
(* replacing reducer, spec 6 and spec 8): each tab, once loaded, subscribes *)
(* to the host:port held in local storage (the default when it is unset)  *)
(* and names that host in its title; it then shows the arrays that service *)
(* sends, each replacing the one before, one at a time and in order; any  *)
(* open tab may store a new host, which only a later load of a tab uses.   *)
(*                                                                         *)
(* shown[t] is the number of the array the tab shows on its current page,  *)
(* 0 for none: the view is that whole array of the titled service.         *)
(***************************************************************************)
EXTENDS Naturals

CONSTANTS Tabs, Hosts, DefaultHost, None, MaxSnaps

VARIABLES
    stored,     \* the persisted host:port, or None
    opened,     \* tabs that have loaded the dashboard
    title,      \* the host a tab's page subscribed to and names
    shown       \* the number of the array a tab shows, 0 for none

vars == <<stored, opened, title, shown>>

Init ==
    /\ stored \in Hosts \cup {None}
    /\ opened = {}
    /\ title = [t \in Tabs |-> None]
    /\ shown = [t \in Tabs |-> 0]

(* A page load: the host is defaulted, stored, named and subscribed to,    *)
(* and the view starts empty.                                               *)
Load(t) ==
    LET h == IF stored = None THEN DefaultHost ELSE stored IN
    /\ stored' = h
    /\ opened' = opened \cup {t}
    /\ title' = [title EXCEPT ![t] = h]
    /\ shown' = [shown EXCEPT ![t] = 0]

(* The next array of the titled service replaces the view.                 *)
Show(t) ==
    /\ t \in opened
    /\ shown[t] < MaxSnaps
    /\ shown' = [shown EXCEPT ![t] = @ + 1]
    /\ UNCHANGED <<stored, opened, title>>

(* An open tab stores a new host; no page changes until it is loaded.      *)
Store(t, h) ==
    /\ t \in opened
    /\ stored' = h
    /\ UNCHANGED <<opened, title, shown>>

Next ==
    \E t \in Tabs :
        \/ Load(t)
        \/ Show(t)
        \/ \E h \in Hosts : Store(t, h)

Spec == Init /\ [][Next]_vars
=============================================================================

--------------------------- MODULE UserPage_proofs ---------------------------
(***************************************************************************)
(* Proofs about the user pages for any set of users and any bound on      *)
(* UserChirps mounts.                                                      *)
(***************************************************************************)
EXTENDS UserPage, TLAPS

USE UserPageAssumption

(* Every route the router can show is a page.                              *)
LEMMA InitTyped == Init => TypeOK
    <1> SUFFICES ASSUME Init PROVE TypeOK
        OBVIOUS
    <1>1. notFound \in BOOLEAN
        BY Zenon DEF Init
    <1>2. route \in Pages /\ visited \subseteq Pages /\ ucUser \in Ids \cup {None}
        BY DEF Init
    <1>3. CASE route = Feed
        BY <1>1, <1>2, <1>3 DEF Init, TypeOK
    <1>4. CASE route # Feed
        <2>1. route \in Ids
            BY <1>2, <1>4 DEF Pages
        <2>2. [uid |-> route, epoch |-> 1] \in Lookup
            BY <2>1 DEF Lookup
        <2>3. ucEpoch = 1 /\ lookups = {[uid |-> route, epoch |-> 1]}
              /\ streamUser = route
            BY <1>4 DEF Init
        <2> QED
            BY <1>1, <1>2, <2>1, <2>2, <2>3 DEF TypeOK
    <1> QED
        BY <1>3, <1>4

(* A navigation keeps the state typed: the mount it may cause stays under *)
(* MaxMounts and its lookup is tagged with the new instance.               *)
LEMMA GoToTyped ==
    ASSUME TypeOK, NEW p \in Pages, GoTo(p)
    PROVE  TypeOK'
    <1>1. route' \in Pages /\ visited' \subseteq Pages
        BY DEF GoTo, TypeOK
    <1>2. CASE route = Feed /\ p \in Ids
        <2>1. ucEpoch < MaxMounts /\ ucEpoch' = ucEpoch + 1
              /\ ucUser' = None /\ notFound' = FALSE /\ streamUser' = p
              /\ lookups' = lookups \cup {[uid |-> p, epoch |-> ucEpoch + 1]}
            BY <1>2 DEF GoTo
        <2>4. notFound' \in BOOLEAN
            BY <2>1, Zenon
        <2>2. ucEpoch \in 0..MaxMounts
            BY DEF TypeOK
        <2>3. [uid |-> p, epoch |-> ucEpoch + 1] \in Lookup
            BY <1>2, <2>1, <2>2 DEF Lookup
        <2> QED
            BY <1>1, <1>2, <2>1, <2>2, <2>3, <2>4 DEF TypeOK
    <1>3. CASE p = Feed
        <2>1. streamUser' = None
              /\ UNCHANGED <<ucEpoch, ucUser, notFound, lookups>>
            BY <1>3 DEF GoTo
        <2> QED
            BY <1>1, <2>1 DEF TypeOK
    <1>4. CASE ~(route = Feed /\ p \in Ids) /\ p # Feed
        <2>1. UNCHANGED <<ucEpoch, ucUser, notFound, lookups, streamUser>>
            BY <1>4 DEF GoTo
        <2> QED
            BY <1>1, <2>1 DEF TypeOK
    <1> QED
        BY <1>2, <1>3, <1>4

(* A profile answer keeps the state typed: it stores a user id, never the *)
(* request record, and drops only the request it answers.                  *)
LEMMA LookupReturnTyped ==
    ASSUME TypeOK, NEW l \in lookups, NEW found \in BOOLEAN,
           LookupReturn(l, found)
    PROVE  TypeOK'
    <1>1. l \in Lookup
        BY DEF TypeOK
    <1>2. l.uid \in Ids
        BY <1>1 DEF Lookup
    <1>3. lookups' \subseteq Lookup
        BY DEF LookupReturn, TypeOK
    <1>4. ucUser' \in Ids \cup {None} /\ notFound' \in BOOLEAN
          /\ streamUser' \in Ids \cup {None}
        BY <1>2 DEF LookupReturn, TypeOK
    <1> QED
        BY <1>3, <1>4 DEF LookupReturn, TypeOK

(* Type correctness of the user pages' state.                              *)
THEOREM TypeCorrect == Spec => []TypeOK
    <1>1. TypeOK /\ [Next]_vars => TypeOK'
        <2> SUFFICES ASSUME TypeOK, [Next]_vars PROVE TypeOK'
            OBVIOUS
        <2>1. ASSUME NEW p \in Pages, Navigate(p) PROVE TypeOK'
            BY <2>1, GoToTyped DEF Navigate
        <2>2. ASSUME NEW l \in lookups, NEW found \in BOOLEAN,
                     LookupReturn(l, found)
              PROVE  TypeOK'
            BY <2>2, LookupReturnTyped
        <2>3. CASE UNCHANGED vars
            BY <2>3 DEF vars, TypeOK
        <2> QED
            BY <2>1, <2>2, <2>3 DEF Next
    <1> QED
        BY <1>1, InitTyped, PTL DEF Spec
=============================================================================

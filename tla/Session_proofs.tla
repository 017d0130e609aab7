---------------------------- MODULE Session_proofs ----------------------------
(***************************************************************************)
(* Type correctness of the login session, for every set of ids and every  *)
(* bound on requests and App mounts.  The interesting obligations are the  *)
(* callbacks: each new XHR gets an id within MaxReqs and the App instance  *)
(* of its closure, and LoginForm's request set stays within the ids issued.*)
(***************************************************************************)
EXTENDS Session, TLAPS

USE SessionAssumption

Kinds == {"check", "login", "signup", "friendGet", "friendPost"}

(* A callback registered while fewer than MaxReqs XHRs were issued is a    *)
(* well-formed request.                                                    *)
LEMMA NewReqTyped ==
    ASSUME TypeOK, nextReq < MaxReqs,
           NEW k \in Kinds, NEW a \in 0..MaxMounts,
           NEW u \in IdOrNone, NEW o \in IdOrNone, NEW b \in IdOrNone
    PROVE  NewReq(k, a, u, o, b) \in Req
  BY DEF TypeOK, NewReq, Req, Kinds

(* What a route change leaves well typed, for any stored id and any set of *)
(* remaining callbacks.                                                    *)
LEMMA GoToTyped ==
    ASSUME TypeOK, NEW r \in Routes, NEW s \in IdOrNone, NEW ps \in SUBSET Req,
           GoTo(r, s, ps)
    PROVE  /\ route' \in Routes /\ visited' \subseteq Routes
           /\ signupError' \in BOOLEAN
           /\ appEpoch' \in 0..MaxMounts /\ appMounted' \in BOOLEAN
           /\ loginChecked' \in BOOLEAN /\ appUser' \in IdOrNone
           /\ pending' \subseteq Req /\ nextReq' \in 0..MaxReqs
<1>1. /\ route' \in Routes /\ visited' \subseteq Routes
      /\ signupError' \in BOOLEAN
  BY DEF GoTo, TypeOK
<1>2. CASE route = "signup" /\ r # "signup"
  <2>1. MountApp(s, ps)
    BY <1>2 DEF GoTo
  <2>2. /\ appEpoch' \in 0..MaxMounts /\ appMounted' \in BOOLEAN
        /\ loginChecked' \in BOOLEAN /\ appUser' \in IdOrNone
        /\ nextReq' \in 0..MaxReqs
    <3>1. /\ appEpoch' \in 0..MaxMounts /\ appMounted' \in BOOLEAN
          /\ appUser' \in IdOrNone
      BY <2>1 DEF MountApp, TypeOK, IdOrNone
    <3>2. loginChecked' \in BOOLEAN /\ nextReq' \in 0..MaxReqs
      <4>1. CASE s # None
        <5>1. nextReq' = nextReq + 1 /\ nextReq < MaxReqs /\ loginChecked' = FALSE
          BY <2>1, <4>1 DEF MountApp
        <5>2. nextReq \in 0..MaxReqs
          BY DEF TypeOK
        <5>3. nextReq' \in 0..MaxReqs
          BY <5>1, <5>2
        <5>4. QED
          BY <5>1, <5>3, Zenon
      <4>2. CASE s = None
        <5>1. nextReq' = nextReq /\ loginChecked' = TRUE
          BY <2>1, <4>2 DEF MountApp
        <5>2. nextReq \in 0..MaxReqs
          BY DEF TypeOK
        <5>3. QED
          BY <5>1, <5>2, Zenon
      <4>3. QED
        BY <4>1, <4>2
    <3>3. QED
      BY <3>1, <3>2
  <2>3. pending' \subseteq Req
    <3>1. CASE s # None
      <4>1. NewReq("check", appEpoch + 1, s, None, None) \in Req
        BY <2>1, <3>1, NewReqTyped DEF MountApp, Kinds, TypeOK, IdOrNone
      <4>2. QED
        BY <2>1, <3>1, <4>1 DEF MountApp
    <3>2. CASE s = None
      BY <2>1, <3>2 DEF MountApp
    <3>3. QED
      BY <3>1, <3>2
  <2>4. QED
    BY <1>1, <2>2, <2>3
<1>3. CASE ~(route = "signup" /\ r # "signup")
  BY <1>1, <1>3 DEF GoTo, TypeOK
<1>4. QED
  BY <1>2, <1>3

(* Every step keeps the callbacks well formed.                             *)
LEMMA PendingTyped ==
    ASSUME TypeOK, Step
    PROVE  pending' \subseteq Req
<1>1. ASSUME NEW r \in Routes, Navigate(r) PROVE pending' \subseteq Req
  <2>1. stored \in IdOrNone /\ pending \in SUBSET Req
    BY DEF TypeOK
  <2>2. GoTo(r, stored, pending)
    BY <1>1 DEF Navigate
  <2>3. QED
    BY <2>1, <2>2, GoToTyped
<1>2. ASSUME NEW u \in Ids, LoginSubmit(u) \/ SignupSubmit(u) \/ FriendSubmit(u)
      PROVE  pending' \subseteq Req
  <2>1. /\ NewReq("login", appEpoch, u, None, None) \in Req
        /\ NewReq("signup", 0, u, None, None) \in Req
        /\ NewReq("friendGet", appEpoch, u, None, appUser) \in Req
    BY <1>2, NewReqTyped DEF LoginSubmit, SignupSubmit, FriendSubmit, Kinds,
       TypeOK, IdOrNone
  <2>2. QED
    BY <1>2, <2>1 DEF LoginSubmit, SignupSubmit, FriendSubmit, TypeOK
<1>3. ASSUME NEW r \in pending, NEW found \in BOOLEAN, FriendGetReturn(r, found)
      PROVE  pending' \subseteq Req
  <2>1. CASE found
    <3>1. NewReq("friendPost", r.app, r.uid, stored, r.by) \in Req
      BY <1>3, <2>1, NewReqTyped DEF FriendGetReturn, Kinds, TypeOK, Req
    <3>2. QED
      BY <1>3, <2>1, <3>1 DEF FriendGetReturn, TypeOK
  <2>2. CASE ~found
    BY <1>3, <2>2 DEF FriendGetReturn, TypeOK
  <2>3. QED
    BY <2>1, <2>2
<1>4. ASSUME NEW r \in pending, SignupOk(r) PROVE pending' \subseteq Req
  <2>1. "feed" \in Routes /\ r.uid \in IdOrNone /\ pending \ {r} \in SUBSET Req
    BY DEF Routes, TypeOK, Req
  <2>2. GoTo("feed", r.uid, pending \ {r})
    BY <1>4 DEF SignupOk
  <2>3. QED
    BY <2>1, <2>2, GoToTyped
<1>5. ASSUME NEW r \in pending, FriendPostOk(r) PROVE pending' \subseteq Req
  <2>1. "feed" \in Routes /\ stored \in IdOrNone /\ pending \ {r} \in SUBSET Req
    BY DEF Routes, TypeOK
  <2>2. GoTo("feed", stored, pending \ {r})
    BY <1>5 DEF FriendPostOk
  <2>3. QED
    BY <2>1, <2>2, GoToTyped
<1>6. CASE Logout \/ ChirpSubmit
  BY <1>6 DEF Logout, ChirpSubmit, TypeOK
<1>7. ASSUME NEW r \in pending, NEW found \in BOOLEAN,
             CheckReturn(r, found) \/ LoginReturn(r, found)
             \/ SignupFail(r) \/ FriendPostFail(r)
      PROVE  pending' \subseteq Req
  BY <1>7 DEF CheckReturn, LoginReturn, SignupFail, FriendPostFail, TypeOK
<1>8. QED
  BY <1>1, <1>2, <1>3, <1>4, <1>5, <1>6, <1>7 DEF Step

(* Every outstanding callback is about a real id: the stored id the check *)
(* reads is present, and the forms only submit non-blank ids.             *)
UidsKnown == \A q \in pending : q.uid \in Ids

(* A route change keeps UidsKnown: it drops callbacks or adds the check of *)
(* a stored id.                                                            *)
LEMMA GoToUids ==
    ASSUME NEW r, NEW s \in IdOrNone, NEW ps, \A q \in ps : q.uid \in Ids,
           GoTo(r, s, ps)
    PROVE  \A q \in pending' : q.uid \in Ids
<1>1. CASE route = "signup" /\ r # "signup"
  <2>1. MountApp(s, ps)
    BY <1>1 DEF GoTo
  <2>2. CASE s # None
    <3>1. pending' = ps \cup {NewReq("check", appEpoch + 1, s, None, None)}
      BY <2>1, <2>2 DEF MountApp
    <3>2. NewReq("check", appEpoch + 1, s, None, None).uid \in Ids
      BY <2>2 DEF NewReq, IdOrNone
    <3>3. QED
      BY <3>1, <3>2
  <2>3. CASE s = None
    BY <2>1, <2>3 DEF MountApp
  <2>4. QED
    BY <2>2, <2>3
<1>2. CASE ~(route = "signup" /\ r # "signup")
  BY <1>2 DEF GoTo
<1>3. QED
  BY <1>1, <1>2

(* Every step keeps UidsKnown.                                             *)
LEMMA StepUids ==
    ASSUME TypeOK, UidsKnown, Step
    PROVE  UidsKnown'
<1> USE DEF UidsKnown
<1>1. ASSUME NEW r \in Routes, Navigate(r) PROVE UidsKnown'
  <2>1. stored \in IdOrNone
    BY DEF TypeOK
  <2>2. GoTo(r, stored, pending)
    BY <1>1 DEF Navigate
  <2>3. QED
    BY <2>1, <2>2, GoToUids
<1>2. ASSUME NEW u \in Ids, LoginSubmit(u) \/ SignupSubmit(u) \/ FriendSubmit(u)
      PROVE  UidsKnown'
  BY <1>2 DEF LoginSubmit, SignupSubmit, FriendSubmit, NewReq
<1>3. ASSUME NEW r \in pending, NEW found \in BOOLEAN, FriendGetReturn(r, found)
      PROVE  UidsKnown'
  BY <1>3 DEF FriendGetReturn, NewReq
<1>4. ASSUME NEW r \in pending, SignupOk(r) PROVE UidsKnown'
  <2>1. r.uid \in IdOrNone /\ \A q \in pending \ {r} : q.uid \in Ids
    BY DEF IdOrNone
  <2>2. GoTo("feed", r.uid, pending \ {r})
    BY <1>4 DEF SignupOk
  <2>3. QED
    BY <2>1, <2>2, GoToUids
<1>5. ASSUME NEW r \in pending, FriendPostOk(r) PROVE UidsKnown'
  <2>1. stored \in IdOrNone /\ \A q \in pending \ {r} : q.uid \in Ids
    BY DEF TypeOK
  <2>2. GoTo("feed", stored, pending \ {r})
    BY <1>5 DEF FriendPostOk
  <2>3. QED
    BY <2>1, <2>2, GoToUids
<1>6. CASE Logout \/ ChirpSubmit
  BY <1>6 DEF Logout, ChirpSubmit
<1>7. ASSUME NEW r \in pending, NEW found \in BOOLEAN,
             CheckReturn(r, found) \/ LoginReturn(r, found)
             \/ SignupFail(r) \/ FriendPostFail(r)
      PROVE  UidsKnown'
  BY <1>7 DEF CheckReturn, LoginReturn, SignupFail, FriendPostFail
<1>8. QED
  BY <1>1, <1>2, <1>3, <1>4, <1>5, <1>6, <1>7 DEF Step

(* The part of TypeOK about the App, the storage and the backend.          *)
StateTyped ==
    /\ route \in Routes
    /\ visited \subseteq Routes
    /\ stored \in IdOrNone
    /\ appEpoch \in 0..MaxMounts
    /\ appMounted \in BOOLEAN
    /\ loginChecked \in BOOLEAN
    /\ appUser \in IdOrNone
    /\ signupError \in BOOLEAN
    /\ nextReq \in 0..MaxReqs
    /\ registered \subseteq Ids
    /\ friends \subseteq [owner : Ids, friend : Ids, by : IdOrNone]
    /\ lastPost \in [as : IdOrNone, shown : IdOrNone]

(* Every step keeps the App, the storage and the backend well typed.      *)
LEMMA StepStateTyped ==
    ASSUME TypeOK, UidsKnown, Step
    PROVE  StateTyped'
<1> USE DEF TypeOK, StateTyped
<1>1. ASSUME NEW r \in Routes, Navigate(r) PROVE StateTyped'
  <2>1. stored \in IdOrNone /\ pending \in SUBSET Req
    OBVIOUS
  <2>2. GoTo(r, stored, pending)
    BY <1>1 DEF Navigate
  <2>3. QED
    BY <1>1, <2>1, <2>2, GoToTyped DEF Navigate
<1>2. ASSUME NEW u \in Ids, LoginSubmit(u) \/ SignupSubmit(u) \/ FriendSubmit(u)
      PROVE  StateTyped'
  BY <1>2 DEF LoginSubmit, SignupSubmit, FriendSubmit
<1>3. ASSUME NEW r \in pending, NEW found \in BOOLEAN, FriendGetReturn(r, found)
      PROVE  StateTyped'
  BY <1>3 DEF FriendGetReturn
<1>4. ASSUME NEW r \in pending, SignupOk(r) PROVE StateTyped'
  <2>1. "feed" \in Routes /\ r.uid \in Ids /\ pending \ {r} \in SUBSET Req
    BY DEF Routes, UidsKnown
  <2>2. GoTo("feed", r.uid, pending \ {r})
    BY <1>4 DEF SignupOk
  <2>3. QED
    BY <1>4, <2>1, <2>2, GoToTyped DEF SignupOk, IdOrNone
<1>5. ASSUME NEW r \in pending, FriendPostOk(r) PROVE StateTyped'
  <2>1. "feed" \in Routes /\ pending \ {r} \in SUBSET Req
    BY DEF Routes
  <2>2. GoTo("feed", stored, pending \ {r})
    BY <1>5 DEF FriendPostOk
  <2>3. r.owner \in Ids /\ r.uid \in Ids /\ r.by \in IdOrNone
    BY <1>5 DEF FriendPostOk, UidsKnown, Req
  <2>4. QED
    BY <1>5, <2>1, <2>2, <2>3, GoToTyped DEF FriendPostOk
<1>6. CASE Logout \/ ChirpSubmit
  BY <1>6 DEF Logout, ChirpSubmit, LoggedIn, IdOrNone
<1>7. ASSUME NEW r \in pending, NEW found \in BOOLEAN,
             CheckReturn(r, found) \/ LoginReturn(r, found)
             \/ SignupFail(r) \/ FriendPostFail(r)
      PROVE  StateTyped'
  <2>1. r.uid \in Ids
    BY DEF UidsKnown
  <2>2. QED
    BY <1>7, <2>1 DEF CheckReturn, LoginReturn, SignupFail, FriendPostFail,
       IdOrNone
<1>8. QED
  BY <1>1, <1>2, <1>3, <1>4, <1>5, <1>6, <1>7 DEF Step

(* TypeOK /\ UidsKnown is an inductive invariant of the session.          *)
THEOREM Invariant == Spec => [](TypeOK /\ UidsKnown)
<1>1. Init => TypeOK /\ UidsKnown
  <2> SUFFICES ASSUME Init PROVE TypeOK /\ UidsKnown
    OBVIOUS
  <2>1. /\ route \in Routes /\ visited \subseteq Routes /\ stored \in IdOrNone
        /\ appEpoch \in 0..MaxMounts /\ appUser \in IdOrNone
        /\ registered \subseteq Ids
        /\ friends \subseteq [owner : Ids, friend : Ids, by : IdOrNone]
        /\ lastPost \in [as : IdOrNone, shown : IdOrNone]
        /\ formLogins \subseteq 1..MaxReqs
    BY DEF Init, IdOrNone, Routes
  <2>2. appMounted \in BOOLEAN /\ loginChecked \in BOOLEAN
        /\ signupError \in BOOLEAN
    BY Zenon DEF Init
  <2>3. pending \subseteq Req /\ nextReq \in 0..MaxReqs /\ UidsKnown
    <3>1. CASE appMounted /\ stored # None
      <4>1. stored \in Ids
        BY <3>1 DEF Init
      <4>2. pending = {[id |-> 1, kind |-> "check", app |-> 1, uid |-> stored,
                        owner |-> None, by |-> None]} /\ nextReq = 1
        BY <3>1 DEF Init
      <4>3. QED
        BY <4>1, <4>2 DEF Req, IdOrNone, UidsKnown
    <3>2. CASE ~(appMounted /\ stored # None)
      <4>1. pending = {} /\ nextReq = 0
        BY <3>2 DEF Init
      <4>2. QED
        BY <4>1 DEF UidsKnown
    <3>3. QED
      BY <3>1, <3>2
  <2>4. QED
    BY <2>1, <2>2, <2>3 DEF TypeOK
<1>2. TypeOK /\ UidsKnown /\ [Next]_vars => (TypeOK /\ UidsKnown)'
  <2> SUFFICES ASSUME TypeOK, UidsKnown, [Next]_vars
               PROVE  (TypeOK /\ UidsKnown)'
    OBVIOUS
  <2>1. CASE Next
    <3>1. pending' \subseteq Req
      BY <2>1, PendingTyped DEF Next
    <3>2. formLogins' \subseteq 1..MaxReqs
      BY <2>1, <3>1 DEF Next, TrackLoginForm, TypeOK, Req
    <3>3. StateTyped'
      BY <2>1, StepStateTyped DEF Next
    <3>4. UidsKnown'
      BY <2>1, StepUids DEF Next
    <3>5. QED
      BY <3>1, <3>2, <3>3, <3>4 DEF TypeOK, StateTyped
  <2>2. CASE UNCHANGED vars
    BY <2>2 DEF vars, TypeOK, UidsKnown
  <2>3. QED
    BY <2>1, <2>2
<1>3. QED
  BY <1>1, <1>2, PTL DEF Spec

(* Every reachable state of the session is well typed: whatever order the *)
(* callbacks run in, the stored id, the App's user and every callback's    *)
(* closure hold ids, and no more than MaxReqs requests are ever issued.   *)
THEOREM TypeCorrect == Spec => []TypeOK
  BY Invariant, PTL
=============================================================================

------------------------------ MODULE Session ------------------------------
(***************************************************************************)
(* The login session of the Chirper front end (main.jsx): the App          *)
(* component's login check, LoginForm, logout, SignUpPage and              *)
(* AddFriendPage, all sharing localStorage.userId, and the router that     *)
(* mounts and unmounts them.                                               *)
(*                                                                         *)
(* Every server call is an XHR whose callback runs later on the UI thread. *)
(* None is ever cancelled: a callback may run after its component is gone, *)
(* and then its setState is ignored by React, but its writes to            *)
(* localStorage, its calls through props and its history.pushState still  *)
(* happen.  pending holds the outstanding callbacks; each carries what its *)
(* closure captured.                                                       *)
(***************************************************************************)
EXTENDS Naturals, FiniteSets

CONSTANTS
    Ids,         \* user ids a user can type
    Registered0, \* users the backend has when the page is loaded
    None,        \* localStorage.userId absent, App.state.user null
    MaxReqs,     \* bound on XHRs issued
    MaxMounts    \* bound on App mounts

ASSUME SessionAssumption ==
    /\ Registered0 \subseteq Ids
    /\ None \notin Ids
    /\ MaxReqs \in Nat \ {0}     \* the page load may issue the login check
    /\ MaxMounts \in Nat \ {0}

(* The routes of the router: /signup (SignUpPage) and, under App, / with   *)
(* ActivityStream (chirp form and feed) and /addFriend.                    *)
Routes == {"signup", "feed", "addFriend"}

VARIABLES
    route,        \* the current location
    visited,      \* locations in the browser history (back / forward)
    stored,       \* localStorage.userId
    appEpoch,     \* number of App instances mounted so far
    appMounted,   \* an App instance is mounted
    loginChecked, \* App.state.loginChecked
    appUser,      \* App.state.user (its userId)
    signupError,  \* SignUpPage.state.error is set
    pending,      \* outstanding XHR callbacks
    nextReq,      \* XHRs issued so far
    registered,   \* backend: existing users
    friends,      \* backend: friend links added, with who asked for them
    lastPost,     \* the last chirp POST: the id it posts as, the user shown
    formLogins    \* ids of the login XHRs sent by the LoginForm on screen

vars == <<route, visited, stored, appEpoch, appMounted, loginChecked,
          appUser, signupError, pending, nextReq, registered, friends,
          lastPost, formLogins>>

IdOrNone == Ids \cup {None}

(* An outstanding callback: kind says which handler issued it; app is the  *)
(* App instance whose props the closure holds; uid the id it looked up or  *)
(* posted; owner the id in a friends URL; by the user shown when the form  *)
(* was submitted.                                                          *)
Req == [id : 1..MaxReqs,
        kind : {"check", "login", "signup", "friendGet", "friendPost"},
        app : 0..MaxMounts, uid : IdOrNone, owner : IdOrNone, by : IdOrNone]

(* A new callback; fields a kind does not use are None or 0.               *)
NewReq(k, a, u, o, b) ==
    [id |-> nextReq + 1, kind |-> k, app |-> a, uid |-> u, owner |-> o, by |-> b]

LoggedIn == appMounted /\ loginChecked /\ appUser # None
LoginFormShown == appMounted /\ loginChecked /\ appUser = None

(* Links rendered by PageLayout on the current page; back and forward can  *)
(* return to any location already in the history.                          *)
Links ==
    CASE route = "signup"        -> {"feed"}
      [] ~loginChecked           -> {}
      [] appUser = None          -> {"signup", "feed"}
      [] OTHER                   -> {"feed", "addFriend"}

-----------------------------------------------------------------------------
(* App.getInitialState and componentDidMount for a fresh App instance,     *)
(* reading localStorage as left by s: with a stored id it starts getUser,  *)
(* added to the callbacks ps, otherwise it sets loginChecked at once.      *)
MountApp(s, ps) ==
    /\ appEpoch < MaxMounts
    /\ appEpoch' = appEpoch + 1
    /\ appMounted' = TRUE
    /\ appUser' = None
    /\ IF s # None
         THEN /\ nextReq < MaxReqs
              /\ pending' = ps \cup {NewReq("check", appEpoch + 1, s, None, None)}
              /\ nextReq' = nextReq + 1
              /\ loginChecked' = FALSE
         ELSE /\ loginChecked' = TRUE
              /\ pending' = ps
              /\ UNCHANGED nextReq

(* The page is loaded at some location with what localStorage holds.      *)
Init ==
    /\ route \in Routes
    /\ visited = {route}
    /\ stored \in {None} \cup Registered0
    /\ appEpoch = IF route = "signup" THEN 0 ELSE 1
    /\ appMounted = (route # "signup")
    /\ appUser = None
    /\ loginChecked = (appMounted /\ stored = None)
    /\ pending = IF appMounted /\ stored # None
                   THEN {[id |-> 1, kind |-> "check", app |-> 1, uid |-> stored,
                          owner |-> None, by |-> None]}
                   ELSE {}
    /\ nextReq = IF appMounted /\ stored # None THEN 1 ELSE 0
    /\ signupError = FALSE
    /\ registered = Registered0
    /\ friends = {}
    /\ lastPost = [as |-> None, shown |-> None]
    /\ formLogins = {}

(* The router moves to location r (a Link, the history or pushState); App *)
(* is mounted on every location but /signup, reading localStorage as s,   *)
(* and a SignUpPage mounts without error.  ps: the callbacks left.         *)
GoTo(r, s, ps) ==
    /\ route' = r
    /\ visited' = visited \cup {r}
    /\ signupError' = (signupError /\ r = route)
    /\ CASE route = "signup" /\ r # "signup" -> MountApp(s, ps)
         [] route # "signup" /\ r = "signup" ->
              /\ appMounted' = FALSE
              /\ pending' = ps
              /\ UNCHANGED <<appEpoch, loginChecked, appUser, nextReq>>
         [] OTHER ->
              /\ pending' = ps
              /\ UNCHANGED <<appEpoch, appMounted, loginChecked, appUser, nextReq>>

Navigate(r) ==
    /\ r \in (Links \cup visited) \ {route}
    /\ GoTo(r, stored, pending)
    /\ UNCHANGED <<stored, registered, friends, lastPost>>

(* Mutant: the null branch removes the id but forgets                      *)
(* setState({loginChecked: true}).                                         *)
CheckReturnNoChecked(r, found) ==
    /\ r.kind = "check"
    /\ found => r.uid \in registered
    /\ pending' = pending \ {r}
    /\ stored' = IF found THEN stored ELSE None
    /\ IF appMounted /\ r.app = appEpoch /\ found
         THEN /\ loginChecked' = TRUE
              /\ appUser' = r.uid
         ELSE UNCHANGED <<loginChecked, appUser>>
    /\ UNCHANGED <<route, visited, appEpoch, appMounted, signupError, nextReq,
                   registered, friends, lastPost>>

(* App's getUser(localStorage.userId) callback.  Found: set loginChecked   *)
(* and user.  Null (absent or failed): remove localStorage.userId, which   *)
(* happens even if this App instance is gone, and set loginChecked.        *)
CheckReturn(r, found) ==
    /\ r.kind = "check"
    /\ found => r.uid \in registered
    /\ pending' = pending \ {r}
    /\ stored' = IF found THEN stored ELSE None
    /\ IF appMounted /\ r.app = appEpoch
         THEN /\ loginChecked' = TRUE
              /\ appUser' = IF found THEN r.uid ELSE appUser
         ELSE UNCHANGED <<loginChecked, appUser>>
    /\ UNCHANGED <<route, visited, appEpoch, appMounted, signupError, nextReq,
                   registered, friends, lastPost>>

(* LoginForm.handleSubmit with a non-blank id: getUser(userId).            *)
LoginSubmit(u) ==
    /\ LoginFormShown
    /\ nextReq < MaxReqs
    /\ pending' = pending \cup {NewReq("login", appEpoch, u, None, None)}
    /\ nextReq' = nextReq + 1
    /\ UNCHANGED <<route, visited, stored, appEpoch, appMounted, loginChecked,
                   appUser, signupError, registered, friends, lastPost>>

(* Mutant: localStorage.userId = user, the user object instead of its id.  *)
LoginReturnStoresUser(r, found) ==
    /\ r.kind = "login"
    /\ found => r.uid \in registered
    /\ pending' = pending \ {r}
    /\ IF found
         THEN /\ stored' = [userId |-> r.uid]
              /\ appUser' = IF appMounted /\ r.app = appEpoch
                              THEN r.uid ELSE appUser
         ELSE UNCHANGED <<stored, appUser>>
    /\ UNCHANGED <<route, visited, appEpoch, appMounted, loginChecked,
                   signupError, nextReq, registered, friends, lastPost>>

(* The login callback.  Found: write localStorage.userId and call          *)
(* props.onLogin, App.handleLogin of the App that rendered the form, which *)
(* sets its user if that App is still mounted.  Null: LoginForm's error    *)
(* (not modelled: it is only displayed).                                   *)
LoginReturn(r, found) ==
    /\ r.kind = "login"
    /\ found => r.uid \in registered
    /\ pending' = pending \ {r}
    /\ IF found
         THEN /\ stored' = r.uid
              /\ appUser' = IF appMounted /\ r.app = appEpoch
                              THEN r.uid ELSE appUser
         ELSE UNCHANGED <<stored, appUser>>
    /\ UNCHANGED <<route, visited, appEpoch, appMounted, loginChecked,
                   signupError, nextReq, registered, friends, lastPost>>

(* App.logout: remove localStorage.userId and set user to null.            *)
Logout ==
    /\ LoggedIn
    /\ stored' = None
    /\ appUser' = None
    /\ UNCHANGED <<route, visited, appEpoch, appMounted, loginChecked,
                   signupError, pending, nextReq, registered, friends, lastPost>>

(* SignUpPage.handleSubmit with non-blank id and name: POST /api/users.    *)
SignupSubmit(u) ==
    /\ route = "signup"
    /\ nextReq < MaxReqs
    /\ pending' = pending \cup {NewReq("signup", 0, u, None, None)}
    /\ nextReq' = nextReq + 1
    /\ UNCHANGED <<route, visited, stored, appEpoch, appMounted, loginChecked,
                   appUser, signupError, registered, friends, lastPost>>

(* The POST succeeds (the backend creates the user): write                 *)
(* localStorage.userId and history.pushState to /, which mounts an App if  *)
(* the browser is still on /signup and otherwise leaves the App as it is.  *)
SignupOk(r) ==
    /\ r.kind = "signup"
    /\ r.uid \notin registered
    /\ registered' = registered \cup {r.uid}
    /\ stored' = r.uid
    /\ GoTo("feed", r.uid, pending \ {r})
    /\ UNCHANGED <<friends, lastPost>>

(* The POST fails (the user exists, or any error): the handler calls       *)
(* this.setState with a string, which React rejects by throwing, so no     *)
(* error is set.                                                           *)
SignupFail(r) ==
    /\ r.kind = "signup"
    /\ pending' = pending \ {r}
    /\ UNCHANGED <<route, visited, stored, appEpoch, appMounted, loginChecked,
                   appUser, signupError, nextReq, registered, friends, lastPost>>

(* AddFriendPage.handleSubmit with a non-blank id: getUser(friendId).      *)
FriendSubmit(f) ==
    /\ LoggedIn
    /\ route = "addFriend"
    /\ nextReq < MaxReqs
    /\ pending' = pending \cup {NewReq("friendGet", appEpoch, f, None, appUser)}
    /\ nextReq' = nextReq + 1
    /\ UNCHANGED <<route, visited, stored, appEpoch, appMounted, loginChecked,
                   appUser, signupError, registered, friends, lastPost>>

(* The lookup callback.  Found: POST /api/users/{localStorage.userId}/     *)
(* friends, reading localStorage now.  Null: an error message (only        *)
(* displayed, not modelled).                                               *)
FriendGetReturn(r, found) ==
    /\ r.kind = "friendGet"
    /\ found => r.uid \in registered
    /\ IF found
         THEN /\ nextReq < MaxReqs
              /\ pending' = (pending \ {r}) \cup
                   {NewReq("friendPost", r.app, r.uid, stored, r.by)}
              /\ nextReq' = nextReq + 1
         ELSE /\ pending' = pending \ {r}
              /\ UNCHANGED nextReq
    /\ UNCHANGED <<route, visited, stored, appEpoch, appMounted, loginChecked,
                   appUser, signupError, registered, friends, lastPost>>

(* The friends POST succeeds (only for an existing owner): the backend     *)
(* adds the link, and the callback clears the form and pushes /.           *)
FriendPostOk(r) ==
    /\ r.kind = "friendPost"
    /\ r.owner \in registered
    /\ friends' = friends \cup {[owner |-> r.owner, friend |-> r.uid, by |-> r.by]}
    /\ GoTo("feed", stored, pending \ {r})
    /\ UNCHANGED <<stored, registered, lastPost>>

(* The friends POST fails: an error message (only displayed).              *)
FriendPostFail(r) ==
    /\ r.kind = "friendPost"
    /\ pending' = pending \ {r}
    /\ UNCHANGED <<route, visited, stored, appEpoch, appMounted, loginChecked,
                   appUser, signupError, nextReq, registered, friends, lastPost>>

(* ChirpForm.handleSubmit on the feed with a non-blank message: POST to     *)
(* /api/chirps/live/{localStorage.userId} as localStorage.userId, read     *)
(* now.  Its callbacks only clear or log the form's draft (not modelled).  *)
ChirpSubmit ==
    /\ LoggedIn
    /\ route = "feed"
    /\ lastPost' = [as |-> stored, shown |-> appUser]
    /\ UNCHANGED <<route, visited, stored, appEpoch, appMounted, loginChecked,
                   appUser, signupError, pending, nextReq, registered, friends>>

Step ==
    \/ \E r \in Routes : Navigate(r)
    \/ \E u \in Ids : LoginSubmit(u)
    \/ \E u \in Ids : SignupSubmit(u)
    \/ \E u \in Ids : FriendSubmit(u)
    \/ Logout
    \/ ChirpSubmit
    \/ \E r \in pending, found \in BOOLEAN : CheckReturn(r, found)
    \/ \E r \in pending, found \in BOOLEAN : LoginReturn(r, found)
    \/ \E r \in pending : SignupOk(r)
    \/ \E r \in pending : SignupFail(r)
    \/ \E r \in pending, found \in BOOLEAN : FriendGetReturn(r, found)
    \/ \E r \in pending : FriendPostOk(r)
    \/ \E r \in pending : FriendPostFail(r)

(* The outcome of the XHR r, whichever it is.                              *)
Settle(r) ==
    \/ \E found \in BOOLEAN : CheckReturn(r, found) \/ LoginReturn(r, found)
                             \/ FriendGetReturn(r, found)
    \/ SignupOk(r) \/ SignupFail(r) \/ FriendPostOk(r) \/ FriendPostFail(r)

(* React mounts a LoginForm when App starts rendering it and unmounts it  *)
(* when App stops (logged in, or App itself unmounted); while it stays on  *)
(* screen, it is the same instance across route changes.  formLogins      *)
(* follows the login requests of the instance on screen.                   *)
TrackLoginForm ==
    formLogins' = IF LoginFormShown'
                    THEN formLogins \cup {q.id : q \in {n \in pending' \ pending :
                                                           n.kind = "login"}}
                    ELSE {}

Next == Step /\ TrackLoginForm

Spec == Init /\ [][Next]_vars

(* Every XHR eventually settles, one way or the other.                     *)
Fairness ==
    \A r \in Req : WF_vars(r \in pending /\ Settle(r) /\ TrackLoginForm)

FairSpec == Spec /\ Fairness

-----------------------------------------------------------------------------
TypeOK ==
    /\ route \in Routes
    /\ visited \subseteq Routes
    /\ stored \in IdOrNone
    /\ appEpoch \in 0..MaxMounts
    /\ appMounted \in BOOLEAN
    /\ loginChecked \in BOOLEAN
    /\ appUser \in IdOrNone
    /\ signupError \in BOOLEAN
    /\ pending \subseteq Req
    /\ nextReq \in 0..MaxReqs
    /\ registered \subseteq Ids
    /\ friends \subseteq [owner : Ids, friend : Ids, by : IdOrNone]
    /\ lastPost \in [as : IdOrNone, shown : IdOrNone]
    /\ formLogins \subseteq 1..MaxReqs

(* The App never stays on its loading screen: once mounted, it eventually  *)
(* shows the login form or the logged-in page, or is unmounted.            *)
LoadingEnds ==
    appMounted /\ ~loginChecked ~> loginChecked \/ ~appMounted

(* A chirp is posted as the user the page shows as logged in when the      *)
(* form is submitted: ChirpForm takes the id from localStorage.userId,     *)
(* which every late callback of the session may have rewritten.           *)
ChirpPostedAsShownUser ==
    lastPost.shown # None => lastPost.as = lastPost.shown

(* A friend link is added to the account of the user who submitted the     *)
(* add-friend form, never to another account.                              *)
FriendRequestForSubmitter ==
    \A l \in friends : l.owner = l.by

(* Spec 7(b): a failed sign-up is reported beside the form.                *)
SignupFailureReported ==
    [][\A r \in pending \ pending' :
          (r.kind = "signup" /\ route = "signup" /\ registered' = registered)
             => signupError']_vars

(* The page a form's callback belongs to.                                  *)
FormPage(k) == IF k = "signup" THEN "signup" ELSE "addFriend"

(* A form callback whose form is no longer on screen: the browser has left *)
(* the sign-up or add-friend page, or the LoginForm that sent the login    *)
(* has left the screen (the user was logged in meanwhile, and perhaps      *)
(* logged out again, or App was remounted).                                *)
FormGone(r) ==
    \/ r.kind \in {"signup", "friendPost"} /\ route # FormPage(r.kind)
    \/ r.kind = "login" /\ r.id \notin formLogins

(* Spec 5: a form callback that runs after its form has gone silently does *)
(* nothing: it neither moves the browser to another page, nor writes      *)
(* localStorage.userId, nor logs the App in.                              *)
LateFormCallbackIgnored ==
    [][\A r \in pending \ pending' :
          FormGone(r) => UNCHANGED <<route, stored, appUser>>]_vars
=============================================================================

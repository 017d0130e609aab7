------------------------------ MODULE UserPage ------------------------------
(***************************************************************************)
(* The user pages of the Chirper front end (main.jsx): the route           *)
(* /users/:userId renders UserChirps inside the logged-in App, next to     *)
(* the feed at / (ActivityStream).  The user is logged in as Me, the id    *)
(* in localStorage.userId, for the whole model.                            *)
(*                                                                         *)
(* The router keeps a route component mounted while only the route's      *)
(* params change: going from /users/a to /users/b re-renders the same      *)
(* UserChirps instance with new props, and the ChirpStream it renders (the *)
(* same element type at the same place, with no key) is re-rendered too,  *)
(* not remounted.  Only componentDidMount starts the profile lookup and    *)
(* opens the socket.                                                       *)
(***************************************************************************)
EXTENDS Naturals

CONSTANTS
    Ids,        \* user ids that have a page
    Known,      \* the ids GET /api/users/{id} finds
    Me,         \* localStorage.userId
    Feed,       \* the location /
    None,       \* no user
    MaxMounts   \* bound on UserChirps mounts

ASSUME UserPageAssumption ==
    /\ Known \subseteq Ids
    /\ Me \in Known
    /\ Feed \notin Ids
    /\ None \notin Ids \cup {Feed}
    /\ MaxMounts \in Nat \ {0}   \* a first load on /users/:id mounts once

Pages == Ids \cup {Feed}

VARIABLES
    route,      \* the current location: Feed or the :userId of a user page
    visited,    \* locations in the browser history
    ucEpoch,    \* UserChirps instances mounted so far
    ucUser,     \* UserChirps.state.user (its id), None until found
    notFound,   \* UserChirps.state.notFound
    lookups,    \* outstanding getUser callbacks: [uid, epoch]
    streamUser  \* user of the mounted ChirpStream's socket, or None

vars == <<route, visited, ucEpoch, ucUser, notFound, lookups, streamUser>>

Lookup == [uid : Ids, epoch : 1..MaxMounts]

(* UserChirps is mounted exactly on the user pages.                        *)
OnUserPage == route \in Ids

(* Links on the page: PageLayout's Feed and Me's own page; on the feed,    *)
(* every chirp links to its author's page.                                 *)
Links == {Feed, Me} \cup (IF route = Feed THEN Ids ELSE {})

Init ==
    /\ route \in Pages
    /\ visited = {route}
    /\ ucEpoch = IF route = Feed THEN 0 ELSE 1
    /\ ucUser = None
    /\ notFound = FALSE
    /\ lookups = IF route = Feed THEN {} ELSE {[uid |-> route, epoch |-> 1]}
    /\ streamUser = IF route = Feed THEN None ELSE route

-----------------------------------------------------------------------------
(* Mutant: componentDidMount without its getUser call.                  *)
GoToNoLookup(p) ==
    /\ route' = p
    /\ visited' = visited \cup {p}
    /\ CASE route = Feed /\ p \in Ids ->
              /\ ucEpoch < MaxMounts
              /\ ucEpoch' = ucEpoch + 1
              /\ ucUser' = None
              /\ notFound' = FALSE
              /\ streamUser' = p
              /\ UNCHANGED lookups
         [] p = Feed ->
              /\ streamUser' = None
              /\ UNCHANGED <<ucEpoch, ucUser, notFound, lookups>>
         [] OTHER ->
              UNCHANGED <<ucEpoch, ucUser, notFound, lookups, streamUser>>

(* The router moves to p.  From the feed to a user page: a new UserChirps  *)
(* mounts, renders a ChirpStream on createUserStream(p) and starts         *)
(* getUser(p).  To the feed: UserChirps and its ChirpStream unmount (the  *)
(* socket is closed).  Between user pages: the same instance re-renders    *)
(* with the new userId; nothing is fetched or reconnected.                 *)
GoTo(p) ==
    /\ route' = p
    /\ visited' = visited \cup {p}
    /\ CASE route = Feed /\ p \in Ids ->
              /\ ucEpoch < MaxMounts
              /\ ucEpoch' = ucEpoch + 1
              /\ ucUser' = None
              /\ notFound' = FALSE
              /\ lookups' = lookups \cup {[uid |-> p, epoch |-> ucEpoch + 1]}
              /\ streamUser' = p
         [] p = Feed ->
              /\ streamUser' = None
              /\ UNCHANGED <<ucEpoch, ucUser, notFound, lookups>>
         [] OTHER ->
              UNCHANGED <<ucEpoch, ucUser, notFound, lookups, streamUser>>

(* A click on a link, or back / forward in the history.                    *)
Navigate(p) ==
    /\ p \in (Links \cup visited) \ {route}
    /\ GoTo(p)

(* Mutant: setState({user: l}) with the request in place of its user id.  *)
LookupReturnStoresRecord(l, found) ==
    /\ found => l.uid \in Known
    /\ lookups' = lookups \ {l}
    /\ IF OnUserPage /\ l.epoch = ucEpoch
         THEN IF found
                THEN /\ ucUser' = l
                     /\ UNCHANGED <<notFound, streamUser>>
                ELSE /\ notFound' = TRUE
                     /\ streamUser' = None
                     /\ UNCHANGED ucUser
         ELSE UNCHANGED <<ucUser, notFound, streamUser>>
    /\ UNCHANGED <<route, visited, ucEpoch>>

(* UserChirps' getUser callback.  The instance that issued it updates its *)
(* state if it is still mounted: found sets state.user; null (absent or    *)
(* failed) sets notFound, and the render that follows drops the            *)
(* ChirpStream, which unmounts and closes its socket.                      *)
LookupReturn(l, found) ==
    /\ found => l.uid \in Known
    /\ lookups' = lookups \ {l}
    /\ IF OnUserPage /\ l.epoch = ucEpoch
         THEN IF found
                THEN /\ ucUser' = l.uid
                     /\ UNCHANGED <<notFound, streamUser>>
                ELSE /\ notFound' = TRUE
                     /\ streamUser' = None
                     /\ UNCHANGED ucUser
         ELSE UNCHANGED <<ucUser, notFound, streamUser>>
    /\ UNCHANGED <<route, visited, ucEpoch>>

Next ==
    \/ \E p \in Pages : Navigate(p)
    \/ \E l \in lookups, found \in BOOLEAN : LookupReturn(l, found)

Spec == Init /\ [][Next]_vars

(* Every profile lookup eventually answers.                                *)
Fairness ==
    \A l \in Lookup : WF_vars(l \in lookups /\ \E f \in BOOLEAN :
                                               LookupReturn(l, f))

FairSpec == Spec /\ Fairness

-----------------------------------------------------------------------------
(* Type correctness.                                                        *)
TypeOK ==
    /\ route \in Pages
    /\ visited \subseteq Pages
    /\ ucEpoch \in 0..MaxMounts
    /\ ucUser \in Ids \cup {None}
    /\ notFound \in BOOLEAN
    /\ lookups \subseteq Lookup
    /\ streamUser \in Ids \cup {None}

(* A user page shows that user: the title ("Chirps for <name>") names it,  *)
(* and the feed under it is that user's live chirps (on Me's page, the     *)
(* chirp form is shown above it, since params.userId = localStorage.userId).*)
PageShowsRouteUser ==
    OnUserPage /\ ~notFound =>
        /\ ucUser \in {None, route}
        /\ streamUser = route

(* A user page still in its loading state (subtitle "Chirps for <id>",    *)
(* no profile in state.user) eventually leaves it: some getUser answer     *)
(* sets state.user or state.notFound, unless the user leaves the user      *)
(* pages.  This is only progress: the profile set may be an earlier user's *)
(* (UserChirps reused across /users/a -> /users/me keeps state.user = a); *)
(* which user a page shows is PageShowsRouteUser's question.               *)
ProfileSettles ==
    \A u \in Ids :
        route = u /\ ucUser = None /\ ~notFound ~>
            ucUser # None \/ notFound \/ route = Feed
=============================================================================

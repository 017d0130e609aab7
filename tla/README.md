# Formal models of the Chirper front end and the circuit-breaker dashboard

This directory holds TLA+ models of the browser code in
`src/samples/chirper/front-end/app/assets/`. It has TLC configurations
that check the models on small instances, and TLAPS proofs that hold for
every value of the constants. The code is a React 0.14 single-page
application and is in two parts:

* `main.jsx` is the Chirper client. Its parts are:
  * the `App` login check;
  * `LoginForm`, `SignUpPage`, `AddFriendPage`, `ChirpForm` and the router;
  * the user page `UserChirps` (profile lookup, the user's feed);
  * the live chirp feed (`createStream`, `ChirpStream`) with its lazy
    author lookup (`loadUser` and `getUser`).
* `circuitbreaker.jsx` is the circuit-breaker dashboard. Its parts are
  `createCircuitBreakerStream`, `CircuitBreakerStream`, `CircuitBreakers`,
  `ServiceHostPortForm` and `formatLatency`.

## How the parts interact

All the code runs on the browser's single UI thread. It interleaves at
callback granularity, and the callbacks come from four sources:

* WebSocket `onopen` and `onmessage`;
* jQuery XHR callbacks;
* user events;
* router transitions.

A `setState` made from a socket or XHR callback re-renders synchronously.
Each model action is therefore one callback *together with the render it
causes*. For `ChirpStream`, that render is where `loadUser` starts lookups.

No XHR is ever cancelled. A callback can run after its component is
unmounted. Its `setState` is then a no-op, but these effects still happen:

* writes to `localStorage`;
* calls through props;
* `history.pushState`;
* `loadUser`'s in-place write to `state.users`, which is the parent's
  `props.users` object.

`ChirpStream` never retries a lookup: a failed `getUser` leaves the id in
`loadingUsers` for good, so an author whose lookup hit a transient error
stays shown by id. The model reaches this, but no property states it.

`localStorage` is the one piece of state shared by all components, all
pages and all tabs. The Chirper client uses `userId`; the dashboard uses
`serviceHostPort`.

The servers are the environment:

* A socket is a FIFO channel. The server pushes messages in order, and the
  connection may drop. Nothing in the code reconnects.
* An XHR answers with success or failure, in any order relative to every
  other event.

## Modules

| Module | Models | State ↔ code |
|---|---|---|
| `ChirpStream` | `createStream`, `createUserStream` and `createActivityStream`; `ChirpStream`'s mount, its message callback, its render plus `loadUser`, its unmount; `getUser` | `phase` (the component lifecycle), `sock` (readyState), `net` (messages in transit), `chirps` (`state.chirps`), `users` (keys of `state.users`), `loadingUsers` (`this.loadingUsers`), `inflight` (outstanding `getUser`s). The server side is `sent` and `subscribed`. |
| `StreamSubscriber` | the abstract contract of a stream subscriber (spec §4.2): connect once, fold each published event in at the head, disconnect once | `status`, `published` (what the endpoint published), `events` (the list). `ChirpStream` maps onto it: `status` from `phase`, `published` is `sent`, `events` is `chirps`. |
| `Session` | `App` (getInitialState, componentDidMount, handleLogin, logout, render), the `LoginForm`, `SignUpPage`, `AddFriendPage` and `ChirpForm` submits and every one of their callbacks, the router and `PageLayout`'s links | `route` and `visited` (the history), `stored` (`localStorage.userId`), `appEpoch` and `appMounted` (which App instance is live), `loginChecked` and `appUser` (App state), `signupError`. `pending` holds outstanding callbacks, each with the values its closure captured. `lastPost` records the last chirp POST: the id it posted as and the user the page showed. `formLogins` holds the login requests sent by the `LoginForm` instance on screen; `TrackLoginForm`, a conjunct of every step, empties it when App stops rendering the form. `registered` and `friends` are the backend. |
| `UserPage` | `UserChirps` (mount, its profile `getUser` and callback, its render of a `ChirpStream` on `createUserStream(userId)`), the router's reuse of the instance when only `:userId` changes, `PageLayout`'s links | `route`, `visited`, `ucEpoch` (which instance is live), `ucUser` and `notFound` (its state), `lookups` (outstanding callbacks with their instance), `streamUser` (the user the mounted feed's socket is for) |
| `CircuitBreaker` | the dashboard page in several tabs: `CircuitBreakers.render`, `ServiceHostPortForm` (edit, submit), `CircuitBreakerStream` (mount, replacement on message) and `createCircuitBreakerStream` | `stored` (`localStorage.serviceHostPort`), and for each tab `page`, `title` (the subtitle's host), `typed` (the form's state), `sockHost` and `sockSt`, `net`, `displayed` (`state.circuitBreakers`) |
| `DocsTheme` | the documentation theme script: the delegated `.expand` and `.collapse` click handlers, and the `.off-canvas-wrap` scroll handler | `cls` and `on` (each toggle's classes, and whether the dts of the `dl` after it are `on`), `queue`, `target` and `from` (a click being dispatched: the handlers jQuery matched, in registration order), `top` (`scrollTop`), `scrolled` (a scroll event waiting), `hidden` (`#key`'s class) |
| `FormatLatency` | `formatLatency` as a pure operator | the input `v` in tenths of a µs, or `Missing` |
| `ChirpStream_proofs` | TLAPS proofs about `ChirpStream`, and its refinement of `StreamSubscriber` | — |
| `SnapshotView` | the dashboard's contract (spec §4.2 with the replacing reducer, §6, §8): load, show the next array of the titled service, store a host | `stored`, `opened`, `title`, `shown` (the number of the array a tab shows). `CircuitBreaker` maps onto it through `OpenedTabs` and `ShownIndex`. |
| `CircuitBreaker_proofs` | TLAPS proofs of the dashboard invariants, and of its refinement of `SnapshotView` | — |
| `Session_proofs` | TLAPS proof of Session's type invariant | — |
| `UserPage_proofs` | TLAPS proof of the user pages' type invariant | — |
| `FormatLatency_proofs` | TLAPS proof of `NearestOnGrid` for every multiple of 0.1 µs | — |
| `DocsTheme_proofs` | TLAPS proofs of the theme script's type invariant and `ClickTogglesOnce` | — |
| `MC_*` | model values and small sets for TLC | — |

`PROJECT.json`'s `map` names the source lines behind every definition.

Three modelling choices need explaining:

* **`handleSubmit` of `ServiceHostPortForm` calls no `preventDefault`.**
  The browser therefore submits the form, and the tab reloads `/cb`. The
  model splits this into `Submit`, which stores the host, and `Reload`,
  which completes the navigation. Between the two, the old page is still
  alive and still receives snapshots.
* **`formatLatency`'s output is modelled as what the string says:**
  digits, number of decimals and unit. `toFixed` rounds to nearest, and to
  the larger value on an exact tie. `value / 1000` is a binary quotient, so
  a multiple of 50 µs that is not a multiple of 100 µs is a tie that falls
  either way. The model returns both outcomes.
* **A stale App instance is one whose epoch is not the current
  `appEpoch`.** The stale check's callback still removes the stored id.

## Runs

| Run | Expect | Shows |
|---|---|---|
| `chirp_feed_user` (`MC_ChirpStream_user.cfg`) | pass | See below. |
| `user_page` (`MC_UserPage.cfg`) | pass | `ProfileSettles`: a user page in its loading state (subtitle with the bare id) eventually leaves it, with some profile or "not found" set, unless the user goes back to the feed. This is progress only: the profile set may be an earlier user's, which `user_page_shows_route_user` shows. |
| `chirp_feed_liveness` (`MC_ChirpStream_activity.cfg`) | pass | `PushedEventuallyShown`: on the activity feed (no `onopen`), every pushed chirp is eventually displayed unless the socket closed first. |
| `session` (`MC_Session.cfg`) | pass | `LoadingEnds`: the App never stays on its loading screen, whatever the interleaving of checks, logins, sign-ups and navigation. |
| `circuit_breaker` (`MC_CircuitBreaker.cfg`) | pass | `LatestSnapshotShown`: spec §8, each tab shows exactly the last array delivered (replacement, not accumulation), and the queued ones follow in order. This holds across host changes, blank submits, the window before a reload, other tabs and drops. `ImplementsView`: the dashboard implements its contract `SnapshotView`. |
| `docs_toggle` (`MC_DocsTheme.cfg`) | pass | `ClickTogglesOnce`: after a click's handlers have all run, the toggle carries exactly one of `expand` and `collapse`, the other one than before, and its dts are `on` exactly when it offers `collapse`. Both handlers hang off the document, so this rests on jQuery matching every selector before running any handler; two toggles, and scroll positions 0, 60, 61 and 200 around the threshold. |
| `format_latency` (`MC_FormatLatency.cfg`) | pass | `NearestOnGrid`: every result for 0–12 ms is within half a unit of its last digit. The spec's examples are an `ASSUME` of `MC_FormatLatency`. |
| `chirp_posted_as_shown_user` (`MC_Session_chirp.cfg`) | violation | `ChirpPostedAsShownUser` fails: `ChirpForm` can post as a user other than the one the page shows. |
| `late_form_callback_ignored` (`MC_Session_late.cfg`) | violation | `LateFormCallbackIgnored` fails: a sign-up, add-friend or login answer that arrives after its form has gone still navigates, writes `localStorage.userId` or logs the App in, against spec §5. |
| `user_page_shows_route_user` (`MC_UserPage_shows.cfg`) | violation | `PageShowsRouteUser` fails: after the own-name link on another user's page, `/users/me` shows the other user's profile and feed. |
| `friend_for_submitter` (`MC_Session_friend.cfg`) | violation | `FriendRequestForSubmitter` fails. |
| `signup_failure_reported` (`MC_Session_signup.cfg`) | violation | `SignupFailureReported` fails: the failure path calls `setState("User … already exists.")`, React throws, and no error is shown (spec §7(b)). |

The `chirp_feed_user` run checks three properties on a user feed, besides `TypeOK`:

* `FeedIsReversedDelivery`: the feed is the reverse of what the socket
  delivered, and what is in transit follows it.
* `NoDuplicateFetch`: at most one `getUser` per id is outstanding.
* `ImplementsSubscriber`: the feed implements `StreamSubscriber` under
  the refinement mapping. Every step of `ChirpStream` is a connect, a
  publish, a fold of the next published chirp at the head, a disconnect,
  or a stutter of the subscriber's view.

The violations need more explanation:

* **`ChirpPostedAsShownUser`.** `ChirpForm.handleSubmit` posts as
  `localStorage.userId`, read at submit (main.jsx:151). The page names
  `App`'s `state.user`. TLC finds two ways for them to part. In the
  first, the user starts a sign-up and goes back to the feed. The
  sign-up's answer then stores a new id (main.jsx:379) after the App has
  verified the old one. In the second, the user goes from the feed to
  `/signup` and back, so two App instances each issue a check. The new
  check succeeds. Then the old check fails, and its callback, at
  main.jsx:513, removes `localStorage.userId` while the page shows the
  user logged in.
* **`FriendRequestForSubmitter`.** A sign-up completes while a friend
  lookup is outstanding. The POST then uses the *new* `localStorage.userId`,
  read at main.jsx:197, and the friend is added to an account other than
  the one that submitted.
* **`LateFormCallbackIgnored`.** Spec §5 says late callbacks silently
  no-op. `FormGone(r)` says when a callback is late: a sign-up or
  add-friend answer whose page is no longer shown, or a login answer
  whose `LoginForm` has left the screen (`formLogins`). The property is an
  action property: a step that retires such a callback leaves the route,
  `localStorage.userId` and the App's user alone. The code breaks it in
  three places:
  * The sign-up success (main.jsx:380) stores the new id and calls
    `history.pushState('/')` whatever page is showing. TLC's shortest
    trace is this one: sign up, go to the feed, and the answer then
    writes `localStorage.userId`.
  * The add-friend POST success (main.jsx:204) also calls
    `history.pushState('/')`.
  * `LoginForm`'s callback (main.jsx:325) stores the id and calls
    `props.onLogin` without asking whether the form is still mounted. A
    double-submitted login whose second answer arrives after a logout
    logs the user back in.
* **`PageShowsRouteUser`.** `UserChirps` starts its profile lookup, and its
  `ChirpStream` connects, only in `componentDidMount`. The router keeps
  both mounted when only `:userId` changes, and `ChirpStream` has no
  `key`. From `/users/a`, the "me" link leads to `/users/me`. That page
  shows the chirp form, because `userId == localStorage.userId`, but the
  profile state and the live feed stay those of `a`.

Every property of every passing run has a mutant in `PROJECT.json`. A
mutant is a plausible slip in the mapped code, and TLC finds that it breaks
the property. For example, the dashboard's mutants are:

* prepending snapshots the way the chirp feed does;
* keeping the old socket's queue on a host switch;
* dropping the blank-host check.

### Bounds

* **ChirpStream**: 3 users, one of them unknown to the backend (so failed
  lookups happen), and 4 chirps. This is enough for two chirps by one
  author while a lookup is in flight, an unknown author, and a drop or
  unmount with chirps in transit.
* **Session**: 2 ids (one registered at load), 4 XHRs and 2 App mounts.
  Both violations need two App mounts and three or four overlapping
  requests. The pass run covers ~90k states in about 70 s.
* **UserPage**: three ids (Me, another known user and one the backend does
  not know) and 3 `UserChirps` mounts. This is enough for a lookup of an
  earlier mount to answer after a later mount, for a not-found answer, and
  for a move between two user pages.
* **CircuitBreaker**: 2 tabs (under symmetry), 2 hosts and 2 snapshots per
  connection. This is enough for one tab to change the host while the
  other is connected, and for a snapshot to arrive during the navigation.
* **FormatLatency**: every value from 0 to 12 ms in steps of 0.1 µs. This
  covers both unit boundaries and every tie class.

### Fairness

`chirp_feed_liveness` assumes weak fairness of two steps:

* delivery of a queued message (the browser dispatches every received
  frame);
* settling of each lookup.

`user_page` assumes weak fairness of each outstanding profile lookup's
answer. This is the same assumption about the network as above.

`LoadingEnds` assumes every outstanding XHR eventually settles. The code
sets no timeout, so this is an assumption about the network, not something
the code ensures.

No other run uses fairness. No fairness is assumed of the user or the
server.

## Proofs (TLAPS)

`ChirpStream_proofs` proves the following for all `Users`, `Known` and
`MaxChirps`:

* `TypeCorrect`: `Spec => []TypeOK`.
* `FetchDeduplicated`: `Spec => []NoDuplicateFetch`.
* `FeedOrdered`: `Spec => []FeedIsReversedDelivery`.
* `Refinement`: `Spec => ImplementsSubscriber`, that is,
  `Spec => Subscriber!Spec`.

All four rest on `Invariant`, `Spec => []IInv`. Its inductive
invariant `IInv` strengthens the properties with:

* `LifeInv`: a component that has not mounted has no socket and no chirps,
  and an unmounted one has a closed socket;
* `FetchInv`: an outstanding lookup's id is in `loadingUsers`, and there
  are none before mount.
* `EveryAuthorRequested`: every author on screen is in `users` or in
  `loadingUsers`, the render fact the lookup bookkeeping rests on. It is
  an auxiliary conjunct of `IInv`, defined in `ChirpStream_proofs`, not a
  checked property.

`NoDuplicateFetch` is not inductive on its own. A lookup answering for an
id that is not in `loadingUsers` could be followed by a second request.
`FetchInv` rules that out.

The lemma `RenderKeepsGuard` says what one render does to the guard. It is
used for both the message step and the lookup step.

`FeedOrdered` rests on `Fifo`, `Spec => []FifoInv`, which is proved from
`IInv`. `FifoInv` adds two facts to `FeedIsReversedDelivery`:

* nothing is in transit on a socket that is not live;
* nothing has been pushed before the socket exists.

Without them, `Mount` and `Drop` would break the property. The lemmas
`PushKeepsFifo` and `ReceiveKeepsFifo` handle the two steps that move
chirps. They use the `Append`, `Head`/`Tail` and `\o` facts of the
library's `SequenceTheorems`. `ReceiveKeepsFifo` also shows that the head
of the channel is the next chirp of the server's log.

`Refinement` uses that fact too. The initial state maps to
`Subscriber!Init`, and under `IInv /\ FifoInv` each step of `Next` maps to
a step of `Subscriber!Next` or leaves `<<status, published, events>>`
unchanged:

* `Mount` is `Connect`;
* `ServerPush` is `Publish`, since the socket is open only while mounted;
* `Receive` is `Fold`;
* `Unmount` is `Disconnect`;
* every other step is a stutter.

`CircuitBreaker_proofs` proves, for all `Tabs`, `Hosts`, `NB` and
`MaxSnaps`:

* `TypeCorrect`: `Spec => []TypeOK`.
* `SnapshotsReplace`: `Spec => []LatestSnapshotShown`.

Both follow from `Invariant`, `Spec => []CBInv`. `CBInv` is
`TypeOK` together with `TabInv(t)` for every tab. `TabInv(t)` says:

* the socket is to the host the title names;
* a socket that is not live has nothing in transit;
* the channel holds the snapshots after the delivered ones;
* the view is empty or one whole snapshot of that host, and the last one
  delivered while the socket is live.

The last point is needed because a drop keeps the view but empties the
channel. After a drop, `LatestSnapshotShown` says nothing, but the
refinement still needs the view to be a whole snapshot of the titled host. Each action has a lemma.
`OtherTabs` carries the invariant of the tabs a step does not touch.
`SnapshotRows` says a snapshot is a sequence of `NB` rows of its host.

The same module proves that the dashboard implements its contract
`SnapshotView` (`ViewRefinement`, `Spec => ImplementsView`).
`SnapshotView` is the abstract dashboard of spec §4.2 (replacing
reducer), §6 and §8:

* a loaded tab subscribes to the stored host (the default when unset) and
  names it;
* it then shows that service's arrays one at a time, each replacing the
  last, none skipped or repeated;
* any open tab may store a new host.

The refinement mapping hides sockets, channels, the form and navigation:

* `opened` is the set of tabs whose page is not `"closed"`;
* `shown[t]` is `ArrayNumber(displayed[t], title[t])`, the `k` for which
  the rows are exactly the `k`-th array of the titled service.

Rows that are no such array map to `MaxSnaps + 1`, a number the contract
never reaches. So an accumulating view, or a view from another service,
breaks the refinement; TLC finds it when `Receive` accumulates.

The step mapping is:

* `Open` and `Reload` are `Load`;
* `Receive` is `Show`;
* a non-blank `Submit` is `Store`;
* the handshake, the service's sends, drops, edits and blank submits are
  stutters.

The proof uses `CBInv` and one more invariant, `ClosedInv`
(`ClosedTabsIdle`): a tab that has not loaded the dashboard has no
socket, so the tab a message reaches is open. Its lemmas are:

* `ViewOfInjective` and `ArrayNumberIs`: the arrays of a service are told
  apart by their first row, so the number is well defined;
* `LoadPageRefines` and `ReceiveRefines`: one per step that the contract
  sees;
* `ViewStutter`: a step that changes no page, title, view or stored host
  is a stutter.

`Session_proofs` proves `TypeCorrect`, `Spec => []TypeOK`, for all
`Ids`, `Registered0`, `MaxReqs` and `MaxMounts`. `TypeOK` is not inductive
on its own: `SignupOk` adds the request's `uid` to `registered`, and
`FriendPostOk` adds a link with it, so the proof needs every outstanding
callback to hold a real id. `UidsKnown` says so, and `Invariant` proves
`TypeOK /\ UidsKnown` inductive. The lemmas are:

* `NewReqTyped`: a new callback is a well-formed request;
* `GoToTyped` and `GoToUids`: what a route change (with its App mount)
  keeps;
* `PendingTyped`, `StepStateTyped` and `StepUids`: one per part of the
  state.

The proof needs `MaxReqs > 0`, since the page load issues a login check
before any bound applies. `SessionAssumption` states this.

`UserPage_proofs` proves `TypeCorrect`, `Spec => []TypeOK`, for all
`Ids`, `Known`, `Me` and `MaxMounts`. `TypeOK` is inductive as it stands.
A mount from the feed is guarded by `ucEpoch < MaxMounts`, so the lookup
it starts is tagged with an instance in `1..MaxMounts`. A profile answer
stores the id it asked for. The proof needs `MaxMounts > 0`, since a
first load on `/users/:id` mounts `UserChirps` before any bound applies.
`UserPageAssumption` states this.

`FormatLatency_proofs` proves `OnGrid`, `Spec => []NearestOnGrid`, for
every `MaxTenths`. Its lemma `FormatNearest` covers every non-negative
multiple of 0.1 µs (the model's grid: inputs are natural numbers of
tenths), with no upper bound. Latencies between grid points are not covered. The argument goes through each branch of
`formatLatency`:

* `RoundHalfUpNearest`: `(2a + b) \div 2b` is within half of `b` of
  `a / b`;
* in the one-decimal branch, when the value is a binary tie, both possible
  results are exactly half a unit away.

TLC checks the same property for every input up to 12 ms; the proof
extends it to every multiple of 0.1 µs.

`DocsTheme_proofs` proves, for any number of toggles and any scroll
positions:

* `TypeCorrect`: `Spec => []TypeOK`;
* `TogglesOnce`: `Spec => ClickTogglesOnce`, the action property.

Both rest on `Invariant`, `Spec => []DispatchInv`. `DispatchInv` says:

* every toggle carries exactly one of the two classes;
* while a click is dispatched, the queue holds exactly the one handler
  matching the class the toggle had, and the toggle still has it.

The property is not inductive on its own, because a toggle with both
classes would queue both handlers and flip twice. `MatchingOne` computes
the queue jQuery builds for a toggle with one class. `StepEndsClick`
shows that the only step that empties the queue is that handler.
`DocsTheme` writes the matched handlers as the concatenation `Matching`
of the two selectors in registration order, which the provers handle
directly.

## What is only model-checked

These results stay with TLC:

* **Liveness** (`PushedEventuallyShown`, `LoadingEnds`,
  `ProfileSettles`): TLAPS does not handle fairness or ENABLED.
* **The violated properties** (`ChirpPostedAsShownUser`,
  `FriendRequestForSubmitter`, `SignupFailureReported`,
  `LateFormCallbackIgnored`, `PageShowsRouteUser`):
  TLC's counterexamples are the result.
Every safety property of a passing run is also stated by a theorem.

## Not modelled

* **Presentational components** (`Chirp`, `Error`, `Section`,
  `ContentLayout`, `CircuitBreaker`, `CircuitBrakerState`, and the markup
  of every render): they are layout with no state.
* **Foundation's initialisation** in the documentation theme script
  (`$(document).foundation()`): third-party code. The markup the script
  runs on is not in the repository either, so `DocsTheme` starts each
  toggle with either class and its dts either way.
* **What a chirp form or a user page shows as text** (message input,
  names and error strings): only the ids matter to the properties.

## Plan for later work

1. Model a page reload in the Session model: localStorage survives, and
   callbacks die.
2. Model a second tab sharing `userId`.
3. Prove an invariant of the Session callbacks' epochs that `LoadingEnds`
   relies on.

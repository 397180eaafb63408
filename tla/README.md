# Courier in TLA+

Courier is the coordination service of Ember installations: it enrolls lighting
controllers and phones into a Home, lets one client vouch for another, keeps the
documents and push tokens a Home shares, relays requests to daemons behind NAT
and takes a controller's console output for a few minutes at a time. This
directory holds TLA+ modules of its components, the TLC runs that check them,
and TLAPS proofs. Definitions keep the names of the code;
`PROJECT.json` maps each to its lines.

## 1. The system

One uvicorn process, one SQLite file. Handlers declared `def` run in FastAPI's
thread pool, several at a time; those declared `async def`, the background tasks
that send pushes and the relay's sockets run on one event loop. `systemd`
restarts the process at any time (`deploy/courier.service`), and what is in
memory is lost then: requests in flight, tasks, relay tunnels, diagnostic sessions.

`app/db.py` opens a connection per `with` block. A SELECT outside a transaction
sees committed rows and holds nothing; a write takes the only write lock, or
waits for it and fails. So a typical handler reads, verifies an Ed25519
signature with no lock held, takes the lock with `BEGIN IMMEDIATE` and looks
again at some of what it read. What it does *not* look at again is where the
hazards are.

| component (source under `src/`) | state | operations | what makes it correct |
|---|---|---|---|
| Enrollment (`app/ember_identity.py`) | controller bootstraps, installations, members, controller-add grants, challenges, audit trail | register a bootstrap; create and authorize a grant; begin and complete an enrollment | challenges and grants are spent once; a controller's key is pinned; a controller joins one installation for good; nobody revoked is let in |
| Client onboarding (`app/ember_client_onboarding.py`) | join requests, invitations; inserts members | ask, decide; invite, authorize, redeem | a decision happens once, by an administrator of that moment; an invitation admits one client, in its time |
| Push (`app/ember_push.py`, `app/apns.py`) | APNs tokens per member; background tasks | register a token; dispatch an alert to every token of a Home | a device belongs to whoever registered it last; one bad token does not stop an alert; alerts end |
| Board sightings (`app/ember_board_sightings.py`) | sightings, notification windows | report a board | alerts of a board lie a day apart, but for the wait for a lock; no report is stored twice; none from a controller that lost its standing |
| Documents (`app/ember_installation_documents.py`) | documents and revisions, the installation's revision | read, write, delete | no update is lost unseen; revisions, audit and content agree; the storage limit holds |
| Relay (`app/relay.py`) | `RelayHub._agents`, `_pending` | an agent's tunnel; forward | the newest tunnel serves; a request is answered by its daemon; every request ends; nothing leaks |
| Diagnostics (`app/oelo_diagnostics.py`) | sessions, their buffers and recent posts | create, ingest, tail, delete | limits hold; polling repeats nothing and misses nothing that is still there |
| Recovery backups (`app/ember_recovery.py`) | backups | upload, latest | an upload that was answered is there with its content, whoever else uses its id; the latest backup is the latest, to the second |
| Schema and migration (`app/db.py`) | the tables | `init_db` | wherever a start is cut off, no challenge is lost or doubled, and courier comes to serve again, with the current schema only |
| Direct push, dashboard (`app/main.py`, `app/apns.py`) | push events, the cached provider token | send once, list | APNs still takes the token a request arrives with |
| Release promotion (`deploy/promote-release-assets.sh`, `build-controller-release-manifest.py`) | release tree, `releases.json`, `latest.json`, `controller-releases.json` | promote firmware or desktop, build the controllers' manifest | assets are immutable; a manifest's hashes are of the assets served; promotions one after the other are atomic to readers |
| `auth.py`, `logging_config.py`, nginx, deploy scripts | none of their own | | |

How they interact: every Ember handler reads `ember_members` and
`ember_installations`, which only enrollment and onboarding write and no handler
ever un-writes: revoking a member, taking away "admin" or deactivating an
installation is an operator's UPDATE (there is no endpoint for it), so it may
come between any two steps. A join request and a board sighting queue an asyncio
task of `ember_push` after their commit. The relay and the diagnostics share
nothing with the rest. Recovery reads members and writes rows of its own; all of it
waits for `init_db`, and dies with the process. The release scripts share no state
with the service: nginx hands out what they put in place.

Hard behaviours, in the order of the hazards in `PROJECT.json`: reads made
before the write lock and used after it; clocks read before the lock; two
requests carrying the same challenge, grant, join request or revision; a row id
kept across an `await`; sockets that break between two awaits; tasks lost in a
restart after the row that announces them is committed; limits at their edge; a
migration that commits statement by statement; shell scripts that take no lock.

## 2. The modules

| module | models | state and actions in terms of the code |
|---|---|---|
| `Members` | `ember_members`, `ember_installations` | the tables as arguments; row constructors, the SELECTs every handler shares, the UNIQUE constraints |
| `Membership` | (abstract) | who owns a controller, who was admitted, who was barred; no requests, challenges or time |
| `Enrollment` | `ember_identity.py` | `thread[t]` is what a request keeps between its read connection and its write transaction; `...Read` and `...Insert`/`...Write` are the two halves; `OperatorEdits` and `Abandon` fall anywhere between |
| `Onboarding` | `ember_client_onboarding.py` | the same shape; `RedeemInvitation` is one action, as the code takes the lock before it reads; `Elsewhere` is what an enrollment commits (`EnrollElsewhere`: it founds a Home, adds a controller to one by a grant, or admits a client) and what operators do to the member table meanwhile |
| `PushDelivery` | `ember_push.py` | a token row per member and environment, and a task per alert: read the tokens once, then send, log, revoke or raise for each |
| `BoardSightings` | `ember_board_sightings.py` | extends `PushDelivery`: `report[t]` carries the verified key and the old clock; the write, `LockWait` after that reading at most; the queueing after the commit; `written` is a history of when |
| `InstallationDocuments` | `ember_installation_documents.py` | `thread[t]` is a handler whose transaction is over and whose answer is not yet sent; `seen` is what each client last heard; `Stored` is what an older start left, one write a document; `TotalSize` counts the bytes of a Home's documents, as `SUM(length(payload))` does |
| `RelayHub` | `relay.py` | an action is what a coroutine does from one `await` to the next |
| `Diagnostics` | `oelo_diagnostics.py` | a handler is one action (it holds the lock throughout), with a clock reading up to `MaxLag` old; `read` is the sequence of cursors the poller was answered, repeats and all; `TurnedAway` is a request answered 404 or 401, which has purged all the same |
| `Startup` | `init_db` of `db.py`, the lifespan of `main.py`, the process | `stage` is the statement `init_db` comes to next; a statement outside a transaction commits by itself, so `Crash` falls between any two; `request` is where each request of the service is |
| `Recovery` | `ember_recovery.py` | extends `Startup`: an upload up to its write, and the write, which stores or raises; `latest` is one read |
| `DirectPush` | `send_ios_push` and `GET /v1/events` of `main.py`, the client of `apns.py` | extends `Startup`: a send up to its await, and what follows the answer |
| `Service` | the process | `Recovery` and `DirectPush` over one `Startup`: a crash takes the requests and the cached token, a tick of the clock waits for no one but the HTTP timeout |
| `ReleasePromotion` | `promote-release-assets.sh`, `build-controller-release-manifest.py`, `deploy-local.sh`'s use of it | an action is a command of a script; a manifest's entry is a tag and the content its hashes are of; a file under a name is a thing of its own, since `install` unlinks and `mv` renames |
| `EnrollmentProofs`, `OnboardingProofs`, `PushDeliveryProofs`, `InstallationDocumentsProofs`, `RelayHubProofs`, `DiagnosticsProofs`, `ServiceProofs`, `ReleasePromotionProofs` | | the theorems (`PushDeliveryProofs` has those of `BoardSightings` too) |
| `MC*` | | constants of the runs |

`BoardSightings` composes with `PushDelivery` by EXTENDS; `Enrollment` and
`Onboarding` both implement `Membership`, whose steps are the meeting point of
the two. `Onboarding` starts with the homes of `Founders`, one enrollment each, and
goes on with all that `complete_enrollment` may commit (`FoundElsewhere`,
`AddElsewhere`, `AdmitElsewhere`), so that Homes with several controllers, and Homes
founded while a request waits, are among its states, and with no `Founders` at all
every table grows from an empty one. The challenges and grants behind those commits
are `Enrollment`'s. `Service` composes `Recovery`
and `DirectPush`, each a module over `Startup`'s variables, into the process that
boots, serves, dies and boots again.

Abstractions common to all: a signature is a set of keys that can sign; ids are
model values and a uuid is any id not yet used; a digest stands for its content;
of a member's capabilities only "admin" is kept; answers are left out unless a
client acts on them (documents); rejected requests change nothing and are no
actions, unless they purge or forget something first (diagnostics).

## 3. The runs

| run | question | instance |
|---|---|---|
| `enroll_grants` | are challenges and grants spent once, in time, for live members only? | 2 concurrent requests, 2 challenges, 1 grant, 2 controllers, 1 operator edit |
| `enroll_contest` | do identities stay pinned under contest, is a grant that two challenges name spent once, and is `Membership` implemented? | 3 challenges, an impostor key that may also be registered, a contested tag, 1 grant that two challenges may name |
| `onboarding` | are decisions and redemptions single, authorized and faithful to `Membership`? | 2 requests, 1 join request, 1 invitation, 2 controllers, 2 Homes of which 1 is founded before, 1 change elsewhere (an enrollment or an edit) |
| `push_delivery` | who owns a token, and do alerts survive and end? | 2 clients, 2 devices, 1 alert, 1 edit or restart |
| `push_stale` | is only the reported token revoked? **no** | the same |
| `board_sightings` | are alerts a window apart, but for a lock wait, with late clocks, replays, revocations, restarts? | 2 concurrent reports of one board, a window of 2 ticks, a lock wait of 1 |
| `documents` | lost updates, revisions, audit, limits, answers | 2 clients, 2 documents that together reach the limit exactly, 2 requests, up to 5 events |
| `relay` | tunnels, answers, leaks, termination | 2 daemons, 3 sockets (one daemon twice), 2 requests |
| `relay_registry` | is the hub a registry of connected daemons? **no** | the same |
| `diagnostics` | rate, buffer, cursors, expiry | 2 sessions, buffer of 3, batches up to 2, 5 lines |
| `service` | does courier come up on any older file, wherever it was cut off, and does it keep what it acknowledged? | 5 older files, 2 challenges, up to 3 requests of 4 uploads, 1 query and 2 pushes, 2 crashes or edits |
| `promotion` | are releases immutable and manifests truthful, and is a promotion alone atomic? | 3 firmware releases (two of one tag), 1 desktop release, 1 deployment; 2 runs each, 1 stop |

The properties of each run, with the code they are about, are stated above their
definitions. `...Inv` definitions (`OnboardingInv`, `WindowInv`, `DocumentInv`,
`BufferInv`, `ServiceInv`, `PromotionInv`) are conjunctions of a type invariant with
named parts that belong together: what two tables, or a table and its audit trail,
say of each other.

### Bounds

Two concurrent requests are enough for each race here, because a handler has one
window, between its read and its write, and what falls into a window is another's
write (or an operator's edit, one at most in a run: `MaxEdits`). `enroll_contest`
takes one thread and three challenges instead, as its contests are between
challenges, not between halves of a request. Time (`MaxTime`) goes one lifetime
past the issue of anything, which is all a comparison with an expiry can tell
apart; `Diagnostics` and `BoardSightings` go further, to see a second or a window
pass and a session expire. `LockWait` is what a report may wait for the write lock (5 s
by the default of `sqlite3.connect`, which `app/db.py:19` leaves as it is), against a `Window`
of a day: 1 against 2 keeps the one below the other. `onboarding` has one join request
beside one invitation; what two rows of one candidate can do is proved, not run. `MaxEvents` = 5 lets a document be written, deleted,
created again and written once more beside another. `Lifetimes`, `Limits`, the
buffer and the batch are small and not multiples of each other, so eviction, a
partial poll and a refused batch all happen. A socket of the relay has one frame
on its way at a time; further frames would wait behind it in the order sent.
In `service` and `promotion` a state starts with one of the sets of `Workloads`: two
uploads of one id with the same or another content, two ids and a query, two
pushes, an upload beside a push; two promotions of one tag with different content
and a deployment, and so on. Each hazard needs two or three of them; all at once
would only multiply what they do beside each other. In `service`, `TicksPerSecond` =
2 tells a time with no fraction from one with, `MaxTime` = 4 gives three seconds,
`TTL` + `SendTimeout` = `ProviderLifetime` leaves no slack (the code leaves minutes: 50
minutes, a timeout of 10 s for each phase of a request, an hour), and `MaxEdits` = 2 lets a start be cut off, and the next one too.
`MaxRuns` = 2 lets each promotion be run or staged again after the one stop of
`MaxStops`, and `MaxControllerReleases` = 1 makes the controllers' manifest shorter
than the other.

Symmetry is used over interchangeable threads, challenges, joins, installations
and clients, and only in runs without liveness properties.

Deadlock is not checked: all bounded inputs may be used up, and a service with
no request to serve has nothing to do.

### Fairness

Only `push_delivery`, `relay` and `service` need any. A dispatch is an asyncio task
that awaits nothing but APNs, and `httpx` ends each send with an answer or a timeout,
so weak fairness of a task's next step is what the event loop gives. In the relay
the loop runs each coroutine whose await is over; `send_json` ends, since
uvicorn's keepalive breaks a socket that stalls; `wait_for` resolves at its
timeout at the latest; and a handler whose socket is gone receives the
disconnect. `service` assumes that systemd starts a dead process (`Restart=always` in
`deploy/courier.service`) and that a process goes on with `init_db` to its end: weak
fairness of `Starts`, which a crash may interrupt. No fairness is assumed of daemons,
networks, clients, requests or crashes.

## 4. What disagrees with its documentation

* `relay_registry`: a tunnel that breaks after it is registered and before its
  greeting is sent never leaves the hub (`app/relay.py:187` is outside the `try`
  whose `finally` unregisters).
* `push_stale`: a token registered while APNs is answering for its predecessor
  is revoked in its place (`app/ember_push.py:289` revokes by row id).

Noted while modelling, without a run:

* docs/ember-installations.md:138 has a board raise "at most one notification per 24
  hours". The time that counts is read before the write lock
  (`app/ember_board_sightings.py:144`): of two reports, one may have waited for the
  lock and one not, and their alerts are then queued a day less that wait apart
  (`AlertedOncePerWindow` has the bound, `LockWait`).
* One candidate's two join requests, both past the SELECT of
  `app/ember_client_onboarding.py:221`, make two pending rows, which administrators
  may decide apart and differently; `DecidedOnce` is about a row.
* Deleting and creating a document brings revision 1 back, so a client that still
  holds revision 1 of the deleted one overwrites the new one without a 409
  (`app/ember_installation_documents.py:228`): the exception in `NoLostUpdate`.
* A client whose membership was revoked consumes an invitation and stays revoked
  (`app/ember_client_onboarding.py:177`), and its join request is answered with the
  revoked membership's id (211).
* `decide_join_request` does not compare the expiry again under the write lock
  (336), and answers an error if the controller was revoked since (277) although
  the decision is committed.
* A completion whose answer is lost is retried and gets 409: the client is a member
  and does not know its member id (`app/ember_identity.py:597`).
* A completion may spend a grant on a controller that its own installation already
  has (`ember_identity.py:707-712`, a recovery), where
  docs/ember-installations.md:84-87 speaks of an unclaimed controller only.
* After a crash between RENAME and the copy (`app/db.py:284-305`), the next start
  finds a current challenge table and skips the rebuild: the old challenges stay in
  the legacy table for good. They expire in minutes, so nothing is missed; the
  second start is not hindered (`ServesAgain`).
* A push APNs took is answered 500, with no event, when the insert fails
  (`app/main.py:355`); the caller that sends again notifies twice.
* `created_at` of a backup is compared as text, in which a time with no fraction
  sorts after those with one in its second (`app/ember_recovery.py:256`): the latest
  backup is the latest to the second (`LatestWithinSecond`).
* Promotions that overlap can show a part of a manifest or nest a directory in
  another; docs/firmware-updates.md:22 says "promotes it atomically", which holds
  while they do not (`AloneIsAtomic`), and nothing but the operator keeps them apart.
  When two of one tag pass the -e test together
  (`deploy/promote-release-assets.sh:42-49`) with different bytes, the second puts its
  directory inside the first's and goes on to install its manifest: the release is
  then named with hashes that its served assets do not have, though
  docs/firmware-updates.md:23-24 lets a version be published again "only when every
  byte is identical". `ManifestsNamePublished` has this as its one exception
  (`Backed`); a controller that verifies SHA-256 refuses such an image.

## 5. The proofs

Every safety property that a run checks is proved, invariants, action properties and
both refinements of `Membership`, for any values of the constants: any number of
installations, controllers, keys, clients, threads, grants, challenges, requests,
invitations, devices, alerts, reports, documents, sessions, tunnels, uploads, pushes,
releases and deployments, any lifetimes, limits and lags of a clock, any number of
crashes. The proofs assume the named assumptions of the modules alone: client keys
are no controller keys; `NoRow`, `Nobody`, `NoSession` and `Gone` name nothing else;
lifetimes, windows and limits are positive; each socket proves one key; a provider
token outlives `TTL` and a send; document keys are finitely many (the code's pattern
bounds their length); founders of a Home, and documents stored before the start, are
ones the code could have written, within the limits.

* `EnrollmentProofs` has the inductive invariant `IInv`. `TypeOK` is inductive by
  itself (`TypeCorrect`). The rest is not: that a member's key agrees with its
  bootstrap (`ControllerKeyAgrees`) rests on the UNIQUE constraints holding of
  the member table (`SchemaAllows`), since otherwise a completion could find one
  of two rows; that only keys that can sign are pinned (`KeyPossessed`) rests on
  `InFlight`, which says of a request past its read what the read verified and no
  one can undo: its challenge is there, and its key has signed; and that a grant
  keeps its home (`GrantKeepsHome`) rests on `GrantOwned`, that a spent grant's
  controller is a member somewhere, else a later enrollment could create it
  elsewhere. `OtherHandlersPrepare` reduces the ten handler halves to "inserts
  rows nobody has spent", so that each conjunct needs one argument for the
  commit of a completion, one for an edit and one for all the rest.
  Its second half proves the action properties (`EnrollsLive`, `GrantSpent`),
  then `SingleUse`: consumed marks and audit entries change together
  (`MarksAppend`, `CommitCounted`). `Implements` is the refinement of
  `Membership`: it needs the second invariant `Founded`, that installations and
  controller members come into being together, because an installation nobody
  owns could be founded twice.

* `OnboardingProofs`: `ApprovalGrants`, `OnlyAdminsAdmit`, `SingleDecision` and
  `Implements`, from any homes of `Founders` on and through every commit of an
  enrollment. That an approved request has its member row is not inductive: the
  insert is skipped if a row is found, and could fail on
  UNIQUE(installation, key) if another kind of row had the key. So `IInv` adds that
  the constraints hold of a table that changes elsewhere (`SchemaAllows`), that rows
  are keyed as their kind says (`RowsNamed`), that an installation in use is owned
  (`Owned`), and of a request past its read what cannot be undone (`InFlight`). Here
  too a step prepares, or decides a request, or redeems an invitation (`StepCases`), and
  the refinement goes by those cases and what `Elsewhere` may do: `FoundKeeps`,
  `AddKeeps` and `AdmitKeeps` for the three kinds of enrollment.
* `PushDeliveryProofs`: `OneOwner` and `EveryTokenTried`. Revoking a row is harmless
  to ownership only if the row is there, so `IInv` adds `InFlight`: what a dispatch
  read stays a row of the table whatever becomes of the token in it, and a task
  that is done has tried its snapshot. `DispatchCases` reduces the seven steps of
  a dispatch to "one task moves on, and at most one row is retired".
  For the sightings the same module adds `OneAlertPerWindow`, `WindowHolds` and
  `AcceptsOnce`. A report carries a clock reading older than its write, so how far apart
  alerts are written does not follow from the times alone: it needs that the
  window row is the latest alert (`WindowIsLatestAlert`), which a late report cannot
  move back since the row is compared under the lock; so the readings lie a window
  apart (`StampsApart`). A reading is no later than its write (`ReadBefore`) and no
  more than `LockWait` earlier (`WrittenInTime`), which makes a window less one wait of
  the times of writing (`StampsSpaceAlerts`).
* `InstallationDocumentsProofs`: `TrailAccounts`, `WithinLimits`, `NeverAhead` and
  `UpdatesSeen`. The audit trail is the measure: `IsRowAt` reads off it what a row was
  when the trail was so many events long, which later events do not change. `IInv` says it
  of the rows (`Rows`), of what every client heard last (`Heard`) and of answers under
  way (`InFlight`). Of two such readings with the same revision, either they name
  the same write or a delete lies between, which is `NoLostUpdate`
  with its one exception. The limit is the cardinality of a union of disjoint sets of
  bytes, so that replacing a row changes the sum by that row alone.
* `RelayHubProofs`: `PendingIsInFlight`, `AnsweredByAddressee` and
  `NewestTunnelServes`. Frames carry a request id and nothing else, so the right
  answer rests on `OnlyAsked` (a daemon is asked only what is addressed to it and
  answers only that) and `ResolvedByAddressee`; the registry on
  `NewestRegistered`, that the newest tunnel proved the key it serves.
  `RequestCases` reduces a step to what it does to requests.

* `DiagnosticsProofs`: `LimitsRate`, `HoldsNewest` and `PollsMissNothing`. A handler
  touches one session, so `IInv` speaks of each by itself. The rate limit rests on
  `PostsSound`: the posts a session remembers are the last of those it accepted, in
  order of time, and the forgotten are a second older than the last ingest; then
  a second before a new post holds at most the remembered and itself (`RateStillKept`).
  Polling rests on `LinesSound`: a line between the poller's cursor and the buffer's
  oldest is counted as missed, and nothing missed is still in the buffer. A batch
  (`LinesBatch`) and a poll (`LinesPolled`) each move one end of that interval. No cursor
  is read twice since the sequence of those read is ascending and ends at or before the
  poller's own (`ReadOn`).
* `ServiceProofs`: `ServiceInv`, `AnsweredIsStored`, `LatestWithinSecond`
  and `ProviderAccepts`. `Staged` says what each stage of
  `init_db` may count on when any number of starts were cut off before: which tables
  exist, and that a row outside `Bootstrapped` sits only in a table that has had its
  rebuild, so that the copy's JOIN loses nothing. `RecoveryIInv` adds that what was
  answered is stored; `PushIInv` that a token is younger than `TTL` when its request
  leaves. `TextKeepsSeconds` is the arithmetic of the text order. The parts meet in
  frame lemmas: what serves leaves the database to `init_db`, and the other way round.
* `ReleasePromotionProofs`: `PromotionInv`, `ReleaseNeverChanges` and `AloneIsAtomic`.
  `Named` follows a manifest from the staged file over `.next` to the readers and the
  builder; the bytes of every entry are there on every leg (`There`), since what is
  published or nested stays (`PublishedStays`) and a run installs only when its assets
  are in their place or inside it. `Alone` says
  how far an undisturbed run has come, across stops and repeats.

Only model-checked: liveness (`AlertsEnd`, `EveryForwardEnds`, `DisplacedEnds`,
`ServesAgain`), which stays with TLC, as TLAPS has no support for ENABLED and
fairness; and, by TLC on its instance too, the two findings of section 4.

## 6. Plan

Done: every component that has state is modelled, and every safety property of the
runs is proved. What could still be proved:

1. of the relay, that every request which ends leaves `_pending`, and that a registered
   tunnel whose greeting was sent leaves the hub with its socket: the safety
   half of `EveryForwardEnds` and `DisplacedEnds`;
2. of a dispatch, that the tokens left to try decrease: the safety half of `AlertsEnd`;
3. of `init_db`, that every stage but the last has a next one that a crash only
   repeats: the safety half of `ServesAgain`;
4. that `BoardSightings` takes only steps of `PushDelivery`, or none, on its
   variables, as a theorem (so far it is what the frame lemmas of the module show).

Not modelled, for good: bearer authentication (one comparison; the actions are
those of callers that passed it), logging, landing pages and association files
(constant texts), the dashboard's reads, nginx and provisioning scripts
(configuration).

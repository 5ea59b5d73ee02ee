# Smart waste management platform: TLA+ models, checks and proofs

This directory specifies the parts of the platform in which concurrency,
failure and time decide whether it works: the Fastify API
(`wastemgmt_api/`), which runs as several replicas (`infra/k8s/api-deployment.yaml`
asks for three) over one MongoDB, receives the bins' readings over MQTT and
serves browsers over HTTP and WebSocket, and the Next.js client
(`wastemgmt_ui/`) that keeps tokens, sockets, lists, tables and forms in each
tab. Paths below are relative to `wastemgmt_api/src/` unless they start with
another top-level directory.

How to run: `tlc -config MCRuleEngine.cfg MCRuleEngine`, and likewise for each
`.cfg` (the table of section 3 names its `MC` module); `tlapm RuleEngineProofs.tla`,
and likewise for the other modules whose name ends in `Proofs`. `PROJECT.json`
lists the runs, the source lines behind every definition, the hazards of the
code, the theorems, and for every checked property a variant of the code that
breaks it.

## 1. Inventory

An API replica is one Node.js process: code between two `await`s runs
undisturbed, and everything can happen at an `await`. Replicas share only the
database. A MongoDB statement on one document is atomic; `updateMany` and
`deleteMany` are not, and neither is a sequence of statements. No transaction,
lock or version check is used anywhere in the code. A browser tab is one event
loop too; tabs share `localStorage` and nothing else.

| Component | State it keeps | Operations | What must be right |
| --- | --- | --- | --- |
| Rule evaluation (`services/rules.service.ts`, `routes/rules.routes.ts`) | rules with `lastFiredAt` per bin (database); `builtinLastFire` (memory of one replica) | `evaluate`, `evaluateBuiltins`, rule CRUD | a rule's cooldown holds over all replicas; no due alarm is dropped; one alert per claim |
| Alert history (`services/alert.service.ts`) | alerts | `raise`, its trim, `acknowledge`, `list` | bounded history per bin; only old alerts are removed |
| Offline detection (`services/heartbeat.service.ts`) | `online`, `lastSeenAt` of a bin | `tick` every minute on each replica | offline means silent; a silence is reported, and once |
| Reading ingestion (`services/dustbin.service.ts`, `routes/ingest.routes.ts`, `services/mqtt.service.ts`) | bins with rolling windows and `latest`; the time-series archive | `message`, `ingestBulkReadings`, `appendReading`, `upsert`, `softDelete` | document and archive agree; what is broadcast is stored |
| Sensor reading queries (`routes/sensorReadings.routes.ts`, `utils/pagination.ts`) | none | keyset pages, offset pages | following the cursor shows each reading once |
| Sessions (`routes/auth.routes.ts`, `services/auth.service.ts`, `wastemgmt_ui/lib/api.ts`) | `refreshTokenHash`, `passwordHash`, `passwordEnc`, `isActive`; tokens in browsers | login, refresh, logout, password change and reset; the client's interceptors | one-shot rotation; a closed session stays closed; tabs keep in step; no request waits for ever |
| WebSocket hub, gateway and pool (`services/ws.service.ts`, `index.ts`, `wastemgmt_ui/lib/socket.ts`) | the subscribers of one replica; the tab's shared sockets and timers | connect, add, remove, broadcast, `refreshAssignment`, `closeUserSessions`, expiry, reconnect | a subscriber's scope follows the database; ended sockets leave the set; one connection a tab |
| Administration (`routes/users.routes.ts`, `rules`, `dustbins`, `config`, `audit`, `citizen`; `seed.ts`) | users, bins, rules, configuration, reports, notifications, the audit log | a change and then its record; a report and then its announcement; seeding | an administrator remains; records and changes agree; a bin's point is that of its coordinates |
| Lists (`wastemgmt_ui/lib/usePaginatedList.ts` and the seven pages on it) | query, data, timer, requests out | fetch, page, filter, mutate and refresh | the list ends as what is chosen; no page beyond the last |
| Live table (`wastemgmt_ui/components/LiveSensorTable.tsx`) | rows, stack of cursors, filter | load, next, previous, poll, splice | rows are of the page and filter that are chosen |
| Dashboards, bell, forms, route pages (`wastemgmt_ui/app`, `TopBar.tsx`, `Sidebar.tsx`) | one answer and the events after it; counts; drafts; a route | load, live event, poll, mark all, type, save, plan | newest reading shown; badge and panel tell the truth; typed text survives |
| Route optimisation (`services/route.service.ts`) | none | `optimize` | each due bin once, no detour that 2-opt could remove |
| Analytics, prediction, CSV export, e-mail, logging, browser shell | little or none | read-only, I/O or layout | (section 5) |

How they interact: an MQTT message or `POST /ingest` becomes
`ingestBulkReadings` (two writes for every metric), then a broadcast to the
hub, then one `evaluate` for every metric. `evaluate` reads the rules, claims a
cooldown window with a conditional update and calls `AlertService.raise`,
which inserts the alert and starts, without waiting, a trim of the bin's
history. Every replica's heartbeat reads the bins that `appendReading` last
touched too long ago, updates them and calls `raise`. Administrators edit
rules, bins and users meanwhile, each change followed by a record, and the user
routes call into the hub of their own replica. A tab loads pages over HTTP with
the access token of `localStorage`, and splices the hub's events into them.

What is hard: nothing serialises the handlers of messages, evaluations, trims
or ticks, neither inside a replica nor between replicas; what is read before an
`await` is used after it; times are taken on each replica's clock and used in
statements that reach the database later; a replica may die, or a call reject,
between any two statements; devices publish at QoS 0, late, and again; answers
reach a tab in any order, and nothing in it asks which request they are of. The
`hazards` of `PROJECT.json` list these at their lines.

## 2. The models

The modules of the API have one action per round trip to the database. What a
handler has read is kept in its own variables, indexed by the handler, until it
ends; then they are reset. A failed call and the death of a replica are actions
bounded by `MaxFaults` or `MaxEvents`. Where a module has clocks, each replica
has its own and they advance independently, so that they disagree by any amount
within the bound. The modules of the browser have one action per user input,
request, step of the server and answer, and requests are numbered, not ordered:
they are served and answered in any order. Variables under "History" in their
declaration record what happened for the properties and never enable or disable
an action. An operator introduced as "Variant for P" is a faulty version of the
definition after it and is used by no action: it shows that property P would
catch that fault.

### RuleEngine

One evaluation `e` is a call of `evaluate` on a replica: `pc[e]` says at which
`await` it is.

| Code | Model |
| --- | --- |
| `evaluate` up to its first `await`, `shouldFireBuiltin` (22-28, 98-118) | `Arrive`: sets `builtinLast` of that replica before the alert is stored |
| `await AlertService.raise` of a built-in alarm (106, 119) | `RaiseBuiltin` |
| `RuleModel.find`, `now`, and the checks of the loop (48-65) | `Find`: the snapshot `snap[e]` and the rules `todo[e]` that pass the checks, which depend on nothing that changes later |
| `updateOne` with its filter (72-82) | `ClaimWins`, `ClaimLoses`, on `ClaimFilter` evaluated at that moment |
| `await AlertService.raise` (84) | `Raise` |
| end of the loop | `Finish` |
| rejection of an awaited call, logged in `mqtt.service.ts` 142 | `CallFails`: the rules not reached are not evaluated |
| death of a replica | `Crash`: its evaluations and its `builtinLastFire` are gone |
| `POST`, `PUT`, `DELETE /rules` | `CreateRule`, `UpdateRule`, `DeleteRule` |

`lastFired[r][b] = 0` is a missing key of the map. The loop takes the rules in
any order: `find` has no sort. A claim with `modifiedCount` 0 although the
filter matches is possible when the document already holds the same time
(`ClaimLoses`). Rule ids are not reused. Tenants are one: no caller of
`evaluate` passes a tenant.

### AlertHistory

The alerts of one bin. A raise `c` takes `createdAt` from its replica's clock
in `Begin` and is stored by `Stored`; then its trim runs: `FewFound` (the early
return) or `Found`, then `DeleteBegins`, any number of `DeleteOne` and
`DeleteEnds`. `find().sort({createdAt: -1}).limit(5)` may return any of the
sets `Newest` admits: times tie. `deleteMany` removes documents one at a time,
everything it matched when it began and possibly what is stored meanwhile.
`Ack` is an update by id for any alert that ever existed, since a list may
have shown it before it was trimmed.

### Heartbeat

A tick `t` runs `Begin` (the cutoff on its replica's clock), `Find`,
`MarkOffline` bin by bin (`updateMany`), `Marked`, and `Raise` once for every
bin it found. Readings reach the bin as `Send`, which stamps `lastSeenAt`, and
`Apply`, which sets `lastSeenAt` and `online`; `Lose` is a write that fails.
`Crash` and `CallFails` end ticks in the middle.

### Ingestion

One bin. A handler `h` receives a message (`Receive`), runs for every metric
`Archive` then `Update` with the metrics interleaved, then `Show` (the
broadcast) and `Finish` (the evaluations answered). `OpFails` rejects the
message while its other metrics go on, as `Promise.all` does. `Push` is
`$push` with a negative `$slice`. `Upsert` and `SoftDelete` create and
deactivate the bin; an update does not look at `isActive`, and finds nothing
when there is no document. Duplicates and late messages are messages received
twice or in any order, up to `MaxReceived`; a lost message is one that is not
received. A reading is identified by its timestamp. Values, the 90-day expiry
of the archive and the format of the payload are left out.

### KeysetPaging and OrderedWalk

`KeysetPaging`: one client follows the cursors of `GET /sensor-readings` or its
`/by-bin` form. A request is `Resolve` (`resolveScope` reads the user's assigned
bins), then `FindMore` or `FindEnd` (the query for one document more than the
page holds, and the answer made of it), `Forbidden` or `Fail`; `NextPage` and
`Open` are the client's. A page is the set of its readings: its order is the
query's. The cursor is the reading it names, which loses nothing: an ISO string
has the milliseconds a BSON date has. `_id` says nothing of the order of
insertion, since every replica draws its own. Meanwhile readings of any time are
inserted, expire, and the user's bins change; `steady` records what was in reach
since the walk began. `limit` is the same throughout a walk, as
`LiveSensorTable` keeps it.

`OrderedWalk` is the abstract promise: a walk owes some items, shows parts of
what is left in order, and passes over nothing it owes. It knows no cursors,
requests or queries. `KeysetPaging` implements it under the mapping
`shown`, `left <-` what lies below the cursor, `owed <- steady`; the property
`WalksInOrder` is the abstract specification under that mapping.

### Sessions

One account and the tokens of one user. The server side has the handlers of
`routes/auth.routes.ts` and those of `routes/users.routes.ts` that touch tokens,
cut at their awaits: `RefreshMatch` and `RefreshStore` (the comparison and the
later store), `LoginFind`, `LoginBackfill` and `LoginStore` (the two saves of a
login), `ChangeFind` and `ChangeSave`, `Reset`, `Delete`, `SetActive`. The
browser side has tabs over one `localStorage`: `Send`, the interceptors'
`StartRefresh`, `JoinRefresh`, `RefusedAgain` and `NothingToRefresh`, `Logout`,
and `RefreshDone` or `RefreshFails` with the requests that waited for it. A token is
the number of its grant; the access and refresh token of one grant have the same.
`Submit` from a `Device` is a login elsewhere, which takes the account's one
refresh token away.

### LiveChannel

From the tab's pool entry (`Mount`, `Unmount`, `OnClose`, `Reconnect`) over its
connections to the gateway of a replica (`Accept`, `Lookup`, `Add`, with the
database read between the last two), the hub (`Message`, `ServerSees`,
`ExpiryCloses`, and `Receives`, the filter of `broadcast`), and an
administrator's edit (`Assign`, `Deactivate`, `Activate`, and the later `Refresh`
of the hub on the replica that served it). `oldTimers` are the reconnect timers
that nobody can clear any more, as the entry they belong to has been dropped. A connection that
is over for both sides is reused; a subscriber that stays in the hub then counts
in `dead`. The rate limit and the size limit of messages are one way in which
`Message` closes the socket.

### Backoffice

The routes of an administrator, with every await a step: the check of the
request's token (`Accept`, from `tokens`, which is what the token says and not
what the account says), look-ups (`Look`, `Hook`, `LookEntry`), the write
(`Write`, `Remove`), and `Record`, the audit entry after it; the citizen's
report (`StoreReport`, `FindAdmins`, `FanOut`), and `runSeed` of replicas that
start at once (`SeedCount`, `SeedAdmin`, `SeedUser`). The documents are a
function from field to value, since each property is about fields: of accounts,
one bin, one rule, one key of the configuration and one report. The rule is
created, changed and deleted; `WriteInVain` is `PUT /rules/:id` after the deletion,
which changes nothing and is recorded all the same. `Nowhere` is a request for an id
that nothing has, where the code records it, too. `Hook` is the
`pre('findOneAndUpdate')` hook of `models/Dustbin.ts`, which reads the half of
the coordinates that the update lacks.

### The browser's pages and BrowserTab

| Module | Code | Actions |
| --- | --- | --- |
| `ListPage` | `usePaginatedList`, `Pagination.tsx`, `utils/pagination.ts`, the seven pages | `Fire`, `FindRows` and `CountRows` (two queries of one request), `Arrive`, filters, pages and sizes, each page's own operations with `OpApplies` and `OpAnswers`, others' changes |
| `LiveTable` | `LiveSensorTable.tsx` | `Load`, `Serve`, `Arrive`, `NextPage`, `PrevPage`, `ChangeFilter`, `Poll`, `Splice` |
| `BinView` | the dashboard's and the bin page's state | `Take`, `Serve`, `Arrive`, `Announce`, `Miss` |
| `Drafts` | settings, cameras and e-mail forms with `routes/config.routes.ts` | `Type` (a camera that is removed is an empty one, since a save leaves those out), `Save`, and the load or save as seen by the server and by the form |
| `Bell` | `TopBar.tsx`, `Sidebar.tsx`, `services/notification.service.ts` | `Create`, `Poll`, `OpenPanel`, `MarkAll`, and the three answers |
| `Planner` | `services/route.service.ts`, `routes/route.routes.ts`, the driver's and administrator's route pages | `Ask`, `Refuse`, `Find` (the query and the cap), `Visit` (a turn of nearest neighbour), `TryPart` and `TryLastPart` (a turn of 2-opt, the last one of a pass), `Arrive`; a turn is a step although nothing can come between two of them, so that what it keeps can be said of a state |

`BrowserTab` composes them: a tab is on one of these views, and its step is a
step of that view. Each component is an `INSTANCE` over the tab's variables. A
page that is left loses its state, so no state crosses views; what does cross
them is `localStorage` (`Sessions`) and the shared socket (`LiveChannel`).

`Sorted` says what the sorts of the queries return, for `ListPage` and `LiveTable`.
The community modules' `SetToSortSeq` takes the order as an operator, of which
the provers know nothing; `MCBrowserTab` assumes, and TLC evaluates, that the two agree
on the subsets of 1..5.

### What is not followed across modules

`RuleEngine` and `Heartbeat` take `AlertService.raise` as one step that stores
an alert or fails; the alert's later life is `AlertHistory`. `Ingestion` takes
the evaluations as one step that answers or fails; they are `RuleEngine`. This
is faithful because none of these modules reads what the others write: `raise`
never reads a rule or a bin, `evaluate` never reads a bin or an alert.
`KeysetPaging` lets any reading be inserted at any time, which includes every
order `Ingestion` produces, and `BinView` lets the events of two readings change
places, which is what `Ingestion`'s handlers do. `LiveChannel` has the token as
an input that expires and changes; `Sessions` says when.

Three simplifications hold in all modules. A statement takes effect before its
caller's death or error is noticed, or never: a late effect after a crash is
left out. A statement whose effect stays although its answer is lost is a step
followed by a failure (`Archive`, then `OpFails`). Values of readings,
thresholds and distances are integers, where the code has floating-point
numbers: only comparisons matter.

## 3. What is checked

| Run (`MC` module) | What it shows |
| --- | --- |
| `rule_engine` (`MCRuleEngine`) | `CooldownSpacing`: two firings of a rule for a bin are a cooldown apart. `EveryTripCovered`: an evaluation that is through leaves no tripped rule without a firing that explains it. `AlertPerClaim`: one alert for every claim but those cut off between lines 82 and 84. `BuiltinSpacing`: the built-in cooldown within one life of one replica. `TypeOK` catches a claim made from an unset snapshot. |
| `alert_history` (`MCAlertHistory`) | `LeanOnceTrimmed`: at most MAX alerts once a trim that queried after the last store has got through. `OnlyOldTrimmedAlone`: a trim nothing came between removes only old alerts. `CutBack`: a history that is too long is cut back unless the trim failed. |
| `heartbeat` (`MCHeartbeat`) | `OfflineMeansSilent`, `OfflineReported`, `SingleAlarm`, `SilenceReported`: see below |
| `ingestion` (`MCIngestion`) | `NothingLost`: archive and document differ by exactly the updates on their way or failed. `ShownIsStored`: what is broadcast can be queried. `WindowIsRecent`: the window is the tail of what was stored, as far as no update is missing. |
| `keyset_paging` (`MCKeysetPaging`) | `WalksInOrder`: the pages implement `OrderedWalk`. `NothingSkipped`: what was stored, matching and in scope throughout is shown when the walk passes its place. `FullPages`: only the last page is short. |
| `sessions` (`MCSessions`) | `InSync`: between grants the browser holds the account's tokens, unless two tabs' grants crossed. `OneShot`: a refresh token is exchanged once, unless two refreshes had compared it. `ClosedStaysClosed`: nothing survives a reset, a deletion or a change of password but what had read the account before. `PairAgrees`: hash and recoverable copy are of one password. `RequestsEnd`: no request waits for ever. |
| `live_channel` (`MCLiveChannel`) | `ScopeIsCurrent`: who is sent which events. `HubForgets`: when a subscriber outlives its connection. `Undoubled`: one connection a tab. `StaysInTouch`: a tab that listens has a connection or tries one. |
| `browser_tab` (`MCBrowserTab`) | Lists: `SettledIsFresh`, `PageInRange`. Table: `CursorsDescend`, `TableShowsPage`. Bin: `ViewCatchesUp`. Forms: `TypingKept`, `LastSaveWins`. Bell: `BellIsHonest`. Planner: `RouteIsTight`. |
| `backoffice` (`MCBackoffice`) | `AdminRemains`, `RecordsAgree`, `LocationInSync`, `ReportAnnounced` |
| `only_old_trimmed` (`MCAlertHistory`, `MCOnlyOldTrimmed.cfg`) | violated: a trim deletes the newest alert, stored between its query and its delete |
| `logout_revokes` (`MCSessions`, `MCLogoutRevokes.cfg`) | violated: the request of a logout carries no token, and what it should revoke stays valid |
| `no_race_flicker` (`MCBrowserTab`, `MCNoRaceFlicker.cfg`) | violated: the late answer to an older request replaces a newer one |

The three violated properties are statements of the repository's own messages,
comments or README; `findings` in `PROJECT.json` quotes them. Next to each of them
a passing run checks what does hold: `OnlyOldTrimmedAlone`,
`ClosedStaysClosed`, and `SettledIsFresh`.

Three more claims are stated as definitions that no run checks, since the run
that refutes them would show nothing beyond what is said here. To see the
counterexample, add the name to the `INVARIANTS` of the run's `.cfg`:
`PerBinBuiltinCooldown` in `MCRuleEngine.cfg` (the built-in cooldown is not kept
per bin over two replicas, or over a restart), `OfflineAlwaysSilent` in
`MCHeartbeat.cfg` (a bin that has just reported is set offline), `Idempotent` in
`MCIngestion.cfg` (a message received twice is stored twice, against
`README.md` 264).

The exceptions. Most properties hold except in a case the code really has, and
a history variable names that case, so that the property says how narrow it is:

- `raced`, `abandoned` (`Heartbeat`): the bin's last reading was applied while a
  tick that had found it stale still held it (lines 21-41); a tick died holding
  it. `SingleAlarm` holds while no two ticks have been in flight together.
- `disturbed` (`AlertHistory`): a store or a query came between another trim's
  query and its end.
- `crossed`, `raced`, `shared`, `staleBackfill` (`Sessions`): grants of two tabs
  overlapped; a call that a change overtook stored a token; two refreshes had
  compared one token; a login filled in the copy of an older password.
- `behind`, `doubled`, `tokenless`, `lateAdds` (`LiveChannel`): an edit did not
  reach the connection; a component mounted while a timer was pending; the tab
  tried to connect without a token; a subscriber was added when nothing listened
  for its end.
- `unsure` (`Backoffice`): two changes of a field were waiting for their
  records; one failed before its record; the last record was deleted; or a rule was
  updated after its deletion, which `routes/rules.routes.ts` 61-69 records without
  looking whether a rule was found. The next change of the field that is recorded
  undisturbed takes it out of `unsure` again, and `RecordsAgree` must hold from there.
- `lapsed`, `torn` (`Backoffice`): an account was changed on a token whose owner had
  lost the role; two partial updates of a bin overlapped.
- `touched`, `shrunk`, `blind`, `stray`, `overtaken`, `fresh`, `unsure` (the
  browser's pages): others changed the rows; an answer came after a later one; and
  the like.
- `plan.improved` (`Planner`, a variable of `twoOpt`): the passes ran out while they still
  improved the route.

Bounds. `rule_engine`: two replicas with clocks up to 2 and a cooldown of 1
tick have two evaluations in the same window, in adjacent windows, on the
boundary, and on clocks that disagree; with two evaluations in flight and three
in all, a third meets the result of a race of two; two edits create a rule and
then change or delete it under a running evaluation. Rules have a cooldown of 1
or 0, and all bins or one as their scope. `alert_history`: a maximum of 2
instead of 5, three raises of which two overlap, so that two trims with
different queries run at once over one alert too many; clocks up to 2 make
creation times tie or differ. `heartbeat`: two tick slots are two replicas'
ticks or two ticks of one; two bins make a tick hold one bin while it raises
the other; the clock goes two beyond the last reading so that every bin can
become stale, as the liveness property needs. `ingestion`: a window of 2 with up
to four messages overflows twice; two metrics in one batch fail independently.
`keyset_paging`: pages of 2 out of five readings, two pairs of which tie in time
while one of the oldest has the highest `_id`, make a boundary fall inside a
tie, a page full exactly at the end, and up to three pages; two changes remove a
reading or a bin and give it back in the middle of a walk; two walks cover both
roles, both endpoints and a filter change. `sessions`: two tabs and another device,
two slots a tab so that a request starts a refresh and one joins it, two refreshes
at once, and two events among expiry, sign-in, password change and fault; what needs
three (a change between two sign-ins of two tabs) is covered by the theorems.
`live_channel`: two replicas so that an edit reaches one hub and not the other,
two components so that one mounts while the other's timer is pending, two connections of which one
is still ending. `browser_tab`: two rows or three readings on pages of one or two
make a page disappear, two requests overtake each other, and one change comes from
elsewhere; five bins at four places are the least with two different routes of which 2-opt has to
change one; two filters of the live table, and none, make a filter replace a filter.
`backoffice`: the two accounts that seeding creates, of which none, one or both
exist, two calls at a time out of three, one fault: two administrators act on each
other; three calls create or change a rule, delete it and update it, or let a change
that nothing disturbs follow two that overlap. The theorems below need none of these bounds. `CHECK_DEADLOCK` is off in
all runs: each stops when its bounds are used up, and the real system may idle.

Symmetry is used over interchangeable evaluations, raises or handlers, in runs
without liveness properties only.

Fairness. `AlertHistory`: weak fairness of the steps of each call in flight,
since MongoDB answers each call and Node resumes each continuation. `Heartbeat`:
weak fairness of each tick's steps, of each replica's timer (`setInterval`), of
the clocks, and of the application of some pending write. `Sessions`: weak fairness
of progress of whatever is under way, that is, the server answers and the
callbacks that can run do. Nothing is assumed of failures, edits, arrivals or
users. `CutBack`, `SilenceReported` and `RequestsEnd` are checked under these; the
other modules state no liveness.

## 4. What is proved

TLAPS checks the modules named `...Proofs`, for every value of the constants
that satisfies the assumptions the component's module names: these say that
readings, rules and queries have the fields the schemas give them, that archives
and sets of calls are finite, that there is at least one replica, bin, tab or
reading, and that bounds and the values of coordinates are natural numbers. Of a
tab they say that there are finitely many rows, that rows, sizes and loads are numbers,
that pages and the sizes on offer are not empty and that a table can load at all; of
its planner, that the places are pairs of natural numbers (the grid that stands for the
map), fills are numbers, and a limit and the number of passes at least one, as
`RouteService.optimize` makes the one and `twoOpt` sets the other.
Nothing is assumed of the clocks.
Each module proves that its `IInv` holds initially, that every action keeps it
(one lemma or step for each), and that it implies the properties; the last step
of a theorem is temporal logic alone. `IInv`, or the named invariants that stand in
for it where a module has several, and their parts are defined in the
component's module, so that TLC can check them too; `BackofficeProofs` adds the types
of the documents' values, which are of several kinds.

`RuleEngineProofs`: `TypeOK`, `CooldownSpacing`, `EveryTripCovered`,
`AlertPerClaim`, `BuiltinSpacing`, and that `lastFiredAt` never goes back. None
but the first is inductive. `IInv` adds that the stored `lastFired` is the time
of the latest claim (`LastIsLatest`), so that the filter of one statement speaks
about the whole history of claims (lemma `ClaimKeepsSpacing`); that times are
positive, so that 0 can stand for a missing key; and `PassedOverCovered`, the
form of `EveryTripCovered` that holds while the loop still runs: each tripped
rule is yet to be claimed, deleted, or covered by a firing. Coverage once reached
is never lost, since claims are only appended (`CoveredGrows`), and a claim that
loses is covered by the latest firing (`LastCovers`). `AlertPerClaim` is an
equation between counters and sets, so each step says which evaluation enters or
leaves the set of those that owe an alert (`OneAlertDue`); `BuiltinSpacing` rests on
`MapHoldsLatest`, that a replica's map has the latest time of its present life.

`HeartbeatProofs`: `OfflineReported` and `OfflineMeansSilent` for any number of
overlapping ticks, and `SingleAlarm`. `IInv` adds what a tick holds in each phase
(`HoldsStale`), that its cutoff was in some replica's past (`CutoffPast`), and that
a bin a tick holds is still silent unless a reading was applied meanwhile
(`HeldSilent`), which is what makes the late `updateMany` right except for the
raced bins. `SingleAlarm` needs that there is one tick as long as none have overlapped
(`OneTick`), that what it has marked is offline (`MarkedAreOffline`) and that what
it holds has not been reported (`NotYetReported`).

`ReadingsProofs`, about paging: `NothingSkipped`, `FullPages`, that pages descend, and the
refinement `WalksInOrder`, for any archive and page size. The argument is that
`Newer` is a strict total order (`NewerTotal`, `NewerAsymmetric`, `NewerTransitive`)
and that the cursor is its lowest shown element (`CursorIsLowest`): what a query
returns lies below the cursor, so below all earlier pages (`NextBelow`); what it
leaves out lies below the new cursor, or is nothing when the query came back short
(`AnswerFacts`); and what was already above the old cursor had been shown
(`SteadyAccounted`). `SteadyInScope` carries the assignments read by `Resolve` to
the query. Each answer then is a step `Advance` of `OrderedWalk`, each `Open` a
`Begin`, and everything else a stutter (`Refines`).

`ReadingsProofs`, about ingestion: `NothingLost`, `ShownIsStored` and `WindowIsRecent`
for any messages, handlers and window. `OpsFollowPhase` says that a metric has an
operation exactly while its handler works on a message that contains it, so that no
two counts are mixed up; `UpdatesAreArchived` that an update on its way is of a
reading that is stored. `WindowIsRecent` rests on `WindowInv`: while no message has come
late or during another, one handler at most is at work and nothing is archived later
than its message (`OneAtATime`), and unless an update is missing the window is the
tail of the archive, or of the archive without its last reading while that one's
update is on its way (`WindowFollows`). That pushing onto a tail and cutting it is the
tail of the longer sequence is a lemma about the one operator `LastOf`, and needs no induction.

`SessionsProofs`: `InSync`, `OneShot`, `ClosedStaysClosed` and `PairAgrees` for any
number of tabs, devices, requests and refreshes. `GrantsAreLater` is the heart of
`InSync`: while nothing has crossed, what is granted is later than all the browser
was ever given, and `LastIsStored` ties the last grant to the account. It needs that
a tab has one refresh under way (`OneRefreshPerTab`), which is what the shared
promise is for. `SpentIsShared` and `MatchedIsOpen` carry the comparison of a refresh
to its store, and `FoundIsCurrent` the look-up of a login to its save.

`AlertHistoryProofs`: `LeanOnceTrimmed` and `OnlyOldTrimmedAlone` for any limit, any
number of raises and any clocks. `owed` is what no trim that got through has seen. What the trims under way have seen forms a chain, and a trim
that saw something nobody owes has seen all that nobody owes (`SeenInTurn`), so the
end of any of them leaves, of what it has seen, at most the alerts it keeps
(`KeepsFew`, `LeanButOwed`). `OnlyOldTrimmedAlone` is inductive once it also speaks
of what a trim may still delete (`GoesOld`): what the query left out has enough later
alerts (`LeftOutIsOld`), and an old alert stays old (`OldStaysOld`).

`LiveChannelProofs`: the four properties for any number of replicas, components,
connections and edits. `HubForgets` counts: every subscriber that nothing will remove
was added late (`StuckWereLate`), which `GatewaySteps`, the possible states of one
connection, turns into a bound on those of dropped and reused connections too.
`Undoubled` follows from `OneAtATime` (unless doubled, each socket of the tab is the
entry's and there is a socket or a timer, never both) and `EntryHoldsSocket`.
`ScopeIsCurrent` needs that what a gateway has read stays the document's until it adds
the socket, and that a subscriber follows the document but for edits that are about
to reach its hub (`ScopesFollow`); what an edit misses is in `behind`.

`BackofficeProofs`: `AdminRemains`, `RecordsAgree`, `LocationInSync` and
`ReportAnnounced` for any accounts and any number of requests at a time. `RequestsFit`
says which requests are where and what the guards that let them in have made sure of:
nobody writes something to one's own account that is not harmless (`ChangesFit`), so
an administrator's write leaves that administrator (`WriteAdmins`). `PairIsSeen`: a
partial update of the bin that nothing crossed knows the pair as it is. `ReportOwed`:
there is one report under way, and those it is owed to are administrators until they are
looked up and among its recipients after. `RecordsFollow`: of a field that is
not unsure one handler at most is about to record a change, of its value, and if none
is, its last record is there and has it. A change, its record and a deletion in the log each say
which of these they keep (`WriteRecords`, `RecordStep`, `RemoveStep`); `KnownWritten` and `KnownRecorded`, that nothing is recorded of an account
or a report that is not there yet, let seeding and reports write without a record. The
assumption `Users \cap Things = {}` only keeps the names of accounts apart from
those of the other documents.

`BrowserTabProofs`: the properties of the list pages, the live table, a bin, the
forms, the bell and the route planner, for any rows, sizes, readings, keys,
notifications, bins and any number of requests in the air. Each part has an invariant of
its own, kept by its own steps; `StepOfPart` lifts the six to the tab, since a step of one view leaves the
variables of the others alone.

- Lists (`ListInv`). Requests are numbered by `bounds.requests`, so that "the last
  request" can be spoken of while several are out. It is answered, in the air or
  failed (`LastRequest`); unless the timer is set it asked for what is chosen
  (`AsksForChosen`), and what it found is still so while nobody else changed rows
  (`FindsWhatIs`); then what settles is fresh. `PageInRange` needs `PageExists`, that the
  chosen page exists in the table and existed in each answer of the last request; an
  answer of another request may send the user to a page only if its total was no more than
  the table has now, which holds as long as no row leaves (`TotalsGrow`,
  `CountGrows`, `PagesGrow`).
- Table (`TableInv`). `AnswersFit`: the rows and the next cursor of an answer lie below
  the cursor it was asked with. `LastLoad`: the last load is out, answered or failed, and
  it is of the filter and cursor chosen. `CursorsDescend` is inductive with these: what
  `NextPage` pushes is below the cursor of the page shown (`Pushed`, `PageBelowFits`).
- Bin (`ViewInv`). `NewestIsKnown`: the newest reading is announced, overtaken, held by
  the view, or was heard of while the first request was out.
- Forms (`DraftInv`). A save writes keys of its own with the text last wanted
  (`SavesWanted`); two saves of a key make it unsure (`OneSaveEach`); so what is wanted
  is stored or on its way (`WantedComes`).
- Bell (`BellInv`). An answer that no change of the inbox has come after is right
  (`AnswersRight`), and what a served mark-all has not marked came after it
  (`UnreadIsFresh`).
- Planner (`PlannerInv`). `VisitsCapped`: each bin the cap left is a stop once or is yet to
  visit, so none is when nearest neighbour has ended, and 2-opt only reorders the stops
  (`ReversedFits`). That the cap leaves as many of the fullest as the limit allows
  (`CappedFits`) follows from the order by fill being strict and total. `NoneShorter`:
  while a pass has improved nothing, none of the parts it has tried would, and `PartInRoute`
  says which those are; so a last pass that improved nothing has tried them all.
  `ReversedIsCut` ties the reversal by index to the slices of the code.

A few facts about data would be inductions: that a finite set of numbers has a least
element and, for each i up to its size, a member with i members at or above it (`NatMin`,
`Ranks`). They are proved from a smallest counterexample instead, which is
the well-foundedness of strict inclusion between finite sets (`SmallestSet`).

Model-checked only: the liveness properties `CutBack`, `SilenceReported` and
`RequestsEnd` (fairness and `ENABLED` are out of the prover's reach). `RouteIsTight` says
nothing of a length when the last of `MaxIterations` passes still improved the route: then
`twoOpt` stops all the same. What `totalDistance` adds up is a fold of the community modules,
which the provers cannot expand; the proof needs only that it is a function of the route.

## 5. Not modelled, and why

Analytics and prediction are read-only arithmetic over reals. CSV export is the
streaming of one answer. The browser's shell (translations, theme, the chat bot's
panel, the public report form), the charts and the map show what they are given and
keep nothing the rest depends on. E-mail, logging, configuration parsing and health answers are
I/O. The MQTT connection and its back-off belong to the library. `wastemgmt_server`
is an empty program, and deployment files only say how many replicas there are.

Disagreements between parts of the code that happen every time, so that no model
is needed to find them:

- Both route pages send `startLat` and `startLng` (`wastemgmt_ui/lib/api.ts` 177-178)
  where `OptimizeSchema` (`routes/route.routes.ts` 8) requires `depotLat` and
  `depotLng`, and read `ordered` and `totalDistanceKm` where the service answers
  `stops` and `distanceKm`: `Refuse` of `Planner` is what they always get.
- The search of the audit log looks at `actor.username` (`routes/audit.routes.ts` 27),
  and the records have `actorUsername`.

## 6. What could follow

1. A composition of `Sessions` and `LiveChannel`: the token of the pool's next
   connection is the one that a refresh of any tab left.
2. A rule's cooldown as an atomic "fire at most once a window" action that
   `RuleEngine` implements, as `OrderedWalk` is implemented by `KeysetPaging`.

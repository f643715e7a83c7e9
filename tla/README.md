# Verification of the AEGIS dashboard pipeline

TLA+ models of the parts of this repository in which order, overlap, failure and
boundaries decide whether the dashboard tells the truth, the TLC runs that check
them on small instances, and TLAPS proofs of what holds for instances of any size.

`PROJECT.json` is the index: components, runs, the source lines each definition
translates, findings, hazards, theorems and, for every property, a plausible
defect of the code that would break it.

To run one check: `tlc -config Edge.cfg MCEdge`. To check the proofs of one
module: `tlapm DeliveryProofs.tla`.

## 1. The system

    factory edge: generator -> outbox directory -> publisher
            |  MQTT
            v
    IoT Core --async invoke--> data processor (Lambda) ---> LATEST, HISTORY (DynamoDB), copies (S3)
    fast / slow collectors (Lambda, 1 min / 5 min) -------> CLOUD#infra LATEST, HISTORY
                                                                   |
                             DynamoDB stream -> notifier (Lambda) -> Redis Pub/Sub
                                                                        |
    browser (React) <--WebSocket-- backend (FastAPI, 2 tasks x 2 workers)
            |  <--------- HTTP ------|---- DynamoDB, S3, RDS (users), Cognito, Bedrock

### Inventory

| component | state it keeps | operations | talks to | what is hard | what makes it correct |
|---|---|---|---|---|---|
| dummy factories, `apps/dummy-sensor` | outbox directory, back-off | write a file, publish and remove it, set a bad one aside | IoT Core | restart between any two steps; a publish that fails or is done and not noticed | no file disappears before its publish returned, and no message is set aside unless reading it failed; a repetition is owed to a fault; the backlog drains |
| data processor, `apps/data-processor` | LATEST and HISTORY items, S3 objects | one handler, 3 to 6 AWS calls | IoT rule (caller), DynamoDB, S3 | duplicated, late and retried events; several invocations on one factory; reads that lag; death between calls | an acknowledged event is stored; a stored status was earned; S3 holds nothing that LATEST has not shown; nothing retried for ever |
| normaliser and risk, `processor/normalizer.py`, `risk.py` | none | one function per message type | the processor | thresholds, rounding, absent values | worse readings are never safer; the lost points are explained; danger takes two causes |
| collectors, `cloud_infra/fast_collectors.py`, `slow_collectors.py`, `k8s_metrics.py` | none | a section: several calls, then a status | AWS, Kubernetes | any call may fail and the section goes on | an alarm of a fast section has a reason; a green cluster was seen but for its scaling groups; freshness comes from an object |
| cloud collectors' store, `cloud_infra/dynamo.py`, handlers, backend view | one item with two sections, HISTORY, S3 | fast run, slow run, view | DynamoDB, S3, backend | read-change-put of one item by two Lambdas; a collector that stopped | section and time belong together; overall fits the sections; green only when both stored sections are fresh and green |
| notifier, `apps/lambda-notifier` | none of its own; stream position | publish a batch | DynamoDB stream, Redis | partial batches, bisection, retries, dead letters | nothing skipped; subscribers end with the newest state |
| DynamoDB access of the backend, `services/ddb.py` | semaphore, worker threads | gated reads, paged reads, merging | DynamoDB | timeouts, cancelled calls whose thread goes on; items put while pages are read | the limit is kept; every call is answered; answers ascend and keep the right end |
| factory endpoints, `routers/factories.py` | a ten-second list | list, get | gate, RDS | overlapping refreshes, permission changed meanwhile | a list shows what the user could see at a moment of the request; it becomes current |
| sign-in, `deps/auth.py`, `deps/rbac.py` | JWKS with a time, a lock | verify a token, read a principal | Cognito, RDS | rotation, outage, many requests at the expiry | an outage refuses nobody who was accepted; rotated keys arrive |
| metadata start-up, `services/metadata.py`, `main.py` | tables and seeds | create, seed | RDS | four workers start at once; one is killed | the seed is whole or absent, and comes in the end |
| reports and images, `services/s3.py`, routers | none | list, select, read | S3 | objects that come and go; hours and limits at the edge | the result is in the window; a cut drops the end of the order in which keys are taken; list and get agree |
| chat, `services/chat.py`, `routers/chat.py`, `services/bedrock.py` | none | understand, permit, read, answer | S3, DynamoDB, Bedrock | times without a day, a model that is wrong or late, sources that fail | scopes lie in the past; permission before reads; evidence names the sources that failed |
| user administration, `routers/admin_users.py` | Cognito pool, `app_user`, `user_factory_access` | create, update, delete | Cognito, PostgreSQL | two stores without a common transaction; overlapping requests; lock order | an active row can sign in; global administrators have no grants; every request is answered |
| WebSocket endpoint and factory page, `routers/ws.py`, `useWebSocket`, `useFactory`, `FactoryPage.tsx` | sockets, timers, GETs under way, shown item | connect, retry, receive, GET, move to another factory | Redis, DynamoDB | closures of a former factory that are still running; answers out of order; lost messages | what is shown belongs to the factory; it becomes current |
| trend of the factory page, `useFactoryHistory` | module-level cache, request numbers | load, refresh, append, change of key | backend | answers out of order, pushes during a load, a cache that outlives the page | the chart is of its factory; it ends with the newest item |
| fleet page, `FleetPage.tsx`, `useFactories`, `useFleetRecentChanges` | cached list, histories, request numbers | refresh both, leave, return | backend | a list that changes while histories are under way; a pass that is superseded | no gap between neighbours; histories of the listed factories; the spinner ends |
| other hooks, pages, adapters, infrastructure, scripts, documents | | | | | not modelled (section 8) |

## 2. How the project is built

The order in which the modules were written, the behaviour the rest depends on
first. Composition is where components share state; components that share none are run
side by side in one instance whose initial state picks the one that moves, so
that their state spaces add up.

| step | modules | question | result |
|---|---|---|---|
| 1 | `IngestContract`, `DataProcessor` (implements it) | is an event stored once it is acknowledged, and what do readers see meanwhile | checked, proved |
| 2 | `CloudInfraStore` | two writers of one item, and what the view makes of it | checked, proved |
| 3 | `AdminUsers` | two stores, overlapping requests | checked, safety proved |
| 4 | `FactoryPage` | sockets, timers and GETs around a move | checked, safety proved |
| 5 | `Notifier` | retries and bisection of ordered batches | checked, proved |
| 6 | `FactoryHistory`, `FleetTrend` | loads, pushed items and caches around a move or a change of the list | checked, safety proved |
| 7 | `EdgeOutbox` | two processes on one directory, restarts | checked, safety proved |
| 8 | `DdbGate`, `FactoryReads` (over it), `KeySet`, `MetadataSeed` | limits, ages, start-up | checked, safety proved |
| 9 | `HistoryQuery`, `ObjectReads` | paged reads while the store changes; merging and limits | checked, proved |
| 10 | `Assessment`, `Collectors` | scores and statuses at their boundaries, with calls that fail | checked, proved |
| 11 | `ChatQuery`, `ChatFlow` (over it), `ChatEvidence` | what a question means, reads and says | checked, proved |

What would come next: one path from `DataProcessor`'s LATEST over `Notifier`'s stream to
`FactoryPage`'s feed, with the abstract promise that the screen shows some stored
state and ends with the last one.

## 3. Modules and the code they stand for

Every module names in its first comment the files it was read from and what it
leaves out. Common conventions: an action is one uninterruptible piece of the
code (between two awaits, two AWS calls or two callbacks); requests,
invocations, sockets and records are members of constant sets; a bound is a
constant called `Max...` that occurs in a guard only.


**IngestContract** (abstract). The sections LATEST shows, the messages it has
shown at some time, and the archive. Two moves: `Apply(m)` puts a message into
its section of its factory and touches nothing else, `Archive(m)` completes the
copies of a message that LATEST has shown. Both may be repeated.

**DataProcessor** implements it. One record per event: its content, the attempt
it is in, the step of `lambda_handler`, what it read and will write. `Deliver`
is the rule's asynchronous invocation and `Invoke` the handler up to its first
call: an envelope that does not parse is skipped and acknowledged, a payload the
normaliser rejects raises, and so does an infra_state whose time has no zone (`RaisesEarly`); a
timestamp that does not parse raises only at the S3 writes, when LATEST and HISTORY have it.
Then one action per AWS call: `ReadInfra` (the read for pipeline_status),
`WriteLatest` (one unconditional update), `Reread`, `PutHistory`, `PutState`,
`PutRisk`, `PutSnapshot`, `Return`. Any of them may `Raise`, and the process may
`Crash` between two; either way `NextAttempt` counts Lambda's retry and the last
one drops the event. Reads without ConsistentRead return the current item or
the lagging replica (`Visible`, `Replicate`); `Tick` is the clock from which the
status ages.

**CloudInfraStore.** A run of a collector: `Collect`, `ReadLatest`, `PutLatest`
(the whole item), `PutHistory`, `PutObject`, with `Crash` and a retry between
any two, `Replicate` and `Tick`. `Merged` is the item a run puts: its own
section new, the other one as it was read, overall from both. `View` is what
the backend answers from the item and its age.

**AdminUsers.** Requests step through the Cognito and SQL calls of
`create_user` (`StartCreate`, `CleanPool`, `DropRow`, `CreatePool`, `GetPool`,
`CommitCreate`), `update_user` (`StartUpdate`, `LockRow`, `CommitUpdate`) and
`delete_user` (`StartDelete`, `DeletePool`, `CommitDelete`, `IssueDelete`,
`FinishDelete`). READ COMMITTED reads, row and grant locks, unique and foreign
keys, the victim PostgreSQL picks (`Deadlock`) and a fault at any call (`Fail`)
are modelled. A grant that is inserted again is another row: `Replaced` takes it out of what
a statement issued before it sees. Who holds a lock follows from where each request is, so there is
no separate lock table. `inTurn` is a history variable: whether any request has started
while another was under way.

**FactoryPage.** A chain is one call of the effect in `useWebSocket`: its token
await, its socket, its close callback and its timer (`GetToken`, `Open`,
`Subscribe`, `Lose`, `OnClose`, `Reconnect`, `Receive`). `wsRef`,
`unmountedRef` and the retry counter are shared by all chains, as in the hook. A
load is one GET of `useFactory` with its sequence number (`Read`, `Answer`,
`FailGet`, `Poll`). `Switch` is a move to another factory with every cleanup and
effect it runs; `Show` and `Take` are the page's effects, which put an answer or
a pushed message in the shown item.

**FactoryHistory.** A load is one `load()` of `useFactoryHistory`: what it asks
for (`Ask`), the list it will be merged with, which it takes before the query,
the answer (`Read`) and whether it is still the current one. `Answer` writes the
cache always and the chart only if it is current, `Push` is `append` with a
pushed message, `Expire` the cache's 30 s, `Poll` and `Click` refreshes, `Switch`
a change of key. An item is its number, which orders items as timestamps do.

**Notifier.** The stream grows by `Change`; `PollStream` cuts a batch, `Invoke`,
`Publish` and `Finish` are the handler, whose position in the batch and
publications are state; `Fail` is an error at any record, after which the
event source mapping retries, bisects (`Halves`) or drops to the dead-letter
queue.

**FleetTrend.** Two lists of slots: a GET of `useFactories` (`AskList` and
`ReadList`, `AnswerList`, `FailList`; nothing orders the answers) and a pass of
`useFleetRecentChanges` (`Pass`, or `NoFactories` for an empty list; `ReadItems`
factory by factory, `AnswerPass`, `FailPass`), of which only the latest counts.
`RefreshByHand` and `RefreshByTimer` start one of each, an answered list that
differs starts a pass, `Return` is a new mount over the cached list.

**EdgeOutbox.** The generator's `OpenTemporary`, `Replace` and `AbandonWrite`, a
file of other origin (`CopyIn`), and the publisher's pass: `Scan`, and for one
file after the other `Validate` or `Quarantine`, `HandOver`, `Unlink`; then
`Sleep` with the back-off. Any exception of reading or checking moves a file aside, so
`Misread` sets aside a whole message that cannot be read at that moment (the
generator makes a file readable after the rename, factory_b_dummy_generator.py:148). `FailFile` is a
move aside, publish or unlink that fails, publish before or after the
message got through; `ScanFails` a directory that cannot be listed; and `Restart` the publisher at any step. `HandOver` is the
return of publish(): the message has arrived, or at QoS 0 perhaps not at all.

**DdbGate.** One call of `_run_ddb`: `Enter`, `TakePermit`, `StartThread`,
`Return`, `TimeOut` wherever it waits, `Leave`. A thread whose call was given up
is an orphan until boto3 returns (`OrphanEnds`). **FactoryReads** extends it: a
request of GET /factories reads its user and grants in two statements
(`ReadUser`, `ReadGrants`), then uses the cached list or goes through the gate
(`UseCache`, `ReadTable`, `ListRead`, `ListFails`), while the table changes and a PATCH or
DELETE changes the user's role, status and grants (`ChangeUser`).

**KeySet.** A request looks at the cached keys, joins the line of the lock,
fetches if it still has to (`Look`, `Lock`, `Fetched`, `FetchFails`) and judges
its token; keys rotate, the pool fails, the cache expires.

**MetadataSeed.** A worker's start-up statement by statement
(`LookForTables`, `CreateTables`, `CommitTables`, `ReadRows`, `LookForAdmin` for each
name in the list of bootstrap administrators, `CommitRows`), where PostgreSQL lets a
write wait for or clash with another worker's, and `Kill` with the restart. The list may be
empty, which is the default of the code (config.py:47): then only factories are seeded.

**HistoryQuery.** `AskTable`, then one action per page (`QueryPage`, `ScanPage`,
`BatchPage` with its unprocessed keys) while `Put` changes the partition; the
answer is extracted, merged into wider buckets (`Reaggregate`, `Merge`) and
filtered by operators that keep the code's treatment of absent numbers. Sorting
is `Ascending`, the one enumeration of a set of numbers that rises. Of the items it assumes
(`ContentAssumption`) that a mean comes with its minimum and maximum and lies between them.

**ObjectReads.** `AskObjects`, `ListPrefix` for each hour, `ListEnds` with the
cut (`IsCut`: the first in the order of `KeyOrder`, as many as `max_objects` allows), `ReadObject` in any order as the threads may, `ReadEnds` or `S3Fails`, while
`Change` writes or removes an object. Objects that are read are sorted by the time in their
key, images are taken as S3 lists them, by hour and file name: a label stands before the
time in the name, so a cut may drop an older image and keep a newer one. `Visible`, `MayGet` and `ImageRange` are
the permissions and the range of the endpoints.

**Assessment.** `NormalizeFactoryState`, `NormalizeInfraState` and `Calculate`
with its exact rounding, on integers in which every ramp is integral. `Causes` are the
causes whose points are not zero, sorted by points and stable. A sound that is null costs
points: the normaliser makes it the text "None", which is not the text "none".

**Collectors.** A section is a list of calls (`Left`, `NextCall`); each may bring any of its
replies (`Bring`) or fail (`Lack`), then `Report` derives status, reasons and times.
The slow sections carry no reasons and go on with a substitute for a call that failed, against
docs/planning/29_cloud_infra_metrics_pipeline_plan.md:471 and 521-523 (section 4): the properties
claim reasons of the fast sections only, and of a green cluster all but its Auto Scaling groups.

**ChatQuery** is the meaning of a question: the rules (`ParseQuery`) and the
mapping of a resolution of the language model (`MapResolution`), both down to intent,
target and time. A question is a set of phrases, time a number of ticks. `ClockReading`,
`WellSaid` is what its patterns match, `WellResolved` what a reply of the model may be:
any of the tool's choices, a window or an instant that no datetime holds (`TooLong`), and a
member that is not of its type (`Garbled`), on which the mapping raises.
**ChatFlow** extends it with the way to an answer: `AskRules` or `AskModel`, the
permission (`Admit`), one action per read of each intent, `Explain`. Evidence
keeps which facts it confirms and which gaps it names. **ChatEvidence** is the
arithmetic of the evidence: the summary of a series and its spikes, with squared
deviations in place of roots. What was met there and is kept as the code has it: a
processed object that vanishes is answered as a missing daily report; an interval
said with a day that lies in the future comes out inverted; a clock reading with
a minute of 60 or more, or a window too large for a timedelta, fails the request;
so does a reply of the model that is garbled or beyond the years, although
`_resolve_parsed` says that any failure falls back (`InvalidFallsBack`); 12 o'clock at night
is read as noon, and 1 at night as 13:00, on which no document says anything
(`NamedHours`, by which the properties judge readings with a marker, has the night as the code); a
series of three to seven items never shows an outlier, whose score is at most `sqrt(n - 1)`.

`MC...` modules give the constants small values and add what only a run needs.
Where one of them holds several parts (`MCBackend`, `MCChat`, `MCEdge`,
`MCPages`, `MCAdminUsers`), its initial state picks the part that moves, so that the state
spaces add up. `...Proofs` modules hold the theorems.

## 4. Runs

| run | instance | shows |
|---|---|---|
| processor_pair | a factory_state and an infra_state of one factory, a crash, a retry, a clock | every status has evidence, an acknowledged event is stored, and `IngestContract` is implemented |
| processor_reject | a good event beside each kind of refused one, a crash | `RefusalsAreFinal`: an event that is refused before the first write leaves no trace, and none that is refused is acknowledged as stored; `EventsSettle`: every event settles, the good one stored. A payload the normaliser rejects is left to the theorem `RefusalsStay` |
| cloud | a fast and a slow run, a crash, a clock past both staleness limits | sections, times and overall agree; green means that both stored sections are fresh and green |
| admin | three requests: any in turn; creations and updates that overlap, two faults; updates, deletions and creations that overlap, one fault | `RowsAgreeInTurn`: until requests overlap or one fails, pool, tables and grants agree; overlapping, active users sign in and every request is answered |
| page_move | two sockets with a fault, two GETs with a refresh interval, three moves | nothing of a former factory is taken for the new one |
| page_poll | factory page: refresh interval, a fault, a move; fleet page: two factories that come and go, two GETs, two passes, two turns | both pages become current; no history has a gap or belongs to another list; the spinner ends |
| edge | the trend with two loads; the notifier with four failures; the outbox with three files and two faults; every reading on and beside the thresholds; every section with any call failing | the trend ends with the newest item; nothing is skipped or reordered; the outbox sets no message aside and repeats none without a fault, and drains; `ScoreIsSound` and `StatusesAreEarned` |
| backend | three calls through a gate of two permits and one thread; cached lists and keys; two workers starting; pages and objects that change under a reader | limits hold and access was held; outages refuse nobody; the seed is whole, with no, one or two administrators; `AnswerIsTheRange`, `BucketsAreFaithful`, `WindowIsKept`; lists and single reads agree; `BackendSettles` |
| chat | questions by rule and by model at every hour, for every kind of user, with every failure and replies that are garbled; series of up to eight items | `ScopeIsRight`, `ReadsAreDue`, `AnswerIsHonest`, `FiguresHold` |

A property that is a conjunction names its parts, each of which is stated with
its own comment: `ScopeIsRight`, for one, is `ScopeIsPast`,
`UndatedPointIsLatest` and `UndatedIntervalIsLatest`. Type invariants are in no run where a
theorem of section 7 proves them.

### Where the code and its documents disagree

Three runs check a statement of the documents and TLC finds the behaviour that
contradicts it; the quotation is in `PROJECT.json`.

| run | what happens |
|---|---|
| cloud_lost_update | `TracksDoNotOverwrite`: a slow run puts back the fast section it read before a fast run replaced it |
| page_shown | `ShownIsOfFactory`: a pushed item of the former factory stays on the next factory's page |
| nodes_ready | `NodesReadyAsReported`: nodes in the documented format count as not ready, since the normaliser looks for another field |

The modules define more statements of the documents that the code does not
keep. TLC finds each violated when the property is put in the given
configuration in place of its properties, with the constants that are named.

| property | instance | what happens |
|---|---|---|
| `HistoryKeyIsUpdatedAt` | `DataProcessorPair.cfg` | of two overlapping invocations one copies the other's LATEST under its own key |
| `StatusAgreesWithLatest` | `DataProcessorPair.cfg` | a stale critical status is written over a fresh infra_state |
| `DuplicateAddsNoItem` | `DataProcessorPair.cfg` with `Message = {"old"}` and the `Duplicate...` definitions | a message delivered twice gives two HISTORY items |
| `LatestIsNewest` | `DataProcessorPair.cfg` with `Message = {"old", "new"}` and the `Order...` definitions | an older infra_state that is processed late replaces a newer one |
| `PoolAgreesWithRows` | `AdminUsers.cfg` with `OverlapSpec`, `Offered <- RepeatOps` and `MaxFaults = 0` | one creation that names a factory twice: its commit violates the unique grant when Cognito already has the user |
| `NoGrantsForGlobalAdmins` | `AdminUsers.cfg` with `OverlapSpec` and `Offered <- PromoteOps` | a change of grants commits after a promotion |
| `PoolAgreesWithRows` | `AdminUsers.cfg` with `OverlapSpec` and `Offered <- DeleteOps` | Cognito has deleted the user, the commit fails, the row stays active |
| `ActiveUsersSignIn` | `AdminUsers.cfg` with `OverlapSpec` and `Offered <- RecreateOps` | the clean-up of a leftover deletes the Cognito user that another request has just created |
| `NeverOlder` | `FactoryPageMove.cfg` without the symmetry | an older answer covers a newer pushed item |
| `OfflineIsPolled` | `FactoryPageMove.cfg` with `FairSpec`, without the symmetry, with one chain, one load, `MaxFaults = 2`, `MaxSwitches = 0` and `Polling = FALSE` | after the last retry nothing polls |
| `EventuallyComplete` | `Edge.cfg` | an item missed by the socket is older than one that was pushed later, so no refresh asks for it |
| `PartialFailureIsUnknown` | `Edge.cfg` with `EdgeSpec` | docs/planning/29:471 wants the section unknown when a call failed; sections go on with what they have |
| `EverySectionExplains` | `Edge.cfg` with `EdgeSpec` | docs/planning/29:521-523 wants reasons with every alarm; the slow sections give none |
| `HistoryHasOneTrack` | `CloudInfra.cfg` | docs/planning/29:635 wants one track in a HISTORY item; the item is a copy of LATEST with both |
| `StaleCountsAsUnknown` | `CloudInfra.cfg` | docs/planning/29:742-752 wants a stale section to count as unknown in the overall status; the backend says warning, or what was stored if that was not normal |
| `MissingIsSurfaced` | `Chat.cfg` | services/chat.py:20 wants missing data named; after a read that failed an object of a list vanishes, and the answer that the report is absent drops the notes |
| `CausesAreConfirmedOrMissing` | `Chat.cfg` | tests/test_chat.py:982 wants no note of missing causes beside confirmed ones; scores without causes are noted beside items with them |
| `InvalidFallsBack` | `Chat.cfg` | routers/chat.py:307 and docs/changes/0034:42 want any invalid reply of the model to fall back to the rules; some raise |

One statement has no property: docs/report/05_발표_틀.md:94 says that a message that could not be sent goes
to quarantine and is sent again. In the code a message whose publish fails stays in the outbox, and
what is in quarantine is never sent (`MoveAside`).

## 5. Bounds

* Data processor: one unit of time is 70 s, so that ages fall in normal,
  warning and critical with `WarningAge` 0 and `CriticalAge` 1; two attempts
  (three in AWS), since a third adds no new kind of order; one crash. The
  refusals are independent of each other, so one factory and one time are enough
  for `processor_reject`.
* Cloud store: two runs overlap in every order, a retry repeats each of them,
  and the clock goes one step past the slow track's limit. The lost update needs
  three runs, two of one track around one of the other.
* User administration: three requests (the shortest bad histories need two);
  one email is new, one is an active user, one a disabled leftover. Faults: none
  in turn, two among creations, one among locks.
* Factory page: two factories, two chains, so that a socket or a reconnect timer
  of a former factory is left beside the new one, two GETs; three moves, so that
  the user goes, returns and goes again; one retry where the code has five, so
  that running out is reached; one write, one fault. For liveness one GET and one move.
* Fleet page: two items of one factory, so that the older can be missing, none
  of the other; two GETs and two passes, so that one can be superseded; two
  turns, each of which changes the list, refreshes, fails something or returns.
* Trend history: two items, so that one can be newer than the other, and two
  loads, so that one can be superseded.
* Notifier: three records of two keys in one batch stand for batches of ten, one
  retry for three. Failures may strike at every record.
* Outbox: three files, so that a pass has one before and one behind the file
  that fails; two faults; a back-off of 5 that doubles once to its limit of 10.
* Scores: each measure absent, harmless, on, just past and far past each
  threshold, in every combination. Collectors: two pods for 500 and two objects for 1000, so
  that a listing is cut.
* Gate: three calls for two permits and one thread, so that one waits for each.
  Lists and keys: two requests overlap; one change, outage and rotation. Start-up: two
  workers of four, one kill, at most two administrators, since the second is the first whose
  SELECT flushes another; an empty database and, for at most one administrator, every seeded one.
* Paged reads: timestamps 1..5, pages of 2 under a cap of 3, so that the cap
  cuts within a page; chunks of 2 keys; one put at any moment of a query of items.
  Buckets are complete, empty or without a risk, and stay as they are while they are read.
* Objects: hours of two ticks, two of them, `max_objects` 1, one write or
  removal at any moment; names with and without a time, bodies of another time or no JSON, and a
  later file name with an earlier time.
* Chat: a day of six hours of two ticks, asked at each of them; readings with
  and without a marker, up to hour 6 and tick 2, which are past the edge; replies of the model with
  each member garbled or out of range; two
  factories; series of up to eight scores, the length at which an outlier first shows.

## 6. Fairness

Liveness is checked under fairness of what the code or the platform keeps doing
and of nothing else.

* Data processor: weak fairness of each event's next step. Lambda keeps running an
  event it accepted and retries it until its limit; crashes are bounded.
* User administration: weak fairness of each request's step. A request that was
  accepted keeps running and PostgreSQL breaks deadlocks. `WF(Step)` covers the `Start...` actions
  too, so that every request of the instance arrives; an answer to those that did does not
  depend on it. No fairness for faults.
* Factory and fleet page (`PagesFairSpec`): the feed delivers, timers fire, sockets open or
  fail, GETs are answered within the refresh interval. The user's moves, refreshes by hand and the
  loss of connections are not fair. `OfflineIsPolled` (section 4) has all of
  this and fails nevertheless.
* Trend history: replicas catch up, queries are answered, the refresh interval
  elapses. Pushed messages, moves and refreshes by hand are not fair, so the
  newest item must come by polling.
* Notifier: the event source mapping keeps polling and the handler keeps
  running. Failures are bounded, as every batch has limited retries in AWS.
* Outbox: systemd keeps the publisher running and its loop wakes up. The
  generator is not fair, and a file left half-written in outbox/tmp is not owed to anybody.
* Gate: the timeout of each call fires and an answered call leaves. Nothing is
  assumed of boto3: a thread may run for ever. That every call is answered
  (`GateAnswers`) says little more than that; the other three parts of
  `BackendSettles` are about overlap and failure.
* Lists, keys, start-up: the event loop resumes what it can, fetches and calls
  end (how often they fail is bounded), pages ask again, and a worker goes on with its start-up.

## 7. Proofs

All are checked by tlapm for every value of the constants that meets the named
assumptions, which say no more than what kind of value each constant is, that the
value for "absent" differs from those it stands beside, that a mean in the store lies between
the extremes written with it (`ContentAssumption`, `ShapeAssumption`), and, where there are
tables at the start, that these are tables the code leaves.

* **DataProcessorProofs.** `AttemptsLeft` and types give `TypeCorrect`.
  `StatusEarned` says that every status in LATEST, in a copy an invocation has
  read or is about to write, and in HISTORY was computed from a time that
  LATEST had shown: the status alone is not inductive because it travels
  through invocations. `StoredInv` with `Progress` ties what is stored to the step each
  event is in (`DoneIsStored`). `Refinement` maps steps to `IngestContract`. For
  `RefusalsStay` an event refused before the first write never gets past that step, so no copy
  of it can be in LATEST, HISTORY, S3 or in an invocation; one whose timestamp does not parse
  reaches LATEST and HISTORY, and never S3 or an acknowledgement. `ScoreSound` is about
  `Assessment`: each measure costs between nothing and its weight and a worse one no
  less (the ramps, by cases), rounding is monotone and off by at most a half, the causes are exactly the measures that cost points, and no measure
  alone reaches danger.
* **CloudInfraProofs.** `IInv` says that every version of the item, also
  the ones held by a run, is sound; that a run's section is the one it collected, and
  that finished runs are in HISTORY. Soundness of held copies is what the property of LATEST
  needs to be inductive. `StatusesEarned`: what a section has so far are replies that its calls
  can bring, none of which was lost as well, and a report is what all of them
  together give; the rest is a case for each section. It says of the slow sections only
  what they keep to: no green cluster without having been seen, but for its Auto Scaling
  groups, and times that are those of objects.
* **AdminUsersProofs.** `Working` gives the types of what a request has read
  by the step it is in. `SInv` states, for creations and updates, that the pool
  only grows and that the row a request will commit has its Cognito user; from it follows
  `SignInCorrect`, under the assumption that no request removes a pool user.
  Section 4 (`ActiveUsersSignIn` with `RecreateOps`) shows that the assumption
  is needed. For `InTurnCorrect`, `RowsAgreeInTurn` is far from inductive: pool and tables
  disagree while a request is half done. `TurnInv` says that at most one request is under
  way, what it knows by its step (`CreatesAlone`, `UpdatesAlone`, `DeletesAlone`: the
  row it has read is still there, the pool entry it has made or removed is still so, the grants
  it deletes are all the user has), and that pool and rows agree on every
  email but the one it is `Ahead` with; emails stay unique and grants keep their rows. Each step
  is one lemma; those that change neither store are uses of `QuietTurn`. TLC checks
  `TurnInv` on the instance of the run.
* **PagesProofs.** `Guarded`: data is of its factory, and the GET with the
  current number is for the current factory. `FleetCorrect` and `ShownCorrect`: a
  pass that still counts was started for the list on the page and has read
  its histories without a gap; one that does not count may be anything.
* **FactoryHistoryProofs.** `Guarded` adds to types and to `ChartIsOfFactory`
  that base and answer of every load are of the factory it asked for, and that
  a load which may still reach the chart is for the factory of the page. The base
  has to be in it since it is merged with the answer after the user may have moved.
* **DeliveryProofs.** Of the notifier, `Passed` relates the position in a batch to what was
  published; with `NothingSkipped` it is inductive. Bisection keeps the
  concatenation of the waiting batches, a lemma on sequences. Of the outbox,
  `OutboxInv` says that the file being written is in
  outbox/tmp, that the files of the pass are in the outbox, and that after
  publish() the first of them has been handed over; with that
  `DiscardsNothing` is inductive through every restart: no order of steps sets a message aside, and
  each that is set aside is counted against a read that failed. A generator that opens files in
  place breaks the first part, which is what the rename is for. `RepeatsAreOwed` counts:
  a file handed over and not yet unlinked may be sent once more, which a fault must pay.
* **BackendProofs.** `GateInv` counts: permits given out are the calls that
  have one, threads in use are the calls that run and the orphans. Lemma `Count` says how
  the number of calls in a set of states changes when one call moves, so each
  action is one use of it; `LeaksNothing` and `GateTypeCorrect` follow, and by `ListKeepsGate`
  hold under `FactoryReads` as well. `ShownWasHeld` adds that what the user may see now counts as
  held by every request under way, whichever of its two statements comes next. `NoneRefused`, `WindowKept` and
  `ReportsAgree` have invariants of the same kind, and so has `SeedsAllOrNothing`, for any number of
  administrators: what a session found right of a row is still right when it commits
  (`StillRight`), so a commit leaves all of them in order; the hours of `ObjectReads`
  need division with remainder, proved from `LeastNat`.
  `AnswersAreRanges` and `BucketsStayFaithful` rest on `QueryInv`: the pages so far, together
  with what is still to be passed, are all that was there when the query began
  (`QueryPaged`, for items; `ListedMore`, for factories), and they rise or fall without a
  repetition. The rest is about operators: `Ascending` exists for every finite set
  (`AscendingIs`), filtering and cutting keep order, groups by position follow each other
  (`ReaggregateIs`), and a weighted sum lies between the weights times the
  smallest and the greatest (`TotalsBetween`, again from `LeastNat`), which is what bounds a mean.
* **ChatProofs.** `ScopeCorrect` goes through the ways in which a question names a time,
  first by the rules, then by a resolution of the model; that a clock time without a
  day is the latest one is arithmetic on days and half days. `ReadsCorrect` and
  `HonestCorrect` are invariants of `ChatFlow`: what is read so far was permitted
  and due, evidence names every source that has failed, a note that the items lack causes goes with
  the first cause, and what fails a question is a permission, a store, words beyond the clock or a
  spoiled reply (`ReplyFails`, `RuleFails`); the answer that a report is absent, which drops
  the notes, is outside `HonestCorrect` as it is outside the property.
  `FiguresCorrect` is about every series: scores between bounds add up to a sum between them
  (`SumsBetween`), and for any p and q the squares of q * v - p add up, over all scores, to
  at least the one of the farthest (`FarthestIs`). With the mean of the other scores for p/q its
  deviation is at most sqrt(n - 1) standard ones (`DeviationIs`), so 2.5 takes eight scores.

Induction over the natural numbers is done where it is needed from the
well-foundedness of their order (`LeastNat`: a set of numbers that is not empty has a
least one), since the library's induction theorems take an operator as a parameter.

Only model-checked, of the properties the runs check, is liveness (`EventsSettle`,
`LocksAreReleased`, `PagesBecomeCurrent`, `FleetSettles`, `EventuallyNewest`,
`SettlesOnNewest`, `BacklogDrains`, `BackendSettles`), which the prover does not reach.

## 8. What is not modelled

* Wording, formatting, drawing and logging everywhere; pages and adapters of the
  web application, which render what the hooks hold.
* `useCloudInfra`, `useCloudInfraHistory`, `useAdminUsers`, `useCurrentUser`:
  each is the unordered GET of one key that `useFactories` is in `FleetTrend`.
* The cloud endpoints of the backend: a permission, then the view that
  `CloudInfraStore` has, or HISTORY items as stored.
* Expiry of HISTORY (48 h), which DynamoDB does. The aggregator of five-minute
  buckets and the alert dispatcher, whose code is not here; `HistoryQuery`
  takes buckets as given. IoT Core and its rule are the sender of events that may repeat,
  delay and reorder them.
* Infrastructure, deployment and scripts run by hand; the former front end; documents.
* Of the start-up, the migration of one column and names that the list of administrators
  repeats; of user administration, what a display name says (that it is written is modelled).
* `FleetTrend` takes HISTORY to grow in the order of timestamps, which late
  events break (`HistoryKeyIsUpdatedAt`): such an item is not asked for again.

`PROJECT.json` lists the hazards that matter most. Three of them have no property
since the code does not prevent them; section 4 names the violated statement
(processor/dynamo.py:64 `LatestIsNewest`, admin_users.py:253 `PoolAgreesWithRows`,
slow_collectors.py:20 `PartialFailureIsUnknown`). Two more are bounded by a property and not
prevented: a stale status over a fresh infra_state (lambda_function.py:51, `StatusAgreesWithLatest`)
and a Cognito user without a row (admin_users.py:160, `PoolAgreesWithRows`).
Others that were met and are not in the list:

* what the status shows after a move (useWebSocket.ts:55) and a GET slower than
  the refresh interval (useFactory.ts:20), on which no document says anything;
* the close code that a browser sees of a refused handshake (ws.py:34), which
  the server library decides;
* a message lost at QoS 0 after publish() returned
  (factory_b_iot_publisher.py:88), against the advice of docs/planning/06_edge_agent_deployment_plan.md:245;
* a missing measure that counts as harmless (normalizer.py:74), and the
  freshness of a factory that is silent (fast_collectors.py:392);
* seeding that failed and a worker that reports ready (main.py:76).

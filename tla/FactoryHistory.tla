--------------------------- MODULE FactoryHistory ---------------------------
(* The ten-minute trend of the factory page: useFactoryHistory             *)
(* (apps/dashboard-web/src/hooks/useFactoryHistory.ts) with its cache,     *)
(* which outlives the page, its overlapping loads and the items that       *)
(* FactoryPage appends from pushed messages.  An item is a factory and the *)
(* number of its HISTORY#STATE item, which orders items as their           *)
(* timestamps do.  Left out: the loading and error flags, the window's and *)
(* the limit's cut, which keep the newest items.                           *)
EXTENDS Integers, FiniteSets, FiniteSetsExt

CONSTANTS
    Factory,
    MaxLoads,     \* bound on load() calls under way
    MaxItems,     \* per factory, bound on its items
    MaxFaults,    \* bound on failing loads
    MaxSwitches,  \* bound on the user's moves to another factory
    MaxClicks,    \* bound on the user's refreshes while a load is under way
    None

ASSUME HistoryAssumption ==
    /\ MaxItems \in [Factory -> Nat] /\ MaxFaults \in Nat /\ MaxSwitches \in Nat
    /\ MaxClicks \in Nat /\ MaxLoads \in Nat \ {0}
    /\ None \notin Nat

VARIABLES
    stored,     \* per factory, how many items HISTORY has
    replica,    \* how many of them its slowest replica has
    cur,        \* the factory of the page
    cache,      \* per factory, _cache's entry: items, and whether ts is recent
    data,       \* the items of the chart (data, and dataRef)
    load,       \* per slot the load under way
    faults, switches, clicks

table == <<stored, replica>>
hook == <<cache, data, load>>
vars == <<table, cur, hook, faults, switches, clicks>>

Load == 1..MaxLoads
Number == Nat \ {0}
Item == Factory \X Number
Entry == [items : SUBSET Item, fresh : BOOLEAN]
Request == [factory : Factory, base : SUBSET Item, since : BOOLEAN,
            answer : (SUBSET Item) \cup {None}, current : BOOLEAN]

Fresh(f) == cache[f] # None /\ cache[f].fresh

(* What load() asks for: everything, or with force what is newer than the  *)
(* base (latestTimestamp), which is the cached list or else the chart's.   *)
Ask(f, chart, force) ==
    LET base == IF cache[f] = None THEN chart ELSE cache[f].items IN
    [factory |-> f, base |-> base, since |-> force /\ base # {},
     answer |-> None, current |-> TRUE]

(* requestSeq goes up: every other load is no longer the current one.     *)
Superseded(k) == IF load[k] = None THEN None ELSE [load[k] EXCEPT !.current = FALSE]
Idle == {k \in Load : load[k] = None}
Start(f, chart, force) ==
    /\ Idle # {}
    /\ load' = [k \in Load |-> IF k = Min(Idle) THEN Ask(f, chart, force) ELSE Superseded(k)]

Init ==
    /\ stored = [f \in Factory |-> 0] /\ replica = stored
    /\ cur \in Factory
    /\ cache = [f \in Factory |-> None]
    /\ data = {}
    /\ load = [k \in Load |-> IF k = 1 THEN Ask(cur, {}, FALSE) ELSE None]
    /\ faults = 0 /\ switches = 0 /\ clicks = 0

-----------------------------------------------------------------------------
(* The data processor adds an item; reads of HISTORY are eventually        *)
(* consistent.                                                             *)
Write(f) ==
    /\ stored[f] < MaxItems[f]
    /\ stored' = [stored EXCEPT ![f] = @ + 1]
    /\ UNCHANGED <<replica, cur, hook, faults, switches, clicks>>

Replicate(f) ==
    /\ replica[f] < stored[f]
    /\ replica' = [replica EXCEPT ![f] = @ + 1]
    /\ UNCHANGED <<stored, cur, hook, faults, switches, clicks>>

-----------------------------------------------------------------------------
(* useFactoryHistory                                                       *)

(* The backend answers the query: the items, with since the newer ones.    *)
Newer(items, base) == {i \in items : \A b \in base : b[2] < i[2]}
Read(l) ==
    /\ load[l] # None /\ load[l].answer = None
    /\ \E n \in replica[load[l].factory]..stored[load[l].factory] :
         LET items == {load[l].factory} \X (1..n) IN
         load' = [load EXCEPT ![l].answer =
                    IF load[l].since THEN Newer(items, load[l].base) ELSE items]
    /\ UNCHANGED <<table, cur, cache, data, faults, switches, clicks>>

(* Mutant: with since, the answer is taken for the whole list. *)
MergedWithoutBase(l) == load[l].answer

(* mergeHistoryItems *)
Merged(l) == IF load[l].since THEN load[l].base \cup load[l].answer ELSE load[l].answer

(* Mutant: the chart takes every answer. *)
AnswerUnguarded(l) ==
    /\ load[l] # None /\ load[l].answer # None
    /\ cache' = [cache EXCEPT ![load[l].factory] = [items |-> Merged(l), fresh |-> TRUE]]
    /\ data' = Merged(l)
    /\ load' = [load EXCEPT ![l] = None]
    /\ UNCHANGED <<table, cur, faults, switches, clicks>>

(* The answer arrives: the cache takes it always, the chart if no other    *)
(* load or move came in between.                                           *)
Answer(l) ==
    /\ load[l] # None /\ load[l].answer # None
    /\ cache' = [cache EXCEPT ![load[l].factory] = [items |-> Merged(l), fresh |-> TRUE]]
    /\ data' = IF load[l].current THEN Merged(l) ELSE data
    /\ load' = [load EXCEPT ![l] = None]
    /\ UNCHANGED <<table, cur, faults, switches, clicks>>

(* An error: cache and chart stay. *)
FailLoad(l) ==
    /\ load[l] # None
    /\ faults < MaxFaults /\ faults' = faults + 1
    /\ load' = [load EXCEPT ![l] = None]
    /\ UNCHANGED <<table, cur, cache, data, switches, clicks>>

(* refresh(), by the interval, which is longer than an answer takes ... *)
Poll ==
    /\ \A k \in Load : load[k] # None => ~load[k].current
    /\ Start(cur, data, TRUE)
    /\ UNCHANGED <<table, cur, cache, data, faults, switches, clicks>>

(* ... or by the user, who does not wait. *)
Click ==
    /\ clicks < MaxClicks /\ clicks' = clicks + 1
    /\ Start(cur, data, TRUE)
    /\ UNCHANGED <<table, cur, cache, data, faults, switches>>

(* append(): a pushed message of the page's factory.  Messages are lost    *)
(* while no session is subscribed, repeated and late when the notifier     *)
(* tries again.                                                            *)
Push(n) ==
    LET kept == IF cache[cur] = None THEN {} ELSE cache[cur].items
        merged == kept \cup {<<cur, n>>} IN
    /\ cache' = [cache EXCEPT ![cur] = [items |-> merged, fresh |-> TRUE]]
    /\ data' = merged
    /\ UNCHANGED <<table, cur, load, faults, switches, clicks>>

(* CACHE_TTL_MS has passed. *)
Expire(f) ==
    /\ Fresh(f)
    /\ cache' = [cache EXCEPT ![f].fresh = FALSE]
    /\ UNCHANGED <<table, cur, data, load, faults, switches, clicks>>

(* The user goes to another factory: the effect on key resets the chart to *)
(* a fresh entry or to nothing, then load() takes a fresh entry or asks.   *)
Switch(f) ==
    /\ f # cur
    /\ switches < MaxSwitches /\ switches' = switches + 1
    /\ cur' = f
    /\ data' = IF Fresh(f) THEN cache[f].items ELSE {}
    /\ IF Fresh(f) THEN load' = [l \in Load |-> Superseded(l)]
       ELSE Start(f, {}, FALSE)
    /\ UNCHANGED <<table, cache, faults, clicks>>

-----------------------------------------------------------------------------
Next ==
    \/ \E f \in Factory : Write(f) \/ Replicate(f) \/ Expire(f) \/ Switch(f)
    \/ \E n \in 1..stored[cur] : Push(n)
    \/ \E l \in Load : Read(l) \/ Answer(l) \/ FailLoad(l)
    \/ Poll \/ Click

Spec == Init /\ [][Next]_vars

(* Replicas catch up, loads are answered and the refresh interval elapses; *)
(* pushes need not come.                                                   *)
FairSpec ==
    /\ Spec
    /\ \A f \in Factory : WF_vars(Replicate(f))
    /\ \A l \in Load : WF_vars(Read(l)) /\ WF_vars(Answer(l))
    /\ WF_vars(Poll)

-----------------------------------------------------------------------------
(* Type invariant: every variable holds what its comment above says. *)
TypeOK ==
    /\ stored \in [Factory -> Nat] /\ replica \in [Factory -> Nat]
    /\ \A f \in Factory : replica[f] <= stored[f] /\ stored[f] <= MaxItems[f]
    /\ cur \in Factory
    /\ cache \in [Factory -> Entry \cup {None}]
    /\ data \subseteq Item
    /\ load \in [Load -> Request \cup {None}]
    /\ faults \in 0..MaxFaults /\ switches \in 0..MaxSwitches /\ clicks \in 0..MaxClicks

(* docs/ops/04_troubleshooting.md:2404: the answer of an earlier load      *)
(* never gets into the chart of the factory the user is looking at now,    *)
(* and the cache that outlives the page never mixes factories.             *)
ChartIsOfFactory ==
    /\ \A i \in data : i[1] = cur
    /\ \A f \in Factory : cache[f] # None => \A i \in cache[f].items : i[1] = f

(* However loads, pushes, moves and refreshes overlap, with the refresh    *)
(* interval on the newest item ends up in the chart and stays there        *)
(* (useFactoryHistory.ts 104-132).                                         *)
Newest == stored[cur] = 0 \/ <<cur, stored[cur]>> \in data
EventuallyNewest == <>[]Newest

(* docs/specs/data_storage_pipeline.md:635: the trend shows the raw items  *)
(* of HISTORY#STATE, refreshed by merging what is new: with the refresh    *)
(* interval on, no item stays missing.                                     *)
Complete == data = {cur} \X (1..stored[cur])
EventuallyComplete == <>[]Complete
=============================================================================

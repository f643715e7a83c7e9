--------------------------- MODULE CloudInfraStore ---------------------------
(***************************************************************************)
(* The CLOUD#infra item.  A fast collector (every minute) and a slow one   *)
(* (every five minutes) each own one section of the same LATEST item.      *)
(* Neither updates its section alone: it reads the whole item, replaces    *)
(* its section and puts the whole item back, then puts a HISTORY copy and  *)
(* an S3 copy.  The backend judges staleness when it reads.                *)
(*                                                                         *)
(* A section is the worst of its statuses, and stands for the metrics that *)
(* a run collected at a time; the metrics themselves are left out.         *)
(* Scheduled runs only: write_dynamodb and write_s3 are both true.         *)
(***************************************************************************)
EXTENDS Integers

CONSTANTS
    Run,          \* scheduled collector runs
    TrackOf,      \* [Run -> Track]
    FastStale,    \* FAST_STALE_SECONDS in clock units
    SlowStale,    \* SLOW_STALE_SECONDS in clock units
    MaxCrashes,   \* bound on crashes and AWS errors of a behaviour
    MaxClock,     \* bound on the clock
    None          \* an absent section, timestamp or item

Track == {"fast", "slow"}
Time == 0..MaxClock
Status == {"normal", "unknown", "warning", "critical"}

Section == [run: Run, when: Time, status: Status]
Item == [fast: Section \cup {None}, fastAt: Time \cup {None},
         slow: Section \cup {None}, slowAt: Time \cup {None},
         overall: Status]

ASSUME CloudAssumption ==
    /\ TrackOf \in [Run -> Track]
    /\ FastStale \in Nat /\ SlowStale \in Nat
    /\ MaxCrashes \in Nat /\ MaxClock \in Nat
    /\ None \notin Time /\ None \notin Section /\ None \notin Item

VARIABLES
    clock,    \* wall clock of collectors and backend
    latest,   \* the CLOUD#infra LATEST item, or None
    replica,  \* the LATEST that a lagging replica still returns, or None
    history,  \* history[k][t]: HISTORY#FAST#t or HISTORY#SLOW#t, or None
    objects,  \* S3 snapshot objects <<track, time>>
    pc,       \* where a run stands
    at,       \* the run's now
    found,    \* what the run collected
    held,     \* the item the run read, then the item it puts
    crashes   \* faults so far (bounded by MaxCrashes)

vars == <<clock, latest, replica, history, objects, pc, at, found, held, crashes>>

PC == {"due", "collected", "read", "putHistory", "putObject", "done"}

Rank == [normal |-> 0, unknown |-> 1, warning |-> 2, critical |-> 3]

(* worst_status: "unknown" when nothing was reported. *)
Worst(statuses) ==
    IF statuses = {} THEN "unknown"
    ELSE CHOOSE s \in statuses : \A o \in statuses : Rank[o] <= Rank[s]

(* _overall_status over the sections that are present. *)
Overall(fast, slow) == Worst({s.status : s \in {fast, slow} \ {None}})

Empty == [fast |-> None, fastAt |-> None, slow |-> None, slowAt |-> None,
          overall |-> "unknown"]

Init ==
    /\ clock = 0
    /\ latest = None
    /\ replica = None
    /\ history = [k \in Track |-> [t \in Time |-> None]]
    /\ objects = {}
    /\ pc = [r \in Run |-> "due"]
    /\ at = [r \in Run |-> 0]
    /\ found = [r \in Run |-> None]
    /\ held = [r \in Run |-> Empty]
    /\ crashes = 0

-----------------------------------------------------------------------------
(* EventBridge starts the run; the collectors' API calls yield a section,  *)
(* whose status may be anything.                                           *)
Collect(r) ==
    /\ pc[r] = "due"
    /\ at' = [at EXCEPT ![r] = clock]
    /\ \E s \in Status :
         found' = [found EXCEPT ![r] = [run |-> r, when |-> clock, status |-> s]]
    /\ pc' = [pc EXCEPT ![r] = "collected"]
    /\ UNCHANGED <<clock, latest, replica, history, objects, held, crashes>>

(* get_cloud_latest: an eventually consistent read of the whole item. *)
ReadLatest(r) ==
    /\ pc[r] = "collected"
    /\ \E item \in {latest, replica} :
         held' = [held EXCEPT ![r] = IF item = None THEN Empty ELSE item]
    /\ pc' = [pc EXCEPT ![r] = "read"]
    /\ UNCHANGED <<clock, latest, replica, history, objects, at, found, crashes>>

(* Mutants: the other section's timestamp is renewed with it; the other    *)
(* section is not carried over.                                            *)
MergedRenewing(r) ==
    LET item == held[r] IN
    IF TrackOf[r] = "fast"
    THEN [item EXCEPT !.fast = found[r], !.fastAt = at[r], !.slowAt = at[r],
                      !.overall = Overall(found[r], item.slow)]
    ELSE [item EXCEPT !.slow = found[r], !.slowAt = at[r], !.fastAt = at[r],
                      !.overall = Overall(item.fast, found[r])]

MergedBadly(r) ==
    LET item == held[r] IN
    IF TrackOf[r] = "fast"
    THEN [item EXCEPT !.fast = found[r], !.fastAt = at[r]]
    ELSE [item EXCEPT !.slow = found[r], !.slowAt = at[r]]

(* The item a run puts: what it read, with its own section, timestamp and  *)
(* the overall status of its section and the other one it read.            *)
Merged(r) ==
    LET item == held[r] IN
    IF TrackOf[r] = "fast"
    THEN [item EXCEPT !.fast = found[r], !.fastAt = at[r],
                      !.overall = Overall(found[r], item.slow)]
    ELSE [item EXCEPT !.slow = found[r], !.slowAt = at[r],
                      !.overall = Overall(item.fast, found[r])]

(* put_item of the whole LATEST item. *)
PutLatest(r) ==
    /\ pc[r] = "read"
    /\ latest' = Merged(r)
    /\ held' = [held EXCEPT ![r] = Merged(r)]
    /\ pc' = [pc EXCEPT ![r] = "putHistory"]
    /\ UNCHANGED <<clock, replica, history, objects, at, found, crashes>>

(* put_item of HISTORY#FAST#now or HISTORY#SLOW#now. *)
PutHistory(r) ==
    /\ pc[r] = "putHistory"
    /\ history' = [history EXCEPT ![TrackOf[r]][at[r]] = held[r]]
    /\ pc' = [pc EXCEPT ![r] = "putObject"]
    /\ UNCHANGED <<clock, latest, replica, objects, at, found, held, crashes>>

(* put_fast_snapshot or put_slow_snapshot, then the handler returns. *)
PutObject(r) ==
    /\ pc[r] = "putObject"
    /\ objects' = objects \cup {<<TrackOf[r], at[r]>>}
    /\ pc' = [pc EXCEPT ![r] = "done"]
    /\ UNCHANGED <<clock, latest, replica, history, at, found, held, crashes>>

(* The run dies between two calls and Lambda retries it from the start. *)
Crash(r) ==
    /\ pc[r] \notin {"due", "done"}
    /\ crashes < MaxCrashes
    /\ crashes' = crashes + 1
    /\ pc' = [pc EXCEPT ![r] = "due"]
    /\ UNCHANGED <<clock, latest, replica, history, objects, at, found, held>>

Replicate ==
    /\ replica # latest
    /\ replica' = latest
    /\ UNCHANGED <<clock, latest, history, objects, pc, at, found, held, crashes>>

Tick ==
    /\ clock < MaxClock
    /\ clock' = clock + 1
    /\ UNCHANGED <<latest, replica, history, objects, pc, at, found, held, crashes>>

Next ==
    \/ \E r \in Run :
         \/ Collect(r) \/ ReadLatest(r) \/ PutLatest(r) \/ PutHistory(r)
         \/ PutObject(r) \/ Crash(r)
    \/ Replicate
    \/ Tick

Spec == Init /\ [][Next]_vars

-----------------------------------------------------------------------------
(* What the backend answers (services/cloud_infra.py). *)

(* A track is stale when it has no timestamp or an old one. *)
IsStale(when, now, limit) == when = None \/ now - when > limit

(* Mutant: only a stale fast track is reported. *)
OverallIgnoringSlow(item, fastStale, slowStale) ==
    IF fastStale /\ item.overall = "normal" THEN "warning" ELSE item.overall

(* A stale track never leaves the overall status normal. *)
ViewedOverall(item, fastStale, slowStale) ==
    IF (fastStale \/ slowStale) /\ item.overall = "normal" THEN "warning"
    ELSE item.overall

(* _mark_stale: a stale section is unknown whatever it said. *)
ViewedStatus(section, stale) ==
    IF section = None THEN None ELSE IF stale THEN "unknown" ELSE section.status

(* _status_with_staleness *)
View(item, now) ==
    LET fastStale == IsStale(item.fastAt, now, FastStale)
        slowStale == IsStale(item.slowAt, now, SlowStale)
    IN [fast |-> ViewedStatus(item.fast, fastStale),
        slow |-> ViewedStatus(item.slow, slowStale),
        overall |-> ViewedOverall(item, fastStale, slowStale)]

-----------------------------------------------------------------------------
(* Type invariant: every variable holds what its comment above says. *)
TypeOK ==
    /\ clock \in Time
    /\ latest \in Item \cup {None}
    /\ replica \in Item \cup {None}
    /\ history \in [Track -> [Time -> Item \cup {None}]]
    /\ objects \subseteq Track \X Time
    /\ pc \in [Run -> PC]
    /\ at \in [Run -> Time]
    /\ found \in [Run -> Section \cup {None}]
    /\ held \in [Run -> Item]
    /\ crashes \in 0..MaxCrashes

(* Every item stored anywhere, or about to be. *)
Items ==
    ({latest, replica} \cup {history[k][t] : k \in Track, t \in Time}
     \cup {held[r] : r \in Run}) \ {None}

(* A section never travels without its own timestamp: whatever whole-item  *)
(* copies the two collectors make of each other's section, fast_updated_at *)
(* says when that very fast section was collected, and slow_updated_at     *)
(* likewise (dynamo.py 30-50, 60-80).                                      *)
SectionsArePaired ==
    \A item \in Items :
        /\ IF item.fast = None THEN item.fastAt = None
           ELSE item.fastAt = item.fast.when /\ TrackOf[item.fast.run] = "fast"
        /\ IF item.slow = None THEN item.slowAt = None
           ELSE item.slowAt = item.slow.when /\ TrackOf[item.slow.run] = "slow"

(* The overall status of a stored item is the worst of the two sections    *)
(* stored beside it, although each collector computes it from a possibly   *)
(* outdated copy of the other section (dynamo.py 34, 64).                  *)
OverallAgrees ==
    \A item \in Items : item.overall = Overall(item.fast, item.slow)

(* The dashboard shows green only when the section stored by either        *)
(* collector was collected within its limit and found normal: a collector  *)
(* that died does not leave the page green, nor does a section whose       *)
(* timestamp another run put back (cloud_infra.py 43-69). The section that *)
(* is judged is the stored one; that a newer, alarming one may have been   *)
(* overwritten is TracksDoNotOverwrite.                                    *)
FreshAndNormal(section, limit) ==
    section # None /\ section.status = "normal" /\ clock - section.when <= limit
GreenMeansGreen ==
    latest # None /\ View(latest, clock).overall = "normal" =>
        FreshAndNormal(latest.fast, FastStale) /\ FreshAndNormal(latest.slow, SlowStale)

(* LATEST may lose a run's section, HISTORY may not: a finished run left a *)
(* HISTORY item of its track and time with a section collected then.       *)
HistoryKeepsEveryRun ==
    \A r \in Run : pc[r] = "done" =>
        LET item == history[TrackOf[r]][at[r]] IN
        /\ item # None
        /\ IF TrackOf[r] = "fast" THEN item.fastAt = at[r]
                                  ELSE item.slowAt = at[r]

(* docs/changes/0027-cloud-infra-metrics-collector.md:24: fast and slow    *)
(* update different fields of LATEST and never overwrite each other, so a  *)
(* step that renews one section leaves the other as it is.                 *)
TracksDoNotOverwrite ==
    [][latest # None =>
         latest'.fast = latest.fast \/ latest'.slow = latest.slow]_latest

(* docs/planning/29_cloud_infra_metrics_pipeline_plan.md:635: a HISTORY    *)
(* item holds the section of its own track only. Both are copied.          *)
HistoryHasOneTrack ==
    \A t \in Time : /\ history["fast"][t] # None => history["fast"][t].slow = None
                    /\ history["slow"][t] # None => history["slow"][t].fast = None

(* The same plan, 742-752: a stale section counts as unknown in the        *)
(* overall status. The backend answers warning, or what was stored if that *)
(* was not normal.                                                         *)
StaleCountsAsUnknown ==
    latest # None =>
        LET view == View(latest, clock) IN
        view.overall = Worst({view.fast, view.slow} \ {None})
=============================================================================

---------------------------- MODULE DataProcessor ----------------------------
(***************************************************************************)
(* The Lambda data processor (apps/data-processor).  IoT Core invokes it   *)
(* asynchronously, once per delivered event: deliveries may be duplicated, *)
(* reordered and retried, and any number of invocations run concurrently.  *)
(* Each call to DynamoDB or S3 is a step of its own; an invocation may die *)
(* between any two of them and is then retried from the start.             *)
(*                                                                         *)
(* An invocation works on copies: `now' is the handler's clock reading,    *)
(* `status' the pipeline_status it computed, `snapshot' the LATEST it read *)
(* back for HISTORY.  DynamoDB reads are eventually consistent (get_item   *)
(* without ConsistentRead), so a read sees the item or a lagging replica.  *)
(*                                                                         *)
(* factory_state, risk and last_factory_state_at of LATEST are functions   *)
(* of the message that wrote them and are represented by that message; so  *)
(* are infra_state and last_infra_state_at.                                *)
(***************************************************************************)
EXTENDS Integers

CONSTANTS
    Event,        \* deliveries; two events of one message are duplicates
    Message,      \* telemetry messages, one per message_id
    Factory,      \* factories
    MessageOf,    \* [Event -> Message]
    FactoryOf,    \* [Message -> Factory]
    KindOf,       \* [Message -> Kind]
    FaultOf,      \* [Message -> Fault]: what is wrong with its content
    SourceTs,     \* [Message -> Time]: source_timestamp
    WarningAge,   \* _WARNING_SECONDS in clock units
    CriticalAge,  \* _CRITICAL_SECONDS in clock units
    MaxAttempts,  \* bound of Lambda's asynchronous invocation: 1 + retries
    MaxCrashes,   \* bound on crashes, timeouts and AWS errors of a behaviour
    MaxClock,     \* bound on the clock
    NoMessage,    \* an absent section
    NoItem        \* an absent item

Kind == {"factory_state", "infra_state"}

(* "envelope": rejected by parse.  "payload": normalisation raises.        *)
(* "naive": source_timestamp has no zone, subtracting it from now raises.  *)
(* "malformed": source_timestamp is no ISO time at all.                    *)
Fault == {"none", "envelope", "payload", "naive", "malformed"}

Time == 0..MaxClock

ASSUME EventsAssumption ==
    /\ MessageOf \in [Event -> Message]
    /\ FactoryOf \in [Message -> Factory]
    /\ KindOf \in [Message -> Kind]
    /\ FaultOf \in [Message -> Fault]
    /\ SourceTs \in [Message -> Int]
    /\ NoMessage \notin Message

ASSUME BoundsAssumption ==
    /\ WarningAge \in Nat /\ CriticalAge \in Nat
    /\ WarningAge <= CriticalAge
    /\ MaxAttempts \in Nat \ {0}
    /\ MaxCrashes \in Nat
    /\ MaxClock \in Nat

Status == {"normal", "warning", "critical"}

Item == [factory: Message \cup {NoMessage}, infra: Message \cup {NoMessage},
         status: Status, updatedAt: Time]

ASSUME NoItemAssumption == NoItem \notin Item

Dataset == {"factory_state", "risk_score", "infra_state"}

VARIABLES
    clock,        \* wall clock of every invocation
    latest,       \* latest[f]: the LATEST item of FACTORY#f, or NoItem
    replica,      \* replica[f]: the LATEST a lagging replica still returns
    history,      \* history[f][t]: the item HISTORY#STATE#t, or NoItem
    objects,      \* S3 processed objects <<dataset, message>>
    snapshots,    \* snapshots[f][t]: the S3 state_snapshot object t
    pc,           \* where the invocation of an event stands
    attempt,      \* attempts Lambda has started for an event
    local,        \* the running invocation's now, status and snapshot
    applied,      \* messages LATEST has shown (history variable)
    crashes       \* faults so far (bounded by MaxCrashes)

store == <<latest, replica, history, objects, snapshots, applied>>
vars == <<clock, store, pc, attempt, local, crashes>>

Running == {"readInfra", "write", "reread", "putHistory", "putState",
            "putRisk", "putSnapshot", "return"}
Settled == {"done", "skipped", "dropped"}
PC == {"unsent", "queued"} \cup Running \cup Settled

Local == [now: Time, status: Status, snapshot: Item \cup {NoItem}]

(* The locals of an event nobody is running. *)
Idle == [now |-> 0, status |-> "critical", snapshot |-> NoItem]

M(e) == MessageOf[e]
F(e) == FactoryOf[M(e)]

(***************************************************************************)
(* pipeline_status.calculate: the age of the last infra_state against the  *)
(* two thresholds; no infra_state, or one whose timestamp does not parse,  *)
(* is critical.                                                            *)
(***************************************************************************)
PipelineStatus(m, now) ==
    IF m = NoMessage \/ FaultOf[m] = "malformed" THEN "critical"
    ELSE IF now - SourceTs[m] > CriticalAge THEN "critical"
    ELSE IF now - SourceTs[m] > WarningAge THEN "warning"
    ELSE "normal"

Init ==
    /\ clock = 0
    /\ latest = [f \in Factory |-> NoItem]
    /\ replica = [f \in Factory |-> NoItem]
    /\ history = [f \in Factory |-> [t \in Time |-> NoItem]]
    /\ objects = {}
    /\ snapshots = [f \in Factory |-> [t \in Time |-> NoItem]]
    /\ pc = [e \in Event |-> "unsent"]
    /\ attempt = [e \in Event |-> 0]
    /\ local = [e \in Event |-> Idle]
    /\ applied = {}
    /\ crashes = 0

-----------------------------------------------------------------------------
(* Delivery, retry and the environment. *)

(* The edge has published the message and IoT Core hands over one event. *)
Deliver(e) ==
    /\ pc[e] = "unsent"
    /\ SourceTs[M(e)] <= clock
    /\ pc' = [pc EXCEPT ![e] = "queued"]
    /\ UNCHANGED <<clock, store, attempt, local, crashes>>

(* Mutants: the handler swallows the exception; an event that raised is    *)
(* not retried.                                                            *)
RaiseSwallowed(e) ==
    /\ pc' = [pc EXCEPT ![e] = "done"]
    /\ local' = [local EXCEPT ![e] = Idle]

RaiseDrops(e) ==
    /\ pc' = [pc EXCEPT ![e] = "dropped"]
    /\ local' = [local EXCEPT ![e] = Idle]

(* The invocation raised: Lambda retries it until its attempts are spent. *)
Raise(e) ==
    /\ pc' = [pc EXCEPT ![e] = IF attempt'[e] < MaxAttempts THEN "queued"
                                                            ELSE "dropped"]
    /\ local' = [local EXCEPT ![e] = Idle]

(* Crash, timeout or AWS error before the invocation's next step. *)
Crash(e) ==
    /\ pc[e] \in Running
    /\ crashes < MaxCrashes
    /\ crashes' = crashes + 1
    /\ UNCHANGED <<clock, store, attempt>>
    /\ Raise(e)

(* DynamoDB's replica catches up. *)
Replicate(f) ==
    /\ replica[f] # latest[f]
    /\ replica' = [replica EXCEPT ![f] = latest[f]]
    /\ UNCHANGED <<clock, latest, history, objects, snapshots, applied,
                   pc, attempt, local, crashes>>

Tick ==
    /\ clock < MaxClock
    /\ clock' = clock + 1
    /\ UNCHANGED <<store, pc, attempt, local, crashes>>

-----------------------------------------------------------------------------
(* The invocation of an event, one action per AWS call. *)

(* The number of the attempt that starts now. *)
NextAttempt(e) == attempt[e] + 1

(* Mutant: the age of a zoneless timestamp is computed after all. *)
OnlyPayloadRaises(m) == FaultOf[m] = "payload"

(* Normalising the payload, or subtracting the timestamp from now, raises. *)
RaisesEarly(m) ==
    \/ FaultOf[m] = "payload"
    \/ FaultOf[m] = "naive" /\ KindOf[m] = "infra_state"

(* handler: parse the envelope, take now, normalise the payload; for an    *)
(* infra_state also compute pipeline_status from the message itself.       *)
Invoke(e) ==
    /\ pc[e] = "queued"
    /\ attempt' = [attempt EXCEPT ![e] = NextAttempt(e)]
    /\ UNCHANGED <<clock, store, crashes>>
    /\ \/ /\ FaultOf[M(e)] = "envelope"
          /\ pc' = [pc EXCEPT ![e] = "skipped"]
          /\ UNCHANGED local
       \/ RaisesEarly(M(e)) /\ Raise(e)
       \/ /\ KindOf[M(e)] = "factory_state"
          /\ FaultOf[M(e)] # "envelope" /\ ~RaisesEarly(M(e))
          /\ pc' = [pc EXCEPT ![e] = "readInfra"]
          /\ local' = [local EXCEPT ![e].now = clock]
       \/ /\ KindOf[M(e)] = "infra_state"
          /\ FaultOf[M(e)] # "envelope" /\ ~RaisesEarly(M(e))
          /\ pc' = [pc EXCEPT ![e] = "write"]
          /\ local' = [local EXCEPT ![e].now = clock,
                                     ![e].status = PipelineStatus(M(e), clock)]

(* An eventually consistent get_item of LATEST. *)
Visible(f) == {latest[f], replica[f]}

(* get_last_infra_state_at, then pipeline_status against now. *)
ReadInfra(e) ==
    /\ pc[e] = "readInfra"
    /\ \E item \in Visible(F(e)) :
         LET last == IF item = NoItem THEN NoMessage ELSE item.infra
         IN local' = [local EXCEPT ![e].status =
                                       PipelineStatus(last, local[e].now)]
    /\ pc' = [pc EXCEPT ![e] = "write"]
    /\ UNCHANGED <<clock, store, attempt, crashes>>

(* Mutants: updated_at is set only on creation; the whole item is put. *)
UpdatedOnce(item, m, st, now) ==
    LET old == IF item = NoItem
               THEN [factory |-> NoMessage, infra |-> NoMessage,
                     updatedAt |-> now]
               ELSE item
    IN [factory |-> IF KindOf[m] = "factory_state" THEN m ELSE old.factory,
        infra |-> IF KindOf[m] = "infra_state" THEN m ELSE old.infra,
        status |-> st,
        updatedAt |-> old.updatedAt]

UpdatedWhole(item, m, st, now) ==
    [factory |-> IF KindOf[m] = "factory_state" THEN m ELSE NoMessage,
     infra |-> IF KindOf[m] = "infra_state" THEN m ELSE NoMessage,
     status |-> st,
     updatedAt |-> now]

(* The item update_item leaves: SET replaces one section and the status.   *)
Updated(item, m, st, now) ==
    LET old == IF item = NoItem
               THEN [factory |-> NoMessage, infra |-> NoMessage]
               ELSE item
    IN [factory |-> IF KindOf[m] = "factory_state" THEN m ELSE old.factory,
        infra |-> IF KindOf[m] = "infra_state" THEN m ELSE old.infra,
        status |-> st,
        updatedAt |-> now]

(* update_item on LATEST: unconditional, creates the item when absent. *)
WriteLatest(e) ==
    /\ pc[e] = "write"
    /\ latest' = [latest EXCEPT
                    ![F(e)] = Updated(@, M(e), local[e].status, local[e].now)]
    /\ applied' = applied \cup {M(e)}
    /\ pc' = [pc EXCEPT ![e] = "reread"]
    /\ UNCHANGED <<clock, replica, history, objects, snapshots, attempt, local, crashes>>

(* _write_history_from_latest reads LATEST back; an empty answer returns   *)
(* None and no HISTORY item is written.                                    *)
Reread(e) ==
    /\ pc[e] = "reread"
    /\ \E item \in Visible(F(e)) :
         /\ local' = [local EXCEPT ![e].snapshot = item]
         /\ pc' = [pc EXCEPT ![e] = IF item = NoItem THEN "putState"
                                                     ELSE "putHistory"]
    /\ UNCHANGED <<clock, store, attempt, crashes>>

(* put_item under the invocation's own now, whatever updated_at was read. *)
PutHistory(e) ==
    /\ pc[e] = "putHistory"
    /\ history' = [history EXCEPT ![F(e)][local[e].now] = local[e].snapshot]
    /\ pc' = [pc EXCEPT ![e] = "putState"]
    /\ UNCHANGED <<clock, latest, replica, objects, snapshots, applied,
                   attempt, local, crashes>>

(* write_factory_state or write_infra_state: the key is made from the      *)
(* source timestamp and raises when that does not parse.                   *)
PutState(e) ==
    /\ pc[e] = "putState"
    /\ UNCHANGED <<clock, latest, replica, history, snapshots, applied,
                   attempt, crashes>>
    /\ \/ FaultOf[M(e)] = "malformed" /\ Raise(e) /\ UNCHANGED objects
       \/ /\ FaultOf[M(e)] # "malformed"
          /\ objects' = objects \cup {<<KindOf[M(e)], M(e)>>}
          /\ pc' = [pc EXCEPT ![e] =
                      IF KindOf[M(e)] = "factory_state" THEN "putRisk"
                      ELSE IF local[e].snapshot # NoItem THEN "putSnapshot"
                      ELSE "return"]
          /\ UNCHANGED local

(* write_risk_score *)
PutRisk(e) ==
    /\ pc[e] = "putRisk"
    /\ objects' = objects \cup {<<"risk_score", M(e)>>}
    /\ pc' = [pc EXCEPT ![e] = IF local[e].snapshot # NoItem THEN "putSnapshot"
                                                       ELSE "return"]
    /\ UNCHANGED <<clock, latest, replica, history, snapshots, applied,
                   attempt, local, crashes>>

(* write_state_snapshot, keyed by now *)
PutSnapshot(e) ==
    /\ pc[e] = "putSnapshot"
    /\ snapshots' = [snapshots EXCEPT ![F(e)][local[e].now] = local[e].snapshot]
    /\ pc' = [pc EXCEPT ![e] = "return"]
    /\ UNCHANGED <<clock, latest, replica, history, objects, applied,
                   attempt, local, crashes>>

(* The handler returns and Lambda takes the event as processed. *)
Return(e) ==
    /\ pc[e] = "return"
    /\ pc' = [pc EXCEPT ![e] = "done"]
    /\ local' = [local EXCEPT ![e] = Idle]
    /\ UNCHANGED <<clock, store, attempt, crashes>>

Step(e) ==
    \/ Invoke(e) \/ ReadInfra(e) \/ WriteLatest(e) \/ Reread(e)
    \/ PutHistory(e) \/ PutState(e) \/ PutRisk(e) \/ PutSnapshot(e)
    \/ Return(e)

Next ==
    \/ \E e \in Event : Deliver(e) \/ Step(e) \/ Crash(e)
    \/ \E f \in Factory : Replicate(f)
    \/ Tick

Spec == Init /\ [][Next]_vars

(* Lambda keeps running what it has accepted; nothing else is fair. *)
FairSpec == Spec /\ \A e \in Event : WF_vars(Step(e))

-----------------------------------------------------------------------------
(* Type invariant: every variable holds what its comment above says. *)
TypeOK ==
    /\ clock \in Time
    /\ latest \in [Factory -> Item \cup {NoItem}]
    /\ replica \in [Factory -> Item \cup {NoItem}]
    /\ history \in [Factory -> [Time -> Item \cup {NoItem}]]
    /\ objects \subseteq Dataset \X Message
    /\ snapshots \in [Factory -> [Time -> Item \cup {NoItem}]]
    /\ pc \in [Event -> PC]
    /\ attempt \in [Event -> 0..MaxAttempts]
    /\ local \in [Event -> Local]
    /\ applied \subseteq Message
    /\ crashes \in 0..MaxCrashes

(* Every copy of a factory's state the system keeps or is about to write. *)
Copies(f) ==
    {latest[f], replica[f]}
    \cup {history[f][t] : t \in Time} \cup {snapshots[f][t] : t \in Time}
    \cup {local[e].snapshot : e \in {d \in Event : F(d) = f}}

(* An item of factory f whose two sections LATEST really showed and whose  *)
(* status is what pipeline_status.calculate gives, at the item's own       *)
(* updated_at, for an infra_state of f that LATEST showed, or for none.    *)
Evidenced(f, item) ==
    /\ item.factory = NoMessage \/ item.factory \in applied
    /\ \E m \in applied \cup {NoMessage} :
         /\ m # NoMessage => KindOf[m] = "infra_state" /\ FactoryOf[m] = f
         /\ item.status = PipelineStatus(m, item.updatedAt)
    /\ item.infra # NoMessage =>
         /\ item.infra \in applied
         /\ KindOf[item.infra] = "infra_state" /\ FactoryOf[item.infra] = f

(* Whatever interleaving, retry or lagging read produced it, the status a  *)
(* LATEST, HISTORY or snapshot item shows was earned: it follows from an   *)
(* infra_state of the same factory that had really been applied, judged at *)
(* the time the item carries (lambda_function.py 51-54, 82-84).            *)
StatusHasEvidence ==
    \A f \in Factory : \A item \in Copies(f) \ {NoItem} : Evidenced(f, item)

(* The processed objects a message of each kind leaves in S3. *)
Required(m) ==
    IF KindOf[m] = "factory_state"
    THEN {<<"factory_state", m>>, <<"risk_score", m>>}
    ELSE {<<"infra_state", m>>}

Archived == {m \in Message : Required(m) \subseteq objects}

(* Acknowledging an event to Lambda means all of its effects happened: the *)
(* message reached LATEST and its objects are in S3, also when earlier     *)
(* attempts died halfway (lambda_function.py 34-43).                       *)
DoneMeansStored ==
    \A e \in Event : pc[e] = "done" => M(e) \in applied \cap Archived

(* A message whose source timestamp does not parse never reaches the S3    *)
(* archive and is never acknowledged, although LATEST shows it: the key is *)
(* computed only after the DynamoDB writes (s3_writer.py 36-37).           *)
MalformedNeverAcknowledged ==
    \A e \in Event : FaultOf[M(e)] = "malformed" =>
        pc[e] # "done" /\ Required(M(e)) \cap objects = {}

(* A delivery that parse, normalisation or the age computation refuses is  *)
(* refused before the first write: no retry of it leaves a trace in        *)
(* LATEST, HISTORY or S3 (lambda_function.py 22-26, 47, 80-82), although   *)
(* one that parse rejects is acknowledged, as skipped.                     *)
RefusedLeavesNoTrace ==
    \A m \in Message :
        (\/ FaultOf[m] \in {"envelope", "payload"}
         \/ FaultOf[m] = "naive" /\ KindOf[m] = "infra_state") =>
        /\ m \notin applied /\ Required(m) \cap objects = {}
        /\ \A f \in Factory : \A item \in Copies(f) \ {NoItem} :
              m \notin {item.factory, item.infra}

(* What is refused early leaves no trace, what is refused late is never    *)
(* archived nor acknowledged, through every retry.                         *)
RefusalsAreFinal == RefusedLeavesNoTrace /\ MalformedNeverAcknowledged

(* LATEST and the archive follow the ingest contract: one section at a     *)
(* time, nothing archived that LATEST has not shown.                       *)
Contract == INSTANCE IngestContract WITH
    section <- [f \in Factory |->
                 [k \in Kind |->
                    IF latest[f] = NoItem THEN NoMessage
                    ELSE IF k = "factory_state" THEN latest[f].factory
                    ELSE latest[f].infra]],
    archived <- Archived

ImplementsContract == Contract!Spec

(* Every accepted event is settled: acknowledged, skipped by the envelope  *)
(* check, or dropped after its last attempt; none is retried for ever.     *)
EveryEventSettles ==
    \A e \in Event : pc[e] = "queued" ~> pc[e] \in Settled

(* With fewer faults than attempts, a well-formed message is not lost: it  *)
(* ends acknowledged however the invocations interleave.                   *)
HealthyEventIsStored ==
    \A e \in Event : FaultOf[M(e)] = "none" /\ MaxCrashes < MaxAttempts =>
        (pc[e] = "queued" ~> pc[e] = "done")

(* Lambda's retries end for every event, and well for a good one.          *)
EventsSettle == EveryEventSettles /\ HealthyEventIsStored

-----------------------------------------------------------------------------
(* Statements of the documents that the code does not keep. *)

(* docs/specs/data_storage_pipeline.md:405-406: HISTORY#STATE#{updated_at} *)
(* is a copy of the updated LATEST, so its key is its own updated_at.      *)
HistoryKeyIsUpdatedAt ==
    \A f \in Factory, t \in Time :
        history[f][t] # NoItem => history[f][t].updatedAt = t

(* docs/specs/iot_data_format.md:114: message_id prevents duplicate        *)
(* storage and reprocessing, so one message leaves at most one HISTORY     *)
(* item that it wrote (no other message of its factory is in the run).     *)
DuplicateAddsNoItem ==
    \A f \in Factory, t1, t2 \in Time, m \in Message :
        /\ history[f][t1] # NoItem /\ history[f][t2] # NoItem
        /\ {n \in Message : FactoryOf[n] = f} = {m}
        => t1 = t2

(* docs/specs/iot_data_format.md:337-341: pipeline_status follows from the *)
(* age of the latest infra_state, which is the one LATEST itself holds.    *)
StatusAgreesWithLatest ==
    \A f \in Factory : latest[f] # NoItem =>
        latest[f].status = PipelineStatus(latest[f].infra, latest[f].updatedAt)

(* docs/changes/0026-dynamodb-key-model.md:60: LATEST is the factory's     *)
(* newest state, so a section never falls back to an older message.        *)
LatestIsNewest ==
    \A f \in Factory : \A m \in applied :
        FactoryOf[m] = f /\ KindOf[m] = "infra_state" =>
            SourceTs[m] <= SourceTs[latest[f].infra]
=============================================================================

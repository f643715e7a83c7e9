------------------------ MODULE DataProcessorProofs ------------------------
(***************************************************************************)
(* Theorems about DataProcessor, for every set of events and messages and  *)
(* every bound: no interleaving, retry, crash or lagging read breaks them. *)
(* And about Assessment, for every measure and every score.                *)
(***************************************************************************)
EXTENDS DataProcessor, Assessment, FiniteSetTheorems, TLAPS

(* pipeline_status is one of the three statuses. *)
LEMMA PipelineStatusType ==
    \A m, now : PipelineStatus(m, now) \in Status
BY DEF PipelineStatus, Status

(* update_item leaves a well-formed item. *)
LEMMA UpdatedType ==
    ASSUME NEW item \in Item \cup {NoItem}, NEW m \in Message,
           NEW st \in Status, NEW now \in Time
    PROVE  Updated(item, m, st, now) \in Item
BY DEF Updated, Item

(* What an event refers to is what EventsAssumption says. *)
LEMMA EventTypes ==
    ASSUME NEW e \in Event
    PROVE  /\ M(e) \in Message /\ F(e) \in Factory
           /\ KindOf[M(e)] \in Kind /\ FaultOf[M(e)] \in Fault
BY EventsAssumption DEF M, F

(* An event that waits for an attempt still has one. *)
AttemptsLeft ==
    \A e \in Event : pc[e] \in {"unsent", "queued"} => attempt[e] < MaxAttempts

(* A raising invocation leaves its event queued or dropped, frame cleared. *)
LEMMA RaiseType ==
    ASSUME TypeOK, NEW e \in Event, Raise(e)
    PROVE  pc' \in [Event -> PC] /\ local' \in [Event -> Local]
<1>1. Idle \in Local
  BY BoundsAssumption DEF Idle, Local, Status, Time
<1> QED
  BY <1>1 DEF Raise, TypeOK, PC, Settled

(* Every variable keeps the type its declaration comments give it. *)
LEMMA TypeStep == TypeOK /\ AttemptsLeft /\ [Next]_vars => TypeOK'
<1> SUFFICES ASSUME TypeOK, AttemptsLeft, [Next]_vars PROVE TypeOK'
  OBVIOUS
<1> USE EventTypes DEF PC, Running, Settled, store
<1>1. ASSUME NEW e \in Event, Deliver(e) PROVE TypeOK'
  BY <1>1 DEF Deliver, TypeOK
<1>2. ASSUME NEW e \in Event, Crash(e) PROVE TypeOK'
  <2>1. crashes' \in 0..MaxCrashes
    BY <1>2, BoundsAssumption DEF Crash, TypeOK
  <2>2. pc' \in [Event -> PC] /\ local' \in [Event -> Local]
    BY <1>2, RaiseType DEF Crash
  <2> QED
    BY <1>2, <2>1, <2>2 DEF Crash, TypeOK
<1>3. ASSUME NEW e \in Event, Invoke(e) PROVE TypeOK'
  <2>1. attempt' \in [Event -> 0..MaxAttempts]
    BY <1>3, BoundsAssumption DEF Invoke, TypeOK, AttemptsLeft, NextAttempt
  <2>2. pc' \in [Event -> PC] /\ local' \in [Event -> Local]
    <3>1. CASE Raise(e)
      BY <3>1, RaiseType
    <3>2. CASE ~Raise(e)
      <4>1. local' \in [Event -> Local]
        <5>1. PICK t \in Time, st \in Status :
                \/ local' = local
                \/ local' = [local EXCEPT ![e].now = t]
                \/ local' = [local EXCEPT ![e].now = t, ![e].status = st]
          BY <3>2, <1>3, PipelineStatusType DEF Invoke, TypeOK
        <5>2. [local[e] EXCEPT !.now = t] \in Local
          BY DEF TypeOK, Local
        <5>3. [local[e] EXCEPT !.now = t, !.status = st] \in Local
          BY DEF TypeOK, Local
        <5> QED
          BY <5>1, <5>2, <5>3 DEF TypeOK
      <4>2. pc' \in [Event -> PC]
        BY <3>2, <1>3 DEF Invoke, TypeOK
      <4> QED
        BY <4>1, <4>2
    <3> QED
      BY <3>1, <3>2
  <2> QED
    BY <1>3, <2>1, <2>2 DEF Invoke, TypeOK
<1>4. ASSUME NEW e \in Event, ReadInfra(e) PROVE TypeOK'
  <2>1. PICK st \in Status : local' = [local EXCEPT ![e].status = st]
    BY <1>4, PipelineStatusType DEF ReadInfra
  <2>2. local' \in [Event -> Local]
    BY <2>1 DEF TypeOK, Local
  <2> QED
    BY <1>4, <2>2 DEF ReadInfra, TypeOK
<1>5. ASSUME NEW e \in Event, WriteLatest(e) PROVE TypeOK'
  <2>1. local[e].status \in Status /\ local[e].now \in Time
    BY DEF TypeOK, Local
  <2>2. Updated(latest[F(e)], M(e), local[e].status, local[e].now) \in Item
    BY <2>1, UpdatedType DEF TypeOK
  <2> QED
    BY <1>5, <2>2 DEF WriteLatest, TypeOK
<1>6. ASSUME NEW e \in Event, Reread(e) PROVE TypeOK'
  <2>1. PICK item \in Visible(F(e)) :
            /\ local' = [local EXCEPT ![e].snapshot = item]
            /\ pc' = [pc EXCEPT ![e] = IF item = NoItem THEN "putState"
                                                        ELSE "putHistory"]
    BY <1>6 DEF Reread
  <2>2. item \in Item \cup {NoItem}
    BY DEF Visible, TypeOK
  <2>3. local' \in [Event -> Local]
    BY <2>1, <2>2 DEF TypeOK, Local
  <2> QED
    BY <1>6, <2>1, <2>3 DEF Reread, TypeOK
<1>7. ASSUME NEW e \in Event, PutHistory(e) PROVE TypeOK'
  BY <1>7 DEF PutHistory, TypeOK, Local
<1>8. ASSUME NEW e \in Event, PutState(e) PROVE TypeOK'
  <2>1. pc' \in [Event -> PC] /\ local' \in [Event -> Local]
    <3>1. CASE Raise(e)
      BY <3>1, RaiseType
    <3>2. CASE ~Raise(e)
      BY <3>2, <1>8 DEF PutState, TypeOK
    <3> QED
      BY <3>1, <3>2
  <2>2. objects' \subseteq Dataset \X Message
    BY <1>8 DEF PutState, TypeOK, Dataset, Kind
  <2> QED
    BY <1>8, <2>1, <2>2 DEF PutState, TypeOK
<1>9. ASSUME NEW e \in Event, PutRisk(e) PROVE TypeOK'
  BY <1>9 DEF PutRisk, TypeOK, Dataset
<1>10. ASSUME NEW e \in Event, PutSnapshot(e) PROVE TypeOK'
  BY <1>10 DEF PutSnapshot, TypeOK, Local
<1>11. ASSUME NEW e \in Event, Return(e) PROVE TypeOK'
  <2>1. Idle \in Local
    BY BoundsAssumption DEF Idle, Local, Status, Time
  <2> QED
    BY <1>11, <2>1 DEF Return, TypeOK
<1>12. ASSUME NEW f \in Factory, Replicate(f) PROVE TypeOK'
  BY <1>12 DEF Replicate, TypeOK
<1>13. ASSUME Tick PROVE TypeOK'
  BY <1>13, BoundsAssumption DEF Tick, TypeOK, Time
<1>14. CASE UNCHANGED vars
  BY <1>14 DEF vars, TypeOK
<1> QED
  BY <1>1, <1>2, <1>3, <1>4, <1>5, <1>6, <1>7, <1>8, <1>9, <1>10, <1>11,
     <1>12, <1>13, <1>14 DEF Next, Step

(* A waiting event always has an attempt left: Raise drops it otherwise.   *)
LEMMA AttemptsStep == TypeOK /\ AttemptsLeft /\ [Next]_vars => AttemptsLeft'
<1> SUFFICES ASSUME TypeOK, AttemptsLeft, [Next]_vars PROVE AttemptsLeft'
  OBVIOUS
<1> USE BoundsAssumption DEF AttemptsLeft, TypeOK
<1>1. ASSUME NEW e \in Event, Deliver(e) \/ Crash(e) PROVE AttemptsLeft'
  BY <1>1 DEF Deliver, Crash, Raise
<1>2. ASSUME NEW e \in Event, Invoke(e) PROVE AttemptsLeft'
  BY <1>2 DEF Invoke, Raise, NextAttempt
<1>3. ASSUME NEW e \in Event, PutState(e) PROVE AttemptsLeft'
  BY <1>3 DEF PutState, Raise
<1>4. ASSUME NEW e \in Event, \/ ReadInfra(e) \/ WriteLatest(e) \/ Reread(e)
                              \/ PutHistory(e) \/ PutRisk(e)
                              \/ PutSnapshot(e) \/ Return(e)
      PROVE AttemptsLeft'
  BY <1>4 DEF ReadInfra, WriteLatest, Reread, PutHistory, PutRisk, PutSnapshot,
              Return
<1>5. CASE UNCHANGED vars \/ Tick \/ \E f \in Factory : Replicate(f)
  BY <1>5 DEF vars, Tick, Replicate
<1> QED
  BY <1>1, <1>2, <1>3, <1>4, <1>5 DEF Next, Step

LEMMA TypeInit == Init => TypeOK /\ AttemptsLeft
BY BoundsAssumption DEF Init, TypeOK, AttemptsLeft, Time, Idle, Local, Status, PC

(* The store and the invocations are well typed in every behaviour.        *)
THEOREM TypeCorrect == Spec => [](TypeOK /\ AttemptsLeft)
<1>1. Init => TypeOK /\ AttemptsLeft
  BY TypeInit
<1>2. (TypeOK /\ AttemptsLeft) /\ [Next]_vars => (TypeOK /\ AttemptsLeft)'
  BY TypeStep, AttemptsStep
<1> QED
  BY <1>1, <1>2, PTL DEF Spec

-----------------------------------------------------------------------------
(* A status about to be written already has its evidence: an infra_state   *)
(* of the factory that LATEST showed, or the one that is being written.    *)
StatusEarned ==
    \A e \in Event : pc[e] = "write" =>
        \E m \in applied \cup {NoMessage, M(e)} :
            /\ m # NoMessage => KindOf[m] = "infra_state" /\ FactoryOf[m] = F(e)
            /\ local[e].status = PipelineStatus(m, local[e].now)

EvidenceInv == TypeOK /\ StatusEarned /\ StatusHasEvidence

(* Evidence is not lost while LATEST shows more messages. *)
LEMMA EvidenceGrows ==
    ASSUME NEW f, NEW item, Evidenced(f, item), applied \subseteq applied'
    PROVE  Evidenced(f, item)'
BY DEF Evidenced

(* Only WriteLatest makes a new item; every other step copies or forgets. *)
LEMMA CopiesOnlyCopied ==
    ASSUME TypeOK, NEW f \in Factory, [Next]_vars,
           ~ \E e \in Event : WriteLatest(e)
    PROVE  Copies(f)' \subseteq Copies(f) \cup {NoItem}
<1> USE EventTypes DEF Copies, store
<1> DEFINE Locals == {d \in Event : F(d) = f}
<1>1. ASSUME NEW e \in Event, PutHistory(e)
      PROVE  Copies(f)' \subseteq Copies(f) \cup {NoItem}
  <2>1. \A t \in Time : history'[f][t] \in Copies(f)
    BY <1>1 DEF PutHistory, TypeOK
  <2> QED
    BY <1>1, <2>1 DEF PutHistory
<1>2. ASSUME NEW e \in Event, PutSnapshot(e)
      PROVE  Copies(f)' \subseteq Copies(f) \cup {NoItem}
  <2>1. \A t \in Time : snapshots'[f][t] \in Copies(f)
    BY <1>2 DEF PutSnapshot, TypeOK
  <2> QED
    BY <1>2, <2>1 DEF PutSnapshot
<1>3. ASSUME NEW e \in Event, Reread(e)
      PROVE  Copies(f)' \subseteq Copies(f) \cup {NoItem}
  <2>1. \A d \in Locals : local'[d].snapshot \in Copies(f)
    <3>1. PICK item \in Visible(F(e)) :
            local' = [local EXCEPT ![e].snapshot = item]
      BY <1>3 DEF Reread
    <3>2. \A d \in Event : local'[d].snapshot =
                           IF d = e THEN item ELSE local[d].snapshot
      BY <3>1 DEF TypeOK, Local
    <3> QED
      BY <3>2 DEF Visible
  <2> QED
    BY <1>3, <2>1 DEF Reread
<1>4. ASSUME NEW e \in Event,
             \/ Deliver(e) \/ Crash(e) \/ Invoke(e) \/ ReadInfra(e)
             \/ PutState(e) \/ PutRisk(e) \/ Return(e)
      PROVE  Copies(f)' \subseteq Copies(f) \cup {NoItem}
  <2>1. \A d \in Locals : local'[d].snapshot \in Copies(f) \cup {NoItem}
    <3>1. \A d \in Event : local'[d].snapshot \in {local[d].snapshot, NoItem}
      <4>1. CASE \/ Deliver(e) \/ PutRisk(e) \/ local' = local
                 \/ local' = [local EXCEPT ![e] = Idle]
        <5>1. local' = local \/ local' = [local EXCEPT ![e] = Idle]
          BY <4>1 DEF Deliver, PutRisk
        <5>2. CASE local' = local
          BY <5>2
        <5>3. CASE local' = [local EXCEPT ![e] = Idle]
          <6>1. \A d \in Event : local'[d] = IF d = e THEN Idle ELSE local[d]
            BY <5>3 DEF TypeOK
          <6>2. Idle.snapshot = NoItem
            BY DEF Idle
          <6> QED
            BY <6>1, <6>2
        <5> QED
          BY <5>1, <5>2, <5>3
      <4>2. CASE Invoke(e) /\ ~Raise(e)
        <5> DEFINE st == PipelineStatus(M(e), clock)
        <5>1. CASE local' = local
          BY <5>1
        <5>2. CASE local' = [local EXCEPT ![e].now = clock]
          BY <5>2 DEF TypeOK, Local
        <5>3. CASE local' = [local EXCEPT ![e].now = clock, ![e].status = st]
          BY <5>3 DEF TypeOK, Local
        <5> QED
          BY <4>2, <5>1, <5>2, <5>3 DEF Invoke
      <4>3. CASE ReadInfra(e)
        BY <4>3 DEF ReadInfra, TypeOK, Local
      <4> QED
        BY <1>4, <4>1, <4>2, <4>3 DEF Crash, Invoke, PutState, Return, Raise
    <3> QED
      BY <3>1
  <2>2. UNCHANGED <<latest, replica, history, snapshots>>
    BY <1>4 DEF Deliver, Crash, Invoke, ReadInfra, PutState, PutRisk, Return
  <2> QED
    BY <2>1, <2>2
<1>5. ASSUME NEW g \in Factory, Replicate(g)
      PROVE  Copies(f)' \subseteq Copies(f) \cup {NoItem}
  BY <1>5 DEF Replicate, TypeOK
<1>6. CASE Tick \/ UNCHANGED vars
  BY <1>6 DEF Tick, vars
<1> QED
  BY <1>1, <1>2, <1>3, <1>4, <1>5, <1>6 DEF Next, Step

(* LATEST only ever shows more messages. *)
LEMMA AppliedGrows == [Next]_vars => applied \subseteq applied'
BY DEF Next, Step, Deliver, Crash, Invoke, ReadInfra, WriteLatest, Reread,
       PutHistory, PutState, PutRisk, PutSnapshot, Return, Replicate, Tick,
       vars, store

LEMMA EvidenceStep == EvidenceInv /\ [Next]_vars => StatusHasEvidence'
<1> SUFFICES ASSUME EvidenceInv, [Next]_vars,
                    NEW f \in Factory, NEW item \in Copies(f)', item # NoItem
             PROVE  Evidenced(f, item)'
  BY DEF StatusHasEvidence
<1> USE EventTypes
<1>1. ASSUME item \in Copies(f) PROVE Evidenced(f, item)'
  BY <1>1, AppliedGrows, EvidenceGrows DEF EvidenceInv, StatusHasEvidence
<1>2. CASE ~ \E e \in Event : WriteLatest(e)
  BY <1>1, <1>2, CopiesOnlyCopied DEF EvidenceInv
<1>3. ASSUME NEW e \in Event, WriteLatest(e) PROVE Evidenced(f, item)'
  <2> DEFINE new == Updated(latest[F(e)], M(e), local[e].status, local[e].now)
  <2>1. item \in Copies(f) \/ (f = F(e) /\ item = new)
    <3>1. latest'[f] = IF f = F(e) THEN new ELSE latest[f]
      BY <1>3 DEF WriteLatest, EvidenceInv, TypeOK
    <3> QED
      BY <1>3, <3>1 DEF WriteLatest, Copies
  <2>2. CASE f = F(e) /\ item = new
    <3>1. M(e) \in applied' /\ applied \subseteq applied'
      BY <1>3 DEF WriteLatest
    <3>2. latest[F(e)] # NoItem => Evidenced(f, latest[F(e)])
      BY <2>2 DEF EvidenceInv, StatusHasEvidence, Copies
    <3>3. PICK m \in applied \cup {NoMessage, M(e)} :
            /\ m # NoMessage => KindOf[m] = "infra_state" /\ FactoryOf[m] = F(e)
            /\ local[e].status = PipelineStatus(m, local[e].now)
      BY <1>3 DEF WriteLatest, EvidenceInv, StatusEarned
    <3>4. item.status = local[e].status /\ item.updatedAt = local[e].now
      BY <2>2 DEF Updated
    <3>5. item.factory = NoMessage \/ item.factory \in applied'
      BY <2>2, <3>1, <3>2 DEF Updated, Evidenced
    <3>6. item.infra # NoMessage =>
            /\ item.infra \in applied'
            /\ KindOf[item.infra] = "infra_state" /\ FactoryOf[item.infra] = f
      BY <2>2, <3>1, <3>2 DEF Updated, Evidenced, F
    <3> QED
      BY <2>2, <3>1, <3>3, <3>4, <3>5, <3>6 DEF Evidenced
  <2> QED
    BY <1>1, <2>1, <2>2
<1> QED
  BY <1>2, <1>3

LEMMA EarnedStep == EvidenceInv /\ [Next]_vars => StatusEarned'
<1> SUFFICES ASSUME EvidenceInv, [Next]_vars,
                    NEW e \in Event, pc'[e] = "write"
             PROVE  \E m \in applied' \cup {NoMessage, M(e)} :
                      /\ m # NoMessage => /\ KindOf[m] = "infra_state"
                                          /\ FactoryOf[m] = F(e)
                      /\ local'[e].status = PipelineStatus(m, local'[e].now)
  BY DEF StatusEarned, M, F
<1> USE EventTypes DEF EvidenceInv, TypeOK
<1>1. CASE Invoke(e)
  <2>1. KindOf[M(e)] = "infra_state"
    BY <1>1 DEF Invoke, Raise
  <2>2. /\ local'[e].status = PipelineStatus(M(e), clock)
        /\ local'[e].now = clock
    BY <1>1, <2>1 DEF Invoke, Raise, Local
  <2> QED
    BY <2>1, <2>2 DEF F
<1>2. CASE ReadInfra(e)
  <2>1. PICK item \in Visible(F(e)) :
          LET last == IF item = NoItem THEN NoMessage ELSE item.infra
          IN local' = [local EXCEPT ![e].status =
                                       PipelineStatus(last, local[e].now)]
    BY <1>2 DEF ReadInfra
  <2> DEFINE last == IF item = NoItem THEN NoMessage ELSE item.infra
  <2>2. /\ local'[e].status = PipelineStatus(last, local[e].now)
        /\ local'[e].now = local[e].now
    BY <2>1 DEF Local
  <2>3. item # NoItem => Evidenced(F(e), item)
    BY DEF StatusHasEvidence, Copies, Visible
  <2>4. last # NoMessage => /\ last \in applied
                            /\ KindOf[last] = "infra_state"
                            /\ FactoryOf[last] = F(e)
    BY <2>3 DEF Evidenced
  <2>5. applied' = applied
    BY <1>2 DEF ReadInfra, store
  <2> QED
    BY <2>2, <2>4, <2>5
<1>3. CASE pc[e] = "write" /\ local'[e] = local[e]
  BY <1>3, AppliedGrows DEF StatusEarned
<1>4. \/ Invoke(e) \/ ReadInfra(e)
      \/ pc[e] = "write" /\ local'[e] = local[e]
  <2>1. ASSUME NEW d \in Event, Step(d), d # e
        PROVE  pc[e] = "write" /\ local'[e] = local[e]
    BY <2>1 DEF Step, Raise, Invoke, ReadInfra, WriteLatest, Reread,
                PutHistory, PutState, PutRisk, PutSnapshot, Return
  <2>2. ASSUME Step(e), ~Invoke(e), ~ReadInfra(e) PROVE FALSE
    BY <2>2 DEF Step, Raise, WriteLatest, Reread, PutHistory, PutState, PutRisk,
                PutSnapshot, Return
  <2>3. ASSUME NEW d \in Event, Deliver(d) \/ Crash(d)
        PROVE  pc[e] = "write" /\ local'[e] = local[e]
    BY <2>3 DEF Deliver, Crash, Raise
  <2>4. ASSUME Tick \/ UNCHANGED vars \/ \E f \in Factory : Replicate(f)
        PROVE  pc[e] = "write" /\ local'[e] = local[e]
    BY <2>4 DEF Tick, vars, Replicate
  <2> QED
    BY <2>1, <2>2, <2>3, <2>4 DEF Next
<1> QED
  BY <1>1, <1>2, <1>3, <1>4

(* Whatever interleaving, retry, crash or lagging read produced it, every  *)
(* stored status follows from an infra_state of that factory that LATEST   *)
(* had shown, judged at the item's own updated_at.                         *)
THEOREM EvidenceCorrect == Spec => []StatusHasEvidence
<1>1. Init => StatusEarned /\ StatusHasEvidence
  BY DEF Init, StatusEarned, StatusHasEvidence, Copies, Idle
<1>2. EvidenceInv /\ [Next]_vars => (StatusEarned /\ StatusHasEvidence)'
  BY EvidenceStep, EarnedStep
<1> QED
  BY <1>1, <1>2, TypeCorrect, PTL DEF Spec, EvidenceInv

-----------------------------------------------------------------------------
(* How far an invocation has come, and what is in the store by then. *)
WroteLatest == {"reread", "putHistory", "putState", "putRisk", "putSnapshot",
                "return", "done"}

Progress(e) ==
    /\ pc[e] \in WroteLatest => M(e) \in applied
    /\ pc[e] = "putRisk" => /\ KindOf[M(e)] = "factory_state"
                            /\ <<"factory_state", M(e)>> \in objects
    /\ pc[e] \in {"putSnapshot", "return", "done"} =>
         Required(M(e)) \subseteq objects

ObjectsApplied ==
    \A d \in Dataset, m \in Message : <<d, m>> \in objects => m \in applied

StoredInv == ObjectsApplied /\ \A e \in Event : Progress(e)

(* The store only grows, so an event that did not move keeps its progress. *)
LEMMA ProgressKept ==
    ASSUME NEW e \in Event, Progress(e), pc'[e] = pc[e],
           applied \subseteq applied', objects \subseteq objects'
    PROVE  Progress(e)'
BY DEF Progress, M, Required

(* A step of e moves e alone; what it did decides whether StoredInv holds. *)
LEMMA StoredBy ==
    ASSUME TypeOK, StoredInv, NEW e \in Event, Step(e) \/ Deliver(e) \/ Crash(e)
    PROVE  /\ ObjectsApplied'
           /\ Progress(e)'
<1> USE EventTypes DEF StoredInv, TypeOK
<1>0. Progress(e)
  OBVIOUS
<1>1. ASSUME UNCHANGED <<applied, objects>>,
             pc'[e] \in {"queued", "dropped", "skipped", "readInfra", "write"}
      PROVE  ObjectsApplied' /\ Progress(e)'
  BY <1>1 DEF ObjectsApplied, Progress, WroteLatest
<1>2. CASE Deliver(e) \/ Crash(e) \/ Invoke(e) \/ ReadInfra(e)
  BY <1>1, <1>2 DEF Deliver, Crash, Invoke, ReadInfra, Raise, store
<1>3. CASE WriteLatest(e)
  BY <1>3 DEF WriteLatest, ObjectsApplied, Progress
<1>4. CASE Reread(e) \/ PutHistory(e)
  <2>1. /\ UNCHANGED <<applied, objects>>
        /\ pc[e] \in WroteLatest /\ pc'[e] \in {"putHistory", "putState"}
    BY <1>4 DEF Reread, PutHistory, store, WroteLatest
  <2> QED
    BY <1>0, <2>1 DEF ObjectsApplied, Progress
<1>5. CASE PutState(e)
  <2>1. CASE Raise(e) /\ UNCHANGED objects
    BY <1>1, <1>5, <2>1 DEF PutState, Raise
  <2>2. CASE FaultOf[M(e)] # "malformed"
    <3>1. /\ applied' = applied /\ M(e) \in applied
          /\ objects' = objects \cup {<<KindOf[M(e)], M(e)>>}
          /\ pc'[e] \in IF KindOf[M(e)] = "factory_state" THEN {"putRisk"}
                       ELSE {"putSnapshot", "return"}
      BY <1>0, <1>5, <2>2 DEF PutState, Progress, WroteLatest
    <3>2. ObjectsApplied'
      BY <3>1 DEF ObjectsApplied
    <3>3. Progress(e)'
      BY <3>1 DEF Progress, Required, Kind, M
    <3> QED
      BY <3>2, <3>3
  <2> QED
    BY <1>5, <2>1, <2>2 DEF PutState
<1>6. CASE PutRisk(e)
  <2>1. /\ applied' = applied /\ M(e) \in applied
        /\ objects' = objects \cup {<<"risk_score", M(e)>>}
        /\ pc'[e] \in {"putSnapshot", "return"}
        /\ Required(M(e)) \subseteq objects'
    <3>1. pc'[e] \in {"putSnapshot", "return"} /\ pc[e] = "putRisk"
      BY <1>6 DEF PutRisk
    <3> QED
      BY <1>0, <1>6, <3>1 DEF PutRisk, Progress, WroteLatest, Required
  <2>2. ObjectsApplied'
    BY <2>1 DEF ObjectsApplied
  <2> QED
    BY <2>1, <2>2 DEF Progress, Required, M
<1>7. CASE PutSnapshot(e) \/ Return(e)
  <2>1. /\ UNCHANGED <<applied, objects>>
        /\ pc[e] \in {"putSnapshot", "return"} /\ pc'[e] \in {"return", "done"}
    BY <1>7 DEF PutSnapshot, Return, store
  <2> QED
    BY <1>0, <2>1 DEF ObjectsApplied, Progress, WroteLatest, Required, M
<1> QED
  BY <1>2, <1>3, <1>4, <1>5, <1>6, <1>7 DEF Step

(* The step of one event moves no other and never shrinks the store. *)
LEMMA OthersStay ==
    ASSUME TypeOK, NEW e \in Event, Step(e) \/ Deliver(e) \/ Crash(e),
           NEW d \in Event, d # e
    PROVE  /\ pc'[d] = pc[d]
           /\ applied \subseteq applied' /\ objects \subseteq objects'
BY DEF TypeOK, Step, Deliver, Crash, Raise, Invoke, ReadInfra, WriteLatest,
       Reread, PutHistory, PutState, PutRisk, PutSnapshot, Return, store

LEMMA StoredStep == TypeOK /\ StoredInv /\ [Next]_vars => StoredInv'
<1> SUFFICES ASSUME TypeOK, StoredInv, [Next]_vars PROVE StoredInv'
  OBVIOUS
<1>1. ASSUME NEW e \in Event, Step(e) \/ Deliver(e) \/ Crash(e)
      PROVE  StoredInv'
  BY <1>1, StoredBy, OthersStay, ProgressKept DEF StoredInv
<1>2. CASE Tick \/ UNCHANGED vars \/ \E f \in Factory : Replicate(f)
  BY <1>2 DEF Tick, vars, Replicate, store, StoredInv, Progress, ObjectsApplied,
              M, Required
<1> QED
  BY <1>1, <1>2 DEF Next

LEMMA StoredCorrect == Spec => []StoredInv
<1>1. Init => StoredInv
  BY DEF Init, StoredInv, Progress, ObjectsApplied, WroteLatest
<1> QED
  BY <1>1, StoredStep, TypeCorrect, PTL DEF Spec

(* An event acknowledged to Lambda has all of its effects in the store,    *)
(* however many of its attempts died before.                               *)
THEOREM DoneIsStored == Spec => []DoneMeansStored
<1>1. StoredInv => DoneMeansStored
  BY EventTypes DEF StoredInv, Progress, DoneMeansStored, WroteLatest, Archived
<1> QED
  BY <1>1, StoredCorrect, PTL

-----------------------------------------------------------------------------
(* What parse, normalisation or the age computation refuses. *)
Refused(m) ==
    \/ FaultOf[m] \in {"envelope", "payload"}
    \/ FaultOf[m] = "naive" /\ KindOf[m] = "infra_state"

(* A refused delivery never starts its writes; a malformed one never gets  *)
(* past the S3 key.                                                        *)
Halted(e) ==
    /\ Refused(M(e)) => pc[e] \in {"unsent", "queued", "skipped", "dropped"}
    /\ FaultOf[M(e)] = "malformed" =>
         pc[e] \notin {"putRisk", "putSnapshot", "return", "done"}

NothingOfRefused ==
    \A m \in Message :
        /\ Refused(m) => m \notin applied
        /\ FaultOf[m] = "malformed" => Required(m) \cap objects = {}

RefusalInv == NothingOfRefused /\ \A e \in Event : Halted(e)

LEMMA HaltedStep ==
    ASSUME TypeOK, RefusalInv, NEW e \in Event,
           Step(e) \/ Deliver(e) \/ Crash(e)
    PROVE  Halted(e)'
<1> USE EventTypes DEF TypeOK, Halted, RefusalInv, M
<1>1. CASE Deliver(e) \/ Crash(e)
  BY <1>1 DEF Deliver, Crash, Raise, Refused, Running
<1>2. CASE Invoke(e)
  BY <1>2 DEF Invoke, Raise, RaisesEarly, Refused, Fault, Kind
<1>3. CASE PutState(e)
  BY <1>3 DEF PutState, Raise, Refused
<1>4. CASE \/ ReadInfra(e) \/ WriteLatest(e) \/ Reread(e) \/ PutHistory(e)
           \/ PutRisk(e) \/ PutSnapshot(e) \/ Return(e)
  BY <1>4 DEF ReadInfra, WriteLatest, Reread, PutHistory, PutRisk, PutSnapshot,
              Return, Refused
<1> QED
  BY <1>1, <1>2, <1>3, <1>4 DEF Step

LEMMA RefusalStep == TypeOK /\ RefusalInv /\ [Next]_vars => RefusalInv'
<1> SUFFICES ASSUME TypeOK, RefusalInv, [Next]_vars PROVE RefusalInv'
  OBVIOUS
<1> USE EventTypes
<1>1. \A e \in Event : Halted(e)'
  <2>1. ASSUME NEW e \in Event, Step(e) \/ Deliver(e) \/ Crash(e),
               NEW d \in Event
        PROVE  Halted(d)'
    <3>1. CASE d = e
      BY <2>1, <3>1, HaltedStep
    <3>2. CASE d # e
      BY <2>1, <3>2, OthersStay DEF RefusalInv, Halted, Refused, M
    <3> QED
      BY <3>1, <3>2
  <2>2. CASE Tick \/ UNCHANGED vars \/ \E f \in Factory : Replicate(f)
    BY <2>2 DEF Tick, vars, Replicate, RefusalInv, Halted, Refused, M
  <2> QED
    BY <2>1, <2>2 DEF Next
<1>2. NothingOfRefused'
  <2>1. ASSUME NEW e \in Event, WriteLatest(e) PROVE NothingOfRefused'
    <3>1. ~Refused(M(e)) /\ applied' = applied \cup {M(e)} /\ objects' = objects
      BY <2>1 DEF WriteLatest, RefusalInv, Halted
    <3> QED
      BY <3>1 DEF RefusalInv, NothingOfRefused, Refused, Required
  <2>2. ASSUME NEW e \in Event, PutState(e) \/ PutRisk(e)
        PROVE  NothingOfRefused'
    <3>1. applied' = applied
      BY <2>2 DEF PutState, PutRisk
    <3>2. \/ objects' = objects
          \/ /\ FaultOf[M(e)] # "malformed"
             /\ \E d \in Dataset : objects' = objects \cup {<<d, M(e)>>}
      BY <2>2 DEF PutState, PutRisk, Dataset, Kind, RefusalInv, Halted
    <3> QED
      BY <3>1, <3>2 DEF RefusalInv, NothingOfRefused, Refused, Required
  <2>3. CASE UNCHANGED <<applied, objects>>
    BY <2>3 DEF RefusalInv, NothingOfRefused, Refused, Required
  <2>4. \/ \E e \in Event : WriteLatest(e) \/ PutState(e) \/ PutRisk(e)
        \/ UNCHANGED <<applied, objects>>
    BY DEF Next, Step, Deliver, Crash, Invoke, ReadInfra, Reread, PutHistory,
           PutSnapshot, Return, Replicate, Tick, vars, store
  <2> QED
    BY <2>1, <2>2, <2>3, <2>4
<1> QED
  BY <1>1, <1>2 DEF RefusalInv

(* What was not applied is in no copy of LATEST, and what was not applied  *)
(* has no object.                                                          *)
LEMMA RefusalFollows ==
    ASSUME EvidenceInv, StoredInv, RefusalInv
    PROVE  RefusalsAreFinal
<1> USE EventTypes, EventsAssumption
<1>1. ASSUME NEW m \in Message, Refused(m)
      PROVE  /\ m \notin applied /\ Required(m) \cap objects = {}
             /\ \A f \in Factory : \A item \in Copies(f) \ {NoItem} :
                   m \notin {item.factory, item.infra}
  <2>1. m \notin applied
    BY <1>1 DEF RefusalInv, NothingOfRefused
  <2>2. Required(m) \cap objects = {}
    BY <2>1 DEF StoredInv, ObjectsApplied, Required, Dataset
  <2>3. ASSUME NEW f \in Factory, NEW item \in Copies(f) \ {NoItem}
        PROVE  m \notin {item.factory, item.infra}
    <3>1. Evidenced(f, item)
      BY DEF EvidenceInv, StatusHasEvidence
    <3> QED
      BY <2>1, <3>1 DEF Evidenced
  <2> QED
    BY <2>1, <2>2, <2>3
<1>2. RefusedLeavesNoTrace
  BY <1>1 DEF RefusedLeavesNoTrace, Refused
<1>3. MalformedNeverAcknowledged
  BY DEF RefusalInv, NothingOfRefused, Halted, MalformedNeverAcknowledged
<1> QED
  BY <1>2, <1>3 DEF RefusalsAreFinal

(* No retry, crash or duplicate of what is refused before the first write  *)
(* (an envelope, which is acknowledged as skipped, a payload, the zoneless *)
(* time of an infra_state) leaves a trace in LATEST, HISTORY or S3.  What  *)
(* is refused after it, a time that does not parse, shows in LATEST and    *)
(* HISTORY, but is neither archived nor acknowledged.                      *)
THEOREM RefusalsStay == Spec => []RefusalsAreFinal
<1>1. Init => RefusalInv
  BY DEF Init, RefusalInv, Halted, NothingOfRefused
<1>2. EvidenceInv /\ StoredInv /\ RefusalInv => RefusalsAreFinal
  BY RefusalFollows
<1>3. Init => StatusEarned /\ StatusHasEvidence
  BY DEF Init, StatusEarned, StatusHasEvidence, Copies, Idle
<1>4. EvidenceInv /\ [Next]_vars => (StatusEarned /\ StatusHasEvidence)'
  BY EvidenceStep, EarnedStep
<1> QED
  BY <1>1, <1>2, <1>3, <1>4, RefusalStep, TypeCorrect, StoredCorrect, PTL
  DEF Spec, EvidenceInv

-----------------------------------------------------------------------------
(* The sections of LATEST, as the contract sees them. *)
Sections ==
    [f \in Factory |->
      [k \in Kind |->
         IF latest[f] = NoItem THEN NoMessage
         ELSE IF k = "factory_state" THEN latest[f].factory
         ELSE latest[f].infra]]

(* update_item is the contract's Apply. *)
LEMMA WriteApplies ==
    ASSUME TypeOK, NEW e \in Event, WriteLatest(e)
    PROVE  Sections' = [Sections EXCEPT
                          ![F(e)] = [@ EXCEPT ![KindOf[M(e)]] = M(e)]]
<1> USE EventTypes
<1> DEFINE new == Updated(latest[F(e)], M(e), local[e].status, local[e].now)
<1>1. latest' = [latest EXCEPT ![F(e)] = new]
  BY DEF WriteLatest
<1>2. ASSUME NEW f \in Factory, f # F(e) PROVE Sections'[f] = Sections[f]
  BY <1>1, <1>2 DEF Sections, TypeOK
<1>3. new \in Item
  BY UpdatedType DEF TypeOK, Local
<1>4. ASSUME NEW k \in Kind
      PROVE  Sections'[F(e)][k] =
               IF k = KindOf[M(e)] THEN M(e) ELSE Sections[F(e)][k]
  <2>1. latest'[F(e)] = new /\ new # NoItem
    BY <1>1, <1>3, NoItemAssumption DEF TypeOK
  <2>2. Sections'[F(e)][k] = IF k = "factory_state" THEN new.factory
                                                    ELSE new.infra
    BY <2>1 DEF Sections
  <2>3. Sections[F(e)][k] = IF latest[F(e)] = NoItem THEN NoMessage
                            ELSE IF k = "factory_state" THEN latest[F(e)].factory
                            ELSE latest[F(e)].infra
    BY DEF Sections
  <2> QED
    BY <2>2, <2>3 DEF Updated, Kind
<1>5. Sections'[F(e)] = [Sections[F(e)] EXCEPT ![KindOf[M(e)]] = M(e)]
  BY <1>4 DEF Sections
<1> QED
  BY <1>2, <1>5 DEF Sections

(* Every step of the processor is a step of the ingest contract, or leaves *)
(* what the contract sees unchanged.                                       *)
LEMMA ContractStep ==
    TypeOK /\ StoredInv /\ [Next]_vars => [Contract!Next]_(Contract!vars)
<1> SUFFICES ASSUME TypeOK, StoredInv, [Next]_vars
             PROVE  [Contract!Next]_(Contract!vars)
  OBVIOUS
<1> USE EventTypes
<1>1. ASSUME NEW e \in Event, WriteLatest(e) PROVE Contract!Apply(M(e))
  <2>1. Archived' = Archived /\ applied' = applied \cup {M(e)}
    BY <1>1 DEF WriteLatest, Archived, Required
  <2> QED
    BY <1>1, <2>1, WriteApplies DEF Contract!Apply, Sections, F
<1>2. ASSUME NEW e \in Event, PutState(e) \/ PutRisk(e)
      PROVE  Contract!Archive(M(e)) \/ UNCHANGED Contract!vars
  <2>1. UNCHANGED <<latest, applied>> /\ M(e) \in applied
    BY <1>2 DEF PutState, PutRisk, StoredInv, Progress, WroteLatest
  <2>2. objects' = objects \/ \E d \in Dataset : objects' = objects \cup {<<d, M(e)>>}
    BY <1>2 DEF PutState, PutRisk, Dataset, Kind
  <2>3. Archived \subseteq Archived' /\ Archived' \subseteq Archived \cup {M(e)}
    BY <2>2 DEF Archived, Required
  <2>4. Archived' = Archived \/ Archived' = Archived \cup {M(e)}
    BY <2>3
  <2>5. UNCHANGED Sections
    BY <2>1 DEF Sections
  <2> QED
    BY <2>1, <2>4, <2>5 DEF Contract!Archive, Contract!vars, Sections
<1>3. ASSUME UNCHANGED <<latest, applied, objects>>
      PROVE  UNCHANGED Contract!vars
  <2>1. UNCHANGED <<Sections, Archived>>
    BY <1>3 DEF Sections, Archived, Required
  <2> QED
    BY <1>3, <2>1 DEF Contract!vars, Sections
<1>4. \/ \E e \in Event : WriteLatest(e) \/ PutState(e) \/ PutRisk(e)
      \/ UNCHANGED <<latest, applied, objects>>
  BY DEF Next, Step, Deliver, Crash, Invoke, ReadInfra, Reread, PutHistory,
         PutSnapshot, Return, Replicate, Tick, vars, store
<1> QED
  BY <1>1, <1>2, <1>3, <1>4 DEF Contract!Next

(* The processor implements the ingest contract: LATEST changes one        *)
(* section at a time, and nothing is archived that LATEST has not shown.   *)
THEOREM Refinement == Spec => ImplementsContract
<1>1. Init => Contract!Init
  <2>1. ASSUME Init PROVE Archived = {}
    BY <2>1 DEF Init, Archived, Required
  <2> QED
    BY <2>1 DEF Init, Contract!Init, Contract!Kind, Kind
<1>2. TypeOK /\ StoredInv /\ [Next]_vars => [Contract!Next]_(Contract!vars)
  BY ContractStep
<1> QED
  BY <1>1, <1>2, TypeCorrect, StoredCorrect, PTL
  DEF Spec, ImplementsContract, Contract!Spec

-----------------------------------------------------------------------------
(* The score of risk.py. What it takes is normalized: numbers, and scores  *)
(* that are not negative.                                                  *)
Normalized(r) ==
    /\ r.temperature \in Int /\ r.humidity \in Int
    /\ r.fire \in Nat /\ r.fall \in Nat /\ r.bend \in Nat

MeasureName == {"temperature", "humidity", "ai_event_rate"}

LEMMA MostOfThree ==
    ASSUME NEW a \in Nat, NEW b \in Nat, NEW c \in Nat
    PROVE  /\ Most({a, b, c}) \in Nat
           /\ a <= Most({a, b, c}) /\ b <= Most({a, b, c}) /\ c <= Most({a, b, c})
           /\ Most({a, b, c}) \in {a, b, c}
<1>1. \E x \in {a, b, c} : \A y \in {a, b, c} : y <= x
  <2>1. CASE a <= b
    <3>1. CASE b <= c
      BY <2>1, <3>1
    <3>2. CASE ~(b <= c)
      BY <2>1, <3>2
    <3> QED BY <3>1, <3>2
  <2>2. CASE ~(a <= b)
    <3>1. CASE a <= c
      BY <2>2, <3>1
    <3>2. CASE ~(a <= c)
      BY <2>2, <3>2
    <3> QED BY <3>1, <3>2
  <2> QED BY <2>1, <2>2
<1>2. Most({a, b, c}) \in {a, b, c} /\ \A y \in {a, b, c} : y <= Most({a, b, c})
  BY <1>1 DEF Most
<1> QED BY <1>2

LEMMA MostOfTwo ==
    ASSUME NEW a \in Int, NEW b \in Int
    PROVE  Most({a, b}) = IF a <= b THEN b ELSE a
<1>1. \E x \in {a, b} : \A y \in {a, b} : y <= x
  OBVIOUS
<1>2. Most({a, b}) \in {a, b} /\ \A y \in {a, b} : y <= Most({a, b})
  BY <1>1 DEF Most
<1> QED BY <1>2

(* The three risks and their ranges: one alone is no more than 15 of the   *)
(* 35 points.                                                              *)
LEMMA RisksIn ==
    ASSUME NEW r, Normalized(r)
    PROVE  /\ Risks(r).temperature \in Nat /\ Risks(r).temperature <= 900000
           /\ Risks(r).humidity \in Nat /\ Risks(r).humidity <= 600000
           /\ Risks(r).ai_event_rate \in Nat /\ Risks(r).ai_event_rate <= 600000
           /\ DOMAIN Risks(r) = MeasureName
<1>1. TemperatureRisk(r.temperature) \in Nat /\ TemperatureRisk(r.temperature) <= 900000
  BY SMT DEF Normalized, TemperatureRisk
<1>2. HumidityRisk(r.humidity) \in Nat /\ HumidityRisk(r.humidity) <= 600000
  BY SMT DEF Normalized, HumidityRisk
<1>3. AiRisk(r) \in Nat /\ AiRisk(r) <= 600000
  <2> DEFINE most == Most({r.fire, r.fall, r.bend})
             sound == IF r.sound \in {"none", ""} THEN 0 ELSE 30000
             risk == 60 * most + sound
  <2>1. most \in Nat
    BY MostOfThree DEF Normalized
  <2>2. AiRisk(r) = IF risk < 600000 THEN risk ELSE 600000
    BY SMT DEF AiRisk
  <2>3. sound \in Nat
    BY SMT
  <2> HIDE DEF most, sound
  <2>4. risk \in Nat
    BY <2>1, <2>3, SMT
  <2> HIDE DEF risk
  <2> QED BY <2>2, <2>4, SMT
<1> HIDE DEF Normalized
<1>4. /\ Risks(r).temperature = TemperatureRisk(r.temperature)
      /\ Risks(r).humidity = HumidityRisk(r.humidity)
      /\ Risks(r).ai_event_rate = AiRisk(r)
      /\ DOMAIN Risks(r) = MeasureName
  BY DEF Risks, MeasureName
<1> QED BY <1>1, <1>2, <1>3, <1>4, SMT

LEMMA PenaltyIs ==
    ASSUME NEW a \in Nat
    PROVE  /\ ScorePenalty(a) \in Nat
           /\ 210 * ScorePenalty(a) <= a + 105 /\ a + 105 <= 210 * ScorePenalty(a) + 209
BY DEF ScorePenalty

LEMMA PenaltyMonotone ==
    ASSUME NEW a \in Nat, NEW b \in Nat, a <= b
    PROVE  ScorePenalty(a) <= ScorePenalty(b)
BY PenaltyIs

-----------------------------------------------------------------------------
LEMMA PairHas ==
    ASSUME NEW a, NEW b, a # b
    PROVE  IsFiniteSet({a, b}) /\ Cardinality({a, b}) = 2
<1>1. IsFiniteSet({a}) /\ Cardinality({a}) = 1
  BY FS_Singleton
<1>2. {a, b} = {a} \cup {b} /\ b \notin {a}
  OBVIOUS
<1>3. IsFiniteSet({a} \cup {b}) /\ Cardinality({a} \cup {b}) = 1 + 1
  BY <1>1, <1>2, FS_AddElement
<1> QED BY <1>2, <1>3

Orderable(risks, held) ==
    \E q \in [1..Cardinality(held) -> held] :
      Sorted(risks, q) /\ \A f \in held : \E i \in DOMAIN q : q[i] = f

(* Three things can be put in order. *)
LEMMA OrderExists ==
    ASSUME NEW risks, NEW held, held \subseteq MeasureName,
           \A f \in held : ScorePenalty(risks[f]) \in Nat
    PROVE  Orderable(risks, held)
<1> DEFINE Done == \E q \in [1..Cardinality(held) -> held] :
                     Sorted(risks, q) /\ \A f \in held : \E i \in DOMAIN q : q[i] = f
<1>1. \A f, g \in held : f # g => Precedes(risks, f, g) \/ Precedes(risks, g, f)
  <2> SUFFICES ASSUME NEW f \in held, NEW g \in held, f # g, ~Precedes(risks, f, g)
               PROVE  Precedes(risks, g, f)
    OBVIOUS
  <2>1. /\ Appended[f] \in Nat /\ Appended[g] \in Nat /\ Appended[f] # Appended[g]
    BY DEF MeasureName, Appended
  <2>2. ScorePenalty(risks[f]) \in Nat /\ ScorePenalty(risks[g]) \in Nat
    OBVIOUS
  <2> QED BY <2>1, <2>2 DEF Precedes
<1>2. ASSUME NEW a, NEW b, NEW c, {a, b, c} \subseteq held, a # b, b # c, a # c,
             Precedes(risks, a, b), Precedes(risks, b, c)
      PROVE  Precedes(risks, a, c)
  <2>1. /\ ScorePenalty(risks[a]) \in Nat /\ ScorePenalty(risks[b]) \in Nat /\ ScorePenalty(risks[c]) \in Nat
    BY <1>2
  <2>2. Appended[a] \in Nat /\ Appended[b] \in Nat /\ Appended[c] \in Nat
    <3>1. \A f \in held : Appended[f] \in Nat
      BY DEF MeasureName, Appended
    <3> QED BY <1>2, <3>1
  <2> QED BY <1>2, <2>1, <2>2 DEF Precedes
<1>3. ASSUME held = {} PROVE Done
  <2>1. Cardinality(held) = 0
    BY <1>3, FS_EmptySet
  <2>2. << >> \in [1..0 -> held]
    OBVIOUS
  <2> QED BY <1>3, <2>1, <2>2 DEF Sorted
<1>4. ASSUME NEW a, held = {a} PROVE Done
  <2>1. Cardinality(held) = 1
    BY <1>4, FS_Singleton
  <2>2. [i \in 1..1 |-> a] \in [1..1 -> held] /\ Sorted(risks, [i \in 1..1 |-> a])
    BY <1>4 DEF Sorted
  <2> QED BY <1>4, <2>1, <2>2
<1>5. ASSUME NEW a, NEW b, held = {a, b}, a # b, Precedes(risks, a, b) PROVE Done
  <2>1. Cardinality(held) = 2
    BY <1>5, PairHas
  <2> DEFINE q == [i \in 1..2 |-> IF i = 1 THEN a ELSE b]
  <2>2. q \in [1..2 -> held] /\ q[1] = a /\ q[2] = b /\ DOMAIN q = 1..2
    BY <1>5
  <2> HIDE DEF q
  <2>3. Sorted(risks, q)
    <3> SUFFICES ASSUME NEW i \in 1..2, NEW j \in 1..2, i < j PROVE Precedes(risks, q[i], q[j])
      BY <2>2 DEF Sorted
    <3>1. i = 1 /\ j = 2
      OBVIOUS
    <3> QED BY <1>5, <2>2, <3>1
  <2>4. \A f \in held : \E i \in DOMAIN q : q[i] = f
    BY <1>5, <2>2
  <2> QED BY <2>1, <2>2, <2>3, <2>4
<1>6. ASSUME NEW a, NEW b, NEW c, held = {a, b, c}, a # b, b # c, a # c,
             Precedes(risks, a, b), Precedes(risks, b, c)
      PROVE  Done
  <2>1. Cardinality(held) = 3
    <3>1. IsFiniteSet({a, b}) /\ Cardinality({a, b}) = 2
      BY <1>6, PairHas
    <3>2. held = {a, b} \cup {c} /\ c \notin {a, b}
      BY <1>6
    <3>3. Cardinality({a, b} \cup {c}) = 2 + 1
      BY <3>1, <3>2, FS_AddElement
    <3> QED BY <3>2, <3>3
  <2> DEFINE q == [i \in 1..3 |-> IF i = 1 THEN a ELSE IF i = 2 THEN b ELSE c]
  <2>2. q \in [1..3 -> held] /\ q[1] = a /\ q[2] = b /\ q[3] = c /\ DOMAIN q = 1..3
    BY <1>6
  <2> HIDE DEF q
  <2>3. Precedes(risks, a, c)
    BY <1>2, <1>6
  <2>4. Sorted(risks, q)
    <3> SUFFICES ASSUME NEW i \in 1..3, NEW j \in 1..3, i < j PROVE Precedes(risks, q[i], q[j])
      BY <2>2 DEF Sorted
    <3>1. (i = 1 /\ j = 2) \/ (i = 1 /\ j = 3) \/ (i = 2 /\ j = 3)
      OBVIOUS
    <3> QED BY <1>6, <2>2, <2>3, <3>1
  <2>5. \A f \in held : \E i \in DOMAIN q : q[i] = f
    BY <1>6, <2>2
  <2> QED BY <2>1, <2>2, <2>4, <2>5
<1>7. ASSUME NEW a, NEW b, held = {a, b}, a # b PROVE Done
  <2>1. held = {b, a}
    BY <1>7
  <2> QED BY <1>1, <1>5, <1>7, <2>1
<1>8. ASSUME held = MeasureName PROVE Done
  <2> DEFINE t == "temperature"
             h == "humidity"
             a == "ai_event_rate"
  <2>1. t # h /\ h # a /\ t # a
    OBVIOUS
  <2>2. /\ held = {t, h, a} /\ held = {t, a, h} /\ held = {h, t, a}
        /\ held = {h, a, t} /\ held = {a, t, h} /\ held = {a, h, t}
    BY <1>8 DEF MeasureName
  <2> HIDE DEF t, h, a
  <2>3. CASE Precedes(risks, t, h)
    <3>1. CASE Precedes(risks, h, a)
      BY <1>6, <2>1, <2>2, <2>3, <3>1
    <3>2. CASE Precedes(risks, a, h)
      <4>1. CASE Precedes(risks, t, a)
        BY <1>6, <2>1, <2>2, <3>2, <4>1
      <4>2. CASE Precedes(risks, a, t)
        BY <1>6, <2>1, <2>2, <2>3, <4>2
      <4> QED BY <1>1, <2>1, <2>2, <4>1, <4>2
    <3> QED BY <1>1, <2>1, <2>2, <3>1, <3>2
  <2>4. CASE Precedes(risks, h, t)
    <3>1. CASE Precedes(risks, t, a)
      BY <1>6, <2>1, <2>2, <2>4, <3>1
    <3>2. CASE Precedes(risks, a, t)
      <4>1. CASE Precedes(risks, h, a)
        BY <1>6, <2>1, <2>2, <3>2, <4>1
      <4>2. CASE Precedes(risks, a, h)
        BY <1>6, <2>1, <2>2, <2>4, <4>2
      <4> QED BY <1>1, <2>1, <2>2, <4>1, <4>2
    <3> QED BY <1>1, <2>1, <2>2, <3>1, <3>2
  <2> QED BY <1>1, <2>1, <2>2, <2>3, <2>4
<1>9. \/ held = {} \/ (\E a : held = {a}) \/ (\E a, b : held = {a, b} /\ a # b)
      \/ held = MeasureName
  <2>1. CASE "temperature" \in held /\ "humidity" \in held /\ "ai_event_rate" \in held
    BY <2>1 DEF MeasureName
  <2>2. CASE "temperature" \in held /\ "humidity" \in held /\ "ai_event_rate" \notin held
    <3>1. held = {"temperature", "humidity"}
      BY <2>2 DEF MeasureName
    <3> QED BY <3>1
  <2>3. CASE "temperature" \in held /\ "humidity" \notin held /\ "ai_event_rate" \in held
    <3>1. held = {"temperature", "ai_event_rate"}
      BY <2>3 DEF MeasureName
    <3> QED BY <3>1
  <2>4. CASE "temperature" \notin held /\ "humidity" \in held /\ "ai_event_rate" \in held
    <3>1. held = {"humidity", "ai_event_rate"}
      BY <2>4 DEF MeasureName
    <3> QED BY <3>1
  <2>5. CASE "temperature" \notin held /\ "humidity" \notin held
    <3>1. held = {} \/ held = {"ai_event_rate"}
      BY <2>5 DEF MeasureName
    <3> QED BY <3>1
  <2>6. CASE "temperature" \notin held /\ "ai_event_rate" \notin held
    <3>1. held = {} \/ held = {"humidity"}
      BY <2>6 DEF MeasureName
    <3> QED BY <3>1
  <2>7. CASE "humidity" \notin held /\ "ai_event_rate" \notin held
    <3>1. held = {} \/ held = {"temperature"}
      BY <2>7 DEF MeasureName
    <3> QED BY <3>1
  <2> QED BY <2>1, <2>2, <2>3, <2>4, <2>5, <2>6, <2>7
<1> HIDE DEF Done
<1>10. ASSUME held = {} PROVE Done
  BY <1>3, <1>10 DEF Done
<1>11. ASSUME \E a : held = {a} PROVE Done
  <2> PICK a : held = {a}
    BY <1>11
  <2> QED BY <1>4
<1>12. ASSUME \E a, b : held = {a, b} /\ a # b PROVE Done
  <2> PICK a, b : held = {a, b} /\ a # b
    BY <1>12
  <2> QED BY <1>7
<1>13. Done
  BY <1>8, <1>9, <1>10, <1>11, <1>12
<1> QED BY <1>13 DEF Done, Orderable

(* What the causes of a set of risks are: those that weigh, each once, in  *)
(* order.                                                                  *)
LEMMA CausesAre ==
    ASSUME NEW risks, DOMAIN risks = MeasureName, \A f \in MeasureName : risks[f] \in Nat
    PROVE  \E n \in Nat :
             /\ DOMAIN Causes(risks) = 1..n /\ Len(Causes(risks)) = n
             /\ \A i \in 1..n : /\ Causes(risks)[i].field \in MeasureName
                               /\ risks[Causes(risks)[i].field] > 0
                               /\ Causes(risks)[i].contribution = ScorePenalty(risks[Causes(risks)[i].field])
             /\ \A i, j \in 1..n : i < j => Precedes(risks, Causes(risks)[i].field, Causes(risks)[j].field)
             /\ \A f \in MeasureName : risks[f] > 0 => \E i \in 1..n : Causes(risks)[i].field = f
<1> DEFINE held == {f \in DOMAIN risks : risks[f] > 0}
           n == Cardinality(held)
           Ordered(q) == Sorted(risks, q) /\ \A f \in held : \E i \in DOMAIN q : q[i] = f
           order == CHOOSE q \in [1..n -> held] : Ordered(q)
<1>1. n \in Nat
  <2>1. IsFiniteSet({"temperature", "humidity"})
    BY PairHas
  <2>2. IsFiniteSet({"temperature", "humidity"} \cup {"ai_event_rate"})
    BY <2>1, FS_AddElement
  <2>3. held \subseteq {"temperature", "humidity"} \cup {"ai_event_rate"}
    BY DEF MeasureName
  <2>4. IsFiniteSet(held)
    BY <2>2, <2>3, FS_Subset
  <2> QED BY <2>4, FS_CardinalityType
<1>2. \A f \in held : ScorePenalty(risks[f]) \in Nat
  BY PenaltyIs
<1>3. \E q \in [1..n -> held] : Ordered(q)
  <2>1. held \subseteq MeasureName
    OBVIOUS
  <2> HIDE DEF held
  <2>2. \E q \in [1..Cardinality(held) -> held] :
           Sorted(risks, q) /\ \A f \in held : \E i \in DOMAIN q : q[i] = f
    <3>1. Orderable(risks, held)
      BY <1>2, <2>1, OrderExists
    <3> QED BY <3>1 DEF Orderable
  <2> QED BY <2>2
<1>4. Causes(risks) = [i \in DOMAIN order |->
                         [field |-> order[i], contribution |-> ScorePenalty(risks[order[i]])]]
  BY DEF Causes
<1>5. held = {f \in MeasureName : risks[f] > 0}
  OBVIOUS
<1> HIDE DEF n, held
<1>6. order \in [1..n -> held] /\ Ordered(order)
  BY <1>3
<1> HIDE DEF order
<1>7. DOMAIN order = 1..n /\ \A i \in 1..n : order[i] \in held
  BY <1>6
<1>8. Sorted(risks, order) /\ \A f \in held : \E i \in DOMAIN order : order[i] = f
  BY <1>6
<1> HIDE DEF Ordered
<1>9. /\ DOMAIN Causes(risks) = 1..n
      /\ \A i \in 1..n : /\ Causes(risks)[i].field = order[i]
                        /\ Causes(risks)[i].contribution = ScorePenalty(risks[order[i]])
  BY <1>4, <1>7
<1>10. Len(Causes(risks)) = n
  <2>1. Causes(risks) = [i \in 1..n |->
                         [field |-> order[i], contribution |-> ScorePenalty(risks[order[i]])]]
    BY <1>4, <1>7
  <2> QED BY <1>1, <2>1
<1>11. \A i, j \in 1..n : i < j => Precedes(risks, Causes(risks)[i].field, Causes(risks)[j].field)
  BY <1>7, <1>8, <1>9 DEF Sorted
<1>12. \A f \in MeasureName : risks[f] > 0 => \E i \in 1..n : Causes(risks)[i].field = f
  BY <1>5, <1>7, <1>8, <1>9
<1>13. \A i \in 1..n : /\ Causes(risks)[i].field \in MeasureName
                      /\ risks[Causes(risks)[i].field] > 0
                      /\ Causes(risks)[i].contribution = ScorePenalty(risks[Causes(risks)[i].field])
  BY <1>5, <1>7, <1>9
<1> QED BY <1>1, <1>9, <1>10, <1>11, <1>12, <1>13

LEMMA PointsAre ==
    ASSUME NEW risks, DOMAIN risks = MeasureName, \A f \in MeasureName : risks[f] \in Nat,
           NEW f \in MeasureName
    PROVE  PointsOf(f, Causes(risks)) = ScorePenalty(risks[f])
<1> DEFINE c == Causes(risks)
<1> PICK n \in Nat :
       /\ DOMAIN c = 1..n
       /\ \A i \in 1..n : c[i].contribution = ScorePenalty(risks[c[i].field])
       /\ risks[f] > 0 => \E i \in 1..n : c[i].field = f
       /\ \A i \in 1..n : risks[c[i].field] > 0
  BY CausesAre
<1> HIDE DEF c
<1>1. CASE \E i \in DOMAIN c : c[i].field = f
  <2> DEFINE k == CHOOSE i \in DOMAIN c : c[i].field = f
  <2>1. k \in 1..n /\ c[k].field = f
    BY <1>1
  <2>2. PointsOf(f, c) = c[k].contribution
    BY <1>1 DEF PointsOf
  <2> HIDE DEF k
  <2> QED BY <2>1, <2>2 DEF c
<1>2. CASE ~ \E i \in DOMAIN c : c[i].field = f
  <2>1. risks[f] = 0
    BY <1>2
  <2>2. ScorePenalty(0) = 0
    BY DEF ScorePenalty
  <2> QED BY <1>2, <2>1, <2>2 DEF PointsOf, c
<1> QED BY <1>1, <1>2

-----------------------------------------------------------------------------
(* The score: what is lost never exceeds the whole, so it is not cut off.  *)
LEMMA ScoreOf ==
    ASSUME NEW r, Normalized(r)
    PROVE  /\ RawPenalty(Risks(r)) \in Nat /\ RawPenalty(Risks(r)) <= 2100000
           /\ ScorePenalty(RawPenalty(Risks(r))) <= 10000
           /\ Calculate(r).score = 10000 - ScorePenalty(RawPenalty(Risks(r)))
           /\ Calculate(r).level = Level(Calculate(r).score)
           /\ Calculate(r).top_causes = Causes(Risks(r))
<1>1. RawPenalty(Risks(r)) \in Nat /\ RawPenalty(Risks(r)) <= 2100000
  BY RisksIn, SMT DEF RawPenalty
<1> DEFINE raw == RawPenalty(Risks(r))
           penalty == ScorePenalty(raw)
<1>2. Calculate(r) = [score |-> Most({0, 10000 - penalty}),
                      level |-> Level(Most({0, 10000 - penalty})), top_causes |-> Causes(Risks(r))]
  BY DEF Calculate
<1>3. penalty \in Nat /\ 210 * penalty <= raw + 105
  BY <1>1, PenaltyIs
<1> HIDE DEF penalty
<1> HIDE DEF raw
<1>4. penalty <= 10000
  BY <1>1, <1>3, SMT DEF raw
<1>5. Most({0, 10000 - penalty}) = 10000 - penalty
  <2>1. 10000 - penalty \in Int /\ (0 <= 10000 - penalty)
    BY <1>3, <1>4, SMT
  <2> QED BY <2>1, MostOfTwo, SMT
<1> QED BY <1>1, <1>2, <1>4, <1>5, SMT DEF penalty, raw

(* The rounding of three contributions and of their sum does not add up to *)
(* two hundredths of a point.                                              *)
LEMMA SumOfRounded ==
    ASSUME NEW a \in Nat, NEW b \in Nat, NEW c \in Nat
    PROVE  ScorePenalty(a) + ScorePenalty(b) + ScorePenalty(c) - ScorePenalty(a + b + c) \in -1..1
<1> DEFINE p == ScorePenalty(a)
           q == ScorePenalty(b)
           s == ScorePenalty(c)
           t == ScorePenalty(a + b + c)
<1>1. p \in Nat /\ 210 * p <= a + 105 /\ a + 105 <= 210 * p + 209
  BY PenaltyIs
<1>2. q \in Nat /\ 210 * q <= b + 105 /\ b + 105 <= 210 * q + 209
  BY PenaltyIs
<1>3. s \in Nat /\ 210 * s <= c + 105 /\ c + 105 <= 210 * s + 209
  BY PenaltyIs
<1>4. t \in Nat /\ 210 * t <= a + b + c + 105 /\ a + b + c + 105 <= 210 * t + 209
  <2>1. a + b + c \in Nat
    OBVIOUS
  <2> QED BY <2>1, PenaltyIs
<1> HIDE DEF p, q, s, t
<1>5. p + q + s - t \in -1..1
  BY <1>1, <1>2, <1>3, <1>4, SMT
<1> QED BY <1>5 DEF p, q, s, t

(* What is said to be lost, cause by cause. *)
LEMMA ExplainedBy ==
    ASSUME NEW r, Normalized(r)
    PROVE  LET causes == Calculate(r).top_causes
           IN  /\ \A i, j \in DOMAIN causes :
                    i < j => causes[i].contribution >= causes[j].contribution /\ causes[i].field # causes[j].field
               /\ PointsOf("temperature", causes) + PointsOf("humidity", causes)
                    + PointsOf("ai_event_rate", causes) - (10000 - Calculate(r).score) \in -1..1
<1> DEFINE risks == Risks(r)
           causes == Causes(risks)
<1>1. /\ DOMAIN risks = MeasureName /\ \A f \in MeasureName : risks[f] \in Nat
      /\ risks["temperature"] \in Nat /\ risks["humidity"] \in Nat /\ risks["ai_event_rate"] \in Nat
  BY RisksIn DEF MeasureName
<1>2. Calculate(r).top_causes = causes
      /\ Calculate(r).score = 10000 - ScorePenalty(RawPenalty(risks))
  BY ScoreOf
<1>3. /\ PointsOf("temperature", causes) = ScorePenalty(risks["temperature"])
      /\ PointsOf("humidity", causes) = ScorePenalty(risks["humidity"])
      /\ PointsOf("ai_event_rate", causes) = ScorePenalty(risks["ai_event_rate"])
  BY <1>1, PointsAre DEF MeasureName
<1>4. RawPenalty(risks) = risks["temperature"] + risks["humidity"] + risks["ai_event_rate"]
  BY DEF RawPenalty
<1>5. PICK n \in Nat :
       /\ DOMAIN causes = 1..n
       /\ \A i \in 1..n : /\ causes[i].field \in MeasureName
                         /\ causes[i].contribution = ScorePenalty(risks[causes[i].field])
       /\ \A i, j \in 1..n : i < j => Precedes(risks, causes[i].field, causes[j].field)
  BY <1>1, CausesAre
<1> HIDE DEF risks, causes
<1>6. ASSUME NEW i \in 1..n, NEW j \in 1..n, i < j
      PROVE  causes[i].contribution >= causes[j].contribution /\ causes[i].field # causes[j].field
  <2> DEFINE f == causes[i].field
             g == causes[j].field
  <2>1. f \in MeasureName /\ g \in MeasureName /\ Precedes(risks, f, g)
    BY <1>5, <1>6
  <2>2. causes[i].contribution = ScorePenalty(risks[f]) /\ causes[j].contribution = ScorePenalty(risks[g])
    BY <1>5
  <2> HIDE DEF f, g
  <2>3. ScorePenalty(risks[f]) \in Nat /\ ScorePenalty(risks[g]) \in Nat
    BY <1>1, <2>1, PenaltyIs
  <2>4. Appended[f] \in Nat /\ Appended[g] \in Nat
    BY <2>1 DEF MeasureName, Appended
  <2>5. ScorePenalty(risks[f]) >= ScorePenalty(risks[g]) /\ f # g
    BY <2>1, <2>3, <2>4 DEF Precedes
  <2> QED BY <2>2, <2>5 DEF f, g
<1>7. PointsOf("temperature", causes) + PointsOf("humidity", causes)
         + PointsOf("ai_event_rate", causes) - ScorePenalty(RawPenalty(risks)) \in -1..1
  BY <1>1, <1>3, <1>4, SumOfRounded
<1>8. 10000 - Calculate(r).score = ScorePenalty(RawPenalty(risks))
  <2>1. RawPenalty(risks) \in Nat
    BY <1>1, <1>4
  <2>2. ScorePenalty(RawPenalty(risks)) \in Nat
    BY <2>1, PenaltyIs
  <2> QED BY <1>2, <2>2, SMT
<1> QED BY <1>2, <1>5, <1>6, <1>7, <1>8

(* One measure alone does not make a danger. *)
LEMMA TwoForDanger ==
    ASSUME NEW r, Normalized(r), Calculate(r).score < 5000
    PROVE  Len(Calculate(r).top_causes) >= 2
<1> DEFINE risks == Risks(r)
           causes == Causes(risks)
           raw == RawPenalty(risks)
<1>1. /\ DOMAIN risks = MeasureName /\ \A f \in MeasureName : risks[f] \in Nat
      /\ \A f \in MeasureName : risks[f] <= 900000
  BY RisksIn, SMT DEF MeasureName
<1>2. Calculate(r).top_causes = causes /\ Calculate(r).score = 10000 - ScorePenalty(raw) /\ raw \in Nat
  BY ScoreOf
<1>3. raw = risks["temperature"] + risks["humidity"] + risks["ai_event_rate"]
  BY DEF RawPenalty
<1>4. PICK n \in Nat :
       /\ Len(causes) = n
       /\ \A f \in MeasureName : risks[f] > 0 => \E i \in 1..n : causes[i].field = f
  BY <1>1, CausesAre
<1> HIDE DEF risks, causes, raw
<1>5. raw > 900000
  <2>1. ScorePenalty(raw) \in Nat /\ 210 * ScorePenalty(raw) <= raw + 105
    BY <1>2, PenaltyIs
  <2>2. 10000 - ScorePenalty(raw) < 5000
    BY <1>2
  <2> QED BY <1>2, <2>1, <2>2, SMT
<1>6. SUFFICES ASSUME n < 2 PROVE FALSE
  BY <1>2, <1>4
<1>7. \A f, g \in MeasureName : risks[f] > 0 /\ risks[g] > 0 => f = g
  <2>1. n = 0 \/ n = 1
    BY <1>6
  <2> QED BY <1>4, <2>1
<1>8. \/ risks["temperature"] = 0 /\ risks["humidity"] = 0
      \/ risks["temperature"] = 0 /\ risks["ai_event_rate"] = 0
      \/ risks["humidity"] = 0 /\ risks["ai_event_rate"] = 0
  BY <1>1, <1>7 DEF MeasureName
<1>9. raw <= 900000
  <2> DEFINE a == risks["temperature"]
             b == risks["humidity"]
             c == risks["ai_event_rate"]
  <2>1. a \in Nat /\ b \in Nat /\ c \in Nat /\ a <= 900000 /\ b <= 900000 /\ c <= 900000
    BY <1>1, SMT DEF MeasureName
  <2>2. raw = a + b + c /\ ((a = 0 /\ b = 0) \/ (a = 0 /\ c = 0) \/ (b = 0 /\ c = 0))
    BY <1>3, <1>8
  <2> HIDE DEF a, b, c
  <2> QED BY <2>1, <2>2, SMT
<1> QED BY <1>2, <1>5, <1>9, SMT

-----------------------------------------------------------------------------
(* Each risk is monotone in what it is of, and so is their sum. *)
LEMMA RawMonotone ==
    ASSUME NEW r, NEW s, Normalized(r), Normalized(s),
           r.temperature <= s.temperature, r.humidity <= s.humidity, r.fire <= s.fire,
           r.fall <= s.fall, r.bend <= s.bend, r.sound = s.sound
    PROVE  RawPenalty(Risks(r)) <= RawPenalty(Risks(s))
<1>1. TemperatureRisk(r.temperature) <= TemperatureRisk(s.temperature)
  BY SMT DEF Normalized, TemperatureRisk
<1>2. HumidityRisk(r.humidity) <= HumidityRisk(s.humidity)
  BY SMT DEF Normalized, HumidityRisk
<1>3. AiRisk(r) <= AiRisk(s)
  <2> DEFINE most(x) == Most({x.fire, x.fall, x.bend})
             sound(x) == IF x.sound \in {"none", ""} THEN 0 ELSE 30000
             risk(x) == 60 * most(x) + sound(x)
  <2>1. most(r) \in Nat /\ most(s) \in Nat
    BY MostOfThree DEF Normalized
  <2>2. most(r) <= most(s)
    <3>1. most(r) \in {r.fire, r.fall, r.bend}
      BY MostOfThree DEF Normalized
    <3>2. s.fire <= most(s) /\ s.fall <= most(s) /\ s.bend <= most(s)
      BY MostOfThree DEF Normalized
    <3> HIDE DEF most
    <3> QED BY <2>1, <3>1, <3>2 DEF Normalized
  <2>3. AiRisk(r) = IF risk(r) < 600000 THEN risk(r) ELSE 600000
    BY SMT DEF AiRisk
  <2>4. AiRisk(s) = IF risk(s) < 600000 THEN risk(s) ELSE 600000
    BY SMT DEF AiRisk
  <2>5. sound(r) \in Nat /\ sound(r) = sound(s)
    BY SMT
  <2> HIDE DEF most, sound
  <2>6. risk(r) \in Nat /\ risk(s) \in Nat /\ risk(r) <= risk(s)
    BY <2>1, <2>2, <2>5, SMT
  <2> HIDE DEF risk
  <2> QED BY <2>3, <2>4, <2>6, SMT
<1>4. \A x \in {r, s} : RawPenalty(Risks(x)) = TemperatureRisk(x.temperature) + HumidityRisk(x.humidity) + AiRisk(x)
  BY DEF RawPenalty, Risks
<1>5. \A x \in {r, s} : TemperatureRisk(x.temperature) \in Nat /\ HumidityRisk(x.humidity) \in Nat /\ AiRisk(x) \in Nat
  BY RisksIn DEF Risks
<1> QED BY <1>1, <1>2, <1>3, <1>4, <1>5

LEMMA ScoreMonotone ==
    ASSUME NEW r, NEW s, Normalized(r), Normalized(s), RawPenalty(Risks(r)) <= RawPenalty(Risks(s))
    PROVE  Calculate(s).score <= Calculate(r).score
<1>1. RawPenalty(Risks(r)) \in Nat /\ RawPenalty(Risks(s)) \in Nat
  BY ScoreOf
<1>2. ScorePenalty(RawPenalty(Risks(r))) <= ScorePenalty(RawPenalty(Risks(s)))
  BY <1>1, PenaltyMonotone
<1>3. ScorePenalty(RawPenalty(Risks(r))) \in Nat /\ ScorePenalty(RawPenalty(Risks(s))) \in Nat
  BY <1>1, PenaltyIs
<1>4. /\ Calculate(s).score = 10000 - ScorePenalty(RawPenalty(Risks(s)))
      /\ Calculate(r).score = 10000 - ScorePenalty(RawPenalty(Risks(r)))
  BY ScoreOf
<1> QED BY <1>2, <1>3, <1>4, SMT

LEMMA NormalizedIs ==
    ASSUME NEW p \in Measures
    PROVE  LET r == NormalizeFactoryState(p)
           IN  /\ Normalized(r)
               /\ r.temperature = Number0(p.temperature) /\ r.humidity = Number0(p.humidity)
               /\ r.fire = Number0(p.fire) /\ r.fall = Number0(p.fall) /\ r.bend = Number0(p.bend)
               /\ r.sound = SoundText(p.sound)
<1> DEFINE r == NormalizeFactoryState(p)
<1>1. /\ p.temperature \in Int \cup {Absent, Null} /\ p.humidity \in Int \cup {Absent, Null}
      /\ p.fire \in Nat \cup {Absent, Null} /\ p.fall \in Nat \cup {Absent, Null} /\ p.bend \in Nat \cup {Absent, Null}
  BY AssessmentAssumption DEF Measures
<1>2. DOMAIN p = {"temperature", "humidity", "fire", "fall", "bend", "sound"}
  BY DEF Measures
<1>3. r = [m \in DOMAIN p |-> IF m = "sound" THEN SoundText(p[m]) ELSE Number0(p[m])]
  BY DEF NormalizeFactoryState
<1>4. /\ r.temperature = Number0(p.temperature) /\ r.humidity = Number0(p.humidity)
      /\ r.fire = Number0(p.fire) /\ r.fall = Number0(p.fall) /\ r.bend = Number0(p.bend)
      /\ r.sound = SoundText(p.sound)
  BY <1>2, <1>3
<1> HIDE DEF r
<1>5. Normalized(r)
  BY <1>1, <1>4 DEF Normalized, Number0
<1> QED BY <1>4, <1>5 DEF r

LEMMA NeverSafer ==
    ASSUME NEW p \in Measures, NEW m \in {"temperature", "humidity", "fire", "fall", "bend"},
           NEW v \in IF m = "temperature" THEN Temperature ELSE IF m = "humidity" THEN Humidity ELSE Score,
           Number0(v) > Number0(p[m])
    PROVE  Calculate(NormalizeFactoryState([p EXCEPT ![m] = v])).score
             <= Calculate(NormalizeFactoryState(p)).score
<1> DEFINE w == [p EXCEPT ![m] = v]
           r == NormalizeFactoryState(p)
           s == NormalizeFactoryState(w)
<1>1. w \in Measures
  BY DEF Measures
<1>2. \A x \in {"temperature", "humidity", "fire", "fall", "bend", "sound"} : w[x] = IF x = m THEN v ELSE p[x]
  BY DEF Measures
<1>3. /\ p.temperature \in Int \cup {Absent, Null} /\ p.humidity \in Int \cup {Absent, Null}
      /\ p.fire \in Nat \cup {Absent, Null} /\ p.fall \in Nat \cup {Absent, Null} /\ p.bend \in Nat \cup {Absent, Null}
      /\ v \in Int \cup {Absent, Null}
  <2>1. v \in Temperature \/ v \in Humidity \/ v \in Score
    <3>1. CASE m = "temperature"
      BY <3>1
    <3>2. CASE m = "humidity"
      BY <3>2
    <3>3. CASE m # "temperature" /\ m # "humidity"
      BY <3>3
    <3> QED BY <3>1, <3>2, <3>3
  <2>2. v \in Int \cup {Absent, Null}
    BY <2>1, AssessmentAssumption
  <2> QED BY <2>2, AssessmentAssumption DEF Measures
<1>4. \A x \in {"temperature", "humidity", "fire", "fall", "bend"} :
        Number0(p[x]) \in Int /\ Number0(w[x]) \in Int /\ Number0(p[x]) <= Number0(w[x])
  BY <1>2, <1>3 DEF Number0
<1>5. w.sound = p.sound
  BY <1>2
<1>6. /\ Normalized(r)
      /\ r.temperature = Number0(p.temperature) /\ r.humidity = Number0(p.humidity)
      /\ r.fire = Number0(p.fire) /\ r.fall = Number0(p.fall) /\ r.bend = Number0(p.bend)
      /\ r.sound = SoundText(p.sound)
  BY NormalizedIs
<1> HIDE DEF w
<1>7. /\ Normalized(s)
      /\ s.temperature = Number0(w.temperature) /\ s.humidity = Number0(w.humidity)
      /\ s.fire = Number0(w.fire) /\ s.fall = Number0(w.fall) /\ s.bend = Number0(w.bend)
      /\ s.sound = SoundText(w.sound)
  BY <1>1, NormalizedIs
<1> HIDE DEF r, s
<1>8. /\ r.temperature <= s.temperature /\ r.humidity <= s.humidity /\ r.fire <= s.fire
      /\ r.fall <= s.fall /\ r.bend <= s.bend /\ r.sound = s.sound
  BY <1>4, <1>5, <1>6, <1>7
<1>9. RawPenalty(Risks(r)) <= RawPenalty(Risks(s))
  BY <1>6, <1>7, <1>8, RawMonotone
<1>10. Calculate(s).score <= Calculate(r).score
  BY <1>6, <1>7, <1>9, ScoreMonotone
<1> QED BY <1>10 DEF w, r, s

-----------------------------------------------------------------------------
(* What is decided of a payload is what risk.py makes of it. *)
AssessInv ==
    /\ payload \in Measures \/ payload \in [nodes : NodeReport]
    /\ \/ outcome = Undecided
       \/ payload \in Measures /\ outcome = Calculate(NormalizeFactoryState(payload))
       \/ outcome.level = "counted"

LEMMA AssessInvInductive == AssessSpec => []AssessInv
<1>1. AssessStart \/ ReportStart => AssessInv
  BY DEF AssessStart, ReportStart, AssessInv
<1>2. AssessInv /\ [AssessNext]_assessmentVars => AssessInv'
  <2> SUFFICES ASSUME AssessInv, [AssessNext]_assessmentVars PROVE AssessInv'
    OBVIOUS
  <2>1. CASE ProcessFactoryState
    <3>1. payload \in Measures
      BY <2>1 DEF ProcessFactoryState, AssessInv
    <3> QED BY <2>1, <3>1 DEF ProcessFactoryState, AssessInv
  <2>2. CASE ProcessInfraState
    BY <2>2 DEF ProcessInfraState, AssessInv
  <2>3. CASE UNCHANGED assessmentVars
    BY <2>3 DEF assessmentVars, AssessInv
  <2> QED BY <2>1, <2>2, <2>3 DEF AssessNext
<1> QED BY <1>1, <1>2, PTL DEF AssessSpec

LEMMA AssessInvImpliesSound == AssessInv => ScoreIsSound
<1> SUFFICES ASSUME AssessInv PROVE ScoreIsSound
  OBVIOUS
<1>1. CASE ~Rated
  BY <1>1 DEF ScoreIsSound, LossIsExplained, WorseIsNeverSafer, DangerTakesTwo
<1>2. CASE Rated
  <2>1. payload \in Measures /\ outcome = Calculate(NormalizeFactoryState(payload))
    BY <1>2 DEF AssessInv, Rated, Undecided
  <2> DEFINE r == NormalizeFactoryState(payload)
  <2>2. Normalized(r)
    BY <2>1, NormalizedIs
  <2>3. WorseIsNeverSafer
    BY <2>1, NeverSafer DEF WorseIsNeverSafer
  <2>4. LossIsExplained
    <3> HIDE DEF r
    <3>1. outcome = Calculate(r)
      BY <2>1 DEF r
    <3> QED BY <2>2, <3>1, ExplainedBy DEF LossIsExplained
  <2>5. DangerTakesTwo
    <3> HIDE DEF r
    <3>1. outcome = Calculate(r)
      BY <2>1 DEF r
    <3>2. Calculate(r).level = Level(Calculate(r).score) /\ Calculate(r).score \in Int
      <4>1. ScorePenalty(RawPenalty(Risks(r))) \in Nat
        BY <2>2, ScoreOf, PenaltyIs
      <4> QED BY <2>2, <4>1, ScoreOf
    <3>3. outcome.level = "danger" => Calculate(r).score < 5000
      BY <3>1, <3>2, SMT DEF Level
    <3> QED BY <2>2, <3>1, <3>3, TwoForDanger DEF DangerTakesTwo
  <2> QED BY <2>3, <2>4, <2>5 DEF ScoreIsSound
<1> QED BY <1>1, <1>2

(* Whatever a window measured: the causes that are named are those that    *)
(* cost points, in order, and add up to the loss; a worse measure never    *)
(* gives a better score; and danger takes two measures.                    *)
THEOREM ScoreSound == AssessSpec => []ScoreIsSound
BY AssessInvInductive, AssessInvImpliesSound, PTL
=============================================================================

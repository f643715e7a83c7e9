------------------------------ MODULE DdbGate ------------------------------
(***************************************************************************)
(* The gate in front of DynamoDB in one backend process: _run_ddb awaits a *)
(* permit of a semaphore, runs the boto3 call in a thread of the event     *)
(* loop's executor, and gives up after ddb_operation_timeout_seconds,      *)
(* whichever of the two it is waiting for.  Giving up cancels the wait and *)
(* returns the permit, but a thread that runs cannot be cancelled: it goes *)
(* on as an orphan until boto3 returns.                                    *)
(***************************************************************************)
EXTENDS Naturals, FiniteSets

CONSTANTS
    Call,      \* slots for calls of _run_ddb
    Permits,   \* ddb_max_concurrent_operations
    Threads    \* workers of the event loop's default executor

ASSUME GateAssumption ==
    /\ Permits \in Nat \ {0} /\ Threads \in Nat \ {0}
    /\ IsFiniteSet(Call)

VARIABLES
    call,      \* where each call is
    permits,   \* the value of the semaphore
    free,      \* threads of the executor that are free
    orphans    \* threads that run for a call that was given up

gateVars == <<call, permits, free, orphans>>

(* "permit" has a permit and no thread yet; the last two are results.      *)
CallState == {"idle", "queue", "permit", "thread", "value", "unavailable"}

At(states) == {c \in Call : call[c] \in states}

GateInit ==
    /\ call = [c \in Call |-> "idle"]
    /\ permits = Permits /\ free = Threads /\ orphans = 0

Move(c, from, to) == call[c] = from /\ call' = [call EXCEPT ![c] = to]

Enter(c) == Move(c, "idle", "queue") /\ UNCHANGED <<permits, free, orphans>>

(* async with _operation_semaphore(); any waiter may be the next. *)
TakePermit(c) ==
    /\ permits > 0 /\ permits' = permits - 1
    /\ Move(c, "queue", "permit")
    /\ UNCHANGED <<free, orphans>>

(* The executor gives the call a thread when one is free. *)
StartThread(c) ==
    /\ free > 0 /\ free' = free - 1
    /\ Move(c, "permit", "thread")
    /\ UNCHANGED <<permits, orphans>>

(* boto3 returns, or raises BotoCoreError or ClientError. *)
Return(c) ==
    /\ \E to \in {"value", "unavailable"} : Move(c, "thread", to)
    /\ permits' = permits + 1 /\ free' = free + 1
    /\ UNCHANGED orphans

GivenUp(c) ==
    /\ call[c] \in {"queue", "permit", "thread"}
    /\ call' = [call EXCEPT ![c] = "unavailable"]
    /\ orphans' = IF call[c] = "thread" THEN orphans + 1 ELSE orphans
    /\ UNCHANGED free

(* Mutant: a cancelled call returns a permit that it did not have. *)
TimeOutReleases(c) == GivenUp(c) /\ permits' = permits + 1

(* wait_for cancels the call wherever it is; leaving the block releases.   *)
TimeOut(c) ==
    /\ GivenUp(c)
    /\ permits' = IF call[c] = "queue" THEN permits ELSE permits + 1

(* The thread of a call that was given up returns at last. *)
OrphanEnds ==
    /\ orphans > 0 /\ orphans' = orphans - 1 /\ free' = free + 1
    /\ UNCHANGED <<call, permits>>

(* The caller takes the result; the slot serves another call. *)
Leave(c) ==
    /\ call[c] \in {"value", "unavailable"}
    /\ call' = [call EXCEPT ![c] = "idle"]
    /\ UNCHANGED <<permits, free, orphans>>

CallStep(c) ==
    Enter(c) \/ TakePermit(c) \/ StartThread(c) \/ Return(c) \/ TimeOut(c) \/ Leave(c)

GateNext == (\E c \in Call : CallStep(c)) \/ OrphanEnds

(* A timer fires and a caller goes on; nothing says that boto3 returns or  *)
(* that a thread becomes free.                                             *)
GateFairness == \A c \in Call : WF_gateVars(TimeOut(c)) /\ WF_gateVars(Leave(c))

GateSpec == GateInit /\ [][GateNext]_gateVars

GateFairSpec == GateSpec /\ GateFairness

-----------------------------------------------------------------------------
GateTypeOK ==
    /\ call \in [Call -> CallState]
    /\ permits \in 0..Permits /\ free \in 0..Threads /\ orphans \in 0..Threads

(* However many calls are given up, at whatever point, no permit is lost   *)
(* and none is returned twice, and a thread comes back only when boto3     *)
(* returns: _run_ddb_in_thread under the wait_for of _run_ddb.             *)
NothingLeaks ==
    /\ permits + Cardinality(At({"permit", "thread"})) = Permits
    /\ free + Cardinality(At({"thread"})) + orphans = Threads

(* A call is always answered, also when the table hangs and orphans occupy *)
(* every thread: the timeout covers the wait for a permit and for a thread.*)
CallsAreAnswered == \A c \in Call : (call[c] = "queue") ~> (call[c] \in {"value", "unavailable"})
=============================================================================

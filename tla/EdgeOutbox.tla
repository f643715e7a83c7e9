------------------------------ MODULE EdgeOutbox ------------------------------
(* A dummy factory: its generator (factory_b_dummy_generator.py) and its   *)
(* publisher (factory_b_iot_publisher.py), two services that share a       *)
(* directory, and the MQTT connection to IoT Core. Files are numbered in   *)
(* the order of their modification times; that of factory-c is the same    *)
(* code. Left out: names (a generator writes less than one message of a    *)
(* type per second, so they are unique) and how long a delay lasts.        *)
EXTENDS Integers, FiniteSets

CONSTANTS
    MaxFiles,         \* bound on the files
    MaxOutboxFaults,  \* bound on crashes and failing calls
    Backoff, MaxBackoff

ASSUME OutboxAssumption ==
    /\ MaxFiles \in Nat /\ MaxOutboxFaults \in Nat
    /\ Backoff \in Nat \ {0} /\ MaxBackoff \in Nat /\ Backoff <= MaxBackoff

VARIABLES
    place,         \* where each file is
    foreign,       \* files that no generator wrote
    writing,       \* the file the generator is writing, 0 without one
    pass,          \* files the publisher has yet to look at, in their order
    stage,         \* asleep, or how far it is with the first of them
    progress,      \* whether this pass published a file
    delay,         \* before the next pass
    handed,        \* files whose publish() returned
    arrivals,      \* how often each message came to IoT Core
    outboxFaults

directory == <<place, foreign, writing>>
publisher == <<pass, stage, progress, delay>>
outboxVars == <<directory, publisher, handed, arrivals, outboxFaults>>

File == 1..MaxFiles
Place == {"none", "tmp", "outbox", "quarantine", "gone"}
Outbox == {f \in File : place[f] = "outbox"}
Fault == outboxFaults < MaxOutboxFaults /\ outboxFaults' = outboxFaults + 1

OutboxStart ==
    /\ place = [f \in File |-> "none"] /\ foreign = {} /\ writing = 0
    /\ pass = {} /\ stage = "asleep" /\ progress = FALSE /\ delay = Backoff
    /\ handed = {} /\ arrivals = [f \in File |-> 0] /\ outboxFaults = 0

-----------------------------------------------------------------------------
(* The next file gets the latest modification time. *)
IsNext(f) == place[f] = "none" /\ \A g \in File : g < f => place[g] # "none"

(* Mutant: the message is written where the publisher looks. *)
OpenInPlace(f) ==
    /\ writing = 0 /\ IsNext(f)
    /\ place' = [place EXCEPT ![f] = "outbox"]
    /\ writing' = f
    /\ UNCHANGED <<foreign, publisher, handed, arrivals, outboxFaults>>

(* write_outbox: a temporary file in outbox/tmp ... *)
OpenTemporary(f) ==
    /\ writing = 0 /\ IsNext(f)
    /\ place' = [place EXCEPT ![f] = "tmp"]
    /\ writing' = f
    /\ UNCHANGED <<foreign, publisher, handed, arrivals, outboxFaults>>

(* ... that is renamed when it is on the disk. *)
Replace ==
    /\ writing # 0
    /\ place' = [place EXCEPT ![writing] = "outbox"]
    /\ writing' = 0
    /\ UNCHANGED <<foreign, publisher, handed, arrivals, outboxFaults>>

(* An error, which _write_one prints, or a restart: what was written stays *)
(* where it is.                                                            *)
AbandonWrite ==
    /\ writing # 0 /\ Fault
    /\ writing' = 0
    /\ UNCHANGED <<place, foreign, publisher, handed, arrivals>>

(* Somebody copies a file into the outbox that is no message. *)
CopyIn(f) ==
    /\ IsNext(f)
    /\ place' = [place EXCEPT ![f] = "outbox"]
    /\ foreign' = foreign \cup {f}
    /\ UNCHANGED <<writing, publisher, handed, arrivals, outboxFaults>>

-----------------------------------------------------------------------------
Doubled == IF 2 * delay < MaxBackoff THEN 2 * delay ELSE MaxBackoff

(* publish_once: scan_outbox, by modification time. *)
Scan ==
    /\ stage = "asleep"
    /\ pass' = Outbox
    /\ stage' = "next" /\ progress' = FALSE
    /\ UNCHANGED <<directory, delay, handed, arrivals, outboxFaults>>

(* The directory cannot be listed: run_loop prints the error. *)
ScanFails ==
    /\ stage = "asleep" /\ Fault
    /\ delay' = Doubled
    /\ UNCHANGED <<directory, pass, stage, progress, handed, arrivals>>

IsFirst(f) == f \in pass /\ \A g \in pass : f <= g
Whole(f) == f \notin foreign /\ f # writing

(* publish_file: the file is read and validate_message finds a message. *)
Validate(f) ==
    /\ stage = "next" /\ IsFirst(f) /\ Whole(f)
    /\ stage' = "valid"
    /\ UNCHANGED <<directory, pass, progress, delay, handed, arrivals, outboxFaults>>

(* Mutant: an invalid file ends the pass where it is. *)
StumbleOver(f) ==
    /\ stage = "next" /\ IsFirst(f) /\ ~Whole(f)
    /\ pass' = {}
    /\ UNCHANGED <<directory, stage, progress, delay, handed, arrivals, outboxFaults>>

(* Any exception of reading or checking a file moves it aside, from where  *)
(* nothing brings it back, and the loop goes on: the file is no message ...*)
MoveAside(f) ==
    /\ stage = "next" /\ IsFirst(f)
    /\ place' = [place EXCEPT ![f] = "quarantine"]
    /\ pass' = pass \ {f}
    /\ UNCHANGED <<foreign, writing, stage, progress, delay, handed, arrivals>>

Quarantine(f) == ~Whole(f) /\ MoveAside(f) /\ UNCHANGED outboxFaults

(* ... or it is one, and read_text fails. *)
Misread(f) == Whole(f) /\ Fault /\ MoveAside(f)

(* MqttClient.publish returns. With QoS 0 nothing comes back after         *)
(* CONNACK, and the message may be lost on its way.                        *)
HandOver(f) ==
    /\ stage = "valid" /\ IsFirst(f)
    /\ handed' = handed \cup {f}
    /\ \E n \in 0..1 : arrivals' = [arrivals EXCEPT ![f] = @ + n]
    /\ stage' = "handed"
    /\ UNCHANGED <<directory, pass, progress, delay, outboxFaults>>

(* Mutant: the file stays. *)
KeepFile(f) ==
    /\ stage = "handed" /\ IsFirst(f)
    /\ pass' = pass \ {f} /\ stage' = "next" /\ progress' = TRUE
    /\ UNCHANGED <<directory, delay, handed, arrivals, outboxFaults>>

(* path.unlink *)
Unlink(f) ==
    /\ stage = "handed" /\ IsFirst(f)
    /\ place' = [place EXCEPT ![f] = "gone"]
    /\ pass' = pass \ {f} /\ stage' = "next" /\ progress' = TRUE
    /\ UNCHANGED <<foreign, writing, delay, handed, arrivals, outboxFaults>>

(* The move aside, publish or unlink raises, publish before or after the   *)
(* message got through: the file stays for a later pass.                   *)
FailFile(f) ==
    /\ stage # "asleep" /\ IsFirst(f) /\ Fault
    /\ \E n \in IF stage = "valid" THEN 0..1 ELSE {0} :
         arrivals' = [arrivals EXCEPT ![f] = @ + n]
    /\ pass' = pass \ {f} /\ stage' = "next"
    /\ UNCHANGED <<directory, progress, delay, handed>>

(* run_loop *)
Sleep ==
    /\ stage = "next" /\ pass = {}
    /\ stage' = "asleep"
    /\ delay' = IF progress THEN Backoff ELSE Doubled
    /\ UNCHANGED <<directory, pass, progress, handed, arrivals, outboxFaults>>

(* systemd starts the publisher again. *)
Restart ==
    /\ stage # "asleep" /\ Fault
    /\ pass' = {} /\ stage' = "asleep" /\ progress' = FALSE /\ delay' = Backoff
    /\ UNCHANGED <<directory, handed, arrivals>>

PublisherStep == Scan \/ Sleep \/ \E f \in File : Validate(f) \/ Quarantine(f) \/ HandOver(f) \/ Unlink(f)
OutboxNext ==
    \/ \E f \in File : OpenTemporary(f) \/ CopyIn(f) \/ Misread(f) \/ FailFile(f)
    \/ Replace \/ AbandonWrite \/ PublisherStep \/ ScanFails \/ Restart

OutboxSpec == OutboxStart /\ [][OutboxNext]_outboxVars

-----------------------------------------------------------------------------
(* Messages that were set aside. *)
SetAside == {f \in File \ foreign : place[f] = "quarantine"}

(* A message leaves the outbox when publish() has returned for it. That it *)
(* is set aside instead, never to be sent, takes a failing call of its     *)
(* own: no order of the steps of generator and publisher, and no restart,  *)
(* makes a message pass for an invalid file                                *)
(* (factory_b_iot_publisher.py 155-168, factory_b_dummy_generator.py       *)
(* 138-150).                                                               *)
NothingDiscarded ==
    /\ \A f \in File : place[f] = "gone" => f \in handed
    /\ Cardinality(SetAside) <= outboxFaults

(* The arrivals of each message past its first. *)
Repeats == UNION {{f} \X (2..arrivals[f]) : f \in File}

(* Every repetition of a message is owed to an error or a restart: the     *)
(* idempotency key of docs/specs/iot_data_format.md:114 covers retries     *)
(* only.                                                                   *)
RepeatedByFaultsOnly == Cardinality(Repeats) <= outboxFaults

(* factory-dummy-outage-drill.sh:13, "publisher flushes backlog after      *)
(* resume": when the generator and the errors stop, the outbox drains,     *)
(* whatever lies in it.                                                    *)
BacklogDrains == <>[](Outbox = {})
=============================================================================

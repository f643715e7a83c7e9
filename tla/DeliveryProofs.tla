---------------------------- MODULE DeliveryProofs ----------------------------
(***************************************************************************)
(* Theorems about the two programs that pass messages on: the publisher of *)
(* a dummy factory (EdgeOutbox), for any number of files and faults, and   *)
(* the notifier, for every batch size, number of retries and length of the *)
(* stream.                                                                 *)
(***************************************************************************)
EXTENDS EdgeOutbox, Notifier, FiniteSetTheorems, SequenceTheorems, TLAPS

(* The invariant: what a step may rely on. The publisher looks only at     *)
(* files in the outbox, the one being written is still in outbox/tmp, and  *)
(* what is about to be unlinked was handed over.                           *)
DirectoryOK ==
    /\ place \in [File -> Place]
    /\ writing \in File \cup {0}
    /\ writing # 0 => place[writing] = "tmp"
PassOK ==
    /\ pass \subseteq File
    /\ \A f \in pass : place[f] = "outbox"
HandedOK == stage = "handed" => \A f \in File : IsFirst(f) => f \in handed
GoneOK == \A f \in File : place[f] = "gone" => f \in handed
OutboxInv == DirectoryOK /\ PassOK /\ HandedOK /\ GoneOK

(* There is one first file. *)
LEMMA OneFirst ==
    ASSUME PassOK, NEW f \in File, NEW g \in File, IsFirst(f), IsFirst(g)
    PROVE  f = g
BY DEF PassOK, IsFirst, File

LEMMA StartOK == OutboxStart => OutboxInv
BY DEF OutboxStart, OutboxInv, DirectoryOK, PassOK, HandedOK, GoneOK, Place, IsFirst, File

(* The generator changes no file in the outbox, and so none of a pass. *)
LEMMA GeneratorOK ==
    ASSUME OutboxInv, NEW f \in File,
           OpenTemporary(f) \/ CopyIn(f) \/ Replace \/ AbandonWrite
    PROVE  OutboxInv'
<1> USE DEF OutboxInv, publisher
<1>1. CASE OpenTemporary(f)
  <2>1. place[f] = "none" /\ place' = [place EXCEPT ![f] = "tmp"] /\ writing' = f
    BY <1>1 DEF OpenTemporary, IsNext
  <2>2. UNCHANGED <<pass, stage, handed, foreign>>
    BY <1>1 DEF OpenTemporary
  <2>3. DirectoryOK'
    BY <2>1 DEF DirectoryOK, Place
  <2>4. PassOK' /\ HandedOK'
    BY <2>1, <2>2 DEF PassOK, HandedOK, IsFirst, DirectoryOK
  <2>5. GoneOK'
    BY <2>1, <2>2 DEF GoneOK, DirectoryOK
  <2> QED BY <2>3, <2>4, <2>5
<1>2. CASE CopyIn(f)
  <2>1. /\ place[f] = "none" /\ place' = [place EXCEPT ![f] = "outbox"]
        /\ foreign' = foreign \cup {f}
    BY <1>2 DEF CopyIn, IsNext
  <2>2. UNCHANGED <<writing, pass, stage, handed>>
    BY <1>2 DEF CopyIn
  <2>3. DirectoryOK'
    BY <2>1, <2>2 DEF DirectoryOK, Place
  <2>4. PassOK' /\ HandedOK'
    BY <2>1, <2>2 DEF PassOK, HandedOK, IsFirst, DirectoryOK
  <2>5. GoneOK'
    BY <2>1, <2>2 DEF GoneOK, DirectoryOK
  <2> QED BY <2>3, <2>4, <2>5
<1>3. CASE Replace
  <2>1. /\ writing # 0 /\ place' = [place EXCEPT ![writing] = "outbox"]
        /\ writing' = 0
        /\ UNCHANGED <<pass, stage, handed, foreign>>
    BY <1>3 DEF Replace
  <2>2. DirectoryOK'
    BY <2>1 DEF DirectoryOK, Place
  <2>3. PassOK' /\ HandedOK'
    BY <2>1 DEF PassOK, HandedOK, IsFirst, DirectoryOK
  <2>4. GoneOK'
    BY <2>1 DEF GoneOK, DirectoryOK
  <2> QED BY <2>2, <2>3, <2>4
<1>4. CASE AbandonWrite
  <2>1. writing' = 0 /\ UNCHANGED <<place, pass, stage, handed, foreign>>
    BY <1>4 DEF AbandonWrite
  <2> QED BY <2>1 DEF DirectoryOK, PassOK, HandedOK, IsFirst, GoneOK
<1> QED BY <1>1, <1>2, <1>3, <1>4

(* Steps of the publisher that move no file. *)
LEMMA LookingOK ==
    ASSUME OutboxInv, NEW f \in File,
           Scan \/ ScanFails \/ Sleep \/ Restart \/ Validate(f) \/ HandOver(f) \/ FailFile(f)
    PROVE  OutboxInv'
<1> USE DEF OutboxInv, directory
<1>1. UNCHANGED <<place, writing, foreign>> /\ handed \subseteq handed'
  BY DEF Scan, ScanFails, Sleep, Restart, Validate, HandOver, FailFile
<1>2. DirectoryOK' /\ GoneOK'
  BY <1>1 DEF DirectoryOK, GoneOK
<1>3. pass' = Outbox \/ pass' \subseteq pass
  BY DEF Scan, ScanFails, Sleep, Restart, Validate, HandOver, FailFile
<1>4. PassOK'
  BY <1>1, <1>3 DEF PassOK, Outbox
<1>5. HandedOK'
  <2>1. CASE HandOver(f)
    <3>1. handed' = handed \cup {f} /\ pass' = pass /\ IsFirst(f)
      BY <2>1 DEF HandOver
    <3>2. SUFFICES ASSUME NEW g \in File, IsFirst(g)' PROVE g \in handed'
      BY DEF HandedOK
    <3>3. IsFirst(g)
      BY <3>1, <3>2 DEF IsFirst
    <3> QED BY <3>1, <3>3, OneFirst
  <2>2. CASE Scan \/ ScanFails \/ Sleep \/ Restart \/ Validate(f) \/ FailFile(f)
    BY <2>2 DEF HandedOK, IsFirst, Scan, ScanFails, Sleep, Restart, Validate, FailFile
  <2> QED BY <2>1, <2>2
<1> QED BY <1>2, <1>4, <1>5

(* A file leaves after it was handed over, or is set aside. *)
LEMMA MovingOK ==
    ASSUME OutboxInv, NEW f \in File, Quarantine(f) \/ Misread(f) \/ Unlink(f)
    PROVE  OutboxInv'
<1> USE DEF OutboxInv
<1>1. f \in pass /\ pass' = pass \ {f} /\ stage' = "next"
  BY DEF Quarantine, Misread, MoveAside, Unlink, IsFirst
<1>2. UNCHANGED <<writing, foreign, handed>>
  BY DEF Quarantine, Misread, MoveAside, Unlink
<1>3. place[f] = "outbox" /\ f # writing
  BY <1>1 DEF PassOK, DirectoryOK, File
<1>4. CASE Quarantine(f) \/ Misread(f)
  <2>1. place' = [place EXCEPT ![f] = "quarantine"]
    BY <1>4 DEF Quarantine, Misread, MoveAside
  <2>2. DirectoryOK'
    BY <2>1, <1>2, <1>3 DEF DirectoryOK, Place
  <2>3. PassOK' /\ HandedOK'
    BY <2>1, <1>1 DEF PassOK, HandedOK, DirectoryOK
  <2>4. GoneOK'
    BY <2>1, <1>2 DEF GoneOK, DirectoryOK
  <2> QED BY <2>2, <2>3, <2>4
<1>5. CASE Unlink(f)
  <2>1. place' = [place EXCEPT ![f] = "gone"] /\ f \in handed
    BY <1>5 DEF Unlink, HandedOK
  <2>2. DirectoryOK'
    BY <2>1, <1>2, <1>3 DEF DirectoryOK, Place
  <2>3. PassOK' /\ HandedOK'
    BY <2>1, <1>1 DEF PassOK, HandedOK, DirectoryOK
  <2>4. GoneOK'
    BY <2>1, <1>2 DEF GoneOK, DirectoryOK
  <2> QED BY <2>2, <2>3, <2>4
<1> QED BY <1>4, <1>5

LEMMA StutterOK == OutboxInv /\ UNCHANGED outboxVars => OutboxInv'
BY DEF OutboxInv, outboxVars, directory, publisher, DirectoryOK, PassOK, HandedOK, IsFirst, GoneOK

LEMMA StepOK == OutboxInv /\ [OutboxNext]_outboxVars => OutboxInv'
<1> SUFFICES ASSUME OutboxInv, [OutboxNext]_outboxVars PROVE OutboxInv'
  OBVIOUS
<1>1. ASSUME NEW f \in File, OpenTemporary(f) \/ CopyIn(f) PROVE OutboxInv'
  BY <1>1, GeneratorOK
<1>2. ASSUME NEW f \in File, FailFile(f) \/ Validate(f) \/ HandOver(f) PROVE OutboxInv'
  BY <1>2, LookingOK
<1>3. ASSUME NEW f \in File, Quarantine(f) \/ Misread(f) \/ Unlink(f) PROVE OutboxInv'
  BY <1>3, MovingOK
<1>4. CASE Replace \/ AbandonWrite
  <2>1. writing # 0
    BY <1>4 DEF Replace, AbandonWrite
  <2>2. PICK f \in File : f = writing
    BY <2>1 DEF OutboxInv, DirectoryOK
  <2> QED BY <1>4, <2>2, GeneratorOK
<1>5. CASE Scan \/ ScanFails \/ Sleep \/ Restart
  <2>1. CASE File = {}
    <3>1. pass' \subseteq File /\ UNCHANGED <<place, writing, foreign>>
      BY <1>5 DEF Scan, ScanFails, Sleep, Restart, Outbox, OutboxInv, PassOK, directory
    <3> QED BY <2>1, <3>1 DEF OutboxInv, DirectoryOK, PassOK, HandedOK, GoneOK
  <2>2. CASE File # {}
    <3>1. PICK f \in File : TRUE
      BY <2>2
    <3> QED BY <1>5, <3>1, LookingOK
  <2> QED BY <2>1, <2>2
<1> QED BY <1>1, <1>2, <1>3, <1>4, <1>5, StutterOK DEF OutboxNext, PublisherStep

(* The messages set aside. The file being written is not in the outbox, so *)
(* what is set aside without a fault is no message.                        *)
AsideOK == outboxFaults \in Nat /\ Cardinality(SetAside) <= outboxFaults

LEMMA FilesFinite == IsFiniteSet(File) /\ IsFiniteSet(SetAside) /\ Cardinality(SetAside) \in Nat
<1>1. IsFiniteSet(File)
  BY OutboxAssumption, FS_Interval DEF File
<1> QED BY <1>1, FS_Subset, FS_CardinalityType DEF SetAside

(* A set that gains at most one element. *)
LEMMA OneMore ==
    ASSUME NEW S, IsFiniteSet(S), NEW x, NEW T, T \subseteq S \cup {x}
    PROVE  IsFiniteSet(T) /\ Cardinality(T) <= Cardinality(S) + 1 /\ Cardinality(T) \in Nat
<1>1. /\ IsFiniteSet(S \cup {x})
      /\ Cardinality(S \cup {x}) <= Cardinality(S) + 1
      /\ Cardinality(S \cup {x}) \in Nat /\ Cardinality(S) \in Nat
  BY FS_AddElement, FS_CardinalityType
<1>2. IsFiniteSet(T) /\ Cardinality(T) <= Cardinality(S \cup {x}) /\ Cardinality(T) \in Nat
  BY <1>1, FS_Subset, FS_CardinalityType
<1> QED BY <1>1, <1>2

LEMMA MisreadAside ==
    ASSUME OutboxInv, AsideOK, NEW f \in File, Misread(f)
    PROVE  AsideOK'
<1>1. place' = [place EXCEPT ![f] = "quarantine"] /\ foreign' = foreign /\ outboxFaults' = outboxFaults + 1
  BY DEF Misread, MoveAside, Fault
<1>2. SetAside' \subseteq SetAside \cup {f}
  BY <1>1 DEF SetAside, OutboxInv, DirectoryOK
<1>3. Cardinality(SetAside') <= Cardinality(SetAside) + 1 /\ Cardinality(SetAside') \in Nat
  BY <1>2, FilesFinite, OneMore
<1> QED BY <1>1, <1>3, FilesFinite DEF AsideOK

LEMMA AsideStep == OutboxInv /\ AsideOK /\ [OutboxNext]_outboxVars => AsideOK'
<1> SUFFICES ASSUME OutboxInv, AsideOK, [OutboxNext]_outboxVars,
                    \A f \in File : ~Misread(f)
             PROVE  AsideOK'
  BY MisreadAside
<1> USE DEF OutboxInv, DirectoryOK
<1>1. outboxFaults' \in Nat /\ outboxFaults <= outboxFaults'
  BY DEF AsideOK, OutboxNext, PublisherStep, outboxVars, OpenTemporary, CopyIn, FailFile, Replace,
         AbandonWrite, Scan, ScanFails, Sleep, Validate, Quarantine, HandOver, Unlink, Restart, Fault
<1>2. SetAside' \subseteq SetAside
  <2>1. ASSUME NEW f \in File, OpenTemporary(f) \/ CopyIn(f) PROVE SetAside' \subseteq SetAside
    BY <2>1 DEF OpenTemporary, CopyIn, SetAside
  <2>2. ASSUME NEW f \in File, Quarantine(f) PROVE SetAside' \subseteq SetAside
    <3>1. f \in foreign
      BY <2>2 DEF Quarantine, MoveAside, Whole, IsFirst, PassOK, File
    <3> QED BY <2>2, <3>1 DEF Quarantine, MoveAside, SetAside
  <2>3. ASSUME NEW f \in File, Unlink(f) PROVE SetAside' \subseteq SetAside
    BY <2>3 DEF Unlink, SetAside
  <2>4. CASE Replace
    BY <2>4 DEF Replace, SetAside
  <2>5. CASE UNCHANGED <<place, foreign>>
    BY <2>5 DEF SetAside
  <2> QED BY <2>1, <2>2, <2>3, <2>4, <2>5
        DEF OutboxNext, PublisherStep, outboxVars, directory, FailFile, AbandonWrite, Scan, ScanFails,
            Sleep, Validate, HandOver, Restart
<1>3. Cardinality(SetAside') <= Cardinality(SetAside) /\ Cardinality(SetAside') \in Nat
  BY <1>2, FilesFinite, FS_Subset, FS_CardinalityType
<1> QED BY <1>1, <1>3, FilesFinite DEF AsideOK

(* factory_b_iot_publisher.py 155-168: a message leaves the outbox only    *)
(* when publish() has returned for it, and at most as many messages are    *)
(* set aside as calls failed, for any number of files, errors and restarts *)
(* of both services.                                                       *)
THEOREM DiscardsNothing == OutboxSpec => []NothingDiscarded
<1>1. OutboxStart => AsideOK
  <2> SUFFICES ASSUME OutboxStart PROVE AsideOK
    OBVIOUS
  <2>1. SetAside = {}
    BY DEF OutboxStart, SetAside
  <2> QED BY <2>1, FS_EmptySet DEF OutboxStart, AsideOK
<1>2. OutboxInv /\ AsideOK => NothingDiscarded
  BY DEF OutboxInv, GoneOK, AsideOK, NothingDiscarded
<1> QED BY <1>1, <1>2, StartOK, StepOK, AsideStep, PTL DEF OutboxSpec

-----------------------------------------------------------------------------
(* Files of which a pass to come may publish a message that has arrived    *)
(* already. Each is owed to a fault, as each repetition is, and publishing *)
(* it again turns the one into the other.                                  *)
Pending ==
    {f \in File : place[f] = "outbox" /\ arrivals[f] # 0 /\ ~(stage = "handed" /\ IsFirst(f))}

ArrivalsOK ==
    /\ arrivals \in [File -> Nat]
    /\ \A f \in File : place[f] \in {"none", "tmp"} => arrivals[f] = 0

Owed ==
    /\ outboxFaults \in Nat
    /\ IsFiniteSet(Repeats)
    /\ Cardinality(Repeats) + Cardinality(Pending) <= outboxFaults

RepeatInv == OutboxInv /\ ArrivalsOK /\ Owed

LEMMA PendingFinite == IsFiniteSet(Pending) /\ Cardinality(Pending) \in Nat
BY FilesFinite, FS_Subset, FS_CardinalityType DEF Pending

LEMMA StartOwed == OutboxStart => RepeatInv
<1> SUFFICES ASSUME OutboxStart PROVE RepeatInv
  OBVIOUS
<1>1. ArrivalsOK
  BY DEF OutboxStart, ArrivalsOK
<1>2. Pending = {}
  BY DEF OutboxStart, Pending
<1>3. Repeats = {}
  BY DEF OutboxStart, Repeats
<1>4. Owed
  BY <1>2, <1>3, FS_EmptySet DEF OutboxStart, Owed
<1> QED BY <1>1, <1>4, StartOK DEF RepeatInv

(* Where no message arrives and no file becomes pending, nothing is owed   *)
(* that was not before.                                                    *)
LEMMA QuietOwed ==
    ASSUME RepeatInv, arrivals' = arrivals, Pending' \subseteq Pending, outboxFaults' \in Nat,
           outboxFaults <= outboxFaults'
    PROVE  Owed'
<1>1. Repeats' = Repeats
  BY DEF Repeats
<1>2. Cardinality(Pending') <= Cardinality(Pending) /\ Cardinality(Pending') \in Nat
  BY PendingFinite, FS_Subset, FS_CardinalityType
<1>3. Cardinality(Repeats) \in Nat
  BY FS_CardinalityType DEF RepeatInv, Owed
<1> QED BY <1>1, <1>2, <1>3, PendingFinite DEF RepeatInv, Owed

(* An arrival repeats its message if it is not the first. *)
LEMMA ArrivalRepeats ==
    ASSUME ArrivalsOK, NEW f \in File, NEW n \in 0..1,
           arrivals' = [arrivals EXCEPT ![f] = @ + n]
    PROVE  /\ Repeats' \subseteq Repeats \cup {<<f, arrivals[f] + 1>>}
           /\ arrivals[f] = 0 \/ n = 0 => Repeats' = Repeats
<1>1. \A g \in File : arrivals'[g] = IF g = f THEN arrivals[g] + n ELSE arrivals[g]
  BY DEF ArrivalsOK
<1>2. arrivals[f] \in Nat
  BY DEF ArrivalsOK
<1>3. 2..(arrivals[f] + n) \subseteq (2..arrivals[f]) \cup {arrivals[f] + 1}
  BY <1>2
<1>4. arrivals[f] = 0 \/ n = 0 => 2..(arrivals[f] + n) = 2..arrivals[f]
  BY <1>2
<1>5. ASSUME NEW c \in Repeats' PROVE c \in Repeats \cup {<<f, arrivals[f] + 1>>}
  <2>1. PICK g \in File : c \in {g} \X (2..arrivals'[g])
    BY <1>5 DEF Repeats
  <2>2. CASE g = f
    BY <2>1, <2>2, <1>1, <1>3 DEF Repeats
  <2>3. CASE g # f
    BY <2>1, <2>3, <1>1 DEF Repeats
  <2> QED BY <2>2, <2>3
<1>6. ASSUME arrivals[f] = 0 \/ n = 0 PROVE Repeats' = Repeats
  <2>1. \A g \in File : 2..arrivals'[g] = 2..arrivals[g]
    BY <1>1, <1>4, <1>6
  <2> QED BY <2>1 DEF Repeats
<1> QED BY <1>5, <1>6

(* The generator makes no file pending, and no file leaves the outbox      *)
(* other than for good.                                                    *)
LEMMA DirectoryOwed ==
    ASSUME RepeatInv, NEW f \in File,
           \/ OpenTemporary(f) \/ CopyIn(f) \/ Quarantine(f) \/ Misread(f) \/ Unlink(f)
           \/ Replace \/ AbandonWrite
    PROVE  ArrivalsOK' /\ Owed'
<1> USE DEF RepeatInv, OutboxInv
<1>1. arrivals' = arrivals /\ outboxFaults' \in Nat /\ outboxFaults <= outboxFaults'
  BY DEF OpenTemporary, CopyIn, Quarantine, Misread, MoveAside, Unlink, Replace, AbandonWrite, Fault, Owed
<1>2. ASSUME NEW g \in File, place'[g] # place[g]
      PROVE  /\ place'[g] \in {"outbox", "tmp"} => arrivals[g] = 0
             /\ place'[g] # "none"
  <2>1. CASE OpenTemporary(f) \/ CopyIn(f)
    BY <1>2, <2>1 DEF OpenTemporary, CopyIn, IsNext, DirectoryOK, ArrivalsOK
  <2>2. CASE Quarantine(f) \/ Misread(f) \/ Unlink(f)
    BY <1>2, <2>2 DEF Quarantine, Misread, MoveAside, Unlink, DirectoryOK
  <2>3. CASE Replace
    BY <1>2, <2>3 DEF Replace, DirectoryOK, ArrivalsOK
  <2>4. CASE AbandonWrite
    BY <1>2, <2>4 DEF AbandonWrite
  <2> QED BY <2>1, <2>2, <2>3, <2>4
<1>3. ArrivalsOK'
  BY <1>1, <1>2 DEF ArrivalsOK
<1>4. ASSUME NEW g \in File, stage = "handed", IsFirst(g), place'[g] = "outbox"
      PROVE  stage' = "handed" /\ IsFirst(g)'
  <2>1. CASE UNCHANGED <<pass, stage>>
    BY <1>4, <2>1 DEF IsFirst
  <2>2. CASE Unlink(f)
    <3>1. f = g
      BY <1>4, <2>2, OneFirst DEF Unlink
    <3> QED BY <1>4, <2>2, <3>1 DEF Unlink, DirectoryOK
  <2>3. ~Quarantine(f) /\ ~Misread(f)
    BY <1>4 DEF Quarantine, Misread, MoveAside
  <2> QED BY <2>1, <2>2, <2>3
        DEF OpenTemporary, CopyIn, Replace, AbandonWrite, publisher
<1>5. Pending' \subseteq Pending
  BY <1>1, <1>2, <1>4 DEF Pending, ArrivalsOK
<1> QED BY <1>1, <1>3, <1>5, QuietOwed

(* A scan, the check of a file and a rest make no file pending. *)
LEMMA PauseOwed ==
    ASSUME RepeatInv, NEW f \in File, Scan \/ Sleep \/ Validate(f)
    PROVE  ArrivalsOK' /\ Owed'
<1>1. UNCHANGED <<place, arrivals, outboxFaults>> /\ stage # "handed"
  BY DEF Scan, Sleep, Validate, directory
<1>2. ArrivalsOK'
  BY <1>1 DEF RepeatInv, ArrivalsOK
<1>3. Pending' \subseteq Pending
  BY <1>1 DEF Pending
<1> QED BY <1>1, <1>2, <1>3, QuietOwed DEF RepeatInv, Owed

(* publish() returns: the file is pending no longer, and if it was, the    *)
(* message may arrive again.                                               *)
LEMMA HandOverOwed ==
    ASSUME RepeatInv, NEW f \in File, HandOver(f)
    PROVE  ArrivalsOK' /\ Owed'
<1> USE DEF RepeatInv, OutboxInv
<1>1. /\ stage = "valid" /\ IsFirst(f) /\ stage' = "handed" /\ IsFirst(f)'
      /\ UNCHANGED <<place, outboxFaults>>
  BY DEF HandOver, directory, IsFirst
<1>2. PICK n \in 0..1 : arrivals' = [arrivals EXCEPT ![f] = @ + n]
  BY DEF HandOver
<1>3. place[f] = "outbox"
  BY <1>1 DEF PassOK, IsFirst
<1>4. ArrivalsOK'
  BY <1>1, <1>2, <1>3 DEF ArrivalsOK
<1>5. Pending' \subseteq Pending \ {f}
  BY <1>1, <1>2 DEF Pending, ArrivalsOK
<1>6. Cardinality(Repeats) \in Nat /\ IsFiniteSet(Repeats)
  BY FS_CardinalityType DEF Owed
<1>7. CASE arrivals[f] = 0
  <2>1. Repeats' = Repeats
    BY <1>2, <1>7, ArrivalRepeats
  <2>2. Cardinality(Pending') <= Cardinality(Pending) /\ Cardinality(Pending') \in Nat
    BY <1>5, PendingFinite, FS_Subset, FS_CardinalityType
  <2> QED BY <1>1, <1>4, <1>6, <2>1, <2>2, PendingFinite DEF Owed
<1>8. CASE arrivals[f] # 0
  <2>1. /\ IsFiniteSet(Repeats') /\ Cardinality(Repeats') \in Nat
        /\ Cardinality(Repeats') <= Cardinality(Repeats) + 1
    BY <1>2, <1>6, ArrivalRepeats, OneMore
  <2>2. f \in Pending
    BY <1>1, <1>3, <1>8 DEF Pending
  <2>3. /\ Cardinality(Pending \ {f}) = Cardinality(Pending) - 1
        /\ IsFiniteSet(Pending \ {f})
    BY <2>2, PendingFinite, FS_RemoveElement
  <2>4. /\ Cardinality(Pending') <= Cardinality(Pending \ {f})
        /\ Cardinality(Pending') \in Nat
    BY <1>5, <2>3, FS_Subset, FS_CardinalityType
  <2> QED BY <1>1, <1>4, <1>6, <2>1, <2>3, <2>4, PendingFinite DEF Owed
<1> QED BY <1>7, <1>8

(* An error after publish() makes the file pending; one of publish() makes *)
(* it pending or, if it was, may repeat the message. A restart after       *)
(* publish() makes the file pending. Each is one fault.                    *)
LEMMA FailureOwed ==
    ASSUME RepeatInv, NEW f \in File, FailFile(f)
    PROVE  ArrivalsOK' /\ Owed'
<1> USE DEF RepeatInv, OutboxInv
<1>1. /\ IsFirst(f) /\ stage' = "next" /\ place' = place /\ stage # "asleep"
      /\ outboxFaults' = outboxFaults + 1
  BY DEF FailFile, directory, Fault
<1>2. PICK n \in 0..1 : arrivals' = [arrivals EXCEPT ![f] = @ + n] /\ (stage # "valid" => n = 0)
  <2>1. PICK n \in IF stage = "valid" THEN 0..1 ELSE {0} : arrivals' = [arrivals EXCEPT ![f] = @ + n]
    BY DEF FailFile
  <2>2. n \in 0..1 /\ (stage # "valid" => n = 0)
    BY <2>1
  <2> QED BY <2>1, <2>2
<1>3. place[f] = "outbox"
  BY <1>1 DEF PassOK, IsFirst
<1>4. ArrivalsOK'
  BY <1>1, <1>2, <1>3 DEF ArrivalsOK
<1>5. Pending' \subseteq Pending \cup {f}
  <2>1. ASSUME NEW g \in File, stage = "handed", IsFirst(g) PROVE g = f
    BY <1>1, <2>1, OneFirst
  <2> QED BY <1>1, <1>2, <2>1 DEF Pending, ArrivalsOK
<1>6. Cardinality(Repeats) \in Nat /\ IsFiniteSet(Repeats)
  BY FS_CardinalityType DEF Owed
<1>7. CASE stage # "valid" \/ arrivals[f] = 0
  <2>1. Repeats' = Repeats
    BY <1>2, <1>7, ArrivalRepeats
  <2>2. Cardinality(Pending') <= Cardinality(Pending) + 1 /\ Cardinality(Pending') \in Nat
    BY <1>5, PendingFinite, OneMore
  <2> QED BY <1>1, <1>4, <1>6, <2>1, <2>2, PendingFinite DEF Owed
<1>8. CASE stage = "valid" /\ arrivals[f] # 0
  <2>1. /\ IsFiniteSet(Repeats') /\ Cardinality(Repeats') \in Nat
        /\ Cardinality(Repeats') <= Cardinality(Repeats) + 1
    BY <1>2, <1>6, ArrivalRepeats, OneMore
  <2>2. f \in Pending
    BY <1>1, <1>3, <1>8 DEF Pending
  <2>3. Cardinality(Pending') <= Cardinality(Pending) /\ Cardinality(Pending') \in Nat
    BY <1>5, <2>2, PendingFinite, FS_Subset, FS_CardinalityType
  <2> QED BY <1>1, <1>4, <1>6, <2>1, <2>3, PendingFinite DEF Owed
<1> QED BY <1>7, <1>8

LEMMA RestartOwed == RepeatInv /\ Restart => ArrivalsOK' /\ Owed'
<1> SUFFICES ASSUME RepeatInv, Restart PROVE ArrivalsOK' /\ Owed'
  OBVIOUS
<1>1. /\ UNCHANGED <<place, arrivals>> /\ stage' = "asleep"
      /\ outboxFaults' = outboxFaults + 1
  BY DEF Restart, directory, Fault
<1>2. Repeats' = Repeats
  BY <1>1 DEF Repeats
<1>3. PICK g : Pending' \subseteq Pending \cup {g}
  <2>1. CASE \E f \in File : IsFirst(f)
    <3>1. PICK f \in File : IsFirst(f)
      BY <2>1
    <3>2. \A g \in File : IsFirst(g) => g = f
      BY <3>1, OneFirst DEF RepeatInv, OutboxInv
    <3>3. Pending' \subseteq Pending \cup {f}
      BY <1>1, <3>2 DEF Pending
    <3> QED BY <3>3
  <2>2. CASE ~\E f \in File : IsFirst(f)
    BY <1>1, <2>2 DEF Pending
  <2> QED BY <2>1, <2>2
<1>4. Cardinality(Pending') <= Cardinality(Pending) + 1 /\ Cardinality(Pending') \in Nat
  BY <1>3, PendingFinite, OneMore
<1>5. Cardinality(Repeats) \in Nat
  BY FS_CardinalityType DEF RepeatInv, Owed
<1> QED BY <1>1, <1>2, <1>4, <1>5, PendingFinite DEF RepeatInv, Owed, ArrivalsOK

LEMMA RepeatStep == RepeatInv /\ [OutboxNext]_outboxVars => RepeatInv'
<1> SUFFICES ASSUME RepeatInv, [OutboxNext]_outboxVars PROVE ArrivalsOK' /\ Owed'
  BY StepOK DEF RepeatInv
<1>1. ASSUME NEW f \in File, OpenTemporary(f) \/ CopyIn(f) \/ Quarantine(f) \/ Misread(f) \/ Unlink(f)
      PROVE  ArrivalsOK' /\ Owed'
  BY <1>1, DirectoryOwed
<1>2. ASSUME NEW f \in File, FailFile(f) PROVE ArrivalsOK' /\ Owed'
  BY <1>2, FailureOwed
<1>3. ASSUME NEW f \in File, HandOver(f) PROVE ArrivalsOK' /\ Owed'
  BY <1>3, HandOverOwed
<1>4. ASSUME NEW f \in File, Validate(f) PROVE ArrivalsOK' /\ Owed'
  BY <1>4, PauseOwed
<1>5. CASE Replace \/ AbandonWrite
  <2>1. writing \in File
    BY <1>5 DEF Replace, AbandonWrite, RepeatInv, OutboxInv, DirectoryOK
  <2> QED BY <1>5, <2>1, DirectoryOwed
<1>6. CASE Scan \/ ScanFails \/ Sleep \/ UNCHANGED outboxVars
  <2>1. /\ UNCHANGED <<place, arrivals>>
        /\ outboxFaults' \in Nat /\ outboxFaults <= outboxFaults'
    BY <1>6 DEF Scan, ScanFails, Sleep, outboxVars, directory, Fault, RepeatInv, Owed
  <2>2. Pending' \subseteq Pending
    <3>1. CASE UNCHANGED <<pass, stage>>
      BY <2>1, <3>1 DEF Pending, IsFirst
    <3>2. CASE Scan \/ Sleep
      BY <2>1, <3>2 DEF Pending, Scan, Sleep
    <3> QED BY <1>6, <3>1, <3>2 DEF outboxVars, publisher, ScanFails
  <2> QED BY <2>1, <2>2, QuietOwed DEF RepeatInv, ArrivalsOK
<1>7. CASE Restart
  BY <1>7, RestartOwed
<1> QED BY <1>1, <1>2, <1>3, <1>4, <1>5, <1>6, <1>7 DEF OutboxNext, PublisherStep

(* factory_b_iot_publisher.py 155-182: a message reaches IoT Core again    *)
(* only after an error or a restart, and not more often than there were    *)
(* errors and restarts, for any number of both and of files.               *)
THEOREM RepeatsAreOwed == OutboxSpec => []RepeatedByFaultsOnly
<1>1. RepeatInv => RepeatedByFaultsOnly
  <2> SUFFICES ASSUME RepeatInv PROVE RepeatedByFaultsOnly
    OBVIOUS
  <2>1. Cardinality(Repeats) \in Nat
    BY FS_CardinalityType DEF RepeatInv, Owed
  <2> QED BY <2>1, PendingFinite DEF RepeatInv, Owed, RepeatedByFaultsOnly
<1> QED BY <1>1, StartOwed, RepeatStep, PTL DEF OutboxSpec

-----------------------------------------------------------------------------
(* What the invocation has passed it has published. *)
Passed ==
    next # 0 =>
        /\ work # <<>>
        /\ next \in work[1].from..(work[1].to + 1)
        /\ \A i \in work[1].from..(next - 1) : Relevant(i) => i \in published

NInv == NotifierTypeOK /\ Passed /\ NothingSkipped

USE NotifierAssumption DEF Index

LEMMA InitNInv == NotifierInit => NInv
BY DEF NotifierInit, NInv, NotifierTypeOK, InPlace, Passed, NothingSkipped

(* The first part and the ones behind it. *)
LEMMA RestInPlace ==
    ASSUME NEW w, NEW pos \in Nat, NEW n \in Nat, InPlace(w, pos, n), w # <<>>
    PROVE  /\ Head(w) = w[1] /\ w[1] \in Part
           /\ w[1].from \in Index /\ w[1].to \in Index /\ w[1].tries \in 0..MaxRetries
           /\ w[1].from = pos + 1 /\ pos < w[1].to /\ w[1].to <= n
           /\ InPlace(Tail(w), w[1].to, n)
<1>1. w \in Seq(Part)
  BY DEF InPlace
<1>2. Len(w) \in Nat /\ Len(w) >= 1
  BY <1>1
<1>3. Head(w) = w[1] /\ w[1] \in Part
  BY <1>1, <1>2
<1>4. w[1].from \in Index /\ w[1].to \in Index /\ w[1].tries \in 0..MaxRetries
  BY <1>3 DEF Part
<1>5. w[1].from = pos + 1 /\ w[1].from <= w[1].to /\ w[1].to <= n
  BY <1>2 DEF InPlace
<1>6. Tail(w) \in Seq(Part) /\ Len(Tail(w)) = Len(w) - 1
      /\ \A p \in 1..Len(Tail(w)) : Tail(w)[p] = w[p + 1]
  BY <1>1, HeadTailProperties
<1> DEFINE v == Tail(w)
<1> HIDE DEF v
<1>7. ASSUME NEW p \in 1..Len(v)
      PROVE  /\ v[p].from = (IF p = 1 THEN w[1].to ELSE v[p - 1].to) + 1
             /\ v[p].from <= v[p].to /\ v[p].to <= n
  <2>1. v[p] = w[p + 1] /\ p + 1 \in 1..Len(w) /\ p + 1 # 1 /\ (p + 1) - 1 = p
    BY <1>2, <1>6 DEF v
  <2>2. w[p + 1].from = w[p].to + 1 /\ w[p + 1].from <= w[p + 1].to /\ w[p + 1].to <= n
    BY <2>1 DEF InPlace
  <2>3. p # 1 => v[p - 1] = w[p]
    BY <1>2, <1>6 DEF v
  <2> QED
    BY <2>1, <2>2, <2>3
<1>8. InPlace(v, w[1].to, n)
  BY <1>6, <1>7 DEF InPlace, v
<1> QED
  BY <1>3, <1>4, <1>5, <1>8 DEF v

(* A part put in front. *)
LEMMA PrependInPlace ==
    ASSUME NEW w, NEW pos \in Nat, NEW n \in Nat, NEW part \in Part,
           InPlace(w, part.to, n), part.from = pos + 1, part.from <= part.to, part.to <= n
    PROVE  InPlace(<<part>> \o w, pos, n)
<1>1. w \in Seq(Part) /\ <<part>> \in Seq(Part) /\ Len(<<part>>) = 1
  BY DEF InPlace
<1> DEFINE v == <<part>> \o w
<1>2. v \in Seq(Part) /\ Len(v) = 1 + Len(w)
      /\ \A p \in 1..(1 + Len(w)) : v[p] = IF p <= 1 THEN <<part>>[p] ELSE w[p - 1]
  BY <1>1, ConcatProperties
<1> HIDE DEF v
<1>3. Len(w) \in Nat
  BY <1>1
<1>4. v[1] = part
  BY <1>2, <1>3
<1>5. \A p \in 2..Len(v) : v[p] = w[p - 1] /\ p - 1 \in 1..Len(w)
  BY <1>2, <1>3
<1>6. ASSUME NEW p \in 1..Len(v)
      PROVE  /\ v[p].from = (IF p = 1 THEN pos ELSE v[p - 1].to) + 1
             /\ v[p].from <= v[p].to /\ v[p].to <= n
  <2>1. CASE p = 1
    BY <2>1, <1>4
  <2>2. CASE p = 2
    BY <2>2, <1>4, <1>5 DEF InPlace
  <2>3. CASE p > 2
    <3>1. v[p] = w[p - 1] /\ v[p - 1] = w[p - 2] /\ p - 1 \in 1..Len(w) /\ p - 1 # 1
          /\ (p - 1) - 1 = p - 2
      BY <2>3, <1>2, <1>3, <1>5
    <3> QED
      BY <2>3, <3>1 DEF InPlace
  <2> QED
    BY <2>1, <2>2, <2>3, <1>2, <1>3
<1> QED
  BY <1>2, <1>6 DEF InPlace, v

LEMMA SplitInPlace ==
    ASSUME NEW w, NEW pos \in Nat, NEW n \in Nat, InPlace(w, pos, n), w # <<>>,
           w[1].from < w[1].to
    PROVE  InPlace(Halves(w[1]) \o Tail(w), pos, n)
<1> DEFINE part == w[1]
           middle == (part.from + part.to) \div 2
           a == [part EXCEPT !.to = middle]
           b == [part EXCEPT !.from = middle + 1]
<1>1. part \in Part /\ part.from \in Index /\ part.to \in Index
      /\ part.from = pos + 1 /\ part.to <= n /\ InPlace(Tail(w), part.to, n)
  BY RestInPlace
<1>2. part.from <= middle /\ middle < part.to /\ middle \in Index /\ middle + 1 \in Index
  BY <1>1
<1>3. a \in Part /\ b \in Part /\ a.from = part.from /\ a.to = middle
      /\ b.from = middle + 1 /\ b.to = part.to
  BY <1>1, <1>2 DEF Part
<1>4. Halves(w[1]) \o Tail(w) = <<a>> \o (<<b>> \o Tail(w))
  <2>1. <<a>> \in Seq(Part) /\ <<b>> \in Seq(Part) /\ Tail(w) \in Seq(Part)
    BY <1>1, <1>3 DEF InPlace
  <2>2. Halves(w[1]) = <<a, b>>
    BY DEF Halves
  <2> HIDE DEF a, b
  <2>3. <<a>> \o <<b>> = <<a, b>>
    <3> DEFINE s == <<a>> \o <<b>>
               t == <<a, b>>
    <3>1. s \in Seq(Part) /\ Len(s) = 2 /\ s[1] = a /\ s[2] = b
      BY <2>1, ConcatProperties
    <3>2. t \in Seq(Part) /\ Len(t) = 2 /\ t[1] = a /\ t[2] = b
      BY <1>3 DEF a, b
    <3> HIDE DEF s, t
    <3>3. s = t
      BY <3>1, <3>2, SeqEqual
    <3> QED
      BY <3>3 DEF s, t
  <2>4. (<<a>> \o <<b>>) \o Tail(w) = <<a>> \o (<<b>> \o Tail(w))
    BY <2>1, ConcatAssociative
  <2> QED
    BY <2>2, <2>3, <2>4
<1> HIDE DEF a, b, middle, part
<1>5. InPlace(<<b>> \o Tail(w), middle, n)
  BY <1>1, <1>2, <1>3, PrependInPlace
<1>6. InPlace(<<a>> \o (<<b>> \o Tail(w)), pos, n)
  BY <1>1, <1>2, <1>3, <1>5, PrependInPlace
<1> QED
  BY <1>4, <1>6

LEMMA FirstPart ==
    ASSUME NotifierTypeOK, work # <<>>
    PROVE  /\ Head(work) = work[1] /\ work[1] \in Part
           /\ work[1].from \in Index /\ work[1].to \in Index
           /\ work[1].tries \in 0..MaxRetries
           /\ work[1].from = position + 1
           /\ position < work[1].to /\ work[1].to <= Len(stream)
           /\ InPlace(Tail(work), work[1].to, Len(stream))
<1>1. position \in Nat /\ Len(stream) \in Nat /\ InPlace(work, position, Len(stream))
  BY DEF NotifierTypeOK
<1> QED
  BY <1>1, RestInPlace

LEMMA NextNInv == NInv /\ [NotifierNext]_notifierVars => NInv'
<1> SUFFICES ASSUME NInv, [NotifierNext]_notifierVars PROVE NInv'
  OBVIOUS
<1>t. NotifierTypeOK /\ Passed /\ NothingSkipped
  BY DEF NInv
<1>l. position \in Nat /\ Len(stream) \in Nat /\ position <= Len(stream)
  BY <1>t DEF NotifierTypeOK
<1>f. work # <<>> =>
        /\ Head(work) = work[1] /\ work[1] \in Part
        /\ work[1].from \in Index /\ work[1].to \in Index
        /\ work[1].tries \in 0..MaxRetries
        /\ work[1].from = position + 1
        /\ position < work[1].to /\ work[1].to <= Len(stream)
        /\ InPlace(Tail(work), work[1].to, Len(stream))
  BY <1>t, FirstPart
<1>1. ASSUME NEW record \in Record, Change(record) PROVE NInv'
  <2>1. stream' \in Seq(Record) /\ Len(stream') = Len(stream) + 1
        /\ \A i \in 1..Len(stream) : stream'[i] = stream[i]
    BY <1>1, <1>t DEF Change, NotifierTypeOK
  <2>2. InPlace(work, position, Len(stream) + 1)
    <3>1. ASSUME NEW p \in 1..Len(work) PROVE work[p].to <= Len(stream) + 1
      <4>1. work \in Seq(Part) /\ work[p].to <= Len(stream)
        BY <1>t DEF NotifierTypeOK, InPlace
      <4>2. work[p] \in Part
        BY <4>1
      <4> QED
        BY <1>l, <4>1, <4>2 DEF Part
    <3> QED
      BY <1>t, <3>1 DEF NotifierTypeOK, InPlace
  <2>3. NotifierTypeOK'
    BY <1>1, <1>t, <1>l, <2>1, <2>2 DEF Change, NotifierTypeOK
  <2>4. Passed'
    BY <1>1, <1>t, <1>l, <2>1, <1>f DEF Change, Passed, Relevant
  <2>5. NothingSkipped'
    BY <1>1, <1>t, <1>l, <2>1 DEF Change, NothingSkipped, Relevant
  <2> QED
    BY <2>3, <2>4, <2>5 DEF NInv
<1>2. CASE PollStream
  <2>1. PICK n \in 1..BatchSize :
          /\ position + n <= Len(stream)
          /\ work' = <<[from |-> position + 1, to |-> position + n, tries |-> 0]>>
    BY <1>2 DEF PollStream
  <2>2. [from |-> position + 1, to |-> position + n, tries |-> 0] \in Part
    BY <1>t, <1>l, <2>1 DEF Part, NotifierTypeOK
  <2>3. NotifierTypeOK'
    BY <1>2, <1>t, <1>l, <2>1, <2>2 DEF PollStream, NotifierTypeOK, InPlace
  <2>4. next = 0
    BY <1>2, <1>t DEF PollStream, Passed
  <2> QED
    BY <1>2, <1>t, <2>3, <2>4 DEF PollStream, NInv, Passed, NothingSkipped, Relevant
<1>3. CASE Invoke
  <2>1. next' = work[1].from /\ work # <<>> /\ work' = work
    BY <1>3, <1>f DEF Invoke
  <2>2. NotifierTypeOK'
    BY <1>3, <1>t, <2>1, <1>f DEF Invoke, NotifierTypeOK
  <2>3. Passed'
    BY <1>3, <1>l, <2>1, <1>f DEF Invoke, Passed
  <2> QED
    BY <1>3, <1>t, <2>2, <2>3 DEF Invoke, NInv, NothingSkipped, Relevant
<1>4. CASE Publish
  <2>1. work # <<>> /\ next \in work[1].from..work[1].to /\ next # 0
    BY <1>4, <1>t, <1>f DEF Publish, Passed
  <2>2. next \in 1..Len(stream) /\ work[1].to + 1 <= MaxRecords + 1
    BY <1>l, <2>1, <1>f
  <2>3. stream[next].key \in Key
    <3>1. stream[next] \in Record
      BY <1>t, <2>2 DEF NotifierTypeOK
    <3> QED
      BY <3>1 DEF Record
  <2>a. shown' \in [Key -> 0..Len(stream)]
    <3>1. shown' = [shown EXCEPT ![stream[next].key] = next] \/ shown' = shown
      BY <1>4 DEF Publish
    <3>2. shown \in [Key -> 0..Len(stream)] /\ next \in 0..Len(stream)
      BY <1>t, <2>2 DEF NotifierTypeOK
    <3> QED
      BY <2>3, <3>1, <3>2
  <2>4. published' \subseteq 1..Len(stream) /\ published \subseteq published'
        /\ (Relevant(next) => next \in published')
        /\ shown' \in [Key -> 0..Len(stream)]
    BY <1>4, <1>t, <2>2, <2>a DEF Publish, NotifierTypeOK
  <2>5. next' = next + 1 /\ UNCHANGED <<stream, position, work, dropped, invocationFaults>>
    BY <1>4 DEF Publish
  <2>6. NotifierTypeOK'
    BY <1>t, <1>l, <2>1, <2>2, <2>4, <2>5 DEF NotifierTypeOK
  <2>7. Passed'
    BY <1>t, <1>l, <2>1, <2>2, <2>4, <2>5, <1>f DEF Passed, Relevant
  <2>8. NothingSkipped'
    BY <1>t, <2>4, <2>5 DEF NothingSkipped, Relevant
  <2> QED
    BY <2>6, <2>7, <2>8 DEF NInv
<1>5. CASE Finish
  <2>0. work # <<>> /\ next \in work[1].from..(work[1].to + 1)
    BY <1>5, <1>t DEF Finish, Passed
  <2>1. work # <<>> /\ next = work[1].to + 1 /\ position' = work[1].to
        /\ work' = Tail(work) /\ next' = 0
        /\ UNCHANGED <<stream, published, shown, dropped, invocationFaults>>
    <3>1. next > work[1].to /\ work[1].to \in Nat
      BY <1>5, <1>f, <2>0 DEF Finish
    <3> QED
      BY <1>5, <1>f, <2>0, <3>1 DEF Finish
  <2>2. NotifierTypeOK'
    BY <1>t, <1>l, <2>1, <1>f DEF NotifierTypeOK
  <2>3. NothingSkipped'
    <3>1. \A i \in (position + 1)..work[1].to : Relevant(i) => i \in published
      BY <1>t, <1>5, <1>l, <2>1, <1>f DEF Passed, Finish
    <3> QED
      BY <1>t, <1>l, <2>1, <3>1, <1>f DEF NothingSkipped, Relevant
  <2> QED
    BY <2>1, <2>2, <2>3 DEF NInv, Passed
<1>6. CASE Fail
  <2>0. work # <<>> /\ Head(work) = work[1]
    BY <1>6, <1>t, <1>f DEF Fail, Passed
  <2>1. CASE work[1].from < work[1].to
    <3>1. work' = Halves(work[1]) \o Tail(work) /\ UNCHANGED <<position, dropped>>
      BY <1>6, <2>0, <2>1, <1>f DEF Fail
    <3>2. NotifierTypeOK'
      BY <1>6, <1>t, <1>l, <2>0, <2>1, <3>1, SplitInPlace DEF Fail, NotifierTypeOK
    <3> QED
      BY <1>6, <1>t, <3>1, <3>2 DEF Fail, NInv, Passed, NothingSkipped, Relevant
  <2>2. CASE work[1].from = work[1].to /\ work[1].tries < MaxRetries
    <3> DEFINE part == [work[1] EXCEPT !.tries = @ + 1]
    <3>1. work' = <<part>> \o Tail(work) /\ UNCHANGED <<position, dropped>>
      BY <1>6, <2>0, <2>2, <1>f DEF Fail
    <3>2. part \in Part /\ part.to = work[1].to /\ part.from = position + 1
      BY <2>0, <2>2, <1>f DEF Part
    <3> HIDE DEF part
    <3>i. InPlace(work', position, Len(stream))
      BY <1>f, <1>l, <2>0, <2>2, <3>1, <3>2, PrependInPlace
    <3>3. NotifierTypeOK'
      BY <1>6, <1>t, <3>1, <3>i DEF Fail, NotifierTypeOK
    <3> QED
      BY <1>6, <1>t, <3>1, <3>3 DEF Fail, NInv, Passed, NothingSkipped, Relevant
  <2>3. CASE work[1].from = work[1].to /\ work[1].tries = MaxRetries
    <3>1. work' = Tail(work) /\ position' = work[1].to
          /\ dropped' = dropped \cup {work[1].from}
          /\ next' = 0 /\ invocationFaults' \in 0..MaxInvocationFaults
          /\ UNCHANGED <<stream, published, shown>>
      BY <1>6, <1>t, <2>0, <2>3, <1>f DEF Fail, NotifierTypeOK
    <3>i. InPlace(work', position', Len(stream)) /\ position' \in 0..Len(stream)
          /\ work[1].from \in 1..Len(stream)
      BY <1>f, <1>l, <2>0, <2>3, <3>1
    <3>d. dropped' \subseteq 1..Len(stream)
      BY <1>t, <3>1, <3>i DEF NotifierTypeOK
    <3>2. NotifierTypeOK'
      <4>1. /\ stream' = stream /\ next' = 0 /\ published' = published
            /\ shown' = shown /\ next' \in 0..MaxRecords + 1
        BY <3>1
      <4> QED
        BY <1>t, <3>1, <3>i, <3>d, <4>1 DEF NotifierTypeOK
    <3>3. NothingSkipped'
      BY <1>t, <1>l, <2>0, <2>3, <3>1, <1>f DEF NothingSkipped, Relevant
    <3> QED
      BY <3>1, <3>2, <3>3 DEF NInv, Passed
  <2>4. work[1].from <= work[1].to /\ work[1].from \in Nat /\ work[1].to \in Nat
        /\ work[1].tries \in Nat /\ work[1].tries <= MaxRetries
    BY <2>0, <1>f, <1>l
  <2>5. work[1].from < work[1].to \/ work[1].from = work[1].to
    BY <2>4
  <2>6. work[1].tries < MaxRetries \/ work[1].tries = MaxRetries
    BY <2>4
  <2> QED
    BY <2>1, <2>2, <2>3, <2>5, <2>6
<1>7. CASE UNCHANGED notifierVars
  BY <1>7 DEF notifierVars, NInv, NotifierTypeOK, Passed, NothingSkipped, Relevant
<1> QED
  BY <1>1, <1>2, <1>3, <1>4, <1>5, <1>6, <1>7 DEF NotifierNext, Deliver

(* The parts under way always cover, in order, what comes after the        *)
(* position.                                                               *)
THEOREM TypeCorrect == NotifierSpec => []NotifierTypeOK
<1>1. NInv => NotifierTypeOK
  BY DEF NInv
<1> QED
  BY <1>1, InitNInv, NextNInv, PTL DEF NotifierSpec

(* No LATEST record is left behind unpublished outside the dead-letter     *)
(* queue (lambda_function.py 67-101, lambda_notifier.tf 162-175).          *)
THEOREM SkipsNothing == NotifierSpec => []NothingSkipped
<1>1. NInv => NothingSkipped
  BY DEF NInv
<1> QED
  BY <1>1, InitNInv, NextNInv, PTL DEF NotifierSpec

LEMMA OrderStep ==
    ASSUME NInv, [NotifierNext]_notifierVars, NEW i \in published' \ published, NEW j \in 1..(i - 1),
           Relevant(j)
    PROVE  j \in published \cup dropped
<1>1. Publish /\ i = next /\ Relevant(next)
  BY DEF NotifierNext, Deliver, Change, PollStream, Invoke, Publish, Finish, Fail, notifierVars
<1>2. work # <<>> /\ next \in work[1].from..work[1].to /\ work[1].from = position + 1
  BY <1>1, FirstPart DEF Publish, NInv, Passed
<1>3. CASE j <= position
  BY <1>3 DEF NInv, NothingSkipped
<1>4. CASE j > position
  <2>1. j \in work[1].from..(next - 1)
    BY <1>1, <1>2, <1>4, FirstPart DEF NInv, NotifierTypeOK
  <2> QED
    BY <1>1, <2>1 DEF NInv, Passed, Publish
<1> QED
  BY <1>1, <1>2, <1>3, <1>4 DEF NInv, NotifierTypeOK

(* First publications come in the order of the stream, through every       *)
(* bisection and retry.                                                    *)
THEOREM OrderCorrect == NotifierSpec => FirstInOrder
<1>1. NInv /\ [NotifierNext]_notifierVars =>
        [\A i \in published' \ published : \A j \in 1..(i - 1) :
           Relevant(j) /\ stream[j].key = stream[i].key => j \in published \cup dropped]_notifierVars
  BY OrderStep
<1> QED
  BY <1>1, InitNInv, NextNInv, PTL DEF NotifierSpec, FirstInOrder
=============================================================================

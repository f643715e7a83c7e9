-------------------------- MODULE CloudInfraProofs ---------------------------
(***************************************************************************)
(* Theorems about the infrastructure snapshot: of CloudInfraStore, for     *)
(* every set of runs, every staleness limit and every bound, however fast  *)
(* and slow collectors interleave, fail and read a lagging replica; and of *)
(* Collectors, whatever their calls bring and whichever of them fail.      *)
(***************************************************************************)
EXTENDS CloudInfraStore, Collectors, NaturalsInduction, WellFoundedInduction, TLAPS

(* What worst_status says of one or two statuses. *)
LEMMA WorstOfTwo ==
    ASSUME NEW a \in Status, NEW b \in Status
    PROVE  /\ Worst({a, b}) \in Status
           /\ Worst({a, b}) = "normal" <=> a = "normal" /\ b = "normal"
<1>1. PICK w \in {a, b} : \A o \in {a, b} : Rank[o] <= Rank[w]
  BY DEF Status, Rank
<1>2. /\ Worst({a, b}) \in {a, b}
      /\ \A o \in {a, b} : Rank[o] <= Rank[Worst({a, b})]
  BY <1>1 DEF Worst
<1> QED
  BY <1>2 DEF Status, Rank

(* The statuses that an overall status is taken over. *)
LEMMA OverallType ==
    ASSUME NEW fast \in Section \cup {None}, NEW slow \in Section \cup {None}
    PROVE  Overall(fast, slow) \in Status
<1>1. CASE fast = None /\ slow = None
  <2>1. {s.status : s \in {fast, slow} \ {None}} = {}
    BY <1>1
  <2> QED
    BY <2>1 DEF Overall, Worst, Status
<1>2. CASE fast # None /\ slow = None
  <2>1. {s.status : s \in {fast, slow} \ {None}} = {fast.status, fast.status}
    BY <1>2
  <2> QED
    BY <1>2, <2>1, WorstOfTwo DEF Overall, Section
<1>3. CASE fast = None /\ slow # None
  <2>1. {s.status : s \in {fast, slow} \ {None}} = {slow.status, slow.status}
    BY <1>3
  <2> QED
    BY <1>3, <2>1, WorstOfTwo DEF Overall, Section
<1>4. CASE fast # None /\ slow # None
  <2>1. {s.status : s \in {fast, slow} \ {None}} = {fast.status, slow.status}
    BY <1>4
  <2> QED
    BY <1>4, <2>1, WorstOfTwo DEF Overall, Section
<1> QED
  BY <1>1, <1>2, <1>3, <1>4

(* Two sections are both normal when their overall status is. *)
LEMMA NormalNeedsBoth ==
    ASSUME NEW fast \in Section, NEW slow \in Section,
           Overall(fast, slow) = "normal"
    PROVE  fast.status = "normal" /\ slow.status = "normal"
<1>1. fast # None /\ slow # None
  BY CloudAssumption
<1>2. {s.status : s \in {fast, slow} \ {None}} = {fast.status, slow.status}
  BY <1>1
<1> QED
  BY <1>2, WorstOfTwo DEF Overall, Section

(* A section with its own timestamp, collected by a run of its track. *)
Paired(sec, when, track) ==
    IF sec = None THEN when = None
    ELSE when = sec.when /\ TrackOf[sec.run] = track

(* An item as the collectors keep it. *)
Sound(item) ==
    /\ item \in Item
    /\ Paired(item.fast, item.fastAt, "fast")
    /\ Paired(item.slow, item.slowAt, "slow")
    /\ item.overall = Overall(item.fast, item.slow)

(* A run that has collected holds its own section, of its own time. *)
Collected(r) ==
    /\ found[r] \in Section
    /\ found[r].run = r
    /\ found[r].when = at[r]

(* The item carries the run's timestamp on the run's track. *)
Stamped(item, r) ==
    IF TrackOf[r] = "fast" THEN item.fastAt = at[r] ELSE item.slowAt = at[r]

(* The inductive invariant. *)
IInv ==
    /\ TypeOK
    /\ \A item \in Items : Sound(item)
    /\ \A r \in Run : pc[r] # "due" => Collected(r)
    /\ \A r \in Run : pc[r] \in {"putHistory", "putObject", "done"} =>
                        Stamped(held[r], r)
    /\ \A r \in Run : pc[r] \in {"putObject", "done"} =>
                        /\ history[TrackOf[r]][at[r]] # None
                        /\ Stamped(history[TrackOf[r]][at[r]], r)

(* What a run is about to put is sound and carries its timestamp. *)
LEMMA MergedSound ==
    ASSUME NEW r \in Run, held[r] \in Item, Sound(held[r]), Collected(r),
           at[r] \in Time
    PROVE  Sound(Merged(r)) /\ Stamped(Merged(r), r)
<1> DEFINE item == held[r]
<1>1. TrackOf[r] \in Track
  BY CloudAssumption
<1>2. CASE TrackOf[r] = "fast"
  <2> DEFINE o == Overall(found[r], item.slow)
  <2>1. o \in Status
    BY OverallType DEF Item, Collected
  <2>2. Merged(r) = [item EXCEPT !.fast = found[r], !.fastAt = at[r], !.overall = o]
    BY <1>2 DEF Merged
  <2> HIDE DEF o
  <2>3. /\ Merged(r) \in Item
        /\ Merged(r).fast = found[r] /\ Merged(r).fastAt = at[r]
        /\ Merged(r).slow = item.slow /\ Merged(r).slowAt = item.slowAt
        /\ Merged(r).overall = o
    BY <2>1, <2>2 DEF Item, Collected
  <2>4. found[r] # None
    BY CloudAssumption DEF Collected
  <2> QED
    BY <1>2, <2>3, <2>4 DEF Sound, Paired, Stamped, Collected, o
<1>3. CASE TrackOf[r] = "slow"
  <2> DEFINE o == Overall(item.fast, found[r])
  <2>1. o \in Status
    BY OverallType DEF Item, Collected
  <2>2. Merged(r) = [item EXCEPT !.slow = found[r], !.slowAt = at[r], !.overall = o]
    BY <1>3 DEF Merged
  <2> HIDE DEF o
  <2>3. /\ Merged(r) \in Item
        /\ Merged(r).fast = item.fast /\ Merged(r).fastAt = item.fastAt
        /\ Merged(r).slow = found[r] /\ Merged(r).slowAt = at[r]
        /\ Merged(r).overall = o
    BY <2>1, <2>2 DEF Item, Collected
  <2>4. found[r] # None
    BY CloudAssumption DEF Collected
  <2> QED
    BY <1>3, <2>3, <2>4 DEF Sound, Paired, Stamped, Collected, o
<1> QED
  BY <1>1, <1>2, <1>3 DEF Track

(* The item read where none is stored. *)
LEMMA EmptySound == Sound(Empty)
<1>1. {s.status : s \in {None, None} \ {None}} = {}
  OBVIOUS
<1>2. Overall(None, None) = "unknown"
  BY <1>1 DEF Overall, Worst
<1> QED
  BY <1>2 DEF Sound, Empty, Item, Paired, Status

LEMMA InitIInv == Init => IInv
<1> SUFFICES ASSUME Init PROVE IInv
  OBVIOUS
<1>1. Empty \in Item
  BY DEF Empty, Item, Status
<1>2. TypeOK
  BY <1>1, CloudAssumption DEF Init, TypeOK, Time, PC
<1>3. \A item \in Items : item = Empty
  BY DEF Init, Items
<1>4. \A item \in Items : Sound(item)
  BY <1>3, EmptySound
<1> QED
  BY <1>2, <1>4 DEF Init, IInv

(* Membership in Items, place by place. *)
LEMMA ItemsAre ==
    \A item : item \in Items <=>
        /\ item # None
        /\ \/ item = latest \/ item = replica
           \/ \E k \in Track, t \in Time : item = history[k][t]
           \/ \E r \in Run : item = held[r]
BY DEF Items

(* The same of the next state. *)
LEMMA ItemsAreNext ==
    \A item : item \in Items' <=>
        /\ item # None
        /\ \/ item = latest' \/ item = replica'
           \/ \E k \in Track, t \in Time : item = history'[k][t]
           \/ \E r \in Run : item = held'[r]
BY DEF Items

LEMMA NextIInv == IInv /\ [Next]_vars => IInv'
<1> SUFFICES ASSUME IInv, [Next]_vars PROVE IInv'
  OBVIOUS
<1> USE DEF PC
<1>t. TypeOK
  BY DEF IInv
<1>n. \A i \in Item : i # None
  BY CloudAssumption
<1>h. \A r \in Run : Sound(held[r]) /\ held[r] \in Item /\ at[r] \in Time
  BY <1>t, <1>n, ItemsAre DEF IInv, TypeOK
<1>k. \A r \in Run : TrackOf[r] \in Track
  BY CloudAssumption
<1>1. ASSUME NEW r \in Run, Collect(r) PROVE IInv'
  <2>1. PICK s \in Status :
            found' = [found EXCEPT ![r] = [run |-> r, when |-> clock, status |-> s]]
    BY <1>1 DEF Collect
  <2>2. [run |-> r, when |-> clock, status |-> s] \in Section
    BY <1>t DEF Section, TypeOK
  <2>3. TypeOK'
    BY <1>1, <1>t, <2>1, <2>2 DEF Collect, TypeOK
  <2>4. Items' = Items
    BY <1>1 DEF Collect, Items
  <2>5. \A q \in Run : pc'[q] # "due" => Collected(q)'
    BY <1>1, <1>t, <2>1, <2>2 DEF Collect, Collected, IInv, TypeOK
  <2> QED
    BY <1>1, <1>t, <2>3, <2>4, <2>5 DEF Collect, IInv, TypeOK, Stamped, Sound
<1>2. ASSUME NEW r \in Run, ReadLatest(r) PROVE IInv'
  <2>1. PICK i \in {latest, replica} :
            held' = [held EXCEPT ![r] = IF i = None THEN Empty ELSE i]
    BY <1>2 DEF ReadLatest
  <2> DEFINE got == IF i = None THEN Empty ELSE i
  <2>2. Sound(got)
    BY EmptySound, ItemsAre DEF IInv
  <2>3. got \in Item
    BY <2>2 DEF Sound
  <2>5. held' = [held EXCEPT ![r] = got]
    BY <2>1
  <2> HIDE DEF got
  <2>6. TypeOK'
    BY <1>2, <1>t, <2>3, <2>5 DEF ReadLatest, TypeOK
  <2>7. \A item \in Items' : item \in Items \/ item = got
    BY <1>2, <1>t, <2>5, ItemsAre, ItemsAreNext DEF ReadLatest, TypeOK
  <2>8. \A item \in Items' : Sound(item)
    BY <2>2, <2>7 DEF IInv
  <2>9. \A item \in Items' : Sound(item)'
    BY <2>8 DEF Sound
  <2> QED
    BY <1>2, <1>t, <2>5, <2>6, <2>9 DEF ReadLatest, IInv, TypeOK, Collected, Stamped
<1>3. ASSUME NEW r \in Run, PutLatest(r) PROVE IInv'
  <2>1. Sound(Merged(r)) /\ Stamped(Merged(r), r) /\ Merged(r) \in Item
    BY <1>3, <1>h, MergedSound DEF PutLatest, IInv, Sound
  <2>2. TypeOK'
    BY <1>3, <1>t, <2>1 DEF PutLatest, TypeOK
  <2>3. \A item \in Items' : item \in Items \/ item = Merged(r)
    BY <1>3, <1>t, ItemsAre, ItemsAreNext DEF PutLatest, TypeOK
  <2>4. \A item \in Items' : Sound(item)'
    BY <2>1, <2>3 DEF IInv, Sound
  <2> QED
    BY <1>3, <1>t, <2>1, <2>2, <2>4 DEF PutLatest, IInv, TypeOK, Collected, Stamped
<1>4. ASSUME NEW r \in Run, PutHistory(r) PROVE IInv'
  <2> DEFINE k == TrackOf[r]
  <2>0. k \in Track /\ at[r] \in Time /\ held[r] \in Item
    BY <1>h, <1>k
  <2>1. history' = [history EXCEPT ![k] = [history[k] EXCEPT ![at[r]] = held[r]]]
    BY <1>4 DEF PutHistory
  <2>2. [history[k] EXCEPT ![at[r]] = held[r]] \in [Time -> Item \cup {None}]
    BY <1>t, <2>0 DEF TypeOK
  <2>3. history' \in [Track -> [Time -> Item \cup {None}]]
    BY <1>t, <2>0, <2>1, <2>2 DEF TypeOK
  <2>4. TypeOK'
    BY <1>4, <1>t, <2>3 DEF PutHistory, TypeOK
  <2>5. \A j \in Track, t \in Time :
            history'[j][t] = IF j = k /\ t = at[r] THEN held[r] ELSE history[j][t]
    BY <1>t, <2>0, <2>1 DEF TypeOK
  <2>6. Items' \subseteq Items
    BY <1>4, <1>t, <1>h, <1>n, <2>5, ItemsAre, ItemsAreNext DEF PutHistory, TypeOK
  <2>7. \A item \in Items' : Sound(item)'
    BY <2>6 DEF IInv, Sound
  <2>8. Stamped(held[r], r) /\ held[r] # None
    BY <1>4, <1>h, <1>n DEF PutHistory, IInv
  <2>9. ASSUME NEW q \in Run, pc'[q] \in {"putObject", "done"}
        PROVE  /\ history'[TrackOf[q]][at[q]] # None
               /\ Stamped(history'[TrackOf[q]][at[q]], q)
    <3>1. TrackOf[q] \in Track /\ at[q] \in Time
      BY <1>h, <1>k
    <3>2. CASE TrackOf[q] = k /\ at[q] = at[r]
      BY <2>5, <2>8, <3>1, <3>2 DEF Stamped
    <3>3. CASE ~(TrackOf[q] = k /\ at[q] = at[r])
      <4>1. q # r
        BY <3>3
      <4>2. pc[q] \in {"putObject", "done"}
        BY <1>4, <1>t, <2>9, <4>1 DEF PutHistory, TypeOK
      <4>3. history'[TrackOf[q]][at[q]] = history[TrackOf[q]][at[q]]
        BY <2>5, <3>1, <3>3
      <4> QED
        BY <4>2, <4>3 DEF IInv
    <3> QED
      BY <3>2, <3>3
  <2>10. \A q \in Run : pc'[q] \in {"putHistory", "putObject", "done"} =>
                          Stamped(held[q], q)
    BY <1>4, <1>t DEF PutHistory, IInv, TypeOK
  <2>11. \A q \in Run : pc'[q] # "due" => Collected(q)
    BY <1>4, <1>t DEF PutHistory, IInv, TypeOK
  <2> QED
    BY <1>4, <2>4, <2>7, <2>9, <2>10, <2>11 DEF PutHistory, IInv, Collected, Stamped
<1>5. ASSUME NEW r \in Run, PutObject(r) PROVE IInv'
  <2>1. TypeOK'
    BY <1>5, <1>t, <1>h, <1>k DEF PutObject, TypeOK
  <2>2. Items' = Items
    BY <1>5 DEF PutObject, Items
  <2> QED
    BY <1>5, <1>t, <2>1, <2>2
       DEF PutObject, IInv, TypeOK, Collected, Stamped, Sound
<1>6. ASSUME NEW r \in Run, Crash(r) PROVE IInv'
  <2>1. TypeOK'
    BY <1>6, <1>t, CloudAssumption DEF Crash, TypeOK
  <2>2. Items' = Items
    BY <1>6 DEF Crash, Items
  <2> QED
    BY <1>6, <1>t, <2>1, <2>2 DEF Crash, IInv, TypeOK, Collected, Stamped, Sound
<1>7. CASE Replicate
  <2>1. TypeOK'
    BY <1>7, <1>t DEF Replicate, TypeOK
  <2>2. Items' \subseteq Items
    BY <1>7, ItemsAre, ItemsAreNext DEF Replicate
  <2>3. \A item \in Items' : Sound(item)'
    BY <2>2 DEF IInv, Sound
  <2> QED
    BY <1>7, <2>1, <2>3 DEF Replicate, IInv, Collected, Stamped
<1>8. CASE Tick
  <2>1. TypeOK'
    BY <1>8, <1>t, CloudAssumption DEF Tick, TypeOK, Time
  <2>2. Items' = Items
    BY <1>8 DEF Tick, Items
  <2> QED
    BY <1>8, <2>1, <2>2 DEF Tick, IInv, Collected, Stamped, Sound
<1>9. CASE UNCHANGED vars
  <2>1. TypeOK' /\ Items' = Items
    BY <1>9, <1>t DEF vars, TypeOK, Items
  <2> QED
    BY <1>9, <2>1 DEF vars, IInv, Collected, Stamped, Sound
<1> QED
  BY <1>1, <1>2, <1>3, <1>4, <1>5, <1>6, <1>7, <1>8, <1>9 DEF Next

(* IInv holds in every reachable state. *)
LEMMA Invariant == Spec => []IInv
BY InitIInv, NextIInv, PTL DEF Spec

(* Every variable keeps the values its declaration promises. *)
THEOREM TypeCorrect == Spec => []TypeOK
<1>1. IInv => TypeOK
  BY DEF IInv
<1> QED
  BY <1>1, Invariant, PTL

(* No whole-item write of either collector ever separates a section from   *)
(* the timestamp of the collection it comes from.                          *)
THEOREM PairingCorrect == Spec => []SectionsArePaired
<1>1. IInv => SectionsArePaired
  BY DEF IInv, SectionsArePaired, Sound, Paired
<1> QED
  BY <1>1, Invariant, PTL

(* The stored overall status is that of the sections stored with it, even  *)
(* in an item built from an outdated read.                                 *)
THEOREM OverallCorrect == Spec => []OverallAgrees
<1>1. IInv => OverallAgrees
  BY DEF IInv, OverallAgrees, Sound
<1> QED
  BY <1>1, Invariant, PTL

(* A finished run is in HISTORY under its own track and time.              *)
THEOREM HistoryCorrect == Spec => []HistoryKeepsEveryRun
<1>1. IInv => HistoryKeepsEveryRun
  BY DEF IInv, HistoryKeepsEveryRun, Stamped
<1> QED
  BY <1>1, Invariant, PTL

(* A green dashboard means two sections that were collected within their   *)
(* limits and found normal, whatever else the stored item went through     *)
(* (cloud_infra.py 43-69).                                                 *)
THEOREM GreenCorrect == Spec => []GreenMeansGreen
<1>1. ASSUME IInv, latest # None, View(latest, clock).overall = "normal"
      PROVE  FreshAndNormal(latest.fast, FastStale) /\ FreshAndNormal(latest.slow, SlowStale)
  <2>1. Sound(latest)
    BY <1>1, ItemsAre DEF IInv
  <2>2. /\ ~IsStale(latest.fastAt, clock, FastStale)
        /\ ~IsStale(latest.slowAt, clock, SlowStale)
        /\ latest.overall = "normal"
    BY <1>1 DEF View, ViewedOverall
  <2>3. latest.fast # None /\ latest.slow # None
    BY <2>1, <2>2 DEF Sound, Paired, IsStale
  <2>4. latest.fast \in Section /\ latest.slow \in Section
    BY <2>1, <2>3 DEF Sound, Item
  <2>5. latest.fast.status = "normal" /\ latest.slow.status = "normal"
    BY <2>1, <2>2, <2>4, NormalNeedsBoth DEF Sound
  <2>6. latest.fastAt = latest.fast.when /\ latest.slowAt = latest.slow.when
    BY <2>1, <2>3 DEF Sound, Paired
  <2>7. clock \in Nat /\ latest.fast.when \in Nat /\ latest.slow.when \in Nat
    BY <1>1, <2>4, CloudAssumption DEF IInv, TypeOK, Time, Section
  <2>8. clock - latest.fast.when <= FastStale /\ clock - latest.slow.when <= SlowStale
    BY <2>2, <2>6, <2>7, CloudAssumption DEF IsStale
  <2> QED BY <2>3, <2>5, <2>8 DEF FreshAndNormal
<1>2. IInv => GreenMeansGreen
  BY <1>1 DEF GreenMeansGreen
<1> QED
  BY <1>2, Invariant, PTL

-----------------------------------------------------------------------------
(* A set of natural numbers has a least one: the next call, the newest     *)
(* prefix.                                                                 *)
Less == OpToRel(<, Nat)

LEMMA LeastNat ==
    ASSUME NEW T, T \subseteq Nat, T # {}
    PROVE  \E x \in T : \A y \in T : x <= y
<1>1. IsWellFoundedOn(Less, Nat)
  BY NatLessThanWellFounded DEF Less
<1>2. \A x, y \in Nat : y < x => <<y, x>> \in Less
  BY DEF Less, OpToRel
<1>3. PICK x \in T : \A y \in T : ~ (<<y, x>> \in Less)
  BY <1>1, WFMin
<1>4. \A y \in T : ~(y < x)
  BY <1>2, <1>3
<1>5. \A y \in T : x <= y
  BY <1>4
<1> QED BY <1>5


-----------------------------------------------------------------------------
(* The collectors. A report is that of all calls of its section, each of   *)
(* which was answered or lost.                                             *)
CallsOf(s) == {Calls[s][i] : i \in DOMAIN Calls[s]}

CollectInv ==
    /\ section \in DOMAIN Calls
    /\ DOMAIN replies \cup lost \subseteq CallsOf(section)
    /\ DOMAIN replies \cap lost = {}
    /\ \A c \in DOMAIN replies : replies[c] \in Reply[c] \/ c = "autoscaling"
    /\ Reported => Left = {} /\ report = SectionReport

LEMMA CallsIndexed == \A s \in DOMAIN Calls : DOMAIN Calls[s] \subseteq Nat
<1> TAKE s \in DOMAIN Calls
<1>1. CASE s \in FastSections
  BY <1>1 DEF Calls, FastSections
<1>2. CASE s \in {"eks_management", "storage_freshness"}
  BY <1>2 DEF Calls
<1> QED BY <1>1, <1>2 DEF Calls, FastSections

LEMMA NextLeft ==
    ASSUME section \in DOMAIN Calls, Left # {}
    PROVE  NextCall \in CallsOf(section) \ (DOMAIN replies \cup lost)
<1>1. Left \subseteq Nat
  BY CallsIndexed DEF Left
<1>2. Left # {} => Min(Left) \in Left
  BY <1>1, LeastNat DEF Min
<1> QED BY <1>2 DEF Left, NextCall, CallsOf

LEMMA CollectStarts == CollectInit => CollectInv
BY DEF CollectInit, CollectStart, CollectInv, Reported

LEMMA CollectStep == CollectInv /\ [CollectNext]_collectVars => CollectInv'
<1> SUFFICES ASSUME CollectInv, [CollectNext]_collectVars PROVE CollectInv'
  OBVIOUS
<1> USE DEF CollectInv
<1>1. CASE Bring
  <2>1. /\ Left # {} /\ UNCHANGED <<section, lost, report>>
        /\ DOMAIN replies' = DOMAIN replies \cup {NextCall}
    BY <1>1 DEF Bring
  <2>2. \A c \in DOMAIN replies' : replies'[c] \in Reply[c] \/ c = "autoscaling"
    BY <1>1 DEF Bring, Pointless
  <2>3. ~Reported'
    BY <2>1 DEF Reported
  <2> QED BY <2>1, <2>2, <2>3, NextLeft
<1>2. CASE Lack
  <2>1. /\ Left # {} /\ UNCHANGED <<section, replies, report>>
        /\ lost' = lost \cup {NextCall}
    BY <1>2 DEF Lack
  <2>2. ~Reported'
    BY <2>1 DEF Reported
  <2> QED BY <2>1, <2>2, NextLeft
<1>3. CASE Report
  <2>1. /\ Left = {} /\ report' = SectionReport /\ UNCHANGED <<section, replies, lost>>
    BY <1>3 DEF Report
  <2>2. Left' = Left /\ SectionReport' = SectionReport
    BY <2>1 DEF Left, SectionReport, KubernetesStatus, EksStatus, StorageReport, FactoryStatuses,
                FactoryReasons, Fast, Or
  <2> QED BY <2>1, <2>2
<1>4. CASE UNCHANGED collectVars
  <2>1. UNCHANGED <<section, replies, lost, report>>
    BY <1>4 DEF collectVars
  <2>2. Left' = Left /\ SectionReport' = SectionReport
    BY <2>1 DEF Left, SectionReport, KubernetesStatus, EksStatus, StorageReport, FactoryStatuses,
                FactoryReasons, Fast, Or
  <2> QED BY <2>1, <2>2 DEF Reported
<1> QED BY <1>1, <1>2, <1>3, <1>4 DEF CollectNext

-----------------------------------------------------------------------------
(* worst_status: the worst of what there is. *)
LEMMA WorstIs ==
    ASSUME NEW S, S # {}, S \subseteq {"normal", "unknown", "warning", "critical"}
    PROVE  /\ WorstOf(S) \in S
           /\ WorstOf(S) = "normal" => S = {"normal"}
           /\ WorstOf(S) \in {"warning", "critical"} <=> \E s \in S : s \in {"warning", "critical"}
<1>1. PICK w \in S : \A o \in S : Severity[o] <= Severity[w]
  <2>1. CASE "critical" \in S
    BY <2>1 DEF Severity
  <2>2. CASE "critical" \notin S /\ "warning" \in S
    BY <2>2 DEF Severity
  <2>3. CASE "critical" \notin S /\ "warning" \notin S /\ "unknown" \in S
    BY <2>3 DEF Severity
  <2>4. CASE S = {"normal"}
    BY <2>4 DEF Severity
  <2> QED BY <2>1, <2>2, <2>3, <2>4
<1>2. WorstOf(S) \in S /\ \A o \in S : Severity[o] <= Severity[WorstOf(S)]
  BY <1>1 DEF WorstOf
<1> DEFINE v == WorstOf(S)
<1>3. v \in S /\ \A o \in S : Severity[o] <= Severity[v]
  BY <1>2
<1> HIDE DEF v
<1>4. ASSUME v = "normal", NEW o \in S PROVE o = "normal"
  <2>1. Severity[o] <= 0
    BY <1>3, <1>4 DEF Severity
  <2> QED BY <2>1 DEF Severity
<1>5. v \in {"warning", "critical"} <=> \E s \in S : s \in {"warning", "critical"}
  BY <1>3 DEF Severity
<1> QED BY <1>3, <1>4, <1>5 DEF v

LEMMA GradeIs ==
    ASSUME NEW bad \in BOOLEAN, NEW poor \in BOOLEAN
    PROVE  /\ Grade(bad, poor) \in {"normal", "unknown", "warning", "critical"}
           /\ Grade(bad, poor) \in {"warning", "critical"} <=> bad \/ poor
           /\ Grade(bad, poor) = "normal" <=> ~bad /\ ~poor
BY DEF Grade

(* Status and reasons of a section of the fast collector agree: they are   *)
(* computed apart from the same replies.                                   *)
Agree(status, reasons) ==
    /\ status \in {"warning", "critical"} => reasons # {}
    /\ reasons # {} => status # "normal"

LEMMA BackendAgrees ==
    ASSUME NEW e, NEW m, NEW alb, NEW front
    PROVE  Agree(BackendStatus(e, m, alb, front), BackendReasons(e, m, alb, front))
<1> DEFINE none == e.desired > 0 /\ e.running = 0
           few == e.running < e.desired
           a == Grade(none, few \/ Over(m.cpu) \/ Over(m.memory))
           b == Grade(alb.healthy = 0, alb.errors \/ Over(Latency(alb)))
           c == Grade(FALSE, Over(front.errors))
           alarms == BackendReasons(e, m, alb, front)
<1>1. WorstOf({a, b, c}) \in {"warning", "critical"}
        <=> a \in {"warning", "critical"} \/ b \in {"warning", "critical"} \/ c \in {"warning", "critical"}
  <2>1. {a, b, c} \subseteq {"normal", "unknown", "warning", "critical"}
    BY DEF Grade
  <2> HIDE DEF a, b, c
  <2> QED BY <2>1, WorstIs
<1>2. alarms # {} <=>
        \/ none \/ few \/ Over(m.cpu) \/ Over(m.memory) \/ alb.healthy = 0 \/ alb.errors
        \/ Over(Latency(alb)) \/ Over(front.errors)
  BY DEF BackendReasons, When
<1>3. (a \in {"warning", "critical"} \/ b \in {"warning", "critical"} \/ c \in {"warning", "critical"})
        <=> alarms # {}
  BY <1>2 DEF Grade
<1> QED BY <1>1, <1>3 DEF BackendStatus, Agree

LEMMA DatastoresAgree ==
    ASSUME NEW redis, NEW rds
    PROVE  Agree(DatastoreStatus(redis, rds), DatastoreReasons(redis, rds))
<1> DEFINE a == Grade(Unavailable(redis), Over(redis.cpu) \/ Over(redis.memory) \/ redis.evictions)
           b == Grade(Unavailable(rds), Over(rds.cpu) \/ Over(rds.storage))
           alarms == DatastoreReasons(redis, rds)
<1>1. WorstOf({a, b}) \in {"warning", "critical"}
        <=> a \in {"warning", "critical"} \/ b \in {"warning", "critical"}
  <2>1. {a, b} \subseteq {"normal", "unknown", "warning", "critical"}
    BY DEF Grade
  <2> HIDE DEF a, b
  <2> QED BY <2>1, WorstIs
<1>2. alarms # {} <=>
        \/ Unavailable(redis) \/ Over(redis.cpu) \/ Over(redis.memory) \/ redis.evictions
        \/ Unavailable(rds) \/ Over(rds.cpu) \/ Over(rds.storage)
  BY DEF DatastoreReasons, When
<1>3. (a \in {"warning", "critical"} \/ b \in {"warning", "critical"}) <=> alarms # {}
  BY <1>2 DEF Grade
<1> QED BY <1>1, <1>3 DEF DatastoreStatus, Agree

LEMMA PipelineAgrees ==
    ASSUME NEW lambdas, NEW db, NEW dlq, NEW schedules
    PROVE  Agree(PipelineStatus(lambdas, db, dlq, schedules), PipelineReasons(lambdas, db, dlq, schedules))
<1> DEFINE L == {Grade(FALSE, lambdas[i].errors \/ lambdas[i].throttles) : i \in DOMAIN lambdas}
           b == Grade(db.errors, db.reads \/ db.writes)
           c == Grade(FALSE, dlq.visible > 0)
           d == SchedulerStatus(schedules)
           alarms == PipelineReasons(lambdas, db, dlq, schedules)
           failed == \E i \in DOMAIN lambdas : lambdas[i].errors \/ lambdas[i].throttles
           stopped == \E i \in DOMAIN schedules : schedules[i] # "ENABLED"
<1>1. L \cup {b, c, d} \subseteq {"normal", "unknown", "warning", "critical"}
  BY DEF Grade, SchedulerStatus
<1>2. (\E s \in L : s \in {"warning", "critical"}) <=> failed
  BY DEF Grade
<1>3. /\ b \in {"warning", "critical"} <=> db.errors \/ db.reads \/ db.writes
      /\ c \in {"warning", "critical"} <=> dlq.visible > 0
  BY DEF Grade
<1>4. d \in {"warning", "critical"} <=> stopped
  <2>1. CASE schedules = << >>
    BY <2>1 DEF SchedulerStatus
  <2>2. CASE schedules # << >>
    BY <2>2 DEF SchedulerStatus, Grade
  <2> QED BY <2>1, <2>2
<1>5. alarms # {} <=> failed \/ db.errors \/ db.reads \/ db.writes \/ dlq.visible > 0 \/ stopped
  <2> DEFINE E == {<<"lambda_errors", i>> : i \in {j \in DOMAIN lambdas : lambdas[j].errors}}
             T == {<<"lambda_throttles", i>> : i \in {j \in DOMAIN lambdas : lambdas[j].throttles}}
             S == {<<"scheduler", i>> : i \in {j \in DOMAIN schedules : schedules[j] # "ENABLED"}}
             D == When(db.errors, <<"dynamodb", 0>>) \cup When(db.reads, <<"dynamodb_read", 0>>)
                  \cup When(db.writes, <<"dynamodb_write", 0>>) \cup When(dlq.visible > 0, <<"dlq", 0>>)
  <2>1. E \cup T # {} <=> failed
    OBVIOUS
  <2>2. S # {} <=> stopped
    OBVIOUS
  <2>3. D # {} <=> db.errors \/ db.reads \/ db.writes \/ dlq.visible > 0
    BY DEF When
  <2>4. alarms = E \cup T \cup D \cup S
    BY DEF PipelineReasons
  <2> HIDE DEF E, T, S, D, alarms
  <2> QED BY <2>1, <2>2, <2>3, <2>4
<1>6. WorstOf(L \cup {b, c, d}) \in {"warning", "critical"}
        <=> \E s \in L \cup {b, c, d} : s \in {"warning", "critical"}
  <2> HIDE DEF L, b, c, d
  <2> QED BY <1>1, WorstIs
<1>7. PipelineStatus(lambdas, db, dlq, schedules) = WorstOf(L \cup {b, c, d})
  BY DEF PipelineStatus
<1> HIDE DEF L, b, c, d, alarms, failed, stopped
<1>8. WorstOf(L \cup {b, c, d}) \in {"warning", "critical"} <=> alarms # {}
  BY <1>2, <1>3, <1>4, <1>5, <1>6
<1> QED BY <1>7, <1>8 DEF Agree, alarms

(* The reply of a call of a section nothing of which was lost. *)
LEMMA AllBrought ==
    ASSUME CollectInv, Left = {}, NEW i \in DOMAIN Calls[section], Calls[section][i] \notin lost
    PROVE  Calls[section][i] \in DOMAIN replies
BY DEF Left

LEMMA FactoriesAgree ==
    ASSUME CollectInv, Left = {}, section = "factory_freshness", lost = {},
           DOMAIN replies \subseteq {"factory_b", "factory_c"}
    PROVE  Agree(WorstOf(FactoryStatuses), FactoryReasons)
<1>1. "factory_b" \in DOMAIN replies
  <2>1. 1 \in DOMAIN Calls[section] /\ Calls[section][1] = "factory_b"
    BY DEF Calls
  <2> QED BY <2>1, AllBrought
<1>2. FactoryStatuses # {}
  BY <1>1 DEF FactoryStatuses
<1>3. \A f \in DOMAIN replies : replies[f].status \in {"normal", "unknown", "warning", "critical"}
  BY CollectAssumption DEF CollectInv
<1>4. FactoryStatuses \subseteq {"normal", "unknown", "warning", "critical"}
  BY <1>3 DEF FactoryStatuses
<1>5. /\ WorstOf(FactoryStatuses) = "normal" => FactoryStatuses = {"normal"}
      /\ WorstOf(FactoryStatuses) \in {"warning", "critical"}
           => \E s \in FactoryStatuses : s \in {"warning", "critical"}
  BY <1>2, <1>4, WorstIs
<1> DEFINE worst == WorstOf(FactoryStatuses)
<1> HIDE DEF worst
<1>6. /\ worst = "normal" => FactoryStatuses = {"normal"}
      /\ worst \in {"warning", "critical"} => \E s \in FactoryStatuses : s \in {"warning", "critical"}
  BY <1>5 DEF worst
<1>7. Agree(worst, FactoryReasons)
  BY <1>6 DEF Agree, FactoryStatuses, FactoryReasons
<1> QED BY <1>7 DEF worst

LEMMA AlarmsExplained ==
    ASSUME CollectInv
    PROVE  AlarmsAreExplained
<1> SUFFICES ASSUME Reported, section \in FastSections
             PROVE  /\ Agree(report.status, report.reasons)
                    /\ lost # {} => report.status = "unknown" /\ report.reasons = {}
  BY DEF AlarmsAreExplained, Agree
<1>1. Left = {} /\ report = SectionReport
  BY DEF CollectInv
<1>2. CASE lost # {}
  <2>1. report = Fast("unknown", {})
    BY <1>1, <1>2 DEF SectionReport, FastSections
  <2>2. report.status = "unknown" /\ report.reasons = {}
    BY <1>2, <2>1 DEF Fast
  <2> QED BY <2>2 DEF Agree
<1>3. CASE lost = {}
  <2> DEFINE e == replies.ecs
             m == replies.ecs_cloudwatch
  <2>1. \A st, rs : Fast(st, rs).status = st /\ Fast(st, rs).reasons = rs
    BY <1>3 DEF Fast
  <2>2. CASE section = "backend_runtime"
    <3>1. report = Fast(BackendStatus(e, m, replies.alb, replies.cloudfront),
                        BackendReasons(e, m, replies.alb, replies.cloudfront))
      BY <1>1, <1>3, <2>2 DEF SectionReport, FastSections
    <3> HIDE DEF e, m
    <3> QED BY <1>3, <2>1, <3>1, BackendAgrees
  <2>3. CASE section = "datastores"
    <3>1. report = Fast(DatastoreStatus(replies.elasticache, replies.rds),
                        DatastoreReasons(replies.elasticache, replies.rds))
      BY <1>1, <1>3, <2>3 DEF SectionReport, FastSections
    <3> QED BY <1>3, <2>1, <3>1, DatastoresAgree
  <2>4. CASE section = "data_pipeline"
    <3>1. report = Fast(PipelineStatus(replies.lambda, replies.dynamodb, replies.dlq, replies.scheduler),
                        PipelineReasons(replies.lambda, replies.dynamodb, replies.dlq, replies.scheduler))
      BY <1>1, <1>3, <2>4 DEF SectionReport, FastSections
    <3> QED BY <1>3, <2>1, <3>1, PipelineAgrees
  <2>5. CASE section = "factory_freshness"
    <3>1. report = Fast(WorstOf(FactoryStatuses), FactoryReasons)
      BY <1>1, <1>3, <2>5 DEF SectionReport, FastSections
    <3>2. DOMAIN replies \subseteq {"factory_b", "factory_c"}
      BY <2>5 DEF CollectInv, CallsOf, Calls
    <3> QED BY <1>1, <1>3, <2>1, <2>5, <3>1, <3>2, FactoriesAgree
  <2> QED BY <2>2, <2>3, <2>4, <2>5 DEF FastSections
<1> QED BY <1>2, <1>3

-----------------------------------------------------------------------------
(* The status of the cluster is normal only if each of its parts is. *)
LEMMA GreenSeen ==
    ASSUME CollectInv
    PROVE  GreenClusterWasSeen
<1> SUFFICES ASSUME Reported, section = "eks_management", report.status = "normal"
             PROVE  /\ lost \subseteq {"autoscaling"}
                    /\ replies.cluster = "ACTIVE" /\ replies.nodegroups # << >>
                    /\ \A i \in DOMAIN replies.nodegroups :
                         replies.nodegroups[i].status = "ACTIVE" /\ ~replies.nodegroups[i].issues
                    /\ lost = {} => ~(replies.autoscaling.healthy < replies.autoscaling.desired)
                    /\ replies.nodes.total > 0 /\ replies.nodes.ready = replies.nodes.total
                    /\ PodsListed(replies.pods) \subseteq {"Running", "Succeeded"}
                    /\ \A a \in replies.argocd : a.health # "Degraded" /\ a.sync # "OutOfSync"
  BY DEF GreenClusterWasSeen
<1>1. EksStatus = "normal"
  BY DEF CollectInv, SectionReport, FastSections
<1> DEFINE cluster == ManagedStatus(Or("cluster", "unknown"))
           groups == NodegroupsStatus(Or("nodegroups", << >>))
           scaling == ScalingStatus(Or("autoscaling", [desired |-> 0, healthy |-> 0]))
           four == {"normal", "unknown", "warning", "critical"}
<1>2. cluster \in four /\ scaling \in four
  BY DEF ManagedStatus, ScalingStatus, Grade
<1>3. /\ groups \in four
      /\ groups = "normal" =>
           /\ Or("nodegroups", << >>) # << >>
           /\ \A i \in DOMAIN Or("nodegroups", << >>) : NodegroupStatus(Or("nodegroups", << >>)[i]) = "normal"
  <2> DEFINE sequence == Or("nodegroups", << >>)
             S == {NodegroupStatus(sequence[i]) : i \in DOMAIN sequence}
  <2>1. S \subseteq four
    BY DEF NodegroupStatus, ManagedStatus, Grade
  <2>2. S = {} => WorstOf(S) = "unknown"
    BY DEF WorstOf
  <2>3. S # {} => WorstOf(S) \in S /\ (WorstOf(S) = "normal" => S = {"normal"})
    <3> HIDE DEF S
    <3> QED BY <2>1, WorstIs
  <2>4. sequence = << >> => S = {}
    OBVIOUS
  <2>5. groups = WorstOf(S)
    BY DEF NodegroupsStatus
  <2>6. S \subseteq {"normal"} => \A i \in DOMAIN sequence : NodegroupStatus(sequence[i]) = "normal"
    OBVIOUS
  <2> HIDE DEF S, groups
  <2> QED BY <2>1, <2>2, <2>3, <2>4, <2>5, <2>6
<1>4. KubernetesStatus \in four
  /\ (KubernetesStatus = "normal" =>
        /\ {"nodes", "pods", "argocd"} \subseteq DOMAIN replies
        /\ NodesStatus(replies.nodes) = "normal" /\ PodsStatus(replies.pods) = "normal"
        /\ ArgocdStatus(replies.argocd) = "normal")
  <2>1. CASE {"nodes", "pods"} \subseteq DOMAIN replies
    <3> DEFINE n == NodesStatus(replies.nodes)
               p == PodsStatus(replies.pods)
               a == IF "argocd" \in DOMAIN replies THEN ArgocdStatus(replies.argocd) ELSE "unknown"
    <3>1. {n, p, a} \subseteq four
      BY DEF NodesStatus, PodsStatus, ArgocdStatus, Grade
    <3>2. WorstOf({n, p, a}) \in four /\ (WorstOf({n, p, a}) = "normal" => {n, p, a} = {"normal"})
      <4> HIDE DEF n, p, a
      <4> QED BY <3>1, WorstIs
    <3>3. KubernetesStatus = WorstOf({n, p, a})
      BY <2>1 DEF KubernetesStatus
    <3>4. a = "normal" => "argocd" \in DOMAIN replies /\ ArgocdStatus(replies.argocd) = "normal"
      OBVIOUS
    <3> HIDE DEF n, a, p
    <3>5. KubernetesStatus = "normal" => n = "normal" /\ p = "normal" /\ a = "normal"
      BY <3>2, <3>3
    <3> QED BY <2>1, <3>2, <3>3, <3>4, <3>5 DEF n, p
  <2>2. CASE ~({"nodes", "pods"} \subseteq DOMAIN replies)
    BY <2>2 DEF KubernetesStatus
  <2> QED BY <2>1, <2>2
<1>5. cluster = "normal" /\ groups = "normal" /\ scaling = "normal" /\ KubernetesStatus = "normal"
  <2>1. WorstOf({cluster, groups, scaling, KubernetesStatus}) = "normal"
    BY <1>1 DEF EksStatus
  <2> HIDE DEF cluster, groups, scaling
  <2>2. {cluster, groups, scaling, KubernetesStatus} = {"normal"}
    BY <1>2, <1>3, <1>4, <2>1, WorstIs
  <2> QED BY <2>2
<1>6. "cluster" \in DOMAIN replies /\ replies.cluster = "ACTIVE"
  <2>1. Or("cluster", "unknown") = "ACTIVE"
    BY <1>5 DEF ManagedStatus, Grade
  <2> QED BY <2>1 DEF Or
<1>7. /\ "nodegroups" \in DOMAIN replies /\ replies.nodegroups # << >>
      /\ \A i \in DOMAIN replies.nodegroups : NodegroupStatus(replies.nodegroups[i]) = "normal"
  <2> HIDE DEF groups
  <2> QED BY <1>3, <1>5 DEF Or
<1>8. /\ {"nodes", "pods", "argocd"} \subseteq DOMAIN replies
      /\ NodesStatus(replies.nodes) = "normal" /\ PodsStatus(replies.pods) = "normal"
      /\ ArgocdStatus(replies.argocd) = "normal"
  BY <1>4, <1>5
<1>9. replies.nodes.total > 0 /\ replies.nodes.ready = replies.nodes.total
  <2>1. replies.nodes \in Reply["nodes"]
    BY <1>8 DEF CollectInv
  <2>2. replies.nodes.total \in Nat /\ replies.nodes.ready \in 0..replies.nodes.total
    BY <2>1, CollectAssumption
  <2>3. ~(replies.nodes.total = 0) /\ ~(replies.nodes.ready < replies.nodes.total)
    BY <1>8 DEF NodesStatus, Grade
  <2> QED BY <2>2, <2>3
<1>10. PodsListed(replies.pods) \subseteq {"Running", "Succeeded"}
  BY <1>8 DEF PodsStatus, Grade
<1>11. \A a \in replies.argocd : a.health # "Degraded" /\ a.sync # "OutOfSync"
  BY <1>8 DEF ArgocdStatus, Grade
<1>12. lost \subseteq {"autoscaling"}
  <2>1. lost \subseteq {"cluster", "nodegroups", "autoscaling", "nodes", "pods", "argocd"}
    BY DEF CollectInv, CallsOf, Calls
  <2> QED BY <1>6, <1>7, <1>8, <2>1 DEF CollectInv
<1>13. \A i \in DOMAIN replies.nodegroups :
         replies.nodegroups[i].status = "ACTIVE" /\ ~replies.nodegroups[i].issues
  BY <1>7 DEF NodegroupStatus, ManagedStatus, Grade
<1>14. ASSUME lost = {} PROVE ~(replies.autoscaling.healthy < replies.autoscaling.desired)
  <2>1. "autoscaling" \in DOMAIN replies
    BY <1>14 DEF CollectInv, Reported, Unreported, Left, Calls, CallsOf
  <2> QED BY <1>5, <2>1 DEF Or, ScalingStatus, Grade
<1> QED BY <1>6, <1>7, <1>9, <1>10, <1>11, <1>12, <1>13, <1>14

-----------------------------------------------------------------------------
(* The latest of the times that a listing brings exists: a shortest        *)
(* listing without one could be shortened.                                 *)
LEMMA LatestListed ==
    ASSUME NEW n \in Nat \ {0}, NEW times \in [1..n -> Nat]
    PROVE  \E k \in 1..n : \A j \in 1..n : times[j] <= times[k]
<1> DEFINE Late(m) == \E k \in 1..m : \A j \in 1..m : times[j] <= times[k]
           T == {m \in 1..n : ~Late(m)}
<1>1. SUFFICES ASSUME T # {} PROVE FALSE
  <2>1. n \notin T => Late(n)
    OBVIOUS
  <2> QED BY <1>1, <2>1
<1>2. PICK m \in T : \A l \in T : m <= l
  <2>1. T \subseteq Nat
    OBVIOUS
  <2> HIDE DEF T
  <2> QED BY <1>1, <2>1, LeastNat
<1>3. Late(1)
  OBVIOUS
<1>4. m \in 2..n
  BY <1>2, <1>3
<1>5. m - 1 \in 1..n /\ Late(m - 1)
  <2>1. m - 1 \in 1..n /\ ~(m <= m - 1)
    BY <1>4
  <2>2. m - 1 \notin T
    <3> HIDE DEF T
    <3> QED BY <1>2, <2>1
  <2> HIDE DEF Late
  <2> QED BY <2>1, <2>2
<1>6. PICK k \in 1..(m - 1) : \A j \in 1..(m - 1) : times[j] <= times[k]
  BY <1>5
<1>7. CASE times[m] <= times[k]
  <2>1. \A j \in 1..m : times[j] <= times[k]
    BY <1>4, <1>6, <1>7
  <2> QED BY <1>2, <1>4, <2>1
<1>8. CASE ~(times[m] <= times[k])
  <2>1. \A j \in 1..m : times[j] <= times[m]
    <3> TAKE j \in 1..m
    <3>1. j = m \/ j \in 1..(m - 1)
      BY <1>4
    <3> QED BY <1>4, <1>6, <1>8, <3>1
  <2> QED BY <1>2, <1>4, <2>1
<1> QED BY <1>7, <1>8

(* _latest_object_time of one listing that is not empty. *)
LEMMA NewestIs ==
    ASSUME NEW listing \in Seq(Nat), listing # << >>
    PROVE  /\ \E k \in DOMAIN listing : NewestListed(listing) = listing[k]
           /\ Len(listing) <= MaxKeys => \A k \in DOMAIN listing : listing[k] <= NewestListed(listing)
<1> DEFINE n == IF Len(listing) <= MaxKeys THEN Len(listing) ELSE MaxKeys
           first == [i \in 1..n |-> listing[i]]
           times == {listing[i] : i \in {j \in DOMAIN listing : j <= MaxKeys}}
<1>1. /\ Len(listing) \in Nat \ {0} /\ DOMAIN listing = 1..Len(listing)
      /\ \A i \in DOMAIN listing : listing[i] \in Nat
  OBVIOUS
<1>2. n \in Nat \ {0} /\ {j \in DOMAIN listing : j <= MaxKeys} = 1..n
  BY <1>1, CollectAssumption
<1>3. first \in [1..n -> Nat] /\ 1..n \subseteq DOMAIN listing
  BY <1>1, <1>2
<1>4. PICK k \in 1..n : \A j \in 1..n : first[j] <= first[k]
  <2> HIDE DEF n, first
  <2> QED BY <1>2, <1>3, LatestListed
<1>5. listing[k] \in times /\ \A u \in times : u <= listing[k]
  BY <1>2, <1>4
<1>6. NewestListed(listing) \in times /\ \A u \in times : u <= NewestListed(listing)
  <2>1. NewestListed(listing) = CHOOSE t \in times : \A u \in times : u <= t
    BY DEF NewestListed
  <2> HIDE DEF times
  <2> QED BY <1>5, <2>1
<1>7. Len(listing) <= MaxKeys => \A j \in DOMAIN listing : listing[j] \in times
  <2> SUFFICES ASSUME Len(listing) <= MaxKeys, NEW j \in DOMAIN listing PROVE listing[j] \in times
    OBVIOUS
  <2>1. j <= MaxKeys
    BY <1>1, CollectAssumption
  <2> QED BY <2>1
<1> HIDE DEF n, first
<1> QED BY <1>3, <1>6, <1>7

LEMMA TimesReal ==
    ASSUME CollectInv
    PROVE  FreshnessIsReal
<1> SUFFICES ASSUME NEW s \in DOMAIN report.dates
             PROVE  LET full == {i \in DOMAIN replies[s] : replies[s][i] # << >>}
                        newest == replies[s][CHOOSE i \in full : \A j \in full : i <= j]
                    IN  IF full = {} THEN report.dates[s] = NoDate
                        ELSE /\ \E k \in DOMAIN newest : report.dates[s] = newest[k]
                             /\ Len(newest) <= MaxKeys => \A k \in DOMAIN newest : newest[k] <= report.dates[s]
  BY DEF FreshnessIsReal
<1> DEFINE full == {i \in DOMAIN replies[s] : replies[s][i] # << >>}
           newest == replies[s][CHOOSE i \in full : \A j \in full : i <= j]
<1>1. Reported
  BY DEF Reported, Unreported
<1>2. report = SectionReport
  BY <1>1 DEF CollectInv
<1>3. section = "storage_freshness" /\ lost = {}
  <2>1. CASE section \in FastSections
    <3>1. \E st, rs : report = Fast(st, rs)
      <4>1. CASE lost # {}
        BY <1>2, <2>1, <4>1 DEF SectionReport, FastSections
      <4>2. CASE lost = {} /\ section \in {"backend_runtime", "datastores"}
        BY <1>2, <2>1, <4>2 DEF SectionReport, FastSections
      <4>3. CASE lost = {} /\ section \in {"data_pipeline", "factory_freshness"}
        BY <1>2, <2>1, <4>3 DEF SectionReport, FastSections
      <4> QED BY <2>1, <4>1, <4>2, <4>3 DEF FastSections
    <3>2. report.dates = << >>
      BY <3>1 DEF Fast
    <3> QED BY <3>2
  <2>2. CASE section = "eks_management"
    <3>1. report.dates = << >>
      BY <1>2, <2>2 DEF SectionReport, FastSections
    <3> QED BY <3>1
  <2>3. CASE section = "storage_freshness"
    <3>1. report = StorageReport
      BY <1>2, <2>3 DEF SectionReport, FastSections
    <3>2. lost # {} => report.dates = << >>
      BY <3>1 DEF StorageReport
    <3> QED BY <2>3, <3>2
  <2> QED BY <2>1, <2>2, <2>3 DEF CollectInv, Calls, FastSections
<1>4. report.dates = [c \in DOMAIN replies |-> LatestObjectTime(replies[c])]
  <2>1. report = StorageReport
    BY <1>2, <1>3 DEF SectionReport, FastSections
  <2> QED BY <1>3, <2>1 DEF StorageReport
<1>5. s \in DOMAIN replies /\ report.dates[s] = LatestObjectTime(replies[s])
  BY <1>4
<1>6. replies[s] \in Seq(Seq(Nat))
  <2>1. s \in {"raw", "processed", "processed_agg"}
    BY <1>3, <1>5 DEF CollectInv, CallsOf, Calls
  <2> QED BY <1>5, <2>1, CollectAssumption DEF CollectInv
<1>7. full \subseteq Nat /\ \A i \in full : replies[s][i] \in Seq(Nat) /\ replies[s][i] # << >>
  <2>1. DOMAIN replies[s] = 1..Len(replies[s]) /\ \A i \in DOMAIN replies[s] : replies[s][i] \in Seq(Nat)
    BY <1>6
  <2> QED BY <2>1
<1>8. CASE full = {}
  BY <1>5, <1>8 DEF LatestObjectTime
<1>9. CASE full # {}
  <2>1. newest = replies[s][Min(full)] /\ Min(full) \in full
    <3>1. PICK x \in full : \A y \in full : x <= y
      BY <1>7, <1>9, LeastNat
    <3> HIDE DEF full
    <3>2. Min(full) = CHOOSE i \in full : \A j \in full : i <= j
      BY DEF Min
    <3> QED BY <3>1, <3>2 DEF newest
  <2>2. report.dates[s] = NewestListed(newest)
    BY <1>5, <1>9, <2>1 DEF LatestObjectTime
  <2>3. newest \in Seq(Nat) /\ newest # << >>
    BY <1>7, <2>1
  <2> QED BY <1>9, <2>2, <2>3, NewestIs
<1> QED BY <1>8, <1>9

(* fast_collectors.py, slow_collectors.py: whatever calls fail, an alarm   *)
(* of a fast section has a reason and a reason is no normal status, a      *)
(* green cluster was seen with all that it is judged by but its scaling    *)
(* groups, and a time of the storage is that of an object of the newest    *)
(* prefix with any.                                                        *)
THEOREM StatusesEarned == CollectSpec => []StatusesAreEarned
<1>1. CollectInv => StatusesAreEarned
  BY AlarmsExplained, GreenSeen, TimesReal DEF StatusesAreEarned
<1> QED BY <1>1, CollectStarts, CollectStep, PTL DEF CollectSpec
=============================================================================

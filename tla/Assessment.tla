------------------------------ MODULE Assessment ------------------------------
(* What the data processor makes of one payload: normalizer.py and the     *)
(* score of risk.py. Temperatures, humidities and scores are in units of   *)
(* 0.0001, to which _float rounds, penalties in units of 1/60000 point, in *)
(* which the ramps are integral, points in hundredths, to which they are   *)
(* rounded. What is copied or converted only is left out.                  *)
EXTENDS Integers, Sequences, FiniteSets

CONSTANTS
    Temperature, Humidity, Score, Sound,  \* what a window may have measured
    NodeReport,                           \* lists of nodes of an infra_state
    Absent, Null                          \* a missing field, and a null one

(* A score is the mean of 0 and 1 over a window                            *)
(* (docs/specs/iot_data_format.md:140-150).                                *)
ASSUME AssessmentAssumption ==
    /\ {Absent, Null} \cap Int = {}
    /\ Temperature \subseteq Int \cup {Absent, Null} /\ Humidity \subseteq Int \cup {Absent, Null}
    /\ Score \subseteq Nat \cup {Absent, Null}

VARIABLES payload, outcome
assessmentVars == <<payload, outcome>>

Measures == [temperature : Temperature, humidity : Humidity,
             fire : Score, fall : Score, bend : Score, sound : Sound]
Undecided == [level |-> "none"]

-----------------------------------------------------------------------------
(* _float, str and get with their defaults. Only a missing sound gets its  *)
(* default: str makes the text "None" of a null, which is a sound to       *)
(* _ai_risk.                                                               *)
Number0(value) == IF value \in {Absent, Null} THEN 0 ELSE value
SoundText(value) == IF value = Absent THEN "none" ELSE IF value = Null THEN "None" ELSE value
NormalizeFactoryState(p) ==
    [m \in DOMAIN p |-> IF m = "sound" THEN SoundText(p[m]) ELSE Number0(p[m])]

Get(record, field, default) == IF field \in DOMAIN record THEN record[field] ELSE default
CountIn(list, Test(_)) == Len(SelectSeq(list, Test))
NormalizeInfraState(p) ==
    [nodes_total |-> Len(p.nodes),
     nodes_ready |-> CountIn(p.nodes, LAMBDA n : Get(n, "status", "Unknown") = "Ready")]

-----------------------------------------------------------------------------
(* Mutant: beyond 38 degrees the weight of humidity is taken. *)
TemperatureRiskWrongWeight(t) ==
    IF t >= 380000 THEN 600000 ELSE IF t >= 320000 THEN 15 * (t - 320000) ELSE 0

TemperatureRisk(t) ==
    IF t >= 380000 THEN 900000 ELSE IF t >= 320000 THEN 15 * (t - 320000) ELSE 0
HumidityRisk(h) ==
    IF h >= 850000 THEN 600000 ELSE IF h >= 700000 THEN 4 * (h - 700000) ELSE 0

Most(S) == CHOOSE x \in S : \A y \in S : y <= x
AiRisk(r) ==
    LET risk == 60 * Most({r.fire, r.fall, r.bend}) + (IF r.sound \in {"none", ""} THEN 0 ELSE 30000)
    IN  IF risk < 600000 THEN risk ELSE 600000

(* Of 35 points, as a percentage. *)
ScorePenalty(risk) == (risk + 105) \div 210

Level(score) == IF score >= 8500 THEN "safe" ELSE IF score >= 5000 THEN "warning" ELSE "danger"

Risks(r) == [temperature |-> TemperatureRisk(r.temperature), humidity |-> HumidityRisk(r.humidity),
             ai_event_rate |-> AiRisk(r)]
Appended == [temperature |-> 1, humidity |-> 2, ai_event_rate |-> 3]

(* The sort is stable, so causes of one contribution keep their order. *)
Precedes(risks, f, g) ==
    LET a == ScorePenalty(risks[f])  b == ScorePenalty(risks[g])
    IN  a > b \/ (a = b /\ Appended[f] < Appended[g])
Sorted(risks, q) == \A i, j \in DOMAIN q : i < j => Precedes(risks, q[i], q[j])
Causes(risks) ==
    LET held == {f \in DOMAIN risks : risks[f] > 0}
        order == CHOOSE q \in [1..Cardinality(held) -> held] :
                   Sorted(risks, q) /\ \A f \in held : \E i \in DOMAIN q : q[i] = f
    IN  [i \in DOMAIN order |-> [field |-> order[i], contribution |-> ScorePenalty(risks[order[i]])]]

RawPenalty(risks) == risks.temperature + risks.humidity + risks.ai_event_rate

Calculate(r) ==
    LET risks == Risks(r)
        score == Most({0, 10000 - ScorePenalty(RawPenalty(risks))})
    IN  [score |-> score, level |-> Level(score), top_causes |-> Causes(risks)]

-----------------------------------------------------------------------------
AssessStart == payload \in Measures /\ outcome = Undecided
ReportStart == payload \in [nodes : NodeReport] /\ outcome = Undecided

ProcessFactoryState ==
    /\ outcome = Undecided /\ "temperature" \in DOMAIN payload
    /\ outcome' = Calculate(NormalizeFactoryState(payload))
    /\ UNCHANGED payload
ProcessInfraState ==
    /\ outcome = Undecided /\ "nodes" \in DOMAIN payload
    /\ outcome' = [level |-> "counted", infra |-> NormalizeInfraState(payload)]
    /\ UNCHANGED payload

AssessNext == ProcessFactoryState \/ ProcessInfraState

AssessSpec == (AssessStart \/ ReportStart) /\ [][AssessNext]_assessmentVars

-----------------------------------------------------------------------------
Rated == outcome.level \in {"safe", "warning", "danger"}

(* The points that a measure is said to have cost. *)
PointsOf(field, causes) ==
    IF \E i \in DOMAIN causes : causes[i].field = field
    THEN causes[CHOOSE i \in DOMAIN causes : causes[i].field = field].contribution ELSE 0

(* The causes are in descending order, none twice, and account for the     *)
(* points that are lost, up to the rounding of each and of their sum.      *)
LossIsExplained ==
    Rated =>
      /\ \A i, j \in DOMAIN outcome.top_causes :
           i < j => /\ outcome.top_causes[i].contribution >= outcome.top_causes[j].contribution
                    /\ outcome.top_causes[i].field # outcome.top_causes[j].field
      /\ PointsOf("temperature", outcome.top_causes) + PointsOf("humidity", outcome.top_causes)
           + PointsOf("ai_event_rate", outcome.top_causes) - (10000 - outcome.score) \in -1..1

(* A higher measure never makes a factory safer, through thresholds, ramps *)
(* and caps; and no other one of its payload has to change for that.       *)
WorseIsNeverSafer ==
    Rated => \A m \in {"temperature", "humidity", "fire", "fall", "bend"} :
      \A v \in IF m = "temperature" THEN Temperature ELSE IF m = "humidity" THEN Humidity ELSE Score :
        Number0(v) > Number0(payload[m]) =>
          Calculate(NormalizeFactoryState([payload EXCEPT ![m] = v])).score <= outcome.score

(* test_risk.py:21-42: one measure alone, however bad, gives a warning; it *)
(* takes two for danger.                                                   *)
DangerTakesTwo == Rated /\ outcome.level = "danger" => Len(outcome.top_causes) >= 2

(* A score says why it is what it is, and is ordered as the measures are.  *)
ScoreIsSound == LossIsExplained /\ WorseIsNeverSafer /\ DangerTakesTwo

(* docs/specs/data_storage_pipeline.md:438: nodes_ready is the number of   *)
(* nodes that are ready. The nodes say so in "ready" (iot_data_format.md:  *)
(* 261), which the processor does not read.                                *)
NodesReadyAsReported ==
    outcome.level = "counted" =>
      outcome.infra.nodes_ready = CountIn(payload.nodes, LAMBDA n : n.ready)
=============================================================================

------------------------------- MODULE MCChat -------------------------------
(* Two parts of the chat for TLC: a question on its way to an answer, and  *)
(* the series a summary is made of.                                        *)
EXTENDS ChatFlow, ChatEvidence, TLC

CONSTANTS fa, fb, fx

VARIABLE part

vars == <<part, chatVars, seriesVars>>

----------------------------------------------------------------------------
(* Phrases.                                                                *)
Word(k) == [kind |-> k]
At(marker, hour, tick) == [marker |-> marker, hour |-> hour, tick |-> tick]
PointAt(a) == [kind |-> "point", marker |-> a.marker, hour |-> a.hour, tick |-> a.tick]
Between(a, b) == [kind |-> "interval", from |-> a, to |-> b]
Recent(n) == [kind |-> "recent", length |-> n]
Date(d) == [kind |-> "date", day |-> d]
Plain == Word("factory") @@ ("name" :> fa)

All == [all |-> TRUE, system |-> TRUE, factories |-> {}]
Viewer(f) == [all |-> FALSE, system |-> FALSE, factories |-> {f}]
Operator == [all |-> FALSE, system |-> TRUE, factories |-> {fa}]
Nobody == [all |-> FALSE, system |-> FALSE, factories |-> {}]

NoTime == [mode |-> "now"]
Reply(intent, f, t, params) == [intent |-> intent, factory |-> f, time |-> t, params |-> params]
Model(intent, f, t) == Reply(intent, f, t, "sound")
Mute == << >>

Ask(said, explicit, resolution, now, images, who, routing, bedrock) ==
    [said |-> said, explicit |-> explicit, resolution |-> resolution, now |-> now,
     images |-> images, who |-> who, routing |-> routing, bedrock |-> bedrock]

(* Times as the rules read them, on a clock of six hours from the third    *)
(* day on; nobody may read, so that the question ends when it is           *)
(* understood.                                                             *)
Clock == (2 * Day)..(3 * Day - 1)
Days == {{}, {Word("dayBefore")}, {Word("yesterday")}, {Word("today")}, {Date(3)}, {Date(Unset), Word("yesterday")}}
Readings == {At(m, h, t) : m \in Markers, h \in 0..(2 * Half), t \in 0..PerHour}
Sides == {At(m, h, t) : m \in {Unset, "am", "pm"}, h \in {0, 1, Half, Half + 2}, t \in {0}}
Told(phrases, times) ==
    {Ask({Word("status"), p} \cup d, fa, Mute, now, FALSE, Nobody, FALSE, FALSE) :
        p \in phrases, d \in Days, now \in times}
ToldPoints == Told({PointAt(a) : a \in Readings}, Clock)
ToldIntervals ==
    Told({Between(a, b) : a \in Sides, b \in Sides}
         \cup {Between(At(Unset, 1, 1), At("pm", 2, PerHour)), Between(At("pm", 2, 1), At(Unset, 1, 0))},
         {2 * Day, 2 * Day + 1, 2 * Day + 5, 3 * Day - 2})

(* Times as the model resolves them, before and after now.                 *)
Anchors == {Unset, TooLong, Day, 2 * Day - 2, 2 * Day, 2 * Day + 1, 3 * Day, 5 * Day}
ModelTimes ==
    {NoTime, [mode |-> Garbled]} \cup {[mode |-> "point", anchor |-> a] : a \in Anchors}
    \cup {[mode |-> "interval", start |-> a, end |-> b] : a \in Anchors, b \in Anchors}
    \cup {[mode |-> "range", length |-> n] : n \in {Unset, 0, 2, TooLong}}
Resolved ==
    {Ask({Word("status")}, Unset, Reply(i, fa, t, p), now, FALSE, Nobody, TRUE, TRUE) :
        i \in {"status", "trend", "spike", Garbled}, t \in ModelTimes, p \in {"sound", Garbled},
        now \in {2 * Day, 2 * Day + 5}}

(* Questions that are answered, by either route.                           *)
Now0 == 2 * Day + 3
Whole == {Recent(DetailWindow + 3), PointAt(At(Unset, 1, 0)), Between(At("am", 1, 0), At("am", 2, 0)), Word("now")}
SaidAll ==
    {{Word(i), t, Plain} : i \in {"cause", "spike", "trend", "status"}, t \in Whole}
    \cup {{Word("report"), Plain} \cup d : d \in Days} \cup {{Word("report"), Word("cloud")}, {}, {Word("cause")}}
    \cup {{Word("spike"), Plain}, {Word("trend"), Recent(TooLong), Plain}}
Hints == {Unset, fb}
Answers == {Mute, Model("cause", CloudInfra, NoTime), Model("poem", fa, NoTime),
            Model("report", CloudInfra, NoTime), Model("trend", fb, NoTime), Model("status", fx, NoTime)}
Served ==
    {Ask(said, e, Mute, Now0, i, w, FALSE, b) :
        said \in SaidAll, e \in Hints, i \in BOOLEAN, b \in BOOLEAN,
        w \in {All, Viewer(fa), Viewer(fb), Operator}}
    \cup {Ask({Word("trend"), Plain}, e, r, Now0, i, w, TRUE, b) :
            e \in Hints, r \in Answers, i \in BOOLEAN, b \in BOOLEAN,
            w \in {All, Viewer(fa), Viewer(fb), Operator}}

Idle == Ask({}, Unset, Mute, Now0, FALSE, Nobody, FALSE, FALSE)
Questions == {Idle} \cup ToldPoints \cup ToldIntervals \cup Resolved \cup Served

----------------------------------------------------------------------------
(* Series: rich but short ones, and plain ones of up to eight scores.      *)
Values == {0, 1, 2, Lacking}
Rich == {i \in [low : Values, mean : Values, high : Values] : Plausible(i)}
Flat(v) == [low |-> Lacking, mean |-> v, high |-> Lacking]
Series ==
    UNION {[1..n -> {i \in Rich : (i.low = Lacking) = (i.high = Lacking)}] : n \in 0..2}
    \cup UNION {[1..n -> {Flat(0), Flat(1), Flat(4)}] : n \in 3..7} \cup [1..8 -> {Flat(0), Flat(1)}]

Init ==
    /\ part \in {"flow", "series"}
    /\ IF part = "flow" THEN ChatInit ELSE asked = Idle /\ ChatStart
    /\ IF part = "series" THEN SeriesInit ELSE series = << >> /\ SeriesStart

InFlow == part = "flow" /\ UNCHANGED <<part, seriesVars>>
InSeries == part = "series" /\ UNCHANGED <<part, chatVars>>
Next ==
    \/ InFlow /\ ChatNext
    \/ InSeries /\ SeriesNext

Spec == Init /\ [][Next]_vars
=============================================================================

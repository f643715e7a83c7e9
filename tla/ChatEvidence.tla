---------------------------- MODULE ChatEvidence ----------------------------
(* The numbers in the evidence of a chat answer (services/chat.py): the    *)
(* summary of a series of items and the search for spikes in it. An item   *)
(* has the mean of the score in its bucket and its extremes, each of which *)
(* may lack; a mean of n values is kept as their sum and n.                *)
EXTENDS Integers, Sequences, FiniteSets, FiniteSetsExt

CONSTANTS
    Shape,   \* the series to summarise
    Lacking  \* a value that is None

(* Each value of an item may lack, and a mean lies between the extremes    *)
(* that are written with it.                                               *)
Item == [low : Int \cup {Lacking}, mean : Int \cup {Lacking}, high : Int \cup {Lacking}]
Plausible(i) ==
    i.mean # Lacking => /\ i.low # Lacking => i.low <= i.mean
                        /\ i.high # Lacking => i.mean <= i.high

ASSUME LackingAssumption == Lacking \notin Int
ASSUME ShapeAssumption ==
    \A s \in Shape : s \in Seq(Item) /\ \A k \in DOMAIN s : Plausible(s[k])

VARIABLES series, summary, spikes

seriesVars == <<series, summary, spikes>>

NoSummary == [n |-> 0, sum |-> 0, low |-> Lacking, high |-> Lacking,
              first |-> Lacking, last |-> Lacking, delta |-> Lacking]

SeriesStart == summary = NoSummary /\ spikes = {}
SeriesInit == series \in Shape /\ SeriesStart

(* _first_number: the extreme of a bucket, else its mean. *)
Floor(i) == IF i.low # Lacking THEN i.low ELSE i.mean
Ceiling(i) == IF i.high # Lacking THEN i.high ELSE i.mean
Present(items, F(_)) == {F(items[k]) : k \in DOMAIN items} \ {Lacking}

(* The scores of a series, the places that have one, their number and sum. *)
Scores(items) == [k \in DOMAIN items |-> items[k].mean]
Scored(s) == {k \in DOMAIN s : s[k] # Lacking}
Count(s) == Cardinality(Scored(s))

OrZero(v) == IF v = Lacking THEN 0 ELSE v
Total(s) ==
    LET upTo[k \in 0..Len(s)] == IF k = 0 THEN 0 ELSE upTo[k - 1] + OrZero(s[k])
    IN upTo[Len(s)]

(* summarize_history. The change runs from the first to the last item, and *)
(* an item without a score counts as zero.                                 *)
SummarizeHistory(items) ==
    LET s == Scores(items) IN
    IF Scored(s) = {} THEN NoSummary
    ELSE [n |-> Count(s), sum |-> Total(s),
          low |-> Min(Present(items, Floor)), high |-> Max(Present(items, Ceiling)),
          first |-> s[1], last |-> s[Len(s)],
          delta |-> OrZero(s[Len(s)]) - OrZero(s[1])]

(* summarize_spikes without a threshold: from three samples on, those 2.5  *)
(* deviations from the mean. With n samples, sum s and squares q the       *)
(* condition |v - s/n| >= 5/2 * sqrt(q/n - (s/n)^2) is multiplied by n.    *)
Squares(s) == Total([k \in DOMAIN s |-> IF s[k] = Lacking THEN Lacking ELSE s[k] * s[k]])
Spread(s) == Count(s) * Squares(s) - Total(s) * Total(s)
Far(s, v, num, den) ==
    LET d == Count(s) * v - Total(s) IN den * (d * d) >= num * Spread(s)
FarByTwo(s, v) == Far(s, v, 4, 1)
FarEnough(s, v) == Far(s, v, 25, 4)

Outliers(s) ==
    IF Count(s) < 3 \/ Spread(s) = 0 THEN {}
    ELSE {k \in Scored(s) : FarEnough(s, s[k])}

Summarize ==
    /\ summary = NoSummary
    /\ summary' = SummarizeHistory(series)
    /\ spikes' = Outliers(Scores(series))
    /\ UNCHANGED series

SeriesNext == Summarize

SeriesSpec == SeriesInit /\ [][SeriesNext]_seriesVars

----------------------------------------------------------------------------
(* The mean lies between the extremes that are reported with it.           *)
ExtremesHoldTheMean ==
    summary.n > 0 => summary.low * summary.n <= summary.sum /\ summary.sum <= summary.high * summary.n

(* Three samples are enough to be searched, but no spike can show among    *)
(* seven: the farthest of n is at most sqrt(n - 1) deviations away.        *)
SpikesNeedEight == spikes # {} => Count(Scores(series)) >= 8

(* The figures of a summary fit one another and the series they are of.    *)
FiguresHold == ExtremesHoldTheMean /\ SpikesNeedEight
=============================================================================

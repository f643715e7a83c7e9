---------------------------- MODULE HistoryQuery ----------------------------
(***************************************************************************)
(* The reads of DynamoDB behind the lists and charts: pages are asked for  *)
(* one after another while the data processor and the aggregator put and   *)
(* replace items, then the items are extracted, merged into wider buckets, *)
(* and filtered.  A timestamp is a number, in five-minute units for the    *)
(* buckets of GRAPH#5M; one metric stands for each family of fields.       *)
(***************************************************************************)
EXTENDS Integers, SequencesExt, FiniteSetsExt

CONSTANTS
    MaxTime,      \* timestamps are 1..MaxTime
    Content,      \* what a put may store: [source, count, mean, lo, hi, nodes]
    PageSize,     \* items of a page, min(300, max_items)
    Cap,          \* max_items, dashboard_factory_scan_limit
    ChunkSize,    \* MAX_BATCH_GET_KEYS
    Factories,    \* the factories, a number each
    MaxPuts,      \* bound on the puts during a query
    Missing       \* None

ASSUME HistoryAssumption ==
    /\ MaxTime \in Nat /\ PageSize \in Nat /\ Cap \in Nat /\ ChunkSize \in Nat
    /\ Factories \subseteq Int /\ IsFiniteSet(Factories)

(* A mean that is written is written with its minimum and maximum. *)
ASSUME ContentAssumption ==
    /\ Missing \notin Int
    /\ \A c \in Content :
         /\ c.source \in Nat \cup {Missing} /\ c.count \in Nat \cup {Missing}
         /\ c.lo \in Int \cup {Missing} /\ c.hi \in Int \cup {Missing}
         /\ c.mean # Missing => /\ {c.lo, c.mean, c.hi} \subseteq Int
                                /\ c.lo <= c.mean /\ c.mean <= c.hi

VARIABLES
    items,     \* the partition asked for: timestamp -> content
    latest,    \* factories with a LATEST item
    query,     \* what is asked: kind, since, until, merge
    phase,     \* "ask", "page" or "done"
    todo,      \* keys of a batch not yet answered; timestamps not yet passed
    got,       \* the items of the pages so far
    answer,
    first,     \* the timestamps that were there when the query began
    puts

queryVars == <<items, latest, query, phase, todo, got, answer, first, puts>>

Times == 1..MaxTime
Raw == {"history", "bounded", "cloud"}

(* window <= 1h reads raw snapshots, longer ones buckets; a client polls   *)
(* with the timestamp it has, the chat gives a bounded window.             *)
Queries ==
    [kind: {"history"}, since: 1..(MaxTime - 1), polls: BOOLEAN, until: {MaxTime + 1}, merge: {1}]
    \cup [kind: {"cloud"}, since: 1..(MaxTime - 1), polls: {FALSE}, until: {MaxTime + 1}, merge: {1}]
    \cup [kind: {"bounded"}, since: 1..(MaxTime - 1), polls: {TRUE}, until: 2..(MaxTime - 1), merge: {1}]
    \cup [kind: {"graph"}, since: 1..2, polls: BOOLEAN, until: {MaxTime + 1}, merge: {1, 2, 4}]
    \cup [kind: {"batch", "scan"}, since: {0}, polls: {FALSE}, until: {0}, merge: {1}]

(* The numbers of a set in ascending order. *)
Ascending(ts) ==
    CHOOSE s \in [1..Cardinality(ts) -> ts] : \A i, j \in DOMAIN s : i < j => s[i] < s[j]

-----------------------------------------------------------------------------
(* Extraction and merging *)

Each(group, F(_)) == [i \in DOMAIN group |-> F(group[i])]
Known(values) == ToSet(values) \ {Missing}

(* The sum of a sequence, what is missing counting nothing. *)
Total(values) ==
    LET upTo[i \in 0..Len(values)] ==
            IF i = 0 THEN 0
            ELSE upTo[i - 1] + (IF values[i] = Missing THEN 0 ELSE values[i])
    IN upTo[Len(values)]

(* A mean is a fraction. *)
Whole(v) == IF v = Missing THEN Missing ELSE [sum |-> v, of |-> 1]

(* _extract_infra_nodes_mean *)
NodesMean(nodes) == [k \in DOMAIN nodes |-> Whole(nodes[k])]

(* _extract_graph_5m: an empty bucket has no risk. *)
ExtractGraph(t, c) ==
    LET n == IF c.source # Missing THEN c.source ELSE c.count IN
    [from |-> t, to |-> t + 1, samples |-> n,
     mean |-> IF n = 0 THEN Missing ELSE Whole(c.mean),
     lo |-> IF n = 0 THEN Missing ELSE c.lo,
     hi |-> IF n = 0 THEN Missing ELSE c.hi,
     nodes |-> NodesMean(c.nodes)]

(* _extract *)
Extract(t, c) ==
    [from |-> t, to |-> t, samples |-> Missing, mean |-> Whole(c.mean),
     lo |-> Missing, hi |-> Missing, nodes |-> NodesMean(c.nodes)]

Weight(b) == IF b.samples = Missing THEN 0 ELSE b.samples

Counts(b) == IF b.mean = Missing THEN Missing ELSE Weight(b)
Share(b) == IF b.mean = Missing THEN Missing ELSE b.mean.sum * Weight(b)
Mean(sum, of) == IF of = 0 THEN Missing ELSE [sum |-> sum, of |-> of]

(* Mutant: the weights of buckets without the field count too. *)
WeightedMeanOfAll(group) == Mean(Total(Each(group, Share)), Total(Each(group, Weight)))

(* _wavg; only buckets as extracted, whose means are whole, are merged. *)
WeightedMean(group) == Mean(Total(Each(group, Share)), Total(Each(group, Counts)))

(* _fmin, _fmax, _fsum *)
Lowest(values) == IF Known(values) = {} THEN Missing ELSE Min(Known(values))
Highest(values) == IF Known(values) = {} THEN Missing ELSE Max(Known(values))
Summed(values) == IF Known(values) = {} THEN Missing ELSE Total(values)

(* _merge_nodes_mean: every bucket of a node counts the same. *)
MergeNodes(group) ==
    LET Of(k) == {i \in DOMAIN group : k \in DOMAIN group[i].nodes /\ group[i].nodes[k] # Missing}
        Sums(k) == [i \in DOMAIN group |-> IF i \in Of(k) THEN group[i].nodes[k].sum ELSE Missing]
    IN [k \in UNION {DOMAIN group[i].nodes : i \in DOMAIN group} |->
           Mean(Total(Sums(k)), Cardinality(Of(k)))]

(* _merge_extracted_group *)
Merge(group) ==
    [from |-> Head(group).from, to |-> group[Len(group)].to,
     samples |-> Summed(Each(group, LAMBDA b : b.samples)),
     mean |-> WeightedMean(group),
     lo |-> Lowest(Each(group, LAMBDA b : b.lo)),
     hi |-> Highest(Each(group, LAMBDA b : b.hi)),
     nodes |-> MergeNodes(group)]

(* _reaggregate_extracted: groups by position, the last one may be short. *)
Reaggregate(buckets, n) ==
    [g \in 1..((Len(buckets) + n - 1) \div n) |->
        Merge(SubSeq(buckets, (g - 1) * n + 1, Min({g * n, Len(buckets)})))]

(* _filter_after_since, when the caller gave since, and _filter_before_until *)
Passes(b) == (query.polls => b.from > query.since) /\ b.from <= query.until

Filter(buckets) ==
    LET places == Ascending({i \in DOMAIN buckets : Passes(buckets[i])}) IN
    [i \in DOMAIN places |-> buckets[places[i]]]

-----------------------------------------------------------------------------
(* Pages *)

QueryInit ==
    /\ items \in UNION {[ts -> Content] : ts \in SUBSET Times}
    /\ latest \in SUBSET Factories
    /\ query \in Queries
    /\ phase = "ask"
    /\ todo = {} /\ got = << >> /\ answer = << >> /\ first = {} /\ puts = 0

ByKey == query.kind \in {"batch", "scan"}

(* ScanIndexForward=bool(until_sk); buckets ascend. *)
NewestFirst == query.kind \in {"history", "cloud"}

(* The key condition: between since_sk and until_sk, both included. *)
AskTable ==
    /\ phase = "ask" /\ phase' = "page"
    /\ todo' = IF ByKey THEN Factories ELSE query.since..query.until
    /\ first' = IF ByKey THEN latest ELSE DOMAIN items \cap (query.since..query.until)
    /\ UNCHANGED <<items, latest, query, got, answer, puts>>

Left == {t \in DOMAIN items : t \in todo}

(* In key order; what is put behind the cursor is not seen any more. *)
Ordered(ts) == IF NewestFirst THEN Reverse(Ascending(ts)) ELSE Ascending(ts)

(* The loop ends with the cap, or without a LastEvaluatedKey; a query of   *)
(* buckets has no cap.                                                     *)
Enough(found, more) ==
    ~more \/ (query.kind # "graph" /\ Len(found) >= Cap)

(* Cut at the cap, turned into ascending order, extracted, merged and      *)
(* filtered.                                                               *)
Finish(found) ==
    LET cut == IF query.kind = "graph" THEN found ELSE SubSeq(found, 1, Min({Cap, Len(found)}))
    IN IF query.kind = "graph"
       THEN Filter(IF query.merge > 1 THEN Reaggregate(cut, query.merge) ELSE cut)
       ELSE Filter(IF NewestFirst THEN Reverse(cut) ELSE cut)

Extracted(t) == IF query.kind = "graph" THEN ExtractGraph(t, items[t]) ELSE Extract(t, items[t])

(* One call of table.query with ExclusiveStartKey: some of the next items, *)
(* and a LastEvaluatedKey, which may be there although nothing is left.    *)
QueryPage ==
    /\ phase = "page" /\ ~ByKey
    /\ \E n \in 0..PageSize, more \in BOOLEAN :
         LET page == SubSeq(Ordered(Left), 1, Min({n, Cardinality(Left)}))
             found == got \o Each(page, Extracted)
         IN /\ n = 0 => Left = {}
            /\ Len(page) < Cardinality(Left) => more
            /\ got' = found
            /\ todo' = {t \in todo : \A i \in DOMAIN page :
                          IF NewestFirst THEN t < page[i] ELSE t > page[i]}
            /\ IF Enough(found, more) THEN phase' = "done" /\ answer' = Finish(found)
               ELSE phase' = phase /\ UNCHANGED answer
            /\ more => page # << >>
    /\ UNCHANGED <<items, latest, query, first, puts>>

(* _list_factories_by_scan_sync: pages of the whole table, LATEST filtered *)
(* out of each, in no order; cut at the limit, then sorted.                *)
ScanPage ==
    /\ phase = "page" /\ query.kind = "scan"
    /\ \E passed \in SUBSET todo :
         LET more == passed # todo
             found == got \o SetToSeq(passed \cap latest)
         IN /\ passed # {} \/ todo = {}
            /\ got' = found /\ todo' = todo \ passed
            /\ IF Enough(found, more)
               THEN /\ phase' = "done"
                    /\ answer' = Ordered(ToSet(SubSeq(found, 1, Min({Cap, Len(found)}))))
               ELSE phase' = phase /\ UNCHANGED answer
    /\ UNCHANGED <<items, latest, query, first, puts>>

(* Mutant: what a response left unprocessed is not asked for again. *)
ForgetUnprocessed(chunk, done) == todo \ chunk

KeepUnprocessed(chunk, done) == todo \ done

(* _list_factories_sync: a chunk of keys; a response answers some of them  *)
(* and returns the others as UnprocessedKeys, which are asked for first.   *)
BatchPage ==
    /\ phase = "page" /\ query.kind = "batch"
    /\ LET chunk == ToSet(SubSeq(Ascending(todo), 1, Min({ChunkSize, Cardinality(todo)})))
       IN \E done \in SUBSET chunk :
            /\ todo # {} => done # {}
            /\ got' = got \o SetToSeq(done \cap latest)
            /\ todo' = KeepUnprocessed(chunk, done)
    /\ IF todo' = {} THEN phase' = "done" /\ answer' = got'
       ELSE phase' = phase /\ UNCHANGED answer
    /\ UNCHANGED <<items, latest, query, first, puts>>

(* An item is put, late ones included, or a factory gets its first LATEST. *)
Put ==
    /\ phase = "page" /\ puts < MaxPuts /\ puts' = puts + 1
    /\ IF ByKey THEN latest' \in {latest \cup {k} : k \in Factories} /\ UNCHANGED items
       ELSE /\ \E t \in Times, c \in Content : items' = [x \in DOMAIN items \cup {t} |->
                                                          IF x = t THEN c ELSE items[x]]
            /\ UNCHANGED latest
    /\ UNCHANGED <<query, phase, todo, got, answer, first>>

QueryNext == AskTable \/ QueryPage \/ ScanPage \/ BatchPage \/ Put

QuerySpec == QueryInit /\ [][QueryNext]_queryVars

-----------------------------------------------------------------------------
Stamps == {answer[i].from : i \in DOMAIN answer}

(* The cap of an open-ended window drops the oldest items and that of a    *)
(* bounded one the newest; nothing else that was there when the query      *)
(* began is left out, whatever is put between its pages.                   *)
CapDropsTheFarEnd ==
    phase = "done" /\ query.kind \in Raw =>
        \A t \in first :
            (t \in Stamps) \/ (query.polls /\ t = query.since)
            \/ /\ Len(got) >= Cap
               /\ \A s \in Stamps : IF query.kind = "bounded" THEN s < t ELSE s > t

(* An answer ascends without repetitions, and a client that polls is never *)
(* sent again what it has.                                                 *)
AnswerAscends ==
    phase = "done" /\ ~ByKey =>
        /\ \A i \in 1..(Len(answer) - 1) : answer[i].to <= answer[i + 1].from
                                           /\ answer[i].from < answer[i + 1].from
        /\ query.polls => \A s \in Stamps : s > query.since

(* Merged or not, every bucket is in the answer, except that one who polls *)
(* loses those that share the group of the bucket it has.                  *)
BucketsAreCovered ==
    phase = "done" /\ query.kind = "graph" =>
        LET skipped == IF query.polls /\ query.since \in {got[i].from : i \in DOMAIN got}
                       THEN query.merge ELSE 0
        IN \A i \in (skipped + 1)..Len(got) :
             \E j \in DOMAIN answer : answer[j].from <= got[i].from /\ got[i].to <= answer[j].to

(* The mean that is drawn lies in the band that is drawn around it, also   *)
(* where buckets are empty or lack the field.                              *)
MeanInBand ==
    phase = "done" /\ query.kind = "graph" =>
        \A i \in DOMAIN answer :
            LET b == answer[i] IN
            b.mean # Missing =>
                /\ b.lo # Missing /\ b.hi # Missing
                /\ b.lo * b.mean.of <= b.mean.sum
                /\ b.mean.sum <= b.hi * b.mean.of

(* The list of factories has each one that had data once, up to the limit. *)
FactoriesListedOnce ==
    phase = "done" /\ ByKey =>
        /\ IsInjective(answer)
        /\ first \subseteq ToSet(answer) \/ (query.kind = "scan" /\ Len(answer) = Cap)

(* What a list or chart gets is its range, in order, cut at the right end. *)
AnswerIsTheRange == CapDropsTheFarEnd /\ AnswerAscends /\ FactoriesListedOnce

(* Wider buckets leave nothing out and keep a mean within its band.        *)
BucketsAreFaithful == BucketsAreCovered /\ MeanInBand
=============================================================================

------------------------------ MODULE ChatFlow ------------------------------
(* POST /chat/query (routers/chat.py, services/bedrock.py): one question   *)
(* from its resolution over the permission and the reads of its intent to  *)
(* the answer. Reads of S3 and DynamoDB and calls of Bedrock fail at any   *)
(* point; an object may vanish between its listing and its read.           *)
(*                                                                         *)
(* Evidence keeps which facts it confirms and which notes it lists as      *)
(* missing: <<source, what>>, the note a reader of the answer sees.        *)
EXTENDS ChatQuery

CONSTANTS
    Question,      \* [said, explicit, resolution, now, images, who, routing, bedrock]
    DetailWindow,  \* longest scope that is read in detail (15 minutes)
    Plant          \* factory ids that are well formed

ASSUME QuestionAssumption ==
    \A q \in Question :
      /\ q.now \in Int /\ WellSaid(q.said)
      /\ "intent" \in DOMAIN q.resolution => WellResolved(q.resolution.time)

VARIABLES asked, stage, parsed, router, found, evidence, reads, failed, answer

chatVars == <<asked, stage, parsed, router, found, evidence, reads, failed, answer>>

NoEvidence == [confirmed |-> {}, missing |-> {}]
NoAnswer == [status |-> 0, generator |-> Unset, images |-> FALSE]

(* What reading a source may bring: buckets or details with a risk score,  *)
(* without one, or nothing; "caused" details also carry top causes.        *)
Sources ==
    [aggregates |-> {"empty", "blank", "risk"},
     details |-> {"empty", "blank", "caused", "uncaused"},
     lowest |-> {"empty", "caused", "uncaused"},
     scores |-> {"empty", "caused", "uncaused"},
     recent |-> {"empty", "blank", "caused", "uncaused"},
     latest |-> {"empty", "fresh", "stale"},
     reports |-> {"empty", "listed"}, report |-> {"matched", "unmatched"},
     images |-> {"empty", "pictures"}]
Listed == {"aggregates", "details", "lowest", "scores"}

ChatStart ==
    /\ stage = "ask" /\ parsed = Unset /\ router = "rule"
    /\ found = << >> /\ evidence = NoEvidence
    /\ reads = {} /\ failed = {} /\ answer = NoAnswer
ChatInit == asked \in Question /\ ChatStart

----------------------------------------------------------------------------
SystemAccess == asked.who.all \/ asked.who.system
MayRead(target) ==
    IF target = CloudInfra THEN SystemAccess
    ELSE asked.who.all \/ target \in asked.who.factories
MayReadHinted(target) ==
    MayRead(IF asked.explicit # Unset THEN asked.explicit ELSE CHOOSE f \in Plant : TRUE)
Allowed(target) == MayRead(target)

(* A trend, a search for spikes and a past moment are read from S3.        *)
Historical(p) ==
    \/ p.intent = "spike"
    \/ p.time.kind \in {"point", "interval"}
    \/ p.time.kind = "range" /\ p.intent # "status"

FirstRead(p) ==
    IF p.intent = "report"
    THEN IF ParseReportDate(asked.said, asked.now) = Unset THEN "reports" ELSE "report"
    ELSE IF Historical(p) THEN IF p.time.start = Unset THEN "recent" ELSE "aggregates"
    ELSE IF p.intent = "cause" THEN "recent" ELSE "latest"

InDetail(p) ==
    \/ p.time.kind = "point" \/ p.intent = "cause"
    \/ p.time.end - p.time.start <= DetailWindow

WantsImages(p) == asked.images /\ p.factory # CloudInfra

Settled(status, generator, images) ==
    /\ stage' = "done"
    /\ answer' = [status |-> status, generator |-> generator, images |-> images]

(* The handler after a resolution: nothing is read for a question without  *)
(* intent or target, and none before the permission for the target.        *)
Admit(p, source) ==
    /\ parsed' = p /\ router' = source
    /\ IF p.time.kind = "failed" THEN Settled(500, Unset, FALSE) /\ UNCHANGED evidence
       ELSE IF "unknown" = p.intent \/ Unset = p.factory THEN
           /\ evidence' = [NoEvidence EXCEPT !.missing = {<<"question", "unresolved">>}]
           /\ Settled(200, "rule", FALSE)
       ELSE IF ~Allowed(p.factory) THEN Settled(403, Unset, FALSE) /\ UNCHANGED evidence
       ELSE stage' = FirstRead(p) /\ UNCHANGED <<evidence, answer>>
    /\ UNCHANGED <<asked, found, reads, failed>>

AskRules == Admit(ParseQuery(asked.said, asked.explicit, asked.now), "rule")

(* resolve_query: without a tool call in time the rules are asked, and so  *)
(* they are when its input has no intent.                                  *)
ToolCalled == asked.bedrock /\ "intent" \in DOMAIN asked.resolution
AskModel == Admit(MapResolution(asked.resolution, asked.explicit, Plant, asked.now), "llm")
Resolve ==
    /\ stage = "ask"
    /\ \/ asked.routing /\ ToolCalled /\ AskModel
       \/ AskRules

----------------------------------------------------------------------------
(* Evidence. summarize_history and summarize_spikes of the items read.     *)
Note(e, notes) == [e EXCEPT !.missing = @ \cup notes]
Items(f) == IF "details" \in DOMAIN f /\ f.details # "empty" THEN f.details ELSE f.aggregates

Summarized(p, items) ==
    [confirmed |-> IF items \in {"empty", "blank"} THEN {}
                   ELSE IF items = "caused" /\ p.intent # "spike" THEN {"values", "causes"}
                   ELSE {"values"},
     missing |-> IF items \in {"empty", "blank"} THEN {<<"items", "risk">>}
                 ELSE IF items = "risk" /\ p.intent # "spike" THEN {<<"items", "causes">>} ELSE {}]

(* The counts of what was read and the notes of _get_s3_bounded_history    *)
(* are added to the summary.                                               *)
ReadNotes(f) ==
    {<<s, "failed">> : s \in failed'} \cup {<<s, "empty">> : s \in {x \in DOMAIN f : f[x] = "empty"}}
Bound(p, f) ==
    LET e == Summarized(p, Items(f))
    IN  [Note(e, ReadNotes(f)) EXCEPT !.confirmed = @ \cup {"window"}]

(* enrich_history_with_*: causes found replace the note that they lack.    *)
StaleNotes(missing) == missing
WithoutCauseNotes(missing) == missing \ {<<"items", "causes">>}
Enriched(e, source, got) ==
    IF got = "caused"
    THEN [confirmed |-> e.confirmed \cup {"causes", source}, missing |-> WithoutCauseNotes(e.missing)]
    ELSE Note(e, {<<source, IF got = "empty" THEN "empty" ELSE "causes">>})

(* What is read after the summary: around the minimum of a trend without   *)
(* causes, or the scores of the scope of a cause.                          *)
AfterSummary(p, e) ==
    IF p.intent = "trend" /\ <<"items", "causes">> \in e.missing THEN "lowest"
    ELSE IF p.intent = "cause" THEN "scores" ELSE "image"

LatestSummary(got) ==
    [confirmed |-> IF got = "empty" THEN {} ELSE {"values"},
     missing |-> IF got = "fresh" THEN {} ELSE {<<"latest", got>>}]
ReportSummary(got) ==
    [confirmed |-> {"report"}, missing |-> IF got = "matched" THEN {} ELSE {<<"report", got>>}]
SummaryOf(source, got) ==
    CASE source = "latest" -> LatestSummary(got)
      [] source = "recent" -> Summarized(parsed, got)
      [] source = "report" -> ReportSummary(got)

----------------------------------------------------------------------------
(* Reads, each a call in a thread with a timeout.                          *)
Reading(source) ==
    /\ stage = source
    /\ reads' = reads \cup {<<source, parsed.factory>>}
    /\ UNCHANGED <<asked, parsed, router>>

Got(source, o) == found' = [s \in DOMAIN found \cup {source} |-> IF s = source THEN o ELSE found[s]]

(* The two reads of a bounded history, in turn, of which either may fail.  *)
Collected(source) ==
    IF source = "aggregates" /\ InDetail(parsed)
    THEN stage' = "details" /\ UNCHANGED evidence
    ELSE /\ evidence' = Bound(parsed, found')
         /\ stage' = AfterSummary(parsed, evidence')
ReadHistory(source) ==
    /\ source \in {"aggregates", "details"} /\ Reading(source)
    /\ \E o \in Sources[source] : Got(source, o)
    /\ UNCHANGED <<failed, answer>> /\ Collected(source)

ReadCauses(source) ==
    /\ source \in {"lowest", "scores"} /\ Reading(source)
    /\ \E o \in Sources[source] : Got(source, o) /\ evidence' = Enriched(evidence, source, o)
    /\ stage' = "image" /\ UNCHANGED <<failed, answer>>

(* A list or details that S3 does not bring in time are noted as missing.  *)
ListFails(source) ==
    /\ source \in Listed /\ Reading(source)
    /\ failed' = failed \cup {source}
    /\ IF source \in {"aggregates", "details"}
       THEN Got(source, "empty") /\ Collected(source)
       ELSE /\ evidence' = Note(evidence, {<<source, "failed">>})
            /\ stage' = "image" /\ UNCHANGED found
    /\ UNCHANGED answer

(* An object of a list that is gone when it is read ends the question the  *)
(* way a daily report that does not exist does.                            *)
NotFound ==
    /\ evidence' = [NoEvidence EXCEPT !.missing = {<<"report", "absent">>}]
    /\ Settled(200, "rule", FALSE)
Vanished(source) ==
    /\ source \in Listed \cup {"report"} /\ Reading(source)
    /\ NotFound /\ UNCHANGED <<found, failed>>

ReadOnce(source) ==
    /\ source \in {"latest", "recent", "report"} /\ Reading(source)
    /\ \E o \in Sources[source] : Got(source, o) /\ evidence' = SummaryOf(source, o)
    /\ stage' = "image" /\ UNCHANGED <<failed, answer>>

ReadReports ==
    /\ Reading("reports") /\ UNCHANGED failed
    /\ \E o \in Sources.reports :
         /\ Got("reports", o)
         /\ IF o = "empty" THEN NotFound ELSE stage' = "report" /\ UNCHANGED <<evidence, answer>>

(* No other source answers for the latest item or for a report.            *)
Fails(source) ==
    /\ source \in {"latest", "recent", "reports", "report"} /\ Reading(source)
    /\ failed' = failed \cup {source} /\ Settled(504, Unset, FALSE)
    /\ UNCHANGED <<found, evidence>>

(* _maybe_fetch_image_ref: pictures are for those with system access, and  *)
(* within the scope of the question or of its first spike.                 *)
Pictures(o) ==
    /\ evidence' = IF o = "pictures" THEN [evidence EXCEPT !.confirmed = @ \cup {"images"}]
                   ELSE Note(evidence, {<<"images", o>>})
    /\ failed' = IF o = "failed" THEN failed \cup {"images"} ELSE failed
    /\ stage' = "explain" /\ UNCHANGED <<found, answer>>
ReadImages ==
    /\ stage = "image"
    /\ IF ~WantsImages(parsed)
       THEN stage' = "explain" /\ UNCHANGED <<asked, parsed, router, found, evidence, reads, failed, answer>>
       ELSE IF ~SystemAccess
       THEN Settled(403, Unset, FALSE) /\ UNCHANGED <<asked, parsed, router, found, evidence, reads, failed>>
       ELSE IF parsed.time.start = Unset
       THEN Pictures("unbounded") /\ UNCHANGED <<asked, parsed, router, reads>>
       ELSE \E o \in Sources.images \cup {"failed"} :
              /\ reads' = reads \cup {<<"images", parsed.factory>>}
              /\ Pictures(o) /\ UNCHANGED <<asked, parsed, router>>

(* _explain: an empty, cut off or late answer of Bedrock is replaced by    *)
(* the template.                                                           *)
ModelFails == Settled(200, "rule", "images" \in evidence.confirmed)
ModelAnswers == asked.bedrock /\ Settled(200, "bedrock", "images" \in evidence.confirmed)
Explain ==
    /\ stage = "explain"
    /\ ModelAnswers \/ ModelFails
    /\ UNCHANGED <<asked, parsed, router, found, evidence, reads, failed>>

ChatNext ==
    \/ Resolve \/ ReadReports \/ ReadImages \/ Explain
    \/ \E s \in DOMAIN Sources :
         ReadHistory(s) \/ ReadCauses(s) \/ ListFails(s) \/ Vanished(s) \/ ReadOnce(s) \/ Fails(s)

ChatSpec == ChatInit /\ [][ChatNext]_chatVars

----------------------------------------------------------------------------
(* The properties. After a resolution that raised nothing:                 *)
Understood == stage # "ask" /\ parsed.time.kind # "failed"
MissingReport == <<"report", "absent">> \in evidence.missing

(* A scope begins by now and ends after it begins, at most the half window *)
(* of a point after now, whatever the model made up; only a day the        *)
(* question itself names may lie ahead.                                    *)
ScopeIsPast ==
    Understood /\ parsed.time.start # Unset /\ (router = "rule" => ~ExplicitDay(asked.said))
    => /\ parsed.time.start <= parsed.time.end /\ parsed.time.start <= asked.now
       /\ parsed.time.end <= asked.now + HalfWindow

(* The hours a reading names: am and pm say which half of the day a clock  *)
(* of twelve hours is in, a reading past twelve and one without marker is  *)
(* of the day. What the night names no document says: as the code has it.  *)
NamedHours(marker, h) ==
    CASE marker = "noon" -> {Half}
      [] marker = "midnight" -> {0}
      [] marker = "am" /\ h <= Half -> {h - Half, h, h + Half} \cap 0..(Half - 1)
      [] marker = "pm" /\ h <= Half -> {h - Half, h, h + Half} \cap Half..(2 * Half - 1)
      [] marker = "night" -> {ResolveHour(marker, h)}
      [] OTHER -> {h % (2 * Half)}

(* A point without marker before noon is in either half.                   *)
Shows(t, marker, h, m) ==
    \E x \in (IF marker = Unset /\ h \in 1..(Half - 1) THEN {h, h + Half} ELSE NamedHours(marker, h)) :
        t % Day = x * PerHour + m

(* An hour without a day is the latest instant by now that shows it.       *)
UndatedPointIsLatest ==
    Understood /\ router = "rule" /\ parsed.time.kind = "point" /\ ~ExplicitDay(asked.said)
    => LET p == Phrase(asked.said, "point")
           past == {t \in (asked.now - Day)..asked.now : Shows(t, p.marker, p.hour, p.tick)}
       IN  parsed.time.target = Max(past)

(* An interval without a day is the latest that has begun, and ends where  *)
(* its end is shown first, unless that is still to come.                   *)
UndatedIntervalIsLatest ==
    Understood /\ router = "rule" /\ parsed.time.kind = "interval" /\ ~ExplicitDay(asked.said)
    => LET p == Phrase(asked.said, "interval")
           from == IF p.from.marker = Unset THEN p.to.marker ELSE p.from.marker
           to == IF p.to.marker = Unset THEN p.from.marker ELSE p.to.marker
           Starts(t) == \E x \in NamedHours(from, p.from.hour) : t % Day = x * PerHour + p.from.tick
           Ends(t) == \E x \in NamedHours(to, p.to.hour) : t % Day = x * PerHour + p.to.tick
           start == Max({t \in (asked.now - Day)..asked.now : Starts(t)})
           end == Min({t \in (start + 1)..(start + Day) : Ends(t)})
       IN  parsed.time.start = start /\ parsed.time.end = Min({end, asked.now})

(* What a question means in time is what it says, and lies in the past.    *)
ScopeIsRight == ScopeIsPast /\ UndatedPointIsLatest /\ UndatedIntervalIsLatest

(* A trend or a search for spikes is never read from the history that      *)
(* DynamoDB keeps for two hours only.                                      *)
TrendsReadTheArchive ==
    \A r \in reads : r[1] = "recent" => parsed.intent = "cause"

(* What is read belongs to a target the principal may read when it is      *)
(* read, whoever named it, and pictures need system access besides.        *)
PermissionBeforeReads ==
    \A r \in reads : MayRead(r[2]) /\ (r[1] = "images" => SystemAccess)

(* Every read is permitted, and from the store that holds its range.       *)
ReadsAreDue == PermissionBeforeReads /\ TrendsReadTheArchive

(* An answer made of evidence names every source that failed for it; that  *)
(* a report is absent, said of a history whose object vanished too, drops  *)
(* the names (MissingIsSurfaced).                                          *)
FailuresAreNamed ==
    stage = "done" /\ answer.status = 200 /\ ~MissingReport
    => \A s \in failed : <<s, "failed">> \in evidence.missing

(* The note that the items lack causes goes once causes are found; that    *)
(* the scores lack them may be noted beside causes of the items            *)
(* (CausesAreConfirmedOrMissing).                                          *)
ItemsNoteGoes ==
    "causes" \in evidence.confirmed => <<"items", "causes">> \notin evidence.missing

(* What neither timedelta nor datetime can hold, in the words or in the    *)
(* model's reply, and a reply that is not what its tool asks for.          *)
BeyondClock(q) ==
    \E p \in q : \/ p.kind = "recent" /\ p.length = TooLong
                 \/ p.kind = "point" /\ p.tick = PerHour
                 \/ p.kind = "interval" /\ PerHour \in {p.from.tick, p.to.tick}
Spoiled(r) ==
    \/ Garbled \in {r.intent, r.params, r.time.mode}
    \/ r.time.mode = "range" /\ r.time.length = TooLong
    \/ r.time.mode = "point" /\ r.time.anchor = TooLong
    \/ r.time.mode = "interval" /\ TooLong \in {r.time.start, r.time.end}

(* A refusal has a permission that lacks, a timeout a store without        *)
(* substitute that failed, and an error words beyond the clock or, against *)
(* InvalidFallsBack, a spoiled reply; no other trouble of a model fails a  *)
(* question.                                                               *)
StatusHasCause ==
    stage = "done" =>
      /\ answer.status = 403 => ~MayRead(parsed.factory) \/ (asked.images /\ ~SystemAccess)
      /\ answer.status = 504 => failed \ (Listed \cup {"images"}) # {}
      /\ answer.status = 500 =>
            IF router = "rule" THEN BeyondClock(asked.said) ELSE Spoiled(asked.resolution)

(* Evidence owns up to what failed, keeps no note that its items lack what *)
(* was found, and a question fails for a cause.                            *)
AnswerIsHonest == FailuresAreNamed /\ ItemsNoteGoes /\ StatusHasCause

(* What the repository says and the code does not keep; no run checks it.  *)

(* services/chat.py:20, missing data is surfaced explicitly: the answer    *)
(* that a report is absent, given for an object of a list that vanished,   *)
(* replaces evidence with the notes of what had failed before.             *)
MissingIsSurfaced ==
    stage = "done" /\ answer.status = 200 => \A s \in failed : <<s, "failed">> \in evidence.missing

(* tests/test_chat.py:982, an answer that states causes does not list them *)
(* as missing: scores without causes are noted beside those of the items.  *)
CausesAreConfirmedOrMissing ==
    "causes" \in evidence.confirmed => \A s \in DOMAIN Sources : <<s, "causes">> \notin evidence.missing

(* routers/chat.py:307, any failure or invalid result of the resolution    *)
(* falls back to the rules: a spoiled reply fails the question.            *)
InvalidFallsBack == answer.status = 500 => router = "rule"
=============================================================================

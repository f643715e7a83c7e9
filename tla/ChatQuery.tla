----------------------------- MODULE ChatQuery -----------------------------
(* What a chat question asks for (services/chat.py): the rule parser and   *)
(* the mapping of what the language model resolved, both down to an        *)
(* intent, a target and a bounded time scope.                              *)
(*                                                                         *)
(* A question is the set of phrases the patterns of the parser find in it, *)
(* at most one of a kind. Time is counted in ticks of Korean local time; a *)
(* day has 2 * Half hours of PerHour ticks, of which a clock reading names *)
(* the hour and a tick, or PerHour for "75 minutes".                       *)
EXTENDS Integers, Sequences, FiniteSets, FiniteSetsExt

CONSTANTS
    Half,       \* hours before noon (12)
    PerHour,    \* ticks of an hour
    HalfWindow, \* ticks read on either side of a point (5 minutes)
    Default,    \* ticks of a range that nobody bounded (6 hours)
    Unset,      \* None
    TooLong,    \* a span no timedelta holds, an instant too long ago to convert
    Garbled,    \* what the model must not fill in: an object for a name
    CloudInfra  \* the target of reports that is not a factory

ASSUME ClockAssumption ==
    Half \in Nat \ {0} /\ PerHour \in Nat \ {0} /\ HalfWindow \in Nat /\ Default \in Nat
ASSUME UnsetAssumption ==
    /\ Unset \notin Int \cup {"am", "pm", "night", "noon", "midnight"}
    /\ TooLong \notin Int \cup {Unset}
    /\ Garbled \notin {"range", "point", "interval"}

Day == 2 * Half * PerHour
Midnight(t) == (t \div Day) * Day

(* What the patterns can find: \d{1,2} hours and minutes, a number and its *)
(* unit, a date of the calendar or not.                                    *)
Markers == {Unset, "am", "pm", "night", "noon", "midnight"}
ClockReading(a) == a.hour \in Nat /\ a.tick \in 0..PerHour /\ a.marker \in Markers
WellSaid(q) ==
    \A p \in q : /\ p.kind = "recent" => p.length \in Nat \cup {TooLong}
                 /\ p.kind = "point" => ClockReading(p)
                 /\ p.kind = "interval" => ClockReading(p.from) /\ ClockReading(p.to)
                 /\ p.kind = "date" => p.day \in Int \cup {Unset}

(* And what the model can have filled in of a time. *)
WellResolved(t) ==
    /\ t.mode = "range" => t.length \in Nat \cup {Unset, TooLong}
    /\ t.mode = "point" => t.anchor \in Int \cup {Unset, TooLong}
    /\ t.mode = "interval" => {t.start, t.end} \subseteq Int \cup {Unset, TooLong}

Says(q, kind) == \E p \in q : p.kind = kind
Phrase(q, kind) == CHOOSE p \in q : p.kind = kind

----------------------------------------------------------------------------
(* Scopes. A conversion that raises, which no caller catches, is Failed.   *)
Scope(kind, window, start, end, target, assumed) ==
    [kind |-> kind, window |-> window, start |-> start, end |-> end,
     target |-> target, assumed |-> assumed]
Failed == Scope("failed", Unset, Unset, Unset, Unset, FALSE)
Now(assumed) == Scope("now", "1h", Unset, Unset, Unset, assumed)
Trailing(length, now, assumed) ==
    IF length = TooLong THEN Failed
    ELSE Scope("range", length, now - length, now, Unset, assumed)

PointScope(t, now, assumed) ==
    Scope("point", IF now - t <= PerHour THEN "1h" ELSE "24h",
          t - HalfWindow, t + HalfWindow, t, assumed)

(* The end is clamped to now; the source follows the age of the start.     *)
IntervalScope(start, end, now, assumed) ==
    Scope("interval", IF now - start <= PerHour THEN "1h" ELSE "6h",
          start, Min({end, now}), Unset, assumed)

----------------------------------------------------------------------------
(* The rule parser.                                                        *)
Intents == <<"report", "cause", "spike", "trend", "status">>
Suggests(q, intent) ==
    \/ Says(q, intent)
    \/ intent = "trend" /\ Says(q, "recent")
    \/ intent = "status" /\ Says(q, "now")
ParseIntent(q) ==
    LET found == SelectSeq(Intents, LAMBDA i : Suggests(q, i))
    IN  IF found = << >> THEN "unknown" ELSE Head(found)

ParseFactory(q, explicit) ==
    IF explicit # Unset THEN explicit
    ELSE IF Says(q, "report") /\ Says(q, "cloud") THEN CloudInfra
    ELSE IF Says(q, "factory") THEN Phrase(q, "factory").name ELSE Unset

(* The hour of the day. The evening is pm, the dawn and the morning are    *)
(* am; the hours of a night are taken for those of the afternoon, its      *)
(* twelve for noon and its one for thirteen.                               *)
ResolveHour(marker, h) ==
    CASE marker \in {"pm", "night"} /\ h < Half -> h + Half
      [] marker = "am" /\ h = Half -> 0
      [] marker = "noon" -> Half
      [] marker = "midnight" -> 0
      [] OTHER -> h % (2 * Half)

(* The day a question names, in ticks of its midnight; a date that the     *)
(* calendar does not have counts as none.                                  *)
Dated(q) == Says(q, "date") /\ Phrase(q, "date").day # Unset
ExplicitDay(q) == Dated(q) \/ \E w \in {"dayBefore", "yesterday", "today"} : Says(q, w)
BaseDay(q, now) ==
    IF Dated(q) THEN Phrase(q, "date").day * Day
    ELSE Midnight(now) - (IF Says(q, "dayBefore") THEN 2
                          ELSE IF Says(q, "yesterday") THEN 1 ELSE 0) * Day

(* An hour without marker and day is its latest past reading, before or    *)
(* after noon.                                                             *)
UnmarkedHours(h) == {h % (2 * Half)} \cup (IF h \in 1..(Half - 1) THEN {h + Half} ELSE {})
UnmarkedPast(now, h, m) ==
    LET at == {Midnight(now) + d + x * PerHour + m : d \in {0, -Day}, x \in UnmarkedHours(h)}
        past == {t \in at : t <= now}
    IN  IF past # {} THEN Max(past) ELSE Min(at)

(* An interval without a day that has not begun is yesterday's. A marker   *)
(* on one side holds for the other.                                        *)
BackNever(q, t, now) == 0
Back(q, t, now) == IF ~ExplicitDay(q) /\ t > now THEN Day ELSE 0
ResolveInterval(q, p, now) ==
    LET from == IF p.from.marker # Unset THEN p.from.marker ELSE p.to.marker
        to == IF p.to.marker # Unset THEN p.to.marker ELSE from
        start == BaseDay(q, now) + ResolveHour(from, p.from.hour) * PerHour + p.from.tick
        same == BaseDay(q, now) + ResolveHour(to, p.to.hour) * PerHour + p.to.tick
        end == IF same <= start THEN same + Day ELSE same
    IN  [start |-> start - Back(q, start, now), end |-> end - Back(q, start, now)]

ResolvePoint(q, p, now) ==
    LET named == BaseDay(q, now) + ResolveHour(p.marker, p.hour) * PerHour + p.tick
    IN  IF ~ExplicitDay(q) /\ p.marker = Unset THEN UnmarkedPast(now, p.hour, p.tick)
        ELSE named - Back(q, named, now)

ParseTime(q, now) ==
    IF Says(q, "recent") THEN Trailing(Phrase(q, "recent").length, now, FALSE)
    ELSE IF Says(q, "interval") THEN
        LET p == Phrase(q, "interval")
            r == ResolveInterval(q, p, now)
        IN  IF PerHour \in {p.from.tick, p.to.tick} THEN Failed
            ELSE IntervalScope(r.start, r.end, now, ~ExplicitDay(q))
    ELSE IF Says(q, "point") THEN
        LET p == Phrase(q, "point")
        IN  IF p.tick = PerHour THEN Failed
            ELSE PointScope(ResolvePoint(q, p, now), now, ~ExplicitDay(q))
    ELSE Now(~Says(q, "now"))

(* The day of a report; None is the latest. A date that does not exist is  *)
(* None even when a word names a day.                                      *)
ParseReportDate(q, now) ==
    IF Says(q, "date") THEN Phrase(q, "date").day
    ELSE IF ExplicitDay(q) THEN BaseDay(q, now) \div Day ELSE Unset

(* A trend or a search for spikes that names no time gets the default.     *)
Bounded(intent, scope, now) ==
    IF intent \in {"trend", "spike"} /\ scope.kind = "now" THEN Trailing(Default, now, TRUE)
    ELSE scope

ParseQuery(q, explicit, now) ==
    [intent |-> ParseIntent(q), factory |-> ParseFactory(q, explicit),
     time |-> Bounded(ParseIntent(q), ParseTime(q, now), now)]

----------------------------------------------------------------------------
(* What the model resolved: a record that may lack its intent, name what   *)
(* does not exist, put an instant in the future, or be no such record.     *)
NormalizeFactory(f, wellFormed) == IF f \in wellFormed \cup {CloudInfra} THEN f ELSE Unset

ScopeFromPoint(anchor, now) ==
    IF anchor = Unset THEN Now(TRUE)
    ELSE IF anchor = TooLong THEN Failed
    ELSE PointScope(Min({anchor, now}), now, anchor > now)

ScopeFromInterval(a, b, now) ==
    IF Unset \in {a, b} THEN Trailing(Default, now, TRUE)
    ELSE IF TooLong \in {a, b} THEN Failed
    ELSE IF Min({a, b}) > now THEN Trailing(Default, now, TRUE)
    ELSE IntervalScope(Min({a, b}), Min({Max({a, b}), now}), now, Max({a, b}) > now)

ScopeFromResolution(t, now) ==
    CASE t.mode = "range" /\ t.length \in {Unset, 0} -> Trailing(Default, now, TRUE)
      [] t.mode = "range" /\ t.length \notin {Unset, 0} -> Trailing(t.length, now, FALSE)
      [] t.mode = "point" -> ScopeFromPoint(t.anchor, now)
      [] t.mode = "interval" -> ScopeFromInterval(t.start, t.end, now)
      [] t.mode = Garbled -> Failed
      [] OTHER -> Now(FALSE)

KnownIntent(intent) == IF intent \in {Intents[i] : i \in DOMAIN Intents} THEN intent ELSE "unknown"

(* A name that is looked up in a set and cannot be: an intent, or what a   *)
(* search for spikes is to look for.                                       *)
LookupRaises(r) == r.intent = Garbled \/ (r.intent = "spike" /\ r.params = Garbled)

MapResolution(r, explicit, wellFormed, now) ==
    [intent |-> KnownIntent(r.intent),
     factory |-> IF explicit # Unset THEN explicit ELSE NormalizeFactory(r.factory, wellFormed),
     time |-> IF LookupRaises(r) THEN Failed
              ELSE Bounded(KnownIntent(r.intent), ScopeFromResolution(r.time, now), now)]
=============================================================================

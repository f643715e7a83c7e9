----------------------------- MODULE ChatProofs -----------------------------
(***************************************************************************)
(* Theorems about ChatFlow and, under it, ChatQuery: for every clock, set  *)
(* of questions, permissions and factories, and whatever the reads and the *)
(* model bring; and about ChatEvidence, for every series.                  *)
(***************************************************************************)
EXTENDS ChatFlow, ChatEvidence,
        FiniteSetTheorems, NaturalsInduction, WellFoundedInduction, TLAPS

-----------------------------------------------------------------------------
(* Arithmetic of days. *)
LEMMA DivMod ==
    ASSUME NEW D \in Nat \ {0}, NEW t \in Int
    PROVE  /\ t \div D \in Int /\ t % D \in 0..(D - 1)
           /\ t = D * (t \div D) + (t % D)
OBVIOUS

LEMMA Product ==
    ASSUME NEW a \in Int, NEW b \in Int, NEW D \in Nat, a <= b
    PROVE  a * D <= b * D
OBVIOUS

LEMMA DayIs ==
    /\ Day \in Nat \ {0}
    /\ \A x \in 0..(2 * Half - 1), m \in 0..(PerHour - 1) : x * PerHour + m \in 0..(Day - 1)
<1>1. Day = (2 * Half) * PerHour /\ 2 * Half \in Nat \ {0}
  BY ClockAssumption DEF Day
<1>2. Day \in Nat \ {0}
  BY <1>1, ClockAssumption
<1>3. ASSUME NEW x \in 0..(2 * Half - 1), NEW m \in 0..(PerHour - 1)
      PROVE  x * PerHour + m \in 0..(Day - 1)
  <2>1. x * PerHour <= (2 * Half - 1) * PerHour
    BY Product, ClockAssumption
  <2>2. (2 * Half - 1) * PerHour = Day - PerHour
    BY <1>1, ClockAssumption
  <2>3. x * PerHour \in Nat
    BY ClockAssumption
  <2> QED BY <1>2, <2>1, <2>2, <2>3, ClockAssumption
<1> QED BY <1>2, <1>3

LEMMA SameDay ==
    ASSUME NEW D \in Nat \ {0}, NEW k \in Int, NEW r \in 0..(D - 1)
    PROVE  (k * D + r) % D = r /\ (k * D + r) \div D = k
OBVIOUS

LEMMA MidnightIs ==
    ASSUME NEW t \in Int
    PROVE  /\ Midnight(t) \in Int /\ Midnight(t) <= t /\ t < Midnight(t) + Day
           /\ \E k \in Int : Midnight(t) = k * Day /\ Midnight(t) - Day = (k - 1) * Day
           /\ t = Midnight(t) + (t % Day) /\ t % Day \in 0..(Day - 1)
<1>1. /\ t \div Day \in Int /\ t % Day \in 0..(Day - 1)
      /\ t = Day * (t \div Day) + (t % Day)
  BY DivMod, DayIs
<1>2. Midnight(t) = (t \div Day) * Day
  BY DEF Midnight
<1> DEFINE k == t \div Day
<1> HIDE DEF k
<1>3. k \in Int /\ Midnight(t) = k * Day /\ t = k * Day + (t % Day)
  BY <1>1, <1>2, DayIs DEF k
<1>4. k * Day \in Int /\ (k - 1) * Day = k * Day - Day
  BY <1>3, DayIs
<1> QED BY <1>1, <1>3, <1>4, DayIs

(* The instants that show a reading, near now: one of today and one of     *)
(* the day before.                                                         *)
LEMMA ShownIs ==
    ASSUME NEW now \in Int, NEW r \in 0..(Day - 1)
    PROVE  /\ (Midnight(now) + r) % Day = r /\ (Midnight(now) - Day + r) % Day = r
           /\ \A u \in (now - Day)..now : u % Day = r => u \in {Midnight(now) + r, Midnight(now) - Day + r}
<1>1. PICK k \in Int : Midnight(now) = k * Day /\ Midnight(now) - Day = (k - 1) * Day
  BY MidnightIs
<1>2. (Midnight(now) + r) % Day = r /\ (Midnight(now) - Day + r) % Day = r
  <2>1. (k * Day + r) % Day = r
    BY SameDay, DayIs
  <2>2. k - 1 \in Int
    OBVIOUS
  <2>3. ((k - 1) * Day + r) % Day = r
    BY <2>2, SameDay, DayIs
  <2> QED BY <1>1, <2>1, <2>3
<1>3. ASSUME NEW u \in (now - Day)..now, u % Day = r
      PROVE  u \in {Midnight(now) + r, Midnight(now) - Day + r}
  <2>1. u \in Int /\ now \in Int
    BY DayIs
  <2>2. PICK j \in Int : Midnight(u) = j * Day /\ Midnight(u) - Day = (j - 1) * Day
    BY <2>1, MidnightIs
  <2>3. u = j * Day + r
    BY <1>3, <2>1, <2>2, MidnightIs
  <2>4. j <= k
    <3>1. SUFFICES ASSUME k + 1 <= j PROVE FALSE
      OBVIOUS
    <3>2. (k + 1) * Day <= j * Day
      BY <3>1, Product, DayIs
    <3>3. (k + 1) * Day = k * Day + Day
      BY DayIs
    <3>4. k * Day \in Int /\ j * Day \in Int /\ now < k * Day + Day
      BY <1>1, MidnightIs, DayIs
    <3> QED BY <2>3, <3>2, <3>3, <3>4, DayIs
  <2>5. k - 1 <= j
    <3>1. SUFFICES ASSUME j <= k - 2 PROVE FALSE
      OBVIOUS
    <3>2. j * Day <= (k - 2) * Day
      BY <3>1, Product, DayIs
    <3>3. (k - 2) * Day = k * Day - Day - Day
      BY DayIs
    <3>4. k * Day \in Int /\ j * Day \in Int /\ k * Day <= now
      BY <1>1, MidnightIs, DayIs
    <3> QED BY <2>3, <3>2, <3>3, <3>4, DayIs
  <2>6. j = k \/ j = k - 1
    BY <2>4, <2>5
  <2> QED BY <1>1, <2>3, <2>6
<1> QED BY <1>2, <1>3

(* Two instants of one reading are a day apart at least. *)
LEMMA OncePerDay ==
    ASSUME NEW u \in Int, NEW v \in Int, u % Day = v % Day, u < v
    PROVE  u + Day <= v
<1>1. PICK j \in Int : Midnight(u) = j * Day
  BY MidnightIs
<1>2. PICK k \in Int : Midnight(v) = k * Day
  BY MidnightIs
<1>3. u = j * Day + (u % Day) /\ v = k * Day + (u % Day) /\ u % Day \in 0..(Day - 1)
  BY <1>1, <1>2, MidnightIs
<1>4. j * Day \in Int /\ k * Day \in Int
  BY DayIs
<1>5. j < k
  <2>1. SUFFICES ASSUME k <= j PROVE FALSE
    OBVIOUS
  <2>2. k * Day <= j * Day
    BY <2>1, Product, DayIs
  <2> QED BY <1>3, <1>4, <2>2
<1>6. (j + 1) * Day <= k * Day
  BY <1>5, Product, DayIs
<1>7. (j + 1) * Day = j * Day + Day
  BY DayIs
<1> QED BY <1>3, <1>4, <1>6, <1>7, DayIs

LEMMA MaxIs ==
    ASSUME NEW S, NEW x \in S, S \subseteq Int, \A y \in S : y <= x
    PROVE  Max(S) = x
<1>1. Max(S) \in S /\ \A y \in S : Max(S) >= y
  <2>1. \A y \in S : x >= y
    OBVIOUS
  <2> QED BY <2>1 DEF Max
<1>2. Max(S) \in Int /\ x \in Int /\ Max(S) >= x /\ Max(S) <= x
  BY <1>1
<1> QED BY <1>2

LEMMA MinIs ==
    ASSUME NEW S, NEW x \in S, S \subseteq Int, \A y \in S : x <= y
    PROVE  Min(S) = x
<1>1. Min(S) \in S /\ \A y \in S : Min(S) <= y
  BY DEF Min
<1>2. Min(S) \in Int /\ x \in Int /\ Min(S) <= x /\ x <= Min(S)
  BY <1>1
<1> QED BY <1>2

LEMMA MinOfTwo ==
    ASSUME NEW a \in Int, NEW b \in Int
    PROVE  Min({a, b}) = IF a <= b THEN a ELSE b
<1>1. CASE a <= b
  BY <1>1, MinIs
<1>2. CASE ~(a <= b)
  BY <1>2, MinIs
<1> QED BY <1>1, <1>2

LEMMA MaxOfTwo ==
    ASSUME NEW a \in Int, NEW b \in Int
    PROVE  Max({a, b}) = IF a <= b THEN b ELSE a
<1>1. CASE a <= b
  BY <1>1, MaxIs
<1>2. CASE ~(a <= b)
  BY <1>2, MaxIs
<1> QED BY <1>1, <1>2

-----------------------------------------------------------------------------
(* What a reading of the clock stands for. *)
Latest(now, r) == IF Midnight(now) + r <= now THEN Midnight(now) + r ELSE Midnight(now) - Day + r

LEMMA LatestIs ==
    ASSUME NEW now \in Int, NEW r \in 0..(Day - 1)
    PROVE  /\ Latest(now, r) \in Int /\ Latest(now, r) <= now /\ now - Day < Latest(now, r)
           /\ Latest(now, r) % Day = r
           /\ \A u \in (now - Day)..now : u % Day = r => u <= Latest(now, r)
<1>1. Midnight(now) \in Int /\ Midnight(now) <= now /\ now < Midnight(now) + Day
  BY MidnightIs
<1>2. (Midnight(now) + r) % Day = r /\ (Midnight(now) - Day + r) % Day = r
  BY ShownIs
<1>3. \A u \in (now - Day)..now : u % Day = r => u = Midnight(now) + r \/ u = Midnight(now) - Day + r
  BY ShownIs
<1>4. CASE Midnight(now) + r <= now
  <2>1. Latest(now, r) = Midnight(now) + r
    BY <1>4 DEF Latest
  <2>2. \A u \in (now - Day)..now : u % Day = r => u <= Latest(now, r)
    BY <1>1, <1>3, <1>4, <2>1, DayIs
  <2> QED BY <1>1, <1>2, <1>4, <2>1, <2>2, DayIs
<1>5. CASE ~(Midnight(now) + r <= now)
  <2>1. Latest(now, r) = Midnight(now) - Day + r
    BY <1>5 DEF Latest
  <2>2. \A u \in (now - Day)..now : u % Day = r => u <= Latest(now, r)
    BY <1>1, <1>3, <1>5, <2>1, DayIs
  <2> QED BY <1>1, <1>2, <1>5, <2>1, <2>2, DayIs
<1> QED BY <1>4, <1>5

LEMMA ResolveHourIs ==
    ASSUME NEW marker, NEW h \in Nat
    PROVE  ResolveHour(marker, h) \in 0..(2 * Half - 1)
<1>1. h % (2 * Half) \in 0..(2 * Half - 1) /\ Half \in Nat \ {0}
  BY ClockAssumption, DivMod
<1>2. CASE marker \in {"pm", "night"} /\ h < Half
  BY <1>1, <1>2 DEF ResolveHour
<1>3. CASE marker = "am" /\ h = Half
  BY <1>1, <1>3 DEF ResolveHour
<1>4. CASE marker = "noon"
  BY <1>1, <1>4 DEF ResolveHour
<1>5. CASE marker = "midnight"
  BY <1>1, <1>5 DEF ResolveHour
<1>6. CASE ~(marker \in {"pm", "night"} /\ h < Half) /\ ~(marker = "am" /\ h = Half) /\ marker # "noon" /\ marker # "midnight"
  <2>1. ResolveHour(marker, h) = h % (2 * Half)
    BY <1>6 DEF ResolveHour
  <2> QED BY <1>1, <2>1
<1> QED BY <1>2, <1>3, <1>4, <1>5, <1>6

(* What a reading names is the one hour that the code takes it for. *)
LEMMA NamedIs ==
    ASSUME NEW marker \in Markers, NEW h \in Nat
    PROVE  NamedHours(marker, h) = {ResolveHour(marker, h)}
<1>1. Half \in Nat \ {0}
  BY ClockAssumption
<1>2. h < Half => h % (2 * Half) = h
  BY <1>1
<1>3. h = Half => h % (2 * Half) = h
  BY <1>1
<1>4. CASE marker \in {"noon", "midnight", "night"}
  BY <1>4 DEF NamedHours, ResolveHour
<1>5. CASE marker = "am"
  BY <1>1, <1>2, <1>5 DEF NamedHours, ResolveHour
<1>6. CASE marker = "pm"
  BY <1>1, <1>3, <1>6 DEF NamedHours, ResolveHour
<1>7. CASE marker = Unset
  BY <1>7, UnsetAssumption DEF NamedHours, ResolveHour
<1> QED BY <1>4, <1>5, <1>6, <1>7 DEF Markers

LEMMA PhraseIs ==
    ASSUME NEW q, NEW kind, Says(q, kind)
    PROVE  Phrase(q, kind) \in q /\ Phrase(q, kind).kind = kind
BY DEF Says, Phrase

LEMMA BaseDayIs ==
    ASSUME NEW q, WellSaid(q), NEW now \in Int
    PROVE  /\ BaseDay(q, now) \in Int
           /\ ~ExplicitDay(q) => BaseDay(q, now) = Midnight(now)
<1>1. Midnight(now) \in Int /\ Day \in Nat
  BY MidnightIs, DayIs
<1>2. CASE Dated(q)
  <2>1. Phrase(q, "date").day \in Int
    BY <1>2, PhraseIs DEF Dated, WellSaid
  <2> QED BY <1>1, <1>2, <2>1 DEF BaseDay, ExplicitDay
<1>3. CASE ~Dated(q)
  <2> DEFINE n == IF Says(q, "dayBefore") THEN 2 ELSE IF Says(q, "yesterday") THEN 1 ELSE 0
  <2>1. n \in Nat /\ (~ExplicitDay(q) => n = 0)
    BY DEF ExplicitDay
  <2>2. BaseDay(q, now) = Midnight(now) - n * Day
    BY <1>3 DEF BaseDay
  <2> HIDE DEF n
  <2>3. n * Day \in Int /\ (n = 0 => n * Day = 0)
    BY <1>1, <2>1
  <2> QED BY <1>1, <2>1, <2>2, <2>3
<1> QED BY <1>2, <1>3

(* An undated instant that would be still to come is a day earlier. *)
LEMMA BackIs ==
    ASSUME NEW q, ~ExplicitDay(q), NEW now \in Int, NEW r \in 0..(Day - 1)
    PROVE  (Midnight(now) + r) - Back(q, Midnight(now) + r, now) = Latest(now, r)
<1>1. Midnight(now) \in Int /\ Day \in Nat
  BY MidnightIs, DayIs
<1> QED BY <1>1 DEF Back, Latest

-----------------------------------------------------------------------------
(* Points.                                                                 *)
HoursOf(marker, h) ==
    IF marker = Unset /\ h \in 1..(Half - 1) THEN {h, h + Half} ELSE {ResolveHour(marker, h)}

LEMMA HoursOfIs ==
    ASSUME NEW marker, NEW h \in Nat
    PROVE  /\ HoursOf(marker, h) \subseteq 0..(2 * Half - 1)
           /\ marker = Unset => UnmarkedHours(h) = HoursOf(marker, h)
           /\ \E a, b \in HoursOf(marker, h) : HoursOf(marker, h) = {a, b}
<1>1. Half \in Nat \ {0}
  BY ClockAssumption
<1>2. CASE h \in 1..(Half - 1)
  <2>1. h % (2 * Half) = h
    BY <1>1, <1>2
  <2>2. UnmarkedHours(h) = {h, h + Half}
    BY <1>2, <2>1 DEF UnmarkedHours
  <2>3. h \in 0..(2 * Half - 1) /\ h + Half \in 0..(2 * Half - 1)
    BY <1>1, <1>2
  <2> QED BY <1>2, <2>2, <2>3, ResolveHourIs DEF HoursOf
<1>3. CASE h \notin 1..(Half - 1)
  <2>1. UnmarkedHours(h) = {h % (2 * Half)}
    BY <1>3 DEF UnmarkedHours
  <2>2. marker = Unset => ResolveHour(marker, h) = h % (2 * Half)
    BY UnsetAssumption DEF ResolveHour
  <2>3. HoursOf(marker, h) = {ResolveHour(marker, h)}
    BY <1>3 DEF HoursOf
  <2> QED BY <2>1, <2>2, <2>3, ResolveHourIs
<1> QED BY <1>2, <1>3

LEMMA UnmarkedPastIs ==
    ASSUME NEW now \in Int, NEW h \in Nat, NEW m \in 0..(PerHour - 1), NEW a, NEW b,
           UnmarkedHours(h) = {a, b}, {a, b} \subseteq 0..(2 * Half - 1)
    PROVE  /\ UnmarkedPast(now, h, m) \in {Latest(now, a * PerHour + m), Latest(now, b * PerHour + m)}
           /\ Latest(now, a * PerHour + m) <= UnmarkedPast(now, h, m)
           /\ Latest(now, b * PerHour + m) <= UnmarkedPast(now, h, m)
<1> DEFINE r == a * PerHour + m
           s == b * PerHour + m
           T == Midnight(now)
           at == {T + d + x * PerHour + m : d \in {0, -Day}, x \in UnmarkedHours(h)}
           past == {t \in at : t <= now}
<1>1. r \in 0..(Day - 1) /\ s \in 0..(Day - 1)
  BY DayIs
<1>2. T \in Int /\ Day \in Nat /\ Day > 0 /\ a * PerHour \in Int /\ b * PerHour \in Int /\ m \in Int
  <2>1. a \in Int /\ b \in Int /\ PerHour \in Int
    BY ClockAssumption
  <2>2. a * PerHour \in Int /\ b * PerHour \in Int
    BY <2>1
  <2>3. T \in Int /\ Day \in Nat /\ Day > 0
    BY MidnightIs, DayIs
  <2> QED BY <2>2, <2>3
<1>3. at = {T + r, T - Day + r, T + s, T - Day + s}
  <2>1. at = {T + 0 + a * PerHour + m, T + (-Day) + a * PerHour + m,
              T + 0 + b * PerHour + m, T + (-Day) + b * PerHour + m}
    OBVIOUS
  <2>2. /\ T + 0 + a * PerHour + m = T + r /\ T + (-Day) + a * PerHour + m = T - Day + r
        /\ T + 0 + b * PerHour + m = T + s /\ T + (-Day) + b * PerHour + m = T - Day + s
    BY <1>2
  <2> QED BY <2>1, <2>2
<1>4. UnmarkedPast(now, h, m) = IF past # {} THEN Max(past) ELSE Min(at)
  BY DEF UnmarkedPast
<1> HIDE DEF at, r, s, T
<1>5. /\ Latest(now, r) = (IF T + r <= now THEN T + r ELSE T - Day + r)
      /\ Latest(now, s) = (IF T + s <= now THEN T + s ELSE T - Day + s)
  BY DEF Latest, T
<1>6. Latest(now, r) <= now /\ Latest(now, s) <= now /\ Latest(now, r) \in Int /\ Latest(now, s) \in Int
  BY <1>1, LatestIs
<1>7. Latest(now, r) \in past /\ Latest(now, s) \in past
  BY <1>3, <1>5, <1>6
<1>8. past \subseteq Int /\ \A y \in past : y <= Latest(now, r) \/ y <= Latest(now, s)
  BY <1>1, <1>2, <1>3, <1>5
<1>9. UnmarkedPast(now, h, m) = Max(past)
  BY <1>4, <1>7
<1> HIDE DEF past
<1>10. CASE Latest(now, r) <= Latest(now, s)
  <2>1. \A y \in past : y <= Latest(now, s)
    BY <1>6, <1>8, <1>10
  <2>2. Max(past) = Latest(now, s)
    BY <1>7, <1>8, <2>1, MaxIs
  <2> QED BY <1>6, <1>9, <1>10, <2>2 DEF r, s
<1>11. CASE ~(Latest(now, r) <= Latest(now, s))
  <2>1. \A y \in past : y <= Latest(now, r)
    BY <1>6, <1>8, <1>11
  <2>2. Max(past) = Latest(now, r)
    BY <1>7, <1>8, <2>1, MaxIs
  <2> QED BY <1>6, <1>9, <1>11, <2>2 DEF r, s
<1> QED BY <1>10, <1>11

(* The latest instant by now that shows the hour and the tick. *)
LEMMA UndatedPoint ==
    ASSUME NEW q, WellSaid(q), ~ExplicitDay(q), NEW now \in Int, NEW p, ClockReading(p), p.tick # PerHour
    PROVE  /\ \E x \in HoursOf(p.marker, p.hour) :
                ResolvePoint(q, p, now) = Latest(now, x * PerHour + p.tick)
           /\ \A x \in HoursOf(p.marker, p.hour) :
                Latest(now, x * PerHour + p.tick) <= ResolvePoint(q, p, now)
<1>1. p.hour \in Nat /\ p.tick \in 0..(PerHour - 1)
  BY ClockAssumption DEF ClockReading
<1>2. CASE p.marker = Unset
  <2>1. ResolvePoint(q, p, now) = UnmarkedPast(now, p.hour, p.tick)
    BY <1>2 DEF ResolvePoint
  <2>2. PICK a, b \in HoursOf(p.marker, p.hour) : HoursOf(p.marker, p.hour) = {a, b}
    BY <1>1, HoursOfIs
  <2>3. UnmarkedHours(p.hour) = {a, b} /\ {a, b} \subseteq 0..(2 * Half - 1)
    BY <1>1, <1>2, <2>2, HoursOfIs
  <2> QED BY <1>1, <2>1, <2>2, <2>3, UnmarkedPastIs
<1>3. CASE p.marker # Unset
  <2> DEFINE x == ResolveHour(p.marker, p.hour)
             r == x * PerHour + p.tick
  <2>1. HoursOf(p.marker, p.hour) = {x}
    BY <1>3 DEF HoursOf
  <2>2. BaseDay(q, now) = Midnight(now) /\ Midnight(now) \in Int
    BY BaseDayIs, MidnightIs
  <2>3. x \in 0..(2 * Half - 1)
    BY <1>1, ResolveHourIs
  <2>4. ResolvePoint(q, p, now) = LET named == BaseDay(q, now) + x * PerHour + p.tick
                                  IN  named - Back(q, named, now)
    BY <1>3 DEF ResolvePoint
  <2> HIDE DEF x
  <2>5. r \in 0..(Day - 1)
    BY <1>1, <2>3, DayIs
  <2>6. BaseDay(q, now) + x * PerHour + p.tick = Midnight(now) + r
    <3>1. x * PerHour \in Int /\ p.tick \in Int
      BY <1>1, <2>3, ClockAssumption
    <3> QED BY <2>2, <3>1
  <2>7. ResolvePoint(q, p, now) = Latest(now, r)
    BY <2>4, <2>5, <2>6, BackIs
  <2>8. Latest(now, r) \in Int
    BY <2>5, LatestIs
  <2> QED BY <2>1, <2>7, <2>8
<1> QED BY <1>2, <1>3

-----------------------------------------------------------------------------
(* Intervals.                                                              *)
FromMarker(p) == IF p.from.marker # Unset THEN p.from.marker ELSE p.to.marker
ToMarker(p) == IF p.to.marker # Unset THEN p.to.marker ELSE FromMarker(p)
FromTick(p) == ResolveHour(FromMarker(p), p.from.hour) * PerHour + p.from.tick
ToTick(p) == ResolveHour(ToMarker(p), p.to.hour) * PerHour + p.to.tick

LEMMA TicksIn ==
    ASSUME NEW p, ClockReading(p.from), ClockReading(p.to), PerHour \notin {p.from.tick, p.to.tick}
    PROVE  FromTick(p) \in 0..(Day - 1) /\ ToTick(p) \in 0..(Day - 1)
<1>1. /\ p.from.tick \in 0..(PerHour - 1) /\ p.to.tick \in 0..(PerHour - 1)
      /\ p.from.hour \in Nat /\ p.to.hour \in Nat
  BY ClockAssumption DEF ClockReading
<1> QED BY <1>1, ResolveHourIs, DayIs DEF FromTick, ToTick

(* It begins on the day that is meant and ends within a day of that. *)
LEMMA IntervalIs ==
    ASSUME NEW q, WellSaid(q), NEW now \in Int, NEW p, ClockReading(p.from), ClockReading(p.to),
           PerHour \notin {p.from.tick, p.to.tick}
    PROVE  LET r == ResolveInterval(q, p, now)
           IN  /\ r.start \in Int /\ r.end \in Int /\ r.start < r.end /\ r.end <= r.start + Day
               /\ ~ExplicitDay(q) => /\ r.start = Latest(now, FromTick(p))
                                     /\ r.end % Day = ToTick(p)
<1> DEFINE base == BaseDay(q, now)
           f == FromTick(p)
           t == ToTick(p)
           start == base + f
           same == base + t
           end == IF same <= start THEN same + Day ELSE same
           back == Back(q, start, now)
<1>1. f \in 0..(Day - 1) /\ t \in 0..(Day - 1)
  BY TicksIn
<1>2. base \in Int /\ Day \in Nat \ {0} /\ back \in {0, Day}
  BY BaseDayIs, DayIs DEF Back
<1>3. ResolveInterval(q, p, now) = [start |-> start - back, end |-> end - back]
  <2>1. /\ ResolveHour(FromMarker(p), p.from.hour) * PerHour \in Int
        /\ ResolveHour(ToMarker(p), p.to.hour) * PerHour \in Int
    BY ResolveHourIs, ClockAssumption DEF ClockReading
  <2>2. p.from.tick \in Int /\ p.to.tick \in Int
    BY DEF ClockReading
  <2>3. /\ base + ResolveHour(FromMarker(p), p.from.hour) * PerHour + p.from.tick = start
        /\ base + ResolveHour(ToMarker(p), p.to.hour) * PerHour + p.to.tick = same
    BY <1>2, <2>1, <2>2 DEF FromTick, ToTick
  <2> HIDE DEF f, t
  <2>4. ResolveInterval(q, p, now) =
          LET from == FromMarker(p)
              to == ToMarker(p)
              s == base + ResolveHour(from, p.from.hour) * PerHour + p.from.tick
              m == base + ResolveHour(to, p.to.hour) * PerHour + p.to.tick
              e == IF m <= s THEN m + Day ELSE m
          IN  [start |-> s - Back(q, s, now), end |-> e - Back(q, s, now)]
    BY DEF ResolveInterval, FromMarker, ToMarker
  <2> QED BY <2>3, <2>4
<1>4. ~ExplicitDay(q) => base = Midnight(now)
  BY BaseDayIs
<1>5. ~ExplicitDay(q) => start - back = Latest(now, f)
  BY <1>1, <1>4, BackIs
<1> HIDE DEF back, base, f, t
<1>6. start - back \in Int /\ end - back \in Int /\ start < end /\ end <= start + Day
  BY <1>1, <1>2
<1>7. ~ExplicitDay(q) => (end - back) % Day = t
  <2> SUFFICES ASSUME ~ExplicitDay(q) PROVE (end - back) % Day = t
    OBVIOUS
  <2>1. PICK k \in Int : Midnight(now) = k * Day
    BY MidnightIs
  <2>2. base = k * Day /\ k * Day \in Int
    BY <1>2, <1>4, <2>1
  <2>3. (k + 1) * Day = k * Day + Day /\ (k - 1) * Day = k * Day - Day
    BY <1>2
  <2>4. \E j \in {k - 1, k, k + 1} : end - back = j * Day + t
    <3>1. end - back \in {k * Day + t, k * Day + Day + t, k * Day - Day + t}
      BY <1>1, <1>2, <2>2
    <3> QED BY <2>3, <3>1
  <2>5. PICK j \in {k - 1, k, k + 1} : end - back = j * Day + t
    BY <2>4
  <2>6. (j * Day + t) % Day = t
    <3>1. j \in Int
      OBVIOUS
    <3> QED BY <1>1, <1>2, <3>1, SameDay
  <2> QED BY <2>5, <2>6
<1>8. start - back < end - back /\ end - back <= (start - back) + Day
  BY <1>2, <1>6, <1>1
<1> HIDE DEF start, end
<1> QED BY <1>3, <1>5, <1>6, <1>7, <1>8 DEF f, t

LEMMA PointTyped ==
    ASSUME NEW q, WellSaid(q), NEW now \in Int, NEW p, ClockReading(p), p.tick # PerHour
    PROVE  ResolvePoint(q, p, now) \in Int
<1>1. p.hour \in Nat /\ p.tick \in 0..(PerHour - 1)
  BY ClockAssumption DEF ClockReading
<1>2. CASE ~ExplicitDay(q)
  <2>1. PICK x \in HoursOf(p.marker, p.hour) :
           ResolvePoint(q, p, now) = Latest(now, x * PerHour + p.tick)
    BY <1>2, UndatedPoint
  <2>2. x \in 0..(2 * Half - 1)
    BY <1>1, HoursOfIs
  <2>3. x * PerHour + p.tick \in 0..(Day - 1)
    BY <1>1, <2>2, DayIs
  <2> QED BY <2>1, <2>3, LatestIs
<1>3. CASE ExplicitDay(q)
  <2> DEFINE x == ResolveHour(p.marker, p.hour)
             named == BaseDay(q, now) + x * PerHour + p.tick
  <2>1. x \in 0..(2 * Half - 1)
    BY <1>1, ResolveHourIs
  <2>2. ResolvePoint(q, p, now) = named - Back(q, named, now)
    BY <1>3 DEF ResolvePoint
  <2> HIDE DEF x
  <2>3. BaseDay(q, now) \in Int /\ x * PerHour \in Int /\ p.tick \in Int
    BY <1>1, <2>1, BaseDayIs, ClockAssumption
  <2>4. named \in Int /\ Day \in Int
    BY <2>3, DayIs
  <2> HIDE DEF named
  <2>5. Back(q, named, now) \in Int
    BY <2>4 DEF Back
  <2> QED BY <2>2, <2>4, <2>5
<1> QED BY <1>2, <1>3

-----------------------------------------------------------------------------
(* What every scope has, and that of a question that names no day.         *)
Timed(s) ==
    /\ s.kind \in {"now", "range", "point", "interval", "failed"}
    /\ s.kind \in {"range", "point", "interval"} => s.start \in Int /\ s.end \in Int
    /\ s.kind \in {"now", "failed"} => s.start = Unset
Past(s, now) ==
    s.start # Unset => s.start <= s.end /\ s.start <= now /\ s.end <= now + HalfWindow

LEMMA ScopeFields ==
    ASSUME NEW k, NEW w, NEW a, NEW b, NEW t, NEW z
    PROVE  /\ Scope(k, w, a, b, t, z).kind = k /\ Scope(k, w, a, b, t, z).start = a
           /\ Scope(k, w, a, b, t, z).end = b /\ Scope(k, w, a, b, t, z).target = t
BY DEF Scope

LEMMA NowIs ==
    ASSUME NEW z, NEW now
    PROVE  Timed(Now(z)) /\ Past(Now(z), now) /\ Now(z).kind = "now"
           /\ Timed(Failed) /\ Past(Failed, now) /\ Failed.kind = "failed"
<1>1. Now(z).kind = "now" /\ Now(z).start = Unset
  BY ScopeFields DEF Now
<1>2. Failed.kind = "failed" /\ Failed.start = Unset
  BY DEF Failed, Scope
<1> QED BY <1>1, <1>2 DEF Timed, Past

LEMMA TrailingIs ==
    ASSUME NEW length \in Nat \cup {TooLong}, NEW now \in Int, NEW z
    PROVE  /\ Timed(Trailing(length, now, z)) /\ Past(Trailing(length, now, z), now)
           /\ Trailing(length, now, z).kind \in {"range", "failed"}
<1>1. CASE length = TooLong
  BY <1>1, NowIs DEF Trailing
<1>2. CASE length \in Nat /\ length # TooLong
  <2>1. Trailing(length, now, z) = Scope("range", length, now - length, now, Unset, z)
    BY <1>2 DEF Trailing
  <2>2. now - length \in Int /\ now - length <= now /\ now <= now + HalfWindow
    BY <1>2, ClockAssumption
  <2> QED BY <2>1, <2>2, ScopeFields DEF Timed, Past
<1> QED BY <1>1, <1>2

LEMMA PointScopeIs ==
    ASSUME NEW t \in Int, NEW now \in Int, NEW z
    PROVE  /\ Timed(PointScope(t, now, z)) /\ PointScope(t, now, z).kind = "point"
           /\ PointScope(t, now, z).target = t
           /\ t <= now => Past(PointScope(t, now, z), now)
<1> DEFINE w == IF now - t <= PerHour THEN "1h" ELSE "24h"
<1>1. PointScope(t, now, z) = Scope("point", w, t - HalfWindow, t + HalfWindow, t, z)
  BY DEF PointScope
<1> HIDE DEF w
<1>2. t - HalfWindow \in Int /\ t + HalfWindow \in Int /\ t - HalfWindow <= t + HalfWindow
  BY ClockAssumption
<1>3. t <= now => t - HalfWindow <= now /\ t + HalfWindow <= now + HalfWindow
  BY ClockAssumption
<1> QED BY <1>1, <1>2, <1>3, ScopeFields DEF Timed, Past

LEMMA IntervalScopeIs ==
    ASSUME NEW a \in Int, NEW b \in Int, NEW now \in Int, NEW z
    PROVE  /\ Timed(IntervalScope(a, b, now, z)) /\ IntervalScope(a, b, now, z).kind = "interval"
           /\ IntervalScope(a, b, now, z).start = a /\ IntervalScope(a, b, now, z).end = Min({b, now})
           /\ a <= b /\ a <= now => Past(IntervalScope(a, b, now, z), now)
<1> DEFINE w == IF now - a <= PerHour THEN "1h" ELSE "6h"
           e == Min({b, now})
<1>1. IntervalScope(a, b, now, z) = Scope("interval", w, a, e, Unset, z)
  BY DEF IntervalScope
<1>2. e = IF b <= now THEN b ELSE now
  BY MinOfTwo
<1> HIDE DEF w
<1>3. e \in Int /\ e <= now + HalfWindow
  BY <1>2, ClockAssumption
<1>4. a <= b /\ a <= now => a <= e
  BY <1>2
<1> HIDE DEF e
<1> QED BY <1>1, <1>3, <1>4, ScopeFields DEF Timed, Past, e

(* The time that the rules read.                                           *)
LEMMA ParseTimeIs ==
    ASSUME NEW q, WellSaid(q), NEW now \in Int
    PROVE  /\ Timed(ParseTime(q, now))
           /\ ~ExplicitDay(q) => Past(ParseTime(q, now), now)
           /\ ParseTime(q, now).kind = "point" =>
                LET p == Phrase(q, "point")
                IN  /\ ClockReading(p) /\ p.tick # PerHour
                    /\ ParseTime(q, now).target = ResolvePoint(q, p, now)
           /\ ParseTime(q, now).kind = "interval" =>
                LET p == Phrase(q, "interval")
                    r == ResolveInterval(q, p, now)
                IN  /\ ClockReading(p.from) /\ ClockReading(p.to) /\ PerHour \notin {p.from.tick, p.to.tick}
                    /\ ParseTime(q, now).start = r.start /\ ParseTime(q, now).end = Min({r.end, now})
<1> DEFINE s == ParseTime(q, now)
<1>1. CASE Says(q, "recent")
  <2>1. s = Trailing(Phrase(q, "recent").length, now, FALSE)
    BY <1>1 DEF ParseTime
  <2>2. Phrase(q, "recent").length \in Nat \cup {TooLong}
    BY <1>1, PhraseIs DEF WellSaid
  <2> HIDE DEF s
  <2>3. Timed(s) /\ Past(s, now) /\ s.kind \in {"range", "failed"}
    BY <2>1, <2>2, TrailingIs
  <2> QED BY <2>3 DEF s
<1>2. CASE ~Says(q, "recent") /\ Says(q, "interval")
  <2> DEFINE p == Phrase(q, "interval")
             r == ResolveInterval(q, p, now)
  <2>1. s = IF PerHour \in {p.from.tick, p.to.tick} THEN Failed
            ELSE IntervalScope(r.start, r.end, now, ~ExplicitDay(q))
    BY <1>2 DEF ParseTime
  <2>2. ClockReading(p.from) /\ ClockReading(p.to)
    BY <1>2, PhraseIs DEF WellSaid
  <2> HIDE DEF s
  <2>3. CASE PerHour \in {p.from.tick, p.to.tick}
    <3>1. s = Failed
      BY <2>1, <2>3
    <3>2. Timed(s) /\ Past(s, now) /\ s.kind = "failed"
      BY <3>1, NowIs
    <3> QED BY <3>2 DEF s
  <2>4. CASE PerHour \notin {p.from.tick, p.to.tick}
    <3> DEFINE z == ~ExplicitDay(q)
               a == r.start
               b == r.end
    <3>1. s = IntervalScope(a, b, now, z)
      BY <2>1, <2>4
    <3>2. /\ r.start \in Int /\ r.end \in Int /\ r.start < r.end
          /\ ~ExplicitDay(q) => r.start = Latest(now, FromTick(p))
      BY <2>2, <2>4, IntervalIs
    <3>3. ~ExplicitDay(q) => r.start <= now
      BY <2>2, <2>4, <3>2, TicksIn, LatestIs
    <3>4. a \in Int /\ b \in Int /\ a <= b
      BY <3>2
    <3> HIDE DEF r, z, a, b
    <3>5. /\ Timed(s) /\ s.kind = "interval" /\ s.start = a /\ s.end = Min({b, now})
          /\ a <= now => Past(s, now)
      BY <3>1, <3>4, IntervalScopeIs
    <3> QED BY <2>2, <2>4, <3>3, <3>5 DEF s, r, a, b
  <2> QED BY <2>3, <2>4
<1>3. CASE ~Says(q, "recent") /\ ~Says(q, "interval") /\ Says(q, "point")
  <2> DEFINE p == Phrase(q, "point")
             t == ResolvePoint(q, p, now)
  <2>1. s = IF p.tick = PerHour THEN Failed ELSE PointScope(t, now, ~ExplicitDay(q))
    BY <1>3 DEF ParseTime
  <2>2. ClockReading(p)
    BY <1>3, PhraseIs DEF WellSaid
  <2> HIDE DEF s
  <2>3. CASE p.tick = PerHour
    <3>1. s = Failed
      BY <2>1, <2>3
    <3>2. Timed(s) /\ Past(s, now) /\ s.kind = "failed"
      BY <3>1, NowIs
    <3> QED BY <3>2 DEF s
  <2>4. CASE p.tick # PerHour
    <3>1. s = PointScope(t, now, ~ExplicitDay(q))
      BY <2>1, <2>4
    <3>2. t \in Int
      BY <2>2, <2>4, PointTyped
    <3>3. ~ExplicitDay(q) => t <= now
      <4> SUFFICES ASSUME ~ExplicitDay(q) PROVE t <= now
        OBVIOUS
      <4>1. PICK x \in HoursOf(p.marker, p.hour) : t = Latest(now, x * PerHour + p.tick)
        BY <2>2, <2>4, UndatedPoint
      <4>2. p.hour \in Nat /\ p.tick \in 0..(PerHour - 1)
        BY <2>2, <2>4, ClockAssumption DEF ClockReading
      <4>3. x \in 0..(2 * Half - 1)
        BY <4>2, HoursOfIs
      <4>4. x * PerHour + p.tick \in 0..(Day - 1)
        BY <4>2, <4>3, DayIs
      <4> QED BY <4>1, <4>4, LatestIs
    <3> HIDE DEF t
    <3>4. /\ Timed(s) /\ s.kind = "point" /\ s.target = t
          /\ t <= now => Past(s, now)
      BY <3>1, <3>2, PointScopeIs
    <3> QED BY <2>2, <2>4, <3>3, <3>4 DEF s, t
  <2> QED BY <2>3, <2>4
<1>4. CASE ~Says(q, "recent") /\ ~Says(q, "interval") /\ ~Says(q, "point")
  <2>1. s = Now(~Says(q, "now"))
    BY <1>4 DEF ParseTime
  <2> HIDE DEF s
  <2>2. Timed(s) /\ Past(s, now) /\ s.kind = "now"
    BY <2>1, NowIs
  <2> QED BY <2>2 DEF s
<1> QED BY <1>1, <1>2, <1>3, <1>4

(* And what is made of the time that the model resolved. *)
LEMMA ResolutionIs ==
    ASSUME NEW t, WellResolved(t), NEW now \in Int
    PROVE  Timed(ScopeFromResolution(t, now)) /\ Past(ScopeFromResolution(t, now), now)
<1> DEFINE s == ScopeFromResolution(t, now)
<1>1. CASE t.mode = "range"
  <2>1. CASE t.length \in {Unset, 0}
    <3>1. s = Trailing(Default, now, TRUE)
      BY <1>1, <2>1, UnsetAssumption DEF ScopeFromResolution
    <3> QED BY <3>1, TrailingIs, ClockAssumption
  <2>2. CASE t.length \notin {Unset, 0}
    <3>1. s = Trailing(t.length, now, FALSE)
      BY <1>1, <2>2, UnsetAssumption DEF ScopeFromResolution
    <3>2. t.length \in Nat \cup {TooLong}
      BY <1>1, <2>2 DEF WellResolved
    <3> QED BY <3>1, <3>2, TrailingIs
  <2> QED BY <2>1, <2>2
<1>2. CASE t.mode = "point"
  <2>1. s = ScopeFromPoint(t.anchor, now)
    BY <1>2, UnsetAssumption DEF ScopeFromResolution
  <2>2. CASE t.anchor = Unset
    <3>1. s = Now(TRUE)
      BY <2>1, <2>2 DEF ScopeFromPoint
    <3> QED BY <3>1, NowIs
  <2>4. CASE t.anchor = TooLong
    <3>1. s = Failed
      BY <2>1, <2>4, UnsetAssumption DEF ScopeFromPoint
    <3> QED BY <3>1, NowIs
  <2>3. CASE t.anchor # Unset /\ t.anchor # TooLong
    <3> DEFINE a == Min({t.anchor, now})
    <3>1. s = PointScope(a, now, t.anchor > now)
      BY <2>1, <2>3 DEF ScopeFromPoint
    <3>2. t.anchor \in Int
      BY <1>2, <2>3 DEF WellResolved
    <3>3. a \in Int /\ a <= now
      BY <3>2, MinOfTwo
    <3> HIDE DEF a
    <3> QED BY <3>1, <3>3, PointScopeIs
  <2> QED BY <2>2, <2>3, <2>4
<1>3. CASE t.mode = "interval"
  <2> DEFINE a == t.start
             b == t.end
  <2>1. s = ScopeFromInterval(a, b, now)
    BY <1>3, UnsetAssumption DEF ScopeFromResolution
  <2>4. CASE Unset \notin {a, b} /\ TooLong \in {a, b}
    <3>1. s = Failed
      BY <2>1, <2>4 DEF ScopeFromInterval
    <3> QED BY <3>1, NowIs
  <2>2. CASE Unset \in {a, b} \/ (TooLong \notin {a, b} /\ Min({a, b}) > now)
    <3>1. s = Trailing(Default, now, TRUE)
      BY <2>1, <2>2 DEF ScopeFromInterval
    <3> QED BY <3>1, TrailingIs, ClockAssumption
  <2>3. CASE Unset \notin {a, b} /\ TooLong \notin {a, b} /\ ~(Min({a, b}) > now)
    <3> DEFINE from == Min({a, b})
               to == Min({Max({a, b}), now})
               z == Max({a, b}) > now
    <3>1. s = IntervalScope(from, to, now, z)
      BY <2>1, <2>3 DEF ScopeFromInterval
    <3>2. a \in Int /\ b \in Int
      BY <1>3, <2>3 DEF WellResolved
    <3> HIDE DEF a, b
    <3>3. Min({a, b}) = (IF a <= b THEN a ELSE b) /\ Max({a, b}) = (IF a <= b THEN b ELSE a)
      BY <3>2, MinOfTwo, MaxOfTwo
    <3>4. Max({a, b}) \in Int /\ Min({a, b}) \in Int /\ Min({a, b}) <= Max({a, b}) /\ Min({a, b}) <= now
      BY <2>3, <3>2, <3>3
    <3>5. to = IF Max({a, b}) <= now THEN Max({a, b}) ELSE now
      BY <3>4, MinOfTwo
    <3>6. from \in Int /\ to \in Int /\ from <= to /\ from <= now
      BY <3>4, <3>5
    <3> HIDE DEF from, to, z
    <3>7. Timed(IntervalScope(from, to, now, z)) /\ Past(IntervalScope(from, to, now, z), now)
      BY <3>6, IntervalScopeIs
    <3> QED BY <3>1, <3>7
  <2> QED BY <2>2, <2>3, <2>4
<1>4. CASE t.mode \notin {"range", "point", "interval"}
  <2>1. s = Now(FALSE) \/ s = Failed
    BY <1>4, UnsetAssumption DEF ScopeFromResolution
  <2> QED BY <2>1, NowIs
<1> QED BY <1>1, <1>2, <1>3, <1>4

LEMMA BoundedIs ==
    ASSUME NEW i, NEW s, NEW now \in Int, Timed(s)
    PROVE  /\ Timed(Bounded(i, s, now)) /\ (Past(s, now) => Past(Bounded(i, s, now), now))
           /\ i = "spike" /\ Bounded(i, s, now).kind # "failed" => Bounded(i, s, now).start # Unset
           /\ Bounded(i, s, now).kind \in {"point", "interval"} => Bounded(i, s, now) = s
<1>1. CASE i \in {"trend", "spike"} /\ s.kind = "now"
  <2>1. Bounded(i, s, now) = Trailing(Default, now, TRUE)
    BY <1>1 DEF Bounded
  <2>2. /\ Timed(Trailing(Default, now, TRUE)) /\ Past(Trailing(Default, now, TRUE), now)
        /\ Trailing(Default, now, TRUE).kind \in {"range", "failed"}
    BY TrailingIs, ClockAssumption
  <2> QED BY <2>1, <2>2, UnsetAssumption DEF Timed
<1>2. CASE ~(i \in {"trend", "spike"} /\ s.kind = "now")
  <2>1. Bounded(i, s, now) = s
    BY <1>2 DEF Bounded
  <2> QED BY <1>2, <2>1, UnsetAssumption DEF Timed
<1> QED BY <1>1, <1>2

-----------------------------------------------------------------------------
(* What is known of a question once it is understood.                      *)
ByRules == router = "rule" /\ parsed = ParseQuery(asked.said, asked.explicit, asked.now)
ByModel ==
    /\ router = "llm" /\ "intent" \in DOMAIN asked.resolution
    /\ parsed = MapResolution(asked.resolution, asked.explicit, Plant, asked.now)
UnderstoodInv == asked \in Question /\ (stage # "ask" => ByRules \/ ByModel)

(* Every step but the first leaves the question as it was understood. *)
LEMMA StepsAre ==
    ASSUME [ChatNext]_chatVars
    PROVE  \/ stage = "ask" /\ AskRules
           \/ stage = "ask" /\ ToolCalled /\ AskModel
           \/ ReadReports \/ ReadImages \/ Explain
           \/ \E s \in DOMAIN Sources :
                ReadHistory(s) \/ ReadCauses(s) \/ ListFails(s) \/ Vanished(s) \/ ReadOnce(s) \/ Fails(s)
           \/ UNCHANGED chatVars
BY DEF ChatNext, Resolve

LEMMA AskedStays ==
    ASSUME [ChatNext]_chatVars
    PROVE  /\ asked' = asked
           /\ \/ stage = "ask" /\ AskRules
              \/ stage = "ask" /\ ToolCalled /\ AskModel
              \/ /\ parsed' = parsed /\ router' = router
                 /\ stage = "ask" => stage' = "ask"
<1>1. CASE stage = "ask" /\ AskRules
  BY <1>1 DEF AskRules, Admit
<1>2. CASE stage = "ask" /\ ToolCalled /\ AskModel
  BY <1>2 DEF AskModel, Admit
<1>3. CASE ReadReports
  BY <1>3 DEF ReadReports, Reading
<1>4. CASE ReadImages
  BY <1>4 DEF ReadImages
<1>5. CASE Explain
  BY <1>5 DEF Explain
<1>6. ASSUME NEW s \in DOMAIN Sources,
             ReadHistory(s) \/ ReadCauses(s) \/ ListFails(s) \/ Vanished(s) \/ ReadOnce(s) \/ Fails(s)
      PROVE  asked' = asked /\ parsed' = parsed /\ router' = router /\ stage # "ask"
  <2>1. Reading(s) /\ s \in {"aggregates", "details", "lowest", "scores", "report", "latest", "recent", "reports"}
    BY <1>6 DEF ReadHistory, ReadCauses, ListFails, Vanished, ReadOnce, Fails, Listed
  <2> QED BY <2>1 DEF Reading
<1>7. CASE UNCHANGED chatVars
  BY <1>7 DEF chatVars
<1> QED BY <1>1, <1>2, <1>3, <1>4, <1>5, <1>6, <1>7, StepsAre

LEMMA UnderstoodCorrect == ChatSpec => []UnderstoodInv
<1>1. ChatInit => UnderstoodInv
  BY DEF ChatInit, ChatStart, UnderstoodInv
<1>2. UnderstoodInv /\ [ChatNext]_chatVars => UnderstoodInv'
  <2> SUFFICES ASSUME UnderstoodInv, [ChatNext]_chatVars PROVE UnderstoodInv'
    OBVIOUS
  <2>1. asked' = asked /\ asked \in Question
    BY AskedStays DEF UnderstoodInv
  <2>2. CASE stage = "ask" /\ AskRules
    <3>1. router' = "rule" /\ parsed' = ParseQuery(asked.said, asked.explicit, asked.now)
      BY <2>2 DEF AskRules, Admit
    <3> QED BY <2>1, <3>1 DEF UnderstoodInv, ByRules
  <2>3. CASE stage = "ask" /\ ToolCalled /\ AskModel
    <3>1. router' = "llm" /\ parsed' = MapResolution(asked.resolution, asked.explicit, Plant, asked.now)
      BY <2>3 DEF AskModel, Admit
    <3>2. "intent" \in DOMAIN asked.resolution
      BY <2>3 DEF ToolCalled
    <3> QED BY <2>1, <3>1, <3>2 DEF UnderstoodInv, ByModel
  <2>4. CASE parsed' = parsed /\ router' = router /\ (stage = "ask" => stage' = "ask")
    BY <2>1, <2>4 DEF UnderstoodInv, ByRules, ByModel
  <2> QED BY <2>2, <2>3, <2>4, AskedStays
<1> QED BY <1>1, <1>2, PTL DEF ChatSpec

LEMMA TimeOf ==
    ASSUME NEW q \in Question
    PROVE  /\ q.now \in Int /\ WellSaid(q.said)
           /\ LET p == ParseQuery(q.said, q.explicit, q.now)
              IN  /\ Timed(p.time)
                  /\ p.intent = "spike" /\ p.time.kind # "failed" => p.time.start # Unset
                  /\ ~ExplicitDay(q.said) => Past(p.time, q.now)
                  /\ p.time.kind \in {"point", "interval"} => p.time = ParseTime(q.said, q.now)
           /\ "intent" \in DOMAIN q.resolution =>
                LET p == MapResolution(q.resolution, q.explicit, Plant, q.now)
                IN  /\ Timed(p.time) /\ Past(p.time, q.now)
                    /\ p.intent = "spike" /\ p.time.kind # "failed" => p.time.start # Unset
<1>1. q.now \in Int /\ WellSaid(q.said)
  BY QuestionAssumption
<1>2. LET p == ParseQuery(q.said, q.explicit, q.now)
      IN  /\ Timed(p.time)
          /\ p.intent = "spike" /\ p.time.kind # "failed" => p.time.start # Unset
          /\ ~ExplicitDay(q.said) => Past(p.time, q.now)
          /\ p.time.kind \in {"point", "interval"} => p.time = ParseTime(q.said, q.now)
  <2> DEFINE p == ParseQuery(q.said, q.explicit, q.now)
             i == ParseIntent(q.said)
             t == ParseTime(q.said, q.now)
  <2>1. p.intent = i /\ p.time = Bounded(i, t, q.now)
    BY DEF ParseQuery
  <2>2. Timed(t) /\ (~ExplicitDay(q.said) => Past(t, q.now))
    BY <1>1, ParseTimeIs
  <2> HIDE DEF p, i, t
  <2>3. /\ Timed(p.time)
        /\ p.intent = "spike" /\ p.time.kind # "failed" => p.time.start # Unset
        /\ ~ExplicitDay(q.said) => Past(p.time, q.now)
        /\ p.time.kind \in {"point", "interval"} => p.time = t
    BY <1>1, <2>1, <2>2, BoundedIs
  <2> QED BY <2>3 DEF p, t
<1>3. ASSUME "intent" \in DOMAIN q.resolution
      PROVE  LET p == MapResolution(q.resolution, q.explicit, Plant, q.now)
             IN  /\ Timed(p.time) /\ Past(p.time, q.now)
                 /\ p.intent = "spike" /\ p.time.kind # "failed" => p.time.start # Unset
  <2> DEFINE p == MapResolution(q.resolution, q.explicit, Plant, q.now)
             i == KnownIntent(q.resolution.intent)
             t == ScopeFromResolution(q.resolution.time, q.now)
  <2>1. p.intent = i /\ (p.time = Bounded(i, t, q.now) \/ p.time = Failed)
    BY DEF MapResolution
  <2>2. WellResolved(q.resolution.time)
    BY <1>3, QuestionAssumption
  <2>3. Timed(t) /\ Past(t, q.now)
    BY <1>1, <2>2, ResolutionIs
  <2> HIDE DEF p, i, t
  <2>4. /\ Timed(p.time) /\ Past(p.time, q.now)
        /\ p.intent = "spike" /\ p.time.kind # "failed" => p.time.start # Unset
    <3>1. CASE p.time = Bounded(i, t, q.now)
      BY <1>1, <2>1, <2>3, <3>1, BoundedIs
    <3>2. CASE p.time = Failed
      BY <1>1, <3>2, NowIs
    <3> QED BY <2>1, <3>1, <3>2
  <2> QED BY <2>4 DEF p
<1> QED BY <1>1, <1>2, <1>3

(* So a search for spikes always has a scope. *)
LEMMA SpikesAreBounded ==
    ASSUME UnderstoodInv, stage # "ask"
    PROVE  /\ Timed(parsed.time)
           /\ parsed.intent = "spike" /\ parsed.time.kind # "failed" => parsed.time.start # Unset
BY TimeOf DEF UnderstoodInv, ByRules, ByModel

-----------------------------------------------------------------------------
(* An instant shows a reading exactly when it is one of its ticks. *)
LEMMA ShowsIs ==
    ASSUME NEW t \in Int, NEW marker \in Markers, NEW h \in Nat, NEW m
    PROVE  Shows(t, marker, h, m) <=> \E x \in HoursOf(marker, h) : t % Day = x * PerHour + m
<1>1. NamedHours(marker, h) = {ResolveHour(marker, h)}
  BY NamedIs
<1> QED BY <1>1 DEF Shows, HoursOf

LEMMA PointCorrect ==
    ASSUME UnderstoodInv
    PROVE  UndatedPointIsLatest
<1> SUFFICES ASSUME Understood, router = "rule", parsed.time.kind = "point", ~ExplicitDay(asked.said)
             PROVE  LET p == Phrase(asked.said, "point")
                        past == {t \in (asked.now - Day)..asked.now : Shows(t, p.marker, p.hour, p.tick)}
                    IN  parsed.time.target = Max(past)
  BY DEF UndatedPointIsLatest
<1> DEFINE q == asked.said
           now == asked.now
           p == Phrase(asked.said, "point")
           past == {t \in (now - Day)..now : Shows(t, p.marker, p.hour, p.tick)}
           best == ResolvePoint(q, p, now)
<1>1. asked \in Question /\ parsed = ParseQuery(asked.said, asked.explicit, asked.now)
  BY DEF UnderstoodInv, Understood, ByRules, ByModel
<1>2. now \in Int /\ WellSaid(q) /\ parsed.time = ParseTime(q, now)
  BY <1>1, TimeOf
<1>3. ClockReading(p) /\ p.tick # PerHour /\ parsed.time.target = best
  BY <1>2, ParseTimeIs
<1>4. PICK x \in HoursOf(p.marker, p.hour) : best = Latest(now, x * PerHour + p.tick)
  BY <1>2, <1>3, UndatedPoint
<1>5. \A y \in HoursOf(p.marker, p.hour) : Latest(now, y * PerHour + p.tick) <= best
  BY <1>2, <1>3, UndatedPoint
<1>6. p.hour \in Nat /\ p.tick \in 0..(PerHour - 1) /\ p.marker \in Markers
  BY <1>3, ClockAssumption DEF ClockReading
<1>7. \A y \in HoursOf(p.marker, p.hour) : y * PerHour + p.tick \in 0..(Day - 1)
  BY <1>6, HoursOfIs, DayIs
<1> HIDE DEF q, now, p, best
<1>8. best \in Int /\ best <= now /\ now - Day < best /\ best % Day = x * PerHour + p.tick
  BY <1>2, <1>4, <1>7, LatestIs
<1>9. best \in past
  <2>1. Shows(best, p.marker, p.hour, p.tick)
    BY <1>6, <1>8, ShowsIs
  <2>2. best \in (now - Day)..now
    BY <1>2, <1>8, DayIs
  <2> QED BY <2>1, <2>2
<1>10. past \subseteq Int
  BY <1>2, DayIs
<1>11. ASSUME NEW u \in past PROVE u <= best
  <2>1. u \in (now - Day)..now /\ u \in Int /\ Shows(u, p.marker, p.hour, p.tick)
    BY <1>10, <1>11
  <2>2. PICK y \in HoursOf(p.marker, p.hour) : u % Day = y * PerHour + p.tick
    BY <1>6, <2>1, ShowsIs
  <2>3. u <= Latest(now, y * PerHour + p.tick)
    BY <1>2, <1>7, <2>1, <2>2, LatestIs
  <2>4. Latest(now, y * PerHour + p.tick) \in Int
    BY <1>2, <1>7, LatestIs
  <2> QED BY <1>5, <1>8, <2>1, <2>3, <2>4
<1> HIDE DEF past
<1>12. Max(past) = best
  BY <1>9, <1>10, <1>11, MaxIs
<1> QED BY <1>3, <1>12 DEF past, q, now, p

LEMMA IntervalCorrect ==
    ASSUME UnderstoodInv
    PROVE  UndatedIntervalIsLatest
<1> SUFFICES ASSUME Understood, router = "rule", parsed.time.kind = "interval", ~ExplicitDay(asked.said)
             PROVE  LET p == Phrase(asked.said, "interval")
                        start == Max({t \in (asked.now - Day)..asked.now : t % Day = FromTick(p)})
                        end == Min({t \in (start + 1)..(start + Day) : t % Day = ToTick(p)})
                    IN  parsed.time.start = start /\ parsed.time.end = Min({end, asked.now})
  <2> SUFFICES ASSUME Understood, router = "rule", parsed.time.kind = "interval", ~ExplicitDay(asked.said)
               PROVE  LET p == Phrase(asked.said, "interval")
                          from == IF p.from.marker = Unset THEN p.to.marker ELSE p.from.marker
                          to == IF p.to.marker = Unset THEN p.from.marker ELSE p.to.marker
                          Starts(t) == \E x \in NamedHours(from, p.from.hour) :
                                           t % Day = x * PerHour + p.from.tick
                          Ends(t) == \E x \in NamedHours(to, p.to.hour) : t % Day = x * PerHour + p.to.tick
                          start == Max({t \in (asked.now - Day)..asked.now : Starts(t)})
                          end == Min({t \in (start + 1)..(start + Day) : Ends(t)})
                      IN  parsed.time.start = start /\ parsed.time.end = Min({end, asked.now})
    BY DEF UndatedIntervalIsLatest
  <2> DEFINE p == Phrase(asked.said, "interval")
             from == IF p.from.marker = Unset THEN p.to.marker ELSE p.from.marker
             to == IF p.to.marker = Unset THEN p.from.marker ELSE p.to.marker
  <2>1. asked.now \in Int /\ WellSaid(asked.said) /\ parsed.time = ParseTime(asked.said, asked.now)
    BY TimeOf DEF UnderstoodInv, Understood, ByRules, ByModel
  <2>2. ClockReading(p.from) /\ ClockReading(p.to)
    BY <2>1, ParseTimeIs
  <2>3. from = FromMarker(p) /\ to = ToMarker(p)
    BY DEF FromMarker, ToMarker
  <2> HIDE DEF p, from, to
  <2>4. p.from.hour \in Nat /\ p.to.hour \in Nat /\ p.from.marker \in Markers /\ p.to.marker \in Markers
    BY <2>2 DEF ClockReading
  <2>5. from \in Markers /\ to \in Markers
    BY <2>4 DEF from, to
  <2>6. /\ NamedHours(from, p.from.hour) = {ResolveHour(FromMarker(p), p.from.hour)}
        /\ NamedHours(to, p.to.hour) = {ResolveHour(ToMarker(p), p.to.hour)}
    BY <2>3, <2>4, <2>5, NamedIs
  <2>7. /\ \A t : (\E x \in NamedHours(from, p.from.hour) : t % Day = x * PerHour + p.from.tick)
                    <=> t % Day = FromTick(p)
        /\ \A t : (\E x \in NamedHours(to, p.to.hour) : t % Day = x * PerHour + p.to.tick)
                    <=> t % Day = ToTick(p)
    BY <2>6 DEF FromTick, ToTick
  <2> QED BY <2>7 DEF p, from, to
<1> DEFINE q == asked.said
           now == asked.now
           p == Phrase(asked.said, "interval")
           r == ResolveInterval(q, p, now)
           begun == {t \in (now - Day)..now : t % Day = FromTick(p)}
           ended == {t \in (r.start + 1)..(r.start + Day) : t % Day = ToTick(p)}
<1>1. asked \in Question /\ parsed = ParseQuery(asked.said, asked.explicit, asked.now)
  BY DEF UnderstoodInv, Understood, ByRules, ByModel
<1>2. now \in Int /\ WellSaid(q) /\ parsed.time = ParseTime(q, now)
  BY <1>1, TimeOf
<1>3. /\ ClockReading(p.from) /\ ClockReading(p.to) /\ PerHour \notin {p.from.tick, p.to.tick}
      /\ parsed.time.start = r.start /\ parsed.time.end = Min({r.end, now})
  BY <1>2, ParseTimeIs
<1>4. /\ r.start \in Int /\ r.end \in Int /\ r.start < r.end /\ r.end <= r.start + Day
      /\ r.start = Latest(now, FromTick(p)) /\ r.end % Day = ToTick(p)
  BY <1>2, <1>3, IntervalIs
<1>5. FromTick(p) \in 0..(Day - 1)
  BY <1>3, TicksIn
<1> HIDE DEF q, now, p, r
<1>6. Max(begun) = r.start
  <2>1. /\ r.start <= now /\ now - Day < r.start /\ r.start % Day = FromTick(p)
        /\ \A u \in (now - Day)..now : u % Day = FromTick(p) => u <= r.start
    BY <1>2, <1>4, <1>5, LatestIs
  <2>2. r.start \in begun /\ begun \subseteq Int
    BY <1>2, <1>4, <2>1, DayIs
  <2>3. \A u \in begun : u <= r.start
    BY <2>1
  <2> HIDE DEF begun
  <2> QED BY <2>2, <2>3, MaxIs
<1>7. Min(ended) = r.end
  <2>1. r.end \in ended /\ ended \subseteq Int
    BY <1>4, DayIs
  <2>2. ASSUME NEW u \in ended PROVE r.end <= u
    <3>1. u \in Int /\ r.start < u /\ u % Day = r.end % Day
      BY <1>4, <2>2, DayIs
    <3>2. SUFFICES ASSUME u < r.end PROVE FALSE
      BY <1>4, <3>1
    <3>3. u + Day <= r.end
      BY <1>4, <3>1, <3>2, OncePerDay
    <3> QED BY <1>4, <3>1, <3>3, DayIs
  <2> HIDE DEF ended
  <2> QED BY <2>1, <2>2, MinIs
<1> QED BY <1>3, <1>6, <1>7 DEF q, now, p

LEMMA PastCorrect ==
    ASSUME UnderstoodInv
    PROVE  ScopeIsPast
<1> SUFFICES ASSUME Understood, parsed.time.start # Unset, router = "rule" => ~ExplicitDay(asked.said)
             PROVE  Past(parsed.time, asked.now)
  BY DEF ScopeIsPast, Past
<1>1. CASE ByRules
  BY <1>1, TimeOf DEF UnderstoodInv, ByRules
<1>2. CASE ByModel
  BY <1>2, TimeOf DEF UnderstoodInv, ByModel
<1> QED BY <1>1, <1>2 DEF UnderstoodInv, Understood

(* For every clock, every phrase the patterns can find and every answer of *)
(* the model: a scope lies in the past unless the question names a day,    *)
(* and a reading of the clock without a day is the latest one there was.   *)
THEOREM ScopeCorrect == ChatSpec => []ScopeIsRight
<1>1. UnderstoodInv => ScopeIsRight
  BY PastCorrect, PointCorrect, IntervalCorrect DEF ScopeIsRight
<1> QED BY <1>1, UnderstoodCorrect, PTL

-----------------------------------------------------------------------------
(* The permission is asked once, before the first read; every read is of   *)
(* the target it was asked for.                                            *)
DueInv ==
    /\ stage \notin {"ask", "done"} => MayRead(parsed.factory)
    /\ stage = "ask" => reads = {}
    /\ stage = "recent" => parsed.intent = "cause"
    /\ \A r \in reads : /\ r[2] = parsed.factory /\ MayRead(parsed.factory)
                        /\ r[1] = "images" => SystemAccess
                        /\ r[1] = "recent" => parsed.intent = "cause"

(* A read that needs no more than the permission and, of the last hours,   *)
(* the search for a cause.                                                 *)
LEMMA ReadIsDue ==
    ASSUME DueInv, NEW s, Reading(s), s # "images", stage # "ask", stage # "done",
           stage' # "ask", stage' # "recent"
    PROVE  DueInv'
<1>1. /\ asked' = asked /\ parsed' = parsed /\ stage = s /\ reads' = reads \cup {<<s, parsed.factory>>}
  BY DEF Reading
<1>2. MayRead(parsed.factory) /\ (s = "recent" => parsed.intent = "cause")
  BY <1>1 DEF DueInv
<1>3. MayRead(parsed.factory)' = MayRead(parsed.factory) /\ SystemAccess' = SystemAccess
  BY <1>1 DEF MayRead, SystemAccess
<1>4. ASSUME NEW r \in reads'
      PROVE  /\ r[2] = parsed.factory
             /\ r[1] = "images" => SystemAccess
             /\ r[1] = "recent" => parsed.intent = "cause"
  <2>1. CASE r \in reads
    BY <2>1 DEF DueInv
  <2>2. CASE r = <<s, parsed.factory>>
    BY <1>2, <2>2
  <2> QED BY <1>1, <1>4, <2>1, <2>2
<1> QED BY <1>1, <1>2, <1>3, <1>4 DEF DueInv

LEMMA AdmitIsDue ==
    ASSUME NEW p, NEW source, stage = "ask", DueInv, Admit(p, source), Timed(p.time),
           p.intent = "spike" /\ p.time.kind # "failed" => p.time.start # Unset
    PROVE  DueInv'
<1>1. parsed' = p /\ asked' = asked /\ reads' = {}
  BY DEF Admit, DueInv
<1>2. stage' = "done" \/ (stage' = FirstRead(p) /\ Allowed(p.factory) /\ p.time.kind # "failed")
  BY DEF Admit, Settled
<1>3. FirstRead(p) \in {"reports", "report", "recent", "aggregates", "latest"}
  BY DEF FirstRead
<1>4. FirstRead(p) = "recent" /\ p.time.kind # "failed" => p.intent = "cause"
  BY UnsetAssumption DEF FirstRead, Historical, Timed
<1>5. Allowed(p.factory) => MayRead(parsed.factory)'
  BY <1>1 DEF Allowed, MayRead, SystemAccess
<1> QED BY <1>1, <1>2, <1>3, <1>4, <1>5 DEF DueInv

LEMMA StageAfter ==
    ASSUME NEW p, NEW e
    PROVE  AfterSummary(p, e) \in {"lowest", "scores", "image"}
BY DEF AfterSummary

LEMMA DueStep == UnderstoodInv /\ UnderstoodInv' /\ DueInv /\ [ChatNext]_chatVars => DueInv'
<1> SUFFICES ASSUME UnderstoodInv, UnderstoodInv', DueInv, [ChatNext]_chatVars PROVE DueInv'
  OBVIOUS
<1>1. CASE stage = "ask" /\ AskRules
  <2> DEFINE p == ParseQuery(asked.said, asked.explicit, asked.now)
  <2>1. Admit(p, "rule")
    BY <1>1 DEF AskRules
  <2>2. Timed(p.time) /\ (p.intent = "spike" /\ p.time.kind # "failed" => p.time.start # Unset)
    BY TimeOf DEF UnderstoodInv
  <2> HIDE DEF p
  <2> QED BY <1>1, <2>1, <2>2, AdmitIsDue
<1>2. CASE stage = "ask" /\ ToolCalled /\ AskModel
  <2> DEFINE p == MapResolution(asked.resolution, asked.explicit, Plant, asked.now)
  <2>1. Admit(p, "llm")
    BY <1>2 DEF AskModel
  <2>2. Timed(p.time) /\ (p.intent = "spike" /\ p.time.kind # "failed" => p.time.start # Unset)
    BY <1>2, TimeOf DEF UnderstoodInv, ToolCalled
  <2> HIDE DEF p
  <2> QED BY <1>2, <2>1, <2>2, AdmitIsDue
<1>3. CASE ReadReports
  <2>1. Reading("reports") /\ stage = "reports" /\ stage' \in {"done", "report"}
    BY <1>3 DEF ReadReports, Reading, NotFound, Settled
  <2> QED BY <2>1, ReadIsDue
<1>4. CASE ReadImages
  <2>1. asked' = asked /\ parsed' = parsed /\ stage = "image" /\ stage' \in {"explain", "done"}
    BY <1>4 DEF ReadImages, Settled, Pictures
  <2>2. reads' = reads \/ (SystemAccess /\ reads' = reads \cup {<<"images", parsed.factory>>})
    BY <1>4 DEF ReadImages
  <2>3. MayRead(parsed.factory)' = MayRead(parsed.factory) /\ SystemAccess' = SystemAccess
    BY <2>1 DEF MayRead, SystemAccess
  <2>4. MayRead(parsed.factory)
    BY <2>1 DEF DueInv
  <2>5. ASSUME NEW r \in reads'
        PROVE  /\ r[2] = parsed.factory
               /\ r[1] = "images" => SystemAccess
               /\ r[1] = "recent" => parsed.intent = "cause"
    <3>1. CASE r \in reads
      BY <3>1 DEF DueInv
    <3>2. CASE r = <<"images", parsed.factory>> /\ SystemAccess
      BY <3>2
    <3> QED BY <2>2, <2>5, <3>1, <3>2
  <2> QED BY <2>1, <2>3, <2>4, <2>5 DEF DueInv
<1>5. CASE Explain
  <2>1. asked' = asked /\ parsed' = parsed /\ reads' = reads /\ stage' = "done" /\ stage = "explain"
    BY <1>5 DEF Explain, ModelAnswers, ModelFails, Settled
  <2>2. MayRead(parsed.factory)' = MayRead(parsed.factory) /\ SystemAccess' = SystemAccess
    BY <2>1 DEF MayRead, SystemAccess
  <2> QED BY <2>1, <2>2 DEF DueInv
<1>6. ASSUME NEW s \in DOMAIN Sources,
             ReadHistory(s) \/ ReadCauses(s) \/ ListFails(s) \/ Vanished(s) \/ ReadOnce(s) \/ Fails(s)
      PROVE  DueInv'
  <2>1. Reading(s) /\ s \in {"aggregates", "details", "lowest", "scores", "report", "latest", "recent", "reports"}
    BY <1>6 DEF ReadHistory, ReadCauses, ListFails, Vanished, ReadOnce, Fails, Listed
  <2>2. stage = s
    BY <2>1 DEF Reading
  <2>3. stage' \in {"details", "lowest", "scores", "image", "done"}
    BY <1>6, StageAfter DEF ReadHistory, ReadCauses, ListFails, Vanished, ReadOnce, Fails, Collected, NotFound, Settled
  <2> QED BY <2>1, <2>2, <2>3, ReadIsDue
<1>7. CASE UNCHANGED chatVars
  <2>1. asked' = asked /\ parsed' = parsed /\ reads' = reads /\ stage' = stage
    BY <1>7 DEF chatVars
  <2>2. MayRead(parsed.factory)' = MayRead(parsed.factory) /\ SystemAccess' = SystemAccess
    BY <2>1 DEF MayRead, SystemAccess
  <2> QED BY <2>1, <2>2 DEF DueInv
<1> QED BY <1>1, <1>2, <1>3, <1>4, <1>5, <1>6, <1>7, StepsAre

(* Whoever names the target, the words, the hint or the model: nothing is  *)
(* read that the principal may not read, no pictures without system        *)
(* access, and nothing but a search for a cause reads the last two hours.  *)
THEOREM ReadsCorrect == ChatSpec => []ReadsAreDue
<1>1. ChatInit => DueInv
  BY DEF ChatInit, ChatStart, DueInv
<1>2. DueInv => ReadsAreDue
  BY DEF DueInv, ReadsAreDue, PermissionBeforeReads, TrendsReadTheArchive
<1> QED BY <1>1, <1>2, DueStep, UnderstoodCorrect, PTL DEF ChatSpec

-----------------------------------------------------------------------------
(* What failed is named as soon as there is evidence to name it in, and    *)
(* the note that causes lack goes when they are found.                     *)
Whole(e) == e = [confirmed |-> e.confirmed, missing |-> e.missing]
Consistent(e) == "causes" \in e.confirmed => <<"items", "causes">> \notin e.missing
Named(e) == \A s \in failed : <<s, "failed">> \in e.missing

(* The cause of a status, but for that of a conversion which raised.       *)
StatusSeen ==
    stage = "done" =>
      /\ answer.status = 403 => ~MayRead(parsed.factory) \/ (asked.images /\ ~SystemAccess)
      /\ answer.status = 504 => failed \ (Listed \cup {"images"}) # {}
      /\ answer.status = 500 => parsed.time.kind = "failed"

HonestInv ==
    /\ Whole(evidence) /\ Consistent(evidence)
    /\ stage \in {"ask", "reports", "report", "recent", "latest", "aggregates"} => failed = {}
    /\ stage = "details" => failed \subseteq {"aggregates"}
    /\ stage \in {"lowest", "scores", "image", "explain"} => Named(evidence)
    /\ FailuresAreNamed /\ StatusSeen

LEMMA NoteIs ==
    ASSUME NEW e, Whole(e), NEW notes
    PROVE  /\ Whole(Note(e, notes)) /\ Note(e, notes).confirmed = e.confirmed
           /\ Note(e, notes).missing = e.missing \cup notes
<1>1. Note(e, notes) = [confirmed |-> e.confirmed, missing |-> e.missing \cup notes]
  BY DEF Note, Whole
<1> QED BY <1>1 DEF Whole

LEMMA SummarizedIs ==
    ASSUME NEW p, NEW items
    PROVE  /\ Whole(Summarized(p, items)) /\ Consistent(Summarized(p, items))
BY DEF Summarized, Whole, Consistent

LEMMA SummaryIs ==
    ASSUME NEW source \in {"latest", "recent", "report"}, NEW got
    PROVE  Whole(SummaryOf(source, got)) /\ Consistent(SummaryOf(source, got))
<1>1. CASE source = "latest"
  BY <1>1 DEF SummaryOf, LatestSummary, Whole, Consistent
<1>2. CASE source = "recent"
  BY <1>2, SummarizedIs DEF SummaryOf
<1>3. CASE source = "report"
  BY <1>3 DEF SummaryOf, ReportSummary, Whole, Consistent
<1> QED BY <1>1, <1>2, <1>3

LEMMA BoundIs ==
    ASSUME NEW p, NEW f
    PROVE  /\ Whole(Bound(p, f)) /\ Consistent(Bound(p, f))
           /\ \A s \in failed' : <<s, "failed">> \in Bound(p, f).missing
<1> DEFINE e == Summarized(p, Items(f))
           n == Note(e, ReadNotes(f))
<1>1. Whole(e) /\ Consistent(e)
  BY SummarizedIs
<1>2. Bound(p, f) = [n EXCEPT !.confirmed = @ \cup {"window"}]
  BY DEF Bound
<1> HIDE DEF e
<1>3. Whole(n) /\ n.confirmed = e.confirmed /\ n.missing = e.missing \cup ReadNotes(f)
  BY <1>1, NoteIs
<1> HIDE DEF n
<1>4. Bound(p, f) = [confirmed |-> e.confirmed \cup {"window"}, missing |-> e.missing \cup ReadNotes(f)]
  BY <1>2, <1>3 DEF Whole
<1>5. <<"items", "causes">> \notin ReadNotes(f) /\ \A s \in failed' : <<s, "failed">> \in ReadNotes(f)
  BY DEF ReadNotes
<1> QED BY <1>1, <1>4, <1>5 DEF Whole, Consistent

LEMMA EnrichedIs ==
    ASSUME NEW e, Whole(e), Consistent(e), NEW source \in {"lowest", "scores"}, NEW got
    PROVE  /\ Whole(Enriched(e, source, got)) /\ Consistent(Enriched(e, source, got))
           /\ \A s : <<s, "failed">> \in e.missing => <<s, "failed">> \in Enriched(e, source, got).missing
<1>1. CASE got = "caused"
  <2>1. Enriched(e, source, got) = [confirmed |-> e.confirmed \cup {"causes", source},
                                    missing |-> e.missing \ {<<"items", "causes">>}]
    BY <1>1 DEF Enriched, WithoutCauseNotes
  <2>2. \A s : <<s, "failed">> # <<"items", "causes">>
    OBVIOUS
  <2> QED BY <2>1, <2>2 DEF Whole, Consistent
<1>2. CASE got # "caused"
  <2> DEFINE notes == {<<source, IF got = "empty" THEN "empty" ELSE "causes">>}
  <2>1. Enriched(e, source, got) = Note(e, notes)
    BY <1>2 DEF Enriched
  <2>2. <<"items", "causes">> \notin notes
    OBVIOUS
  <2> HIDE DEF notes
  <2> QED BY <2>1, <2>2, NoteIs DEF Consistent
<1> QED BY <1>1, <1>2

LEMMA AdmitIsHonest ==
    ASSUME NEW p, NEW source, stage = "ask", HonestInv, Admit(p, source)
    PROVE  HonestInv'
<1>1. failed' = {} /\ failed = {} /\ asked' = asked /\ parsed' = p
  BY DEF Admit, HonestInv
<1>2. Whole(evidence)' /\ Consistent(evidence)'
  <2>1. CASE evidence' = evidence
    BY <2>1 DEF HonestInv, Whole, Consistent
  <2>2. CASE evidence' = [NoEvidence EXCEPT !.missing = {<<"question", "unresolved">>}]
    <3>1. evidence' = [confirmed |-> {}, missing |-> {<<"question", "unresolved">>}]
      BY <2>2 DEF NoEvidence
    <3> QED BY <3>1 DEF Whole, Consistent
  <2> QED BY <2>1, <2>2 DEF Admit
<1>3. \/ stage' = "done" /\ answer'.status = 500 /\ parsed'.time.kind = "failed"
      \/ stage' = "done" /\ answer'.status = 200
      \/ stage' = "done" /\ answer'.status = 403 /\ ~MayRead(parsed.factory)'
      \/ stage' = FirstRead(p)
  BY <1>1 DEF Admit, Settled, Allowed, MayRead, SystemAccess
<1>4. FirstRead(p) \in {"reports", "report", "recent", "aggregates", "latest"}
  BY DEF FirstRead
<1>5. StatusSeen'
  BY <1>3, <1>4 DEF StatusSeen
<1>6. FailuresAreNamed'
  BY <1>1 DEF FailuresAreNamed
<1> QED BY <1>1, <1>2, <1>3, <1>4, <1>5, <1>6 DEF HonestInv

(* A read that goes on with evidence in which every failure is named. *)
LEMMA GoesOn ==
    ASSUME HonestInv, Whole(evidence)', Consistent(evidence)',
           stage' \in {"lowest", "scores", "image", "explain"}, Named(evidence)'
    PROVE  HonestInv'
BY DEF HonestInv, FailuresAreNamed, StatusSeen

(* One that is settled for want of what it reads. *)
LEMMA NotFoundIs ==
    ASSUME HonestInv, NotFound
    PROVE  HonestInv'
<1>1. evidence' = [confirmed |-> {}, missing |-> {<<"report", "absent">>}]
  BY DEF NotFound, NoEvidence
<1>2. stage' = "done" /\ answer'.status = 200
  BY DEF NotFound, Settled
<1>3. MissingReport'
  BY <1>1 DEF MissingReport
<1>4. Whole(evidence)' /\ Consistent(evidence)'
  BY <1>1 DEF Whole, Consistent
<1> QED BY <1>2, <1>3, <1>4 DEF HonestInv, FailuresAreNamed, StatusSeen

LEMMA CollectedIs ==
    ASSUME HonestInv, NEW s \in {"aggregates", "details"}, stage = s,
           failed' = failed \/ failed' = failed \cup {s}, Collected(s)
    PROVE  HonestInv'
<1>1. failed \subseteq {"aggregates"} /\ (s = "aggregates" => failed = {})
  BY DEF HonestInv
<1>2. CASE s = "aggregates" /\ stage' = "details" /\ evidence' = evidence
  <2>1. failed' \subseteq {"aggregates"}
    BY <1>1, <1>2
  <2> QED BY <1>2, <2>1 DEF HonestInv, Whole, Consistent, FailuresAreNamed, StatusSeen
<1>3. CASE evidence' = Bound(parsed, found') /\ stage' = AfterSummary(parsed, evidence')
  <2>1. /\ Whole(Bound(parsed, found')) /\ Consistent(Bound(parsed, found'))
        /\ \A x \in failed' : <<x, "failed">> \in Bound(parsed, found').missing
    BY BoundIs
  <2>2. Whole(evidence)' /\ Consistent(evidence)' /\ Named(evidence)'
    BY <1>3, <2>1 DEF Whole, Consistent, Named
  <2>3. stage' \in {"lowest", "scores", "image"}
    BY <1>3, StageAfter
  <2> QED BY <2>2, <2>3, GoesOn
<1> QED BY <1>2, <1>3 DEF Collected

LEMMA SourceIsHonest ==
    ASSUME HonestInv, NEW s \in DOMAIN Sources,
           ReadHistory(s) \/ ReadCauses(s) \/ ListFails(s) \/ Vanished(s) \/ ReadOnce(s) \/ Fails(s)
    PROVE  HonestInv'
<1>1. CASE ReadHistory(s)
  BY <1>1, CollectedIs DEF ReadHistory, Reading
<1>2. CASE ReadCauses(s)
  <2>1. PICK o : evidence' = Enriched(evidence, s, o)
    BY <1>2 DEF ReadCauses
  <2>2. s \in {"lowest", "scores"} /\ stage = s /\ stage' = "image" /\ failed' = failed
    BY <1>2 DEF ReadCauses, Reading
  <2>3. Whole(evidence) /\ Consistent(evidence) /\ Named(evidence)
    BY <2>2 DEF HonestInv
  <2>4. /\ Whole(Enriched(evidence, s, o)) /\ Consistent(Enriched(evidence, s, o))
        /\ \A x : <<x, "failed">> \in evidence.missing => <<x, "failed">> \in Enriched(evidence, s, o).missing
    BY <2>2, <2>3, EnrichedIs
  <2>5. Whole(evidence)' /\ Consistent(evidence)' /\ Named(evidence)'
    BY <2>1, <2>2, <2>3, <2>4 DEF Whole, Consistent, Named
  <2> QED BY <2>2, <2>5, GoesOn
<1>3. CASE ListFails(s)
  <2>1. s \in {"aggregates", "details", "lowest", "scores"} /\ stage = s /\ failed' = failed \cup {s}
    BY <1>3 DEF ListFails, Listed, Reading
  <2>2. CASE s \in {"aggregates", "details"}
    <3>1. Collected(s)
      BY <1>3, <2>2 DEF ListFails
    <3> QED BY <2>1, <2>2, <3>1, CollectedIs
  <2>3. CASE s \in {"lowest", "scores"}
    <3>1. evidence' = Note(evidence, {<<s, "failed">>}) /\ stage' = "image"
      BY <1>3, <2>3 DEF ListFails
    <3>2. Whole(evidence) /\ Consistent(evidence) /\ Named(evidence)
      BY <2>1, <2>3 DEF HonestInv
    <3>3. /\ Whole(Note(evidence, {<<s, "failed">>}))
          /\ Note(evidence, {<<s, "failed">>}).confirmed = evidence.confirmed
          /\ Note(evidence, {<<s, "failed">>}).missing = evidence.missing \cup {<<s, "failed">>}
      BY <3>2, NoteIs
    <3>4. Whole(evidence)' /\ Consistent(evidence)' /\ Named(evidence)'
      BY <2>1, <3>1, <3>2, <3>3 DEF Whole, Consistent, Named
    <3> QED BY <3>1, <3>4, GoesOn
  <2> QED BY <2>1, <2>2, <2>3
<1>4. CASE Vanished(s)
  BY <1>4, NotFoundIs DEF Vanished
<1>5. CASE ReadOnce(s)
  <2>1. PICK o : evidence' = SummaryOf(s, o)
    BY <1>5 DEF ReadOnce
  <2>2. s \in {"latest", "recent", "report"} /\ stage = s /\ stage' = "image" /\ failed' = failed
    BY <1>5 DEF ReadOnce, Reading
  <2>3. failed = {}
    BY <2>2 DEF HonestInv
  <2>4. Whole(SummaryOf(s, o)) /\ Consistent(SummaryOf(s, o))
    BY <2>2, SummaryIs
  <2>5. Whole(evidence)' /\ Consistent(evidence)' /\ Named(evidence)'
    BY <2>1, <2>2, <2>3, <2>4 DEF Whole, Consistent, Named
  <2> QED BY <2>2, <2>5, GoesOn
<1>6. CASE Fails(s)
  <2>1. s \in {"latest", "recent", "reports", "report"} /\ failed' = failed \cup {s} /\ evidence' = evidence
    BY <1>6 DEF Fails
  <2>2. stage' = "done" /\ answer'.status = 504
    BY <1>6 DEF Fails, Settled
  <2>3. s \in failed' \ (Listed \cup {"images"})
    BY <2>1 DEF Listed
  <2>4. StatusSeen' /\ FailuresAreNamed'
    BY <2>2, <2>3 DEF StatusSeen, FailuresAreNamed
  <2> QED BY <2>1, <2>2, <2>4 DEF HonestInv, Whole, Consistent
<1> QED BY <1>1, <1>2, <1>3, <1>4, <1>5, <1>6

LEMMA PicturesAre ==
    ASSUME HonestInv, stage = "image", NEW o, Pictures(o)
    PROVE  HonestInv'
<1>1. Whole(evidence) /\ Consistent(evidence) /\ Named(evidence)
  BY DEF HonestInv
<1>2. stage' = "explain" /\ failed' = IF o = "failed" THEN failed \cup {"images"} ELSE failed
  BY DEF Pictures
<1>3. CASE o = "pictures"
  <2>1. evidence' = [confirmed |-> evidence.confirmed \cup {"images"}, missing |-> evidence.missing]
    BY <1>1, <1>3 DEF Pictures, Whole
  <2>2. Whole(evidence)' /\ Consistent(evidence)' /\ Named(evidence)'
    BY <1>1, <1>2, <1>3, <2>1 DEF Whole, Consistent, Named
  <2> QED BY <1>2, <2>2, GoesOn
<1>4. CASE o # "pictures"
  <2> DEFINE notes == {<<"images", o>>}
  <2>1. evidence' = Note(evidence, notes)
    BY <1>4 DEF Pictures
  <2>2. <<"items", "causes">> \notin notes /\ (o = "failed" => <<"images", "failed">> \in notes)
    OBVIOUS
  <2> HIDE DEF notes
  <2>3. /\ Whole(Note(evidence, notes)) /\ Note(evidence, notes).confirmed = evidence.confirmed
        /\ Note(evidence, notes).missing = evidence.missing \cup notes
    BY <1>1, NoteIs
  <2>4. Whole(evidence)' /\ Consistent(evidence)' /\ Named(evidence)'
    BY <1>1, <1>2, <2>1, <2>2, <2>3 DEF Whole, Consistent, Named
  <2> QED BY <1>2, <2>4, GoesOn
<1> QED BY <1>3, <1>4

LEMMA HonestStep == HonestInv /\ [ChatNext]_chatVars => HonestInv'
<1> SUFFICES ASSUME HonestInv, [ChatNext]_chatVars PROVE HonestInv'
  OBVIOUS
<1>1. CASE stage = "ask" /\ AskRules
  BY <1>1, AdmitIsHonest DEF AskRules
<1>2. CASE stage = "ask" /\ ToolCalled /\ AskModel
  BY <1>2, AdmitIsHonest DEF AskModel
<1>3. CASE ReadReports
  <2>1. CASE NotFound
    BY <2>1, NotFoundIs
  <2>2. CASE stage' = "report" /\ evidence' = evidence
    <3>1. failed' = failed /\ stage = "reports"
      BY <1>3 DEF ReadReports, Reading
    <3> QED BY <2>2, <3>1 DEF HonestInv, Whole, Consistent, FailuresAreNamed, StatusSeen
  <2> QED BY <1>3, <2>1, <2>2 DEF ReadReports
<1>4. CASE ReadImages
  <2>1. stage = "image"
    BY <1>4 DEF ReadImages
  <2>2. CASE stage' = "explain" /\ UNCHANGED <<evidence, failed>>
    BY <2>1, <2>2 DEF HonestInv, Whole, Consistent, Named, FailuresAreNamed, StatusSeen
  <2>3. CASE ~SystemAccess /\ WantsImages(parsed) /\ Settled(403, Unset, FALSE) /\ UNCHANGED <<asked, evidence>>
    <3>1. stage' = "done" /\ answer'.status = 403 /\ asked.images /\ asked' = asked
      BY <2>3 DEF Settled, WantsImages
    <3>2. StatusSeen' /\ FailuresAreNamed'
      BY <2>3, <3>1 DEF StatusSeen, FailuresAreNamed, SystemAccess
    <3> QED BY <2>3, <3>1, <3>2 DEF HonestInv, Whole, Consistent
  <2>4. CASE \E o : Pictures(o)
    BY <2>1, <2>4, PicturesAre
  <2> QED BY <1>4, <2>2, <2>3, <2>4 DEF ReadImages
<1>5. CASE Explain
  <2>1. stage = "explain" /\ stage' = "done" /\ answer'.status = 200 /\ evidence' = evidence /\ failed' = failed
    BY <1>5 DEF Explain, ModelAnswers, ModelFails, Settled
  <2> QED BY <2>1 DEF HonestInv, Whole, Consistent, Named, FailuresAreNamed, StatusSeen
<1>6. ASSUME NEW s \in DOMAIN Sources,
             ReadHistory(s) \/ ReadCauses(s) \/ ListFails(s) \/ Vanished(s) \/ ReadOnce(s) \/ Fails(s)
      PROVE  HonestInv'
  BY <1>6, SourceIsHonest
<1>7. CASE UNCHANGED chatVars
  BY <1>7 DEF chatVars, HonestInv, Whole, Consistent, Named, FailuresAreNamed, StatusSeen, MissingReport,
              MayRead, SystemAccess
<1> QED BY <1>1, <1>2, <1>3, <1>4, <1>5, <1>6, <1>7, StepsAre

(* A conversion raises on what it cannot hold or look up, and nowhere else. *)
LEMMA TrailingFails ==
    ASSUME NEW length, NEW now, NEW z, Trailing(length, now, z).kind = "failed"
    PROVE  length = TooLong
BY ScopeFields DEF Trailing

LEMMA BoundedFails ==
    ASSUME NEW i, NEW s, NEW now, Bounded(i, s, now).kind = "failed"
    PROVE  s.kind = "failed"
<1>1. Default # TooLong
  BY ClockAssumption, UnsetAssumption
<1>2. Trailing(Default, now, TRUE).kind # "failed"
  BY <1>1, TrailingFails
<1> QED BY <1>2 DEF Bounded

LEMMA RuleFails ==
    ASSUME NEW q, NEW now, ParseTime(q, now).kind = "failed"
    PROVE  BeyondClock(q)
<1> DEFINE s == ParseTime(q, now)
<1>1. CASE Says(q, "recent")
  <2>1. s = Trailing(Phrase(q, "recent").length, now, FALSE)
    BY <1>1 DEF ParseTime
  <2>2. Phrase(q, "recent").length = TooLong
    BY <2>1, TrailingFails
  <2> QED BY <1>1, <2>2, PhraseIs DEF BeyondClock
<1>2. CASE ~Says(q, "recent") /\ Says(q, "interval")
  <2> DEFINE p == Phrase(q, "interval")
             r == ResolveInterval(q, p, now)
  <2>1. s = IF PerHour \in {p.from.tick, p.to.tick} THEN Failed
            ELSE IntervalScope(r.start, r.end, now, ~ExplicitDay(q))
    BY <1>2 DEF ParseTime
  <2>2. \A a, b, z : IntervalScope(a, b, now, z).kind = "interval"
    BY ScopeFields DEF IntervalScope
  <2>3. PerHour \in {p.from.tick, p.to.tick}
    BY <2>1, <2>2
  <2> QED BY <1>2, <2>3, PhraseIs DEF BeyondClock
<1>3. CASE ~Says(q, "recent") /\ ~Says(q, "interval") /\ Says(q, "point")
  <2> DEFINE p == Phrase(q, "point")
  <2>1. s = IF p.tick = PerHour THEN Failed ELSE PointScope(ResolvePoint(q, p, now), now, ~ExplicitDay(q))
    BY <1>3 DEF ParseTime
  <2>2. \A t, z : PointScope(t, now, z).kind = "point"
    BY ScopeFields DEF PointScope
  <2>3. p.tick = PerHour
    BY <2>1, <2>2
  <2> QED BY <1>3, <2>3, PhraseIs DEF BeyondClock
<1>4. CASE ~Says(q, "recent") /\ ~Says(q, "interval") /\ ~Says(q, "point")
  <2>1. s = Now(~Says(q, "now"))
    BY <1>4 DEF ParseTime
  <2> QED BY <2>1, ScopeFields DEF Now
<1> QED BY <1>1, <1>2, <1>3, <1>4

LEMMA ReplyFails ==
    ASSUME NEW r, LookupRaises(r) \/ \E now : ScopeFromResolution(r.time, now).kind = "failed"
    PROVE  Spoiled(r)
<1>1. CASE LookupRaises(r)
  BY <1>1 DEF LookupRaises, Spoiled
<1>2. ASSUME NEW now, ScopeFromResolution(r.time, now).kind = "failed"
      PROVE  Spoiled(r)
  <2> DEFINE t == r.time
             s == ScopeFromResolution(t, now)
  <2>1. \A z : Now(z).kind = "now"
    BY ScopeFields DEF Now
  <2>2. Trailing(Default, now, TRUE).kind # "failed"
    <3>1. Default # TooLong
      BY ClockAssumption, UnsetAssumption
    <3> QED BY <3>1, TrailingFails
  <2>3. CASE t.mode = "range"
    <3>1. s = Trailing(Default, now, TRUE) \/ s = Trailing(t.length, now, FALSE)
      BY <2>3, UnsetAssumption DEF ScopeFromResolution
    <3>2. t.length = TooLong
      BY <1>2, <2>2, <3>1, TrailingFails
    <3> QED BY <2>3, <3>2 DEF Spoiled
  <2>4. CASE t.mode = "point"
    <3>1. s = ScopeFromPoint(t.anchor, now)
      BY <2>4, UnsetAssumption DEF ScopeFromResolution
    <3>2. \A a, z : PointScope(a, now, z).kind = "point"
      BY ScopeFields DEF PointScope
    <3>3. t.anchor = TooLong
      BY <1>2, <2>1, <3>1, <3>2 DEF ScopeFromPoint
    <3> QED BY <2>4, <3>3 DEF Spoiled
  <2>5. CASE t.mode = "interval"
    <3>1. s = ScopeFromInterval(t.start, t.end, now)
      BY <2>5, UnsetAssumption DEF ScopeFromResolution
    <3>2. \A a, b, z : IntervalScope(a, b, now, z).kind = "interval"
      BY ScopeFields DEF IntervalScope
    <3>3. TooLong \in {t.start, t.end}
      BY <1>2, <2>2, <3>1, <3>2 DEF ScopeFromInterval
    <3> QED BY <2>5, <3>3 DEF Spoiled
  <2>6. CASE t.mode \notin {"range", "point", "interval"}
    <3>1. s = (IF t.mode = Garbled THEN Failed ELSE Now(FALSE))
      BY <2>6, UnsetAssumption DEF ScopeFromResolution
    <3>2. t.mode = Garbled
      BY <1>2, <2>1, <3>1
    <3> QED BY <3>2 DEF Spoiled
  <2> QED BY <2>3, <2>4, <2>5, <2>6
<1> QED BY <1>1, <1>2

LEMMA FailedIs ==
    ASSUME UnderstoodInv, stage # "ask", parsed.time.kind = "failed"
    PROVE  IF router = "rule" THEN BeyondClock(asked.said) ELSE Spoiled(asked.resolution)
<1>1. CASE ByRules
  <2>1. Bounded(ParseIntent(asked.said), ParseTime(asked.said, asked.now), asked.now).kind = "failed"
    BY <1>1 DEF ByRules, ParseQuery
  <2> QED BY <1>1, <2>1, BoundedFails, RuleFails DEF ByRules
<1>2. CASE ByModel
  <2> DEFINE r == asked.resolution
  <2>1. \/ LookupRaises(r)
        \/ Bounded(KnownIntent(r.intent), ScopeFromResolution(r.time, asked.now), asked.now).kind = "failed"
    BY <1>2 DEF ByModel, MapResolution
  <2>2. Spoiled(r)
    BY <2>1, BoundedFails, ReplyFails
  <2> QED BY <1>2, <2>2 DEF ByModel
<1> QED BY <1>1, <1>2 DEF UnderstoodInv

(* Evidence names every source that failed for it, the note that items     *)
(* lack causes goes with the causes found, and a status has its cause: a   *)
(* question fails by words that no clock holds or a reply of the model     *)
(* that is not what it was asked for, and by nothing else of the model.    *)
THEOREM HonestCorrect == ChatSpec => []AnswerIsHonest
<1>1. ChatInit => HonestInv
  BY DEF ChatInit, ChatStart, HonestInv, Whole, Consistent, NoEvidence, FailuresAreNamed, StatusSeen
<1>2. HonestInv /\ UnderstoodInv => AnswerIsHonest
  <2> SUFFICES ASSUME HonestInv, UnderstoodInv PROVE AnswerIsHonest
    OBVIOUS
  <2>1. StatusHasCause
    BY FailedIs DEF HonestInv, StatusSeen, StatusHasCause
  <2> QED BY <2>1 DEF HonestInv, AnswerIsHonest, ItemsNoteGoes, Consistent
<1> QED BY <1>1, <1>2, HonestStep, UnderstoodCorrect, PTL DEF ChatSpec

-----------------------------------------------------------------------------
(* A set of natural numbers has a least one. *)
Less == OpToRel(<, Nat)

LEMMA LeastNat ==
    ASSUME NEW T, T \subseteq Nat, T # {}
    PROVE  \E x \in T : \A y \in T : x <= y
<1>1. IsWellFoundedOn(Less, Nat)
  BY NatLessThanWellFounded DEF Less
<1>2. \A x, y \in Nat : y < x => <<y, x>> \in Less
  BY DEF Less, OpToRel
<1>3. PICK x \in T : \A y \in T : ~ (<<y, x>> \in Less)
  BY <1>1, WFMin
<1>4. \A y \in T : ~(y < x)
  BY <1>2, <1>3
<1> HIDE DEF Less
<1>5. \A y \in T : x <= y
  BY <1>4
<1> QED BY <1>5

(* What no step lowers is at no place less than at an earlier one. *)
LEMMA NeverFalls ==
    ASSUME NEW n \in Nat, NEW f \in [0..n -> Int], \A i \in 1..n : f[i - 1] <= f[i],
           NEW i \in 0..n, NEW j \in 0..n, i <= j
    PROVE  f[i] <= f[j]
<1> DEFINE Lower == {k \in i..n : ~(f[i] <= f[k])}
<1> SUFFICES ASSUME Lower # {} PROVE FALSE
  <2>1. j \in i..n
    OBVIOUS
  <2>2. j \notin Lower => f[i] <= f[j]
    BY <2>1
  <2> HIDE DEF Lower
  <2> QED BY <2>2
<1>1. Lower \subseteq Nat
  OBVIOUS
<1>2. PICK k \in Lower : \A l \in Lower : k <= l
  BY <1>1, LeastNat
<1>3. k \in i..n /\ ~(f[i] <= f[k]) /\ f[i] \in Int /\ f[k] \in Int
  OBVIOUS
<1>4. k # i
  BY <1>3
<1>5. k - 1 \in i..n /\ k \in 1..n /\ k - 1 < k /\ f[k - 1] \in Int
  BY <1>3, <1>4
<1>6. f[i] <= f[k - 1]
  BY <1>2, <1>5
<1> QED BY <1>3, <1>5, <1>6

(* Of finitely many places one has the least value, and one the greatest:  *)
(* that with the fewest below it.                                          *)
LEMMA LowestPlace ==
    ASSUME NEW D, IsFiniteSet(D), D # {}, NEW f \in [D -> Int]
    PROVE  \E k \in D : \A j \in D : f[k] <= f[j]
<1> DEFINE Below(k) == {j \in D : f[j] < f[k]}
           Ranks == {Cardinality(Below(k)) : k \in D}
<1>1. \A k \in D : IsFiniteSet(Below(k)) /\ Cardinality(Below(k)) \in Nat
  <2> TAKE k \in D
  <2>1. Below(k) \in SUBSET D
    OBVIOUS
  <2>2. IsFiniteSet(Below(k))
    BY <2>1, FS_Subset
  <2> QED BY <2>2, FS_CardinalityType
<1>2. Ranks \subseteq Nat /\ Ranks # {}
  BY <1>1
<1>3. PICK r \in Ranks : \A q \in Ranks : r <= q
  BY <1>2, LeastNat
<1>4. PICK k \in D : r = Cardinality(Below(k))
  OBVIOUS
<1>5. ASSUME NEW j \in D, ~(f[k] <= f[j]) PROVE FALSE
  <2>1. f[j] < f[k]
    BY <1>5
  <2>2. Below(j) \in SUBSET Below(k) /\ j \in Below(k) /\ j \notin Below(j)
    BY <2>1
  <2> HIDE DEF Below
  <2>3. Cardinality(Below(j)) <= Cardinality(Below(k))
    BY <1>1, <2>2, FS_Subset
  <2>4. Cardinality(Below(j)) # Cardinality(Below(k))
    BY <1>1, <2>2, FS_Subset
  <2>5. Cardinality(Below(k)) <= Cardinality(Below(j))
    BY <1>3, <1>4
  <2> QED BY <1>1, <2>3, <2>4, <2>5
<1> QED BY <1>5

LEMMA HighestPlace ==
    ASSUME NEW D, IsFiniteSet(D), D # {}, NEW f \in [D -> Int]
    PROVE  \E k \in D : \A j \in D : f[j] <= f[k]
<1> DEFINE g == [k \in D |-> -f[k]]
<1>1. g \in [D -> Int]
  OBVIOUS
<1>2. PICK k \in D : \A j \in D : g[k] <= g[j]
  BY <1>1, LowestPlace
<1>3. \A j \in D : -f[k] <= -f[j] /\ f[k] \in Int /\ f[j] \in Int
  BY <1>2
<1>4. \A j \in D : f[j] <= f[k]
  BY <1>3
<1> QED BY <1>4

-----------------------------------------------------------------------------
(* Sums and counts step by step. *)
Numbers(s) == s \in Seq(Int \cup {Lacking})
Sums(f, s, m) == f[0] = 0 /\ \A i \in 1..m : f[i] = f[i - 1] + OrZero(s[i])

LEMMA PartialSums ==
    ASSUME NEW s, Numbers(s)
    PROVE  \A m \in 0..Len(s) : \E f \in [0..m -> Int] : Sums(f, s, m)
<1> DEFINE n == Len(s)
           Has(m) == \E f \in [0..m -> Int] : Sums(f, s, m)
           Without == {m \in 0..n : ~Has(m)}
<1> SUFFICES ASSUME Without # {} PROVE FALSE
  OBVIOUS
<1>0. n \in Nat /\ \A i \in 1..n : OrZero(s[i]) \in Int
  BY DEF Numbers, OrZero
<1>1. Without \subseteq Nat
  BY <1>0
<1>2. PICK m \in Without : \A k \in Without : m <= k
  BY <1>1, LeastNat
<1>3. m \in 0..n /\ ~Has(m)
  OBVIOUS
<1>4. CASE m = 0
  <2> DEFINE f == [i \in 0..0 |-> 0]
  <2>1. f \in [0..m -> Int] /\ Sums(f, s, m)
    BY <1>4 DEF Sums
  <2> QED BY <1>3, <2>1
<1>5. CASE m # 0
  <2>1. m - 1 \in 0..n /\ m \in 1..n /\ m - 1 < m
    BY <1>0, <1>3, <1>5
  <2>2. Has(m - 1)
    BY <1>2, <2>1
  <2>3. PICK f \in [0..(m - 1) -> Int] : Sums(f, s, m - 1)
    BY <2>2
  <2> DEFINE g == [i \in 0..m |-> IF i = m THEN f[m - 1] + OrZero(s[m]) ELSE f[i]]
  <2>4. g \in [0..m -> Int]
    <3>1. f[m - 1] \in Int /\ OrZero(s[m]) \in Int
      BY <1>0, <2>1
    <3>2. \A i \in 0..m : i # m => i \in 0..(m - 1)
      BY <1>0, <2>1
    <3> QED BY <3>1, <3>2
  <2>5. g[0] = 0
    BY <2>1, <2>3 DEF Sums
  <2>6. ASSUME NEW i \in 1..m PROVE g[i] = g[i - 1] + OrZero(s[i])
    <3>1. i - 1 \in 0..m /\ i - 1 # m /\ i \in 0..m /\ g[i - 1] = f[i - 1]
      BY <2>1
    <3>2. CASE i = m
      BY <3>1, <3>2
    <3>3. CASE i # m
      <4>1. i \in 1..(m - 1) /\ g[i] = f[i]
        BY <2>1, <3>1, <3>3
      <4> QED BY <2>3, <3>1, <4>1 DEF Sums
    <3> QED BY <3>2, <3>3
  <2>7. Sums(g, s, m)
    BY <2>5, <2>6 DEF Sums
  <2> QED BY <1>3, <2>4, <2>7
<1> QED BY <1>4, <1>5

LEMMA TotalIs ==
    ASSUME NEW s, Numbers(s)
    PROVE  \E f \in [0..Len(s) -> Int] : Sums(f, s, Len(s)) /\ Total(s) = f[Len(s)]
<1> DEFINE n == Len(s)
           Rec(f) == f = [k \in 0..n |-> IF k = 0 THEN 0 ELSE f[k - 1] + OrZero(s[k])]
           g == CHOOSE f : Rec(f)
<1>0. n \in Nat
  BY DEF Numbers
<1>1. PICK f \in [0..n -> Int] : Sums(f, s, n)
  <2>1. n \in 0..n
    BY <1>0
  <2> QED BY <2>1, PartialSums
<1> DEFINE h == [k \in 0..n |-> IF k = 0 THEN 0 ELSE f[k - 1] + OrZero(s[k])]
<1>2. \A k \in 0..n : f[k] = h[k]
  BY <1>0, <1>1 DEF Sums
<1>3. Rec(f)
  BY <1>1, <1>2
<1>4. Rec(g)
  BY <1>3
<1>5. Total(s) = g[n]
  BY DEF Total
<1> HIDE DEF g
<1>6. g[0] = 0 /\ \A k \in 1..n : g[k] = g[k - 1] + OrZero(s[k])
  BY <1>0, <1>4
<1>7. \A k \in 0..n : g[k] = f[k]
  <2> DEFINE Bad == {k \in 0..n : g[k] # f[k]}
  <2> SUFFICES ASSUME Bad # {} PROVE FALSE
    OBVIOUS
  <2>1. Bad \subseteq Nat
    BY <1>0
  <2>2. PICK k \in Bad : \A j \in Bad : k <= j
    BY <2>1, LeastNat
  <2>3. k # 0
    BY <1>1, <1>6 DEF Sums
  <2>4. k \in 1..n /\ k - 1 \in 0..n /\ k - 1 < k
    BY <1>0, <2>3
  <2>5. g[k - 1] = f[k - 1]
    BY <2>2, <2>4
  <2>6. g[k] = g[k - 1] + OrZero(s[k]) /\ f[k] = f[k - 1] + OrZero(s[k])
    BY <1>1, <1>6, <2>4 DEF Sums
  <2> QED BY <2>5, <2>6
<1> QED BY <1>0, <1>1, <1>5, <1>7

(* How many of the first places have a score. *)
UpTo(s, m) == Cardinality({k \in 1..m : s[k] # Lacking})

LEMMA CountIs ==
    ASSUME NEW s, Numbers(s)
    PROVE  /\ IsFiniteSet(Scored(s)) /\ Count(s) \in Nat /\ Count(s) = UpTo(s, Len(s))
           /\ \A m \in 0..Len(s) : UpTo(s, m) \in Nat
           /\ UpTo(s, 0) = 0
           /\ \A k \in 1..Len(s) :
                 UpTo(s, k) = UpTo(s, k - 1) + IF s[k] = Lacking THEN 0 ELSE 1
<1> DEFINE n == Len(s)
           First(m) == {k \in 1..m : s[k] # Lacking}
<1>0. n \in Nat /\ DOMAIN s = 1..n
  BY DEF Numbers
<1>1. \A m \in 0..n : IsFiniteSet(First(m)) /\ Cardinality(First(m)) \in Nat
  <2> TAKE m \in 0..n
  <2>1. First(m) \in SUBSET (1..m) /\ IsFiniteSet(1..m)
    BY <1>0, FS_Interval
  <2>2. IsFiniteSet(First(m))
    BY <2>1, FS_Subset
  <2> QED BY <2>2, FS_CardinalityType
<1>2. Scored(s) = First(n) /\ n \in 0..n
  BY <1>0 DEF Scored
<1>3. First(0) = {}
  OBVIOUS
<1>4. ASSUME NEW k \in 1..n
      PROVE  Cardinality(First(k)) = Cardinality(First(k - 1)) + IF s[k] = Lacking THEN 0 ELSE 1
  <2>1. k - 1 \in 0..n /\ k \notin First(k - 1)
    BY <1>0
  <2>2. \A i \in Int : i \in 1..k <=> i \in 1..(k - 1) \/ i = k
    BY <1>0
  <2>3. CASE s[k] = Lacking
    <3>1. First(k) = First(k - 1)
      BY <2>2, <2>3
    <3>2. Cardinality(First(k - 1)) \in Nat
      BY <1>1, <2>1
    <3> HIDE DEF First
    <3> QED BY <2>3, <3>1, <3>2
  <2>4. CASE s[k] # Lacking
    <3>1. First(k) = First(k - 1) \cup {k}
      BY <2>2, <2>4
    <3>2. IsFiniteSet(First(k - 1))
      BY <1>1, <2>1
    <3> HIDE DEF First
    <3>3. Cardinality(First(k - 1) \cup {k}) = Cardinality(First(k - 1)) + 1
      BY <2>1, <3>2, FS_AddElement
    <3> QED BY <2>4, <3>1, <3>3
  <2> QED BY <2>3, <2>4
<1>5. \A m : UpTo(s, m) = Cardinality(First(m))
  BY DEF UpTo
<1>6. Cardinality(First(0)) = 0
  BY <1>3, FS_EmptySet
<1> HIDE DEF First
<1>7. Count(s) = Cardinality(First(n))
  BY <1>2 DEF Count
<1> QED BY <1>0, <1>1, <1>2, <1>4, <1>5, <1>6, <1>7

-----------------------------------------------------------------------------
(* A bound of every score, counted as often as there are scores, bounds    *)
(* their sum.                                                              *)
LEMMA OneMore ==
    ASSUME NEW b \in Int, NEW c \in Int
    PROVE  b * (c + 1) = b * c + b /\ b * c \in Int /\ b * (c + 1) \in Int
OBVIOUS

LEMMA OneBetween ==
    ASSUME NEW low \in Int, NEW high \in Int, NEW v \in Int, NEW c \in Int, NEW f \in Int,
           low <= v, v <= high
    PROVE  /\ f - low * c <= (f + v) - low * (c + 1)
           /\ high * c - f <= high * (c + 1) - (f + v)
<1>1. low * (c + 1) = low * c + low /\ low * c \in Int /\ low * (c + 1) \in Int
  BY OneMore
<1>2. high * (c + 1) = high * c + high /\ high * c \in Int /\ high * (c + 1) \in Int
  BY OneMore
<1> QED BY <1>1, <1>2

LEMMA SumsBetween ==
    ASSUME NEW s, Numbers(s), NEW low \in Int, NEW high \in Int,
           \A k \in Scored(s) : low <= s[k] /\ s[k] <= high
    PROVE  low * Count(s) <= Total(s) /\ Total(s) <= high * Count(s)
<1> DEFINE n == Len(s)
<1>1. PICK f \in [0..n -> Int] : Sums(f, s, n) /\ Total(s) = f[n]
  BY TotalIs
<1>2. /\ UpTo(s, n) = Count(s) /\ UpTo(s, 0) = 0
      /\ \A m \in 0..n : UpTo(s, m) \in Nat
      /\ \A k \in 1..n : UpTo(s, k) = UpTo(s, k - 1) + IF s[k] = Lacking THEN 0 ELSE 1
  BY CountIs
<1>3. n \in Nat /\ DOMAIN s = 1..n /\ \A k \in 1..n : s[k] \in Int \cup {Lacking}
  BY DEF Numbers
<1> DEFINE c(m) == UpTo(s, m)
           above == [m \in 0..n |-> f[m] - low * c(m)]
           below == [m \in 0..n |-> high * c(m) - f[m]]
<1>4. \A m \in 0..n : /\ c(m) \in Nat /\ low * c(m) \in Int /\ high * c(m) \in Int
                      /\ f[m] \in Int
  BY <1>1, <1>2, OneMore
<1>5. above \in [0..n -> Int] /\ below \in [0..n -> Int]
  <2>1. \A m \in 0..n : f[m] - low * c(m) \in Int /\ high * c(m) - f[m] \in Int
    <3> TAKE m \in 0..n
    <3> DEFINE a == low * c(m)
               b == high * c(m)
    <3>1. a \in Int /\ b \in Int /\ f[m] \in Int
      BY <1>4
    <3> HIDE DEF a, b
    <3>2. f[m] - a \in Int /\ b - f[m] \in Int
      BY <3>1
    <3> QED BY <3>2 DEF a, b
  <2> HIDE DEF c
  <2> QED BY <2>1
<1>6. ASSUME NEW k \in 1..n PROVE above[k - 1] <= above[k] /\ below[k - 1] <= below[k]
  <2>1. k - 1 \in 0..n /\ k \in 0..n
    BY <1>3
  <2>2. f[k] = f[k - 1] + OrZero(s[k]) /\ f[k] \in Int /\ f[k - 1] \in Int
    BY <1>1, <1>4, <2>1 DEF Sums
  <2>3. c(k) = c(k - 1) + (IF s[k] = Lacking THEN 0 ELSE 1) /\ c(k) \in Nat /\ c(k - 1) \in Nat
    BY <1>2, <1>4, <2>1
  <2>4. /\ above[k] = f[k] - low * c(k) /\ above[k - 1] = f[k - 1] - low * c(k - 1)
        /\ below[k] = high * c(k) - f[k] /\ below[k - 1] = high * c(k - 1) - f[k - 1]
    BY <2>1
  <2> HIDE DEF c, above, below
  <2>5. CASE s[k] = Lacking
    <3>1. c(k) = c(k - 1) /\ f[k] = f[k - 1]
      BY <2>2, <2>3, <2>5 DEF OrZero
    <3> QED BY <1>4, <2>1, <2>2, <2>4, <3>1
  <2>6. CASE s[k] # Lacking
    <3>1. c(k) = c(k - 1) + 1 /\ f[k] = f[k - 1] + s[k]
      BY <2>2, <2>3, <2>6 DEF OrZero
    <3>2. s[k] \in Int /\ low <= s[k] /\ s[k] <= high
      BY <1>3, <2>6 DEF Scored
    <3>3. /\ f[k - 1] - low * c(k - 1) <= (f[k - 1] + s[k]) - low * (c(k - 1) + 1)
          /\ high * c(k - 1) - f[k - 1] <= high * (c(k - 1) + 1) - (f[k - 1] + s[k])
      <4>1. c(k - 1) \in Int
        BY <2>3
      <4> QED BY <2>2, <3>2, <4>1, OneBetween
    <3> QED BY <2>4, <3>1, <3>3
  <2> QED BY <2>5, <2>6
<1>7. 0 \in 0..n /\ n \in 0..n /\ 0 <= n
  BY <1>3
<1>8. above[0] = 0 /\ below[0] = 0
  <2>1. c(0) = 0 /\ f[0] = 0
    BY <1>1, <1>2 DEF Sums
  <2>2. low * 0 = 0 /\ high * 0 = 0
    OBVIOUS
  <2> QED BY <1>7, <2>1, <2>2
<1>9. above[0] <= above[n] /\ below[0] <= below[n]
  <2> HIDE DEF above, below
  <2> QED BY <1>3, <1>5, <1>6, <1>7, NeverFalls
<1>10. above[n] = Total(s) - low * c(n) /\ below[n] = high * c(n) - Total(s)
  BY <1>1, <1>7
<1>11. /\ c(n) = Count(s) /\ Total(s) \in Int
       /\ low * c(n) \in Int /\ high * c(n) \in Int
  BY <1>1, <1>2, <1>4, <1>7
<1> HIDE DEF c, above, below
<1> QED BY <1>8, <1>9, <1>10, <1>11

-----------------------------------------------------------------------------
(* The farthest score: the squares of q * v - p over all scores add up to  *)
(* at least the one of any of them, whatever p and q are.                  *)
Square(v) == v * v
Off(p, q, v) == (q * v - p) * (q * v - p)
AllOff(p, q, squares, sum, n) == (q * q) * squares - (2 * p * q) * sum + n * (p * p)

LEMMA OffIs ==
    ASSUME NEW p \in Int, NEW q \in Int, NEW v \in Int,
           NEW h \in Int, NEW f \in Int, NEW c \in Int
    PROVE  Off(p, q, v) \in Nat /\ AllOff(p, q, h, f, c) \in Int
<1>1. \A x \in Int : x * x \in Nat
  OBVIOUS
<1>2. q * v - p \in Int
  OBVIOUS
<1> QED BY <1>1, <1>2 DEF Off, AllOff

LEMMA OneSquare ==
    ASSUME NEW p \in Int, NEW q \in Int, NEW v \in Int,
           NEW h \in Int, NEW f \in Int, NEW c \in Int,
           NEW h1 \in Int, NEW f1 \in Int, NEW c1 \in Int,
           h1 = h + Square(v), f1 = f + v, c1 = c + 1
    PROVE  AllOff(p, q, h1, f1, c1) = AllOff(p, q, h, f, c) + Off(p, q, v)
BY DEF Off, AllOff, Square

LEMMA FarthestIs ==
    ASSUME NEW s, Numbers(s), NEW k \in Scored(s), NEW p \in Int, NEW q \in Int
    PROVE  /\ Squares(s) \in Int /\ Total(s) \in Int
           /\ Off(p, q, s[k]) <= AllOff(p, q, Squares(s), Total(s), Count(s))
<1> DEFINE n == Len(s)
           t == [i \in DOMAIN s |-> IF s[i] = Lacking THEN Lacking ELSE s[i] * s[i]]
<1>1. n \in Nat /\ DOMAIN s = 1..n /\ \A i \in 1..n : s[i] \in Int \cup {Lacking}
  BY DEF Numbers
<1>2. Numbers(t) /\ Len(t) = n
  <2>1. \A i \in 1..n : t[i] \in Int \cup {Lacking}
    BY <1>1
  <2>2. t \in [1..n -> Int \cup {Lacking}]
    BY <1>1, <2>1
  <2> HIDE DEF t
  <2> QED BY <1>1, <2>2 DEF Numbers
<1>3. PICK f \in [0..n -> Int] : Sums(f, s, n) /\ Total(s) = f[n]
  BY TotalIs
<1>4. PICK h \in [0..n -> Int] : Sums(h, t, n) /\ Total(t) = h[n]
  <2> HIDE DEF t
  <2> QED BY <1>2, TotalIs
<1>5. Squares(s) = h[n]
  BY <1>4 DEF Squares
<1>6. /\ UpTo(s, n) = Count(s) /\ UpTo(s, 0) = 0
      /\ \A m \in 0..n : UpTo(s, m) \in Nat
      /\ \A i \in 1..n : UpTo(s, i) = UpTo(s, i - 1) + IF s[i] = Lacking THEN 0 ELSE 1
  BY CountIs
<1> DEFINE c(m) == UpTo(s, m)
           e(i) == Off(p, q, s[i])
           g == [m \in 0..n |-> AllOff(p, q, h[m], f[m], c(m))]
<1>7. ASSUME NEW i \in Scored(s) PROVE s[i] \in Int /\ e(i) \in Nat
  <2>1. s[i] \in Int
    BY <1>1, <1>7 DEF Scored
  <2> QED BY <2>1, OffIs
<1>8. g \in [0..n -> Int]
  <2>1. ASSUME NEW m \in 0..n
        PROVE  AllOff(p, q, h[m], f[m], c(m)) \in Int
    <3>1. h[m] \in Int /\ f[m] \in Int /\ c(m) \in Int
      BY <1>6
    <3> HIDE DEF c
    <3> QED BY <3>1, OffIs
  <2> HIDE DEF c
  <2> QED BY <2>1
<1>9. ASSUME NEW i \in 1..n
      PROVE  /\ s[i] = Lacking => g[i] = g[i - 1]
             /\ s[i] # Lacking => g[i] = g[i - 1] + e(i)
  <2>1. i - 1 \in 0..n /\ i \in 0..n
    BY <1>1
  <2>2. /\ f[i] = f[i - 1] + OrZero(s[i]) /\ h[i] = h[i - 1] + OrZero(t[i])
        /\ f[i - 1] \in Int /\ h[i - 1] \in Int
    BY <1>3, <1>4, <2>1 DEF Sums
  <2>3. c(i) = c(i - 1) + (IF s[i] = Lacking THEN 0 ELSE 1) /\ c(i - 1) \in Int
    BY <1>6, <2>1
  <2>4. t[i] = IF s[i] = Lacking THEN Lacking ELSE s[i] * s[i]
    BY <1>1
  <2>5. /\ g[i] = AllOff(p, q, h[i], f[i], c(i))
        /\ g[i - 1] = AllOff(p, q, h[i - 1], f[i - 1], c(i - 1))
    BY <2>1
  <2> HIDE DEF c, t, g
  <2>6. CASE s[i] = Lacking
    <3>1. f[i] = f[i - 1] /\ h[i] = h[i - 1] /\ c(i) = c(i - 1)
      BY <2>2, <2>3, <2>4, <2>6 DEF OrZero
    <3> QED BY <2>5, <2>6, <3>1
  <2>7. CASE s[i] # Lacking
    <3>1. s[i] \in Int /\ s[i] * s[i] \in Int
      BY <1>1, <2>7
    <3>2. s[i] * s[i] # Lacking
      BY <3>1, LackingAssumption
    <3>3. f[i] = f[i - 1] + s[i] /\ c(i) = c(i - 1) + 1
      BY <2>2, <2>3, <2>7 DEF OrZero
    <3>4. h[i] = h[i - 1] + Square(s[i])
      BY <2>2, <2>4, <2>7, <3>2 DEF OrZero, Square
    <3>5. h[i] \in Int /\ f[i] \in Int /\ c(i) \in Int
      BY <2>2, <2>3, <3>1, <3>3, <3>4 DEF Square
    <3>6. g[i] = g[i - 1] + e(i)
      <4>1. AllOff(p, q, h[i], f[i], c(i)) = AllOff(p, q, h[i - 1], f[i - 1], c(i - 1)) + Off(p, q, s[i])
        BY <2>2, <2>3, <3>1, <3>3, <3>4, <3>5, OneSquare
      <4> QED BY <2>5, <4>1
    <3> QED BY <2>7, <3>6
  <2> QED BY <2>6, <2>7
<1>10. g[0] = 0
  <2>1. c(0) = 0 /\ f[0] = 0 /\ h[0] = 0 /\ 0 \in 0..n
    BY <1>1, <1>3, <1>4, <1>6 DEF Sums
  <2>2. (q * q) * 0 = 0 /\ (2 * p * q) * 0 = 0 /\ 0 * (p * p) = 0
    OBVIOUS
  <2> QED BY <2>1, <2>2 DEF AllOff
<1>11. g[n] = AllOff(p, q, Squares(s), Total(s), Count(s))
  BY <1>1, <1>3, <1>5, <1>6
<1>12. Squares(s) \in Int /\ Total(s) \in Int
  BY <1>1, <1>3, <1>5
<1> HIDE DEF g, c, t, e
<1>13. \A i \in 1..n : g[i - 1] <= g[i]
  <2> TAKE i \in 1..n
  <2>1. i - 1 \in 0..n /\ i \in 0..n
    BY <1>1
  <2>2. g[i - 1] \in Int /\ g[i] \in Int
    BY <1>8, <2>1
  <2>3. s[i] # Lacking => e(i) \in Nat
    BY <1>1, <1>7 DEF Scored
  <2> QED BY <1>9, <2>2, <2>3
<1>14. k \in 1..n /\ s[k] # Lacking /\ k - 1 \in 0..n /\ k \in 0..n /\ n \in 0..n /\ 0 \in 0..n
  BY <1>1 DEF Scored
<1>15. g[0] <= g[k - 1] /\ g[k] <= g[n]
  <2>1. 0 <= k - 1 /\ k <= n
    BY <1>14
  <2> QED BY <1>1, <1>8, <1>13, <1>14, <2>1, NeverFalls
<1>16. g[k] = g[k - 1] + e(k) /\ e(k) \in Nat
  BY <1>7, <1>9, <1>14
<1>17. g[0] \in Int /\ g[k - 1] \in Int /\ g[k] \in Int /\ g[n] \in Int
  BY <1>8, <1>14
<1>18. e(k) <= g[n]
  BY <1>10, <1>15, <1>16, <1>17
<1> QED BY <1>11, <1>12, <1>18 DEF e

(* With p and q so that the other scores lie about their own mean: the     *)
(* square of a deviation is at most n - 1 times the spread.                *)
LEMMA DeviationIs ==
    ASSUME NEW n \in Nat, n > 1, NEW v \in Int, NEW sum \in Int, NEW squares \in Int,
           Off(sum - v, n - 1, v) <= AllOff(sum - v, n - 1, squares, sum, n)
    PROVE  (n * v - sum) * (n * v - sum) <= (n - 1) * (n * squares - sum * sum)
<1> DEFINE q == n - 1
           e == q * squares - sum * sum + 2 * sum * v - n * (v * v)
<1>1. q \in Nat /\ q > 0 /\ n = q + 1 /\ e \in Int
  OBVIOUS
<1>2. q * e = AllOff(sum - v, n - 1, squares, sum, n) - Off(sum - v, n - 1, v)
  BY DEF Off, AllOff
<1>3. q * e >= 0
  <2>1. Off(sum - v, n - 1, v) \in Int /\ AllOff(sum - v, n - 1, squares, sum, n) \in Int
    BY DEF Off, AllOff
  <2> HIDE DEF e, q
  <2> QED BY <1>2, <2>1
<1>4. (n - 1) * (n * squares - sum * sum) - (n * v - sum) * (n * v - sum) = n * e
  OBVIOUS
<1>5. \A a, b \in Int : a > 0 /\ a * b >= 0 => b >= 0
  OBVIOUS
<1>6. \A a, b \in Int : a > 0 /\ b >= 0 => a * b >= 0
  OBVIOUS
<1>7. e >= 0
  <2> HIDE DEF e, q
  <2> QED BY <1>1, <1>3, <1>5
<1>8. n * e >= 0
  <2> HIDE DEF e, q
  <2> QED BY <1>1, <1>6, <1>7
<1> QED BY <1>4, <1>8

(* Six times what is positive is less than 25 fourths of it. *)
LEMMA SixAreTooFew ==
    ASSUME NEW q \in Nat, NEW spread \in Int, NEW square \in Nat, q > 0, spread # 0,
           square <= q * spread, 4 * square >= 25 * spread
    PROVE  q >= 7
<1>1. spread > 0
  OBVIOUS
<1>2. SUFFICES ASSUME q <= 6 PROVE FALSE
  OBVIOUS
<1>3. q * spread <= 6 * spread
  BY <1>1, <1>2
<1> QED BY <1>1, <1>3

LEMMA SpikeTakesEight ==
    ASSUME NEW s, Numbers(s), Outliers(s) # {}
    PROVE  Count(s) >= 8
<1>1. PICK k \in Scored(s) : FarEnough(s, s[k])
  BY DEF Outliers
<1>2. Count(s) >= 3 /\ Count(s) \in Nat /\ Spread(s) # 0
  BY CountIs DEF Outliers
<1> DEFINE n == Count(s)
           q == n - 1
           p == Total(s) - s[k]
           d == n * s[k] - Total(s)
<1>3. s[k] \in Int
  BY DEF Numbers, Scored
<1>4. Squares(s) \in Int /\ Total(s) \in Int
  BY FarthestIs, 0 \in Int
<1>5. q \in Nat /\ q > 0 /\ p \in Int /\ d \in Int /\ n > 1
  BY <1>2, <1>3, <1>4
<1>6. Off(p, q, s[k]) <= AllOff(p, q, Squares(s), Total(s), n)
  <2>1. \A a, b \in Int : Off(a, b, s[k]) <= AllOff(a, b, Squares(s), Total(s), Count(s))
    BY FarthestIs
  <2> HIDE DEF q, p
  <2> QED BY <1>5, <2>1
<1>7. d * d <= q * (n * Squares(s) - Total(s) * Total(s))
  BY <1>2, <1>3, <1>4, <1>5, <1>6, DeviationIs, Zenon
<1>8. Spread(s) = n * Squares(s) - Total(s) * Total(s) /\ Spread(s) \in Int
  BY <1>2, <1>4 DEF Spread
<1>9. 4 * (d * d) >= 25 * Spread(s)
  BY <1>1 DEF FarEnough, Far
<1>10. d * d \in Nat
  <2>1. \A x \in Int : x * x \in Nat
    OBVIOUS
  <2> HIDE DEF d
  <2> QED BY <1>5, <2>1
<1> HIDE DEF d, q
<1>11. q >= 7
  BY <1>2, <1>5, <1>7, <1>8, <1>9, <1>10, SixAreTooFew
<1> QED BY <1>2, <1>11 DEF q

-----------------------------------------------------------------------------
(* The extremes of a series exist and hold its scores. *)
LEMMA ScoresAre ==
    ASSUME NEW items \in Seq(Item)
    PROVE  Numbers(Scores(items)) /\ DOMAIN Scores(items) = DOMAIN items
<1>1. Len(items) \in Nat /\ DOMAIN items = 1..Len(items)
  OBVIOUS
<1>2. \A k \in DOMAIN items : items[k].mean \in Int \cup {Lacking}
  <2>1. \A k \in DOMAIN items : items[k] \in Item
    OBVIOUS
  <2>2. \A i \in Item : i.mean \in Int \cup {Lacking}
    BY DEF Item
  <2> QED BY <2>1, <2>2
<1> QED BY <1>1, <1>2 DEF Scores, Numbers

LEMMA ExtremesHold ==
    ASSUME NEW items \in Seq(Item), \A k \in DOMAIN items : Plausible(items[k]),
           Scored(Scores(items)) # {}
    PROVE  /\ Min(Present(items, Floor)) \in Int /\ Max(Present(items, Ceiling)) \in Int
           /\ \A k \in Scored(Scores(items)) :
                 /\ Min(Present(items, Floor)) <= Scores(items)[k]
                 /\ Scores(items)[k] <= Max(Present(items, Ceiling))
<1> DEFINE s == Scores(items)
           D == {k \in DOMAIN items : Floor(items[k]) # Lacking}
           E == {k \in DOMAIN items : Ceiling(items[k]) # Lacking}
           low == [k \in D |-> Floor(items[k])]
           high == [k \in E |-> Ceiling(items[k])]
<1>1. \A k \in DOMAIN items : items[k] \in Item
  OBVIOUS
<1>2. low \in [D -> Int] /\ high \in [E -> Int]
  BY <1>1 DEF Floor, Ceiling, Item
<1>3. IsFiniteSet(D) /\ IsFiniteSet(E)
  <2>1. IsFiniteSet(DOMAIN items)
    BY FS_Interval
  <2>2. D \in SUBSET DOMAIN items /\ E \in SUBSET DOMAIN items
    OBVIOUS
  <2> HIDE DEF D, E
  <2> QED BY <2>1, <2>2, FS_Subset
<1>4. ASSUME NEW k \in Scored(s)
      PROVE  k \in D /\ k \in E /\ low[k] <= s[k] /\ s[k] <= high[k]
  <2>1. k \in DOMAIN items /\ items[k].mean = s[k] /\ s[k] # Lacking
    BY DEF Scores, Scored
  <2>2. Plausible(items[k]) /\ items[k] \in Item
    BY <2>1
  <2>3. /\ Floor(items[k]) # Lacking /\ Floor(items[k]) <= s[k]
        /\ Ceiling(items[k]) # Lacking /\ s[k] <= Ceiling(items[k])
    BY <2>1, <2>2 DEF Plausible, Floor, Ceiling, Item
  <2> QED BY <2>1, <2>3
<1>5. D # {} /\ E # {}
  BY <1>4
<1>6. Present(items, Floor) = {low[k] : k \in D} /\ Present(items, Ceiling) = {high[k] : k \in E}
  BY DEF Present
<1> HIDE DEF D, E, low, high
<1>7. PICK a \in D : \A k \in D : low[a] <= low[k]
  BY <1>2, <1>3, <1>5, LowestPlace
<1>8. PICK b \in E : \A k \in E : high[k] <= high[b]
  BY <1>2, <1>3, <1>5, HighestPlace
<1>9. Min(Present(items, Floor)) = low[a]
  <2> DEFINE T == {low[k] : k \in D}
  <2>1. low[a] \in T /\ T \subseteq Int /\ \A y \in T : low[a] <= y
    BY <1>2, <1>7
  <2> HIDE DEF T
  <2>2. Min(T) = low[a]
    BY <2>1, MinIs
  <2> QED BY <1>6, <2>2 DEF T
<1>10. Max(Present(items, Ceiling)) = high[b]
  <2> DEFINE T == {high[k] : k \in E}
  <2>1. high[b] \in T /\ T \subseteq Int /\ \A y \in T : y <= high[b]
    BY <1>2, <1>8
  <2> HIDE DEF T
  <2>2. Max(T) = high[b]
    BY <2>1, MaxIs
  <2> QED BY <1>6, <2>2 DEF T
<1>11. \A k \in Scored(s) : s[k] \in Int
  BY ScoresAre DEF Numbers, Scored
<1>12. \A k \in Scored(s) : low[a] <= s[k] /\ s[k] <= high[b]
  BY <1>2, <1>4, <1>7, <1>8, <1>11
<1> QED BY <1>2, <1>9, <1>10, <1>12

LEMMA SummaryHolds ==
    ASSUME NEW items \in Shape
    PROVE  LET r == SummarizeHistory(items)
           IN r.n > 0 => r.low * r.n <= r.sum /\ r.sum <= r.high * r.n
<1> DEFINE s == Scores(items)
<1>1. items \in Seq(Item) /\ \A k \in DOMAIN items : Plausible(items[k])
  BY ShapeAssumption
<1>2. Numbers(s)
  BY <1>1, ScoresAre
<1>3. CASE Scored(s) = {}
  BY <1>3 DEF SummarizeHistory, NoSummary
<1>4. CASE Scored(s) # {}
  <2>1. /\ Min(Present(items, Floor)) * Count(s) <= Total(s)
        /\ Total(s) <= Max(Present(items, Ceiling)) * Count(s)
    <3> HIDE DEF s
    <3> QED BY <1>1, <1>2, <1>4, ExtremesHold, SumsBetween DEF s
  <2> QED BY <1>4, <2>1 DEF SummarizeHistory
<1> QED BY <1>3, <1>4

(* chat.py: for every series, with whatever lacking in it, the mean lies   *)
(* between the extremes that are reported with it (summarize_history), and *)
(* among seven scores or fewer no score lies two and a half deviations     *)
(* from their mean (summarize_spikes).                                     *)
THEOREM FiguresCorrect == SeriesSpec => []FiguresHold
<1> DEFINE I == series \in Shape /\ FiguresHold
<1>1. SeriesInit => I
  BY DEF SeriesInit, SeriesStart, NoSummary, FiguresHold, ExtremesHoldTheMean, SpikesNeedEight
<1>2. I /\ [SeriesNext]_seriesVars => I'
  <2> SUFFICES ASSUME I, [SeriesNext]_seriesVars PROVE I'
    OBVIOUS
  <2>1. CASE Summarize
    <3>1. series' = series /\ series \in Shape
      BY <2>1 DEF Summarize
    <3>2. ExtremesHoldTheMean'
      BY <2>1, SummaryHolds DEF Summarize, ExtremesHoldTheMean
    <3>3. Numbers(Scores(series))
      BY ShapeAssumption, ScoresAre
    <3>4. SpikesNeedEight'
      BY <2>1, <3>1, <3>3, SpikeTakesEight DEF Summarize, SpikesNeedEight
    <3> QED BY <3>1, <3>2, <3>4 DEF FiguresHold
  <2>2. CASE UNCHANGED seriesVars
    BY <2>2 DEF seriesVars, FiguresHold, ExtremesHoldTheMean, SpikesNeedEight
  <2> QED BY <2>1, <2>2 DEF SeriesNext
<1>3. I => FiguresHold
  OBVIOUS
<1> QED BY <1>1, <1>2, <1>3, PTL DEF SeriesSpec
=============================================================================

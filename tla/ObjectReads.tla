---------------------------- MODULE ObjectReads ----------------------------
(***************************************************************************)
(* Reads of the data bucket: the objects under hourly prefixes are listed  *)
(* prefix by prefix, chosen by the time in their key, read in parallel     *)
(* threads and chosen again by the time in their body, while objects are   *)
(* written and removed.  Reports are listed under one prefix and filtered  *)
(* by permission, images are listed and never read.  Time is a number of   *)
(* ticks, Hour of them an hour; an object's key is its hour and its file   *)
(* name, in which a time may be found.                                     *)
(***************************************************************************)
EXTENDS Integers, FiniteSetsExt

CONSTANTS
    Hour,       \* ticks of an hour
    Hours,      \* hours 0..Hours of the bucket
    MaxObjects, \* max_objects of a request
    MaxEvents,  \* bound on writes and removals during a request
    Site,       \* factory ids, and "cloud-infra"
    CloudInfra,
    Shapes,     \* what objects may look like: [name, time, stamp, body]
    NoTime      \* no time could be parsed

(* S3 lists the keys of an hour by file name: name is the rank of it.  The *)
(* time is found anywhere in the name by search, after a label for one, so *)
(* that the ranks of names say nothing about their times.  A time in a     *)
(* name lies in the hour of its partition, one in a body need not.         *)
ASSUME ObjectsAssumption ==
    /\ Hour \in Nat \ {0} /\ Hours \in Nat /\ MaxObjects \in Nat \ {0}
    /\ NoTime \notin Int
    /\ \A s, t \in Shapes : s.name = t.name => s = t
    /\ \A s \in Shapes : /\ s.name \in Nat /\ s.time \in 0..(Hour - 1) \cup {NoTime}
                          /\ s.stamp \in Int \cup {NoTime}

VARIABLES
    bucket,     \* [dataset, hour, name, time, stamp, body] of every object
    ask,        \* the request
    stage,      \* "ask", "list", "read", or how it ended
    prefixes,   \* hours still to be listed
    chosen,     \* candidates that were listed, later those still to be read
    kept,       \* what was left of them after the cut
    found,      \* what the threads have read
    lasting,    \* the objects that have been there since the request came
    events

objectVars == <<bucket, ask, stage, prefixes, chosen, kept, found, lasting, events>>

Datasets == {"processed", "metrics_5m", "images", "reports"}

(* A key: the hour of its partition, a name in it, and a time or none.     *)
Objects ==
    {[dataset |-> d, hour |-> h, name |-> s.name,
      time |-> IF s.time = NoTime THEN NoTime ELSE h * Hour + s.time,
      stamp |-> IF s.stamp = NoTime THEN NoTime ELSE h * Hour + s.stamp, body |-> s.body] :
        d \in Datasets \ {"reports"}, h \in 0..Hours, s \in Shapes}
    \cup [dataset: {"reports"}, hour: 0..Hours, name: {0}, time: {NoTime}, stamp: {NoTime}, body: Site]

Principals == [all: BOOLEAN, system: BOOLEAN, factories: SUBSET (Site \ {CloudInfra})]

(* The time in the key of a processed object or of a metrics_5m bucket,    *)
(* _timestamp_from_processed_key and _timestamp_from_metrics_5m_key.       *)
KeyTime(o) == o.time

(* _timestamp_from_processed_object: the body's time before the key's.     *)
ObjectTime(o) == IF o.stamp # NoTime THEN o.stamp ELSE KeyTime(o)

(* _image_object_in_range: its time, or else the whole of its hour. *)
ImageInRange(o, start, end) ==
    IF o.time # NoTime THEN start <= o.time /\ o.time <= end
    ELSE start <= o.hour * Hour /\ (o.hour + 1) * Hour <= end

(* Which listed object is a candidate; metrics_5m ends are exclusive.      *)
Candidate(o) ==
    CASE ask.dataset = "images" -> ImageInRange(o, ask.start, ask.end)
      [] ask.dataset = "reports" -> TRUE
      [] OTHER -> /\ KeyTime(o) # NoTime /\ ask.start <= KeyTime(o)
                  /\ IF ask.dataset = "metrics_5m" THEN KeyTime(o) < ask.end
                     ELSE KeyTime(o) <= ask.end

(* Mutant: one prefix for each hour that has passed. *)
HourPrefixesPassed(start, end) == {h \in 0..Hours : start \div Hour <= h /\ (h + 1) * Hour <= end}

(* _hour_prefixes, _metrics_5m_hour_prefixes, _image_snapshot_prefixes *)
HourPrefixes(start, end) == (start \div Hour)..(end \div Hour)

ObjectsInit ==
    /\ bucket \subseteq Objects
    /\ ask \in [dataset: Datasets, start: 0..(Hours * Hour), end: 0..((Hours + 1) * Hour - 1),
                who: Principals]
    /\ stage = "ask"
    /\ prefixes = {} /\ chosen = {} /\ kept = {} /\ found = {} /\ lasting = {} /\ events = 0

(* A request: images need the system permission and a range; every S3 call *)
(* is under one timeout.                                                   *)
AskObjects ==
    /\ stage = "ask"
    /\ stage' = IF ask.dataset = "images" /\ ~ask.who.system THEN "forbidden"
                ELSE IF ask.dataset = "images" /\ ask.start >= ask.end THEN "refused"
                ELSE "list"
    /\ prefixes' = IF ask.dataset = "reports" THEN 0..Hours ELSE HourPrefixes(ask.start, ask.end)
    /\ lasting' = {o \in bucket : o.dataset = ask.dataset}
    /\ UNCHANGED <<bucket, ask, chosen, kept, found, events>>

(* Images are cut while they are listed, the earliest hours first. *)
Full(listed) == ask.dataset = "images" /\ Cardinality(listed) = MaxObjects

(* The order in which S3 lists keys: by prefix, then by file name.         *)
KeyOrder(a, b) == a.hour < b.hour \/ (a.hour = b.hour /\ a.name < b.name)

ReadsBodies == ask.dataset \in {"processed", "metrics_5m"}

(* What is read is sorted by the time in its key, what is not comes in the *)
(* order of the keys.                                                      *)
Before(a, b) == IF ReadsBodies THEN KeyTime(a) < KeyTime(b) ELSE KeyOrder(a, b)

(* A cut: all if they are fewer than MaxObjects, or the first MaxObjects;  *)
(* which of two with equal keys goes first is not told.                    *)
IsCut(some, listed) ==
    \/ some = listed /\ Cardinality(listed) < MaxObjects
    \/ /\ Cardinality(some) = MaxObjects
       /\ \A o \in listed \ some, k \in some : ~Before(o, k)

(* list_objects_v2 of the next prefix; the cut takes what is listed first. *)
ListPrefix ==
    /\ stage = "list" /\ prefixes # {}
    /\ LET h == Min(prefixes)
           here == {o \in bucket : o.dataset = ask.dataset /\ o.hour = h /\ Candidate(o)}
       IN /\ IF ask.dataset = "images"
             THEN chosen' \in {some \in SUBSET (chosen \cup here) : IsCut(some, chosen \cup here)}
             ELSE chosen' = chosen \cup here
          /\ prefixes' = IF Full(chosen') THEN {} ELSE prefixes \ {h}
    /\ UNCHANGED <<bucket, ask, stage, kept, found, lasting, events>>

ListEnds ==
    /\ stage = "list" /\ prefixes = {}
    /\ IF ReadsBodies THEN stage' = "read" /\ chosen' \in {some \in SUBSET chosen : IsCut(some, chosen)}
       ELSE stage' = "done" /\ UNCHANGED chosen
    /\ kept' = chosen'
    /\ UNCHANGED <<bucket, ask, prefixes, found, lasting, events>>

(* A body that is no JSON object is skipped; the time in the body of a     *)
(* processed object must be in the window too.                             *)
Kept(o) ==
    /\ o.body # "malformed"
    /\ ask.dataset = "processed" => ask.start <= ObjectTime(o) /\ ObjectTime(o) <= ask.end

(* One thread's get_object: an object that is gone fails the request, as   *)
(* S3ObjectNotFoundError.                                                  *)
ReadObject ==
    /\ stage = "read"
    /\ \E o \in chosen :
         /\ chosen' = chosen \ {o}
         /\ IF o \in bucket
            THEN found' = (IF Kept(o) THEN found \cup {o} ELSE found) /\ UNCHANGED stage
            ELSE stage' = "gone" /\ UNCHANGED found
    /\ UNCHANGED <<bucket, ask, prefixes, kept, lasting, events>>

ReadEnds ==
    /\ stage = "read" /\ chosen = {} /\ stage' = "done"
    /\ UNCHANGED <<bucket, ask, prefixes, chosen, kept, found, lasting, events>>

(* ClientError, BotoCoreError, or s3_operation_timeout_seconds: 504. *)
S3Fails ==
    /\ stage \in {"list", "read"} /\ stage' = "unavailable"
    /\ UNCHANGED <<bucket, ask, prefixes, chosen, kept, found, lasting, events>>

Change ==
    /\ stage \in {"list", "read"} /\ events < MaxEvents /\ events' = events + 1
    /\ \/ \E o \in Objects : bucket' = bucket \cup {o} /\ UNCHANGED lasting
       \/ \E o \in bucket : bucket' = bucket \ {o} /\ lasting' = lasting \ {o}
    /\ UNCHANGED <<ask, stage, prefixes, chosen, kept, found>>

ObjectsNext == AskObjects \/ ListPrefix \/ ListEnds \/ ReadObject \/ ReadEnds \/ S3Fails \/ Change

ObjectsSpec == ObjectsInit /\ [][ObjectsNext]_objectVars

(* Mutant: a system permission shows every report. *)
VisibleToSystem(o) == ask.who.system \/ ask.who.all \/ o.body \in ask.who.factories

(* list_reports: all of them, or one by one. *)
Visible(o) ==
    \/ ask.who.all /\ ask.who.system
    \/ IF o.body = CloudInfra THEN ask.who.system ELSE ask.who.all \/ o.body \in ask.who.factories

(* get_report: require_system_access or require_factory_access. *)
MayGet(who, site) == IF site = CloudInfra THEN who.system ELSE who.all \/ site \in who.factories

(* What the caller gets. *)
Result ==
    CASE ask.dataset = "reports" -> {o \in chosen : Visible(o)}
      [] ask.dataset = "images" -> chosen
      [] OTHER -> found

(* get_image_snapshot_range: the first and the last hour with an image. *)
ImageRange ==
    LET hours == {o.hour : o \in {x \in bucket : x.dataset = "images"}} IN
    IF hours = {} THEN << >> ELSE <<Min(hours), Max(hours)>>

-----------------------------------------------------------------------------
Moment(o) == IF ask.dataset = "processed" THEN ObjectTime(o)
             ELSE IF o.time # NoTime THEN o.time ELSE o.hour * Hour

(* Whatever is listed, read, written and removed meanwhile, a request gets *)
(* only objects of its window.                                             *)
ResultInWindow ==
    stage = "done" /\ ask.dataset # "reports" =>
        \A o \in Result : ask.start <= Moment(o) /\ Moment(o) <= ask.end

(* An object that was there all the time, whose time in the key and in the *)
(* body are in the window, is missing only when the request was cut at     *)
(* max_objects, and nothing that was kept comes after it: of what is read  *)
(* the cut drops the newest by the time in the key, of images the last in  *)
(* the order of their names, within an hour maybe not the newest.          *)
CutDropsTheLast ==
    stage = "done" /\ ask.dataset # "reports" =>
        \A o \in lasting :
            \/ o \in Result \/ ~Candidate(o) \/ (ReadsBodies /\ ~Kept(o))
            \/ Cardinality(kept) = MaxObjects /\ \A k \in kept : ~Before(o, k)

(* The list of reports shows a report exactly when it can be opened: two   *)
(* handlers decide it in their own words.                                  *)
ListAndGetAgree ==
    ask.dataset = "reports" /\ stage = "done" =>
        \A o \in chosen : o \in Result <=> MayGet(ask.who, o.body)

(* The hours that the picker of images is offered hold every image. *)
RangeHoldsEveryImage ==
    \A o \in {x \in bucket : x.dataset = "images"} :
        ImageInRange(o, ImageRange[1] * Hour, (ImageRange[2] + 1) * Hour)

(* A window gets its objects and no others, whatever comes and goes.       *)
WindowIsKept == ResultInWindow /\ CutDropsTheLast /\ RangeHoldsEveryImage
=============================================================================

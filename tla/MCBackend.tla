----------------------------- MODULE MCBackend -----------------------------
(* Parts of a backend process that share nothing but its event loop: the   *)
(* initial state picks the one that moves, so that their instances add up  *)
(* instead of multiplying, and fixes what the others start with.           *)
EXTENDS FactoryReads, KeySet, MetadataSeed, HistoryQuery, ObjectReads, TLC

VARIABLE part

gateAndReads == <<gateVars, readVars>>
vars == <<part, gateAndReads, keyVars, seedVars, queryVars, objectVars>>

(* Items of the table: plain, higher, empty, and counted without a risk.   *)
Item(source, count, mean, lo, hi, nodes) ==
    [source |-> source, count |-> count, mean |-> mean, lo |-> lo, hi |-> hi, nodes |-> nodes]
Plain == Item(Missing, 2, 4, 3, 6, <<4>>)
Contents ==
    {Plain, Item(0, 0, Missing, Missing, Missing, << >>),
     Item(3, Missing, Missing, Missing, Missing, <<Missing>>)}

(* Objects: early in the hour, late with a body of the next hour and a     *)
(* name that is listed before, no JSON, and without a time in the name.    *)
Shape(name, time, stamp, body) == [name |-> name, time |-> time, stamp |-> stamp, body |-> body]
ObjectShapes ==
    {Shape(2, 0, NoTime, "good"), Shape(1, 1, 2, "good"),
     Shape(4, 1, 1, "malformed"), Shape(3, NoTime, 0, "good")}
Sole(d) == {o \in Objects : o.dataset = d}

Nobody == [all |-> FALSE, system |-> FALSE, factories |-> {}]

(* What a part's inputs are when it moves, and one choice when not.        *)
QueryStart ==
    IF part # "query"
    THEN items = << >> /\ latest = {} /\ QueryInit /\ query = CHOOSE q \in Queries : TRUE
    ELSE /\ \/ items = << >> /\ latest \in SUBSET Factories
            \/ items \in UNION {[ts -> Contents] : ts \in SUBSET Times} /\ latest = {}
         /\ QueryInit
         /\ ByKey => items = << >>
         /\ ~ByKey => latest = {}
         /\ query.kind # "graph" => \A t \in DOMAIN items : items[t] = Plain

ObjectStart ==
    IF part # "objects"
    THEN bucket = {} /\ ObjectsInit /\ ask = [dataset |-> "reports", start |-> 0, end |-> 0, who |-> Nobody]
    ELSE \E d \in Datasets :
           /\ bucket \in UNION {kSubset(k, Sole(d)) : k \in 0..2}
           /\ ObjectsInit /\ ask.dataset = d
           /\ ReadsBodies => ask.who = Nobody
           /\ d = "reports" => ask.start = 0 /\ ask.end = 0
           /\ d = "images" => ~ask.who.all /\ ask.who.factories = {}

(* Two administrators are both new or left by an earlier list, where a     *)
(* session corrects them; one has any row.                                 *)
Former == [email |-> "fallback", role |-> "factory_admin", active |-> TRUE]
SeedStart ==
    IF part # "seed"
    THEN SeedInit /\ rows = {} /\ tables /\ taken = {} /\ bootstrap = 0
    ELSE /\ SeedInit
         /\ \A k \in 1..MaxAdmins :
              k > bootstrap => admins[k] = NoRow /\ k \notin taken
         /\ bootstrap = 2 =>
              /\ rows \in {{}, Configured} /\ 1 \notin taken
              /\ \A k \in 1..2 : admins[k] \in {NoRow, Former}

Init ==
    /\ part \in {"gate", "reads", "keys", "seed", "query", "objects"}
    /\ ReadsInit
    /\ IF part = "keys" THEN KeysInit ELSE KeysInit /\ published = {CHOOSE k \in Key : TRUE}
    /\ SeedStart /\ QueryStart /\ ObjectStart

(* A step of one part leaves the others as they are. *)
InGate == part = "gate" /\ UNCHANGED <<part, readVars, keyVars, seedVars, queryVars, objectVars>>
InReads == part = "reads" /\ UNCHANGED <<part, keyVars, seedVars, queryVars, objectVars>>
InKeys == part = "keys" /\ UNCHANGED <<part, gateAndReads, seedVars, queryVars, objectVars>>
InSeed == part = "seed" /\ UNCHANGED <<part, gateAndReads, keyVars, queryVars, objectVars>>
InQuery == part = "query" /\ UNCHANGED <<part, gateAndReads, keyVars, seedVars, objectVars>>
InObjects == part = "objects" /\ UNCHANGED <<part, gateAndReads, keyVars, seedVars, queryVars>>

(* Buckets are not put while they are read, other items are plain.         *)
Pages ==
    /\ QueryNext
    /\ query.kind = "graph" => puts' = 0
    /\ ~ByKey => \A t \in DOMAIN items' \ DOMAIN items : items'[t] = Plain

Lists == ObjectsNext /\ bucket' \subseteq Sole(ask.dataset)

Next ==
    \/ InGate /\ GateNext
    \/ InReads /\ ReadsNext
    \/ InKeys /\ KeysNext
    \/ InSeed /\ SeedNext
    \/ InQuery /\ Pages
    \/ InObjects /\ Lists

Spec == Init /\ [][Next]_vars

(* Timers fire, the event loop resumes what it can, boto3 calls and        *)
(* fetches end (FactoryReads and KeySet bound how often they fail), a page *)
(* asks again, and an operating worker goes on with its start-up.          *)
FairSpec ==
    /\ Spec
    /\ \A c \in Call : WF_vars(InGate /\ TimeOut(c)) /\ WF_vars(InGate /\ Leave(c))
    /\ \A r \in Reader : WF_vars(InReads /\ (Ask(r) \/ Serve(r) \/ Gate(r)))
    /\ WF_vars(InReads /\ Expire) /\ WF_vars(InReads /\ Replicate)
    /\ WF_vars(InReads /\ GateFrees)
    /\ \A c \in Client : WF_vars(InKeys /\ (Present(c) \/ Verify(c) \/ Again(c)))
    /\ WF_vars(InKeys /\ KeysExpire)
    /\ \A w \in Worker : WF_vars(InSeed /\ StartUp(w))

(* The properties of a part say something about the behaviours in which it *)
(* moves.                                                                  *)
GateAnswers == part = "gate" => CallsAreAnswered
ListEventuallyCurrent == part = "reads" => EventuallyListed
KeysEventuallyRotated == part = "keys" => EventuallyRotated
AdminEventuallySeeded == part = "seed" => EventuallySeeded

(* Calls are answered, and what was stale or missing at first does not     *)
(* stay so, whatever overlapped on the way.                                *)
BackendSettles ==
    /\ GateAnswers /\ ListEventuallyCurrent
    /\ KeysEventuallyRotated /\ AdminEventuallySeeded
=============================================================================

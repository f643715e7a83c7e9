------------------------------ MODULE Notifier ------------------------------
(***************************************************************************)
(* The notifier Lambda between the stream of the status table and Redis    *)
(* Pub/Sub.  The event source mapping hands it the records of a shard in   *)
(* batches; when an invocation fails it bisects the batch, retries a       *)
(* single record, and gives it up to the dead-letter queue when its        *)
(* retries are used up.  Items of one key share a shard, so one shard is   *)
(* modelled.  The Redis client that is kept between invocations, and made  *)
(* anew when it does not answer a ping, only makes a failure more or less  *)
(* likely.                                                                 *)
(***************************************************************************)
EXTENDS Naturals, Sequences

CONSTANTS
    Key,         \* partition keys: FACTORY#..., CLOUD#infra
    BatchSize,   \* batch_size, 10 in the code
    MaxRetries,  \* maximum_retry_attempts, 3 in the code
    MaxRecords,  \* bound on the stream
    MaxInvocationFaults    \* bound on failing invocations

ASSUME NotifierAssumption ==
    /\ BatchSize \in Nat \ {0} /\ MaxRetries \in Nat
    /\ MaxRecords \in Nat /\ MaxInvocationFaults \in Nat

VARIABLES
    stream,     \* records of the shard, oldest first
    position,   \* how many of them the mapping is done with
    work,       \* parts of the batch under way, the first one is invoked
    next,       \* the record the invocation has come to, 0 without one
    published,  \* positions of the records that were published
    shown,      \* per key the record published last, what a subscriber has
    dropped,    \* positions of the records in the dead-letter queue
    invocationFaults

notifierVars == <<stream, position, work, next, published, shown, dropped, invocationFaults>>

Kind == {"LATEST", "HISTORY", "REMOVE"}
Record == [key: Key, kind: Kind]
Index == 1..MaxRecords
Part == [from: Index, to: Index, tries: 0..MaxRetries]

NotifierInit ==
    /\ stream = <<>> /\ position = 0 /\ work = <<>> /\ next = 0
    /\ published = {} /\ dropped = {} /\ invocationFaults = 0
    /\ shown = [k \in Key |-> 0]

(* The data processor, a collector or the expiry of an item. *)
Change(record) ==
    /\ Len(stream) < MaxRecords
    /\ stream' = Append(stream, record)
    /\ UNCHANGED <<position, work, next, published, shown, dropped, invocationFaults>>

(* The mapping takes a batch. *)
PollStream ==
    /\ work = <<>>
    /\ \E n \in 1..BatchSize :
         /\ position + n <= Len(stream)
         /\ work' = <<[from |-> position + 1, to |-> position + n, tries |-> 0]>>
    /\ UNCHANGED <<stream, position, next, published, shown, dropped, invocationFaults>>

(* handler: _get_redis. *)
Invoke ==
    /\ work # <<>> /\ next = 0
    /\ next' = Head(work).from
    /\ UNCHANGED <<stream, position, work, published, shown, dropped, invocationFaults>>

(* What the handler publishes: INSERT and MODIFY of LATEST items. *)
Relevant(i) == stream[i].kind = "LATEST"

(* Mutant: records are gone through from the last one. *)
PublishBackwards ==
    /\ next # 0 /\ next <= Head(work).to
    /\ LET i == Head(work).to + Head(work).from - next IN
       IF Relevant(i)
       THEN /\ published' = published \cup {i}
            /\ shown' = [shown EXCEPT ![stream[i].key] = i]
       ELSE UNCHANGED <<published, shown>>
    /\ next' = next + 1
    /\ UNCHANGED <<stream, position, work, dropped, invocationFaults>>

(* One turn of its loop. *)
Publish ==
    /\ next # 0 /\ next <= Head(work).to
    /\ IF Relevant(next)
       THEN /\ published' = published \cup {next}
            /\ shown' = [shown EXCEPT ![stream[next].key] = next]
       ELSE UNCHANGED <<published, shown>>
    /\ next' = next + 1
    /\ UNCHANGED <<stream, position, work, dropped, invocationFaults>>

(* Mutant: the handler returns after its first publication. *)
FinishEarly ==
    /\ next # 0 /\ next > Head(work).from
    /\ position' = Head(work).to
    /\ work' = Tail(work)
    /\ next' = 0
    /\ UNCHANGED <<stream, published, shown, dropped, invocationFaults>>

(* The handler returns. *)
Finish ==
    /\ next # 0 /\ next > Head(work).to
    /\ position' = Head(work).to
    /\ work' = Tail(work)
    /\ next' = 0
    /\ UNCHANGED <<stream, published, shown, dropped, invocationFaults>>

(* bisect_batch_on_function_error *)
Halves(part) ==
    LET middle == (part.from + part.to) \div 2 IN
    <<[part EXCEPT !.to = middle], [part EXCEPT !.from = middle + 1]>>

(* The invocation fails or times out; the retry starts from the first      *)
(* record of its part, whatever was published.                             *)
Fail ==
    /\ next # 0 /\ invocationFaults < MaxInvocationFaults
    /\ invocationFaults' = invocationFaults + 1
    /\ next' = 0
    /\ LET part == Head(work) IN
       \/ /\ part.from < part.to
          /\ work' = Halves(part) \o Tail(work)
          /\ UNCHANGED <<position, dropped>>
       \/ /\ part.from = part.to /\ part.tries < MaxRetries
          /\ work' = <<[part EXCEPT !.tries = @ + 1]>> \o Tail(work)
          /\ UNCHANGED <<position, dropped>>
       \/ /\ part.from = part.to /\ part.tries = MaxRetries
          /\ work' = Tail(work)
          /\ position' = part.to
          /\ dropped' = dropped \cup {part.from}
    /\ UNCHANGED <<stream, published, shown>>

Deliver == PollStream \/ Invoke \/ Publish \/ Finish

NotifierNext == (\E record \in Record : Change(record)) \/ Deliver \/ Fail

NotifierSpec == NotifierInit /\ [][NotifierNext]_notifierVars

(* The mapping keeps polling and invoking. *)
NotifierFairSpec == NotifierSpec /\ WF_notifierVars(Deliver)

-----------------------------------------------------------------------------
(* The parts w cover, one after the other, some records after position pos *)
(* of a stream of n.                                                       *)
InPlace(w, pos, n) ==
    /\ w \in Seq(Part)
    /\ \A p \in 1..Len(w) :
         /\ w[p].from = (IF p = 1 THEN pos ELSE w[p - 1].to) + 1
         /\ w[p].from <= w[p].to /\ w[p].to <= n

(* Type invariant: every variable holds what its comment above says, and   *)
(* the parts under way follow the position without gap or overlap, which   *)
(* is what a retry relies on.                                              *)
NotifierTypeOK ==
    /\ stream \in Seq(Record) /\ Len(stream) <= MaxRecords
    /\ position \in 0..Len(stream)
    /\ InPlace(work, position, Len(stream))
    /\ next \in 0..MaxRecords + 1
    /\ published \subseteq 1..Len(stream) /\ dropped \subseteq 1..Len(stream)
    /\ shown \in [Key -> 0..Len(stream)]
    /\ invocationFaults \in 0..MaxInvocationFaults

(* A status update the mapping has left behind was published or is in the  *)
(* dead-letter queue, wherever invocations failed (lambda_notifier.tf      *)
(* 162-175).                                                               *)
NothingSkipped ==
    \A i \in 1..position : Relevant(i) => i \in published \cup dropped

(* No update is published ahead of an older one of its factory that was    *)
(* neither published nor given up, however batches are split.              *)
FirstInOrder ==
    [][\A i \in published' \ published : \A j \in 1..(i - 1) :
         Relevant(j) /\ stream[j].key = stream[i].key => j \in published \cup dropped]_notifierVars

NewestUpdate(k) ==
    LET all == {i \in 1..Len(stream) : Relevant(i) /\ stream[i].key = k} IN
    IF all = {} THEN 0 ELSE CHOOSE i \in all : \A j \in all : j <= i

(* Retries publish older updates again, after newer ones, yet when the     *)
(* stream is quiet a subscriber ends up with the newest one, unless that   *)
(* was given up.                                                           *)
SettlesOnNewest ==
    \A k \in Key : <>[](shown[k] = NewestUpdate(k) \/ NewestUpdate(k) \in dropped)
=============================================================================

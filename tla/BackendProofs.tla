--------------------------- MODULE BackendProofs ---------------------------
(***************************************************************************)
(* Theorems about the parts of a backend process, for any number of        *)
(* requests, permits, threads, keys and workers: the gate leaks nothing,   *)
(* also under the list of factories; nobody is shown a factory that was    *)
(* never his; an outage of the user pool refuses nobody; seeding is all or *)
(* nothing; the objects of a request are those of its window; and lists    *)
(* and charts, however the table's answers are cut, are their ranges, with *)
(* buckets that keep what they stand for.                                  *)
(***************************************************************************)
EXTENDS FactoryReads, KeySet, MetadataSeed, HistoryQuery, ObjectReads,
        FiniteSetTheorems, SequenceTheorems, NaturalsInduction,
        WellFoundedInduction, TLAPS

(* The gate leaks neither permits nor threads: each is counted where it is. *)
In(f, states) == {c \in Call : f[c] \in states}
Holding == {"permit", "thread"}
Running == {"thread"}

LEMMA InIsFinite ==
    ASSUME NEW f, NEW states
    PROVE  IsFiniteSet(In(f, states)) /\ Cardinality(In(f, states)) \in Nat
<1>1. In(f, states) \in SUBSET Call
  BY DEF In
<1>2. IsFiniteSet(In(f, states))
  BY <1>1, GateAssumption, FS_Subset
<1> QED BY <1>2, FS_CardinalityType

One(condition) == IF condition THEN 1 ELSE 0

(* How many calls are in given states when one of them moves. *)
LEMMA Count ==
    ASSUME NEW f \in [Call -> CallState], NEW c \in Call, NEW to \in CallState, NEW states
    PROVE  Cardinality(In([f EXCEPT ![c] = to], states))
             = Cardinality(In(f, states)) - One(f[c] \in states) + One(to \in states)
<1> DEFINE g == [f EXCEPT ![c] = to]
           F == In(f, states)
           G == In(g, states)
<1>1. IsFiniteSet(F) /\ Cardinality(F) \in Nat /\ IsFiniteSet(G) /\ Cardinality(G) \in Nat
  BY InIsFinite
<1>2. \A k \in Call : g[k] = IF k = c THEN to ELSE f[k]
  OBVIOUS
<1>3. (f[c] \in states <=> to \in states) => G = F
  BY <1>2 DEF In
<1>4. f[c] \notin states /\ to \in states => G = F \cup {c} /\ c \notin F
  BY <1>2 DEF In
<1>5. f[c] \in states /\ to \notin states => F = G \cup {c} /\ c \notin G
  BY <1>2 DEF In
<1> HIDE DEF F, G, g
<1>6. c \notin F => Cardinality(F \cup {c}) = Cardinality(F) + 1
  BY <1>1, FS_AddElement
<1>7. c \notin G => Cardinality(G \cup {c}) = Cardinality(G) + 1
  BY <1>1, FS_AddElement
<1>8. Cardinality(G) = Cardinality(F) - One(f[c] \in states) + One(to \in states)
  <2>1. CASE f[c] \in states <=> to \in states
    BY <1>1, <1>3, <2>1 DEF One
  <2>2. CASE f[c] \notin states /\ to \in states
    <3>1. Cardinality(G) = Cardinality(F) + 1
      BY <1>4, <1>6, <2>2
    <3>2. One(f[c] \in states) = 0 /\ One(to \in states) = 1
      BY <2>2 DEF One
    <3> QED BY <1>1, <3>1, <3>2
  <2>3. CASE f[c] \in states /\ to \notin states
    <3>1. Cardinality(F) = Cardinality(G) + 1
      BY <1>5, <1>7, <2>3
    <3>2. One(f[c] \in states) = 1 /\ One(to \in states) = 0
      BY <2>3 DEF One
    <3> QED BY <1>1, <3>1, <3>2
  <2> QED BY <2>1, <2>2, <2>3
<1> QED BY <1>8 DEF F, G, g

(* The counts of the gate, where the properties have At. *)
LEMMA Counted ==
    At({"permit", "thread"}) = In(call, Holding) /\ At({"thread"}) = In(call, Running)
BY DEF At, In, Holding, Running

GateInv ==
    /\ call \in [Call -> CallState]
    /\ permits \in Nat /\ free \in Nat /\ orphans \in Nat
    /\ permits + Cardinality(In(call, Holding)) = Permits
    /\ free + Cardinality(In(call, Running)) + orphans = Threads

LEMMA InvInit == GateInit => GateInv
<1> SUFFICES ASSUME GateInit PROVE GateInv
  OBVIOUS
<1>1. In(call, Holding) = {} /\ In(call, Running) = {}
  BY DEF GateInit, In, Holding, Running
<1>2. Cardinality({}) = 0
  BY FS_EmptySet
<1> QED BY <1>1, <1>2, GateAssumption DEF GateInit, GateInv, CallState

(* A call moves and what it gives back is what it held: the counts agree.  *)
LEMMA Moved ==
    ASSUME GateInv, NEW c \in Call, NEW to \in CallState,
           call' = [call EXCEPT ![c] = to],
           permits' \in Nat, free' \in Nat, orphans' \in Nat,
           permits' = permits + One(call[c] \in Holding) - One(to \in Holding),
           free' + orphans' = free + orphans + One(call[c] \in Running) - One(to \in Running)
    PROVE  GateInv'
<1>1. call' \in [Call -> CallState]
  BY DEF GateInv
<1>2. Cardinality(In(call', Holding))
        = Cardinality(In(call, Holding)) - One(call[c] \in Holding) + One(to \in Holding)
  BY Count DEF GateInv
<1>3. Cardinality(In(call', Running))
        = Cardinality(In(call, Running)) - One(call[c] \in Running) + One(to \in Running)
  BY Count DEF GateInv
<1>4. \A states : Cardinality(In(call, states)) \in Nat
  BY InIsFinite
<1>5. /\ One(call[c] \in Holding) \in Nat /\ One(to \in Holding) \in Nat
      /\ One(call[c] \in Running) \in Nat /\ One(to \in Running) \in Nat
  BY DEF One
<1>6. permits' + Cardinality(In(call', Holding)) = Permits
  BY <1>2, <1>4, <1>5, GateAssumption DEF GateInv
<1>7. free' + Cardinality(In(call', Running)) + orphans' = Threads
  BY <1>3, <1>4, <1>5, GateAssumption DEF GateInv
<1>8. In(call, Holding)' = In(call', Holding) /\ In(call, Running)' = In(call', Running)
  BY DEF In, Holding, Running
<1> QED BY <1>1, <1>6, <1>7, <1>8 DEF GateInv

(* One call moves to a state, and the counters change by given amounts.   *)
Becomes(c, to, p, f, o) ==
    /\ to \in CallState /\ call' = [call EXCEPT ![c] = to]
    /\ permits' \in Nat /\ free' \in Nat /\ orphans' \in Nat
    /\ permits' = permits + p /\ free' = free + f /\ orphans' = orphans + o

Balanced(c, to, p, f, o) ==
    /\ Becomes(c, to, p, f, o)
    /\ p = One(call[c] \in Holding) - One(to \in Holding)
    /\ f + o = One(call[c] \in Running) - One(to \in Running)

LEMMA MovedBy ==
    ASSUME GateInv, NEW c \in Call, NEW to, NEW p \in Int, NEW f \in Int, NEW o \in Int,
           Balanced(c, to, p, f, o)
    PROVE  GateInv'
<1>0. Becomes(c, to, p, f, o)
  BY DEF Balanced
<1>1. permits \in Nat /\ free \in Nat /\ orphans \in Nat
  BY DEF GateInv
<1>2. /\ One(call[c] \in Holding) \in Nat /\ One(to \in Holding) \in Nat
      /\ One(call[c] \in Running) \in Nat /\ One(to \in Running) \in Nat
  BY DEF One
<1>3. permits' = permits + One(call[c] \in Holding) - One(to \in Holding)
  BY <1>0, <1>1, <1>2 DEF Balanced, Becomes
<1>4. free' + orphans' = free + orphans + One(call[c] \in Running) - One(to \in Running)
  BY <1>0, <1>1, <1>2 DEF Balanced, Becomes
<1> QED BY <1>0, <1>3, <1>4, Moved DEF Becomes

LEMMA InvStep == GateInv /\ [GateNext]_gateVars => GateInv'
<1> SUFFICES ASSUME GateInv, [GateNext]_gateVars PROVE GateInv'
  OBVIOUS
<1> USE GateAssumption
<1>0. /\ call \in [Call -> CallState]
      /\ permits \in Nat /\ free \in Nat /\ orphans \in Nat
  BY DEF GateInv
<1>1. ASSUME NEW c \in Call, CallStep(c) PROVE GateInv'
  <2>1. CASE Enter(c)
    <3>1. call[c] = "idle" /\ Becomes(c, "queue", 0, 0, 0)
      BY <1>0, <2>1 DEF Enter, Move, CallState, Becomes
      <3>2. /\ One(call[c] \in Holding) = 0 /\ One("queue" \in Holding) = 0
            /\ One(call[c] \in Running) = 0 /\ One("queue" \in Running) = 0
        BY <3>1 DEF One, Holding, Running
      <3>3. Balanced(c, "queue", 0, 0, 0)
        BY <3>1, <3>2 DEF Balanced
      <3> QED BY <3>3, MovedBy
  <2>2. CASE TakePermit(c)
    <3>1. call[c] = "queue" /\ Becomes(c, "permit", -1, 0, 0)
      BY <1>0, <2>2 DEF TakePermit, Move, CallState, Becomes
      <3>2. /\ One(call[c] \in Holding) = 0 /\ One("permit" \in Holding) = 1
            /\ One(call[c] \in Running) = 0 /\ One("permit" \in Running) = 0
        BY <3>1 DEF One, Holding, Running
      <3>3. Balanced(c, "permit", -1, 0, 0)
        BY <3>1, <3>2 DEF Balanced
      <3> QED BY <3>3, MovedBy
  <2>3. CASE StartThread(c)
    <3>1. call[c] = "permit" /\ Becomes(c, "thread", 0, -1, 0)
      BY <1>0, <2>3 DEF StartThread, Move, CallState, Becomes
      <3>2. /\ One(call[c] \in Holding) = 1 /\ One("thread" \in Holding) = 1
            /\ One(call[c] \in Running) = 0 /\ One("thread" \in Running) = 1
        BY <3>1 DEF One, Holding, Running
      <3>3. Balanced(c, "thread", 0, -1, 0)
        BY <3>1, <3>2 DEF Balanced
      <3> QED BY <3>3, MovedBy
  <2>4. CASE Return(c)
    <3>1. PICK to \in {"value", "unavailable"} : Move(c, "thread", to)
      BY <2>4 DEF Return
    <3>2. call[c] = "thread" /\ Becomes(c, to, 1, 1, 0)
      BY <1>0, <2>4, <3>1 DEF Return, Move, CallState, Becomes
    <3>3. to \notin Holding /\ to \notin Running
      BY <3>1 DEF Holding, Running
      <3>4. /\ One(call[c] \in Holding) = 1 /\ One(to \in Holding) = 0
            /\ One(call[c] \in Running) = 1 /\ One(to \in Running) = 0
        BY <3>2, <3>3 DEF One, Holding, Running
      <3>5. Balanced(c, to, 1, 1, 0)
        BY <3>2, <3>4 DEF Balanced
      <3> QED BY <3>5, MovedBy
  <2>5. CASE TimeOut(c)
    <3>1. CASE call[c] = "queue"
      <4>1. Becomes(c, "unavailable", 0, 0, 0)
        BY <1>0, <2>5, <3>1 DEF TimeOut, GivenUp, CallState, Becomes
        <4>2. /\ One(call[c] \in Holding) = 0 /\ One("unavailable" \in Holding) = 0
              /\ One(call[c] \in Running) = 0 /\ One("unavailable" \in Running) = 0
          BY <3>1 DEF One, Holding, Running
        <4>3. Balanced(c, "unavailable", 0, 0, 0)
          BY <4>1, <4>2 DEF Balanced
        <4> QED BY <4>3, MovedBy
    <3>2. CASE call[c] = "permit"
      <4>1. Becomes(c, "unavailable", 1, 0, 0)
        BY <1>0, <2>5, <3>2 DEF TimeOut, GivenUp, CallState, Becomes
        <4>2. /\ One(call[c] \in Holding) = 1 /\ One("unavailable" \in Holding) = 0
              /\ One(call[c] \in Running) = 0 /\ One("unavailable" \in Running) = 0
          BY <3>2 DEF One, Holding, Running
        <4>3. Balanced(c, "unavailable", 1, 0, 0)
          BY <4>1, <4>2 DEF Balanced
        <4> QED BY <4>3, MovedBy
    <3>3. CASE call[c] = "thread"
      <4>1. Becomes(c, "unavailable", 1, 0, 1)
        BY <1>0, <2>5, <3>3 DEF TimeOut, GivenUp, CallState, Becomes
        <4>2. /\ One(call[c] \in Holding) = 1 /\ One("unavailable" \in Holding) = 0
              /\ One(call[c] \in Running) = 1 /\ One("unavailable" \in Running) = 0
          BY <3>3 DEF One, Holding, Running
        <4>3. Balanced(c, "unavailable", 1, 0, 1)
          BY <4>1, <4>2 DEF Balanced
        <4> QED BY <4>3, MovedBy
    <3> QED BY <2>5, <3>1, <3>2, <3>3 DEF TimeOut, GivenUp
  <2>6. CASE Leave(c)
    <3>1. call[c] \in {"value", "unavailable"} /\ Becomes(c, "idle", 0, 0, 0)
      BY <1>0, <2>6 DEF Leave, CallState, Becomes
      <3>2. /\ One(call[c] \in Holding) = 0 /\ One("idle" \in Holding) = 0
            /\ One(call[c] \in Running) = 0 /\ One("idle" \in Running) = 0
        BY <3>1 DEF One, Holding, Running
      <3>3. Balanced(c, "idle", 0, 0, 0)
        BY <3>1, <3>2 DEF Balanced
      <3> QED BY <3>3, MovedBy
  <2> QED BY <1>1, <2>1, <2>2, <2>3, <2>4, <2>5, <2>6 DEF CallStep
<1>2. CASE OrphanEnds
  <2>1. /\ call' = call /\ permits' = permits
        /\ orphans' = orphans - 1 /\ free' = free + 1 /\ orphans > 0
    BY <1>2 DEF OrphanEnds
  <2>2. Cardinality(In(call, Running)) \in Nat
    BY InIsFinite
  <2>3. In(call, Holding)' = In(call, Holding) /\ In(call, Running)' = In(call, Running)
    BY <2>1 DEF In, Holding, Running
  <2> QED BY <1>0, <2>1, <2>2, <2>3 DEF GateInv
<1>3. CASE UNCHANGED gateVars
  BY <1>3 DEF gateVars, GateInv, In, Holding, Running
<1> QED BY <1>1, <1>2, <1>3 DEF GateNext

LEMMA InvImplies == GateInv => GateTypeOK /\ NothingLeaks
<1> SUFFICES ASSUME GateInv PROVE GateTypeOK /\ NothingLeaks
  OBVIOUS
<1>1. Cardinality(In(call, Holding)) \in Nat /\ Cardinality(In(call, Running)) \in Nat
  BY InIsFinite
<1>2. NothingLeaks
  BY Counted DEF GateInv, NothingLeaks
<1>3. permits \in 0..Permits /\ free \in 0..Threads /\ orphans \in 0..Threads
  BY <1>1, GateAssumption DEF GateInv
<1> QED BY <1>2, <1>3 DEF GateInv, GateTypeOK

(* ddb.py, _run_ddb: the semaphore and the executor stay within their      *)
(* sizes.                                                                  *)
THEOREM GateTypeCorrect == GateSpec => []GateTypeOK
<1>1. GateInv => GateTypeOK
  BY InvImplies
<1> QED BY <1>1, InvInit, InvStep, PTL DEF GateSpec

(* ddb.py, _run_ddb: wherever calls are given up, no permit or thread is   *)
(* lost or comes back twice.                                               *)
THEOREM LeaksNothing == GateSpec => []NothingLeaks
<1>1. GateInv => NothingLeaks
  BY InvImplies
<1> QED BY <1>1, InvInit, InvStep, PTL DEF GateSpec

(* GET /factories uses the gate and nothing else of it: the counts hold    *)
(* under every interleaving of requests, cache and table.                  *)
THEOREM ListKeepsGate == ReadsSpec => GateSpec
<1>1. ReadsInit => GateInit
  BY DEF ReadsInit
<1>2. [ReadsNext]_<<gateVars, readVars>> => [GateNext]_gateVars
  BY ReadsAssumption
  DEF ReadsNext, Ask, Serve, ReadUser, ReadGrants, UseCache, ReadTable, ListRead,
      ListFails, Gate, GateFrees, Expire, Write, Replicate, ChangeUser, GateNext,
      CallStep, gateVars
<1> QED BY <1>1, <1>2, PTL DEF ReadsSpec, GateSpec

-----------------------------------------------------------------------------
(* What a user may see while requests of his are on their way. *)
Rows == Users \cup {Deleted(u) : u \in Users}

Labels == {"answered", "user", "grants", "list", "table"}

HeldInv ==
    /\ user \in Rows
    /\ pc \in [Reader -> Labels]
    /\ allowed \in [Reader -> SUBSET Factory]
    /\ held \in [Reader -> SUBSET Factory]
    /\ \A r \in Reader : allowed[r] \subseteq held[r]
    /\ \A r \in Reader : pc[r] # "answered" => Access(user) \subseteq held[r]

(* The grants that a committed row brings are the user's to see.           *)
LEMMA AccessOfRow ==
    ASSUME NEW u \in Rows
    PROVE  Access(u) \subseteq Factory /\ u.grants \subseteq Access(u)
BY DEF Rows, Users, Deleted, Access

LEMMA HeldStep == HeldInv /\ [ReadsNext]_<<gateVars, readVars>> => HeldInv'
<1> SUFFICES ASSUME HeldInv, [ReadsNext]_<<gateVars, readVars>> PROVE HeldInv'
  OBVIOUS
<1> USE AccessOfRow DEF HeldInv, Labels
<1>1. ASSUME NEW r \in Reader, Ask(r) PROVE HeldInv'
  BY <1>1 DEF Ask, Goto, dataVars
<1>2. ASSUME NEW r \in Reader, ReadUser(r) PROVE HeldInv'
  <2>1. /\ user' = user /\ held' = held /\ pc[r] = "user"
        /\ pc' \in [Reader -> Labels]
        /\ \A q \in Reader \ {r} : pc'[q] = pc[q]
    BY <1>2 DEF ReadUser, Goto, dataVars
  <2> DEFINE new == IF user.active THEN AllowedByRole(user) ELSE {}
  <2>2. new \subseteq Access(user) /\ allowed' = [allowed EXCEPT ![r] = new]
    BY <1>2 DEF ReadUser, AllowedByRole, Access
  <2>3. new \subseteq Factory /\ new \subseteq held[r]
    BY <2>1, <2>2
  <2> QED BY <2>1, <2>2, <2>3
<1>3. ASSUME NEW r \in Reader, ReadGrants(r) PROVE HeldInv'
  <2>1. /\ user' = user /\ held' = held /\ pc[r] = "grants"
        /\ pc' = [pc EXCEPT ![r] = "list"]
        /\ allowed' = [allowed EXCEPT ![r] = allowed[r] \cup user.grants]
    BY <1>3 DEF ReadGrants, Goto, dataVars
  <2>2. user.grants \subseteq held[r] /\ user.grants \subseteq Factory
    BY <2>1
  <2> QED BY <2>1, <2>2
<1>4. ASSUME NEW r \in Reader, UseCache(r) \/ ReadTable(r) \/ ListRead(r) \/ ListFails(r)
      PROVE  HeldInv'
  BY <1>4 DEF UseCache, ReadTable, ListRead, ListFails, Answer, Shown, Goto, dataVars
<1>5. CASE ChangeUser
  <2>0. user \in Users
    <3>1. \A u \in Users : Deleted(u).active = FALSE
      BY DEF Deleted, Users
    <3>2. user.active = TRUE \/ user.active = FALSE
      BY <3>1 DEF Rows, Users
    <3>3. user.active
      BY <1>5 DEF ChangeUser
    <3> QED BY <3>1, <3>2, <3>3 DEF Rows
  <2>1. user' \in Rows /\ UNCHANGED <<pc, allowed>>
    BY <1>5, <2>0 DEF ChangeUser, Rows
  <2>2. held' = [r \in Reader |-> IF pc[r] = "answered" THEN held[r]
                                  ELSE held[r] \cup Access(user')]
    BY <1>5 DEF ChangeUser
  <2> QED BY <2>1, <2>2
<1>6. CASE UNCHANGED <<user, pc, allowed, held>>
  BY <1>6 DEF Access
<1>7. \/ \E r \in Reader : \/ Ask(r) \/ ReadUser(r) \/ ReadGrants(r) \/ UseCache(r)
                           \/ ReadTable(r) \/ ListRead(r) \/ ListFails(r)
      \/ ChangeUser \/ UNCHANGED <<user, pc, allowed, held>>
  BY DEF ReadsNext, Serve, Gate, GateFrees, Expire, Write, Replicate, dataVars, readVars
<1> QED BY <1>1, <1>2, <1>3, <1>4, <1>5, <1>6, <1>7

(* However a user's rows change between the two statements that read them  *)
(* and the answer, he is shown nothing that he could not access at some    *)
(* moment of the request.                                                  *)
THEOREM ShownWasHeld == ReadsSpec => []AccessWasHeld
<1>1. ReadsInit => HeldInv
  BY DEF ReadsInit, HeldInv, Rows, Users, Labels
<1>2. HeldInv => AccessWasHeld
  BY DEF HeldInv, AccessWasHeld
<1> QED BY <1>1, <1>2, HeldStep, PTL DEF ReadsSpec

-----------------------------------------------------------------------------
(* Who was verified had a token that was made for this backend. *)
AuthState == {"idle", "arrived", "waiting", "fetching", "verified", "refused"}

KeyInv ==
    /\ auth \in [Client -> AuthState]
    /\ DOMAIN token = Client
    /\ \A c \in Client : auth[c] = "verified" => token[c].claims = "ours"

(* What Judge decides with a key set. *)
LEMMA Judged ==
    ASSUME KeyInv, NEW c \in Client, NEW set, Judge(c, set)
    PROVE  /\ auth' \in [Client -> AuthState]
           /\ \A d \in Client \ {c} : auth'[d] = auth[d]
           /\ auth'[c] = "verified" => token[c].claims = "ours"
           /\ auth'[c] = "refused" =>
                ~ClaimsHold(token[c]) \/ set = NoKeys \/ token[c].key \notin set
BY DEF KeyInv, Judge, ClaimsHold, AuthState

(* One client's step with what it may do to each client. *)
NobodyRefused(c) ==
    /\ auth[c] # "refused" /\ auth'[c] = "refused" =>
         ~ClaimsHold(token[c]) \/ keys' = NoKeys \/ token[c].key \notin keys'
    /\ auth'[c] = "verified" => token[c].claims = "ours"

LEMMA KeyStep ==
    ASSUME KeyInv, [KeysNext]_keyVars
    PROVE  KeyInv' /\ \A c \in Client : NobodyRefused(c)
<1> USE DEF KeyInv
<1>1. ASSUME NEW c \in Client, NEW set, Judge(c, set), token' = token, keys' = set
      PROVE  KeyInv' /\ \A d \in Client : NobodyRefused(d)
  BY <1>1, Judged DEF NobodyRefused
<1>2. ASSUME NEW c \in Client, Verify(c)
      PROVE  KeyInv' /\ \A d \in Client : NobodyRefused(d)
  <2>1. CASE \E set : Judge(c, set) /\ token' = token /\ keys' = set
    BY <1>1, <2>1
  <2>2. CASE /\ token' = token
             /\ \E to \in {"waiting", "fetching"} : auth' = [auth EXCEPT ![c] = to]
    BY <2>2 DEF NobodyRefused, AuthState
  <2>3. CASE Look(c) \/ Lock(c)
    <3>1. token' = token /\ keys' = keys
      BY <2>3 DEF Look, Lock
    <3>2. \/ Judge(c, keys)
          \/ \E to \in {"waiting", "fetching"} : auth' = [auth EXCEPT ![c] = to]
      BY <2>3 DEF Look, Lock
    <3> QED BY <2>1, <2>2, <3>1, <3>2
  <2>4. CASE Fetched(c)
    BY <2>1, <2>4 DEF Fetched, Renew
  <2>5. CASE FetchFails(c)
    BY <2>1, <2>5 DEF FetchFails, FallBack
  <2> QED BY <1>2, <2>3, <2>4, <2>5 DEF Verify
<1>3. ASSUME NEW c \in Client, Present(c) \/ Again(c)
      PROVE  KeyInv' /\ \A d \in Client : NobodyRefused(d)
  BY <1>3 DEF Present, Again, NobodyRefused, AuthState
<1>4. CASE UNCHANGED <<auth, token>>
  BY <1>4 DEF NobodyRefused
<1> QED BY <1>2, <1>3, <1>4 DEF KeysNext, KeysExpire, Rotate, keyVars

(* auth.py, _get_jwks and _decode_token: however requests queue for the    *)
(* key set, keys rotate and fetches fail, a good token whose key the       *)
(* process has or gets is not refused, and no foreign one is verified.     *)
THEOREM NoneRefused == KeysSpec => OutageRefusesNobody
<1>1. KeysInit => KeyInv
  BY DEF KeysInit, KeyInv, AuthState
<1>2. KeyInv /\ [KeysNext]_keyVars => KeyInv'
  BY KeyStep
<1>3. KeyInv /\ [KeysNext]_keyVars =>
        [\A c \in Client :
           /\ auth[c] # "refused" /\ auth'[c] = "refused" =>
                ~ClaimsHold(token[c]) \/ keys' = NoKeys \/ token[c].key \notin keys'
           /\ auth'[c] = "verified" => token[c].claims = "ours"]_keyVars
  BY KeyStep DEF NobodyRefused
<1> QED BY <1>1, <1>2, <1>3, PTL DEF KeysSpec, OutageRefusesNobody

-----------------------------------------------------------------------------
(* What a session that seeds knows: the factories it will not insert were  *)
(* committed before, and what was right of an administrator's row that it  *)
(* found is still right.                                                   *)
StillRight(k, row) ==
    row # NoRow =>
        /\ admins[k] # NoRow
        /\ row.role = "super_admin" => admins[k].role = "super_admin"
        /\ row.active => admins[k].active

SeedInv ==
    /\ bootstrap \in 0..MaxAdmins
    /\ step \in [Worker -> {"start", "create", "created", "seed", "seeding",
                            "failed", "ready"}]
    /\ DOMAIN missing = Worker
    /\ asked \in [Worker -> 0..bootstrap]
    /\ was \in [Worker -> [1..MaxAdmins -> Admin \cup {NoRow}]]
    /\ email \in [Worker -> [1..MaxAdmins -> {"profile", "fallback"}]]
    /\ rows \subseteq Configured
    /\ admins \in [1..MaxAdmins -> Admin \cup {NoRow}]
    /\ \A w \in Worker :
         step[w] = "seeding" =>
            /\ Configured \ rows \subseteq missing[w] /\ missing[w] \subseteq Configured
            /\ \A k \in 1..asked[w] : StillRight(k, was[w][k])

LEMMA SeedInvInit == SeedInit => SeedInv
<1> SUFFICES ASSUME SeedInit PROVE SeedInv
  OBVIOUS
<1>1. admins \in [1..MaxAdmins -> Admin \cup {NoRow}] /\ rows \subseteq Configured
  BY DEF SeedInit
<1> QED BY <1>1, SeedAssumption DEF SeedInit, SeedInv

(* The row a commit brings is the one wanted of an administrator.          *)
LEMMA BroughtRight ==
    ASSUME SeedInv, NEW w \in Worker, step[w] = "seeding", NEW k \in 1..asked[w]
    PROVE  /\ Brought(w, k) \in Admin
           /\ Brought(w, k).role = "super_admin" /\ Brought(w, k).active
<1>1. k \in 1..MaxAdmins
  BY SeedAssumption DEF SeedInv
<1>2. Wanted(w, k) \in Admin /\ Wanted(w, k).role = "super_admin" /\ Wanted(w, k).active = TRUE
  BY <1>1 DEF SeedInv, Wanted, Admin
<1>3. CASE was[w][k] = NoRow
  BY <1>2, <1>3 DEF Brought
<1>4. CASE was[w][k] # NoRow
  <2>1. was[w][k] \in Admin /\ admins[k] \in Admin /\ StillRight(k, was[w][k])
    <3>1. was[w][k] \in Admin \cup {NoRow} /\ admins[k] \in Admin \cup {NoRow}
      BY <1>1 DEF SeedInv
    <3> QED BY <1>4, <3>1 DEF SeedInv, StillRight
  <2> DEFINE Col(c) == IF was[w][k][c] = Wanted(w, k)[c] THEN admins[k][c] ELSE Wanted(w, k)[c]
  <2>2. DOMAIN admins[k] = {"email", "role", "active"}
    BY <2>1 DEF Admin
  <2>3. Brought(w, k) = [c \in {"email", "role", "active"} |-> Col(c)]
    BY <1>4, <2>2 DEF Brought
  <2>4. Col("email") \in {"profile", "fallback"}
    BY <1>2, <2>1 DEF Admin
  <2>5. Col("role") = "super_admin"
    BY <1>2, <1>4, <2>1 DEF Admin, StillRight
  <2>6. Col("active") = TRUE
    BY <1>2, <1>4, <2>1 DEF Admin, StillRight
  <2> HIDE DEF Col
  <2>7. Brought(w, k) = [email |-> Col("email"), role |-> Col("role"), active |-> Col("active")]
    BY <2>3
  <2>8. Brought(w, k) = [email |-> Col("email"), role |-> "super_admin", active |-> TRUE]
    BY <2>5, <2>6, <2>7
  <2>9. Brought(w, k) \in Admin
    BY <2>4, <2>8 DEF Admin
  <2>10. Brought(w, k).role = "super_admin" /\ Brought(w, k).active = TRUE
    BY <2>8
  <2> QED BY <2>9, <2>10
<1> QED BY <1>3, <1>4

(* Only a commit adds rows, and it adds all that are missing. *)
LEMMA Committed ==
    ASSUME SeedInv, NEW w \in Worker, CommitRows(w)
    PROVE  \/ /\ UNCHANGED <<rows, admins, bootstrap>>
              /\ step' = [step EXCEPT ![w] = "failed"]
           \/ /\ rows' = Configured /\ Seeded' /\ bootstrap' = bootstrap
              /\ admins' \in [1..MaxAdmins -> Admin \cup {NoRow}]
              /\ \A k \in 1..MaxAdmins : k > bootstrap => admins'[k] = admins[k]
              /\ step' = [step EXCEPT ![w] = "ready"]
<1>0. step[w] = "seeding" /\ asked[w] = bootstrap /\ bootstrap' = bootstrap
  BY DEF CommitRows, FreeToFlush
<1>1. CASE Clashes(w)
  BY <1>0, <1>1 DEF CommitRows, Stored, To
<1>2. CASE ~Clashes(w)
  <2>1. /\ step' = [step EXCEPT ![w] = "ready"]
        /\ rows' = rows \cup missing[w]
        /\ admins' = [k \in 1..MaxAdmins |-> IF k <= bootstrap THEN Brought(w, k) ELSE admins[k]]
    BY <1>2 DEF CommitRows, Stored, To
  <2>2. rows' = Configured
    BY <1>0, <2>1 DEF SeedInv
  <2>3. ASSUME NEW k \in 1..MaxAdmins
        PROVE  /\ admins'[k] \in Admin \cup {NoRow}
               /\ k > bootstrap => admins'[k] = admins[k]
               /\ k <= bootstrap => /\ admins'[k] \in Admin
                                    /\ admins'[k].role = "super_admin" /\ admins'[k].active
    <3>1. CASE k <= bootstrap
      <4>1. k \in 1..asked[w] /\ bootstrap \in Nat
        BY <1>0, <3>1, SeedAssumption DEF SeedInv
      <4>2. admins'[k] = Brought(w, k)
        BY <2>1, <3>1
      <4> QED BY <1>0, <3>1, <4>1, <4>2, BroughtRight
    <3>2. CASE ~(k <= bootstrap)
      BY <2>1, <3>2 DEF SeedInv
    <3> QED BY <3>1, <3>2
  <2>4. Seeded'
    <3>1. ASSUME NEW k \in 1..bootstrap
          PROVE  admins'[k] # NoRow /\ admins'[k].role = "super_admin" /\ admins'[k].active
      <4>1. k \in 1..MaxAdmins /\ k <= bootstrap
        BY SeedAssumption DEF SeedInv
      <4> QED BY <2>3, <4>1, NoRowAssumption
    <3> QED BY <1>0, <2>2, <3>1 DEF Seeded
  <2>5. admins' \in [1..MaxAdmins -> Admin \cup {NoRow}]
    BY <2>1, <2>3
  <2> QED BY <1>0, <2>1, <2>2, <2>3, <2>4, <2>5
<1> QED BY <1>1, <1>2

(* A step that neither reads nor stores, and begins no session. *)
LEMMA NothingSeeded ==
    ASSUME SeedInv, UNCHANGED <<bootstrap, rows, admins, missing, asked, was, email>>,
           NEW w \in Worker,
           NEW s \in {"start", "create", "created", "seed", "failed"},
           step' = [step EXCEPT ![w] = s]
    PROVE  SeedInv'
<1>1. \A v \in Worker : step'[v] = "seeding" => step[v] = "seeding"
  BY DEF SeedInv
<1>2. \A v \in Worker, k \in 1..MaxAdmins : StillRight(k, was[v][k])' = StillRight(k, was[v][k])
  BY DEF StillRight
<1>3. \A v \in Worker : \A k \in 1..asked[v] : k \in 1..MaxAdmins
  BY SeedAssumption DEF SeedInv
<1>4. \A v \in Worker : step'[v] = "seeding" => \A k \in 1..asked'[v] : StillRight(k, was[v][k])'
  BY <1>1, <1>2, <1>3 DEF SeedInv
<1>5. step' \in [Worker -> {"start", "create", "created", "seed", "seeding", "failed", "ready"}]
  BY DEF SeedInv
<1> QED BY <1>1, <1>4, <1>5 DEF SeedInv

LEMMA SeedStep == SeedInv /\ [SeedNext]_seedVars => SeedInv'
<1> SUFFICES ASSUME SeedInv, [SeedNext]_seedVars PROVE SeedInv'
  OBVIOUS
<1>1. ASSUME NEW w \in Worker, CommitRows(w) PROVE SeedInv'
  <2>1. UNCHANGED <<missing, asked, was, email>>
    BY <1>1 DEF CommitRows, NothingRead
  <2>2. CASE UNCHANGED <<rows, admins, bootstrap>> /\ step' = [step EXCEPT ![w] = "failed"]
    BY <2>1, <2>2 DEF SeedInv, StillRight
  <2>3. CASE /\ rows' = Configured /\ Seeded' /\ bootstrap' = bootstrap
             /\ admins' \in [1..MaxAdmins -> Admin \cup {NoRow}]
             /\ step' = [step EXCEPT ![w] = "ready"]
    <3>1. ASSUME NEW v \in Worker, step'[v] = "seeding", NEW k \in 1..asked'[v]
          PROVE  StillRight(k, was[v][k])'
      <4>1. k \in 1..bootstrap'
        BY <2>1, <2>3, SeedAssumption DEF SeedInv
      <4> QED BY <2>3, <4>1 DEF Seeded, StillRight
    <3>2. ASSUME NEW v \in Worker, step'[v] = "seeding"
          PROVE  Configured \ rows' \subseteq missing'[v] /\ missing'[v] \subseteq Configured
      BY <2>1, <2>3, <3>2 DEF SeedInv
    <3> QED BY <2>1, <2>3, <3>1, <3>2 DEF SeedInv
  <2> QED BY <1>1, <2>2, <2>3, Committed
<1>2. ASSUME NEW w \in Worker, LookForAdmin(w) PROVE SeedInv'
  <2>0. UNCHANGED <<bootstrap, rows, admins>> /\ step[w] = "seeding" /\ asked[w] < bootstrap
    BY <1>2 DEF LookForAdmin, NothingStored, FreeToFlush
  <2>1. CASE Clashes(w)
    BY <1>2, <2>0, <2>1, NothingSeeded DEF LookForAdmin, NothingRead, To
  <2>2. CASE ~Clashes(w)
    <3> DEFINE n == asked[w] + 1
    <3>1. n \in 1..bootstrap /\ n \in 1..MaxAdmins
      BY <2>0, SeedAssumption DEF SeedInv
    <3>2. asked' = [asked EXCEPT ![w] = n] /\ asked'[w] = n /\ UNCHANGED <<step, missing>>
      BY <1>2, <2>2 DEF LookForAdmin, SeedInv
    <3>3. PICK e \in {"profile", "fallback"} : email' = [email EXCEPT ![w][n] = e]
      BY <1>2, <2>2, <3>2 DEF LookForAdmin
    <3>4. was' = [was EXCEPT ![w][n] = admins[n]]
      BY <1>2, <2>2, <3>2 DEF LookForAdmin
    <3>5. /\ asked' \in [Worker -> 0..bootstrap]
          /\ email' \in [Worker -> [1..MaxAdmins -> {"profile", "fallback"}]]
          /\ was' \in [Worker -> [1..MaxAdmins -> Admin \cup {NoRow}]]
      BY <3>1, <3>2, <3>3, <3>4 DEF SeedInv
    <3>6. ASSUME NEW v \in Worker, step'[v] = "seeding", NEW k \in 1..asked'[v]
          PROVE  StillRight(k, was[v][k])'
      <4>1. CASE v = w /\ k = n
        <5>1. was'[v][k] = admins[k]
          BY <3>1, <3>4, <4>1 DEF SeedInv
        <5> QED BY <2>0, <5>1 DEF StillRight
      <4>2. CASE ~(v = w /\ k = n)
        <5>1. was'[v][k] = was[v][k] /\ k \in 1..asked[v] /\ step[v] = "seeding"
          BY <3>1, <3>2, <3>4, <3>6, <4>2 DEF SeedInv
        <5> QED BY <2>0, <5>1 DEF StillRight, SeedInv
      <4> QED BY <4>1, <4>2
    <3> HIDE DEF n
    <3> QED BY <2>0, <3>2, <3>5, <3>6 DEF SeedInv
  <2> QED BY <2>1, <2>2
<1>3. ASSUME NEW w \in Worker, ReadRows(w) PROVE SeedInv'
  BY <1>3, SeedAssumption DEF ReadRows, To, NothingStored, SeedInv, StillRight
<1>4. ASSUME NEW w \in Worker,
             LookForTables(w) \/ CreateTables(w) \/ CommitTables(w) \/ Kill(w)
      PROVE  SeedInv'
  <2>1. /\ UNCHANGED <<bootstrap, rows, admins, missing, asked, was, email>>
        /\ \E s \in {"start", "create", "created", "seed", "failed"} :
             step' = [step EXCEPT ![w] = s]
    BY <1>4 DEF LookForTables, CreateTables, CommitTables, Kill, To, NothingStored, NothingRead
  <2> QED BY <2>1, NothingSeeded
<1>5. CASE UNCHANGED seedVars
  BY <1>5 DEF seedVars, SeedInv, StillRight
<1> QED BY <1>1, <1>2, <1>3, <1>4, <1>5 DEF SeedNext, StartUp

(* metadata.py, ensure_metadata_schema: whichever workers start together,  *)
(* clash or are killed, and however many administrators are configured,    *)
(* none included: factories and administrators come all at once, and a     *)
(* worker whose seeding succeeds leaves all of them there.                 *)
THEOREM SeedsAllOrNothing == SeedSpec => SeedIsWhole
<1>1. ASSUME SeedInv, [SeedNext]_seedVars
      PROVE  [/\ rows' # rows \/ admins' # admins => Seeded'
              /\ \A w \in Worker : step'[w] = "ready" /\ step[w] # "ready" => Seeded'
             ]_seedVars
  <2>1. ASSUME NEW w \in Worker, CommitRows(w)
        PROVE  /\ rows' # rows \/ admins' # admins => Seeded'
               /\ \A v \in Worker : step'[v] = "ready" /\ step[v] # "ready" => Seeded'
    <3>1. CASE UNCHANGED <<rows, admins>> /\ step' = [step EXCEPT ![w] = "failed"]
      BY <1>1, <3>1 DEF SeedInv
    <3>2. CASE Seeded'
      BY <3>2
    <3> QED BY <1>1, <2>1, <3>1, <3>2, Committed
  <2>2. ASSUME NEW w \in Worker,
               \/ LookForTables(w) \/ CreateTables(w) \/ CommitTables(w)
               \/ ReadRows(w) \/ LookForAdmin(w) \/ Kill(w)
        PROVE  /\ UNCHANGED <<rows, admins>>
               /\ \A v \in Worker : step'[v] = "ready" => step[v] = "ready"
    BY <1>1, <2>2 DEF LookForTables, CreateTables, CommitTables, ReadRows, LookForAdmin,
                      Kill, To, NothingStored, SeedInv
  <2> QED BY <1>1, <2>1, <2>2 DEF SeedNext, StartUp
<1>2. SeedInv /\ [SeedNext]_seedVars =>
        [/\ rows' # rows \/ admins' # admins => Seeded'
         /\ \A w \in Worker : step'[w] = "ready" /\ step[w] # "ready" => Seeded']_seedVars
  BY <1>1
<1> QED BY <1>2, SeedInvInit, SeedStep, PTL DEF SeedSpec, SeedIsWhole

-----------------------------------------------------------------------------
(* A set of natural numbers has a least one: the step from which what is   *)
(* chosen by Min and Max exists.                                           *)
Less == OpToRel(<, Nat)

LEMMA LeastNat ==
    ASSUME NEW T, T \subseteq Nat, T # {}
    PROVE  \E x \in T : \A y \in T : x <= y
<1>1. IsWellFoundedOn(Less, Nat)
  BY NatLessThanWellFounded DEF Less
<1>2. \A x, y \in Nat : y < x => <<y, x>> \in Less
  BY DEF Less, OpToRel
<1>3. PICK x \in T : \A y \in T : ~ (<<y, x>> \in Less)
  BY <1>1, WFMin
<1>4. \A y \in T : ~(y < x)
  BY <1>2, <1>3
<1> HIDE DEF Less
<1>5. \A y \in T : x <= y
  BY <1>4
<1> QED BY <1>5

LEMMA MinIs ==
    ASSUME NEW T, T \subseteq Nat, T # {}
    PROVE  Min(T) \in T /\ \A y \in T : Min(T) <= y
BY LeastNat DEF Min

LEMMA MaxIs ==
    ASSUME NEW n \in Nat, NEW T, T \subseteq 0..n, T # {}
    PROVE  Max(T) \in T /\ \A y \in T : y <= Max(T)
<1> DEFINE U == {n - y : y \in T}
<1>1. \A y \in T : y \in Int /\ y <= n /\ n - y \in Nat
  OBVIOUS
<1>2. U \subseteq Nat /\ U # {}
  BY <1>1
<1>3. PICK u \in U : \A v \in U : u <= v
  BY <1>2, LeastNat
<1>4. PICK x \in T : \A y \in T : x >= y
  <2>1. PICK x \in T : u = n - x
    OBVIOUS
  <2>2. ASSUME NEW y \in T PROVE x >= y
    <3>1. n - x <= n - y
      BY <1>3, <2>1
    <3> QED BY <1>1, <3>1
  <2> QED BY <2>2
<1>5. \E m \in T : \A y \in T : m >= y
  BY <1>4
<1>6. Max(T) \in T /\ \A y \in T : Max(T) >= y
  BY <1>5 DEF Max
<1> QED BY <1>6

-----------------------------------------------------------------------------
(* Hours of a time, by the one product that the prefixes multiply out to.  *)
LEMMA Monotone ==
    ASSUME NEW n \in Nat, NEW a \in Int, NEW b \in Int, a <= b
    PROVE  a * n <= b * n
<1>1. b - a \in Nat
  OBVIOUS
<1>2. (b - a) * n >= 0
  BY <1>1
<1>3. (b - a) * n = b * n - a * n
  OBVIOUS
<1> QED BY <1>2, <1>3

LEMMA Divided ==
    ASSUME NEW n \in Nat \ {0}, NEW a \in Int
    PROVE  /\ a \div n \in Int
           /\ (a \div n) * n <= a /\ a < (a \div n + 1) * n
<1>1. a \div n \in Int /\ a = n * (a \div n) + (a % n) /\ 0 <= a % n /\ a % n < n
  OBVIOUS
<1> QED BY <1>1

(* A time is in the hours from that of start to that of end when it is     *)
(* between the two.                                                        *)
LEMMA HourOfTime ==
    ASSUME NEW n \in Nat \ {0}, NEW h \in Int, NEW s \in 0..(n - 1), NEW a \in Int
    PROVE  /\ a <= h * n + s => a \div n <= h
           /\ h * n + s <= a => h <= a \div n
<1> DEFINE q == a \div n
<1>1. q \in Int /\ q * n <= a /\ a < (q + 1) * n
  BY Divided
<1> HIDE DEF q
<1>2. ASSUME a <= h * n + s, h + 1 <= q PROVE FALSE
  <2>1. (h + 1) * n <= q * n
    BY <1>1, <1>2, Monotone
  <2>2. (h + 1) * n = h * n + n
    OBVIOUS
  <2> QED BY <1>1, <1>2, <2>1, <2>2
<1>3. ASSUME h * n + s <= a, q + 1 <= h PROVE FALSE
  <2>1. (q + 1) * n <= h * n
    BY <1>1, <1>3, Monotone
  <2> QED BY <1>1, <1>3, <2>1
<1> QED BY <1>1, <1>2, <1>3 DEF q

-----------------------------------------------------------------------------
(* Requests of the bucket *)

LEMMA ObjectShape ==
    ASSUME NEW o \in Objects
    PROVE  /\ o.hour \in 0..Hours /\ o.dataset \in Datasets
           /\ \/ o.time = NoTime
              \/ \E s \in 0..(Hour - 1) : o.time = o.hour * Hour + s
           /\ o.stamp = NoTime \/ o.stamp \in Int
<1>1. CASE o \in [dataset: {"reports"}, hour: 0..Hours, name: {0}, time: {NoTime},
                  stamp: {NoTime}, body: Site]
  BY <1>1 DEF Datasets
<1>2. ASSUME NEW d \in Datasets \ {"reports"}, NEW h \in 0..Hours, NEW s \in Shapes,
             o = [dataset |-> d, hour |-> h, name |-> s.name,
                  time |-> IF s.time = NoTime THEN NoTime ELSE h * Hour + s.time,
                  stamp |-> IF s.stamp = NoTime THEN NoTime ELSE h * Hour + s.stamp,
                  body |-> s.body]
      PROVE  /\ o.hour \in 0..Hours /\ o.dataset \in Datasets
             /\ \/ o.time = NoTime
                \/ \E x \in 0..(Hour - 1) : o.time = o.hour * Hour + x
             /\ o.stamp = NoTime \/ o.stamp \in Int
  <2>1. h * Hour \in Int
    BY ObjectsAssumption
  <2>2. /\ o.hour = h /\ o.dataset = d
        /\ o.time = IF s.time = NoTime THEN NoTime ELSE h * Hour + s.time
        /\ o.stamp = IF s.stamp = NoTime THEN NoTime ELSE h * Hour + s.stamp
    BY <1>2
  <2>3. s.time = NoTime \/ s.time \in 0..(Hour - 1)
    BY ObjectsAssumption
  <2>4. s.stamp = NoTime \/ s.stamp \in Int
    BY ObjectsAssumption
  <2>5. o.time = NoTime \/ \E x \in 0..(Hour - 1) : o.time = o.hour * Hour + x
    BY <2>2, <2>3
  <2>6. o.stamp = NoTime \/ o.stamp \in Int
    BY <2>1, <2>2, <2>4
  <2> QED BY <2>2, <2>5, <2>6
<1> QED BY <1>1, <1>2 DEF Objects

FirstPrefixes == IF ask.dataset = "reports" THEN 0..Hours ELSE HourPrefixes(ask.start, ask.end)

AskType == ask.dataset \in Datasets /\ ask.start \in Nat /\ ask.end \in Nat

(* The prefixes of a request miss no candidate. *)
LEMMA PrefixesHold ==
    ASSUME AskType, NEW o \in Objects, o.dataset = ask.dataset, Candidate(o)
    PROVE  o.hour \in FirstPrefixes
<1> USE ObjectsAssumption, ObjectShape
<1> DEFINE h == o.hour
<1>1. h \in Int /\ h * Hour \in Int /\ (h + 1) * Hour = h * Hour + Hour
  OBVIOUS
<1>2. CASE ask.dataset = "reports"
  BY <1>2 DEF FirstPrefixes
<1>3. ASSUME ask.dataset # "reports", NEW s \in 0..(Hour - 1), NEW u \in 0..(Hour - 1),
             ask.start <= h * Hour + s, h * Hour + u <= ask.end
      PROVE  h \in FirstPrefixes
  <2>1. ask.start \in Int /\ ask.end \in Int
    BY DEF AskType
  <2>2. ask.start \div Hour \in Int /\ ask.end \div Hour \in Int
    BY <2>1, Divided
  <2>3. ask.start \div Hour <= h
    BY <1>1, <1>3, <2>1, HourOfTime
  <2>4. h <= ask.end \div Hour
    BY <1>1, <1>3, <2>1, HourOfTime
  <2> QED BY <1>1, <1>3, <2>2, <2>3, <2>4 DEF FirstPrefixes, HourPrefixes
<1>4. CASE ask.dataset = "images" /\ o.time = NoTime
  <2>1. ask.start <= h * Hour + 0 /\ h * Hour + 0 <= ask.end
    BY <1>1, <1>4 DEF Candidate, ImageInRange, AskType
  <2> QED BY <1>3, <1>4, <2>1
<1>5. CASE ask.dataset # "reports" /\ o.time # NoTime
  <2>1. PICK s \in 0..(Hour - 1) : o.time = h * Hour + s
    BY <1>5
  <2>2. ask.start <= h * Hour + s /\ h * Hour + s <= ask.end
    BY <1>1, <1>5, <2>1 DEF Candidate, ImageInRange, KeyTime, AskType, Datasets
  <2> QED BY <1>3, <1>5, <2>2
<1>6. ask.dataset \notin {"images", "reports"} => o.time # NoTime
  BY DEF Candidate, KeyTime, AskType
<1> QED BY <1>2, <1>4, <1>5, <1>6

(* The cut drops nothing that is before what it keeps. *)
Passed(o, some) == Cardinality(some) = MaxObjects /\ \A k \in some : ~Before(o, k)

(* What was listed, cut and read so far holds all that it should: an       *)
(* object that lasts is chosen, in a prefix still to come, or beyond the   *)
(* cut; then it is read, to be read, or beyond the cut.                    *)
ObjInv ==
    /\ AskType
    /\ bucket \subseteq Objects
    /\ lasting \subseteq bucket /\ \A o \in lasting : o.dataset = ask.dataset
    /\ chosen \subseteq Objects /\ \A o \in chosen : o.dataset = ask.dataset /\ Candidate(o)
    /\ found \subseteq Objects /\ \A o \in found : Candidate(o) /\ Kept(o)
    /\ prefixes \subseteq Nat
    /\ stage \in {"ask", "list"} => found = {}
    /\ stage = "ask" => chosen = {}
    /\ stage = "list" =>
         /\ \A k \in chosen, p \in prefixes : k.hour < p
         /\ \A o \in lasting : Candidate(o) =>
              \/ o \in chosen \/ o.hour \in prefixes
              \/ ask.dataset = "images" /\ prefixes = {} /\ Passed(o, chosen)
    /\ stage = "read" =>
         /\ ReadsBodies
         /\ \A o \in lasting : Candidate(o) /\ Kept(o) =>
              o \in found \/ o \in chosen \/ Passed(o, kept)
    /\ stage = "done" /\ ask.dataset # "reports" =>
         \A o \in lasting : \/ o \in Result \/ ~Candidate(o)
                            \/ ReadsBodies /\ ~Kept(o)
                            \/ Passed(o, kept)

LEMMA SameAsk ==
    ASSUME ask' = ask
    PROVE  /\ \A o : (Candidate(o)' <=> Candidate(o)) /\ (Kept(o)' <=> Kept(o))
           /\ \A a, b : Before(a, b)' <=> Before(a, b)
           /\ ReadsBodies' <=> ReadsBodies
           /\ AskType' <=> AskType
BY DEF Candidate, Kept, Before, ReadsBodies, AskType, ImageInRange, KeyTime, ObjectTime,
       KeyOrder

(* Each step keeps the invariant. *)
LEMMA ObjAsk == ASSUME ObjInv, AskObjects PROVE ObjInv'
<1> USE DEF ObjInv
<1>1. /\ ask' = ask /\ UNCHANGED <<bucket, chosen, kept, found>> /\ stage = "ask"
      /\ stage' \in {"forbidden", "refused", "list"}
      /\ prefixes' = FirstPrefixes
      /\ lasting' = {o \in bucket : o.dataset = ask.dataset}
  BY DEF AskObjects, FirstPrefixes
<1>2. FirstPrefixes \subseteq Nat
  <2>1. ask.start \div Hour \in Nat
    <3>1. ask.start \div Hour \in Int /\ ask.start < (ask.start \div Hour + 1) * Hour
      BY Divided, ObjectsAssumption DEF AskType
    <3>2. ASSUME ask.start \div Hour + 1 <= 0 PROVE FALSE
      <4>1. (ask.start \div Hour + 1) * Hour <= 0 * Hour
        BY <3>1, <3>2, Monotone, ObjectsAssumption
      <4> QED BY <3>1, <4>1, ObjectsAssumption DEF AskType
    <3> QED BY <3>1, <3>2
  <2>2. ask.end \div Hour \in Int
    BY Divided, ObjectsAssumption DEF AskType
  <2> QED BY <2>1, <2>2, ObjectsAssumption DEF FirstPrefixes, HourPrefixes
<1>3. \A o \in lasting' : Candidate(o) => o.hour \in prefixes'
  BY <1>1, PrefixesHold
<1> QED BY <1>1, <1>2, <1>3, SameAsk

LEMMA ObjList == ASSUME ObjInv, ListPrefix PROVE ObjInv'
<1> DEFINE h == Min(prefixes)
           here == {o \in bucket : o.dataset = ask.dataset /\ o.hour = h /\ Candidate(o)}
<1>1. /\ ask' = ask /\ stage = "list" /\ stage' = "list"
      /\ UNCHANGED <<bucket, kept, found, lasting>>
      /\ prefixes' = IF Full(chosen') THEN {} ELSE prefixes \ {h}
      /\ prefixes # {}
  BY DEF ListPrefix
<1>2. /\ bucket \subseteq Objects /\ lasting \subseteq bucket
      /\ chosen \subseteq Objects /\ prefixes \subseteq Nat
      /\ \A o \in chosen : o.dataset = ask.dataset /\ Candidate(o)
      /\ \A o \in lasting : o.dataset = ask.dataset
      /\ \A k \in chosen, p \in prefixes : k.hour < p
      /\ \A o \in lasting : Candidate(o) => o \in chosen \/ o.hour \in prefixes
  BY <1>1 DEF ObjInv
<1>3. h \in prefixes /\ \A p \in prefixes : h <= p
  BY <1>1, <1>2, MinIs
<1>30. h \in Nat /\ \A p \in prefixes \ {h} : p \in Nat /\ h < p
  <2>1. h \in Nat
    BY <1>2, <1>3
  <2>2. ASSUME NEW p \in prefixes, p # h PROVE p \in Nat /\ h < p
    <3>1. p \in Nat /\ h <= p
      BY <1>2, <1>3
    <3> QED BY <2>1, <2>2, <3>1
  <2> QED BY <2>1, <2>2
<1>4. \/ ask.dataset # "images" /\ chosen' = chosen \cup here
      \/ /\ ask.dataset = "images"
         /\ chosen' \subseteq chosen \cup here /\ IsCut(chosen', chosen \cup here)
  BY DEF ListPrefix
<1>5. /\ here \subseteq Objects /\ \A o \in here : o.dataset = ask.dataset /\ Candidate(o)
      /\ \A o \in here : o.hour = h
      /\ \A o \in lasting : Candidate(o) /\ o.hour = h => o \in here
  BY <1>2
<1> HIDE DEF h, here
<1>6. \A k \in chosen \cup here : k \in Objects /\ k.hour \in Nat /\ k.hour <= h
  <2>1. \A k \in chosen \cup here : k \in Objects /\ k.hour \in Nat
    BY <1>2, <1>5, ObjectShape
  <2>2. h \in Nat
    BY <1>2, <1>3
  <2>3. \A k \in chosen : k.hour < h
    BY <1>2, <1>3
  <2> QED BY <1>5, <2>1, <2>2, <2>3
<1>7. chosen' \subseteq chosen \cup here
  BY <1>4
<1>8. prefixes' \subseteq prefixes \ {h}
  BY <1>1
<1>9. \A k \in chosen', p \in prefixes' : k.hour < p
  <2>1. h \in Nat /\ \A p \in prefixes' : p \in Nat /\ h < p
    BY <1>30, <1>8
  <2> QED BY <1>6, <1>7, <2>1
<1>10. ASSUME NEW o \in lasting, Candidate(o)
       PROVE  \/ o \in chosen' \/ o.hour \in prefixes'
              \/ ask.dataset = "images" /\ prefixes' = {} /\ Passed(o, chosen')
  <2>1. o \in chosen \/ o \in here \/ (o.hour \in prefixes /\ o.hour # h)
    BY <1>2, <1>5, <1>10
  <2>2. CASE ~Full(chosen')
    <3>1. chosen' = chosen \cup here
      BY <1>4, <2>2 DEF IsCut, Full
    <3>2. prefixes' = prefixes \ {h}
      BY <1>1, <2>2
    <3> QED BY <2>1, <3>1, <3>2
  <2>3. CASE Full(chosen')
    <3>1. ask.dataset = "images" /\ Cardinality(chosen') = MaxObjects /\ prefixes' = {}
      BY <1>1, <2>3 DEF Full
    <3>2. \A x \in (chosen \cup here) \ chosen', k \in chosen' : ~Before(x, k)
      BY <1>4, <3>1 DEF IsCut
    <3>3. ASSUME o.hour \in prefixes, o.hour # h PROVE \A k \in chosen' : ~Before(o, k)
      <4>1. \A k \in chosen' : k.hour \in Nat /\ o.hour \in Nat /\ k.hour < o.hour
        <5>1. o.hour \in Nat /\ h \in Nat /\ h < o.hour
          BY <1>30, <3>3
        <5> QED BY <1>6, <1>7, <5>1
      <4> QED BY <3>1, <4>1 DEF Before, ReadsBodies, KeyOrder
    <3> QED BY <2>1, <3>1, <3>2, <3>3 DEF Passed
  <2> QED BY <2>2, <2>3
<1>11. \A o \in lasting' : Candidate(o)' =>
         \/ o \in chosen' \/ o.hour \in prefixes'
         \/ ask'.dataset = "images" /\ prefixes' = {} /\ Passed(o, chosen)'
  BY <1>1, <1>10, SameAsk DEF Passed
<1>12. chosen' \subseteq Objects /\ \A o \in chosen' : o.dataset = ask.dataset /\ Candidate(o)
  BY <1>2, <1>5, <1>7
<1>13. prefixes' \subseteq Nat
  BY <1>2, <1>8
<1> QED BY <1>1, <1>2, <1>9, <1>11, <1>12, <1>13, SameAsk DEF ObjInv

LEMMA ObjListEnds == ASSUME ObjInv, ListEnds PROVE ObjInv'
<1>1. /\ ask' = ask /\ UNCHANGED <<bucket, prefixes, found, lasting>>
      /\ stage = "list" /\ prefixes = {} /\ kept' = chosen'
  BY DEF ListEnds
<1>2. /\ bucket \subseteq Objects /\ lasting \subseteq bucket
      /\ \A o \in lasting : o.dataset = ask.dataset
      /\ chosen \subseteq Objects /\ found = {} /\ prefixes \subseteq Nat
      /\ \A o \in chosen : o.dataset = ask.dataset /\ Candidate(o)
      /\ \A o \in lasting : Candidate(o) =>
           o \in chosen \/ (ask.dataset = "images" /\ Passed(o, chosen))
  BY <1>1 DEF ObjInv
<1>3. CASE ReadsBodies
  <2>1. stage' = "read" /\ chosen' \subseteq chosen /\ IsCut(chosen', chosen)
    BY <1>3 DEF ListEnds
  <2>2. ask.dataset # "images"
    BY <1>3 DEF ReadsBodies
  <2>3. \A o \in lasting : Candidate(o) => o \in chosen' \/ Passed(o, chosen')
    BY <1>2, <2>1, <2>2 DEF IsCut, Passed
  <2>4. \A o \in lasting : Passed(o, chosen') => Passed(o, kept)'
    BY <1>1, SameAsk DEF Passed
  <2> QED BY <1>1, <1>2, <1>3, <2>1, <2>3, <2>4, SameAsk DEF ObjInv
<1>4. CASE ~ReadsBodies
  <2>1. stage' = "done" /\ chosen' = chosen
    BY <1>4 DEF ListEnds
  <2>2. ask.dataset # "reports" => ask.dataset = "images"
    BY <1>4 DEF ObjInv, AskType, ReadsBodies, Datasets
  <2>3. ask.dataset = "images" => Result' = chosen
    BY <1>1, <2>1 DEF Result
  <2>4. \A o \in lasting : Passed(o, chosen) => Passed(o, kept)'
    BY <1>1, <2>1, SameAsk DEF Passed
  <2> QED BY <1>1, <1>2, <2>1, <2>2, <2>3, <2>4, SameAsk DEF ObjInv
<1> QED BY <1>3, <1>4

LEMMA ObjRead == ASSUME ObjInv, ReadObject PROVE ObjInv'
<1>1. /\ ask' = ask /\ UNCHANGED <<bucket, prefixes, kept, lasting>> /\ stage = "read"
  BY DEF ReadObject
<1>2. /\ bucket \subseteq Objects /\ lasting \subseteq bucket
      /\ \A o \in lasting : o.dataset = ask.dataset
      /\ chosen \subseteq Objects /\ found \subseteq Objects /\ prefixes \subseteq Nat
      /\ \A o \in chosen : o.dataset = ask.dataset /\ Candidate(o)
      /\ \A o \in found : Candidate(o) /\ Kept(o)
      /\ \A o \in lasting : Candidate(o) /\ Kept(o) =>
           o \in found \/ o \in chosen \/ Passed(o, kept)
      /\ ReadsBodies /\ AskType
  BY <1>1 DEF ObjInv
<1>3. PICK o \in chosen :
        /\ chosen' = chosen \ {o}
        /\ IF o \in bucket
           THEN found' = (IF Kept(o) THEN found \cup {o} ELSE found) /\ UNCHANGED stage
           ELSE stage' = "gone" /\ UNCHANGED found
  BY DEF ReadObject
<1>4. /\ found' \subseteq Objects
      /\ \A x \in found' : Candidate(x) /\ Kept(x)
      /\ stage' \in {"read", "gone"}
  BY <1>1, <1>2, <1>3
<1>5. stage' = "read" => \A x \in lasting : Candidate(x) /\ Kept(x) =>
        x \in found' \/ x \in chosen' \/ Passed(x, kept)
  BY <1>2, <1>3
<1>6. \A x : Passed(x, kept)' <=> Passed(x, kept)
  BY <1>1, SameAsk DEF Passed
<1>7. chosen' \subseteq Objects /\ \A x \in chosen' : x.dataset = ask.dataset /\ Candidate(x)
  BY <1>2, <1>3
<1> QED BY <1>1, <1>2, <1>4, <1>5, <1>6, <1>7, SameAsk DEF ObjInv

LEMMA ObjReadEnds == ASSUME ObjInv, ReadEnds PROVE ObjInv'
<1>1. /\ ask' = ask /\ UNCHANGED <<bucket, prefixes, chosen, kept, found, lasting>>
      /\ stage = "read" /\ stage' = "done" /\ chosen = {}
  BY DEF ReadEnds
<1>2. ReadsBodies => Result' = found
  BY <1>1 DEF ReadsBodies, Result
<1>3. \A x : Passed(x, kept)' <=> Passed(x, kept)
  BY <1>1, SameAsk DEF Passed
<1> QED BY <1>1, <1>2, <1>3, SameAsk DEF ObjInv

LEMMA ObjOther ==
    ASSUME ObjInv, S3Fails \/ Change \/ UNCHANGED objectVars
    PROVE  ObjInv'
<1>1. /\ ask' = ask /\ UNCHANGED <<prefixes, chosen, kept, found>>
      /\ stage' = stage \/ stage' = "unavailable"
  BY DEF S3Fails, Change, objectVars
<1>2. /\ bucket' \subseteq Objects /\ lasting' \subseteq bucket' /\ lasting' \subseteq lasting
  BY DEF S3Fails, Change, objectVars, ObjInv
<1>3. /\ \A x : Passed(x, chosen)' <=> Passed(x, chosen)
      /\ \A x : Passed(x, kept)' <=> Passed(x, kept)
  BY <1>1, SameAsk DEF Passed
<1>4. (Result' = Result) \/ stage' = "unavailable" \/ stage' # "done" \/ ask.dataset = "reports"
  BY <1>1 DEF Result
<1> QED BY <1>1, <1>2, <1>3, <1>4, SameAsk DEF ObjInv

LEMMA ObjStep == ObjInv /\ [ObjectsNext]_objectVars => ObjInv'
BY ObjAsk, ObjList, ObjListEnds, ObjRead, ObjReadEnds, ObjOther DEF ObjectsNext

LEMMA ObjInit == ObjectsInit => ObjInv
<1> SUFFICES ASSUME ObjectsInit PROVE ObjInv
  OBVIOUS
<1>1. ask.dataset \in Datasets /\ ask.start \in Nat /\ ask.end \in Nat
  BY DEF ObjectsInit
<1> QED BY <1>1 DEF ObjectsInit, ObjInv, AskType

LEMMA InWindow == ObjInv => ResultInWindow
<1> SUFFICES ASSUME ObjInv, ask.dataset # "reports", stage = "done", NEW o \in Result
             PROVE  ask.start <= Moment(o) /\ Moment(o) <= ask.end
  BY DEF ResultInWindow
<1>1. AskType /\ o \in Objects /\ Candidate(o) /\ (ask.dataset # "images" => Kept(o))
  BY DEF ObjInv, Result
<1>2. CASE ask.dataset = "processed"
  BY <1>1, <1>2 DEF Moment, Kept
<1>3. CASE ask.dataset = "metrics_5m"
  <2>1. o.time # NoTime /\ ask.start <= o.time /\ o.time < ask.end
    BY <1>1, <1>3 DEF Candidate, KeyTime
  <2>2. o.time \in Int
    BY <1>1, <2>1, ObjectShape, ObjectsAssumption
  <2> QED BY <1>1, <1>3, <2>1, <2>2 DEF Moment, AskType
<1>4. CASE ask.dataset = "images"
  <2>1. o.time = NoTime =>
          /\ ask.start <= o.hour * Hour /\ (o.hour + 1) * Hour <= ask.end
          /\ o.hour * Hour \in Int /\ (o.hour + 1) * Hour = o.hour * Hour + Hour
    BY <1>1, <1>4, ObjectShape, ObjectsAssumption DEF Candidate, ImageInRange
  <2>2. o.time # NoTime => ask.start <= o.time /\ o.time <= ask.end
    BY <1>1, <1>4 DEF Candidate, ImageInRange
  <2> QED BY <1>1, <1>4, <2>1, <2>2, ObjectsAssumption DEF Moment, AskType
<1> QED BY <1>1, <1>2, <1>3, <1>4 DEF AskType, Datasets

(* The hours that the picker is offered begin and end with an image, and   *)
(* an hour holds each of its times.                                        *)
LEMMA RangeHolds == ObjInv => RangeHoldsEveryImage
<1> SUFFICES ASSUME ObjInv, NEW o \in bucket, o.dataset = "images"
             PROVE  ImageInRange(o, ImageRange[1] * Hour, (ImageRange[2] + 1) * Hour)
  BY DEF RangeHoldsEveryImage
<1> DEFINE hours == {x.hour : x \in {y \in bucket : y.dataset = "images"}}
<1>1. hours \subseteq 0..Hours /\ o.hour \in hours
  BY ObjectShape DEF ObjInv
<1>2. ImageRange = <<Min(hours), Max(hours)>>
  BY <1>1 DEF ImageRange
<1> HIDE DEF hours
<1>3. hours \subseteq Nat /\ hours # {} /\ o.hour \in Nat
  <2>1. 0..Hours \subseteq Nat
    BY ObjectsAssumption
  <2> QED BY <1>1, <2>1
<1>4. Min(hours) \in Nat /\ Min(hours) <= o.hour
  BY <1>1, <1>3, MinIs
<1>5. Max(hours) \in Nat /\ o.hour <= Max(hours)
  BY <1>1, <1>3, MaxIs, ObjectsAssumption
<1>6. /\ Min(hours) * Hour <= o.hour * Hour
      /\ (o.hour + 1) * Hour <= (Max(hours) + 1) * Hour
  BY <1>3, <1>4, <1>5, Monotone, ObjectsAssumption
<1>7. o.time = NoTime \/ \E s \in 0..(Hour - 1) : o.time = o.hour * Hour + s
  BY ObjectShape DEF ObjInv
<1>8. /\ o.hour * Hour \in Int /\ (o.hour + 1) * Hour = o.hour * Hour + Hour
      /\ Min(hours) * Hour \in Int /\ (Max(hours) + 1) * Hour \in Int
  BY <1>3, <1>4, <1>5, ObjectsAssumption
<1>9. ImageInRange(o, Min(hours) * Hour, (Max(hours) + 1) * Hour)
  BY <1>6, <1>7, <1>8, ObjectsAssumption DEF ImageInRange
<1> QED BY <1>2, <1>9

(* s3.py: whatever is written and removed while a request lists and reads, *)
(* it gets only objects of its window, and misses none that was there all  *)
(* the time but those beyond max_objects: the newest of what is read, the  *)
(* last by hour and file name of the images.                               *)
THEOREM WindowKept == ObjectsSpec => []WindowIsKept
<1>1. ObjInv => CutDropsTheLast
  BY DEF ObjInv, CutDropsTheLast, Passed
<1>2. ObjInv => WindowIsKept
  BY <1>1, InWindow, RangeHolds DEF WindowIsKept
<1> QED BY <1>2, ObjInit, ObjStep, PTL DEF ObjectsSpec

(* reports.py: list_reports and get_report decide in their own words, and  *)
(* agree for every principal and every report.                             *)
THEOREM ReportsAgree == ObjectsSpec => []ListAndGetAgree
<1>1. \A o : (Visible(o) <=> MayGet(ask.who, o.body))
  BY DEF Visible, MayGet
<1>2. ListAndGetAgree
  BY <1>1 DEF ListAndGetAgree, Result
<1> QED BY <1>2, PTL
-----------------------------------------------------------------------------
(* A finite set of numbers has an ascending enumeration: each number at    *)
(* the place that counts those up to it.                                   *)
LEMMA AscendingIs ==
    ASSUME NEW ts, ts \subseteq Int, IsFiniteSet(ts)
    PROVE  /\ Cardinality(ts) \in Nat
           /\ Ascending(ts) \in [1..Cardinality(ts) -> ts]
           /\ \A i, j \in 1..Cardinality(ts) : i < j => Ascending(ts)[i] < Ascending(ts)[j]
           /\ \A t \in ts : \E i \in 1..Cardinality(ts) : Ascending(ts)[i] = t
<1> DEFINE n == Cardinality(ts)
           UpTo(t) == {u \in ts : u <= t}
           rank == [t \in ts |-> Cardinality(UpTo(t))]
<1>1. n \in Nat
  BY FS_CardinalityType
<1>2. \A t \in ts : IsFiniteSet(UpTo(t)) /\ Cardinality(UpTo(t)) \in 1..n
  <2> TAKE t \in ts
  <2>1. UpTo(t) \in SUBSET ts /\ UpTo(t) # {}
    OBVIOUS
  <2>2. IsFiniteSet(UpTo(t)) /\ Cardinality(UpTo(t)) <= n
    BY <2>1, FS_Subset
  <2>3. Cardinality(UpTo(t)) \in Nat /\ Cardinality(UpTo(t)) # 0
    BY <2>1, <2>2, FS_CardinalityType, FS_EmptySet
  <2> HIDE DEF UpTo
  <2> QED BY <1>1, <2>2, <2>3
<1>3. \A t, u \in ts : t < u => rank[t] < rank[u]
  <2> SUFFICES ASSUME NEW t \in ts, NEW u \in ts, t < u
               PROVE  Cardinality(UpTo(t)) < Cardinality(UpTo(u))
    OBVIOUS
  <2>1. \A x \in ts : x \in Int /\ (x <= t => x <= u)
    OBVIOUS
  <2>2. UpTo(t) \in SUBSET UpTo(u) /\ u \in UpTo(u) /\ u \notin UpTo(t)
    <3>1. UpTo(t) \in SUBSET UpTo(u)
      BY <2>1
    <3>2. t \in Int /\ u \in Int
      BY <2>1
    <3>3. u <= u /\ ~(u <= t)
      BY <3>2
    <3> QED BY <3>1, <3>3
  <2>3. Cardinality(UpTo(t)) <= Cardinality(UpTo(u)) /\ Cardinality(UpTo(t)) # Cardinality(UpTo(u))
    BY <1>2, <2>2, FS_Subset
  <2> HIDE DEF UpTo
  <2> QED BY <1>1, <1>2, <2>3
<1>4. rank \in [ts -> 1..n]
  BY <1>2
<1> HIDE DEF rank, UpTo
<1>5. rank \in Injection(ts, 1..n)
  <2>1. ASSUME NEW t \in ts, NEW u \in ts, rank[t] = rank[u] PROVE t = u
    <3>1. rank[t] \in Int
      BY <1>1, <1>4
    <3>2. ~(t < u) /\ ~(u < t)
      BY <1>3, <2>1, <3>1
    <3> QED BY <3>2
  <2> QED BY <1>4, <2>1 DEF Injection, IsInjective
<1>6. IsFiniteSet(1..n) /\ Cardinality(1..n) = n
  BY <1>1, FS_Interval
<1>7. rank \in Surjection(ts, 1..n)
  BY <1>5, <1>6, FS_Injection
<1> DEFINE place == [i \in 1..n |-> CHOOSE t \in ts : rank[t] = i]
<1>8. \A i \in 1..n : place[i] \in ts /\ rank[place[i]] = i
  <2>1. \A i \in 1..n : \E t \in ts : rank[t] = i
    BY <1>7 DEF Surjection
  <2> QED BY <2>1
<1>9. place \in [1..n -> ts] /\ DOMAIN place = 1..n
  BY <1>8
<1> HIDE DEF place
<1>10. \A i, j \in DOMAIN place : i < j => place[i] < place[j]
  <2> SUFFICES ASSUME NEW i \in 1..n, NEW j \in 1..n, i < j, ~(place[i] < place[j])
               PROVE  FALSE
    BY <1>9
  <2>1. place[i] \in ts /\ place[j] \in ts /\ place[i] \in Int /\ place[j] \in Int
    BY <1>8
  <2>2. CASE place[i] = place[j]
    <3>1. i = j
      BY <1>8, <2>2
    <3> QED BY <1>1, <3>1
  <2>3. CASE place[j] < place[i]
    <3>1. j < i
      BY <1>3, <1>8, <2>1, <2>3
    <3> QED BY <1>1, <3>1
  <2> QED BY <2>1, <2>2, <2>3
<1> DEFINE s == Ascending(ts)
<1>11. s \in [1..n -> ts] /\ \A i, j \in DOMAIN s : i < j => s[i] < s[j]
  BY <1>9, <1>10 DEF Ascending
<1> HIDE DEF s
<1>12. DOMAIN s = 1..n
  BY <1>11
<1>13. \A i, j \in 1..n : i # j => s[i] # s[j]
  <2> TAKE i \in 1..n, j \in 1..n
  <2>1. s[i] \in Int /\ s[j] \in Int
    BY <1>11
  <2> QED BY <1>1, <1>11, <1>12, <2>1
<1>14. s \in Injection(1..n, ts)
  BY <1>11, <1>12, <1>13 DEF Injection, IsInjective
<1>15. s \in Surjection(1..n, ts)
  BY <1>6, <1>14, FS_Injection
<1>16. \A t \in ts : \E i \in 1..n : s[i] = t
  BY <1>15 DEF Surjection
<1> QED BY <1>1, <1>11, <1>12, <1>16 DEF s

(* One timestamp comes after another in the order of the pages. *)
After(t, u) == IF NewestFirst THEN u < t ELSE t < u

LEMMA OrderedIs ==
    ASSUME NEW ts, ts \subseteq Int, IsFiniteSet(ts)
    PROVE  /\ Cardinality(ts) \in Nat
           /\ Ordered(ts) \in Seq(ts) /\ Len(Ordered(ts)) = Cardinality(ts)
           /\ \A i, j \in 1..Cardinality(ts) : i < j => After(Ordered(ts)[i], Ordered(ts)[j])
           /\ \A t \in ts : \E i \in 1..Cardinality(ts) : Ordered(ts)[i] = t
<1> DEFINE n == Cardinality(ts)
           s == Ascending(ts)
           r == [i \in 1..n |-> s[(n - i) + 1]]
<1>1. /\ n \in Nat /\ s \in [1..n -> ts]
      /\ \A i, j \in 1..n : i < j => s[i] < s[j]
      /\ \A t \in ts : \E i \in 1..n : s[i] = t
  BY AscendingIs
<1> HIDE DEF n, s
<1>2. s \in Seq(ts) /\ Len(s) = n
  BY <1>1
<1>3. \A i \in 1..n : (n - i) + 1 \in 1..n /\ (n - ((n - i) + 1)) + 1 = i
  BY <1>1
<1>4. r \in [1..n -> ts] /\ \A i \in 1..n : r[i] = s[(n - i) + 1]
  BY <1>1, <1>3
<1>5. Reverse(s) = r
  BY <1>2 DEF Reverse
<1> HIDE DEF r
<1>6. r \in Seq(ts) /\ Len(r) = n
  BY <1>1, <1>4
<1>7. \A i, j \in 1..n : i < j => r[j] < r[i]
  <2> SUFFICES ASSUME NEW i \in 1..n, NEW j \in 1..n, i < j
               PROVE  s[(n - j) + 1] < s[(n - i) + 1]
    BY <1>4
  <2>1. (n - j) + 1 < (n - i) + 1
    BY <1>1
  <2> QED BY <1>1, <1>3, <2>1
<1>8. \A t \in ts : \E i \in 1..n : r[i] = t
  <2> TAKE t \in ts
  <2>1. PICK i \in 1..n : s[i] = t
    BY <1>1
  <2>2. (n - i) + 1 \in 1..n /\ r[(n - i) + 1] = t
    BY <1>3, <1>4, <2>1
  <2> QED BY <2>2
<1>9. Ordered(ts) = IF NewestFirst THEN r ELSE s
  BY <1>5 DEF Ordered, s
<1>10. CASE NewestFirst
  BY <1>1, <1>6, <1>7, <1>8, <1>9, <1>10 DEF After, n
<1>11. CASE ~NewestFirst
  BY <1>1, <1>2, <1>9, <1>11 DEF After, n
<1> QED BY <1>10, <1>11

(* What SetToSeq chooses has each element of the set once. *)
LEMMA SetToSeqIs ==
    ASSUME NEW S, IsFiniteSet(S)
    PROVE  SetToSeq(S) \in Seq(S) /\ IsInjective(SetToSeq(S)) /\ ToSet(SetToSeq(S)) = S
<1> DEFINE n == Cardinality(S)
           s == SetToSeq(S)
<1>1. n \in Nat /\ ExistsBijection(1..n, S)
  BY FS_CardinalityType
<1>2. PICK f \in Bijection(1..n, S) : TRUE
  BY <1>1 DEF ExistsBijection
<1>3. f \in [1..n -> S] /\ IsInjective(f)
  BY <1>2 DEF Bijection, Injection, IsInjective
<1>4. s \in [1..n -> S] /\ IsInjective(s)
  BY <1>3 DEF SetToSeq
<1> HIDE DEF s
<1>5. IsFiniteSet(1..n) /\ Cardinality(1..n) = n
  BY <1>1, FS_Interval
<1>6. s \in Injection(1..n, S)
  BY <1>4 DEF Injection, IsInjective
<1>7. s \in Surjection(1..n, S)
  BY <1>5, <1>6, FS_Injection
<1>8. ToSet(s) = S
  BY <1>4, <1>7 DEF ToSet, Surjection
<1>9. s \in Seq(S)
  BY <1>1, <1>4
<1> QED BY <1>4, <1>8, <1>9 DEF s

(* r has the buckets of s that pass, in their order: the i-th is at p[i].  *)
Keeps(r, s, p, k) ==
    /\ Len(r) = k
    /\ \A i, j \in 1..k : i < j => p[i] < p[j]
    /\ \A i \in 1..k : r[i] = s[p[i]] /\ Passes(s[p[i]])
    /\ \A j \in 1..Len(s) : Passes(s[j]) => \E i \in 1..k : p[i] = j

LEMMA FilterIs ==
    ASSUME NEW S, NEW buckets \in Seq(S)
    PROVE  /\ Filter(buckets) \in Seq(S)
           /\ \E k \in Nat : \E p \in [1..k -> 1..Len(buckets)] : Keeps(Filter(buckets), buckets, p, k)
<1> DEFINE n == Len(buckets)
           K == {i \in DOMAIN buckets : Passes(buckets[i])}
           k == Cardinality(K)
           p == Ascending(K)
<1>1. n \in Nat /\ DOMAIN buckets = 1..n /\ \A i \in 1..n : buckets[i] \in S
  OBVIOUS
<1>2. K \in SUBSET (1..n) /\ K \subseteq Int
  BY <1>1
<1>3. IsFiniteSet(K)
  <2>1. IsFiniteSet(1..n)
    BY <1>1, FS_Interval
  <2> QED BY <1>2, <2>1, FS_Subset
<1>4. \A j \in K : j \in 1..n /\ Passes(buckets[j])
  BY <1>1
<1>5. \A j \in 1..n : Passes(buckets[j]) => j \in K
  BY <1>1
<1>6. Filter(buckets) = [i \in DOMAIN p |-> buckets[p[i]]]
  BY DEF Filter
<1> HIDE DEF K
<1>7. /\ k \in Nat /\ p \in [1..k -> K]
      /\ \A i, j \in 1..k : i < j => p[i] < p[j]
      /\ \A t \in K : \E i \in 1..k : p[i] = t
  BY <1>2, <1>3, AscendingIs
<1> HIDE DEF k, p
<1>8. p \in [1..k -> 1..n]
  BY <1>4, <1>7
<1> DEFINE r == [i \in DOMAIN p |-> buckets[p[i]]]
<1>9. r \in [1..k -> S] /\ \A i \in 1..k : r[i] = buckets[p[i]] /\ Passes(buckets[p[i]])
  BY <1>1, <1>4, <1>7
<1>10. Filter(buckets) = r
  BY <1>6
<1> HIDE DEF r
<1>11. r \in Seq(S) /\ Len(r) = k
  BY <1>7, <1>9
<1>12. \A j \in 1..n : Passes(buckets[j]) => \E i \in 1..k : p[i] = j
  BY <1>5, <1>7
<1>13. Keeps(r, buckets, p, k)
  BY <1>7, <1>9, <1>11, <1>12 DEF Keeps
<1> QED BY <1>7, <1>8, <1>10, <1>11, <1>13

(* A sequence cut at a length is its beginning. *)
LEMMA CutIs ==
    ASSUME NEW S, NEW s \in Seq(S), NEW n \in Nat
    PROVE  LET c == SubSeq(s, 1, Min({n, Len(s)})) IN
           /\ c \in Seq(S) /\ Len(c) \in Nat
           /\ Len(c) = IF n <= Len(s) THEN n ELSE Len(s)
           /\ \A i \in 1..Len(c) : i <= Len(s) /\ c[i] = s[i]
<1> DEFINE k == Len(s)
           m == Min({n, k})
           c == SubSeq(s, 1, m)
<1>1. k \in Nat /\ s \in [1..k -> S]
  OBVIOUS
<1> HIDE DEF k
<1>2. m \in {n, k} /\ \A y \in {n, k} : m <= y
  <2>1. {n, k} \subseteq Nat /\ {n, k} # {}
    BY <1>1
  <2> HIDE DEF m
  <2> QED BY <2>1, MinIs DEF m
<1> HIDE DEF m
<1>3. m \in Nat /\ m <= k /\ m = IF n <= k THEN n ELSE k
  BY <1>1, <1>2
<1>4. \A i \in 1..m : i \in 1..k /\ s[i] \in S
  BY <1>1, <1>3
<1>5. /\ c \in Seq(S) /\ Len(c) = IF 1 <= m THEN m - 1 + 1 ELSE 0
      /\ \A i \in 1..(m - 1 + 1) : c[i] = s[1 + i - 1]
  BY <1>3, <1>4, SubSeqProperties
<1> HIDE DEF c
<1>6. Len(c) = m
  BY <1>3, <1>5
<1>7. \A i \in 1..m : i <= k /\ c[i] = s[i]
  <2> TAKE i \in 1..m
  <2>1. i \in 1..(m - 1 + 1) /\ 1 + i - 1 = i
    BY <1>3
  <2> QED BY <1>4, <1>5, <2>1
<1>8. /\ c \in Seq(S) /\ Len(c) \in Nat
      /\ Len(c) = IF n <= k THEN n ELSE k
      /\ \A i \in 1..Len(c) : i <= k /\ c[i] = s[i]
  BY <1>3, <1>5, <1>6, <1>7
<1> QED BY <1>8 DEF c, m, k

(* The place where a group of n ends. *)
Ends(s, n, g) == IF g * n <= Len(s) THEN g * n ELSE Len(s)

LEMMA ReaggregateIs ==
    ASSUME NEW S, NEW s \in Seq(S), NEW n \in {1, 2, 4}
    PROVE  LET m == (Len(s) + n - 1) \div n
               r == Reaggregate(s, n)
           IN /\ m \in Nat
              /\ r \in Seq({r[g] : g \in 1..m}) /\ Len(r) = m
              /\ \A g \in 1..m :
                   /\ (g - 1) * n + 1 \in 1..Len(s) /\ Ends(s, n, g) \in 1..Len(s)
                   /\ (g - 1) * n + 1 <= Ends(s, n, g)
                   /\ r[g] = Merge(SubSeq(s, (g - 1) * n + 1, Ends(s, n, g)))
                   /\ r[g].from = s[(g - 1) * n + 1].from /\ r[g].to = s[Ends(s, n, g)].to
<1> DEFINE m == (Len(s) + n - 1) \div n
           r == Reaggregate(s, n)
           group(g) == SubSeq(s, (g - 1) * n + 1, Min({g * n, Len(s)}))
<1>1. Len(s) \in Nat /\ n \in Nat
  OBVIOUS
<1>2. m \in Nat /\ m * n <= Len(s) + n - 1
  BY <1>1
<1>3. r = [g \in 1..m |-> Merge(group(g))]
  BY DEF Reaggregate
<1> HIDE DEF m, group
<1>4. r \in [1..m -> {r[g] : g \in 1..m}]
  BY <1>3
<1> HIDE DEF r
<1>5. r \in Seq({r[g] : g \in 1..m}) /\ Len(r) = m
  BY <1>2, <1>4
<1>6. ASSUME NEW g \in 1..m
      PROVE  /\ (g - 1) * n + 1 \in 1..Len(s) /\ Ends(s, n, g) \in 1..Len(s)
             /\ (g - 1) * n + 1 <= Ends(s, n, g)
             /\ r[g] = Merge(SubSeq(s, (g - 1) * n + 1, Ends(s, n, g)))
             /\ r[g].from = s[(g - 1) * n + 1].from /\ r[g].to = s[Ends(s, n, g)].to
  <2> DEFINE a == (g - 1) * n + 1
             b == Ends(s, n, g)
             c == SubSeq(s, a, b)
  <2>1. g \in Nat /\ g >= 1 /\ g <= m
    BY <1>2
  <2>2. a \in Nat /\ a >= 1 /\ a <= Len(s) /\ g * n \in Nat /\ a <= g * n
    BY <1>1, <1>2, <2>1
  <2>3. b \in 1..Len(s) /\ a <= b
    BY <1>1, <2>2 DEF Ends
  <2>4. Min({g * n, Len(s)}) = b
    <3>1. {g * n, Len(s)} \subseteq Nat /\ {g * n, Len(s)} # {}
      BY <1>1, <2>2
    <3>2. Min({g * n, Len(s)}) \in {g * n, Len(s)} /\ \A y \in {g * n, Len(s)} : Min({g * n, Len(s)}) <= y
      BY <3>1, MinIs
    <3>3. CASE g * n <= Len(s)
      BY <1>1, <2>2, <3>2, <3>3 DEF Ends
    <3>4. CASE ~(g * n <= Len(s))
      BY <1>1, <2>2, <3>2, <3>4 DEF Ends
    <3> QED BY <3>3, <3>4
  <2> HIDE DEF a, b
  <2>5. group(g) = c
    BY <2>4 DEF group, a
  <2>6. a \in 1..Len(s) /\ b \in a..Len(s)
    BY <1>1, <2>2, <2>3
  <2>7. Head(c) = s[a]
    BY <2>6, HeadTailOfSubSeq
  <2>8. Len(c) = b - a + 1 /\ c[b - a + 1] = s[b]
    <3>1. \A i \in a..b : s[i] \in S
      BY <1>1, <2>6
    <3>2. /\ Len(c) = IF a <= b THEN b - a + 1 ELSE 0
          /\ \A i \in 1..(b - a + 1) : c[i] = s[a + i - 1]
      BY <2>6, <3>1, SubSeqProperties
    <3>3. b - a + 1 \in 1..(b - a + 1) /\ a + (b - a + 1) - 1 = b
      BY <1>1, <2>6
    <3>4. c[b - a + 1] = s[b]
      BY <3>2, <3>3
    <3> HIDE DEF c
    <3> QED BY <2>6, <3>2, <3>4
  <2> HIDE DEF c
  <2>9. r[g] = Merge(c)
    BY <1>3, <2>5
  <2>10. r[g].from = s[a].from /\ r[g].to = s[b].to
    BY <2>7, <2>8, <2>9 DEF Merge
  <2> QED BY <2>3, <2>6, <2>9, <2>10 DEF a, b, c
<1> QED BY <1>2, <1>5, <1>6 DEF m, r

-----------------------------------------------------------------------------
(* Buckets that follow one another without overlapping. *)
Rises(s) ==
    /\ \A i \in 1..Len(s) : s[i].from \in Int /\ s[i].to \in Int /\ s[i].from <= s[i].to
    /\ \A i, j \in 1..Len(s) : i < j => s[i].from < s[j].from /\ s[i].to <= s[j].from

LEMMA ReaggregateRises ==
    ASSUME NEW S, NEW s \in Seq(S), NEW n \in {1, 2, 4}, Rises(s)
    PROVE  Rises(Reaggregate(s, n))
<1> DEFINE r == Reaggregate(s, n)
           m == Len(r)
           a(g) == (g - 1) * n + 1
           b(g) == Ends(s, n, g)
<1>1. /\ m \in Nat
      /\ \A g \in 1..m : /\ a(g) \in 1..Len(s) /\ b(g) \in 1..Len(s) /\ a(g) <= b(g)
                         /\ r[g].from = s[a(g)].from /\ r[g].to = s[b(g)].to
  <2> DEFINE q == (Len(s) + n - 1) \div n
  <2>1. /\ q \in Nat /\ Len(r) = q
        /\ \A g \in 1..q : /\ (g - 1) * n + 1 \in 1..Len(s) /\ Ends(s, n, g) \in 1..Len(s)
                           /\ (g - 1) * n + 1 <= Ends(s, n, g)
                           /\ r[g].from = s[(g - 1) * n + 1].from /\ r[g].to = s[Ends(s, n, g)].to
    BY ReaggregateIs
  <2> HIDE DEF q, r
  <2> QED BY <2>1
<1>2. Len(s) \in Nat
  OBVIOUS
<1>3. \A g, h \in 1..m : g < h => a(g) < a(h) /\ b(g) < a(h)
  <2> SUFFICES ASSUME NEW g \in 1..m, NEW h \in 1..m, g < h PROVE a(g) < a(h) /\ b(g) < a(h)
    OBVIOUS
  <2>1. g \in Int /\ h \in Int /\ g <= h - 1
    BY <1>1
  <2>2. g * n < a(h) /\ a(g) < a(h)
    BY <2>1
  <2>3. b(g) <= g * n
    BY <1>2, <2>1 DEF Ends
  <2>4. b(g) \in Int /\ a(h) \in Int /\ g * n \in Int
    BY <1>1, <2>1
  <2> QED BY <2>2, <2>3, <2>4
<1> HIDE DEF r, m, a, b
<1>4. ASSUME NEW g \in 1..m
      PROVE  r[g].from \in Int /\ r[g].to \in Int /\ r[g].from <= r[g].to
  <2>1. /\ s[a(g)].from \in Int /\ s[a(g)].to \in Int /\ s[a(g)].from <= s[a(g)].to
        /\ s[b(g)].from \in Int /\ s[b(g)].to \in Int /\ s[b(g)].from <= s[b(g)].to
    BY <1>1 DEF Rises
  <2>2. CASE a(g) = b(g)
    BY <1>1, <2>1, <2>2
  <2>3. CASE a(g) < b(g)
    <3>1. s[a(g)].from < s[b(g)].from
      BY <1>1, <2>3 DEF Rises
    <3> QED BY <1>1, <2>1, <3>1
  <2> QED BY <1>1, <1>2, <2>2, <2>3
<1>5. ASSUME NEW g \in 1..m, NEW h \in 1..m, g < h
      PROVE  r[g].from < r[h].from /\ r[g].to <= r[h].from
  <2>1. s[a(g)].from < s[a(h)].from /\ s[b(g)].to <= s[a(h)].from
    BY <1>1, <1>3, <1>5 DEF Rises
  <2> QED BY <1>1, <2>1
<1>6. Rises(r)
  BY <1>4, <1>5 DEF Rises, m
<1> QED BY <1>6 DEF r

LEMMA FilterRises ==
    ASSUME NEW S, NEW buckets \in Seq(S), Rises(buckets)
    PROVE  /\ Rises(Filter(buckets))
           /\ \A i \in 1..Len(Filter(buckets)) : Passes(Filter(buckets)[i])
<1> DEFINE r == Filter(buckets)
<1>1. PICK k \in Nat : \E p \in [1..k -> 1..Len(buckets)] : Keeps(r, buckets, p, k)
  BY FilterIs
<1>2. PICK p \in [1..k -> 1..Len(buckets)] : Keeps(r, buckets, p, k)
  BY <1>1
<1> HIDE DEF r
<1>3. /\ Len(r) = k
      /\ \A i, j \in 1..k : i < j => p[i] < p[j]
      /\ \A i \in 1..k : r[i] = buckets[p[i]] /\ Passes(buckets[p[i]])
  BY <1>2 DEF Keeps
<1>4. \A i \in 1..k : r[i].from \in Int /\ r[i].to \in Int /\ r[i].from <= r[i].to
  BY <1>3 DEF Rises
<1>5. ASSUME NEW i \in 1..k, NEW j \in 1..k, i < j
      PROVE  r[i].from < r[j].from /\ r[i].to <= r[j].from
  <2>1. p[i] \in 1..Len(buckets) /\ p[j] \in 1..Len(buckets) /\ p[i] < p[j]
    BY <1>3, <1>5
  <2>2. buckets[p[i]].from < buckets[p[j]].from /\ buckets[p[i]].to <= buckets[p[j]].from
    BY <2>1 DEF Rises
  <2> QED BY <1>3, <2>2
<1>6. Rises(r)
  BY <1>3, <1>4, <1>5 DEF Rises
<1>7. \A i \in 1..Len(r) : Passes(r[i])
  BY <1>3
<1> QED BY <1>6, <1>7 DEF r

(* What rises and passes is an answer as it should be. *)
LEMMA RisingAnswer ==
    ASSUME NEW S, NEW s \in Seq(S), Rises(s), \A i \in 1..Len(s) : Passes(s[i])
    PROVE  /\ \A i \in 1..(Len(s) - 1) : s[i].to <= s[i + 1].from /\ s[i].from < s[i + 1].from
           /\ query.polls => \A t \in {s[i].from : i \in DOMAIN s} : t > query.since
<1>1. Len(s) \in Nat /\ DOMAIN s = 1..Len(s)
  OBVIOUS
<1>2. \A i \in 1..(Len(s) - 1) : i \in 1..Len(s) /\ i + 1 \in 1..Len(s) /\ i < i + 1
  BY <1>1
<1>3. \A i \in 1..(Len(s) - 1) : s[i].to <= s[i + 1].from /\ s[i].from < s[i + 1].from
  BY <1>2 DEF Rises
<1>4. query.polls => \A t \in {s[i].from : i \in DOMAIN s} : t > query.since
  BY <1>1 DEF Passes
<1> QED BY <1>3, <1>4

LEMMA GraphEnds ==
    ASSUME NEW S, NEW f \in Seq(S), query \in Queries, query.kind = "graph", Rises(f)
    PROVE  /\ \E T : Finish(f) \in Seq(T)
           /\ Rises(Finish(f))
           /\ \A i \in 1..Len(Finish(f)) : Passes(Finish(f)[i])
<1> DEFINE n == query.merge
           r == IF n > 1 THEN Reaggregate(f, n) ELSE f
<1>1. n \in {1, 2, 4}
  BY DEF Queries
<1>2. Finish(f) = Filter(r)
  BY DEF Finish
<1> HIDE DEF n
<1>3. PICK T : r \in Seq(T)
  <2>1. CASE n > 1
    BY <1>1, <2>1, ReaggregateIs
  <2>2. CASE ~(n > 1)
    BY <2>2
  <2> QED BY <2>1, <2>2
<1>4. Rises(r)
  BY <1>1, ReaggregateRises
<1> HIDE DEF r
<1>5. Filter(r) \in Seq(T)
  BY <1>3, FilterIs
<1> QED BY <1>2, <1>3, <1>4, <1>5, FilterRises

(* Items in the order of the pages, before they are turned. *)
Sweeps(s) ==
    /\ \A i \in 1..Len(s) : s[i].from \in Int /\ s[i].to = s[i].from
    /\ \A i, j \in 1..Len(s) : i < j => After(s[i].from, s[j].from)

LEMMA RawEnds ==
    ASSUME NEW S, NEW f \in Seq(S), query \in Queries, query.kind \in Raw, Sweeps(f)
    PROVE  LET r == Finish(f) IN
           /\ r \in Seq(S) /\ Rises(r)
           /\ \A i \in 1..Len(r) : Passes(r[i])
           /\ \A i \in 1..Len(f) : i <= Cap /\ Passes(f[i]) => \E j \in 1..Len(r) : r[j] = f[i]
           /\ \A j \in 1..Len(r) : \E i \in 1..Len(f) : i <= Cap /\ r[j] = f[i]
<1> DEFINE c == SubSeq(f, 1, Min({Cap, Len(f)}))
           n == Len(c)
           turn == [i \in 1..n |-> c[(n - i) + 1]]
           d == IF NewestFirst THEN turn ELSE c
<1>1. /\ c \in Seq(S) /\ n \in Nat
      /\ n = IF Cap <= Len(f) THEN Cap ELSE Len(f)
      /\ \A i \in 1..n : i <= Len(f) /\ c[i] = f[i]
  BY CutIs, HistoryAssumption
<1>2. Finish(f) = Filter(d)
  <2>1. query.kind # "graph"
    BY DEF Raw
  <2>2. Reverse(c) = turn
    BY DEF Reverse
  <2> HIDE DEF c, turn
  <2> QED BY <2>1, <2>2 DEF Finish, c
<1> HIDE DEF c
<1>3. c \in [1..n -> S]
  BY <1>1
<1>4. Cap \in Nat /\ Len(f) \in Nat
  BY HistoryAssumption
<1> HIDE DEF n
<1>5. \A i \in 1..n : (n - i) + 1 \in 1..n /\ (n - ((n - i) + 1)) + 1 = i
  BY <1>1
<1>6. turn \in [1..n -> S]
  BY <1>3, <1>5
<1>7. d \in Seq(S) /\ Len(d) = n
  BY <1>1, <1>3, <1>6 DEF n
<1>8. \A i \in 1..n : turn[i] = c[(n - i) + 1]
  OBVIOUS
<1> HIDE DEF turn
<1>9. \A i \in 1..n : i \in 1..Len(f) /\ i <= Cap /\ c[i] = f[i]
  BY <1>1, <1>4
<1>10. \A i \in 1..n : \E j \in 1..n : d[j] = f[i]
  <2> TAKE i \in 1..n
  <2>1. CASE NewestFirst
    <3>1. turn[(n - i) + 1] = c[i]
      BY <1>5, <1>8
    <3> QED BY <1>5, <1>9, <2>1, <3>1
  <2>2. CASE ~NewestFirst
    BY <1>9, <2>2
  <2> QED BY <2>1, <2>2
<1>11. \A j \in 1..n : \E i \in 1..n : d[j] = f[i]
  <2> TAKE j \in 1..n
  <2>1. CASE NewestFirst
    <3>1. turn[j] = f[(n - j) + 1] /\ (n - j) + 1 \in 1..n
      BY <1>5, <1>8, <1>9
    <3> QED BY <2>1, <3>1
  <2>2. CASE ~NewestFirst
    BY <1>9, <2>2
  <2> QED BY <2>1, <2>2
<1>12. Rises(d)
  <2>1. \A i \in 1..n : d[i].from \in Int /\ d[i].to \in Int /\ d[i].from <= d[i].to
    <3> TAKE i \in 1..n
    <3>1. PICK j \in 1..n : d[i] = f[j]
      BY <1>11
    <3>2. f[j].from \in Int /\ f[j].to = f[j].from
      BY <1>9 DEF Sweeps
    <3> HIDE DEF d
    <3> QED BY <3>1, <3>2
  <2>2. ASSUME NEW i \in 1..n, NEW j \in 1..n, i < j
        PROVE  d[i].from < d[j].from /\ d[i].to <= d[j].from
    <3>1. d[i].from < d[j].from
      <4>1. CASE NewestFirst
        <5>1. /\ (n - j) + 1 \in 1..Len(f) /\ (n - i) + 1 \in 1..Len(f)
              /\ (n - j) + 1 < (n - i) + 1
          BY <1>1, <1>5, <1>9, <2>2
        <5>2. After(f[(n - j) + 1].from, f[(n - i) + 1].from)
          BY <5>1 DEF Sweeps
        <5>3. f[(n - i) + 1].from < f[(n - j) + 1].from
          BY <4>1, <5>2 DEF After
        <5>4. turn[i] = f[(n - i) + 1] /\ turn[j] = f[(n - j) + 1]
          BY <1>5, <1>8, <1>9
        <5> QED BY <4>1, <5>3, <5>4
      <4>2. CASE ~NewestFirst
        <5>1. After(f[i].from, f[j].from)
          BY <1>9, <2>2 DEF Sweeps
        <5> QED BY <1>9, <4>2, <5>1 DEF After
      <4> QED BY <4>1, <4>2
    <3>2. d[i].from \in Int /\ d[i].to = d[i].from /\ d[j].from \in Int
      <4>1. PICK k \in 1..n : d[i] = f[k]
        BY <1>11
      <4>2. PICK l \in 1..n : d[j] = f[l]
        BY <1>11
      <4>3. f[k].from \in Int /\ f[k].to = f[k].from /\ f[l].from \in Int
        BY <1>9 DEF Sweeps
      <4> HIDE DEF d
      <4> QED BY <4>1, <4>2, <4>3
    <3> HIDE DEF d
    <3> QED BY <3>1, <3>2
  <2> HIDE DEF d
  <2> QED BY <1>7, <2>1, <2>2 DEF Rises
<1> HIDE DEF d
<1> DEFINE r == Filter(d)
<1>13. d \in Seq(S)
  BY <1>7
<1>14. Rises(r) /\ \A i \in 1..Len(r) : Passes(r[i])
  BY <1>7, <1>12, FilterRises
<1>15. PICK k \in Nat : \E p \in [1..k -> 1..Len(d)] : Keeps(r, d, p, k)
  BY <1>13, FilterIs
<1>16. PICK p \in [1..k -> 1..Len(d)] : Keeps(r, d, p, k)
  BY <1>15
<1>17. r \in Seq(S)
  BY <1>13, FilterIs
<1>18. /\ Len(r) = k
       /\ \A i \in 1..k : r[i] = d[p[i]]
       /\ \A j \in 1..Len(d) : Passes(d[j]) => \E i \in 1..k : p[i] = j
  BY <1>16 DEF Keeps
<1> HIDE DEF r
<1>19. ASSUME NEW i \in 1..Len(f), i <= Cap, Passes(f[i])
       PROVE  \E j \in 1..Len(r) : r[j] = f[i]
  <2>1. i \in 1..n
    BY <1>1, <1>4, <1>19
  <2>2. PICK j \in 1..Len(d) : d[j] = f[i]
    BY <1>7, <1>10, <2>1
  <2>3. PICK h \in 1..k : p[h] = j
    BY <1>18, <1>19, <2>2
  <2> QED BY <1>18, <2>2, <2>3
<1>20. ASSUME NEW j \in 1..Len(r)
       PROVE  \E i \in 1..Len(f) : i <= Cap /\ r[j] = f[i]
  <2>1. p[j] \in 1..n /\ r[j] = d[p[j]]
    BY <1>7, <1>18, <1>16
  <2>2. PICK i \in 1..n : d[p[j]] = f[i]
    BY <1>11, <2>1
  <2> QED BY <1>9, <2>1, <2>2
<1> QED BY <1>2, <1>14, <1>19, <1>20, <1>17 DEF r

-----------------------------------------------------------------------------
(* Sums.  The sum of a sequence is the last of its partial sums, which     *)
(* exist for every length: the least one without them would be one more    *)
(* than one that has them.                                                 *)
Summand(s, i) == IF s[i] = Missing THEN 0 ELSE s[i]
Sums(f, s, m) == f[0] = 0 /\ \A i \in 1..m : f[i] = f[i - 1] + Summand(s, i)

LEMMA PartialSums ==
    ASSUME NEW s, NEW n \in Nat, \A i \in 1..n : Summand(s, i) \in Int
    PROVE  \A m \in 0..n : \E f \in [0..m -> Int] : Sums(f, s, m)
<1> DEFINE Has(m) == \E f \in [0..m -> Int] : Sums(f, s, m)
           Without == {m \in 0..n : ~Has(m)}
<1> SUFFICES ASSUME Without # {} PROVE FALSE
  OBVIOUS
<1>1. Without \subseteq Nat
  OBVIOUS
<1>2. PICK m \in Without : \A k \in Without : m <= k
  BY <1>1, LeastNat
<1>3. m \in 0..n /\ ~Has(m)
  OBVIOUS
<1>4. CASE m = 0
  <2> DEFINE f == [i \in 0..0 |-> 0]
  <2>1. f \in [0..m -> Int] /\ Sums(f, s, m)
    BY <1>4 DEF Sums
  <2> QED BY <1>3, <2>1
<1>5. CASE m # 0
  <2>1. m - 1 \in 0..n /\ m \in 1..n /\ m - 1 < m
    BY <1>3, <1>5
  <2>2. Has(m - 1)
    BY <1>2, <2>1
  <2>3. PICK f \in [0..(m - 1) -> Int] : Sums(f, s, m - 1)
    BY <2>2
  <2> DEFINE g == [i \in 0..m |-> IF i = m THEN f[m - 1] + Summand(s, m) ELSE f[i]]
  <2>4. g \in [0..m -> Int]
    <3>1. f[m - 1] \in Int /\ Summand(s, m) \in Int
      BY <2>1
    <3>2. \A i \in 0..m : i # m => i \in 0..(m - 1)
      BY <2>1
    <3> QED BY <3>1, <3>2
  <2>5. g[0] = 0
    BY <2>1, <2>3 DEF Sums
  <2>6. ASSUME NEW i \in 1..m PROVE g[i] = g[i - 1] + Summand(s, i)
    <3>1. i - 1 \in 0..m /\ i - 1 # m /\ i \in 0..m /\ g[i - 1] = f[i - 1]
      BY <2>1
    <3>2. CASE i = m
      BY <3>1, <3>2
    <3>3. CASE i # m
      <4>1. i \in 1..(m - 1) /\ g[i] = f[i]
        BY <2>1, <3>1, <3>3
      <4> QED BY <2>3, <3>1, <4>1 DEF Sums
    <3> QED BY <3>2, <3>3
  <2>7. Sums(g, s, m)
    BY <2>5, <2>6 DEF Sums
  <2> QED BY <1>3, <2>4, <2>7
<1> QED BY <1>4, <1>5

LEMMA TotalIs ==
    ASSUME NEW s, Len(s) \in Nat, \A i \in 1..Len(s) : Summand(s, i) \in Int
    PROVE  \E f \in [0..Len(s) -> Int] : Sums(f, s, Len(s)) /\ Total(s) = f[Len(s)]
<1> DEFINE n == Len(s)
           Rec(f) == f = [i \in 0..n |-> IF i = 0 THEN 0 ELSE f[i - 1] + Summand(s, i)]
           g == CHOOSE f : Rec(f)
<1>1. PICK f \in [0..n -> Int] : Sums(f, s, n)
  <2>1. n \in 0..n
    OBVIOUS
  <2> QED BY <2>1, PartialSums
<1> DEFINE h == [i \in 0..n |-> IF i = 0 THEN 0 ELSE f[i - 1] + Summand(s, i)]
<1>2. \A i \in 0..n : f[i] = h[i]
  BY <1>1 DEF Sums
<1>3. Rec(f)
  BY <1>1, <1>2
<1>4. Rec(g)
  BY <1>3
<1>5. Total(s) = g[n]
  BY DEF Total, Summand
<1> HIDE DEF g
<1>6. g[0] = 0 /\ \A i \in 1..n : g[i] = g[i - 1] + Summand(s, i)
  BY <1>4
<1>7. Sums(g, s, n)
  BY <1>6 DEF Sums
<1>8. \A i \in 0..n : g[i] = f[i]
  <2> DEFINE Bad == {i \in 0..n : g[i] # f[i]}
  <2> SUFFICES ASSUME Bad # {} PROVE FALSE
    OBVIOUS
  <2>1. Bad \subseteq Nat
    OBVIOUS
  <2>2. PICK i \in Bad : \A j \in Bad : i <= j
    BY <2>1, LeastNat
  <2>3. i # 0
    BY <1>1, <1>6 DEF Sums
  <2>4. i \in 1..n /\ i - 1 \in 0..n /\ i - 1 < i
    BY <2>3
  <2>5. g[i - 1] = f[i - 1]
    BY <2>2, <2>4
  <2>6. g[i] = g[i - 1] + Summand(s, i) /\ f[i] = f[i - 1] + Summand(s, i)
    BY <1>1, <1>6, <2>4 DEF Sums
  <2> QED BY <2>5, <2>6
<1> QED BY <1>1, <1>5, <1>8

LEMMA Distributes ==
    ASSUME NEW c \in Int, NEW b \in Int, NEW y \in Int
    PROVE  c * b \in Int /\ c * y \in Int /\ c * (b + y) = c * b + c * y
OBVIOUS

LEMMA Between ==
    ASSUME NEW lo \in Int, NEW hi \in Int, NEW a \in Int, NEW b \in Nat, NEW x \in Int, NEW y \in Nat,
           lo * b <= a, a <= hi * b, lo * y <= x, x <= hi * y
    PROVE  b + y \in Nat /\ lo * (b + y) <= a + x /\ a + x <= hi * (b + y)
<1>1. /\ lo * (b + y) = lo * b + lo * y /\ hi * (b + y) = hi * b + hi * y
      /\ lo * b \in Int /\ lo * y \in Int /\ hi * b \in Int /\ hi * y \in Int
  BY Distributes
<1> QED BY <1>1

(* A sum lies between two multiples of another when its summands do.       *)
LEMMA TotalsBetween ==
    ASSUME NEW v, NEW w, NEW n \in Nat, Len(v) = n, Len(w) = n, NEW lo \in Int, NEW hi \in Int,
           \A i \in 1..n : /\ Summand(v, i) \in Int /\ Summand(w, i) \in Nat
                           /\ lo * Summand(w, i) <= Summand(v, i) /\ Summand(v, i) <= hi * Summand(w, i)
    PROVE  /\ Total(v) \in Int /\ Total(w) \in Nat
           /\ lo * Total(w) <= Total(v) /\ Total(v) <= hi * Total(w)
<1>1. PICK f \in [0..n -> Int] : Sums(f, v, n) /\ Total(v) = f[n]
  BY TotalIs
<1>2. PICK g \in [0..n -> Int] : Sums(g, w, n) /\ Total(w) = g[n]
  <2>1. \A i \in 1..n : Summand(w, i) \in Int
    OBVIOUS
  <2> QED BY <2>1, TotalIs
<1> DEFINE Ok(i) == g[i] >= 0 /\ lo * g[i] <= f[i] /\ f[i] <= hi * g[i]
           Bad == {i \in 0..n : ~Ok(i)}
<1>3. Bad = {}
  <2> SUFFICES ASSUME Bad # {} PROVE FALSE
    OBVIOUS
  <2>1. Bad \subseteq Nat
    OBVIOUS
  <2>2. PICK i \in Bad : \A j \in Bad : i <= j
    BY <2>1, LeastNat
  <2>3. i # 0
    BY <1>1, <1>2 DEF Sums
  <2>4. i \in 1..n /\ i - 1 \in 0..n /\ i - 1 < i
    BY <2>3
  <2>5. Ok(i - 1)
    <3> HIDE DEF Ok
    <3> QED BY <2>2, <2>4
  <2>6. g[i] = g[i - 1] + Summand(w, i) /\ f[i] = f[i - 1] + Summand(v, i)
    BY <1>1, <1>2, <2>4 DEF Sums
  <2>7. f[i - 1] \in Int /\ g[i - 1] \in Nat /\ lo * g[i - 1] <= f[i - 1] /\ f[i - 1] <= hi * g[i - 1]
    BY <2>4, <2>5
  <2>8. /\ Summand(v, i) \in Int /\ Summand(w, i) \in Nat
        /\ lo * Summand(w, i) <= Summand(v, i) /\ Summand(v, i) <= hi * Summand(w, i)
    BY <2>4
  <2>9. /\ g[i - 1] + Summand(w, i) \in Nat
        /\ lo * (g[i - 1] + Summand(w, i)) <= f[i - 1] + Summand(v, i)
        /\ f[i - 1] + Summand(v, i) <= hi * (g[i - 1] + Summand(w, i))
    BY <2>7, <2>8, Between
  <2>10. Ok(i)
    BY <2>6, <2>9
  <2> QED BY <2>10
<1>4. Ok(n)
  <2> HIDE DEF Ok
  <2>1. n \in 0..n
    OBVIOUS
  <2> QED BY <1>3, <2>1
<1> QED BY <1>1, <1>2, <1>4

-----------------------------------------------------------------------------
LEMMA NothingCounts ==
    ASSUME NEW w, NEW n \in Nat, Len(w) = n, \A i \in 1..n : Summand(w, i) = 0
    PROVE  Total(w) = 0
<1> DEFINE z == 0
<1>1. z \in Int /\ \A y \in Int : z * y = 0
  OBVIOUS
<1>2. \A i \in 1..n : z * Summand(w, i) = 0
  BY <1>1
<1> HIDE DEF z
<1>3. \A i \in 1..n :
        /\ Summand(w, i) \in Int /\ Summand(w, i) \in Nat
        /\ z * Summand(w, i) <= Summand(w, i) /\ Summand(w, i) <= z * Summand(w, i)
  BY <1>2
<1>4. Total(w) \in Nat /\ z * Total(w) <= Total(w) /\ Total(w) <= z * Total(w)
  BY <1>1, <1>3, TotalsBetween
<1> QED BY <1>1, <1>4

(* A finite set of numbers has a least and a greatest one. *)
LEMMA LeastAndGreatest ==
    ASSUME NEW ts, ts \subseteq Int, IsFiniteSet(ts), ts # {}
    PROVE  /\ Min(ts) \in ts /\ \A t \in ts : Min(ts) <= t
           /\ Max(ts) \in ts /\ \A t \in ts : t <= Max(ts)
<1> DEFINE n == Cardinality(ts)
           s == Ascending(ts)
<1>1. /\ n \in Nat /\ s \in [1..n -> ts]
      /\ \A i, j \in 1..n : i < j => s[i] < s[j]
      /\ \A t \in ts : \E i \in 1..n : s[i] = t
  BY AscendingIs
<1> HIDE DEF n, s
<1>2. 1 \in 1..n /\ n \in 1..n
  <2>1. PICK t \in ts : TRUE
    OBVIOUS
  <2>2. PICK i \in 1..n : s[i] = t
    BY <1>1, <2>1
  <2> QED BY <1>1, <2>2
<1>3. \A t \in ts : s[1] <= t /\ t <= s[n]
  <2> TAKE t \in ts
  <2>1. PICK i \in 1..n : s[i] = t
    BY <1>1
  <2>2. s[1] \in Int /\ s[n] \in Int /\ t \in Int
    BY <1>1, <1>2
  <2>3. i = 1 \/ 1 < i
    BY <1>1
  <2>4. i = n \/ i < n
    BY <1>1
  <2> QED BY <1>1, <1>2, <2>1, <2>2, <2>3, <2>4
<1>4. s[1] \in ts /\ s[n] \in ts
  BY <1>1, <1>2
<1>5. \E x \in ts : \A y \in ts : x <= y
  BY <1>3, <1>4
<1>6. \E x \in ts : \A y \in ts : x >= y
  BY <1>3, <1>4
<1>7. Min(ts) \in ts /\ \A t \in ts : Min(ts) <= t
  BY <1>5 DEF Min
<1>8. Max(ts) \in ts /\ \A t \in ts : Max(ts) >= t
  BY <1>6 DEF Max
<1> QED BY <1>7, <1>8

(* The five-minute buckets of the table as they are extracted, and what    *)
(* draws a mean in its band.                                               *)
Buckets == {ExtractGraph(t, c) : t \in Times, c \in Content}

InBand(b) ==
    b.mean # Missing => /\ b.lo # Missing /\ b.hi # Missing
                        /\ b.lo * b.mean.of <= b.mean.sum /\ b.mean.sum <= b.hi * b.mean.of

LEMMA BucketIs ==
    ASSUME NEW b \in Buckets
    PROVE  /\ Weight(b) \in Nat
           /\ b.lo \in Int \cup {Missing} /\ b.hi \in Int \cup {Missing}
           /\ b.mean # Missing =>
                /\ b.mean.of = 1 /\ {b.lo, b.mean.sum, b.hi} \subseteq Int
                /\ b.lo <= b.mean.sum /\ b.mean.sum <= b.hi
<1>1. PICK t \in Times, c \in Content : b = ExtractGraph(t, c)
  BY DEF Buckets
<1> DEFINE n == IF c.source # Missing THEN c.source ELSE c.count
<1>2. /\ n \in Nat \cup {Missing}
      /\ c.lo \in Int \cup {Missing} /\ c.hi \in Int \cup {Missing}
      /\ c.mean # Missing => {c.lo, c.mean, c.hi} \subseteq Int /\ c.lo <= c.mean /\ c.mean <= c.hi
  BY ContentAssumption
<1>3. /\ b.samples = n
      /\ b.mean = IF n = 0 THEN Missing ELSE Whole(c.mean)
      /\ b.lo = IF n = 0 THEN Missing ELSE c.lo
      /\ b.hi = IF n = 0 THEN Missing ELSE c.hi
  BY <1>1 DEF ExtractGraph
<1> HIDE DEF n
<1>4. Weight(b) \in Nat
  BY <1>2, <1>3 DEF Weight
<1>5. b.lo \in Int \cup {Missing} /\ b.hi \in Int \cup {Missing}
  BY <1>2, <1>3
<1>6. ASSUME b.mean # Missing
      PROVE  /\ b.mean.of = 1 /\ {b.lo, b.mean.sum, b.hi} \subseteq Int
             /\ b.lo <= b.mean.sum /\ b.mean.sum <= b.hi
  <2>1. n # 0 /\ b.mean = Whole(c.mean) /\ b.lo = c.lo /\ b.hi = c.hi
    BY <1>3, <1>6
  <2>2. c.mean # Missing /\ b.mean = [sum |-> c.mean, of |-> 1]
    BY <1>6, <2>1 DEF Whole
  <2>3. b.mean.sum = c.mean /\ b.mean.of = 1
    BY <2>2
  <2> QED BY <1>2, <2>1, <2>2, <2>3
<1> QED BY <1>4, <1>5, <1>6

LEMMA BucketInBand == ASSUME NEW b \in Buckets PROVE InBand(b)
<1> SUFFICES ASSUME b.mean # Missing
             PROVE  /\ b.lo # Missing /\ b.hi # Missing
                    /\ b.lo * b.mean.of <= b.mean.sum /\ b.mean.sum <= b.hi * b.mean.of
  BY DEF InBand
<1>1. /\ b.mean.of = 1 /\ b.lo \in Int /\ b.mean.sum \in Int /\ b.hi \in Int
      /\ b.lo <= b.mean.sum /\ b.mean.sum <= b.hi
  BY BucketIs
<1>2. b.lo * 1 = b.lo /\ b.hi * 1 = b.hi
  BY <1>1
<1>3. b.lo # Missing /\ b.hi # Missing
  BY <1>1, ContentAssumption
<1> QED BY <1>1, <1>2, <1>3

(* The known values of a sequence are a finite set. *)
LEMMA KnownIs ==
    ASSUME NEW n \in Nat, NEW s, DOMAIN s = 1..n, \A i \in 1..n : s[i] \in Int \cup {Missing}
    PROVE  /\ Known(s) \subseteq Int /\ IsFiniteSet(Known(s))
           /\ \A i \in 1..n : s[i] # Missing => s[i] \in Known(s)
<1>1. \A v \in Known(s) : v # Missing /\ \E i \in 1..n : s[i] = v
  BY DEF Known, ToSet
<1>2. \A i \in 1..n : s[i] # Missing => s[i] \in Known(s)
  BY DEF Known, ToSet
<1>3. Known(s) \subseteq Int
  BY <1>1
<1>4. IsFiniteSet(Known(s))
  <2> DEFINE f == [i \in 1..n |-> s[i]]
             R == {s[i] : i \in 1..n}
  <2>1. f \in Surjection(1..n, R)
    BY DEF Surjection
  <2>2. IsFiniteSet(1..n)
    BY FS_Interval
  <2> HIDE DEF f
  <2>3. IsFiniteSet(R)
    BY <2>1, <2>2, FS_Surjection
  <2>4. Known(s) \in SUBSET R
    BY <1>1
  <2> HIDE DEF R
  <2> QED BY <2>3, <2>4, FS_Subset
<1> QED BY <1>2, <1>3, <1>4

LEMMA MergedInBand ==
    ASSUME NEW group \in Seq(Buckets)
    PROVE  InBand(Merge(group))
<1> DEFINE n == Len(group)
           v == Each(group, Share)
           w == Each(group, Counts)
           los == Each(group, LAMBDA b : b.lo)
           his == Each(group, LAMBDA b : b.hi)
           m == Merge(group)
<1>1. n \in Nat /\ DOMAIN group = 1..n /\ \A i \in 1..n : group[i] \in Buckets
  OBVIOUS
<1>2. /\ m.mean = Mean(Total(v), Total(w))
      /\ m.lo = Lowest(los) /\ m.hi = Highest(his)
  BY DEF Merge, WeightedMean
<1> HIDE DEF n
<1>3. /\ v = [i \in 1..n |-> Share(group[i])] /\ w = [i \in 1..n |-> Counts(group[i])]
      /\ los = [i \in 1..n |-> group[i].lo] /\ his = [i \in 1..n |-> group[i].hi]
  BY <1>1 DEF Each
<1> HIDE DEF v, w, los, his, m
<1>4. /\ DOMAIN los = 1..n /\ DOMAIN his = 1..n /\ Len(v) = n /\ Len(w) = n
      /\ \A i \in 1..n : /\ los[i] = group[i].lo /\ his[i] = group[i].hi
                         /\ v[i] = Share(group[i]) /\ w[i] = Counts(group[i])
  BY <1>1, <1>3
<1>5. \A i \in 1..n : los[i] \in Int \cup {Missing} /\ his[i] \in Int \cup {Missing}
  BY <1>1, <1>4, BucketIs
<1>6. /\ Known(los) \subseteq Int /\ IsFiniteSet(Known(los))
      /\ \A i \in 1..n : los[i] # Missing => los[i] \in Known(los)
  BY <1>1, <1>4, <1>5, KnownIs
<1>7. /\ Known(his) \subseteq Int /\ IsFiniteSet(Known(his))
      /\ \A i \in 1..n : his[i] # Missing => his[i] \in Known(his)
  BY <1>1, <1>4, <1>5, KnownIs
<1>8. \A i \in 1..n : /\ Summand(w, i) \in Nat /\ Summand(v, i) \in Int
                      /\ group[i].mean = Missing => Summand(w, i) = 0 /\ Summand(v, i) = 0
                      /\ group[i].mean # Missing =>
                           /\ Summand(w, i) = Weight(group[i])
                           /\ Summand(v, i) = group[i].mean.sum * Weight(group[i])
                           /\ group[i].mean.sum \in Int
                           /\ los[i] \in Known(los) /\ los[i] <= group[i].mean.sum
                           /\ his[i] \in Known(his) /\ group[i].mean.sum <= his[i]
  <2> TAKE i \in 1..n
  <2>1. group[i] \in Buckets /\ Weight(group[i]) \in Nat
    BY <1>1, BucketIs
  <2>2. CASE group[i].mean = Missing
    BY <1>4, <2>2 DEF Summand, Share, Counts
  <2>3. CASE group[i].mean # Missing
    <3>1. /\ group[i].mean.sum \in Int /\ los[i] \in Int /\ his[i] \in Int
          /\ los[i] <= group[i].mean.sum /\ group[i].mean.sum <= his[i]
      BY <1>4, <2>1, <2>3, BucketIs
    <3>2. los[i] \in Known(los) /\ his[i] \in Known(his)
      BY <1>6, <1>7, <3>1, ContentAssumption
    <3>3. group[i].mean.sum * Weight(group[i]) \in Int
      BY <2>1, <3>1
    <3>4. /\ Summand(w, i) = Weight(group[i])
          /\ Summand(v, i) = group[i].mean.sum * Weight(group[i])
      BY <1>4, <2>1, <2>3, <3>3, ContentAssumption DEF Summand, Share, Counts
    <3> QED BY <2>1, <2>3, <3>1, <3>2, <3>3, <3>4
  <2> QED BY <2>2, <2>3
<1> SUFFICES ASSUME m.mean # Missing
             PROVE  /\ m.lo # Missing /\ m.hi # Missing
                    /\ m.lo * m.mean.of <= m.mean.sum /\ m.mean.sum <= m.hi * m.mean.of
  BY DEF InBand, m
<1>9. Total(w) # 0 /\ m.mean.sum = Total(v) /\ m.mean.of = Total(w)
  BY <1>2 DEF Mean
<1>10. PICK i \in 1..n : group[i].mean # Missing
  <2> SUFFICES ASSUME \A i \in 1..n : group[i].mean = Missing PROVE FALSE
    OBVIOUS
  <2>1. \A i \in 1..n : Summand(w, i) = 0
    BY <1>8
  <2>2. Total(w) = 0
    BY <1>1, <1>4, <2>1, NothingCounts
  <2> QED BY <1>9, <2>2
<1>11. Known(los) # {} /\ Known(his) # {}
  BY <1>8, <1>10
<1>12. /\ m.lo \in Known(los) /\ \A x \in Known(los) : m.lo <= x
       /\ m.hi \in Known(his) /\ \A x \in Known(his) : x <= m.hi
  BY <1>2, <1>6, <1>7, <1>11, LeastAndGreatest DEF Lowest, Highest
<1>13. m.lo \in Int /\ m.hi \in Int /\ m.lo # Missing /\ m.hi # Missing
  BY <1>6, <1>7, <1>12, ContentAssumption
<1>14. \A j \in 1..n : /\ m.lo * Summand(w, j) <= Summand(v, j)
                       /\ Summand(v, j) <= m.hi * Summand(w, j)
  <2> TAKE j \in 1..n
  <2>1. CASE group[j].mean = Missing
    <3>1. m.lo * 0 = 0 /\ m.hi * 0 = 0
      BY <1>13
    <3> QED BY <1>8, <2>1, <3>1
  <2>2. CASE group[j].mean # Missing
    <3>1. /\ Weight(group[j]) \in Nat /\ group[j].mean.sum \in Int
          /\ m.lo <= group[j].mean.sum /\ group[j].mean.sum <= m.hi
      <4>1. /\ los[j] \in Int /\ his[j] \in Int /\ m.lo <= los[j] /\ his[j] <= m.hi
            /\ los[j] <= group[j].mean.sum /\ group[j].mean.sum <= his[j] /\ group[j].mean.sum \in Int
        BY <1>6, <1>7, <1>8, <1>12, <2>2
      <4>2. Weight(group[j]) \in Nat
        BY <1>1, BucketIs
      <4> QED BY <1>13, <4>1, <4>2
    <3>2. /\ m.lo * Weight(group[j]) <= group[j].mean.sum * Weight(group[j])
          /\ group[j].mean.sum * Weight(group[j]) <= m.hi * Weight(group[j])
      BY <1>13, <3>1, Monotone
    <3> QED BY <1>8, <2>2, <3>2
  <2> QED BY <2>1, <2>2
<1>15. m.lo * Total(w) <= Total(v) /\ Total(v) <= m.hi * Total(w)
  BY <1>1, <1>4, <1>8, <1>13, <1>14, TotalsBetween
<1> QED BY <1>9, <1>13, <1>15

-----------------------------------------------------------------------------
(* What the pages of a query have brought, g, when rest is to be passed:   *)
(* items of the range in order, all before the rest, and each timestamp    *)
(* that was there first among them or in the rest.                         *)
Span == query.since..query.until
Extracts == IF query.kind = "graph" THEN Buckets ELSE {Extract(t, c) : t \in Times, c \in Content}
Width == IF query.kind = "graph" THEN 1 ELSE 0

Collected(g, rest) ==
    /\ rest \subseteq Span /\ g \in Seq(Extracts)
    /\ \A i \in 1..Len(g) : g[i].from \in Span /\ g[i].to = g[i].from + Width
    /\ \A i, j \in 1..Len(g) : i < j => After(g[i].from, g[j].from)
    /\ \A i \in 1..Len(g), t \in rest : After(g[i].from, t)
    /\ \A t \in first : t \in DOMAIN items /\ (t \in rest \/ \E i \in 1..Len(g) : g[i].from = t)

(* The same for the lists of factories: each at most once.                 *)
Listed(g, rest) ==
    /\ rest \subseteq Factories /\ g \in Seq(Factories) /\ IsInjective(g)
    /\ \A i \in 1..Len(g) : g[i] \notin rest
    /\ \A k \in first : k \in latest /\ (k \in rest \/ \E i \in 1..Len(g) : g[i] = k)

QueryShape ==
    /\ query \in Queries /\ phase \in {"ask", "page", "done"}
    /\ \E ts \in SUBSET Times : items \in [ts -> Content]
    /\ latest \subseteq Factories

QueryInv ==
    /\ QueryShape
    /\ phase = "ask" => got = << >>
    /\ phase = "page" /\ ~ByKey => Collected(got, todo)
    /\ phase = "page" /\ ByKey => Listed(got, todo)
    /\ AnswerIsTheRange /\ BucketsAreFaithful

LEMMA QueryIs ==
    ASSUME query \in Queries
    PROVE  /\ query.since \in Int /\ query.until \in Int
           /\ query.kind \in {"history", "bounded", "cloud", "graph", "batch", "scan"}
           /\ query.merge \in {1, 2, 4}
           /\ ByKey => ~NewestFirst
<1>1. query.since \in Int
  <2>1. query.since \in (1..(MaxTime - 1)) \cup (1..2) \cup {0}
    BY Zenon DEF Queries
  <2>2. \A x \in (1..(MaxTime - 1)) \cup (1..2) \cup {0} : x \in Int
    OBVIOUS
  <2> QED BY <2>1, <2>2
<1>2. query.until \in Int
  <2>1. query.until \in {MaxTime + 1} \cup (2..(MaxTime - 1)) \cup {0}
    BY Zenon DEF Queries
  <2>2. \A x \in {MaxTime + 1} \cup (2..(MaxTime - 1)) \cup {0} : x \in Int
    BY HistoryAssumption
  <2> QED BY <2>1, <2>2
<1>3. query.kind \in {"history", "bounded", "cloud", "graph", "batch", "scan"}
  BY DEF Queries
<1>4. query.merge \in {1, 2, 4}
  BY DEF Queries
<1>5. ByKey => ~NewestFirst
  BY DEF ByKey, NewestFirst
<1> QED BY <1>1, <1>2, <1>3, <1>4, <1>5

LEMMA CollectedRises ==
    ASSUME query \in Queries, ~ByKey, NEW g, NEW rest, Collected(g, rest)
    PROVE  /\ query.kind = "graph" => Rises(g)
           /\ query.kind # "graph" => Sweeps(g)
<1>1. \A t \in Span : t \in Int
  BY QueryIs DEF Span
<1>2. \A i \in 1..Len(g) : g[i].from \in Int /\ g[i].to = g[i].from + Width
  BY <1>1 DEF Collected
<1>3. \A i, j \in 1..Len(g) : i < j => After(g[i].from, g[j].from)
  BY DEF Collected
<1>4. CASE query.kind = "graph"
  <2>1. Width = 1 /\ ~NewestFirst
    BY <1>4 DEF Width, NewestFirst
  <2>2. \A i \in 1..Len(g) : g[i].from \in Int /\ g[i].to = g[i].from + 1
    BY <1>2, <2>1
  <2>3. \A i, j \in 1..Len(g) : i < j => g[i].from < g[j].from
    BY <1>3, <2>1 DEF After
  <2>4. \A i, j \in 1..Len(g) : i < j => g[i].to <= g[j].from
    BY <2>2, <2>3
  <2>5. Rises(g)
    BY <2>2, <2>3, <2>4 DEF Rises
  <2> QED BY <1>4, <2>5
<1>5. CASE query.kind # "graph"
  <2>1. Width = 0
    BY <1>5 DEF Width
  <2>2. \A i \in 1..Len(g) : g[i].from \in Int /\ g[i].to = g[i].from
    BY <1>2, <2>1
  <2> QED BY <1>3, <1>5, <2>2 DEF Sweeps
<1> QED BY <1>4, <1>5

(* Buckets, merged or not, keep their means in their bands, and every one  *)
(* of the pages lies in one of the answer, save those that share the group *)
(* of the one that the caller has.                                         *)
LEMMA BucketsEnd ==
    ASSUME query \in Queries, query.kind = "graph", NEW g, NEW rest, Collected(g, rest)
    PROVE  LET r == Finish(g)
               skipped == IF query.polls /\ query.since \in {g[i].from : i \in DOMAIN g}
                          THEN query.merge ELSE 0
           IN /\ \A i \in DOMAIN r : InBand(r[i])
              /\ \A i \in (skipped + 1)..Len(g) :
                   \E j \in DOMAIN r : r[j].from <= g[i].from /\ g[i].to <= r[j].to
<1> DEFINE n == query.merge
           q == IF n > 1 THEN Reaggregate(g, n) ELSE g
           r == Filter(q)
           has == query.polls /\ query.since \in {g[i].from : i \in DOMAIN g}
           skipped == IF has THEN n ELSE 0
           l == Len(g)
           m == Len(q)
           Opens(i) == IF n > 1 THEN (i - 1) * n + 1 ELSE i
           Closes(i) == IF n > 1 THEN Ends(g, n, i) ELSE i
           Group(i) == IF n > 1 THEN (i - 1) \div n + 1 ELSE i
<1>1. n \in {1, 2, 4}
  BY DEF Queries
<1>2. /\ g \in Seq(Buckets) /\ l \in Nat /\ DOMAIN g = 1..l
      /\ \A i \in 1..l : g[i] \in Buckets /\ g[i].from \in Span
  BY DEF Collected, Extracts
<1>3. Rises(g)
  BY CollectedRises DEF ByKey
<1>4. Finish(g) = r
  BY DEF Finish
<1> HIDE DEF n, l
<1>5. PICK T : q \in Seq(T)
  <2>1. CASE n > 1
    BY <1>1, <1>2, <2>1, ReaggregateIs
  <2>2. CASE ~(n > 1)
    BY <1>2, <2>2
  <2> QED BY <2>1, <2>2
<1>6. /\ m \in Nat
      /\ \A i \in 1..m : /\ Opens(i) \in 1..l /\ Closes(i) \in 1..l
                         /\ q[i].from = g[Opens(i)].from /\ q[i].to = g[Closes(i)].to
                         /\ InBand(q[i])
  <2>1. CASE n > 1
    <3> DEFINE k == (l + n - 1) \div n
               p == Reaggregate(g, n)
    <3>1. /\ k \in Nat /\ Len(p) = k
          /\ \A i \in 1..k :
               /\ (i - 1) * n + 1 \in 1..l /\ Ends(g, n, i) \in 1..l
               /\ (i - 1) * n + 1 <= Ends(g, n, i)
               /\ p[i] = Merge(SubSeq(g, (i - 1) * n + 1, Ends(g, n, i)))
               /\ p[i].from = g[(i - 1) * n + 1].from /\ p[i].to = g[Ends(g, n, i)].to
      BY <1>1, <1>2, ReaggregateIs DEF l
    <3> HIDE DEF k, p
    <3>2. \A i \in 1..k : InBand(p[i])
      <4> TAKE i \in 1..k
      <4> DEFINE a == (i - 1) * n + 1
                 b == Ends(g, n, i)
      <4>1. a \in 1..l /\ b \in 1..l /\ p[i] = Merge(SubSeq(g, a, b))
        BY <3>1
      <4> HIDE DEF a, b
      <4>2. \A j \in a..b : g[j] \in Buckets
        BY <1>2, <4>1
      <4>3. SubSeq(g, a, b) \in Seq(Buckets)
        BY <4>1, <4>2, SubSeqProperties
      <4> QED BY <4>1, <4>3, MergedInBand
    <3>3. q = p
      BY <2>1 DEF p
    <3> HIDE DEF q
    <3> QED BY <2>1, <3>1, <3>2, <3>3
  <2>2. CASE ~(n > 1)
    <3>1. q = g /\ m = l
      BY <2>2 DEF l
    <3>2. \A i \in 1..l : InBand(g[i])
      BY <1>2, BucketInBand
    <3> HIDE DEF q, m
    <3> QED BY <1>2, <2>2, <3>1, <3>2
  <2> QED BY <2>1, <2>2
<1>7. \A i \in 1..l : /\ Group(i) \in 1..m /\ Opens(Group(i)) <= i /\ i <= Closes(Group(i))
                     /\ n >= 1 /\ (i > n => Opens(Group(i)) > 1)
  <2> TAKE i \in 1..l
  <2>1. CASE n > 1
    <3>1. m = (l + n - 1) \div n
      BY <1>1, <1>2, <2>1, ReaggregateIs DEF l
    <3> HIDE DEF m
    <3>2. /\ (i - 1) \div n \in Nat
          /\ ((i - 1) \div n) * n <= i - 1 /\ i - 1 < ((i - 1) \div n + 1) * n
      BY <1>1, <1>2
    <3>3. (i - 1) \div n + 1 <= (l + n - 1) \div n
      BY <1>1, <1>2
    <3>4. Group(i) \in 1..m
      BY <1>2, <2>1, <3>1, <3>2, <3>3
    <3>5. Opens(Group(i)) = ((i - 1) \div n) * n + 1
      BY <2>1, <3>2
    <3>6. Opens(Group(i)) <= i /\ (i > n => Opens(Group(i)) > 1)
      BY <1>1, <1>2, <3>2, <3>5
    <3>7. i <= Closes(Group(i))
      <4>1. i <= ((i - 1) \div n + 1) * n /\ i <= Len(g)
        BY <1>1, <1>2, <3>2 DEF l
      <4> QED BY <2>1, <4>1 DEF Ends
    <3> QED BY <1>1, <3>4, <3>6, <3>7
  <2>2. CASE ~(n > 1)
    <3>1. m = l /\ n = 1
      BY <1>1, <2>2 DEF l
    <3> HIDE DEF m
    <3> QED BY <1>2, <2>2, <3>1
  <2> QED BY <2>1, <2>2
<1> HIDE DEF Opens, Closes, Group
<1>8. \A i \in 1..l : g[i].from \in Int /\ g[i].from >= query.since /\ g[i].from <= query.until
  BY <1>2, QueryIs DEF Span
<1>9. PICK k \in Nat : \E p \in [1..k -> 1..Len(q)] : Keeps(r, q, p, k)
  BY <1>5, FilterIs
<1>10. PICK p \in [1..k -> 1..Len(q)] : Keeps(r, q, p, k)
  BY <1>9
<1>11. r \in Seq(T)
  BY <1>5, FilterIs
<1> HIDE DEF r
<1>12. /\ DOMAIN r = 1..k
       /\ \A i \in 1..k : p[i] \in 1..m /\ r[i] = q[p[i]]
       /\ \A j \in 1..m : Passes(q[j]) => \E i \in 1..k : p[i] = j
  <2>1. DOMAIN r = 1..k
    BY <1>10, <1>11 DEF Keeps
  <2> QED BY <1>10, <2>1 DEF Keeps
<1>13. \A i \in DOMAIN r : InBand(r[i])
  BY <1>6, <1>12
<1>14. ASSUME NEW i \in (skipped + 1)..l
       PROVE  \E j \in DOMAIN r : r[j].from <= g[i].from /\ g[i].to <= r[j].to
  <2> DEFINE h == Group(i)
  <2>1. i \in 1..l /\ (has => i > n)
    BY <1>1, <1>2, <1>14
  <2>2. /\ h \in 1..m /\ Opens(h) <= i /\ i <= Closes(h) /\ (i > n => Opens(h) > 1)
        /\ Opens(h) \in 1..l /\ Closes(h) \in 1..l
        /\ q[h].from = g[Opens(h)].from /\ q[h].to = g[Closes(h)].to
    BY <1>6, <1>7, <2>1
  <2> HIDE DEF h
  <2>3. q[h].from <= g[i].from
    <3>1. CASE Opens(h) = i
      BY <1>8, <2>1, <2>2, <3>1
    <3>2. CASE Opens(h) < i
      BY <1>3, <1>8, <2>1, <2>2, <3>2 DEF Rises, l
    <3> QED BY <1>2, <2>1, <2>2, <3>1, <3>2
  <2>4. g[i].to <= q[h].to
    <3>1. /\ g[i].to \in Int /\ g[Closes(h)].to \in Int /\ g[Closes(h)].from \in Int
          /\ g[Closes(h)].from <= g[Closes(h)].to
      BY <1>3, <2>1, <2>2 DEF Rises, l
    <3>2. CASE Closes(h) = i
      BY <2>2, <3>1, <3>2
    <3>3. CASE i < Closes(h)
      <4>1. g[i].to <= g[Closes(h)].from
        BY <1>3, <2>1, <2>2, <3>3 DEF Rises, l
      <4> QED BY <2>2, <3>1, <4>1
    <3> QED BY <1>2, <2>1, <2>2, <3>2, <3>3
  <2>5. Passes(q[h])
    <3>1. q[h].from \in Int /\ q[h].from >= query.since /\ q[h].from <= query.until /\ query.since \in Int
      BY <1>8, <2>2, QueryIs
    <3>2. ASSUME query.polls PROVE q[h].from # query.since
      <4> SUFFICES ASSUME g[Opens(h)].from = query.since PROVE FALSE
        BY <2>2
      <4>1. has
        BY <1>2, <2>2, <3>2
      <4>2. Opens(h) > 1 /\ 1 \in 1..l
        BY <1>2, <2>1, <2>2, <4>1
      <4>3. g[1].from < g[Opens(h)].from
        BY <1>3, <2>2, <4>2 DEF Rises, l
      <4>4. g[1].from \in Int /\ g[1].from >= query.since
        BY <1>8, <4>2
      <4> QED BY <3>1, <4>3, <4>4
    <3> QED BY <3>1, <3>2 DEF Passes
  <2>6. PICK j \in 1..k : p[j] = h
    BY <1>12, <2>2, <2>5
  <2> QED BY <1>12, <2>3, <2>4, <2>6
<1>15. /\ \A i \in DOMAIN r : InBand(r[i])
       /\ \A i \in (skipped + 1)..l :
            \E j \in DOMAIN r : r[j].from <= g[i].from /\ g[i].to <= r[j].to
  BY <1>13, <1>14
<1> QED BY <1>4, <1>15 DEF n, l

LEMMA BucketsFaithful ==
    ASSUME query \in Queries, ~ByKey, Collected(got', todo'), answer' = Finish(got'), UNCHANGED query
    PROVE  BucketsAreFaithful'
<1> PICK g : g = got'
  OBVIOUS
<1> PICK rest : rest = todo'
  OBVIOUS
<1> PICK r : r = answer'
  OBVIOUS
<1>1. Collected(g, rest) /\ r = Finish(g)
  OBVIOUS
<1> DEFINE has == query.polls /\ query.since \in {g[i].from : i \in DOMAIN g}
           skipped == IF has THEN query.merge ELSE 0
<1>2. ASSUME query.kind = "graph"
      PROVE  /\ \A i \in DOMAIN r : InBand(r[i])
             /\ \A i \in (skipped + 1)..Len(g) :
                  \E j \in DOMAIN r : r[j].from <= g[i].from /\ g[i].to <= r[j].to
  BY <1>1, <1>2, BucketsEnd
<1>3. BucketsAreCovered'
  BY <1>2 DEF BucketsAreCovered
<1>4. MeanInBand'
  BY <1>2 DEF MeanInBand, InBand
<1> QED BY <1>3, <1>4 DEF BucketsAreFaithful

(* A query that ends with the cap or with nothing left gives its range.    *)
LEMMA QueryEnds ==
    ASSUME query \in Queries, ~ByKey, Collected(got', todo'), answer' = Finish(got'),
           UNCHANGED <<query, first>>,
           \/ query.kind # "graph" /\ Len(got') >= Cap
           \/ \A t \in todo' : t \notin DOMAIN items
    PROVE  AnswerIsTheRange'
<1> PICK g : g = got'
  OBVIOUS
<1> PICK rest : rest = todo'
  OBVIOUS
<1> PICK r : r = answer'
  OBVIOUS
<1>1. Collected(g, rest) /\ r = Finish(g) /\ g \in Seq(Extracts)
  BY DEF Collected
<1>2. Len(g) \in Nat /\ Cap \in Nat
  BY <1>1, HistoryAssumption
<1>3. query.kind \in Raw \cup {"graph"}
  BY QueryIs DEF ByKey, Raw
<1>4. /\ \E T : r \in Seq(T)
      /\ Rises(r) /\ \A i \in 1..Len(r) : Passes(r[i])
  <2>1. CASE query.kind = "graph"
    BY <1>1, <2>1, CollectedRises, GraphEnds
  <2>2. CASE query.kind \in Raw
    <3>1. query.kind # "graph"
      BY <2>2 DEF Raw
    <3>2. Sweeps(g)
      BY <1>1, <3>1, CollectedRises
    <3> QED BY <1>1, <2>2, <3>2, RawEnds
  <2> QED BY <1>3, <2>1, <2>2
<1>5. PICK T : r \in Seq(T)
  BY <1>4
<1>6. /\ \A i \in 1..(Len(r) - 1) : r[i].to <= r[i + 1].from /\ r[i].from < r[i + 1].from
      /\ query.polls => \A t \in {r[i].from : i \in DOMAIN r} : t > query.since
  BY <1>4, <1>5, RisingAnswer
<1>7. AnswerAscends'
  BY <1>6 DEF AnswerAscends, Stamps
<1>8. FactoriesListedOnce'
  BY DEF FactoriesListedOnce, ByKey
<1>9. ASSUME query.kind \in Raw, NEW t \in first
      PROVE  \/ \E i \in DOMAIN r : r[i].from = t
             \/ query.polls /\ t = query.since
             \/ /\ Len(g) >= Cap
                /\ \A s \in {r[i].from : i \in DOMAIN r} : IF query.kind = "bounded" THEN s < t ELSE s > t
  <2>1. query.kind # "graph"
    BY <1>9 DEF Raw
  <2>2. Sweeps(g)
    BY <1>1, <2>1, CollectedRises
  <2>3. /\ \A i \in 1..Len(g) : i <= Cap /\ Passes(g[i]) => \E j \in 1..Len(r) : r[j] = g[i]
        /\ \A j \in 1..Len(r) : \E i \in 1..Len(g) : i <= Cap /\ r[j] = g[i]
    <3>1. /\ \A i \in 1..Len(g) : i <= Cap /\ Passes(g[i]) => \E j \in 1..Len(Finish(g)) : Finish(g)[j] = g[i]
          /\ \A j \in 1..Len(Finish(g)) : \E i \in 1..Len(g) : i <= Cap /\ Finish(g)[j] = g[i]
      <4>1. g \in Seq(Extracts)
        BY <1>1
      <4> QED BY <1>9, <2>2, <4>1, RawEnds
    <3> QED BY <1>1, <3>1
  <2>4. DOMAIN r = 1..Len(r)
    BY <1>5
  <2>5. /\ t \in DOMAIN items /\ (t \in rest \/ \E i \in 1..Len(g) : g[i].from = t)
        /\ \A i \in 1..Len(g) : g[i].from \in Span
        /\ \A i \in 1..Len(g), u \in rest : After(g[i].from, u)
        /\ \A i, j \in 1..Len(g) : i < j => After(g[i].from, g[j].from)
        /\ rest \subseteq Span
    BY <1>1 DEF Collected
  <2>6. \A u \in Span : u \in Int /\ u >= query.since /\ u <= query.until /\ query.since \in Int
    BY QueryIs DEF Span
  <2>7. (query.kind = "bounded" => ~NewestFirst) /\ (query.kind # "bounded" => NewestFirst)
    BY <1>9 DEF Raw, NewestFirst
  <2>8. \A a \in Span : After(a, t) => IF query.kind = "bounded" THEN a < t ELSE a > t
    <3>1. t \in Int
      BY <2>5, <2>6
    <3> QED BY <2>6, <2>7, <3>1 DEF After
  <2>9. ASSUME Len(g) >= Cap, \A i \in 1..Len(g) : i <= Cap => After(g[i].from, t)
        PROVE  \A s \in {r[i].from : i \in DOMAIN r} : IF query.kind = "bounded" THEN s < t ELSE s > t
    <3>1. \A j \in 1..Len(r) : After(r[j].from, t) /\ r[j].from \in Span
      BY <2>3, <2>5, <2>9
    <3> QED BY <2>4, <2>8, <3>1
  <2>10. CASE t \in rest
    <3>1. Len(g) >= Cap
      BY <2>5, <2>10
    <3>2. \A i \in 1..Len(g) : i <= Cap => After(g[i].from, t)
      BY <2>5, <2>10
    <3> QED BY <2>9, <3>1, <3>2
  <2>11. CASE \E i \in 1..Len(g) : g[i].from = t
    <3>1. PICK i \in 1..Len(g) : g[i].from = t
      BY <2>11
    <3>2. CASE i <= Cap
      <4>1. CASE Passes(g[i])
        BY <2>3, <2>4, <3>1, <3>2, <4>1
      <4>2. CASE ~Passes(g[i])
        <5>1. t \in Span
          BY <2>5, <3>1
        <5> QED BY <2>6, <3>1, <4>2, <5>1 DEF Passes
      <4> QED BY <4>1, <4>2
    <3>3. CASE ~(i <= Cap)
      <4>1. Len(g) >= Cap
        BY <1>2, <3>3
      <4>2. ASSUME NEW h \in 1..Len(g), h <= Cap PROVE After(g[h].from, t)
        <5>1. h < i
          BY <1>2, <3>3, <4>2
        <5> QED BY <2>5, <3>1, <5>1
      <4> QED BY <2>9, <4>1, <4>2
    <3> QED BY <3>2, <3>3
  <2> QED BY <2>5, <2>10, <2>11
<1>10. CapDropsTheFarEnd'
  BY <1>9 DEF CapDropsTheFarEnd, Stamps
<1> QED BY <1>7, <1>8, <1>10 DEF AnswerIsTheRange

(* One page more keeps what is collected in order and complete.            *)
LEMMA QueryPaged ==
    ASSUME QueryInv, QueryPage
    PROVE  /\ Collected(got', todo')
           /\ \/ phase' = "page" /\ answer' = answer
              \/ /\ phase' = "done" /\ answer' = Finish(got')
                 /\ \/ query.kind # "graph" /\ Len(got') >= Cap
                    \/ \A t \in todo' : t \notin DOMAIN items
<1>1. phase = "page" /\ ~ByKey /\ UNCHANGED <<items, latest, query, first, puts>>
  BY DEF QueryPage
<1>2. query \in Queries /\ Collected(got, todo)
  BY <1>1 DEF QueryInv, QueryShape
<1>3. PICK n \in 0..PageSize, more \in BOOLEAN :
        LET page == SubSeq(Ordered(Left), 1, Min({n, Cardinality(Left)}))
            all == got \o Each(page, Extracted)
        IN /\ Len(page) < Cardinality(Left) => more
           /\ got' = all
           /\ todo' = {t \in todo : \A i \in DOMAIN page :
                         IF NewestFirst THEN t < page[i] ELSE t > page[i]}
           /\ IF Enough(all, more) THEN phase' = "done" /\ answer' = Finish(all)
              ELSE phase' = phase /\ UNCHANGED answer
  BY DEF QueryPage
<1> DEFINE ord == Ordered(Left)
           k == Cardinality(Left)
           page == SubSeq(ord, 1, Min({n, k}))
           m == Len(page)
           more_ == [i \in 1..m |-> Extracted(page[i])]
<1>4. /\ todo \subseteq Span /\ got \in Seq(Extracts)
      /\ \A i \in 1..Len(got) : got[i].from \in Span /\ got[i].to = got[i].from + Width
      /\ \A i, j \in 1..Len(got) : i < j => After(got[i].from, got[j].from)
      /\ \A i \in 1..Len(got), t \in todo : After(got[i].from, t)
      /\ \A t \in first : t \in DOMAIN items /\ (t \in todo \/ \E i \in 1..Len(got) : got[i].from = t)
  BY <1>2 DEF Collected
<1>5. \A t \in Span : t \in Int
  BY <1>2, QueryIs DEF Span
<1>6. Left \subseteq todo /\ Left \subseteq Int /\ IsFiniteSet(Left)
      /\ \A t \in todo : t \in DOMAIN items => t \in Left
  <2>1. Left \subseteq todo /\ \A t \in todo : t \in DOMAIN items => t \in Left
    BY DEF Left
  <2>2. IsFiniteSet(Span)
    BY <1>2, QueryIs, FS_Interval DEF Span
  <2>3. Left \in SUBSET Span
    BY <1>4, <2>1
  <2>4. IsFiniteSet(Left)
    BY <2>2, <2>3, FS_Subset
  <2> QED BY <1>5, <2>1, <2>3, <2>4
<1>7. /\ k \in Nat /\ ord \in Seq(Left) /\ Len(ord) = k
      /\ \A i, j \in 1..k : i < j => After(ord[i], ord[j])
      /\ \A t \in Left : \E i \in 1..k : ord[i] = t
  BY <1>6, OrderedIs
<1> HIDE DEF k, ord
<1>8. /\ page \in Seq(Left) /\ m \in Nat /\ m <= k
      /\ \A i \in 1..m : page[i] = ord[i]
  <2>1. n \in Nat
    BY HistoryAssumption
  <2>2. LET c == SubSeq(ord, 1, Min({n, Len(ord)})) IN
        /\ c \in Seq(Left) /\ Len(c) \in Nat
        /\ Len(c) = IF n <= Len(ord) THEN n ELSE Len(ord)
        /\ \A i \in 1..Len(c) : i <= Len(ord) /\ c[i] = ord[i]
    BY <1>7, <2>1, CutIs
  <2>3. /\ page \in Seq(Left) /\ Len(page) \in Nat
        /\ Len(page) = IF n <= k THEN n ELSE k
        /\ \A i \in 1..Len(page) : i <= k /\ page[i] = ord[i]
    BY <1>7, <2>2
  <2> HIDE DEF page
  <2> QED BY <1>7, <2>1, <2>3
<1>9. /\ m < k => more
      /\ got' = got \o Each(page, Extracted)
      /\ todo' = {t \in todo : \A i \in DOMAIN page :
                    IF NewestFirst THEN t < page[i] ELSE t > page[i]}
      /\ IF Enough(got', more) THEN phase' = "done" /\ answer' = Finish(got')
         ELSE phase' = phase /\ UNCHANGED answer
  BY <1>3 DEF ord, k
<1> HIDE DEF page
<1>10. DOMAIN page = 1..m /\ \A i \in 1..m : page[i] \in Left
  BY <1>8
<1>11. Each(page, Extracted) = more_
  BY <1>10 DEF Each
<1> HIDE DEF m
<1>12. \A t \in Left : /\ Extracted(t) \in Extracts
                       /\ Extracted(t).from = t /\ Extracted(t).to = t + Width
  <2> TAKE t \in Left
  <2>1. t \in Times /\ items[t] \in Content
    BY DEF Left, QueryInv, QueryShape
  <2>2. CASE query.kind = "graph"
    BY <2>1, <2>2 DEF Extracted, ExtractGraph, Extracts, Buckets, Width
  <2>3. CASE query.kind # "graph"
    <3>1. t + 0 = t
      BY <1>6
    <3>2. Extracted(t) = Extract(t, items[t]) /\ Width = 0
      BY <2>3 DEF Extracted, Width
    <3>3. Extract(t, items[t]).from = t /\ Extract(t, items[t]).to = t
      BY DEF Extract
    <3> QED BY <2>1, <2>3, <3>1, <3>2, <3>3 DEF Extracts
  <2> QED BY <2>2, <2>3
<1>13. more_ \in Seq(Extracts) /\ Len(more_) = m /\ \A i \in 1..m : more_[i] = Extracted(page[i])
  <2>1. more_ \in [1..m -> Extracts]
    BY <1>10, <1>12
  <2>2. \A i \in 1..m : more_[i] = Extracted(page[i])
    OBVIOUS
  <2> HIDE DEF more_
  <2> QED BY <1>8, <2>1, <2>2
<1> HIDE DEF more_
<1> DEFINE l == Len(got)
<1>14. l \in Nat
  BY <1>4
<1>15. /\ got' \in Seq(Extracts) /\ Len(got') = l + m
       /\ \A i \in 1..(l + m) : got'[i] = IF i <= l THEN got[i] ELSE more_[i - l]
  <2>1. got' = got \o more_
    BY <1>9, <1>11
  <2>2. /\ got \o more_ \in Seq(Extracts) /\ Len(got \o more_) = Len(got) + Len(more_)
        /\ \A i \in 1..(Len(got) + Len(more_)) :
             (got \o more_)[i] = IF i <= Len(got) THEN got[i] ELSE more_[i - Len(got)]
    BY <1>4, <1>13, ConcatProperties
  <2> QED BY <1>13, <2>1, <2>2
<1> HIDE DEF l
<1>16. \A t \in todo' : t \in todo /\ \A i \in 1..m : After(page[i], t)
  <2>1. ASSUME NEW t \in todo', NEW i \in 1..m PROVE After(page[i], t)
    <3>1. t \in Int /\ page[i] \in Int /\ IF NewestFirst THEN t < page[i] ELSE t > page[i]
      BY <1>4, <1>5, <1>6, <1>9, <1>10
    <3> QED BY <3>1 DEF After
  <2> QED BY <1>9, <2>1
<1>17. \A t \in Left : t \in todo' \/ \E i \in 1..m : page[i] = t
  <2> SUFFICES ASSUME NEW t \in Left, ~\E i \in 1..m : page[i] = t PROVE t \in todo'
    OBVIOUS
  <2>1. PICK j \in 1..k : ord[j] = t
    BY <1>7
  <2>2. m < j
    BY <1>7, <1>8, <2>1
  <2>3. ASSUME NEW i \in 1..m PROVE IF NewestFirst THEN t < page[i] ELSE t > page[i]
    <3>1. i \in 1..k /\ i < j
      BY <1>7, <1>8, <2>2
    <3>2. After(page[i], t)
      BY <1>7, <1>8, <2>1, <3>1
    <3>3. t \in Int /\ page[i] \in Int
      BY <1>6, <1>10
    <3> QED BY <3>2, <3>3 DEF After
  <2> QED BY <1>6, <1>9, <1>10, <2>3
<1> PICK g : g = got'
  OBVIOUS
<1> PICK rest : rest = todo'
  OBVIOUS
<1>18. \A i \in 1..(l + m) :
         \/ i \in 1..l /\ g[i] = got[i]
         \/ i > l /\ i - l \in 1..m /\ g[i] = Extracted(page[i - l]) /\ g[i].from = page[i - l]
  <2> TAKE i \in 1..(l + m)
  <2>1. CASE i <= l
    BY <1>14, <1>15, <2>1
  <2>2. CASE ~(i <= l)
    <3>1. i > l /\ i - l \in 1..m
      BY <1>8, <1>14, <2>2
    <3>2. g[i] = more_[i - l]
      BY <1>15, <2>2
    <3> QED BY <1>10, <1>12, <1>13, <3>1, <3>2
  <2> QED BY <2>1, <2>2
<1>19. \A i \in 1..(l + m) : g[i].from \in Span /\ g[i].to = g[i].from + Width
  <2> TAKE i \in 1..(l + m)
  <2>1. CASE i \in 1..l /\ g[i] = got[i]
    BY <1>4, <2>1 DEF l
  <2>2. CASE i - l \in 1..m /\ g[i] = Extracted(page[i - l])
    <3>1. page[i - l] \in Left /\ page[i - l] \in Span
      BY <1>4, <1>6, <1>10, <2>2
    <3> QED BY <1>12, <2>2, <3>1
  <2> QED BY <1>18, <2>1, <2>2
<1>20. ASSUME NEW i \in 1..(l + m), NEW j \in 1..(l + m), i < j
       PROVE  After(g[i].from, g[j].from)
  <2>1. CASE i \in 1..l /\ j \in 1..l
    <3>1. g[i] = got[i] /\ g[j] = got[j]
      BY <1>14, <1>18, <2>1
    <3> QED BY <1>4, <1>20, <2>1, <3>1 DEF l
  <2>2. CASE i \in 1..l /\ ~(j \in 1..l)
    <3>1. g[i] = got[i] /\ j - l \in 1..m /\ g[j].from = page[j - l]
      BY <1>14, <1>18, <2>2
    <3>2. page[j - l] \in todo
      BY <1>6, <1>10, <3>1
    <3> QED BY <1>4, <2>2, <3>1, <3>2 DEF l
  <2>3. CASE ~(i \in 1..l)
    <3>1. /\ i - l \in 1..m /\ g[i].from = page[i - l]
          /\ j - l \in 1..m /\ g[j].from = page[j - l]
      BY <1>8, <1>14, <1>18, <1>20, <2>3
    <3>2. i - l \in 1..k /\ j - l \in 1..k /\ i - l < j - l
      BY <1>7, <1>8, <1>14, <1>20, <3>1
    <3> QED BY <1>7, <1>8, <3>1, <3>2
  <2> QED BY <2>1, <2>2, <2>3
<1>21. ASSUME NEW i \in 1..(l + m), NEW t \in rest
       PROVE  After(g[i].from, t)
  <2>1. CASE i \in 1..l /\ g[i] = got[i]
    BY <1>4, <1>16, <2>1 DEF l
  <2>2. CASE i - l \in 1..m /\ g[i].from = page[i - l]
    BY <1>16, <2>2
  <2> QED BY <1>18, <2>1, <2>2
<1>22. ASSUME NEW t \in first
       PROVE  t \in DOMAIN items /\ (t \in rest \/ \E i \in 1..(l + m) : g[i].from = t)
  <2>1. CASE \E i \in 1..l : got[i].from = t
    <3>1. PICK i \in 1..l : got[i].from = t
      BY <2>1
    <3>2. i \in 1..(l + m) /\ g[i] = got[i]
      BY <1>8, <1>14, <1>15
    <3> QED BY <1>4, <3>1, <3>2
  <2>2. CASE t \in todo
    <3>1. t \in Left
      BY <1>4, <1>6, <2>2
    <3>2. CASE \E i \in 1..m : page[i] = t
      <4>1. PICK i \in 1..m : page[i] = t
        BY <3>2
      <4>2. l + i \in 1..(l + m) /\ (l + i) - l = i /\ ~(l + i <= l)
        BY <1>8, <1>14
      <4>3. g[l + i].from = t
        BY <1>10, <1>12, <1>13, <1>15, <4>1, <4>2
      <4> QED BY <1>4, <4>2, <4>3
    <3> QED BY <1>4, <1>17, <3>1, <3>2
  <2> QED BY <1>4, <2>1, <2>2 DEF l
<1>23. rest \subseteq Span
  BY <1>4, <1>16
<1>24. Collected(g, rest)
  BY <1>15, <1>19, <1>20, <1>21, <1>22, <1>23 DEF Collected
<1>25. ~more => \A t \in rest : t \notin DOMAIN items
  <2> SUFFICES ASSUME ~more, NEW t \in rest, t \in DOMAIN items PROVE FALSE
    OBVIOUS
  <2>1. t \in Left /\ ~(m < k)
    BY <1>6, <1>9, <1>16
  <2>2. PICK i \in 1..k : ord[i] = t
    BY <1>7, <2>1
  <2>3. i \in 1..m /\ page[i] = t
    BY <1>7, <1>8, <2>1, <2>2
  <2>4. After(t, t)
    BY <1>16, <2>3
  <2>5. t \in Int
    BY <1>6, <2>1
  <2> QED BY <2>4, <2>5 DEF After
<1>26. Enough(g, more) => \/ query.kind # "graph" /\ Len(g) >= Cap
                          \/ \A t \in rest : t \notin DOMAIN items
  BY <1>25 DEF Enough
<1> QED BY <1>1, <1>9, <1>24, <1>26

-----------------------------------------------------------------------------
(* What a response answers is listed once and not asked for again.         *)
LEMMA ListedMore ==
    ASSUME NEW g, NEW rest, NEW some \in SUBSET rest, Listed(g, rest), latest \subseteq Factories
    PROVE  Listed(g \o SetToSeq(some \cap latest), rest \ some)
<1> DEFINE S == some \cap latest
           s == SetToSeq(S)
           l == Len(g)
           m == Len(s)
           h == g \o s
<1>1. /\ rest \subseteq Factories /\ g \in Seq(Factories) /\ IsInjective(g)
      /\ \A i \in 1..l : g[i] \notin rest
      /\ \A k \in first : k \in latest /\ (k \in rest \/ \E i \in 1..l : g[i] = k)
  BY DEF Listed
<1>2. S \in SUBSET Factories /\ S \subseteq rest /\ S \subseteq some /\ \A k \in some : k \in latest => k \in S
  BY <1>1
<1> HIDE DEF S
<1>3. IsFiniteSet(S)
  BY <1>2, HistoryAssumption, FS_Subset
<1>4. s \in Seq(S) /\ IsInjective(s) /\ ToSet(s) = S
  BY <1>3, SetToSeqIs
<1> HIDE DEF s
<1>5. /\ m \in Nat /\ DOMAIN s = 1..m /\ \A i \in 1..m : s[i] \in S
      /\ s \in Seq(Factories) /\ \A k \in S : \E i \in 1..m : s[i] = k
  <2>1. m \in Nat /\ DOMAIN s = 1..m /\ \A i \in 1..m : s[i] \in S
    BY <1>4
  <2>2. s \in Seq(Factories)
    BY <1>2, <1>4, SeqMonotonic
  <2>3. \A k \in S : \E i \in 1..m : s[i] = k
    BY <1>4, <2>1 DEF ToSet
  <2> QED BY <2>1, <2>2, <2>3
<1>6. l \in Nat /\ DOMAIN g = 1..l
  BY <1>1
<1>7. /\ h \in Seq(Factories) /\ Len(h) = l + m
      /\ \A i \in 1..(l + m) : h[i] = IF i <= l THEN g[i] ELSE s[i - l]
  BY <1>1, <1>5, ConcatProperties
<1> HIDE DEF h, l, m
<1>8. \A i \in 1..(l + m) :
        \/ i \in 1..l /\ h[i] = g[i] /\ h[i] \notin rest
        \/ ~(i \in 1..l) /\ i - l \in 1..m /\ h[i] = s[i - l] /\ h[i] \in S
  <2> TAKE i \in 1..(l + m)
  <2>1. CASE i <= l
    BY <1>1, <1>6, <1>7, <2>1
  <2>2. CASE ~(i <= l)
    <3>1. ~(i \in 1..l) /\ i - l \in 1..m
      BY <1>5, <1>6, <2>2
    <3> QED BY <1>5, <1>7, <2>2, <3>1
  <2> QED BY <2>1, <2>2
<1>9. DOMAIN h = 1..(l + m)
  BY <1>7
<1>10. ASSUME NEW i \in 1..(l + m), NEW j \in 1..(l + m), h[i] = h[j] PROVE i = j
  <2>1. CASE i \in 1..l
    <3>1. h[i] = g[i] /\ h[i] \notin S
      BY <1>2, <1>8, <2>1
    <3>2. j \in 1..l /\ h[j] = g[j]
      BY <1>8, <1>10, <3>1
    <3> QED BY <1>1, <1>6, <1>10, <2>1, <3>1, <3>2 DEF IsInjective
  <2>2. CASE ~(i \in 1..l)
    <3>1. i - l \in 1..m /\ h[i] = s[i - l] /\ h[i] \in rest
      BY <1>2, <1>8, <2>2
    <3>2. j - l \in 1..m /\ h[j] = s[j - l]
      BY <1>8, <1>10, <3>1
    <3>3. i - l = j - l
      BY <1>4, <1>5, <1>10, <3>1, <3>2 DEF IsInjective
    <3> QED BY <1>6, <3>3
  <2> QED BY <2>1, <2>2
<1>11. IsInjective(h)
  BY <1>9, <1>10 DEF IsInjective
<1>12. \A i \in 1..Len(h) : h[i] \notin rest \ some
  BY <1>2, <1>7, <1>8
<1>13. ASSUME NEW k \in first
       PROVE  k \in latest /\ (k \in rest \ some \/ \E i \in 1..Len(h) : h[i] = k)
  <2>1. CASE \E i \in 1..l : g[i] = k
    <3>1. PICK i \in 1..l : g[i] = k
      BY <2>1
    <3>2. i \in 1..(l + m) /\ h[i] = k
      BY <1>5, <1>6, <1>7, <3>1
    <3> QED BY <1>1, <1>7, <1>13, <3>2
  <2>2. CASE k \in some
    <3>1. PICK i \in 1..m : s[i] = k
      BY <1>1, <1>2, <1>5, <1>13, <2>2
    <3>2. l + i \in 1..(l + m) /\ ~(l + i <= l) /\ (l + i) - l = i
      BY <1>5, <1>6
    <3>3. h[l + i] = k
      BY <1>7, <3>1, <3>2
    <3> QED BY <1>1, <1>7, <1>13, <3>2, <3>3
  <2> QED BY <1>1, <1>13, <2>1, <2>2
<1>14. rest \ some \subseteq Factories
  BY <1>1
<1> QED BY <1>7, <1>11, <1>12, <1>13, <1>14 DEF Listed, h, s, S

(* The list is each factory that is there once, up to the limit.           *)
LEMMA ListIsDone ==
    ASSUME ByKey, UNCHANGED <<query, first>>, Listed(got', todo'),
           \/ answer' = got' /\ todo' = {}
           \/ /\ query.kind = "scan"
              /\ answer' = Ordered(ToSet(SubSeq(got', 1, Min({Cap, Len(got')}))))
              /\ Len(got') >= Cap \/ todo' = {}
    PROVE  AnswerIsTheRange'
<1> PICK g : g = got'
  OBVIOUS
<1> PICK rest : rest = todo'
  OBVIOUS
<1> PICK r : r = answer'
  OBVIOUS
<1>1. /\ g \in Seq(Factories) /\ IsInjective(g)
      /\ \A k \in first : k \in rest \/ \E i \in 1..Len(g) : g[i] = k
  BY DEF Listed
<1>2. Len(g) \in Nat /\ DOMAIN g = 1..Len(g) /\ Cap \in Nat
  BY <1>1, HistoryAssumption
<1>3. IsInjective(r) /\ (first \subseteq ToSet(r) \/ (query.kind = "scan" /\ Len(r) = Cap))
  <2>1. CASE r = g /\ rest = {}
    BY <1>1, <1>2, <2>1 DEF ToSet
  <2>2. CASE /\ query.kind = "scan"
             /\ r = Ordered(ToSet(SubSeq(g, 1, Min({Cap, Len(g)}))))
             /\ Len(g) >= Cap \/ rest = {}
    <3> DEFINE c == SubSeq(g, 1, Min({Cap, Len(g)}))
               n == Len(c)
               C == ToSet(c)
    <3>1. /\ c \in Seq(Factories) /\ n \in Nat
          /\ n = IF Cap <= Len(g) THEN Cap ELSE Len(g)
          /\ \A i \in 1..n : i <= Len(g) /\ c[i] = g[i]
      BY <1>1, <1>2, CutIs
    <3> HIDE DEF c
    <3>2. DOMAIN c = 1..n /\ \A i \in 1..n : c[i] \in Factories
      BY <3>1
    <3> HIDE DEF n
    <3>3. C \in SUBSET Factories
      BY <3>2 DEF ToSet
    <3>4. \A i \in 1..n : c[i] \in C
      BY <3>2 DEF ToSet
    <3>5. \A k \in C : \E i \in 1..n : c[i] = k
      BY <3>2 DEF ToSet
    <3> HIDE DEF C
    <3>6. IsFiniteSet(C) /\ C \subseteq Int
      BY <3>3, HistoryAssumption, FS_Subset
    <3>7. /\ Cardinality(C) \in Nat
          /\ Ordered(C) \in Seq(C) /\ Len(Ordered(C)) = Cardinality(C)
          /\ \A i, j \in 1..Cardinality(C) : i < j => After(Ordered(C)[i], Ordered(C)[j])
          /\ \A t \in C : \E i \in 1..Cardinality(C) : Ordered(C)[i] = t
      BY <3>6, OrderedIs
    <3>8. r = Ordered(C)
      BY <2>2 DEF C, c
    <3>9. /\ DOMAIN r = 1..Cardinality(C) /\ Len(r) = Cardinality(C)
          /\ \A i \in 1..Cardinality(C) : r[i] \in C
      <4>1. r \in Seq(C) /\ Len(r) = Cardinality(C)
        BY <3>7, <3>8
      <4> QED BY <4>1
    <3>10. IsInjective(r)
      <4> SUFFICES ASSUME NEW i \in 1..Cardinality(C), NEW j \in 1..Cardinality(C), r[i] = r[j]
                   PROVE  i = j
        BY <3>9 DEF IsInjective
      <4>1. r[i] \in Int
        BY <3>6, <3>9
      <4>2. ~After(r[i], r[i])
        BY <4>1 DEF After
      <4>3. ~(i < j) /\ ~(j < i)
        BY <3>7, <3>8, <4>2
      <4> QED BY <3>7, <4>3
    <3>11. CASE Len(g) >= Cap
      <4>1. n = Cap
        BY <1>2, <3>1, <3>11
      <4>2. \A i, j \in 1..n : c[i] = c[j] => i = j
        <5> TAKE i \in 1..n, j \in 1..n
        <5>1. c[i] = g[i] /\ i <= Len(g) /\ c[j] = g[j] /\ j <= Len(g)
          BY <3>1
        <5>2. i \in DOMAIN g /\ j \in DOMAIN g
          BY <1>2, <5>1
        <5> QED BY <1>1, <5>1, <5>2 DEF IsInjective
      <4>3. c \in [1..n -> C]
        BY <3>1, <3>2, <3>4
      <4>4. c \in Surjection(1..n, C) /\ c \in Injection(1..n, C)
        BY <3>2, <3>5, <4>2, <4>3 DEF Surjection, Injection, IsInjective
      <4>5. IsFiniteSet(1..n) /\ Cardinality(1..n) = n
        <5>1. n \in Nat
          BY <3>1
        <5> QED BY <5>1, FS_Interval
      <4>6. Cardinality(C) = n
        BY <4>4, <4>5, FS_Surjection
      <4> QED BY <2>2, <3>9, <3>10, <4>1, <4>6
    <3>12. CASE ~(Len(g) >= Cap)
      <4>1. rest = {} /\ n = Len(g)
        BY <1>2, <2>2, <3>1, <3>12
      <4>2. ASSUME NEW k \in first PROVE k \in ToSet(r)
        <5>1. PICK i \in 1..Len(g) : g[i] = k
          BY <1>1, <4>1
        <5>2. k \in C
          BY <3>1, <3>4, <4>1, <5>1
        <5> QED BY <3>7, <3>8, <3>9, <5>2 DEF ToSet
      <4> QED BY <3>10, <4>2
    <3> QED BY <3>11, <3>12
  <2> QED BY <2>1, <2>2
<1>4. FactoriesListedOnce'
  BY <1>3 DEF FactoriesListedOnce
<1>5. AnswerAscends'
  BY DEF AnswerAscends, ByKey
<1>6. CapDropsTheFarEnd'
  BY DEF CapDropsTheFarEnd, Raw, ByKey
<1> QED BY <1>4, <1>5, <1>6 DEF AnswerIsTheRange

LEMMA QueryInitial == QueryInit => QueryInv
<1> SUFFICES ASSUME QueryInit PROVE QueryInv
  OBVIOUS
<1>1. QueryShape
  BY DEF QueryInit, QueryShape
<1>2. phase = "ask" /\ got = << >>
  BY DEF QueryInit
<1>3. AnswerIsTheRange /\ BucketsAreFaithful
  BY <1>2 DEF AnswerIsTheRange, CapDropsTheFarEnd, AnswerAscends, FactoriesListedOnce,
              BucketsAreFaithful, BucketsAreCovered, MeanInBand
<1> QED BY <1>1, <1>2, <1>3 DEF QueryInv

LEMMA QueryAsks == ASSUME QueryInv, AskTable PROVE QueryInv'
<1>1. /\ phase' = "page" /\ got = << >> /\ got' = got
      /\ UNCHANGED <<items, latest, query, answer>>
      /\ todo' = IF ByKey THEN Factories ELSE Span
      /\ first' = IF ByKey THEN latest ELSE DOMAIN items \cap Span
  BY DEF AskTable, QueryInv, Span
<1>2. QueryShape'
  BY <1>1 DEF QueryInv, QueryShape
<1>3. AnswerIsTheRange' /\ BucketsAreFaithful'
  BY <1>1 DEF AnswerIsTheRange, CapDropsTheFarEnd, AnswerAscends, FactoriesListedOnce,
              BucketsAreFaithful, BucketsAreCovered, MeanInBand
<1>4. Len(<< >>) = 0 /\ << >> \in Seq(Extracts) /\ << >> \in Seq(Factories) /\ IsInjective(<< >>)
  BY DEF IsInjective
<1>5. ByKey' = ByKey /\ Span' = Span
  BY <1>1 DEF ByKey, Span
<1>6. ~ByKey => Collected(got, todo)'
  <2>1. << >> \in Seq(Extracts')
    OBVIOUS
  <2> QED BY <1>1, <1>4, <1>5, <2>1 DEF Collected
<1>7. ByKey => Listed(got, todo)'
  BY <1>1, <1>4, <1>5 DEF Listed, QueryInv, QueryShape
<1> QED BY <1>1, <1>2, <1>3, <1>5, <1>6, <1>7 DEF QueryInv

LEMMA QueryPages == ASSUME QueryInv, QueryPage PROVE QueryInv'
<1>1. /\ phase = "page" /\ ~ByKey /\ UNCHANGED <<items, latest, query, first, puts>>
      /\ query \in Queries
  BY DEF QueryPage, QueryInv, QueryShape
<1>2. /\ Collected(got', todo')
      /\ \/ phase' = "page" /\ answer' = answer
         \/ /\ phase' = "done" /\ answer' = Finish(got')
            /\ \/ query.kind # "graph" /\ Len(got') >= Cap
               \/ \A t \in todo' : t \notin DOMAIN items
  BY QueryPaged
<1>3. Collected(got, todo)'
  <2>1. Extracts' = Extracts
    BY <1>1 DEF Extracts
  <2> QED BY <1>1, <1>2, <2>1 DEF Collected, Span, Width, After, NewestFirst
<1>4. QueryShape'
  BY <1>1, <1>2 DEF QueryInv, QueryShape
<1>5. ByKey' = ByKey
  BY <1>1 DEF ByKey
<1>6. AnswerIsTheRange' /\ BucketsAreFaithful'
  <2>1. CASE phase' = "page"
    BY <2>1 DEF AnswerIsTheRange, CapDropsTheFarEnd, AnswerAscends, FactoriesListedOnce,
                BucketsAreFaithful, BucketsAreCovered, MeanInBand
  <2>2. CASE /\ phase' = "done" /\ answer' = Finish(got')
             /\ \/ query.kind # "graph" /\ Len(got') >= Cap
                \/ \A t \in todo' : t \notin DOMAIN items
    BY <1>1, <1>2, <2>2, QueryEnds, BucketsFaithful
  <2> QED BY <1>2, <2>1, <2>2
<1> QED BY <1>1, <1>2, <1>3, <1>4, <1>5, <1>6 DEF QueryInv

(* A page of a list, when what it answers is some of the rest.             *)
LEMMA ListPages ==
    ASSUME QueryInv, phase = "page", ByKey, UNCHANGED <<items, latest, query, first>>,
           NEW some \in SUBSET todo,
           got' = got \o SetToSeq(some \cap latest), todo' = todo \ some,
           \/ phase' = "page"
           \/ /\ phase' = "done"
              /\ \/ answer' = got' /\ todo' = {}
                 \/ /\ query.kind = "scan"
                    /\ answer' = Ordered(ToSet(SubSeq(got', 1, Min({Cap, Len(got')}))))
                    /\ Len(got') >= Cap \/ todo' = {}
    PROVE  QueryInv'
<1>1. Listed(got', todo')
  BY ListedMore DEF QueryInv, QueryShape
<1>2. Listed(got, todo)'
  BY <1>1 DEF Listed
<1>3. QueryShape'
  BY DEF QueryInv, QueryShape
<1>4. ByKey' = ByKey
  BY DEF ByKey
<1>5. AnswerIsTheRange'
  <2>1. CASE phase' = "page"
    BY <2>1 DEF AnswerIsTheRange, CapDropsTheFarEnd, AnswerAscends, FactoriesListedOnce
  <2>2. CASE phase' = "done"
    BY <1>1, <2>2, ListIsDone
  <2> QED BY <2>1, <2>2
<1>6. BucketsAreFaithful'
  BY DEF BucketsAreFaithful, BucketsAreCovered, MeanInBand, ByKey
<1> QED BY <1>2, <1>3, <1>4, <1>5, <1>6 DEF QueryInv

LEMMA QueryScans == ASSUME QueryInv, ScanPage PROVE QueryInv'
<1>1. phase = "page" /\ query.kind = "scan" /\ ByKey /\ UNCHANGED <<items, latest, query, first>>
  BY DEF ScanPage, ByKey
<1>2. PICK passed \in SUBSET todo :
        /\ got' = got \o SetToSeq(passed \cap latest) /\ todo' = todo \ passed
        /\ IF Enough(got', passed # todo)
           THEN /\ phase' = "done"
                /\ answer' = Ordered(ToSet(SubSeq(got', 1, Min({Cap, Len(got')}))))
           ELSE phase' = phase
  BY DEF ScanPage
<1>3. CASE Enough(got', passed # todo)
  <2>1. Len(got') >= Cap \/ todo' = {}
    BY <1>2, <1>3 DEF Enough
  <2> QED BY <1>1, <1>2, <1>3, <2>1, ListPages
<1>4. CASE ~Enough(got', passed # todo)
  BY <1>1, <1>2, <1>4, ListPages
<1> QED BY <1>3, <1>4

LEMMA QueryBatches == ASSUME QueryInv, BatchPage PROVE QueryInv'
<1>1. phase = "page" /\ ByKey /\ UNCHANGED <<items, latest, query, first>>
  BY DEF BatchPage, ByKey
<1> DEFINE n == Min({ChunkSize, Cardinality(todo)})
           chunk == ToSet(SubSeq(Ascending(todo), 1, n))
<1>2. PICK done \in SUBSET chunk :
        got' = got \o SetToSeq(done \cap latest) /\ todo' = todo \ done
  BY DEF BatchPage, KeepUnprocessed
<1>3. IF todo' = {} THEN phase' = "done" /\ answer' = got' ELSE phase' = phase
  BY DEF BatchPage
<1>4. chunk \in SUBSET todo
  <2> DEFINE s == Ascending(todo)
             k == Cardinality(todo)
  <2>1. todo \subseteq Factories
    BY <1>1 DEF QueryInv, Listed
  <2>2. IsFiniteSet(todo) /\ todo \subseteq Int
    BY <2>1, HistoryAssumption, FS_Subset
  <2>3. k \in Nat /\ s \in [1..k -> todo]
    BY <2>2, AscendingIs
  <2> HIDE DEF s, k
  <2>4. s \in Seq(todo) /\ Len(s) = k
    BY <2>3
  <2>5. LET c == SubSeq(s, 1, Min({ChunkSize, Len(s)})) IN c \in Seq(todo)
    BY <2>4, CutIs, HistoryAssumption
  <2>6. SubSeq(s, 1, n) \in Seq(todo)
    BY <2>4, <2>5 DEF k
  <2> HIDE DEF n
  <2>7. PICK c \in Seq(todo) : c = SubSeq(s, 1, n)
    BY <2>6
  <2>8. ToSet(c) \in SUBSET todo
    BY DEF ToSet
  <2> QED BY <2>7, <2>8 DEF s
<1> HIDE DEF chunk
<1>5. done \in SUBSET todo
  BY <1>4
<1>6. CASE todo' = {}
  BY <1>1, <1>2, <1>3, <1>5, <1>6, ListPages
<1>7. CASE todo' # {}
  BY <1>1, <1>2, <1>3, <1>5, <1>7, ListPages
<1> QED BY <1>6, <1>7

LEMMA QueryPuts == ASSUME QueryInv, Put PROVE QueryInv'
<1>1. phase = "page" /\ UNCHANGED <<query, phase, todo, got, answer, first>>
  BY DEF Put
<1>2. ByKey' = ByKey
  BY <1>1 DEF ByKey
<1>3. /\ QueryShape' /\ DOMAIN items \subseteq DOMAIN items' /\ latest \subseteq latest'
  <2>1. CASE ByKey
    <3>1. PICK k \in Factories : latest' = latest \cup {k}
      BY <2>1 DEF Put
    <3>2. UNCHANGED items
      BY <2>1 DEF Put
    <3> QED BY <1>1, <3>1, <3>2 DEF QueryInv, QueryShape
  <2>2. CASE ~ByKey
    <3>1. UNCHANGED latest
      BY <2>2 DEF Put
    <3>2. PICK t \in Times, c \in Content :
            items' = [x \in DOMAIN items \cup {t} |-> IF x = t THEN c ELSE items[x]]
      BY <2>2 DEF Put
    <3>3. PICK ts \in SUBSET Times : items \in [ts -> Content]
      BY DEF QueryInv, QueryShape
    <3>4. items' \in [ts \cup {t} -> Content] /\ ts \cup {t} \in SUBSET Times
      BY <3>2, <3>3
    <3> QED BY <1>1, <3>1, <3>2, <3>3, <3>4 DEF QueryInv, QueryShape
  <2> QED BY <2>1, <2>2
<1>4. ASSUME ~ByKey PROVE Collected(got, todo)'
  <2>1. Collected(got, todo)
    BY <1>1, <1>4 DEF QueryInv
  <2> QED BY <1>1, <1>3, <2>1 DEF Collected, Span, Width, After, NewestFirst, Extracts
<1>5. ASSUME ByKey PROVE Listed(got, todo)'
  <2>1. Listed(got, todo)
    BY <1>1, <1>5 DEF QueryInv
  <2> QED BY <1>1, <1>3, <2>1 DEF Listed
<1>6. AnswerIsTheRange' /\ BucketsAreFaithful'
  BY <1>1 DEF AnswerIsTheRange, CapDropsTheFarEnd, AnswerAscends, FactoriesListedOnce,
              BucketsAreFaithful, BucketsAreCovered, MeanInBand
<1> QED BY <1>1, <1>2, <1>3, <1>4, <1>5, <1>6 DEF QueryInv

LEMMA QueryStep == QueryInv /\ [QueryNext]_queryVars => QueryInv'
<1> SUFFICES ASSUME QueryInv, [QueryNext]_queryVars PROVE QueryInv'
  OBVIOUS
<1>1. ASSUME UNCHANGED queryVars PROVE QueryInv'
  <2>1. UNCHANGED <<items, latest, query, phase, todo, got, answer, first>>
    BY <1>1 DEF queryVars
  <2>2. QueryShape'
    BY <2>1 DEF QueryInv, QueryShape
  <2>3. AnswerIsTheRange' /\ BucketsAreFaithful'
    BY <2>1 DEF QueryInv, AnswerIsTheRange, CapDropsTheFarEnd, AnswerAscends, FactoriesListedOnce, Stamps, ByKey,
                BucketsAreFaithful, BucketsAreCovered, MeanInBand
  <2>4. ByKey' = ByKey
    BY <2>1 DEF ByKey
  <2>5. Collected(got, todo) => Collected(got, todo)'
    BY <2>1 DEF Collected, Span, Width, After, NewestFirst, Extracts
  <2>6. Listed(got, todo) => Listed(got, todo)'
    BY <2>1 DEF Listed
  <2> QED BY <2>1, <2>2, <2>3, <2>4, <2>5, <2>6 DEF QueryInv
<1> QED BY <1>1, QueryAsks, QueryPages, QueryScans, QueryBatches, QueryPuts DEF QueryNext

(* What a list or a chart gets is its range: ascending, nothing twice and  *)
(* nothing of what was there missing but what the cap drops at the far end *)
(* of the window, whatever is put between the pages and however they end   *)
(* (_get_history_sync, _list_factories_sync and their like).               *)
THEOREM AnswersAreRanges == QuerySpec => []AnswerIsTheRange
<1>1. QueryInv => AnswerIsTheRange
  BY DEF QueryInv
<1> QED BY <1>1, QueryInitial, QueryStep, PTL DEF QuerySpec

(* Whatever items the table holds, a bucket of the pages lies in one of    *)
(* the answer, but those that share the group of the one the caller has,   *)
(* and a mean stays between its minimum and maximum however the buckets    *)
(* are merged, empty and incomplete ones among them                        *)
(* (_reaggregate_extracted, _merge_extracted_group).                       *)
THEOREM BucketsStayFaithful == QuerySpec => []BucketsAreFaithful
<1>1. QueryInv => BucketsAreFaithful
  BY DEF QueryInv
<1> QED BY <1>1, QueryInitial, QueryStep, PTL DEF QuerySpec
=============================================================================

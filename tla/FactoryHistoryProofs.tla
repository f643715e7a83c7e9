------------------------ MODULE FactoryHistoryProofs ------------------------
(***************************************************************************)
(* Theorems about FactoryHistory, for every set of factories, any number   *)
(* of loads under way, and any bounds.                                     *)
(***************************************************************************)
EXTENDS FactoryHistory, TLAPS

(* A list holds items of one factory. *)
Of(items, f) == \A i \in items : i[1] = f

(* A load's base and answer are of the factory it asked for, and only a    *)
(* load for the factory of the page may still reach the chart.  The base   *)
(* is in the invariant since an answer may be merged with it much later.   *)
LoadOf(r) ==
    /\ Of(r.base, r.factory)
    /\ r.answer # None => Of(r.answer, r.factory)
    /\ r.current => r.factory = cur

Guarded ==
    /\ TypeOK
    /\ ChartIsOfFactory
    /\ \A l \in Load : load[l] # None => LoadOf(load[l])

USE HistoryAssumption

(* What is asked for is of the page's factory. *)
LEMMA AskOf ==
    ASSUME Guarded, NEW f \in Factory, NEW chart \in SUBSET Item, Of(chart, f),
           NEW force \in BOOLEAN
    PROVE  /\ Ask(f, chart, force) \in Request
           /\ Ask(f, chart, force).factory = f
           /\ Ask(f, chart, force).answer = None
           /\ Of(Ask(f, chart, force).base, f)
<1> DEFINE base == IF cache[f] = None THEN chart ELSE cache[f].items
<1>1. base \in SUBSET Item /\ Of(base, f)
  BY DEF Guarded, TypeOK, Entry, ChartIsOfFactory, Of
<1>2. (force /\ base # {}) \in BOOLEAN
  OBVIOUS
<1> QED
  BY <1>1, <1>2 DEF Ask, Request

(* A load that is superseded keeps what it has. *)
LEMMA SupersededOf ==
    ASSUME Guarded, NEW k \in Load
    PROVE  /\ Superseded(k) \in Request \cup {None}
           /\ Superseded(k) # None =>
                /\ load[k] # None
                /\ Superseded(k).factory = load[k].factory
                /\ Superseded(k).base = load[k].base
                /\ Superseded(k).answer = load[k].answer
                /\ Superseded(k).current = FALSE
BY DEF Guarded, TypeOK, Request, Superseded

(* After a new load has begun for the page's factory, loads are in order.  *)
LEMMA StartGuarded ==
    ASSUME Guarded, NEW f \in Factory, NEW chart \in SUBSET Item, Of(chart, f),
           NEW force \in BOOLEAN, Start(f, chart, force), cur' = f
    PROVE  /\ load' \in [Load -> Request \cup {None}]
           /\ \A l \in Load : load'[l] # None => LoadOf(load[l])'
<1>1. \A k \in Load : load'[k] = IF k = Min(Idle) THEN Ask(f, chart, force) ELSE Superseded(k)
  BY DEF Start
<1>2. load' \in [Load -> Request \cup {None}]
  BY <1>1, AskOf, SupersededOf DEF Start
<1>3. ASSUME NEW k \in Load, load'[k] # None
      PROVE  LoadOf(load[k])'
  <2>1. CASE k = Min(Idle)
    <3>1. load'[k] = Ask(f, chart, force)
      BY <1>1, <2>1
    <3> QED
      BY <3>1, AskOf DEF LoadOf
  <2>2. CASE k # Min(Idle)
    <3>1. load'[k] = Superseded(k)
      BY <1>1, <2>2
    <3>2. LoadOf(load[k])
      BY <1>3, <3>1, SupersededOf DEF Guarded
    <3> QED
      BY <1>3, <3>1, <3>2, SupersededOf DEF LoadOf
  <2> QED
    BY <2>1, <2>2
<1> QED
  BY <1>2, <1>3

LEMMA InitGuarded == Init => Guarded
<1> SUFFICES ASSUME Init PROVE Guarded
  OBVIOUS
<1>1. Ask(cur, {}, FALSE) \in Request /\ LoadOf(Ask(cur, {}, FALSE))
  BY DEF Init, Ask, Request, LoadOf, Of
<1>2. \A k \in Load : load[k] # None => load[k] = Ask(cur, {}, FALSE)
  BY DEF Init
<1>3. load \in [Load -> Request \cup {None}]
  BY <1>1 DEF Init
<1>4. stored \in [Factory -> Nat] /\ replica = stored /\ \A f \in Factory : stored[f] <= MaxItems[f]
  BY DEF Init
<1>5. cache \in [Factory -> Entry \cup {None}] /\ cur \in Factory /\ data \subseteq Item
  BY DEF Init
<1>6. faults \in 0..MaxFaults /\ switches \in 0..MaxSwitches /\ clicks \in 0..MaxClicks
  BY DEF Init
<1>7. TypeOK
  BY <1>3, <1>4, <1>5, <1>6 DEF TypeOK
<1> QED
  BY <1>1, <1>2, <1>7 DEF Init, Guarded, ChartIsOfFactory

-----------------------------------------------------------------------------
(* One lemma for the actions that change what.                             *)

LEMMA ReadGuarded ==
    ASSUME Guarded, NEW l \in Load, Read(l)
    PROVE  Guarded'
<1> DEFINE r == load[l]
<1>1. r \in Request /\ LoadOf(r) /\ replica[r.factory] \in Nat /\ stored[r.factory] \in Nat
  BY DEF Read, Guarded, TypeOK, Request
<1>2. PICK n \in replica[r.factory]..stored[r.factory] :
        load' = [load EXCEPT ![l].answer =
                   IF r.since THEN Newer({r.factory} \X (1..n), r.base)
                   ELSE {r.factory} \X (1..n)]
  BY DEF Read
<1>3. n \in Nat /\ 1..n \subseteq Number
  BY <1>1 DEF Number
<1>4. {r.factory} \X (1..n) \subseteq Item /\ Of({r.factory} \X (1..n), r.factory)
  BY <1>1, <1>3 DEF Item, Of, Request
<1>5. PICK answer \in SUBSET Item :
        Of(answer, r.factory) /\ load' = [load EXCEPT ![l] = [r EXCEPT !.answer = answer]]
  BY <1>2, <1>4 DEF Newer, Of
<1>6. [r EXCEPT !.answer = answer] \in Request /\ LoadOf([r EXCEPT !.answer = answer])
  BY <1>1, <1>5 DEF Request, LoadOf
<1>7. load' \in [Load -> Request \cup {None}]
  BY <1>5, <1>6 DEF Guarded, TypeOK
<1>8. \A k \in Load : load'[k] = IF k = l THEN [r EXCEPT !.answer = answer] ELSE load[k]
  BY <1>5 DEF Guarded, TypeOK
<1>9. \A k \in Load : load'[k] # None => LoadOf(load'[k])
  BY <1>6, <1>8 DEF Guarded
<1> QED
  BY <1>7, <1>9 DEF Read, Guarded, TypeOK, ChartIsOfFactory, LoadOf, Of, table

LEMMA AnswerGuarded ==
    ASSUME Guarded, NEW l \in Load, Answer(l)
    PROVE  Guarded'
<1> DEFINE r == load[l]
           entry == [items |-> Merged(l), fresh |-> TRUE]
<1>1. r \in Request /\ r.answer # None /\ LoadOf(r)
  BY DEF Answer, Guarded, TypeOK
<1>2. Merged(l) \in SUBSET Item /\ Of(Merged(l), r.factory)
  BY <1>1 DEF Merged, Request, LoadOf, Of
<1>3. entry \in Entry /\ r.factory \in Factory
  BY <1>1, <1>2 DEF Entry, Request
<1>4. cache' = [cache EXCEPT ![r.factory] = entry]
  BY DEF Answer
<1>5. cache' \in [Factory -> Entry \cup {None}]
  BY <1>3, <1>4 DEF Guarded, TypeOK
<1>6. data' \in SUBSET Item /\ Of(data', cur)
  BY <1>1, <1>2 DEF Answer, Guarded, TypeOK, ChartIsOfFactory, LoadOf, Of
<1>7. \A f \in Factory : cache'[f] # None => Of(cache'[f].items, f)
  <2> SUFFICES ASSUME NEW f \in Factory, cache'[f] # None PROVE Of(cache'[f].items, f)
    OBVIOUS
  <2>1. CASE f = r.factory
    BY <1>2, <1>4, <2>1 DEF Guarded, TypeOK
  <2>2. CASE f # r.factory
    BY <1>4, <2>2 DEF Guarded, TypeOK, ChartIsOfFactory, Of
  <2> QED
    BY <2>1, <2>2
<1>8. load' \in [Load -> Request \cup {None}]
  BY DEF Answer, Guarded, TypeOK
<1>9. \A k \in Load : load'[k] # None => LoadOf(load'[k])
  BY DEF Answer, Guarded, TypeOK
<1>10. cur' = cur
  BY DEF Answer
<1>11. TypeOK'
  BY <1>5, <1>6, <1>8 DEF Answer, Guarded, TypeOK, table
<1>12. ChartIsOfFactory'
  BY <1>6, <1>7, <1>10 DEF ChartIsOfFactory, Of
<1> QED
  BY <1>9, <1>10, <1>11, <1>12 DEF Guarded, LoadOf

LEMMA PushGuarded ==
    ASSUME Guarded, NEW n \in 1..stored[cur], Push(n)
    PROVE  Guarded'
<1> DEFINE kept == IF cache[cur] = None THEN {} ELSE cache[cur].items
           merged == kept \cup {<<cur, n>>}
           entry == [items |-> merged, fresh |-> TRUE]
<1>1. kept \in SUBSET Item /\ Of(kept, cur)
  BY DEF Guarded, TypeOK, Entry, ChartIsOfFactory, Of
<1>2. n \in Number /\ cur \in Factory
  BY DEF Guarded, TypeOK, Number
<1>3. merged \in SUBSET Item /\ Of(merged, cur)
  BY <1>1, <1>2 DEF Item, Of
<1>4. entry \in Entry
  BY <1>3 DEF Entry
<1>5. cache' = [cache EXCEPT ![cur] = entry] /\ data' = merged
  BY DEF Push
<1>6. cache' \in [Factory -> Entry \cup {None}]
  BY <1>4, <1>5 DEF Guarded, TypeOK
<1>7. \A f \in Factory : cache'[f] # None => Of(cache'[f].items, f)
  <2> SUFFICES ASSUME NEW f \in Factory, cache'[f] # None PROVE Of(cache'[f].items, f)
    OBVIOUS
  <2>1. CASE f = cur
    BY <1>3, <1>5, <2>1 DEF Guarded, TypeOK
  <2>2. CASE f # cur
    BY <1>5, <2>2 DEF Guarded, TypeOK, ChartIsOfFactory, Of
  <2> QED
    BY <2>1, <2>2
<1>8. TypeOK'
  BY <1>3, <1>5, <1>6 DEF Push, Guarded, TypeOK, table
<1>9. ChartIsOfFactory'
  BY <1>3, <1>5, <1>7 DEF Push, ChartIsOfFactory, Of
<1> QED
  BY <1>8, <1>9 DEF Push, Guarded, LoadOf

LEMMA SwitchGuarded ==
    ASSUME Guarded, NEW f \in Factory, Switch(f)
    PROVE  Guarded'
<1>1. cur' = f /\ data' = (IF Fresh(f) THEN cache[f].items ELSE {}) /\ cache' = cache
  BY DEF Switch
<1>2. data' \in SUBSET Item /\ Of(data', f)
  BY <1>1 DEF Fresh, Guarded, TypeOK, Entry, ChartIsOfFactory, Of
<1>3. /\ load' \in [Load -> Request \cup {None}]
      /\ \A l \in Load : load'[l] # None => LoadOf(load[l])'
  <2>1. CASE Fresh(f)
    <3>1. \A l \in Load : load'[l] = Superseded(l)
      BY <2>1 DEF Switch
    <3>2. load' \in [Load -> Request \cup {None}]
      BY <2>1, SupersededOf DEF Switch
    <3>3. ASSUME NEW l \in Load, load'[l] # None PROVE LoadOf(load[l])'
      <4>1. LoadOf(load[l])
        BY <3>1, <3>3, SupersededOf DEF Guarded
      <4> QED
        BY <3>1, <3>3, <4>1, SupersededOf DEF LoadOf
    <3> QED
      BY <3>2, <3>3
  <2>2. CASE ~Fresh(f)
    <3>1. Start(f, {}, FALSE)
      BY <2>2 DEF Switch
    <3>2. Of({}, f) /\ {} \in SUBSET Item
      BY DEF Of
    <3> QED
      BY <1>1, <3>1, <3>2, StartGuarded
  <2> QED
    BY <2>1, <2>2
<1>4. TypeOK'
  BY <1>1, <1>2, <1>3 DEF Switch, Guarded, TypeOK, table
<1>5. ChartIsOfFactory'
  BY <1>1, <1>2 DEF Guarded, ChartIsOfFactory, Of
<1> QED
  BY <1>3, <1>4, <1>5 DEF Guarded

LEMMA RefreshGuarded ==
    ASSUME Guarded, Poll \/ Click
    PROVE  Guarded'
<1>1. Of(data, cur) /\ data \in SUBSET Item /\ cur \in Factory
  BY DEF Guarded, TypeOK, ChartIsOfFactory, Of
<1>2. Start(cur, data, TRUE) /\ cur' = cur /\ cache' = cache /\ data' = data
  BY DEF Poll, Click
<1>3. /\ load' \in [Load -> Request \cup {None}]
      /\ \A l \in Load : load'[l] # None => LoadOf(load[l])'
  BY <1>1, <1>2, StartGuarded
<1>4. clicks' \in 0..MaxClicks
  <2>1. CASE Poll
    BY <2>1 DEF Poll, Guarded, TypeOK
  <2>2. CASE Click
    BY <2>2 DEF Click, Guarded, TypeOK
  <2> QED
    BY <2>1, <2>2
<1> QED
  BY <1>2, <1>3, <1>4 DEF Poll, Click, Guarded, TypeOK, ChartIsOfFactory, table

-----------------------------------------------------------------------------
LEMMA NextGuarded == Guarded /\ [Next]_vars => Guarded'
<1> SUFFICES ASSUME Guarded, [Next]_vars PROVE Guarded'
  OBVIOUS
<1>1. ASSUME NEW f \in Factory, Write(f) PROVE Guarded'
  BY <1>1 DEF Write, hook, Guarded, TypeOK, ChartIsOfFactory, LoadOf, Of
<1>2. ASSUME NEW f \in Factory, Replicate(f) PROVE Guarded'
  BY <1>2 DEF Replicate, hook, Guarded, TypeOK, ChartIsOfFactory, LoadOf, Of
<1>3. ASSUME NEW f \in Factory, Expire(f) PROVE Guarded'
  <2>1. cache[f] \in Entry /\ cache' = [cache EXCEPT ![f] = [cache[f] EXCEPT !.fresh = FALSE]]
    BY <1>3 DEF Expire, Fresh, Guarded, TypeOK
  <2>2. [cache[f] EXCEPT !.fresh = FALSE] \in Entry
        /\ [cache[f] EXCEPT !.fresh = FALSE].items = cache[f].items
    BY <2>1 DEF Entry
  <2>3. cache' \in [Factory -> Entry \cup {None}]
    BY <2>1, <2>2 DEF Guarded, TypeOK
  <2>4. \A g \in Factory : cache'[g] # None => cache[g] # None /\ cache'[g].items = cache[g].items
    BY <1>3, <2>1, <2>2 DEF Expire, Fresh, Guarded, TypeOK
  <2>5. TypeOK'
    BY <1>3, <2>3 DEF Expire, Guarded, TypeOK, table
  <2>6. ChartIsOfFactory'
    BY <1>3, <2>4 DEF Expire, Guarded, ChartIsOfFactory
  <2> QED
    BY <1>3, <2>5, <2>6 DEF Expire, Guarded, LoadOf
<1>4. ASSUME NEW l \in Load, FailLoad(l) PROVE Guarded'
  BY <1>4 DEF FailLoad, Guarded, TypeOK, ChartIsOfFactory, LoadOf, Of, table
<1>5. CASE UNCHANGED vars
  BY <1>5 DEF vars, table, hook, Guarded, TypeOK, ChartIsOfFactory, LoadOf, Of
<1> QED
  BY <1>1, <1>2, <1>3, <1>4, <1>5, ReadGuarded, AnswerGuarded, PushGuarded,
     SwitchGuarded, RefreshGuarded DEF Next

(* Every variable of the hook keeps its type. *)
THEOREM TypeCorrect == Spec => []TypeOK
<1>1. Guarded => TypeOK
  BY DEF Guarded
<1> QED
  BY <1>1, InitGuarded, NextGuarded, PTL DEF Spec

(* Whatever the order in which loads are answered, messages are pushed and *)
(* the user moves, the chart is of the factory of the page and every entry *)
(* of the cache of its own.                                                *)
THEOREM ChartCorrect == Spec => []ChartIsOfFactory
<1>1. Guarded => ChartIsOfFactory
  BY DEF Guarded
<1> QED
  BY <1>1, InitGuarded, NextGuarded, PTL DEF Spec
=============================================================================

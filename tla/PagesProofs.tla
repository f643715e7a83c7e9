------------------------------ MODULE PagesProofs ------------------------------
(***************************************************************************)
(* Theorems about the two pages that refresh themselves, for every set of  *)
(* factories, any number of sockets, GETs and passes under way, and any    *)
(* bounds: FactoryPage first, then FleetTrend.                             *)
(***************************************************************************)
EXTENDS FactoryPage, FleetTrend, NaturalsInduction, WellFoundedInduction, TLAPS

-----------------------------------------------------------------------------
(* The factory page.                                                       *)

(* No version is higher than the writes so far allow. *)
Counted == \A f \in Factory : /\ replica[f] <= table[f] /\ sent[f] <= table[f]
                              /\ table[f] <= writes + 1

(* The one GET whose answer will be taken is for the factory of the page.  *)
Guarded ==
    /\ TypeOK
    /\ Counted
    /\ DataIsOfFactory
    /\ \A l \in Load : load[l] # None /\ load[l].current => load[l].factory = cur

USE PageAssumption DEF Version

LEMMA ConnectType == ASSUME NEW f \in Factory PROVE Connect(f) \in Connection
BY DEF Connect, Connection, Phase

LEMMA FetchType == ASSUME NEW f \in Factory PROVE Fetch(f) \in Get
BY DEF Fetch, Get

LEMMA InitGuarded == Init => Guarded
<1> SUFFICES ASSUME Init PROVE Guarded
  OBVIOUS
<1>1. cur \in Factory
  BY DEF Init
<1>2. chain \in [Chain -> Connection \cup {None}]
  BY <1>1, ConnectType DEF Init
<1>3. load \in [Load -> Get \cup {None}]
  BY <1>1, FetchType DEF Init
<1>4. \A l \in Load : load[l] # None => load[l].factory = cur
  BY DEF Init, Fetch
<1> QED
  BY <1>1, <1>2, <1>3, <1>4 DEF Init, Guarded, Counted, TypeOK, DataIsOfFactory, Status

(* A chain keeps its type when its queue changes or its socket is lost. *)
LEMMA QueueType ==
    ASSUME NEW conn \in Connection, NEW q \in Seq(Version)
    PROVE  [conn EXCEPT !.queue = q] \in Connection
<1> HIDE DEF Version
<1> QED
  BY DEF Connection

LEMMA ClosedType ==
    ASSUME NEW conn \in Connection
    PROVE  [conn EXCEPT !.phase = "closed", !.queue = <<>>] \in Connection
<1> HIDE DEF Version
<1>1. <<>> \in Seq(Version)
  OBVIOUS
<1>2. "closed" \in Phase
  BY DEF Phase
<1> QED
  BY <1>1, <1>2 DEF Connection

(* What a socket does to its chain keeps the type. *)
LEMMA ToType ==
    ASSUME TypeOK, NEW c \in Chain, chain[c] # None, NEW phase \in Phase, To(c, phase)
    PROVE  chain' \in [Chain -> Connection \cup {None}]
<1>1. chain[c] \in Connection
  BY DEF TypeOK
<1>2. [chain[c] EXCEPT !.phase = phase] \in Connection
  BY <1>1 DEF Connection
<1> QED
  BY <1>2 DEF To, TypeOK

(* A new GET supersedes the others. *)
LEMMA StartGuarded ==
    ASSUME TypeOK, NEW l \in Load, NEW f \in Factory, Start(l, f)
    PROVE  /\ load' \in [Load -> Get \cup {None}]
           /\ \A k \in Load : load'[k] # None /\ load'[k].current => load'[k].factory = f
<1>1. ASSUME NEW k \in Load, load[k] # None
      PROVE  /\ [load[k] EXCEPT !.current = FALSE] \in Get
             /\ [load[k] EXCEPT !.current = FALSE].current = FALSE
  BY <1>1 DEF TypeOK, Get
<1>2. Fetch(f) \in Get /\ Fetch(f).factory = f
  BY FetchType DEF Fetch
<1> QED
  BY <1>1, <1>2 DEF Start

(* A step that leaves cur, data and the GETs alone. *)
LEMMA SocketGuarded ==
    ASSUME Guarded, TypeOK', UNCHANGED <<feed, cur, data, load>>
    PROVE  Guarded'
BY DEF Guarded, Counted, DataIsOfFactory, feed

(* What the page is told of has the type of an item. *)
LEMMA ShowType ==
    ASSUME NEW f \in Factory, NEW v \in Version
    PROVE  [factory |-> f, version |-> v] \in Item
BY DEF Item

LEMMA FeedGuarded ==
    ASSUME Guarded, NEW f \in Factory, Write(f) \/ Replicate(f) \/ Publish(f)
    PROVE  Guarded'
<1>t. TypeOK
  BY DEF Guarded
<1>1. CASE Write(f)
  <2>1. Counted' /\ table' \in [Factory -> Version] /\ writes' \in 0..MaxWrites
    BY <1>1, <1>t DEF Write, Guarded, Counted, TypeOK
  <2>2. TypeOK'
    BY <1>1, <1>t, <2>1 DEF Write, TypeOK, socket, page
  <2> QED
    BY <1>1, <2>1, <2>2 DEF Write, Guarded, DataIsOfFactory, page
<1>2. CASE Replicate(f)
  <2>1. Counted' /\ replica' \in [Factory -> Version]
    BY <1>2, <1>t DEF Replicate, Guarded, Counted, TypeOK
  <2>2. TypeOK'
    BY <1>2, <1>t, <2>1 DEF Replicate, TypeOK, socket, page
  <2> QED
    BY <1>2, <2>1, <2>2 DEF Replicate, Guarded, DataIsOfFactory, page
<1>3. CASE Publish(f)
  <2>0. sent' = [sent EXCEPT ![f] = sent[f] + 1] /\ sent[f] < table[f]
        /\ UNCHANGED <<table, replica, writes>>
    BY <1>3 DEF Publish
  <2>1. Counted' /\ sent' \in [Factory -> Version]
    BY <1>t, <2>0 DEF Guarded, Counted, TypeOK
  <2>2. ASSUME NEW c \in Chain, chain[c] # None
        PROVE  [chain[c] EXCEPT !.queue = Append(@, sent'[f])] \in Connection
    <3>1. chain[c] \in Connection /\ sent'[f] \in Version
      BY <2>1, <2>2, <1>t DEF TypeOK
    <3>2. Append(chain[c].queue, sent'[f]) \in Seq(Version)
      <4> HIDE DEF Version
      <4>1. chain[c].queue \in Seq(Version)
        BY <3>1 DEF Connection
      <4> QED
        BY <3>1, <4>1
    <3> QED
      BY <3>1, <3>2, QueueType
  <2>3. chain' \in [Chain -> Connection \cup {None}]
    BY <1>3, <1>t, <2>2 DEF Publish, TypeOK
  <2>4. TypeOK'
    BY <1>3, <1>t, <2>1, <2>3 DEF Publish, TypeOK, page
  <2> QED
    BY <1>3, <2>1, <2>4 DEF Publish, Guarded, DataIsOfFactory, page
<1> QED
  BY <1>1, <1>2, <1>3

LEMMA SessionGuarded ==
    ASSUME Guarded, NEW c \in Chain, Session(c) \/ NoToken(c) \/ Lose(c)
    PROVE  Guarded'
<1>t. TypeOK
  BY DEF Guarded
<1> DEFINE Stays == UNCHANGED <<feed, cur, data, load>>
<1>1. CASE GetToken(c)
  <2>1. chain' \in [Chain -> Connection \cup {None}]
    BY <1>1, <1>t, ToType DEF GetToken, In, Phase
  <2>2. TypeOK' /\ Stays
    BY <1>1, <1>t, <2>1 DEF GetToken, TypeOK, feed, page
  <2> QED
    BY <2>2, SocketGuarded
<1>2. CASE NoToken(c)
  <2>1. TypeOK' /\ Stays
    BY <1>2, <1>t DEF NoToken, TypeOK, Status, feed, page
  <2> QED
    BY <2>1, SocketGuarded
<1>3. CASE Open(c)
  <2>1. chain' \in [Chain -> Connection \cup {None}]
    BY <1>3, <1>t, ToType DEF Open, In, Phase
  <2>2. TypeOK' /\ Stays
    BY <1>3, <1>t, <2>1 DEF Open, TypeOK, Status, feed, page
  <2> QED
    BY <2>2, SocketGuarded
<1>4. CASE Subscribe(c)
  <2>1. chain' \in [Chain -> Connection \cup {None}]
    BY <1>4, <1>t, ToType DEF Subscribe, In, Phase
  <2>2. TypeOK' /\ Stays
    BY <1>4, <1>t, <2>1 DEF Subscribe, TypeOK, feed, page
  <2> QED
    BY <2>2, SocketGuarded
<1>5. CASE Lose(c)
  <2>1. chain[c] \in Connection
    BY <1>5, <1>t DEF Lose, In, Connected, TypeOK
  <2>2. [chain[c] EXCEPT !.phase = "closed", !.queue = <<>>] \in Connection
    BY <2>1, ClosedType
  <2>3. TypeOK' /\ Stays
    BY <1>5, <1>t, <2>2 DEF Lose, TypeOK, feed, page
  <2> QED
    BY <2>3, SocketGuarded
<1>6. CASE OnClose(c)
  <2>1. To(c, "waiting") => chain' \in [Chain -> Connection \cup {None}]
    BY <1>6, <1>t, ToType DEF OnClose, In, Phase
  <2>2. chain' \in [Chain -> Connection \cup {None}]
    BY <1>6, <1>t, <2>1 DEF OnClose, TypeOK
  <2>3. retry' \in 0..MaxRetries
    BY <1>6, <1>t DEF OnClose, TypeOK
  <2>4. status' \in Status /\ timerRef' \in Chain \cup {None}
    BY <1>6, <1>t DEF OnClose, TypeOK, Status
  <2>5. TypeOK' /\ Stays
    BY <1>6, <1>t, <2>2, <2>3, <2>4 DEF OnClose, TypeOK, feed, page
  <2> QED
    BY <2>5, SocketGuarded
<1>7. CASE Reconnect(c)
  <2>1. chain' \in [Chain -> Connection \cup {None}]
    BY <1>7, <1>t, ToType DEF Reconnect, In, Phase
  <2>2. TypeOK' /\ Stays
    BY <1>7, <1>t, <2>1 DEF Reconnect, TypeOK, feed, page
  <2> QED
    BY <2>2, SocketGuarded
<1>8. CASE Receive(c)
  <2>1. chain[c] \in Connection /\ chain[c].queue \in Seq(Version) /\ chain[c].queue # <<>>
    BY <1>8, <1>t DEF Receive, In, TypeOK, Connection
  <2>2. Head(chain[c].queue) \in Version /\ Tail(chain[c].queue) \in Seq(Version)
    <3> HIDE DEF Version
    <3> QED
      BY <2>1
  <2> DEFINE message == [factory |-> chain[c].factory, version |-> Head(chain[c].queue)]
  <2>3. message \in Item
    BY <2>1, <2>2 DEF Item, Connection
  <2>4. [chain[c] EXCEPT !.queue = Tail(@)] \in Connection
    BY <2>1, <2>2, QueueType
  <2>5. chain' \in [Chain -> Connection \cup {None}]
    BY <1>8, <1>t, <2>4 DEF Receive, TypeOK
  <2>6. last' \in Item \cup {None} /\ live' \in Item \cup {None}
    BY <1>8, <1>t, <2>3 DEF Receive, Take, TypeOK
  <2>7. TypeOK' /\ Stays
    BY <1>8, <1>t, <2>5, <2>6 DEF Receive, TypeOK, feed
  <2> QED
    BY <2>7, SocketGuarded
<1> QED
  BY <1>1, <1>2, <1>3, <1>4, <1>5, <1>6, <1>7, <1>8 DEF Session

LEMMA GetGuarded ==
    ASSUME Guarded, NEW l \in Load, Read(l) \/ Answer(l) \/ FailGet(l) \/ Poll(l)
    PROVE  Guarded'
<1>t. TypeOK /\ Counted /\ DataIsOfFactory
      /\ \A k \in Load : load[k] # None /\ load[k].current => load[k].factory = cur
  BY DEF Guarded
<1>1. CASE Read(l)
  <2>1. load[l] \in Get
    BY <1>1, <1>t DEF Read, TypeOK
  <2>2. PICK v \in replica[load[l].factory]..table[load[l].factory] :
          load' = [load EXCEPT ![l].version = v]
    BY <1>1 DEF Read
  <2>3. v \in Version
    BY <1>t, <2>1, <2>2 DEF TypeOK, Get
  <2>4. [load[l] EXCEPT !.version = v] \in Get
        /\ [load[l] EXCEPT !.version = v].factory = load[l].factory
        /\ [load[l] EXCEPT !.version = v].current = load[l].current
    BY <2>1, <2>3 DEF Get
  <2>5. load' \in [Load -> Get \cup {None}]
    BY <1>t, <2>2, <2>4 DEF TypeOK
  <2>6. \A k \in Load : load'[k] # None /\ load'[k].current => load'[k].factory = cur
    BY <1>1, <1>t, <2>2, <2>4 DEF TypeOK, Read
  <2> QED
    BY <1>1, <1>t, <2>5, <2>6 DEF Read, Guarded, Counted, TypeOK, DataIsOfFactory, feed, socket
<1>2. CASE Answer(l)
  <2>1. load[l] \in Get /\ load[l].factory \in Factory /\ load[l].version \in Version
    BY <1>2, <1>t DEF Answer, TypeOK, Get
  <2> DEFINE item == [factory |-> load[l].factory, version |-> load[l].version]
  <2>2. item \in Item
    BY <2>1, ShowType
  <2>3. load' \in [Load -> Get \cup {None}]
        /\ \A k \in Load : load'[k] # None => load'[k] = load[k]
    BY <1>2, <1>t DEF Answer, TypeOK
  <2>4. CASE load[l].current
    <3>1. data' = item /\ live' = item
          /\ cache' = [cache EXCEPT ![load[l].factory] = load[l].version]
      BY <1>2, <2>4 DEF Answer, Show
    <3>2. TypeOK'
      BY <1>2, <1>t, <2>1, <2>2, <2>3, <3>1 DEF Answer, TypeOK, feed, socket
    <3>3. DataIsOfFactory'
      BY <1>2, <1>t, <2>4, <3>1 DEF Answer, DataIsOfFactory
    <3> QED
      BY <1>2, <1>t, <2>3, <3>2, <3>3 DEF Answer, Guarded, Counted, feed
  <2>5. CASE ~load[l].current
    BY <1>2, <1>t, <2>3, <2>5
       DEF Answer, Guarded, Counted, TypeOK, DataIsOfFactory, feed, socket
  <2> QED
    BY <2>4, <2>5
<1>3. CASE FailGet(l)
  <2>1. load' \in [Load -> Get \cup {None}]
        /\ \A k \in Load : load'[k] # None => load'[k] = load[k]
    BY <1>3, <1>t DEF FailGet, TypeOK
  <2> QED
    BY <1>3, <1>t, <2>1 DEF FailGet, Guarded, Counted, TypeOK, DataIsOfFactory, feed, socket
<1>4. CASE Poll(l)
  <2>1. /\ load' \in [Load -> Get \cup {None}]
        /\ \A k \in Load : load'[k] # None /\ load'[k].current => load'[k].factory = cur
    BY <1>4, <1>t, StartGuarded DEF Poll, TypeOK
  <2> QED
    BY <1>4, <1>t, <2>1 DEF Poll, Guarded, Counted, TypeOK, DataIsOfFactory, feed, socket
<1> QED
  BY <1>1, <1>2, <1>3, <1>4

(* Going to another factory leaves neither data nor a current GET behind.  *)
LEMMA SwitchGuarded == ASSUME Guarded, NEW f \in Factory, Switch(f) PROVE Guarded'
<1>t. TypeOK /\ Counted
  BY DEF Guarded
<1>1. \A c \in Chain : Cleaned(c) \in Connection \cup {None}
  <2>1. ASSUME NEW c \in Chain, chain[c] # None
        PROVE  [chain[c] EXCEPT !.phase = "closed", !.queue = <<>>] \in Connection
    BY <2>1, <1>t, ClosedType DEF TypeOK
  <2> QED
    BY <2>1, <1>t DEF Cleaned, TypeOK
<1>2. chain' \in [Chain -> Connection \cup {None}]
  BY <1>1, ConnectType DEF Switch
<1>3. /\ load' \in [Load -> Get \cup {None}]
      /\ \A k \in Load : load'[k] # None /\ load'[k].current => load'[k].factory = f
  BY <1>t, StartGuarded DEF Switch
<1> DEFINE cached == IF cache[f] = None THEN None
                     ELSE [factory |-> f, version |-> cache[f]]
<1>4. cached \in Item \cup {None} /\ (cached # None => cached.factory = f)
  BY <1>t, ShowType DEF TypeOK
<1>5. data' = cached
  BY DEF Switch, Reset, Show
<1>6. live' \in Item \cup {None}
  BY <1>t, <1>4 DEF Switch, Reset, Show, TypeOK
<1>7. TypeOK'
  BY <1>t, <1>2, <1>3, <1>4, <1>5, <1>6 DEF Switch, TypeOK, feed
<1> QED
  BY <1>t, <1>3, <1>4, <1>5, <1>7 DEF Switch, Guarded, Counted, DataIsOfFactory, feed

LEMMA NextGuarded == Guarded /\ [Next]_vars => Guarded'
<1> SUFFICES ASSUME Guarded, [Next]_vars PROVE Guarded'
  OBVIOUS
<1>1. CASE Next
  BY <1>1, FeedGuarded, SessionGuarded, GetGuarded, SwitchGuarded DEF Next
<1>2. CASE UNCHANGED vars
  BY <1>2 DEF vars, feed, socket, page, Guarded, Counted, TypeOK, DataIsOfFactory
<1> QED
  BY <1>1, <1>2

(* Every variable keeps its type, and the versions their bound. *)
THEOREM TypeCorrect == Spec => []TypeOK
<1>1. Guarded => TypeOK
  BY DEF Guarded
<1> QED
  BY <1>1, InitGuarded, NextGuarded, PTL DEF Spec

(* The answer of a GET for a factory the user has left is never taken      *)
(* (useFactory.ts 15-22, 31-37).                                           *)
THEOREM DataCorrect == Spec => []DataIsOfFactory
<1>1. Guarded => DataIsOfFactory
  BY DEF Guarded
<1> QED
  BY <1>1, InitGuarded, NextGuarded, PTL DEF Spec

(* One step shows nothing new of another factory. *)
LEMMA TurnStep ==
    ASSUME Guarded, [Next]_vars, live' # live, live' # None
    PROVE  live'.factory = cur'
<1>1. ASSUME NEW c \in Chain, Receive(c) PROVE live'.factory = cur'
  BY <1>1 DEF Receive, Take
<1>2. ASSUME NEW l \in Load, Answer(l) PROVE live'.factory = cur'
  BY <1>2 DEF Answer, Show, Guarded
<1>3. ASSUME NEW f \in Factory, Switch(f) PROVE live'.factory = cur'
  BY <1>3 DEF Switch, Reset, Show
<1> QED
  BY <1>1, <1>2, <1>3
     DEF Next, Session, Write, Replicate, Publish, GetToken, NoToken, Open, Subscribe,
         Lose, OnClose, Reconnect, Read, FailGet, Poll, page, vars

(* Neither a late answer nor the socket of another factory changes what    *)
(* the page shows to something of another factory.                         *)
THEOREM TurnsCorrect == Spec => NeverTurnsToOther
<1>1. Guarded /\ [Next]_vars
        => [live' # live /\ live' # None => live'.factory = cur']_vars
  BY TurnStep
<1> QED
  BY <1>1, InitGuarded, NextGuarded, PTL DEF Spec, NeverTurnsToOther

-----------------------------------------------------------------------------
(* A set of natural numbers has a least one: the slot that is taken. A     *)
(* bounded one has a greatest, the item asked from.                        *)
Less == OpToRel(<, Nat)

LEMMA LeastNat ==
    ASSUME NEW T, T \subseteq Nat, T # {}
    PROVE  \E x \in T : \A y \in T : x <= y
<1>1. IsWellFoundedOn(Less, Nat)
  BY NatLessThanWellFounded DEF Less
<1>2. \A x, y \in Nat : y < x => <<y, x>> \in Less
  BY DEF Less, OpToRel
<1>3. PICK x \in T : \A y \in T : ~ (<<y, x>> \in Less)
  BY <1>1, WFMin
<1>4. \A y \in T : ~(y < x)
  BY <1>2, <1>3
<1>5. \A y \in T : x <= y
  BY <1>4
<1> QED BY <1>5

LEMMA MinIs ==
    ASSUME NEW T, T \subseteq Nat, T # {}
    PROVE  Min(T) \in T
BY LeastNat DEF Min

LEMMA MaxIs ==
    ASSUME NEW n \in Nat, NEW T, T \subseteq 0..n, T # {}
    PROVE  Max(T) \in T
<1> DEFINE U == {n - y : y \in T}
<1>1. \A y \in T : y \in Int /\ y <= n /\ n - y \in Nat
  OBVIOUS
<1>2. U \subseteq Nat /\ U # {}
  BY <1>1
<1>3. PICK u \in U : \A v \in U : u <= v
  BY <1>2, LeastNat
<1>4. PICK x \in T : \A y \in T : x >= y
  <2>1. PICK x \in T : u = n - x
    OBVIOUS
  <2>2. ASSUME NEW y \in T PROVE x >= y
    <3>1. n - x <= n - y
      BY <1>3, <2>1
    <3> QED BY <1>1, <3>1
  <2> QED BY <2>2
<1> QED BY <1>4 DEF Max

-----------------------------------------------------------------------------
(* The fleet page. What a step may rely on beyond the type: one pass       *)
(* counts at most, and it asked from an item up to which the page has      *)
(* everything.                                                             *)
Extent(X) == UNION {[ids -> X] : ids \in SUBSET FleetFactory}
PassRecord ==
    {r \in [ids : SUBSET FleetFactory, since : Extent(Nat), answer : Extent(SUBSET Nat),
            current : BOOLEAN] : r.since \in [r.ids -> Nat]}

(* What a pass asked for joins what is at hand. *)
Joins(r) ==
    \A f \in r.ids :
      /\ 1..r.since[f] \subseteq ref[f]
      /\ f \in DOMAIN r.answer =>
           \E m \in 0..written[f] : r.answer[f] = (r.since[f] + 1)..m

OneCurrent(slots) ==
    \A p \in Passes : slots[p].current => \A q \in Passes : slots[q].current => p = q

FleetInv ==
    /\ FleetTypeOK /\ FleetWithoutGaps
    /\ \A f \in FleetFactory : ref[f] \subseteq 1..written[f]
    /\ round \in [Passes -> PassRecord]
    /\ OneCurrent(round)
    /\ \A p \in Passes : round[p].current => Joins(round[p])

(* The parts of the invariant that the trend is about. *)
TrendOK ==
    /\ charted \in SUBSET FleetFactory
    /\ ref \in [FleetFactory -> SUBSET (Nat \ {0})]
    /\ \A p \in Passes : round[p].current => round[p].ids = list
    /\ spinner = (\E p \in Passes : round[p].current)
    /\ FleetWithoutGaps
    /\ \A f \in FleetFactory : ref[f] \subseteq 1..written[f]
    /\ round \in [Passes -> PassRecord]
    /\ OneCurrent(round)
    /\ \A p \in Passes : round[p].current => Joins(round[p])

ListOK ==
    /\ {offered, listCache, list} \subseteq SUBSET FleetFactory
    /\ gets \in [Gets -> ListGet]

LEMMA FleetParts ==
    FleetInv <=> written \in [FleetFactory -> Nat] /\ ListOK /\ TrendOK
BY DEF FleetInv, FleetTypeOK, ListOK, TrendOK

LEMMA FleetPartsNext ==
    ASSUME written' \in [FleetFactory -> Nat], ListOK', TrendOK'
    PROVE  FleetInv'
BY DEF FleetInv, FleetTypeOK, ListOK, TrendOK

LEMMA ExtentOf ==
    ASSUME NEW X, NEW ids \in SUBSET FleetFactory, NEW h \in [ids -> X]
    PROVE  h \in Extent(X)
BY DEF Extent

LEMMA SlotsUsed ==
    /\ Gets \subseteq Nat /\ Passes \subseteq Nat /\ 1 \in Gets /\ 1 \in Passes
BY FleetAssumption DEF Gets, Passes

LEMMA NoPassType == NoPass \in PassRecord /\ ~NoPass.current
<1>1. \A X : << >> \in [{} -> X]
  OBVIOUS
<1>2. << >> \in Extent(Nat) /\ << >> \in Extent(SUBSET Nat)
  BY <1>1 DEF Extent
<1> QED BY <1>1, <1>2 DEF NoPass, PassRecord

LEMMA AskListType ==
    ASSUME NEW slots \in [Gets -> ListGet], Free(slots) # {}
    PROVE  AskList(slots) \in [Gets -> ListGet]
<1>1. Free(slots) \subseteq Gets
  BY DEF Free
<1>2. Min(Free(slots)) \in Gets
  BY <1>1, MinIs, SlotsUsed
<1>3. [NoGet EXCEPT !.state = "asked", !.mounted = TRUE] \in ListGet
  BY DEF NoGet, ListGet
<1> QED BY <1>2, <1>3 DEF AskList

(* A pass over factories whose items have no gap. *)
LEMMA AskedJoins ==
    ASSUME NEW ids \in SUBSET FleetFactory, NEW items \in [FleetFactory -> SUBSET (Nat \ {0})],
           written \in [FleetFactory -> Nat],
           \A f \in FleetFactory : items[f] \subseteq 1..written[f],
           \A f \in FleetFactory : \A n \in items[f] : 1..n \subseteq items[f]
    PROVE  /\ Asked(ids, items) \in PassRecord
           /\ Asked(ids, items).ids = ids /\ Asked(ids, items).current
           /\ \A f \in ids :
                /\ 1..Asked(ids, items).since[f] \subseteq items[f]
                /\ f \notin DOMAIN Asked(ids, items).answer
<1> DEFINE since == [f \in ids |-> Max(items[f] \cup {0})]
<1>1. ASSUME NEW f \in ids
      PROVE  since[f] \in Nat /\ 1..since[f] \subseteq items[f]
  <2>1. items[f] \cup {0} \subseteq 0..written[f] /\ items[f] \cup {0} # {}
    OBVIOUS
  <2>2. Max(items[f] \cup {0}) \in items[f] \cup {0}
    BY <2>1, MaxIs
  <2>3. CASE since[f] \in items[f]
    BY <2>3
  <2>4. CASE since[f] = 0
    <3>1. 1..0 = {}
      OBVIOUS
    <3> HIDE DEF since
    <3> QED BY <2>4, <3>1
  <2> QED BY <2>2, <2>3, <2>4
<1>2. since \in Extent(Nat)
  BY <1>1 DEF Extent
<1>3. << >> \in Extent(SUBSET Nat) /\ DOMAIN << >> = {}
  BY NoPassType DEF NoPass, PassRecord
<1>4. Asked(ids, items) = [ids |-> ids, since |-> since, answer |-> << >>, current |-> TRUE]
  BY DEF Asked
<1>5. since \in [ids -> Nat]
  BY <1>1
<1> HIDE DEF since
<1> QED BY <1>1, <1>2, <1>3, <1>4, <1>5 DEF PassRecord

(* requestSeq leaves no pass that counts. *)
LEMMA OutrunType ==
    ASSUME round \in [Passes -> PassRecord]
    PROVE  /\ Outrun(round) \in [Passes -> PassRecord]
           /\ \A p \in Passes : ~Outrun(round)[p].current
BY DEF Outrun, PassRecord

LEMMA FleetStarts == FleetStart => FleetInv
<1> SUFFICES ASSUME FleetStart PROVE FleetInv
  OBVIOUS
<1>1. [g \in Gets |-> NoGet] \in [Gets -> ListGet]
  BY DEF NoGet, ListGet
<1>2. Free([g \in Gets |-> NoGet]) # {}
  BY SlotsUsed DEF Free
<1>3. gets \in [Gets -> ListGet]
  BY <1>1, <1>2, AskListType DEF FleetStart
<1>4. ListOK
  BY <1>3 DEF FleetStart, ListOK
<1>5. round \in [Passes -> PassRecord] /\ \A p \in Passes : ~round[p].current
  BY NoPassType DEF FleetStart
<1>6. TrendOK
  BY <1>5 DEF FleetStart, TrendOK, FleetWithoutGaps, OneCurrent
<1> QED BY <1>4, <1>6, FleetParts DEF FleetStart

(* A refresh, for the list that is on the page after the step. *)
LEMMA RefreshOK ==
    ASSUME FleetInv, list' \in SUBSET FleetFactory, RefreshTrend(list'), written' = written
    PROVE  TrendOK'
<1> USE DEF FleetInv, FleetTypeOK
<1>1. CASE list' # {} /\ Pass(list')
  <2>1. /\ Free(round) # {} /\ spinner' = TRUE /\ ref' = ref /\ charted' = charted
        /\ round' = [Outrun(round) EXCEPT ![Min(Free(round))] = Asked(list', ref)]
    BY <1>1 DEF Pass
  <2>2. PICK p \in Passes : p = Min(Free(round))
    <3>1. Free(round) \subseteq Passes
      BY DEF Free
    <3> QED BY <2>1, <3>1, MinIs, SlotsUsed
  <2>3. \A q \in Passes : round'[q] = IF q = p THEN Asked(list', ref) ELSE Outrun(round)[q]
    BY <2>1, <2>2, OutrunType
  <2>4. /\ Asked(list', ref) \in PassRecord
        /\ Asked(list', ref).ids = list' /\ Asked(list', ref).current
        /\ \A f \in list' :
             /\ 1..Asked(list', ref).since[f] \subseteq ref[f]
             /\ f \notin DOMAIN Asked(list', ref).answer
    BY AskedJoins DEF FleetWithoutGaps
  <2>5. round' \in [Passes -> PassRecord]
    BY <2>1, <2>2, <2>4, OutrunType
  <2>6. \A q \in Passes : round'[q].current <=> q = p
    BY <2>3, <2>4, OutrunType
  <2>7. \A q \in Passes : round'[q].current => round'[q].ids = list' /\ Joins(round[q])'
    BY <2>1, <2>3, <2>4, <2>6 DEF Joins
  <2> QED BY <2>1, <2>5, <2>6, <2>7 DEF TrendOK, FleetWithoutGaps, OneCurrent
<1>2. CASE list' = {} /\ NoFactories
  <2>1. /\ round' = Outrun(round) /\ charted' = {} /\ spinner' = FALSE /\ ref' = ref
    BY <1>2 DEF NoFactories
  <2> QED BY <2>1, OutrunType DEF TrendOK, FleetWithoutGaps, OneCurrent
<1> QED BY <1>1, <1>2 DEF RefreshTrend

(* Whatever leaves the hook of the trend alone. *)
LEMMA TrendRests ==
    ASSUME FleetInv, UNCHANGED trend, list' = list,
           written' \in [FleetFactory -> Nat],
           \A f \in FleetFactory : written[f] <= written'[f]
    PROVE  TrendOK'
<1>1. \A f \in FleetFactory : 0..written[f] \subseteq 0..written'[f] /\ 1..written[f] \subseteq 1..written'[f]
  BY DEF FleetInv, FleetTypeOK
<1>2. ASSUME NEW p \in Passes, round[p].current PROVE Joins(round[p])'
  <2>1. Joins(round[p]) /\ round'[p] = round[p] /\ ref' = ref /\ round[p].ids \subseteq FleetFactory
    BY <1>2 DEF FleetInv, trend, PassRecord
  <2> QED BY <1>1, <2>1 DEF Joins
<1>3. \A f \in FleetFactory : ref'[f] \subseteq 1..written'[f]
  BY <1>1 DEF FleetInv, trend
<1> QED BY <1>2, <1>3 DEF FleetInv, FleetTypeOK, TrendOK, FleetWithoutGaps, OneCurrent, trend

LEMMA TrendKept ==
    ASSUME FleetInv, UNCHANGED trend, list' = list, written' = written
    PROVE  TrendOK'
<1>1. written' \in [FleetFactory -> Nat] /\ \A f \in FleetFactory : written[f] <= written'[f]
  BY DEF FleetInv, FleetTypeOK
<1> QED BY <1>1, TrendRests

LEMMA TableOK ==
    ASSUME FleetInv, NEW f \in FleetFactory, NEW ids \in SUBSET FleetFactory,
           AddItem(f) \/ Relist(ids)
    PROVE  FleetInv'
<1>1. /\ written' \in [FleetFactory -> Nat] /\ \A g \in FleetFactory : written[g] <= written'[g]
      /\ UNCHANGED trend /\ UNCHANGED <<list, listCache, gets>>
      /\ offered' \in SUBSET FleetFactory
  <2>1. written \in [FleetFactory -> Nat] /\ offered \in SUBSET FleetFactory
    BY DEF FleetInv, FleetTypeOK
  <2>2. CASE AddItem(f)
    BY <2>1, <2>2 DEF AddItem
  <2>3. CASE Relist(ids)
    BY <2>1, <2>3 DEF Relist
  <2> QED BY <2>2, <2>3
<1>2. ListOK'
  BY <1>1, FleetParts DEF ListOK
<1> QED BY <1>1, <1>2, TrendRests, FleetPartsNext

LEMMA ListStepOK ==
    ASSUME FleetInv, NEW g \in Gets, ReadList(g) \/ AnswerList(g) \/ FailList(g)
    PROVE  FleetInv'
<1> USE DEF FleetInv, FleetTypeOK
<1>1. /\ gets[g] \in ListGet /\ NoGet \in ListGet
      /\ gets[g].ids \in SUBSET FleetFactory
      /\ [gets[g] EXCEPT !.state = "answered", !.ids = offered] \in ListGet
  BY DEF ListGet, NoGet
<1>2. CASE ReadList(g)
  <2>1. /\ gets' = [gets EXCEPT ![g].state = "answered", ![g].ids = offered]
        /\ UNCHANGED <<written, offered, listCache, list, trend>>
    BY <1>2 DEF ReadList, fleetTable
  <2>2. gets' \in [Gets -> ListGet]
    BY <1>1, <2>1 DEF ListGet
  <2> QED BY <2>1, <2>2, TrendKept, FleetPartsNext DEF ListOK
<1>3. CASE FailList(g)
  <2>1. /\ gets' = [gets EXCEPT ![g] = NoGet]
        /\ UNCHANGED <<written, offered, listCache, list, trend>>
    BY <1>3 DEF FailList, fleetTable
  <2>2. gets' \in [Gets -> ListGet]
    BY <1>1, <2>1
  <2> QED BY <2>1, <2>2, TrendKept, FleetPartsNext DEF ListOK
<1>4. CASE AnswerList(g)
  <2>1. /\ gets' = [gets EXCEPT ![g] = NoGet] /\ listCache' = gets[g].ids
        /\ list' = IF gets[g].mounted THEN gets[g].ids ELSE list
        /\ UNCHANGED <<written, offered>>
    BY <1>4 DEF AnswerList, fleetTable
  <2>2. gets' \in [Gets -> ListGet] /\ list' \in SUBSET FleetFactory
    BY <1>1, <2>1
  <2>3. ListOK'
    BY <1>1, <2>1, <2>2 DEF ListOK
  <2>4. TrendOK'
    <3>1. CASE list' # list /\ RefreshTrend(list')
      BY <2>1, <2>2, <3>1, RefreshOK
    <3>2. CASE list' = list /\ UNCHANGED trend
      BY <2>1, <3>2, TrendKept
    <3> QED BY <1>4, <3>1, <3>2 DEF AnswerList
  <2> QED BY <2>1, <2>3, <2>4, FleetPartsNext
<1> QED BY <1>2, <1>3, <1>4

(* A query is answered with the items after the ones at hand. *)
LEMMA ReadItemsOK ==
    ASSUME FleetInv, NEW p \in Passes, NEW f \in FleetFactory, ReadItems(p, f)
    PROVE  FleetInv'
<1> USE DEF FleetInv, FleetTypeOK
<1> DEFINE came == [g \in DOMAIN round[p].answer \cup {f} |->
                      IF g = f THEN (round[p].since[f] + 1)..written[f] ELSE round[p].answer[g]]
<1>1. /\ f \in round[p].ids /\ f \notin DOMAIN round[p].answer
      /\ round' = [round EXCEPT ![p].answer = came]
      /\ UNCHANGED <<written, offered, listCache, list, gets, ref, charted, spinner>>
  BY DEF ReadItems, fleetTable
<1>2. round[p] \in PassRecord
  OBVIOUS
<1>3. round[p].answer \in Extent(SUBSET Nat)
  BY <1>2 DEF PassRecord
<1>4. PICK ids \in SUBSET FleetFactory : round[p].answer \in [ids -> SUBSET Nat]
  BY <1>3 DEF Extent
<1>5. round' \in [Passes -> PassRecord]
  <2>1. round[p].since[f] \in Nat
    BY <1>1, <1>2 DEF PassRecord
  <2>2. (round[p].since[f] + 1)..written[f] \in SUBSET Nat
    BY <2>1
  <2>3. came \in [ids \cup {f} -> SUBSET Nat]
    BY <1>4, <2>2
  <2> HIDE DEF came
  <2>4. came \in Extent(SUBSET Nat)
    <3>1. ids \cup {f} \in SUBSET FleetFactory
      OBVIOUS
    <3> QED BY <2>3, <3>1, ExtentOf
  <2> QED BY <1>1, <1>2, <2>4 DEF PassRecord
<1>6. \A q \in Passes : /\ round'[q].current = round[q].current
                        /\ round'[q].ids = round[q].ids
                        /\ round'[q].since = round[q].since
                        /\ round'[q].answer = IF q = p THEN came ELSE round[q].answer
  <2> HIDE DEF came
  <2> QED BY <1>1, <1>2 DEF PassRecord
<1>7. ASSUME NEW q \in Passes, round'[q].current PROVE Joins(round[q])'
  <2>3. /\ came[f] = (round[p].since[f] + 1)..written[f] /\ written[f] \in 0..written[f]
        /\ \A g \in DOMAIN came : g # f => g \in DOMAIN round[p].answer /\ came[g] = round[p].answer[g]
    OBVIOUS
  <2> HIDE DEF came, FleetInv, FleetTypeOK
  <2>1. Joins(round[q]) /\ round[q] \in PassRecord
    BY <1>6, <1>7 DEF FleetInv
  <2>2. ASSUME NEW g \in round[q].ids, g \in DOMAIN round'[q].answer
        PROVE  \E m \in 0..written[g] : round'[q].answer[g] = (round[q].since[g] + 1)..m
    <3>1. CASE q = p /\ g = f
      BY <1>6, <2>3, <3>1
    <3>2. CASE ~(q = p /\ g = f)
      <4>1. g \in DOMAIN round[q].answer /\ round'[q].answer[g] = round[q].answer[g]
        BY <1>6, <2>2, <2>3, <3>2
      <4> QED BY <2>1, <4>1 DEF Joins
    <3> QED BY <3>1, <3>2
  <2> QED BY <1>1, <1>6, <2>1, <2>2 DEF Joins
<1>8. TrendOK'
  <2> HIDE DEF came
  <2> QED BY <1>1, <1>5, <1>6, <1>7 DEF TrendOK, FleetWithoutGaps, OneCurrent
<1>9. ListOK'
  BY <1>1 DEF ListOK
<1> QED BY <1>1, <1>8, <1>9, FleetPartsNext

(* The pass that counts brings the items after the ones at hand; what any  *)
(* other pass brings is dropped.                                           *)
LEMMA PassEndsOK ==
    ASSUME FleetInv, NEW p \in Passes, AnswerPass(p) \/ FailPass(p)
    PROVE  FleetInv' /\ (<<ref, charted>>' # <<ref, charted>> /\ charted' # {} => charted' = list')
<1> USE DEF FleetInv, FleetTypeOK
<1>1. /\ round' = [round EXCEPT ![p] = NoPass]
      /\ UNCHANGED <<written, offered, listCache, list, gets>>
  BY DEF AnswerPass, FailPass, fleetTable
<1>2. /\ round' \in [Passes -> PassRecord]
      /\ \A q \in Passes : round'[q] = IF q = p THEN NoPass ELSE round[q]
  BY <1>1, NoPassType
<1>3. ListOK'
  BY <1>1 DEF ListOK
<1>4. CASE UNCHANGED <<ref, charted>> /\ spinner' = (spinner /\ ~round[p].current)
  <2>1. spinner' = (\E q \in Passes : round'[q].current)
    BY <1>2, <1>4, NoPassType DEF OneCurrent
  <2>2. ASSUME NEW q \in Passes, round'[q].current PROVE round'[q].ids = list' /\ Joins(round[q])'
    BY <1>1, <1>2, <1>4, <2>2, NoPassType DEF Joins
  <2>3. TrendOK'
    BY <1>1, <1>2, <1>4, <2>1, <2>2, NoPassType DEF TrendOK, FleetWithoutGaps, OneCurrent
  <2> QED BY <1>1, <1>3, <1>4, <2>3, FleetPartsNext
<1>5. CASE /\ AnswerPass(p) /\ round[p].current
           /\ ref' = ByFactory(p) /\ charted' = round[p].ids /\ spinner' = FALSE
  <2>1. /\ Joins(round[p]) /\ round[p] \in PassRecord /\ round[p].ids = list
        /\ DOMAIN round[p].answer = round[p].ids /\ round[p].ids \subseteq FleetFactory
    BY <1>5 DEF AnswerPass, Answered, PassRecord
  <2>2. \A q \in Passes : ~round'[q].current
    BY <1>2, <1>5, NoPassType DEF OneCurrent
  <2>3. ASSUME NEW f \in FleetFactory
        PROVE  ref'[f] \subseteq 1..written[f] /\ \A n \in ref'[f] : 1..n \subseteq ref'[f]
    <3>1. CASE f \in round[p].ids
      <4>1. ref'[f] = ref[f] \cup round[p].answer[f]
        BY <1>5, <3>1 DEF ByFactory
      <4>2. round[p].since[f] \in Nat /\ 1..round[p].since[f] \subseteq ref[f]
        BY <2>1, <3>1 DEF Joins, PassRecord
      <4>3. PICK m \in 0..written[f] : round[p].answer[f] = (round[p].since[f] + 1)..m
        BY <2>1, <3>1 DEF Joins
      <4>4. ref[f] \subseteq 1..written[f] /\ (\A n \in ref[f] : 1..n \subseteq ref[f]) /\ written[f] \in Nat
        BY DEF FleetWithoutGaps
      <4>5. ref'[f] \subseteq 1..written[f]
        BY <4>1, <4>2, <4>3, <4>4
      <4>6. ASSUME NEW n \in ref'[f] PROVE 1..n \subseteq ref'[f]
        <5>1. CASE n \in ref[f]
          BY <4>1, <4>4, <5>1
        <5>2. CASE n \in (round[p].since[f] + 1)..m
          <6>1. 1..n \subseteq (1..round[p].since[f]) \cup ((round[p].since[f] + 1)..m)
            BY <4>2, <4>3, <4>4, <5>2
          <6> QED BY <4>1, <4>2, <4>3, <6>1
        <5> QED BY <4>1, <4>3, <4>6, <5>1, <5>2
      <4> QED BY <4>5, <4>6
    <3>2. CASE f \notin round[p].ids
      BY <1>5, <3>2 DEF ByFactory
    <3> QED BY <3>1, <3>2
  <2>4. ref' \in [FleetFactory -> SUBSET (Nat \ {0})]
    <3>1. ref' = [f \in FleetFactory |-> ref'[f]]
      BY <1>5 DEF ByFactory
    <3>2. \A f \in FleetFactory : ref'[f] \in SUBSET (Nat \ {0})
      BY <2>3
    <3> QED BY <3>1, <3>2
  <2>5. TrendOK'
    BY <1>1, <1>2, <1>5, <2>1, <2>2, <2>3, <2>4 DEF TrendOK, FleetWithoutGaps, OneCurrent
  <2> QED BY <1>1, <1>3, <1>5, <2>1, <2>5, FleetPartsNext
<1>6. CASE AnswerPass(p) /\ ~round[p].current /\ UNCHANGED <<ref, charted, spinner>>
  <2>1. spinner' = (spinner /\ ~round[p].current)
    BY <1>6
  <2> QED BY <1>4, <1>6, <2>1
<1> QED BY <1>4, <1>5, <1>6 DEF AnswerPass, FailPass

LEMMA RefreshesOK ==
    ASSUME FleetInv, RefreshByHand \/ RefreshByTimer
    PROVE  FleetInv' /\ UNCHANGED ref /\ charted' \in {charted, {}}
<1>1. /\ Free(gets) # {} /\ gets' = AskList(gets) /\ RefreshTrend(list)
      /\ UNCHANGED <<written, offered, listCache, list>>
  BY DEF RefreshByHand, RefreshByTimer, Refresh, fleetTable
<1>2. list' \in SUBSET FleetFactory /\ RefreshTrend(list')
  BY <1>1 DEF FleetInv, FleetTypeOK
<1>3. TrendOK'
  BY <1>1, <1>2, RefreshOK
<1>4. ListOK'
  BY <1>1, AskListType DEF ListOK, FleetInv, FleetTypeOK
<1>5. written' \in [FleetFactory -> Nat]
  BY <1>1 DEF FleetInv, FleetTypeOK
<1> QED BY <1>1, <1>3, <1>4, <1>5, FleetPartsNext DEF RefreshTrend, Pass, NoFactories

(* The page starts afresh, from the cached list. *)
LEMMA ReturnOK == FleetInv /\ Return => FleetInv'
<1> SUFFICES ASSUME FleetInv, Return PROVE FleetInv'
  OBVIOUS
<1> USE DEF FleetInv, FleetTypeOK
<1> DEFINE left == [g \in Gets |-> [gets[g] EXCEPT !.mounted = FALSE]]
<1>1. /\ Free(gets) # {} /\ gets' = AskList(left) /\ list' = listCache
      /\ ref' = [f \in FleetFactory |-> {}] /\ charted' = {}
      /\ round' = [p \in Passes |-> IF p = 1 /\ list' # {} THEN Asked(list', ref') ELSE NoPass]
      /\ spinner' = (list' # {})
      /\ UNCHANGED <<written, offered, listCache>>
  BY DEF Return, fleetTable
<1>2. left \in [Gets -> ListGet]
  BY DEF ListGet
<1>3. Free(left) # {}
  <2>1. PICK g \in Gets : gets[g] \in {NoGet, NoPass}
    BY <1>1 DEF Free
  <2>2. gets[g] = NoGet
    <3>1. "state" \in DOMAIN gets[g]
      BY DEF ListGet
    <3>2. "state" \notin DOMAIN NoPass
      BY DEF NoPass
    <3> QED BY <2>1, <3>1, <3>2
  <2>3. left[g] = NoGet
    <3>1. left[g] = [NoGet EXCEPT !.mounted = FALSE]
      BY <2>2
    <3>2. NoGet \in ListGet /\ NoGet.mounted = FALSE
      BY DEF NoGet, ListGet
    <3>3. [NoGet EXCEPT !.mounted = FALSE] = NoGet
      BY <3>2 DEF ListGet
    <3> QED BY <3>1, <3>3
  <2> QED BY <2>3 DEF Free
<1>4. ListOK'
  <2> HIDE DEF left
  <2> QED BY <1>1, <1>2, <1>3, AskListType DEF ListOK
<1>5. list' \in SUBSET FleetFactory /\ ref' \in [FleetFactory -> SUBSET (Nat \ {0})]
  BY <1>1
<1>6. /\ Asked(list', ref') \in PassRecord
      /\ Asked(list', ref').ids = list' /\ Asked(list', ref').current
      /\ \A f \in list' : /\ 1..Asked(list', ref').since[f] \subseteq ref'[f]
                          /\ f \notin DOMAIN Asked(list', ref').answer
  BY <1>1, <1>5, AskedJoins
<1>7. round' \in [Passes -> PassRecord]
  BY <1>1, <1>6, NoPassType
<1>8. \A p \in Passes : round'[p].current <=> p = 1 /\ list' # {}
  BY <1>1, <1>6, NoPassType
<1>9. ASSUME NEW p \in Passes, round'[p].current PROVE round'[p].ids = list' /\ Joins(round[p])'
  BY <1>1, <1>6, <1>8, <1>9 DEF Joins
<1>10. TrendOK'
  BY <1>1, <1>5, <1>7, <1>8, <1>9, SlotsUsed DEF TrendOK, FleetWithoutGaps, OneCurrent
<1> QED BY <1>1, <1>4, <1>10, FleetPartsNext

LEMMA FleetStep == FleetInv /\ [FleetNext]_fleetVars => FleetInv'
<1> SUFFICES ASSUME FleetInv, [FleetNext]_fleetVars PROVE FleetInv'
  OBVIOUS
<1>1. ASSUME NEW f \in FleetFactory, AddItem(f) PROVE FleetInv'
  <2>1. {} \in SUBSET FleetFactory
    OBVIOUS
  <2> QED BY <1>1, <2>1, TableOK
<1>2. ASSUME NEW ids \in SUBSET FleetFactory, Relist(ids) PROVE FleetInv'
  <2>1. /\ written' \in [FleetFactory -> Nat] /\ UNCHANGED <<written, trend, list, listCache, gets>>
        /\ offered' \in SUBSET FleetFactory
    BY <1>2 DEF Relist, FleetInv, FleetTypeOK
  <2>2. ListOK' /\ TrendOK'
    BY <2>1, TrendKept DEF ListOK, FleetInv, FleetTypeOK
  <2> QED BY <2>1, <2>2, FleetPartsNext
<1>3. ASSUME NEW g \in Gets, ReadList(g) \/ AnswerList(g) \/ FailList(g) PROVE FleetInv'
  BY <1>3, ListStepOK
<1>4. ASSUME NEW p \in Passes, PassStep(p) \/ FailPass(p) PROVE FleetInv'
  BY <1>4, ReadItemsOK, PassEndsOK DEF PassStep
<1>5. CASE RefreshByHand \/ RefreshByTimer
  BY <1>5, RefreshesOK
<1>6. CASE Return
  BY <1>6, ReturnOK
<1>7. CASE UNCHANGED fleetVars
  <2>1. /\ UNCHANGED <<written, trend, list, offered, listCache, gets>>
        /\ written' \in [FleetFactory -> Nat]
    BY <1>7 DEF fleetVars, fleetTable, FleetInv, FleetTypeOK
  <2>2. ListOK' /\ TrendOK'
    BY <2>1, TrendKept DEF ListOK, FleetInv, FleetTypeOK
  <2> QED BY <2>1, <2>2, FleetPartsNext
<1> QED BY <1>1, <1>2, <1>3, <1>4, <1>5, <1>6, <1>7 DEF FleetNext

(* useFleetRecentChanges.ts and useFactories.ts: the histories of the      *)
(* fleet page never have a gap, its flag is up exactly while a pass that   *)
(* counts is under way, and that pass is for the list on the page,         *)
(* whatever GETs and passes overlap, fail or are left behind.              *)
THEOREM FleetCorrect == FleetSpec => []FleetConsistent
<1>1. FleetInv => FleetConsistent
  BY DEF FleetInv, FleetConsistent
<1> QED BY <1>1, FleetStarts, FleetStep, PTL DEF FleetSpec

(* requestSeq in useFleetRecentChanges.ts: histories put on the page are   *)
(* those of the factories it lists at that moment.                         *)
THEOREM ShownCorrect == FleetSpec => ShownForList
<1>1. ASSUME FleetInv, [FleetNext]_fleetVars
      PROVE  [<<ref, charted>>' # <<ref, charted>> /\ charted' # {} => charted' = list']_fleetVars
  <2>1. ASSUME NEW p \in Passes, AnswerPass(p) \/ FailPass(p)
        PROVE  <<ref, charted>>' # <<ref, charted>> /\ charted' # {} => charted' = list'
    BY <1>1, <2>1, PassEndsOK
  <2>2. ASSUME NEW p \in Passes, NEW f \in FleetFactory, ReadItems(p, f)
        PROVE  <<ref, charted>>' = <<ref, charted>>
    BY <2>2 DEF ReadItems
  <2>3. CASE RefreshByHand \/ RefreshByTimer
    BY <1>1, <2>3, RefreshesOK
  <2>4. CASE Return
    BY <2>4 DEF Return
  <2>5. ASSUME NEW g \in Gets, ReadList(g) \/ AnswerList(g) \/ FailList(g)
        PROVE  ref' = ref /\ charted' \in {charted, {}}
    BY <2>5 DEF ReadList, AnswerList, FailList, trend, RefreshTrend, Pass, NoFactories
  <2>6. ASSUME NEW f \in FleetFactory, AddItem(f)
        PROVE  <<ref, charted>>' = <<ref, charted>>
    BY <2>6 DEF AddItem, trend
  <2>7. ASSUME NEW ids \in SUBSET FleetFactory, Relist(ids)
        PROVE  <<ref, charted>>' = <<ref, charted>>
    BY <2>7 DEF Relist, trend
  <2> QED BY <1>1, <2>1, <2>2, <2>3, <2>4, <2>5, <2>6, <2>7 DEF FleetNext, PassStep
<1>2. FleetInv /\ [FleetNext]_fleetVars =>
        [<<ref, charted>>' # <<ref, charted>> /\ charted' # {} => charted' = list']_fleetVars
  BY <1>1
<1> QED BY <1>2, FleetStarts, FleetStep, PTL DEF FleetSpec, ShownForList
=============================================================================

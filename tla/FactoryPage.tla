---------------------------- MODULE FactoryPage ----------------------------
(***************************************************************************)
(* The factory page of dashboard-web and what feeds it: GET                *)
(* /factories/{id} through useFactory, and the WebSocket that useWebSocket *)
(* opens to /ws/factories/{id}, where the backend passes on what the       *)
(* notifier publishes for that factory.  /factory/:factoryId keeps one     *)
(* component instance: going to another factory re-runs the hooks' effects *)
(* and leaves their refs and states, the answers, sockets and timers under *)
(* way as they are.                                                        *)
(*                                                                         *)
(* An item of LATEST is its factory and a version.  A handler and the      *)
(* React effects that follow it are one action.  Left out: unmounting the  *)
(* page, the notifier's repeated publications (module Notifier), onerror,  *)
(* which only precedes onclose, and the header's trend.                    *)
(***************************************************************************)
EXTENDS Naturals, Sequences

CONSTANTS
    Factory,
    Chain,        \* slots for connect() and all that its closure starts
    Load,         \* slots for GETs under way
    MaxWrites,    \* bound on the writes of LATEST items
    MaxRetries,   \* MAX_RETRIES, 5 in the code
    MaxFaults,    \* bound on lost sockets, refused sockets and failed GETs
    MaxSwitches,  \* bound on the user's moves between factories
    Polling,      \* has the user chosen a refresh interval (0 by default)?
    None

ASSUME PageAssumption ==
    /\ MaxWrites \in Nat /\ MaxRetries \in Nat
    /\ MaxFaults \in Nat /\ MaxSwitches \in Nat
    /\ Polling \in BOOLEAN
    /\ None \notin Factory /\ None \notin Chain /\ None \notin Nat

VARIABLES
    table,    \* the version of each factory's LATEST item
    replica,  \* the version any eventually consistent read is sure to see
    sent,     \* the version that was last published
    cur,      \* factoryId of the page
    chain,    \* what each connect() has come to
    wsRef, timerRef, retry, status,   \* refs and state of useWebSocket
    last,     \* lastMessage
    cache,    \* the module's _cache of useFactory
    data,     \* state of useFactory
    load,     \* its GETs under way
    live,     \* liveData, what the page shows
    writes, faults, switches   \* how often, each bounded

feed == <<table, replica, sent, writes>>
socket == <<chain, wsRef, timerRef, retry, status>>
page == <<last, cache, data, load, live>>
vars == <<feed, cur, socket, page, faults, switches>>

Version == 1..(MaxWrites + 1)
Item == [factory: Factory, version: Version]
Phase == {"token", "connecting", "open", "subscribed", "closed", "waiting"}
Connection == [factory: Factory, phase: Phase, queue: Seq(Version)]
Get == [factory: Factory, version: Version \cup {None}, current: BOOLEAN]
Status == {"connecting", "connected", "reconnecting", "offline"}

Connect(f) == [factory |-> f, phase |-> "token", queue |-> <<>>]
Fetch(f) == [factory |-> f, version |-> None, current |-> TRUE]

Init ==
    /\ table = [f \in Factory |-> 1]
    /\ replica = table /\ sent = table
    /\ cur \in Factory
    /\ \E c \in Chain : chain = [d \in Chain |-> IF d = c THEN Connect(cur) ELSE None]
    /\ wsRef = None /\ timerRef = None /\ retry = 0 /\ status = "connecting"
    /\ last = None /\ data = None /\ live = None
    /\ cache = [f \in Factory |-> None]
    /\ \E l \in Load : load = [k \in Load |-> IF k = l THEN Fetch(cur) ELSE None]
    /\ writes = 0 /\ faults = 0 /\ switches = 0

-----------------------------------------------------------------------------
(* The feed: LATEST, its replicas and the notifier's publications.         *)

Write(f) ==
    /\ writes < MaxWrites
    /\ writes' = writes + 1
    /\ table' = [table EXCEPT ![f] = @ + 1]
    /\ UNCHANGED <<replica, sent, cur, socket, page, faults, switches>>

Replicate(f) ==
    /\ replica[f] < table[f]
    /\ replica' = [replica EXCEPT ![f] = @ + 1]
    /\ UNCHANGED <<table, sent, writes, cur, socket, page, faults, switches>>

(* Redis keeps nothing: only the sessions subscribed by now get it.        *)
Publish(f) ==
    /\ sent[f] < table[f]
    /\ sent' = [sent EXCEPT ![f] = @ + 1]
    /\ chain' = [c \in Chain |->
         IF chain[c] # None /\ chain[c].factory = f /\ chain[c].phase = "subscribed"
         THEN [chain[c] EXCEPT !.queue = Append(@, sent'[f])] ELSE chain[c]]
    /\ UNCHANGED <<table, replica, writes, cur, wsRef, timerRef, retry, status,
                   page, faults, switches>>

-----------------------------------------------------------------------------
(* useWebSocket, and ws_factory at the other end of the socket.            *)

In(c, phase) == chain[c] # None /\ chain[c].phase = phase
To(c, phase) == chain' = [chain EXCEPT ![c].phase = phase]

Connected(c) == In(c, "open") \/ In(c, "subscribed")

(* getAccessToken() yields a token: the socket is created. *)
GetToken(c) ==
    /\ In(c, "token")
    /\ To(c, "connecting")
    /\ wsRef' = c
    /\ UNCHANGED <<feed, cur, timerRef, retry, status, page, faults, switches>>

(* There is no token: the chain ends. *)
NoToken(c) ==
    /\ In(c, "token") /\ faults < MaxFaults
    /\ faults' = faults + 1
    /\ chain' = [chain EXCEPT ![c] = None]
    /\ status' = "offline"
    /\ UNCHANGED <<feed, cur, wsRef, timerRef, retry, page, switches>>

(* The backend accepts; onopen. *)
Open(c) ==
    /\ In(c, "connecting")
    /\ To(c, "open")
    /\ status' = "connected" /\ retry' = 0
    /\ UNCHANGED <<feed, cur, wsRef, timerRef, page, faults, switches>>

(* pubsub.subscribe(channel), after the accept. *)
Subscribe(c) ==
    /\ In(c, "open")
    /\ To(c, "subscribed")
    /\ UNCHANGED <<feed, cur, wsRef, timerRef, retry, status, page, faults, switches>>

(* Refused, or the network, Redis or the backend task fails. *)
Lose(c) ==
    /\ In(c, "connecting") \/ Connected(c)
    /\ faults < MaxFaults
    /\ faults' = faults + 1
    /\ chain' = [chain EXCEPT ![c] = [@ EXCEPT !.phase = "closed", !.queue = <<>>]]
    /\ UNCHANGED <<feed, cur, wsRef, timerRef, retry, status, page, switches>>

(* onclose.  The page is mounted; a refusal before the accept reaches the  *)
(* browser as HTTP 403, close code 1006 and never 4001, so it is retried.  *)
OnClose(c) ==
    /\ In(c, "closed")
    /\ IF retry >= MaxRetries
       THEN /\ status' = "offline"
            /\ chain' = [chain EXCEPT ![c] = None]
            /\ UNCHANGED <<retry, timerRef>>
       ELSE /\ status' = "reconnecting"
            /\ retry' = retry + 1
            /\ timerRef' = c
            /\ To(c, "waiting")
    /\ UNCHANGED <<feed, cur, wsRef, page, faults, switches>>

(* The timer calls connect() of its own closure, for the factory of then. *)
Reconnect(c) ==
    /\ In(c, "waiting")
    /\ To(c, "token")
    /\ UNCHANGED <<feed, cur, wsRef, timerRef, retry, status, page, faults, switches>>

(* Mutant: without the factory_id check. *)
TakeAny(message) ==
    /\ last' = message
    /\ live' = message

(* setLastMessage and the page's effect on it. *)
Take(message) ==
    /\ last' = message
    /\ live' = IF message.factory = cur THEN message ELSE live

(* onmessage. *)
Receive(c) ==
    /\ In(c, "subscribed") /\ chain[c].queue # <<>>
    /\ Take([factory |-> chain[c].factory, version |-> Head(chain[c].queue)])
    /\ chain' = [chain EXCEPT ![c].queue = Tail(@)]
    /\ UNCHANGED <<feed, cur, wsRef, timerRef, retry, status, cache, data, load,
                   faults, switches>>

-----------------------------------------------------------------------------
(* useFactory *)

(* Mutant: an item that is shown already is kept. *)
ShowKeeping(d) ==
    /\ data' = d
    /\ live' = IF live = None THEN d ELSE live

(* setData(d) and the page's effect on data. *)
Show(d) ==
    /\ data' = d
    /\ live' = d

(* load(): the GET becomes the current one. *)
Start(l, f) ==
    load' = [k \in Load |-> IF k = l THEN Fetch(f)
                            ELSE IF load[k] = None THEN None
                            ELSE [load[k] EXCEPT !.current = FALSE]]

(* The backend reads LATEST, eventually consistent. *)
Read(l) ==
    /\ load[l] # None /\ load[l].version = None
    /\ \E v \in replica[load[l].factory]..table[load[l].factory] :
         load' = [load EXCEPT ![l].version = v]
    /\ UNCHANGED <<feed, cur, socket, last, cache, data, live, faults, switches>>

(* Mutant: every answer is taken. *)
AnswerUnguarded(l) ==
    /\ load[l] # None /\ load[l].version # None
    /\ LET f == load[l].factory IN
       /\ cache' = [cache EXCEPT ![f] = load[l].version]
       /\ Show([factory |-> f, version |-> load[l].version])
    /\ load' = [load EXCEPT ![l] = None]
    /\ UNCHANGED <<feed, cur, socket, last, faults, switches>>

(* The answer arrives; that of a superseded GET is dropped. *)
Answer(l) ==
    /\ load[l] # None /\ load[l].version # None
    /\ LET f == load[l].factory IN
       IF load[l].current
       THEN /\ cache' = [cache EXCEPT ![f] = load[l].version]
            /\ Show([factory |-> f, version |-> load[l].version])
       ELSE UNCHANGED <<cache, data, live>>
    /\ load' = [load EXCEPT ![l] = None]
    /\ UNCHANGED <<feed, cur, socket, last, faults, switches>>

(* An error: data and what the page shows stay. *)
FailGet(l) ==
    /\ load[l] # None /\ faults < MaxFaults
    /\ faults' = faults + 1
    /\ load' = [load EXCEPT ![l] = None]
    /\ UNCHANGED <<feed, cur, socket, last, cache, data, live, switches>>

(* The refresh interval; a GET is answered within it. *)
Poll(l) ==
    /\ Polling /\ load[l] = None
    /\ \A k \in Load : load[k] # None => ~load[k].current
    /\ Start(l, cur)
    /\ UNCHANGED <<feed, cur, socket, last, cache, data, live, faults, switches>>

-----------------------------------------------------------------------------
(* The user goes to another factory.                                       *)

(* useWebSocket's cleanup: the last timer and the last socket are given    *)
(* up, whatever others there are.                                          *)
Cleaned(c) ==
    IF chain[c] = None \/ (c = timerRef /\ chain[c].phase = "waiting") THEN None
    ELSE IF c = wsRef /\ chain[c].phase \in {"connecting", "open", "subscribed"}
    THEN [chain[c] EXCEPT !.phase = "closed", !.queue = <<>>]
    ELSE chain[c]

(* useFactory's effect: data becomes what is cached; the page's effects    *)
(* follow: lastMessage is looked at again, then data if it has changed.    *)
Reset(f) ==
    LET cached == IF cache[f] = None THEN None
                  ELSE [factory |-> f, version |-> cache[f]] IN
    IF data # None \/ cached # None THEN Show(cached)
    ELSE /\ UNCHANGED data
         /\ live' = IF last # None /\ last.factory = f THEN last ELSE live

Switch(f) ==
    /\ f # cur /\ switches < MaxSwitches
    /\ switches' = switches + 1
    /\ cur' = f
    /\ \E c \in Chain : /\ Cleaned(c) = None
                        /\ chain' = [d \in Chain |-> IF d = c THEN Connect(f)
                                                     ELSE Cleaned(d)]
    /\ \E l \in Load : load[l] = None /\ Start(l, f)
    /\ Reset(f)
    /\ UNCHANGED <<feed, wsRef, timerRef, retry, status, last, cache, faults>>

-----------------------------------------------------------------------------
Session(c) ==
    \/ GetToken(c) \/ Open(c) \/ Subscribe(c) \/ OnClose(c) \/ Reconnect(c)
    \/ Receive(c)

Next ==
    \/ \E f \in Factory : Write(f) \/ Replicate(f) \/ Publish(f) \/ Switch(f)
    \/ \E c \in Chain : Session(c) \/ NoToken(c) \/ Lose(c)
    \/ \E l \in Load : Read(l) \/ Answer(l) \/ FailGet(l) \/ Poll(l)

Spec == Init /\ [][Next]_vars

(* The feed delivers, sockets and timers make progress, GETs are answered  *)
(* and the refresh interval elapses; the user need not move and writes     *)
(* need not come.                                                          *)
FairSpec ==
    /\ Spec
    /\ \A f \in Factory : WF_vars(Replicate(f)) /\ WF_vars(Publish(f))
    /\ \A c \in Chain : WF_vars(Session(c))
    /\ \A l \in Load : WF_vars(Read(l)) /\ WF_vars(Answer(l))
    /\ WF_vars(\E l \in Load : Poll(l))

-----------------------------------------------------------------------------
(* Type invariant: every variable holds what its comment above says. *)
TypeOK ==
    /\ table \in [Factory -> Version] /\ replica \in [Factory -> Version]
    /\ sent \in [Factory -> Version]
    /\ cur \in Factory
    /\ chain \in [Chain -> Connection \cup {None}]
    /\ wsRef \in Chain \cup {None} /\ timerRef \in Chain \cup {None}
    /\ retry \in 0..MaxRetries /\ status \in Status
    /\ last \in Item \cup {None} /\ data \in Item \cup {None} /\ live \in Item \cup {None}
    /\ cache \in [Factory -> Version \cup {None}]
    /\ load \in [Load -> Get \cup {None}]
    /\ writes \in 0..MaxWrites /\ faults \in 0..MaxFaults /\ switches \in 0..MaxSwitches

(* docs/ops/04_troubleshooting.md:2403: an answer for the factory the user *)
(* has left never covers the state of the one on the page, however many    *)
(* GETs are under way.                                                     *)
DataIsOfFactory == data # None => data.factory = cur

(* Whatever sockets of other factories are still open, and whatever answer *)
(* comes late, the page never turns to an item of another factory than the *)
(* one in its URL (FactoryPage.tsx 1511-1526).                             *)
NeverTurnsToOther ==
    [][live' # live /\ live' # None => live'.factory = cur']_vars

(* docs/specs/monitoring_dashboard/05_screen_data_mapping.md:229: the page *)
(* summarises the state of the factory that is selected.                   *)
ShownIsOfFactory == live # None => live.factory = cur

(* docs/product/02_requirements_definition.md:189: changes are pushed to   *)
(* the screen; so what was shown once is not taken back by an older item.  *)
NeverOlder ==
    [][cur' = cur /\ live # None /\ live' # None /\ live.factory = live'.factory
       => live'.version >= live.version]_vars

UpToDate == live = [factory |-> cur, version |-> table[cur]]

(* With a refresh interval, once writes, moves and faults are over, the    *)
(* page comes to show the current item and stays with it.                  *)
EventuallyCurrent == <>[]UpToDate

(* docs/changes/0015:75: when the WebSocket fails, the page falls back to  *)
(* polling: it does not stay behind the table.                             *)
OfflineIsPolled == status = "offline" ~> UpToDate
=============================================================================

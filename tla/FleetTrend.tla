----------------------------- MODULE FleetTrend ------------------------------
(* The fleet page (apps/dashboard-web/src/pages/FleetPage.tsx) with its two *)
(* hooks: useFactories, whose overlapping GETs nothing orders and whose     *)
(* cache outlives the page, and useFleetRecentChanges, which asks for the   *)
(* items of every listed factory in one pass and computes risk changes      *)
(* between neighbouring items.  An item is the number of a HISTORY#STATE    *)
(* item of its factory; items are written in the order of their timestamps. *)
(* Left out: the errors shown, the cut to ten minutes and to the limit,     *)
(* which keeps the newest items, replicas that lag (FactoryHistory) and the *)
(* backend's cache of the list (FactoryReads).                              *)
EXTENDS Integers, FiniteSetsExt

CONSTANTS
    FleetFactory,
    MaxReadings,    \* per factory, bound on its items
    MaxGets,        \* bound on GETs of the list under way
    MaxPasses,      \* bound on passes over the histories under way
    MaxTurns        \* bound on what happens at any time: the user may see other
                    \* factories, refreshes, leaves and returns, a request fails

ASSUME FleetAssumption ==
    /\ MaxReadings \in [FleetFactory -> Nat]
    /\ MaxGets \in Nat \ {0} /\ MaxPasses \in Nat \ {0}
    /\ MaxTurns \in Nat

VARIABLES
    written,     \* per factory, how many items HISTORY has
    offered,     \* the factories GET /factories answers with
    listCache,   \* useFactories: _cache
    list,        \* useFactories: the factories of data, the hook's key
    gets,        \* per slot the GET of the list under way
    ref,         \* historyRef: the items of each factory, also those of historyByFactory
    charted,       \* the factories historyByFactory has
    round,       \* per slot the pass under way
    spinner,     \* loading or refreshing
    turns        \* how much of MaxTurns has happened

fleetTable == <<written, offered>>
trend == <<ref, charted, round, spinner>>
fleetVars == <<fleetTable, listCache, list, gets, trend, turns>>

Gets == 1..MaxGets
Passes == 1..MaxPasses
ListGet == [state : {"free", "asked", "answered"}, ids : SUBSET FleetFactory, mounted : BOOLEAN]
NoGet == [state |-> "free", ids |-> {}, mounted |-> FALSE]
NoPass == [ids |-> {}, since |-> << >>, answer |-> << >>, current |-> FALSE]

UnderWay(p) == round[p].ids # {}
Free(slots) == {g \in DOMAIN slots : slots[g] \in {NoGet, NoPass}}

(* load() of useFactories asks for the list. *)
AskList(slots) == [slots EXCEPT ![Min(Free(slots))] = [NoGet EXCEPT !.state = "asked", !.mounted = TRUE]]

(* A pass asks each factory for what is newer than the items at hand. *)
Asked(ids, items) ==
    [ids |-> ids, since |-> [f \in ids |-> Max(items[f] \cup {0})], answer |-> << >>, current |-> TRUE]

(* requestSeq goes up: no other pass counts any more. *)
Outrun(slots) == [p \in Passes |-> [slots[p] EXCEPT !.current = FALSE]]

(* Mutant: without factories refresh returns before it clears the flags. *)
NoFactoriesSpinning ==
    /\ round' = Outrun(round) /\ charted' = {}
    /\ UNCHANGED <<ref, spinner>>

(* refresh() with factories, and without. *)
Pass(ids) ==
    /\ Free(round) # {}
    /\ round' = [Outrun(round) EXCEPT ![Min(Free(round))] = Asked(ids, ref)]
    /\ spinner' = TRUE /\ UNCHANGED <<ref, charted>>

NoFactories ==
    /\ round' = Outrun(round) /\ charted' = {} /\ spinner' = FALSE
    /\ UNCHANGED ref

RefreshTrend(ids) == (ids # {} /\ Pass(ids)) \/ (ids = {} /\ NoFactories)

FleetStart ==
    /\ written = [f \in FleetFactory |-> 0]
    /\ offered \in SUBSET FleetFactory
    /\ listCache = {} /\ list = {}
    /\ gets = AskList([g \in Gets |-> NoGet])
    /\ ref = [f \in FleetFactory |-> {}] /\ charted = {}
    /\ round = [p \in Passes |-> NoPass] /\ spinner = FALSE
    /\ turns = 0

Turn == turns < MaxTurns /\ turns' = turns + 1

-----------------------------------------------------------------------------
(* The table and the permissions move on. *)
AddItem(f) ==
    /\ written[f] < MaxReadings[f]
    /\ written' = [written EXCEPT ![f] = @ + 1]
    /\ UNCHANGED <<offered, listCache, list, gets, trend, turns>>

Relist(ids) ==
    /\ ids # offered /\ offered' = ids /\ Turn
    /\ UNCHANGED <<written, listCache, list, gets, trend>>

-----------------------------------------------------------------------------
(* useFactories *)
ReadList(g) ==
    /\ gets[g].state = "asked"
    /\ gets' = [gets EXCEPT ![g].state = "answered", ![g].ids = offered]
    /\ UNCHANGED <<fleetTable, listCache, list, trend, turns>>

(* Whichever answer comes last stays, in the cache and, while the page of  *)
(* its load is mounted, on it; a new list is a new key, so its effect      *)
(* starts a pass.                                                          *)
AnswerList(g) ==
    /\ gets[g].state = "answered"
    /\ gets' = [gets EXCEPT ![g] = NoGet] /\ listCache' = gets[g].ids
    /\ list' = IF gets[g].mounted THEN gets[g].ids ELSE list
    /\ \/ list' # list /\ RefreshTrend(list')
       \/ list' = list /\ UNCHANGED trend
    /\ UNCHANGED <<fleetTable, turns>>

FailList(g) ==
    /\ gets[g].state = "asked" /\ gets' = [gets EXCEPT ![g] = NoGet]
    /\ Turn
    /\ UNCHANGED <<fleetTable, listCache, list, trend>>

-----------------------------------------------------------------------------
(* useFleetRecentChanges *)

(* One of the queries of Promise.all is answered. *)
ReadItems(p, f) ==
    /\ f \in round[p].ids /\ f \notin DOMAIN round[p].answer
    /\ round' = [round EXCEPT ![p].answer =
                   [g \in DOMAIN @ \cup {f} |-> IF g = f THEN (round[p].since[f] + 1)..written[f] ELSE @[g]]]
    /\ UNCHANGED <<fleetTable, listCache, list, gets, ref, charted, spinner, turns>>

(* Mutant: what came with since is taken for the whole history. *)
MergedNewOnly(p) == [f \in FleetFactory |-> IF f \in round[p].ids THEN round[p].answer[f] ELSE {}]

(* byFactory: what is at hand and what came, of the asked factories only.  *)
ByFactory(p) ==
    [f \in FleetFactory |-> IF f \in round[p].ids THEN ref[f] \cup round[p].answer[f] ELSE {}]

Answered(p) == UnderWay(p) /\ DOMAIN round[p].answer = round[p].ids

(* Mutant: an answer is taken whether or not its pass still counts. *)
AnswerAnyPass(p) ==
    /\ Answered(p) /\ round' = [round EXCEPT ![p] = NoPass]
    /\ ref' = ByFactory(p) /\ charted' = round[p].ids
    /\ spinner' = (spinner /\ ~round[p].current)
    /\ UNCHANGED <<fleetTable, listCache, list, gets, turns>>

AnswerPass(p) ==
    /\ Answered(p) /\ round' = [round EXCEPT ![p] = NoPass]
    /\ \/ round[p].current /\ ref' = ByFactory(p) /\ charted' = round[p].ids /\ spinner' = FALSE
       \/ ~round[p].current /\ UNCHANGED <<ref, charted, spinner>>
    /\ UNCHANGED <<fleetTable, listCache, list, gets, turns>>

PassStep(p) == AnswerPass(p) \/ \E f \in FleetFactory : ReadItems(p, f)

(* One query fails and with it the pass. *)
FailPass(p) ==
    /\ UnderWay(p) /\ ~Answered(p)
    /\ round' = [round EXCEPT ![p] = NoPass]
    /\ spinner' = (spinner /\ ~round[p].current)
    /\ Turn
    /\ UNCHANGED <<fleetTable, listCache, list, gets, ref, charted>>

-----------------------------------------------------------------------------
(* FleetPage *)

(* handleManualRefresh and handleAutoRefresh *)
Refresh ==
    /\ Free(gets) # {} /\ gets' = AskList(gets)
    /\ RefreshTrend(list)
    /\ UNCHANGED <<fleetTable, listCache, list>>

RefreshByHand == Refresh /\ Turn

(* The chosen interval elapses; requests are answered within it. *)
RefreshByTimer ==
    /\ Free(gets) = Gets /\ Free(round) = Passes
    /\ Refresh /\ UNCHANGED turns

(* The user leaves and comes back: the refs are new, the list is the       *)
(* cached one, and a GET of the list left over still reaches the cache.    *)
Return ==
    /\ Free(gets) # {} /\ Turn
    /\ gets' = AskList([g \in Gets |-> [gets[g] EXCEPT !.mounted = FALSE]])
    /\ list' = listCache
    /\ ref' = [f \in FleetFactory |-> {}] /\ charted' = {}
    /\ round' = [p \in Passes |-> IF p = 1 /\ list' # {} THEN Asked(list', ref') ELSE NoPass]
    /\ spinner' = (list' # {})
    /\ UNCHANGED <<fleetTable, listCache>>

FleetNext ==
    \/ \E f \in FleetFactory : AddItem(f)
    \/ \E ids \in SUBSET FleetFactory : Relist(ids)
    \/ \E g \in Gets : ReadList(g) \/ AnswerList(g) \/ FailList(g)
    \/ \E p \in Passes : PassStep(p) \/ FailPass(p)
    \/ RefreshByHand \/ RefreshByTimer \/ Return

FleetSpec == FleetStart /\ [][FleetNext]_fleetVars

-----------------------------------------------------------------------------
FleetTypeOK ==
    /\ written \in [FleetFactory -> Nat]
    /\ {offered, listCache, list, charted} \subseteq SUBSET FleetFactory
    /\ gets \in [Gets -> ListGet]
    /\ ref \in [FleetFactory -> SUBSET (Nat \ {0})]
    /\ \A p \in Passes : round[p].current => round[p].ids = list
    /\ spinner = (\E p \in Passes : round[p].current)

(* The flags of the fleet page fit its passes. And risk changes are        *)
(* computed between neighbours of the merged list, so it must have no gap: *)
(* every item between two of them is there, whatever passes overlap, fail  *)
(* or are superseded when factories come and go (useFleetRecentChanges     *)
(* asks with since and merges with historyRef).                            *)
FleetWithoutGaps ==
    \A f \in FleetFactory : \A n \in ref[f] : 1..n \subseteq ref[f]
FleetConsistent == FleetTypeOK /\ FleetWithoutGaps

(* Histories put on the page are those of the factories it lists at that   *)
(* moment, though a pass asks for the list of its own start: requestSeq.   *)
ShownForList ==
    [][<<ref, charted>>' # <<ref, charted>> /\ charted' # {} => charted' = list']_fleetVars

(* The page never keeps loading or refreshing: whatever supersedes the     *)
(* pass that turned the flag on also sees to it that it goes off.          *)
FleetSettles == spinner ~> ~spinner

(* With a refresh interval the page ends with the factories the user may   *)
(* see and all of their items, though an older list may have come last.    *)
FleetBecomesCurrent ==
    <>[](list = offered /\ charted = offered /\ \A f \in offered : ref[f] = 1..written[f])
=============================================================================

--------------------------- MODULE MCDataProcessor ---------------------------
(* Instances of DataProcessor for TLC.  A unit of the clock stands for 70 s,    *)
(* so the thresholds of 60 s and 120 s are passed at ages 1 and 2.         *)
EXTENDS DataProcessor, TLC

CONSTANTS e1, e2, e3, e4, fac

(* One factory_state and one infra_state of a factory, crashing. *)
PairMessageOf == (e1 :> "fs") @@ (e2 :> "is")
PairKindOf == ("fs" :> "factory_state") @@ ("is" :> "infra_state")
PairFactoryOf == ("fs" :> fac) @@ ("is" :> fac)
PairFaultOf == ("fs" :> "none") @@ ("is" :> "none")
PairSourceTs == ("fs" :> 0) @@ ("is" :> 0)

(* Two infra_states of a factory, the second one newer. *)
OrderMessageOf == (e1 :> "old") @@ (e2 :> "new")
OrderKindOf == ("old" :> "infra_state") @@ ("new" :> "infra_state")
OrderFactoryOf == ("old" :> fac) @@ ("new" :> fac)
OrderFaultOf == ("old" :> "none") @@ ("new" :> "none")
OrderSourceTs == ("old" :> 0) @@ ("new" :> 1)

(* One message delivered twice, and nothing else. *)
DuplicateMessageOf == (e1 :> "old") @@ (e2 :> "old")
DuplicateKindOf == ("old" :> "infra_state")
DuplicateFactoryOf == ("old" :> fac)
DuplicateFaultOf == ("old" :> "none")
DuplicateSourceTs == ("old" :> 0)

(* A good factory_state beside a timestamp that does not parse, one        *)
(* without a zone, and an envelope that parse rejects.                     *)
RejectMessageOf == (e1 :> "bad") @@ (e2 :> "zoneless") @@ (e3 :> "fs")
                   @@ (e4 :> "stray")
RejectKindOf == [m \in {"bad", "zoneless", "fs", "stray"} |->
                   IF m = "fs" THEN "factory_state" ELSE "infra_state"]
RejectFactoryOf == [m \in DOMAIN RejectKindOf |-> fac]
RejectFaultOf == ("bad" :> "malformed") @@ ("zoneless" :> "naive")
                 @@ ("fs" :> "none") @@ ("stray" :> "envelope")
RejectSourceTs == [m \in DOMAIN RejectKindOf |-> 0]
==============================================================================

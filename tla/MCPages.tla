------------------------------ MODULE MCPages -------------------------------
(* The two pages that refresh themselves at an interval. The user is on    *)
(* one of them, so that their instances add up instead of multiplying.     *)
EXTENDS FactoryPage, FleetTrend, TLC

CONSTANTS fa, fb, c1
VARIABLE path

pagesVars == <<path, vars, fleetVars>>

(* Two items of one factory, so that the older can be missing; the other   *)
(* factory is listed without any.                                          *)
Readings == fa :> 2 @@ fb :> 0

PagesInit ==
    /\ path \in {"/", "/factory/:factoryId"}
    /\ Init /\ (path = "/" => cur = fa /\ chain[c1] # None)
    /\ FleetStart /\ (path # "/" => offered = {})

OnFactory == path = "/factory/:factoryId" /\ UNCHANGED <<path, fleetVars>>
OnFleet == path = "/" /\ UNCHANGED <<path, vars>>

PagesNext == (OnFactory /\ Next) \/ (OnFleet /\ FleetNext)

PagesSpec == PagesInit /\ [][PagesNext]_pagesVars

(* What FactoryPage's FairSpec assumes, and the same for the fleet page:   *)
(* GETs are answered and the refresh interval elapses.                     *)
PagesFairSpec ==
    /\ PagesSpec
    /\ \A f \in Factory : WF_pagesVars(OnFactory /\ Replicate(f)) /\ WF_pagesVars(OnFactory /\ Publish(f))
    /\ \A c \in Chain : WF_pagesVars(OnFactory /\ Session(c))
    /\ \A l \in Load : WF_pagesVars(OnFactory /\ Read(l)) /\ WF_pagesVars(OnFactory /\ Answer(l))
    /\ WF_pagesVars(OnFactory /\ (\E l \in Load : Poll(l)))
    /\ \A g \in Gets : WF_pagesVars(OnFleet /\ ReadList(g)) /\ WF_pagesVars(OnFleet /\ AnswerList(g))
    /\ \A p \in Passes : WF_pagesVars(OnFleet /\ PassStep(p))
    /\ WF_pagesVars(OnFleet /\ RefreshByTimer)

(* The page the user is on ends with what is stored and stays with it.     *)
PagesBecomeCurrent ==
    /\ <>[](path = "/factory/:factoryId" => UpToDate)
    /\ path = "/" => FleetBecomesCurrent
=============================================================================

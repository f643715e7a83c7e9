------------------------------- MODULE MCEdge --------------------------------
(* Programs around the table that share no state: a dummy factory, the     *)
(* processor's view of a payload, the collectors, the notifier and the     *)
(* trend of the page. The initial state picks the one that moves, so that  *)
(* their instances add up instead of multiplying.                          *)
EXTENDS FactoryHistory, Notifier, EdgeOutbox, Assessment, Collectors, TLC

CONSTANTS fa, fb
VARIABLE part

edgeVars == <<part, vars, notifierVars, outboxVars, assessmentVars, collectVars>>

(* Two items of the first factory, so that one can be newer, and one of    *)
(* the second.                                                             *)
Limits == fa :> 2 @@ fb :> 1

(* Missing or null, harmless, on and just past each threshold, and beyond. *)
Temperatures == {Absent, 245000, 320000, 320001, 350000, 379999, 380000, 400000}
Humidities == {Null, 450000, 700000, 700001, 800000, 850000, 900000}
Scores == {Absent, 0, 3500, 9600, 10000}

NodeReports == UNION {[1..n -> [ready : BOOLEAN]] : n \in 1..3}

Measured == {"none", "ok", "over"}
Group(status, issues) == [status |-> status, issues |-> issues]
Times == {<<older, newer>> : newer \in {<< >>, <<5>>, <<4, 5>>, <<5, 4>>, <<4, 5, 6>>}, older \in {<< >>, <<2>>}}
Replies ==
    [ecs |-> {[desired |-> 0, running |-> 0], [desired |-> 2, running |-> 2],
              [desired |-> 2, running |-> 1], [desired |-> 2, running |-> 0]},
     ecs_cloudwatch |-> [cpu : Measured, memory : Measured],
     alb |-> [healthy : 0..1, errors : BOOLEAN, p95 : Measured, average : Measured],
     cloudfront |-> [errors : Measured],
     elasticache |-> [status : {"none", "available", "modifying"}, cpu : Measured,
                      memory : Measured, evictions : BOOLEAN],
     rds |-> [status : {"none", "available", "stopped"}, cpu : Measured, storage : Measured],
     lambda |-> [1..2 -> [errors : BOOLEAN, throttles : BOOLEAN]],
     dynamodb |-> [errors : BOOLEAN, reads : BOOLEAN, writes : BOOLEAN],
     dlq |-> [visible : 0..1],
     scheduler |-> {<< >>, <<"ENABLED">>, <<"ENABLED", "DISABLED">>},
     factory_b |-> [status : DOMAIN Severity], factory_c |-> [status : DOMAIN Severity],
     cluster |-> {"ACTIVE", "UPDATING", "FAILED"},
     nodegroups |-> {<< >>, <<Group("ACTIVE", FALSE)>>, <<Group("ACTIVE", FALSE), Group("ACTIVE", TRUE)>>,
                     <<Group("DEGRADED", FALSE)>>},
     autoscaling |-> {[desired |-> 2, healthy |-> h] : h \in 0..2},
     nodes |-> {[total |-> 0, ready |-> 0]} \cup {[total |-> 2, ready |-> n] : n \in 0..2},
     pods |-> {<<"Running">>, <<"Running", "Pending">>, <<"Failed">>, <<"Succeeded", "Running", "Failed">>},
     argocd |-> {{}} \cup {{[health |-> h, sync |-> s]} : h \in {"Healthy", "Degraded"}, s \in {"Synced", "OutOfSync"}},
     raw |-> {<<t[2], t[1]>> : t \in Times}, processed |-> {<<t[2], t[1]>> : t \in Times},
     processed_agg |-> {<<t[2], t[1]>> : t \in Times}]

PartName == {"history", "notifier", "outbox", "assessment", "collector"}

EdgeInit ==
    /\ part \in PartName
    /\ Init /\ (part # "history" => cur = fa)
    /\ NotifierInit /\ OutboxStart
    /\ IF part = "assessment" THEN AssessStart \/ ReportStart
       ELSE ReportStart /\ payload = [nodes |-> <<[ready |-> TRUE]>>]
    /\ IF part = "collector" THEN CollectInit ELSE CollectInit /\ section = "datastores"

InHistory == part = "history" /\ UNCHANGED <<part, notifierVars, outboxVars, assessmentVars, collectVars>>
InNotifier == part = "notifier" /\ UNCHANGED <<part, vars, outboxVars, assessmentVars, collectVars>>
InOutbox == part = "outbox" /\ UNCHANGED <<part, vars, notifierVars, assessmentVars, collectVars>>
InAssessment == part = "assessment" /\ UNCHANGED <<part, vars, notifierVars, outboxVars, collectVars>>
InCollector == part = "collector" /\ UNCHANGED <<part, vars, notifierVars, outboxVars, assessmentVars>>

EdgeNext ==
    \/ InHistory /\ Next
    \/ InNotifier /\ NotifierNext
    \/ InOutbox /\ OutboxNext
    \/ InAssessment /\ AssessNext
    \/ InCollector /\ CollectNext

EdgeSpec == EdgeInit /\ [][EdgeNext]_edgeVars

(* Replicas catch up, loads are answered and the refresh interval elapses; *)
(* the event source mapping keeps polling and invoking; systemd keeps the  *)
(* publisher running and its loop wakes up.                                *)
EdgeFairSpec ==
    /\ EdgeSpec
    /\ \A f \in Factory : WF_edgeVars(InHistory /\ Replicate(f))
    /\ \A l \in Load : WF_edgeVars(InHistory /\ Read(l)) /\ WF_edgeVars(InHistory /\ Answer(l))
    /\ WF_edgeVars(InHistory /\ Poll)
    /\ WF_edgeVars(InNotifier /\ Deliver)
    /\ WF_edgeVars(InOutbox /\ PublisherStep)
=============================================================================

----------------------------- MODULE Collectors -----------------------------
(* What the fast and the slow collector make of one section of the         *)
(* CLOUD#infra item (fast_collectors.py, slow_collectors.py,               *)
(* k8s_metrics.py): the calls of the section one after the other, each of  *)
(* which may fail, then its status, the reasons for it and the times it    *)
(* reports. A measure is reduced to whether it passes its threshold        *)
(* (over), and one without data is none. Storage is reported per factory;  *)
(* of its two listings of raw objects the one with the later time stands   *)
(* for both.                                                               *)
EXTENDS Integers, Sequences, FiniteSetsExt

CONSTANTS
    Reply,      \* what each call may bring
    PodsLimit,  \* pods of one listing (500)
    MaxKeys,    \* objects of one listing (1000)
    NoDate      \* no object was found

(* _latest_object_time reads the times of objects, the statuses of         *)
(* factories are those a processor stored, and ready nodes are counted     *)
(* among all.                                                              *)
ASSUME CollectAssumption ==
    /\ PodsLimit \in Nat /\ MaxKeys \in Nat \ {0}
    /\ \A c \in {"factory_b", "factory_c"} : \A r \in Reply[c] :
         r.status \in {"normal", "unknown", "warning", "critical"}
    /\ \A r \in Reply["nodes"] : r.total \in Nat /\ r.ready \in 0..r.total
    /\ \A c \in {"raw", "processed", "processed_agg"} : Reply[c] \subseteq Seq(Seq(Nat))

VARIABLES section, replies, lost, report
collectVars == <<section, replies, lost, report>>

(* The calls of a section, in order. *)
Calls ==
    [backend_runtime |-> <<"ecs", "ecs_cloudwatch", "alb", "cloudfront">>,
     datastores |-> <<"elasticache", "rds">>,
     data_pipeline |-> <<"lambda", "dynamodb", "dlq", "scheduler">>,
     factory_freshness |-> <<"factory_b", "factory_c">>,
     eks_management |-> <<"cluster", "nodegroups", "autoscaling", "nodes", "pods", "argocd">>,
     storage_freshness |-> <<"raw", "processed", "processed_agg">>]
FastSections == {"backend_runtime", "datastores", "data_pipeline", "factory_freshness"}
Unreported == [status |-> "due", reasons |-> {}, dates |-> << >>]

CollectStart == replies = << >> /\ lost = {} /\ report = Unreported
CollectInit == section \in DOMAIN Calls /\ CollectStart

----------------------------------------------------------------------------
Severity == [normal |-> 0, unknown |-> 1, warning |-> 2, critical |-> 3]
WorstOf(statuses) ==
    IF statuses = {} THEN "unknown"
    ELSE CHOOSE s \in statuses : \A o \in statuses : Severity[o] <= Severity[s]
Grade(bad, poor) == IF bad THEN "critical" ELSE IF poor THEN "warning" ELSE "normal"
When(condition, reason) == IF condition THEN {reason} ELSE {}

(* _safe: what a section goes on with in place of a reply it did not get.  *)
Or(call, default) == IF call \in DOMAIN replies THEN replies[call] ELSE default

Over(measure) == measure = "over"
Latency(alb) == IF alb.p95 = "none" THEN alb.average ELSE alb.p95
BackendStatus(e, m, alb, front) ==
    WorstOf({Grade(e.desired > 0 /\ e.running = 0,
                   e.running < e.desired \/ Over(m.cpu) \/ Over(m.memory)),
             Grade(alb.healthy = 0, alb.errors \/ Over(Latency(alb))),
             Grade(FALSE, Over(front.errors))})
BackendReasons(e, m, alb, front) ==
    When(e.desired > 0 /\ e.running = 0, "ecs_none") \cup When(e.running < e.desired, "ecs_few")
    \cup When(Over(m.cpu), "cpu") \cup When(Over(m.memory), "memory")
    \cup When(alb.healthy = 0, "alb_none") \cup When(alb.errors, "alb_5xx")
    \cup When(Over(Latency(alb)), "alb_latency") \cup When(Over(front.errors), "cloudfront")

Unavailable(store) == store.status \notin {"none", "available"}
DatastoreStatus(redis, rds) ==
    WorstOf({Grade(Unavailable(redis), Over(redis.cpu) \/ Over(redis.memory) \/ redis.evictions),
             Grade(Unavailable(rds), Over(rds.cpu) \/ Over(rds.storage))})
DatastoreReasons(redis, rds) ==
    When(Unavailable(redis), "redis") \cup When(Over(redis.cpu), "redis_cpu")
    \cup When(Over(redis.memory), "redis_memory") \cup When(redis.evictions, "redis_evictions")
    \cup When(Unavailable(rds), "rds") \cup When(Over(rds.cpu), "rds_cpu")
    \cup When(Over(rds.storage), "rds_storage")

(* Without a configured schedule the schedulers are unknown. *)
SchedulerStatus(states) ==
    IF states = << >> THEN "unknown" ELSE Grade(FALSE, \E i \in DOMAIN states : states[i] # "ENABLED")
PipelineStatus(lambdas, db, dlq, schedules) ==
    WorstOf({Grade(FALSE, lambdas[i].errors \/ lambdas[i].throttles) : i \in DOMAIN lambdas}
            \cup {Grade(db.errors, db.reads \/ db.writes), Grade(FALSE, dlq.visible > 0),
                  SchedulerStatus(schedules)})
PipelineReasons(lambdas, db, dlq, schedules) ==
    {<<"lambda_errors", i>> : i \in {j \in DOMAIN lambdas : lambdas[j].errors}}
    \cup {<<"lambda_throttles", i>> : i \in {j \in DOMAIN lambdas : lambdas[j].throttles}}
    \cup When(db.errors, <<"dynamodb", 0>>) \cup When(db.reads, <<"dynamodb_read", 0>>)
    \cup When(db.writes, <<"dynamodb_write", 0>>) \cup When(dlq.visible > 0, <<"dlq", 0>>)
    \cup {<<"scheduler", i>> : i \in {j \in DOMAIN schedules : schedules[j] # "ENABLED"}}

(* The pipeline_status as it was stored, "unknown" without one. *)
FactoryStatuses == {replies[f].status : f \in DOMAIN replies}
FactoryReasons == {f \in DOMAIN replies : replies[f].status # "normal"}

Fast(status, reasons) ==
    IF lost # {} THEN [status |-> "unknown", reasons |-> {}, dates |-> << >>]
    ELSE [status |-> status, reasons |-> reasons, dates |-> << >>]

----------------------------------------------------------------------------
ManagedStatus(status) ==
    Grade(status \notin {"ACTIVE", "CREATING", "UPDATING"}, status # "ACTIVE")
NodegroupStatus(group) == IF group.issues THEN "warning" ELSE ManagedStatus(group.status)
NodegroupsStatus(groups) == WorstOf({NodegroupStatus(groups[i]) : i \in DOMAIN groups})
ScalingStatus(group) ==
    Grade(group.desired > 0 /\ group.healthy = 0, group.healthy < group.desired)

NodesStatus(nodes) ==
    Grade(nodes.total > 0 /\ nodes.ready = 0, nodes.total = 0 \/ nodes.ready < nodes.total)
PodsListed(pods) == {pods[i] : i \in {j \in DOMAIN pods : j <= PodsLimit}}
PodsStatus(pods) == Grade("Failed" \in PodsListed(pods),
                          PodsListed(pods) \ {"Running", "Succeeded"} # {})
ArgocdStatus(apps) ==
    Grade(\E a \in apps : a.health = "Degraded", \E a \in apps : a.sync = "OutOfSync")

(* Nodes and pods have no substitute; applications that cannot be listed   *)
(* are unknown (_optional_get).                                            *)
KubernetesStatusOptional ==
    IF {"nodes", "pods"} \subseteq DOMAIN replies
    THEN WorstOf({NodesStatus(replies.nodes), PodsStatus(replies.pods),
                  ArgocdStatus(Or("argocd", {}))})
    ELSE "unknown"
KubernetesStatus ==
    IF {"nodes", "pods"} \subseteq DOMAIN replies
    THEN WorstOf({NodesStatus(replies.nodes), PodsStatus(replies.pods),
                  IF "argocd" \in DOMAIN replies THEN ArgocdStatus(replies.argocd) ELSE "unknown"})
    ELSE "unknown"

(* The cluster's substitute has the status "unknown", which is none that   *)
(* EKS has.                                                                *)
EksStatus ==
    WorstOf({ManagedStatus(Or("cluster", "unknown")), NodegroupsStatus(Or("nodegroups", << >>)),
             ScalingStatus(Or("autoscaling", [desired |-> 0, healthy |-> 0])), KubernetesStatus})

(* _latest_object_time: prefixes come newest first, each the times of its  *)
(* objects in the order of their keys.                                     *)
NewestListed(objects) ==
    LET times == {objects[i] : i \in {j \in DOMAIN objects : j <= MaxKeys}} IN
    CHOOSE t \in times : \A u \in times : u <= t
LatestObjectTime(prefixes) ==
    LET held == {i \in DOMAIN prefixes : prefixes[i] # << >>} IN
    IF held = {} THEN NoDate ELSE NewestListed(prefixes[Min(held)])

StorageReport ==
    IF lost # {} THEN [status |-> "unknown", reasons |-> {}, dates |-> << >>]
    ELSE LET date == [s \in DOMAIN replies |-> LatestObjectTime(replies[s])] IN
         [status |-> IF \A s \in DOMAIN date : date[s] = NoDate THEN "unknown"
                     ELSE Grade(FALSE, NoDate \in {date.processed, date.processed_agg}),
          reasons |-> {}, dates |-> date]

----------------------------------------------------------------------------
SectionReport ==
    CASE section \in FastSections /\ lost # {} -> Fast("unknown", {})
      [] section = "backend_runtime" /\ lost = {} ->
           Fast(BackendStatus(replies.ecs, replies.ecs_cloudwatch, replies.alb, replies.cloudfront),
                BackendReasons(replies.ecs, replies.ecs_cloudwatch, replies.alb, replies.cloudfront))
      [] section = "datastores" /\ lost = {} ->
           Fast(DatastoreStatus(replies.elasticache, replies.rds),
                DatastoreReasons(replies.elasticache, replies.rds))
      [] section = "data_pipeline" /\ lost = {} ->
           Fast(PipelineStatus(replies.lambda, replies.dynamodb, replies.dlq, replies.scheduler),
                PipelineReasons(replies.lambda, replies.dynamodb, replies.dlq, replies.scheduler))
      [] section = "factory_freshness" /\ lost = {} -> Fast(WorstOf(FactoryStatuses), FactoryReasons)
      [] section = "eks_management" -> [status |-> EksStatus, reasons |-> {}, dates |-> << >>]
      [] section = "storage_freshness" -> StorageReport

Left == {i \in DOMAIN Calls[section] : Calls[section][i] \notin DOMAIN replies \cup lost}
NextCall == Calls[section][Min(Left)]

(* No group of the cluster is asked for when no node group was brought,    *)
(* and the cluster's API is not reached without its endpoint.              *)
Pointless(call) == call = "autoscaling" /\ Or("nodegroups", << >>) = << >>
Unreachable(call) ==
    \/ call \in {"nodes", "pods", "argocd"} /\ "cluster" \in lost
    \/ call \in {"pods", "argocd"} /\ "nodes" \in lost
    \/ call = "argocd" /\ "pods" \in lost
    \/ call \in {"processed", "processed_agg"} /\ lost # {}

Bring ==
    /\ Left # {} /\ ~Unreachable(NextCall)
    /\ \E r \in IF Pointless(NextCall) THEN {[desired |-> 0, healthy |-> 0]} ELSE Reply[NextCall] :
         replies' = [c \in DOMAIN replies \cup {NextCall} |-> IF c = NextCall THEN r ELSE replies[c]]
    /\ UNCHANGED <<section, lost, report>>
Lack ==
    /\ Left # {} /\ ~Pointless(NextCall)
    /\ lost' = lost \cup {NextCall}
    /\ UNCHANGED <<section, replies, report>>
Report ==
    /\ Left = {} /\ report = Unreported
    /\ report' = SectionReport
    /\ UNCHANGED <<section, replies, lost>>

CollectNext == Bring \/ Lack \/ Report

CollectSpec == CollectInit /\ [][CollectNext]_collectVars

----------------------------------------------------------------------------
Reported == report # Unreported

(* A warning or critical section of the fast collector says why, and one   *)
(* that says why is not normal; after a failed call it is unknown and says *)
(* nothing (planning/29:521-525). The slow collector gives no reasons.     *)
AlarmsAreExplained ==
    Reported /\ section \in FastSections =>
      /\ report.status \in {"warning", "critical"} => report.reasons # {}
      /\ report.reasons # {} => report.status # "normal"
      /\ lost # {} => report.status = "unknown" /\ report.reasons = {}

(* A normal cluster was seen: it is active and so are its node groups, its *)
(* nodes are all ready, the pods that were listed run, and its             *)
(* applications are in sync. The one call that may be missing is that for  *)
(* the Auto Scaling groups, whose substitute counts as healthy             *)
(* (PartialFailureIsUnknown); if they were seen, they had the instances    *)
(* they should have.                                                       *)
GreenClusterWasSeen ==
    Reported /\ section = "eks_management" /\ report.status = "normal" =>
      /\ lost \subseteq {"autoscaling"}
      /\ replies.cluster = "ACTIVE" /\ replies.nodegroups # << >>
      /\ \A i \in DOMAIN replies.nodegroups :
           replies.nodegroups[i].status = "ACTIVE" /\ ~replies.nodegroups[i].issues
      /\ lost = {} => ~(replies.autoscaling.healthy < replies.autoscaling.desired)
      /\ replies.nodes.total > 0 /\ replies.nodes.ready = replies.nodes.total
      /\ PodsListed(replies.pods) \subseteq {"Running", "Succeeded"}
      /\ \A a \in replies.argocd : a.health # "Degraded" /\ a.sync # "OutOfSync"

(* A time that storage reports is that of an object of its newest hour or  *)
(* day, the last one if they fit in one listing; without a time there is   *)
(* no object in all that was looked back over.                             *)
FreshnessIsReal ==
    \A s \in DOMAIN report.dates :
      LET held == {i \in DOMAIN replies[s] : replies[s][i] # << >>}
          newest == replies[s][CHOOSE i \in held : \A j \in held : i <= j]
      IN  IF held = {} THEN report.dates[s] = NoDate
          ELSE /\ \E k \in DOMAIN newest : report.dates[s] = newest[k]
               /\ Len(newest) <= MaxKeys => \A k \in DOMAIN newest : newest[k] <= report.dates[s]

(* Whatever calls fail: an alarm of a fast section has a reason, a green   *)
(* cluster was seen but for its scaling groups, and the times of storage   *)
(* are those of objects.                                                   *)
StatusesAreEarned == AlarmsAreExplained /\ GreenClusterWasSeen /\ FreshnessIsReal

(* planning/29:471: if some of the calls of a section fail, the section is *)
(* unknown. The slow collector does not keep to it: without its Auto       *)
(* Scaling groups a cluster is normal, without its API it may be critical. *)
PartialFailureIsUnknown == Reported /\ lost # {} => report.status = "unknown"

(* planning/29:521-523: a section that is warning or critical gives its    *)
(* reasons. Those of the slow collector do not.                            *)
EverySectionExplains == Reported /\ report.status \in {"warning", "critical"} => report.reasons # {}
=============================================================================

---------------------------- MODULE MCAdminUsers ----------------------------
(* Instances of AdminUsers for TLC.                                        *)
EXTENDS AdminUsers, TLC

CONSTANTS ann, dan, a1, a2, a3, eAnn, eDan, eNew, fa, fb, fx

(* ann administers a factory; dan's row is a leftover of a disabled user.  *)
TwoSeed == {ann, dan}
TwoRow ==
    (ann :> [email |-> eAnn, sub |-> ann, role |-> "factory_admin",
             system |-> TRUE, active |-> TRUE])
    @@ (dan :> [email |-> eDan, sub |-> dan, role |-> "viewer",
                system |-> FALSE, active |-> FALSE])
TwoGrants == {<<ann, fa>>, <<dan, fa>>}
TwoPool == (eAnn :> ann) @@ (eDan :> None) @@ (eNew :> None)

Create(e, role, fs, rep, sys) ==
    [kind |-> "create", email |-> e, role |-> role, factories |-> fs,
     repeated |-> rep, system |-> sys]
Update(u, role, fs, rep, sys) ==
    [kind |-> "update", user |-> u, role |-> role, factories |-> fs,
     repeated |-> rep, system |-> sys, renames |-> FALSE]
Rename(u) == [Update(u, None, None, FALSE, None) EXCEPT !.renames = TRUE]
Delete(u) == [kind |-> "delete", user |-> u]

(* Two creations of one email, or of a taken one, while ann changes. *)
CreateOps ==
    {Create(eNew, "factory_admin", {fa}, FALSE, FALSE),
     Create(eNew, "super_admin", {}, FALSE, FALSE),
     Create(eNew, "factory_admin", {fb}, TRUE, FALSE),
     Create(eNew, "super_admin", {fa}, FALSE, TRUE),
     Create(eNew, "factory_admin", {fa, fx}, FALSE, FALSE),
     Create(eAnn, "factory_admin", {fa}, FALSE, FALSE),
     Update(ann, "super_admin", None, FALSE, None)}

(* Any sequence of changes of ann, of the leftover and of what it becomes. *)
SerialOps ==
    {Create(eDan, "factory_admin", {fa, fb}, FALSE, TRUE),
     Create(eNew, "super_admin", {fa}, FALSE, FALSE)}
    \cup {Update(u, role, fs, FALSE, sys) :
             u \in {ann, a1}, role \in {"super_admin", "factory_admin", None},
             fs \in {None, {fb}}, sys \in {None, FALSE}}
    \cup {Delete(u) : u \in {ann, a1}}

(* ann is promoted while her grants are replaced. *)
PromoteOps ==
    {Update(ann, "super_admin", None, FALSE, None),
     Update(ann, None, {fb}, FALSE, None)}

(* ann is changed and deleted at the same time. *)
LockOps ==
    {Update(ann, "super_admin", None, FALSE, None),
     Update(ann, None, {fa, fb}, FALSE, FALSE),
     Rename(ann),
     Create(eDan, "factory_admin", {fa}, FALSE, TRUE),
     Delete(ann)}

DeleteOps == {Delete(ann)}

(* The leftover is replaced. *)
RecreateOps == {Create(eDan, "factory_admin", {fa}, FALSE, FALSE)}

(* A creation names a factory twice. *)
RepeatOps == {Create(eNew, "factory_admin", {fb}, TRUE, FALSE)}

(* Three kinds of load: any sequence of requests, one at a time; creations *)
(* and updates that overlap and fail; updates, deletions and creations     *)
(* that wait for one another's locks.                                      *)
OpsOf == [serial |-> SerialOps, create |-> CreateOps, locks |-> LockOps]
FaultsOf == [serial |-> 0, create |-> 2, locks |-> 1]
AllOps == SerialOps \cup CreateOps \cup LockOps

VARIABLE part

MCInit ==
    /\ part \in DOMAIN OpsOf
    /\ op \in [Request -> OpsOf[part]]
    /\ Init

MCNext ==
    /\ Next /\ UNCHANGED part
    /\ faults' <= FaultsOf[part]
    /\ part = "serial" => OneByOne

MCSpec ==
    /\ MCInit /\ [][MCNext]_<<vars, part>>
    /\ \A r \in Request : WF_<<vars, part>>(part = "locks" /\ Step(r) /\ UNCHANGED part)

(* Requests of any one load that overlap freely.                           *)
OverlapSpec == Init /\ part = "locks" /\ [][Next /\ UNCHANGED part]_<<vars, part>>

(* Transactions that wait for one another all end.                         *)
LocksAreReleased == part = "locks" => EveryRequestIsAnswered
=============================================================================

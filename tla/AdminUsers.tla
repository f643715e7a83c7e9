----------------------------- MODULE AdminUsers -----------------------------
(***************************************************************************)
(* User administration: every request changes two stores that share no     *)
(* transaction, the Cognito user pool and the RDS tables app_user and      *)
(* user_factory_access.  The callers have passed require_user_admin.       *)
(* Requests run in several backend processes, so they interleave at every  *)
(* statement and every Cognito call.                                       *)
(*                                                                         *)
(* The database is PostgreSQL under READ COMMITTED: a statement sees what  *)
(* was committed when it was issued, row locks are held to the end of the  *)
(* transaction, and of transactions that wait for one another one is       *)
(* rolled back.  Left out as data: what a display name says, the role      *)
(* inside a grant (every write normalises it to admin) and the audit row,  *)
(* which is committed with the change it records.                          *)
(***************************************************************************)
EXTENDS Naturals, FiniteSets

CONSTANTS
    Request,     \* admin requests
    Offered,     \* what a request may ask for
    Seed,        \* ids of the users that exist at the start
    SeedRow,     \* [Seed -> Row]
    SeedGrants,  \* their grants
    SeedPool,    \* [Email -> subject or None]: the user pool at the start
    Email,
    Factory,     \* rows of the factory table
    Name,        \* factory ids that a request may name
    MaxFaults,   \* bound on failing calls and killed requests
    None

Role == {"super_admin", "org_admin", "factory_admin", "viewer"}
GlobalAdmin == {"super_admin", "org_admin"}

(* A created user has its request as id, and so has its Cognito subject.   *)
Id == Seed \cup Request
Row == [email: Email, sub: Id, role: Role, system: BOOLEAN, active: BOOLEAN]
Grant == Id \X Factory

CreateOp == [kind: {"create"}, email: Email, role: {"super_admin", "factory_admin"},
             factories: SUBSET Name, repeated: BOOLEAN, system: BOOLEAN]
UpdateOp == [kind: {"update"}, user: Id, role: {"super_admin", "factory_admin", None},
             factories: (SUBSET Name) \cup {None}, repeated: BOOLEAN,
             system: BOOLEAN \cup {None}, renames: BOOLEAN]
DeleteOp == [kind: {"delete"}, user: Id]

ASSUME AdminAssumption ==
    /\ Offered \subseteq CreateOp \cup UpdateOp \cup DeleteOp
    /\ SeedRow \in [Seed -> Row]
    /\ SeedGrants \subseteq Seed \X Factory
    /\ SeedPool \in [Email -> Seed \cup {None}]
    /\ Seed \cap Request = {} /\ Factory \subseteq Name
    /\ MaxFaults \in Nat
    /\ None \notin Id /\ None \notin Row /\ None \notin Role /\ None # 500

(* The tables and the pool that the requests find: emails are unique, pool *)
(* and active rows agree, and subjects to come are not in use.             *)
ASSUME SeedAssumption ==
    /\ \A u, v \in Seed : SeedRow[u].email = SeedRow[v].email => u = v
    /\ \A u \in Seed :
         /\ SeedRow[u].sub \in Seed
         /\ SeedRow[u].active =>
              /\ SeedPool[SeedRow[u].email] = SeedRow[u].sub
              /\ SeedRow[u].role \in GlobalAdmin => {g \in SeedGrants : g[1] = u} = {}
              /\ SeedRow[u].role = "super_admin" => SeedRow[u].system
    /\ \A e \in Email : SeedPool[e] # None =>
         \E u \in Seed : SeedRow[u].active /\ SeedRow[u].email = e

VARIABLES
    op,       \* what each request asks for
    row,      \* app_user, committed: [Id -> Row or None]
    grants,   \* user_factory_access, committed: pairs of Id and Factory
    pool,     \* the Cognito user pool: [Email -> subject or None]
    pc,       \* the next call of a request
    target,   \* the user a request works on, None when it is a new one
    seen,     \* the app_user row it read
    snap,     \* grants its DELETE statement saw when issued and are still rows
    gone,     \* grants its transaction has deleted
    sub,      \* the subject Cognito gave to its new user
    answer,   \* its HTTP status, None before
    faults,   \* faults so far (bounded by MaxFaults)
    inTurn    \* history: no request has started while another was under way

vars == <<op, row, grants, pool, pc, target, seen, snap, gone, sub, answer, faults,
          inTurn>>

PC == {"start", "cleanPool", "lockRow", "issueDelete", "finishDelete",
       "dropRow", "createPool", "getPool", "deletePool", "commit", "done"}

Creates(r) == op[r].kind = "create"
Updates(r) == op[r].kind = "update"
Deletes(r) == op[r].kind = "delete"
GrantsOf(u) == {g \in grants : g[1] = u}

(* What a request still answers with, its transaction rolled back.         *)
Refuse(r, status) ==
    /\ pc' = [pc EXCEPT ![r] = "done"]
    /\ answer' = [answer EXCEPT ![r] = status]
    /\ UNCHANGED <<op, row, grants, pool, target, seen, snap, gone, sub, faults>>

(* The transaction is committed and the request answered. *)
Answer(r, status) ==
    /\ pc' = [pc EXCEPT ![r] = "done"]
    /\ answer' = [answer EXCEPT ![r] = status]
    /\ UNCHANGED <<op, pool, target, seen, gone, sub, faults>>

(* A commit removes grants and adds others.  A pair that is inserted again *)
(* is another row, which a statement issued before does not see.           *)
Replaced(removed, added) ==
    /\ grants' = (grants \ removed) \cup added
    /\ snap' = [r \in Request |-> snap[r] \ removed]

(* A request goes on to its next call. *)
Goto(r, label) ==
    /\ pc' = [pc EXCEPT ![r] = label]
    /\ UNCHANGED <<answer, faults>>

Init ==
    /\ op \in [Request -> Offered]
    /\ row = [u \in Id |-> IF u \in Seed THEN SeedRow[u] ELSE None]
    /\ grants = SeedGrants
    /\ pool = SeedPool
    /\ pc = [r \in Request |-> "start"]
    /\ target = [r \in Request |-> None]
    /\ seen = [r \in Request |-> None]
    /\ snap = [r \in Request |-> {}]
    /\ gone = [r \in Request |-> {}]
    /\ sub = [r \in Request |-> None]
    /\ answer = [r \in Request |-> None]
    /\ faults = 0
    /\ inTurn = TRUE

-----------------------------------------------------------------------------
(* What an update writes, from the row it read. *)

NextRole(r) == IF op[r].role = None THEN seen[r].role ELSE op[r].role

(* The grants it inserts; they replace the user's when ReplacesGrants. *)
NextGrants(r) ==
    CASE Creates(r) -> op[r].factories
      [] Updates(r) -> IF op[r].factories = None THEN {} ELSE op[r].factories
      [] Deletes(r) -> {}

ReplacesGrants(r) == op[r].factories # None \/ NextRole(r) \in GlobalAdmin

(* Mutant: a super_admin may be denied the system pages. *)
NextSystemAsAsked(r) ==
    IF op[r].system # None THEN op[r].system
    ELSE seen[r].system \/ NextRole(r) = "super_admin"

(* can_view_system: a super_admin always has it; who loses the role keeps  *)
(* it unless the request says otherwise.                                   *)
NextSystem(r) ==
    IF op[r].system # None THEN NextRole(r) = "super_admin" \/ op[r].system
    ELSE seen[r].system \/ NextRole(r) = "super_admin"

(* The UPDATE names only the columns whose value differs from the read     *)
(* one, the display name among them.                                       *)
ChangesRow(r) ==
    /\ Updates(r)
    /\ \/ op[r].renames
       \/ NextRole(r) # seen[r].role \/ NextSystem(r) # seen[r].system

Changed(r, current) ==
    [current EXCEPT
        !.role = IF NextRole(r) # seen[r].role THEN NextRole(r) ELSE @,
        !.system = IF NextSystem(r) # seen[r].system THEN NextSystem(r) ELSE @]

-----------------------------------------------------------------------------
(* Row locks of transactions that are under way. *)

(* q has updated or deleted u's app_user row. *)
HoldsRow(q, u) ==
    /\ target[q] = u
    /\ \/ pc[q] \in {"issueDelete", "finishDelete", "commit"} /\ ChangesRow(q)
       \/ pc[q] \in {"createPool", "getPool", "commit"} /\ Creates(q)

(* q has deleted grants of u. *)
HoldsGrants(q, u) ==
    /\ pc[q] \in {"dropRow", "createPool", "getPool", "commit"}
    /\ \E g \in gone[q] : g[1] = u

(* The rows with the email of r's new user. *)
SameEmail(r) == {u \in Id : row[u] # None /\ row[u].email = op[r].email}

(* r's next statement waits for q's transaction to end. *)
WaitsFor(r, q) ==
    /\ r # q
    /\ \/ pc[r] = "lockRow" /\ ChangesRow(r) /\ HoldsRow(q, target[r])
       \/ pc[r] = "dropRow" /\ (HoldsRow(q, target[r]) \/ HoldsGrants(q, target[r]))
       \/ pc[r] = "finishDelete" /\ \E g \in snap[r] \cap gone[q] : HoldsGrants(q, g[1])
       \/ pc[r] = "commit" /\ Deletes(r)
            /\ (HoldsRow(q, target[r]) \/ HoldsGrants(q, target[r]))
       \/ pc[r] = "commit" /\ Updates(r) /\ NextGrants(r) # {}
            /\ \/ Creates(q) /\ HoldsRow(q, target[r])
               \/ /\ HoldsGrants(q, target[r])
                  /\ ({target[r]} \X NextGrants(r)) \cap gone[q] # {}
       \/ pc[r] = "commit" /\ Creates(r) /\ Creates(q)
            /\ \E u \in SameEmail(r) : HoldsRow(q, u)

Free(r) == \A q \in Request : ~WaitsFor(r, q)

-----------------------------------------------------------------------------
(* POST /admin/users *)

(* Grants do not fit the role, or name no factory. *)
BadGrants(role, factories) ==
    \/ role \in GlobalAdmin /\ factories # {}
    \/ ~(factories \subseteq Factory)

(* The grants are validated and the email is looked up; the row of a       *)
(* disabled user is to be replaced.                                        *)
StartCreate(r) ==
    /\ pc[r] = "start" /\ Creates(r)
    /\ LET same == SameEmail(r) IN
       IF BadGrants(op[r].role, op[r].factories) THEN Refuse(r, 400)
       ELSE IF \E u \in same : row[u].active THEN Refuse(r, 409)
       ELSE /\ target' = [target EXCEPT ![r] = IF same = {} THEN None
                                               ELSE CHOOSE u \in same : TRUE]
            /\ Goto(r, IF same = {} THEN "createPool" ELSE "cleanPool")
            /\ UNCHANGED <<op, row, grants, pool, seen, snap, gone, sub>>

(* cognito_admin.delete_user(ignore_not_found=True) of the disabled user. *)
CleanPool(r) ==
    /\ pc[r] = "cleanPool"
    /\ pool' = [pool EXCEPT ![op[r].email] = None]
    /\ Goto(r, "issueDelete")
    /\ UNCHANGED <<op, row, grants, target, seen, snap, gone, sub>>

(* DELETE of the disabled app_user row, flushed; it may be gone already. *)
DropRow(r) ==
    /\ pc[r] = "dropRow" /\ Free(r)
    /\ Goto(r, "createPool")
    /\ UNCHANGED <<op, row, grants, pool, target, seen, snap, gone, sub>>

(* Mutant: the row is committed before the pool has the user. *)
CreatePoolLater(r) ==
    /\ pc[r] = "createPool"
    /\ sub' = [sub EXCEPT ![r] = r]
    /\ Goto(r, "commit")
    /\ UNCHANGED <<op, row, grants, pool, target, seen, snap, gone>>

(* Mutant: an email the pool already has is waited for. *)
CreatePoolWaiting(r) ==
    /\ pc[r] = "createPool" /\ pool[op[r].email] = None
    /\ pool' = [pool EXCEPT ![op[r].email] = r]
    /\ Goto(r, "getPool")
    /\ UNCHANGED <<op, row, grants, target, seen, snap, gone, sub>>

(* admin_create_user refuses an email the pool already has. *)
CreatePool(r) ==
    /\ pc[r] = "createPool"
    /\ IF pool[op[r].email] # None THEN Refuse(r, 502)
       ELSE /\ pool' = [pool EXCEPT ![op[r].email] = r]
            /\ Goto(r, "getPool")
            /\ UNCHANGED <<op, row, grants, target, seen, snap, gone, sub>>

(* admin_get_user yields the subject. *)
GetPool(r) ==
    /\ pc[r] = "getPool"
    /\ IF pool[op[r].email] = None THEN Refuse(r, 502)
       ELSE /\ sub' = [sub EXCEPT ![r] = pool[op[r].email]]
            /\ Goto(r, "commit")
            /\ UNCHANGED <<op, row, grants, pool, target, seen, snap, gone>>

NewRow(r) ==
    [email |-> op[r].email, sub |-> sub[r], role |-> op[r].role,
     system |-> op[r].role = "super_admin" \/ op[r].system, active |-> TRUE]

(* email and cognito_sub are unique, and so is a grant. *)
CreateConflicts(r) ==
    \/ \E u \in Id \ {target[r]} :
         row[u] # None /\ (row[u].email = op[r].email \/ row[u].sub = sub[r])
    \/ op[r].repeated /\ op[r].factories # {}

CommitCreate(r) ==
    /\ pc[r] = "commit" /\ Creates(r) /\ Free(r)
    /\ IF CreateConflicts(r) THEN Refuse(r, 500)
       ELSE /\ row' = [u \in Id |-> IF u = r THEN NewRow(r)
                                   ELSE IF u = target[r] THEN None ELSE row[u]]
            /\ Replaced(GrantsOf(target[r]), {r} \X op[r].factories)
            /\ Answer(r, 201)

-----------------------------------------------------------------------------
(* PATCH /admin/users/{user_id} *)

(* The row is read and the grants to come are validated against the role   *)
(* to come; a row without changes is not written.                          *)
StartUpdate(r) ==
    /\ pc[r] = "start" /\ Updates(r)
    /\ LET u == op[r].user
           role == IF op[r].role = None THEN row[u].role ELSE op[r].role
       IN IF row[u] = None THEN Refuse(r, 404)
          ELSE IF BadGrants(role, NextGrants(r)) THEN Refuse(r, 400)
          ELSE /\ target' = [target EXCEPT ![r] = u]
               /\ seen' = [seen EXCEPT ![r] = row[u]]
               /\ Goto(r, "lockRow")
               /\ UNCHANGED <<op, row, grants, pool, snap, gone, sub>>

(* autoflush: UPDATE app_user of the changed columns, by primary key; none *)
(* matched is a StaleDataError.                                            *)
LockRow(r) ==
    /\ pc[r] = "lockRow" /\ Free(r)
    /\ IF ChangesRow(r) /\ row[target[r]] = None THEN Refuse(r, 500)
       ELSE /\ Goto(r, IF ReplacesGrants(r) THEN "issueDelete" ELSE "commit")
            /\ UNCHANGED <<op, row, grants, pool, target, seen, snap, gone, sub>>

(* A grant needs its user (foreign key) and is unique per factory. *)
UpdateConflicts(r) ==
    /\ NextGrants(r) # {}
    /\ \/ row[target[r]] = None
       \/ op[r].repeated
       \/ ({target[r]} \X NextGrants(r)) \cap (grants \ gone[r]) # {}

CommitUpdate(r) ==
    /\ pc[r] = "commit" /\ Updates(r) /\ Free(r)
    /\ IF UpdateConflicts(r) THEN Refuse(r, 500)
       ELSE LET u == target[r] IN
            /\ row' = [row EXCEPT ![u] = IF @ = None THEN None ELSE Changed(r, @)]
            /\ Replaced(gone[r], {u} \X NextGrants(r))
            /\ Answer(r, 200)

-----------------------------------------------------------------------------
(* DELETE /admin/users/{user_id} *)

StartDelete(r) ==
    /\ pc[r] = "start" /\ Deletes(r)
    /\ IF row[op[r].user] = None THEN Refuse(r, 404)
       ELSE /\ target' = [target EXCEPT ![r] = op[r].user]
            /\ seen' = [seen EXCEPT ![r] = row[op[r].user]]
            /\ Goto(r, "deletePool")
            /\ UNCHANGED <<op, row, grants, pool, snap, gone, sub>>

(* cognito_admin.delete_user(email): a user the pool lacks is an error. *)
DeletePool(r) ==
    /\ pc[r] = "deletePool"
    /\ IF pool[seen[r].email] = None THEN Refuse(r, 502)
       ELSE /\ pool' = [pool EXCEPT ![seen[r].email] = None]
            /\ Goto(r, "issueDelete")
            /\ UNCHANGED <<op, row, grants, target, seen, snap, gone, sub>>

(* The row goes, and the foreign key takes the grants along. *)
CommitDelete(r) ==
    /\ pc[r] = "commit" /\ Deletes(r) /\ Free(r)
    /\ row' = [row EXCEPT ![target[r]] = None]
    /\ Replaced(GrantsOf(target[r]), {})
    /\ Answer(r, 200)

-----------------------------------------------------------------------------
(* DELETE FROM user_factory_access WHERE user_id = target, in all three:   *)
(* it sees the grants committed when it is issued, then waits for those    *)
(* that another transaction is deleting and leaves out those that went.    *)
IssueDelete(r) ==
    /\ pc[r] = "issueDelete"
    /\ snap' = [snap EXCEPT ![r] = GrantsOf(target[r])]
    /\ Goto(r, "finishDelete")
    /\ UNCHANGED <<op, row, grants, pool, target, seen, gone, sub>>

FinishDelete(r) ==
    /\ pc[r] = "finishDelete" /\ Free(r)
    /\ gone' = [gone EXCEPT ![r] = snap[r]]
    /\ Goto(r, IF Creates(r) THEN "dropRow" ELSE "commit")
    /\ UNCHANGED <<op, row, grants, pool, target, seen, snap, sub>>

(* A call of the request fails or its process dies; a Cognito call may     *)
(* have taken effect, the transaction is rolled back.                      *)
Fail(r) ==
    /\ pc[r] # "done" /\ faults < MaxFaults
    /\ faults' = faults + 1
    /\ pc' = [pc EXCEPT ![r] = "done"]
    /\ answer' = [answer EXCEPT ![r] = 500]
    /\ UNCHANGED <<op, row, grants, pool, target, seen, snap, gone, sub>>

(* PostgreSQL rolls back one of two transactions that wait for each other. *)
Deadlock(r) ==
    /\ \E q \in Request : WaitsFor(r, q) /\ WaitsFor(q, r)
    /\ Refuse(r, 500)

(* No request starts while another is under way. *)
Idle == \A r \in Request : pc[r] \in {"start", "done"}
OneByOne == \A r \in Request : pc[r] = "start" /\ pc'[r] # "start" => Idle
Watch == inTurn' = (inTurn /\ OneByOne)

Do(r) ==
    \/ StartCreate(r) \/ CleanPool(r) \/ DropRow(r) \/ CreatePool(r)
    \/ GetPool(r) \/ CommitCreate(r)
    \/ StartUpdate(r) \/ LockRow(r) \/ CommitUpdate(r)
    \/ StartDelete(r) \/ DeletePool(r) \/ CommitDelete(r)
    \/ IssueDelete(r) \/ FinishDelete(r)
    \/ Deadlock(r)

Step(r) == Do(r) /\ Watch

Next == \E r \in Request : Step(r) \/ (Fail(r) /\ Watch)

Spec == Init /\ [][Next]_vars

(* A request that was accepted keeps running. *)
FairSpec == Spec /\ \A r \in Request : WF_vars(Step(r))

-----------------------------------------------------------------------------
(* Type invariant: every variable holds what its comment above says. *)
TypeOK ==
    /\ op \in [Request -> Offered]
    /\ row \in [Id -> Row \cup {None}]
    /\ grants \subseteq Grant
    /\ pool \in [Email -> Id \cup {None}]
    /\ pc \in [Request -> PC]
    /\ target \in [Request -> Id \cup {None}]
    /\ seen \in [Request -> Row \cup {None}]
    /\ snap \in [Request -> SUBSET Grant]
    /\ gone \in [Request -> SUBSET Grant]
    /\ sub \in [Request -> Id \cup {None}]
    /\ answer \in [Request -> {200, 201, 400, 404, 409, 500, 502, None}]
    /\ faults \in 0..MaxFaults
    /\ inTurn \in BOOLEAN

(* An active row and the user pool agree on who the user is. *)
SignsIn(u) == pool[row[u].email] = row[u].sub

ActiveUsers == {u \in Id : row[u] # None /\ row[u].active}

(* A creation with this email would replace a disabled user. *)
Replaces(email) == \E r \in Request : op[r].kind = "create" /\ op[r].email = email

(* No user is deleted and no disabled one replaced; the active ones have   *)
(* their Cognito users when the requests come.                             *)
NothingRemoved ==
    /\ \A r \in Request : op[r].kind # "delete"
    /\ \A u \in Seed : IF SeedRow[u].active
                       THEN SeedPool[SeedRow[u].email] = SeedRow[u].sub
                       ELSE ~Replaces(SeedRow[u].email)

ActiveUsersSignIn == \A u \in ActiveUsers : SignsIn(u)

(* Creating a user, however requests for one email race and wherever they  *)
(* fail, never leaves an active app_user row whose Cognito user is missing *)
(* or is another one, unless users are removed meanwhile (admin_users.py   *)
(* 146-184).                                                               *)
CreatedUsersSignIn == NothingRemoved => ActiveUsersSignIn

(* docs/changes/0031:61: creating, deleting and changing a user keeps      *)
(* Cognito and RDS consistent: while no request is under way, each active  *)
(* row has its Cognito user and each Cognito user its row.                 *)
PoolAgreesWithRows ==
    Idle => /\ ActiveUsersSignIn
            /\ \A e \in Email : pool[e] # None =>
                  \E u \in ActiveUsers : row[u].email = e

(* admin_users.py:100: global administrators must not have per-factory     *)
(* grants, neither by one request nor by two that overlap.                 *)
NoGrantsForGlobalAdmins ==
    \A u \in ActiveUsers : row[u].role \in GlobalAdmin => GrantsOf(u) = {}

(* A super_admin is always shown the system pages (admin_users.py 170,     *)
(* 220-223), whatever sequence of requests made the user one.              *)
SuperAdminsSeeSystem ==
    \A u \in ActiveUsers : row[u].role = "super_admin" => row[u].system

(* docs/changes/0031:61 and admin_users.py:100: as long as requests come   *)
(* one at a time and none has died or met a failed commit, pool and tables *)
(* agree, a global administrator has no grants, and a super_admin is shown *)
(* the system pages. Requests that overlap break these (README, section    *)
(* 4), and so does a creation that names a factory twice: its commit fails *)
(* when the pool has the user.                                             *)
RowsAgreeInTurn ==
    inTurn /\ (\A r \in Request : answer[r] # 500) =>
        PoolAgreesWithRows /\ NoGrantsForGlobalAdmins /\ SuperAdminsSeeSystem

(* Every request is answered, although transactions wait for one another's *)
(* row locks in both orders (an update locks the row first, a deletion the *)
(* grants first).                                                          *)
EveryRequestIsAnswered == \A r \in Request : <>(pc[r] = "done")
=============================================================================

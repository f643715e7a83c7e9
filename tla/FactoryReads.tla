---------------------------- MODULE FactoryReads ----------------------------
(***************************************************************************)
(* GET /factories in one backend process: the principal is read from the   *)
(* database in two statements, then the list comes from a ten-second cache *)
(* or, through the gate of DdbGate, from the table, and what the principal *)
(* may not see is taken out.  The user's row and grants, and the table,    *)
(* change meanwhile.  Times are left out: a cached list is fresh until it  *)
(* expires, and a version stands for the content of the table.             *)
(***************************************************************************)
EXTENDS DdbGate

CONSTANTS
    Reader,      \* the slots of Call that serve requests of one user
    Factory,
    MaxWrites,   \* bound on the writes to the table
    MaxChanges,  \* bound on the changes of the user
    MaxFaults,   \* bound on failed or timed-out reads of the table
    None

ASSUME ReadsAssumption ==
    /\ Reader \subseteq Call
    /\ MaxWrites \in Nat /\ MaxChanges \in Nat /\ MaxFaults \in Nat

(* A user with a row: what a PATCH may commit, since two that overlap can  *)
(* leave a global administrator with grants.  Without one nothing is left  *)
(* but the session; a user created again has another subject and row id.   *)
Users == [role: {"super_admin", "factory_admin"}, active: {TRUE}, grants: SUBSET Factory]
Deleted(u) == [u EXCEPT !.active = FALSE, !.grants = {}]

VARIABLES
    user,      \* the user's rows, as committed
    written,   \* the version of the table
    replica,   \* what an eventually consistent read may still return
    list,      \* _factories_cache, None at first
    fresh,     \* its age is below _FACTORIES_TTL
    pc,        \* where each request is
    allowed,   \* its principal's factories; what it shows, once answered
    read,      \* the version its thread has read
    held,      \* the factories the user could access during the request
    changes, faults

dataVars == <<user, written, replica, changes>>
readVars == <<user, written, replica, list, fresh, pc, allowed, read, held,
              changes, faults>>

ReadsInit ==
    /\ GateInit
    /\ user = [role |-> "factory_admin", active |-> TRUE, grants |-> Factory]
    /\ written = 1 /\ replica = 1 /\ list = None /\ fresh = FALSE
    /\ pc = [r \in Reader |-> "answered"]
    /\ allowed = [r \in Reader |-> {}] /\ read = [r \in Reader |-> 0]
    /\ held = [r \in Reader |-> {}]
    /\ changes = 0 /\ faults = 0

Access(u) ==
    IF ~u.active THEN {} ELSE IF u.role = "super_admin" THEN Factory ELSE u.grants

Goto(r, label) == pc' = [pc EXCEPT ![r] = label]

(* The next request comes: its token is verified (KeySet), it has a session. *)
Ask(r) ==
    /\ pc[r] = "answered" /\ Goto(r, "user")
    /\ held' = [held EXCEPT ![r] = Access(user)]
    /\ allowed' = [allowed EXCEPT ![r] = {}]
    /\ UNCHANGED <<gateVars, dataVars, list, fresh, read, faults>>

(* The factories a principal has before its grants are read. *)
AllowedByRole(u) == IF u.role = "super_admin" THEN Factory ELSE {}

(* select(AppUser): 403 without an active row; a global administrator's    *)
(* allowed_factory_ids are None, which stands for all.                     *)
ReadUser(r) ==
    /\ pc[r] = "user"
    /\ Goto(r, IF ~user.active THEN "answered"
               ELSE IF user.role = "super_admin" THEN "list" ELSE "grants")
    /\ allowed' = [allowed EXCEPT ![r] = IF user.active THEN AllowedByRole(user) ELSE {}]
    /\ UNCHANGED <<gateVars, dataVars, list, fresh, read, held, faults>>

(* select(UserFactoryAccess.factory_id), another statement. *)
ReadGrants(r) ==
    /\ pc[r] = "grants" /\ Goto(r, "list")
    /\ allowed' = [allowed EXCEPT ![r] = @ \cup user.grants]
    /\ UNCHANGED <<gateVars, dataVars, list, fresh, read, held, faults>>

Cached == list # None /\ fresh

(* Mutant: the cache keeps what the first principal was shown. *)
ShownUnfiltered(r) == Factory

(* [item for item in result if item["factory_id"] in allowed] *)
Shown(r) == allowed[r]

Answer(r) ==
    /\ Goto(r, "answered")
    /\ allowed' = [allowed EXCEPT ![r] = Shown(r)]

UseCache(r) ==
    /\ pc[r] = "list" /\ Cached /\ Answer(r)
    /\ UNCHANGED <<gateVars, dataVars, list, fresh, read, held, faults>>

(* await ddb.list_factories() *)
ReadTable(r) ==
    /\ pc[r] = "list" /\ ~Cached /\ Goto(r, "table") /\ Enter(r)
    /\ UNCHANGED <<dataVars, list, fresh, allowed, read, held, faults>>

Store(r) == list' = read[r] /\ fresh' = TRUE

(* The answer is stored by whoever resumes, the last one winning. *)
ListRead(r) ==
    /\ pc[r] = "table" /\ call[r] = "value"
    /\ Leave(r) /\ Store(r) /\ Answer(r)
    /\ read' = [read EXCEPT ![r] = 0]
    /\ UNCHANGED <<dataVars, held, faults>>

(* DynamoDBUnavailableError: 504, and nothing is stored. *)
ListFails(r) ==
    /\ pc[r] = "table" /\ call[r] = "unavailable" /\ Leave(r) /\ Goto(r, "answered")
    /\ allowed' = [allowed EXCEPT ![r] = {}]
    /\ UNCHANGED <<dataVars, list, fresh, read, held, faults>>

(* What the gate does meanwhile; a thread that returns a value has read    *)
(* the table.                                                              *)
Gate(r) ==
    /\ TakePermit(r) \/ StartThread(r) \/ Return(r) \/ TimeOut(r)
    /\ faults' = IF call'[r] = "unavailable" THEN faults + 1 ELSE faults
    /\ faults' <= MaxFaults
    /\ IF call'[r] = "value" THEN \E v \in replica..written : read' = [read EXCEPT ![r] = v]
       ELSE UNCHANGED read
    /\ UNCHANGED <<dataVars, list, fresh, pc, allowed, held>>

GateFrees ==
    /\ OrphanEnds
    /\ UNCHANGED readVars

(* _FACTORIES_TTL has passed since the list was stored. *)
Expire ==
    /\ fresh /\ fresh' = FALSE
    /\ UNCHANGED <<gateVars, dataVars, list, pc, allowed, read, held, faults>>

Write ==
    /\ written < MaxWrites /\ written' = written + 1
    /\ UNCHANGED <<gateVars, user, replica, changes, list, fresh, pc, allowed, read, held, faults>>

Replicate ==
    /\ replica < written /\ replica' = written
    /\ UNCHANGED <<gateVars, user, written, changes, list, fresh, pc, allowed, read, held, faults>>

(* An administrator's PATCH or DELETE of the user is committed. *)
ChangeUser ==
    /\ changes < MaxChanges /\ changes' = changes + 1
    /\ user.active /\ user' \in (Users \ {user}) \cup {Deleted(user)}
    /\ held' = [r \in Reader |-> IF pc[r] = "answered" THEN held[r]
                                 ELSE held[r] \cup Access(user')]
    /\ UNCHANGED <<gateVars, written, replica, list, fresh, pc, allowed, read, faults>>

Serve(r) ==
    ReadUser(r) \/ ReadGrants(r) \/ UseCache(r) \/ ReadTable(r) \/ ListRead(r) \/ ListFails(r)

ReadsNext ==
    \/ \E r \in Reader : Ask(r) \/ Serve(r) \/ Gate(r)
    \/ GateFrees \/ Expire \/ Write \/ Replicate \/ ChangeUser

ReadsSpec == ReadsInit /\ [][ReadsNext]_<<gateVars, readVars>>

-----------------------------------------------------------------------------
(* A request shows no factory that its user could not access at some       *)
(* moment of it, whichever changes are committed between its two           *)
(* statements and its answer, and whoever filled the cache.                *)
AccessWasHeld == \A r \in Reader : pc[r] = "answered" => allowed[r] \subseteq held[r]

(* When the table rests, the cached list becomes its last version, even if *)
(* the older of two overlapping reads was stored last: it lives ten        *)
(* seconds, and is read again while somebody may ask.                     *)
EventuallyListed == <>[](list = written \/ ~user.active)
=============================================================================

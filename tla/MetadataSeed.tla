---------------------------- MODULE MetadataSeed ----------------------------
(***************************************************************************)
(* Start-up of the backend's workers on one database: each runs            *)
(* ensure_metadata_schema, which creates the tables in one transaction and *)
(* seeds the configured factories and bootstrap administrators, one, many  *)
(* or, by default, none, in another.  A failure is logged, never retried,  *)
(* and the worker serves all the same; a worker that is killed is started  *)
(* again.  PostgreSQL makes a write wait for an uncommitted one of the     *)
(* same key; an insertion fails when that one is committed.                *)
(***************************************************************************)
EXTENDS Naturals

CONSTANTS
    Worker,
    Configured,  \* dashboard_factory_ids
    MaxAdmins,   \* bound on the bootstrap administrators
    MaxKills,    \* bound on killed workers
    NoRow

ASSUME SeedAssumption == MaxAdmins \in Nat /\ MaxKills \in Nat

VARIABLES
    bootstrap,  \* how many administrators rbac_bootstrap_super_admin_subs lists
    tables,     \* the tables are there, committed
    rows,       \* factory_id of the committed rows of factory
    admins,     \* the administrators' rows, in the order of the list, or NoRow
    taken,      \* administrators whose email another user has
    step,       \* where each worker is
    missing,    \* the factories its session found missing
    asked,      \* how many administrators it has looked for
    was,        \* the rows it found of them
    email,      \* the emails it found for them
    kills

seedVars == <<bootstrap, tables, rows, admins, taken, step, missing, asked, was,
              email, kills>>

Admin == [email: {"profile", "fallback"}, role: {"super_admin", "factory_admin"},
          active: BOOLEAN]

ASSUME NoRowAssumption == NoRow \notin Admin

(* An empty database, or one that an earlier configuration has seeded. *)
SeedInit ==
    /\ bootstrap \in 0..MaxAdmins
    /\ tables \in BOOLEAN
    /\ rows \in IF tables THEN SUBSET Configured ELSE {{}}
    /\ admins \in [1..MaxAdmins -> IF rows = {} THEN {NoRow} ELSE {NoRow} \cup Admin]
    /\ taken \in IF tables THEN SUBSET {k \in 1..MaxAdmins : admins[k] = NoRow
                                             \/ admins[k].email = "fallback"} ELSE {{}}
    /\ step = [w \in Worker |-> "start"]
    /\ missing = [w \in Worker |-> {}]
    /\ asked = [w \in Worker |-> 0]
    /\ was = [w \in Worker |-> [k \in 1..MaxAdmins |-> NoRow]]
    /\ email = [w \in Worker |-> [k \in 1..MaxAdmins |-> "profile"]]
    /\ kills = 0

To(w, s) == step' = [step EXCEPT ![w] = s]

(* What the database and a session know stays. *)
NothingStored == UNCHANGED <<bootstrap, tables, rows, admins, taken>>
NothingRead == UNCHANGED <<missing, asked, was, email>>

(* create_all looks for the tables. *)
LookForTables(w) ==
    /\ step[w] = "start"
    /\ To(w, IF tables THEN "seed" ELSE "create")
    /\ NothingStored /\ NothingRead /\ UNCHANGED kills

(* CREATE TABLE: waits for another's, and fails once that is committed. *)
CreateTables(w) ==
    /\ step[w] = "create"
    /\ \A v \in Worker \ {w} : step[v] # "created"
    /\ To(w, IF tables THEN "failed" ELSE "created")
    /\ NothingStored /\ NothingRead /\ UNCHANGED kills

CommitTables(w) ==
    /\ step[w] = "created" /\ To(w, "seed")
    /\ tables' = TRUE
    /\ NothingRead /\ UNCHANGED <<bootstrap, rows, admins, taken, kills>>

(* session.get of every configured factory; one by one they would be found *)
(* missing just the same, since a commit brings them all.                  *)
ReadRows(w) ==
    /\ step[w] = "seed" /\ To(w, "seeding")
    /\ missing' = [missing EXCEPT ![w] = Configured \ rows]
    /\ asked' = [asked EXCEPT ![w] = 0]
    /\ NothingStored /\ UNCHANGED <<was, email, kills>>

(* The row an administrator is to have; a session that has read it does    *)
(* not write it.                                                           *)
Wanted(w, k) == [email |-> email[w][k], role |-> "super_admin", active |-> TRUE]
Writes(w, k) == was[w][k] # Wanted(w, k)

(* The next flush of w writes what v has flushed and not committed.  Each  *)
(* SELECT flushes first: the new factories, then the administrator before. *)
WaitsOn(w, v) ==
    /\ step[v] = "seeding" /\ asked[w] < asked[v]
    /\ IF asked[w] = 0 THEN missing[w] \cap missing[v] # {}
       ELSE Writes(w, asked[w]) /\ Writes(v, asked[w])

(* The flush meets a committed row: of its factories, of the administrator *)
(* it inserts, or of another user who has the email it writes.             *)
Clashes(w) ==
    LET k == asked[w] IN
    IF k = 0 THEN missing[w] \cap rows # {}
    ELSE \/ was[w][k] = NoRow /\ admins[k] # NoRow
         \/ /\ k \in taken /\ email[w][k] = "profile"
            /\ was[w][k] = NoRow \/ was[w][k].email = "fallback"

FreeToFlush(w) == step[w] = "seeding" /\ \A v \in Worker \ {w} : ~WaitsOn(w, v)

(* The next administrator: its profile is asked from Cognito, whose        *)
(* failure gives the fallback email; then the SELECT.                      *)
LookForAdmin(w) ==
    /\ FreeToFlush(w) /\ asked[w] < bootstrap
    /\ IF Clashes(w) THEN To(w, "failed") /\ NothingRead
       ELSE /\ asked' = [asked EXCEPT ![w] = @ + 1]
            /\ was' = [was EXCEPT ![w][asked'[w]] = admins[asked'[w]]]
            /\ \E e \in {"profile", "fallback"} : email' = [email EXCEPT ![w][asked'[w]] = e]
            /\ UNCHANGED <<step, missing>>
    /\ NothingStored /\ UNCHANGED kills

(* An administrator's row once w commits: inserted, or with the columns    *)
(* that differed brought up to date.                                       *)
Brought(w, k) ==
    IF was[w][k] = NoRow THEN Wanted(w, k)
    ELSE [c \in DOMAIN admins[k] |->
            IF was[w][k][c] = Wanted(w, k)[c] THEN admins[k][c] ELSE Wanted(w, k)[c]]

(* Mutant: the factories are committed though an administrator clashes. *)
StoredApart(w) ==
    /\ rows' = rows \cup missing[w]
    /\ admins' = IF Clashes(w) THEN admins
                 ELSE [k \in 1..MaxAdmins |-> IF k <= bootstrap THEN Brought(w, k) ELSE admins[k]]

(* What the transaction leaves: all of it, or nothing. *)
Stored(w) ==
    IF Clashes(w) THEN UNCHANGED <<rows, admins>>
    ELSE /\ rows' = rows \cup missing[w]
         /\ admins' = [k \in 1..MaxAdmins |-> IF k <= bootstrap THEN Brought(w, k) ELSE admins[k]]

(* The last flush, and the commit. *)
CommitRows(w) ==
    /\ FreeToFlush(w) /\ asked[w] = bootstrap
    /\ To(w, IF Clashes(w) THEN "failed" ELSE "ready")
    /\ Stored(w)
    /\ NothingRead /\ UNCHANGED <<bootstrap, tables, taken, kills>>

(* A worker is killed, its transaction with it, and started again. *)
Kill(w) ==
    /\ kills < MaxKills /\ kills' = kills + 1
    /\ To(w, "start")
    /\ NothingStored /\ NothingRead

StartUp(w) ==
    LookForTables(w) \/ CreateTables(w) \/ CommitTables(w)
    \/ ReadRows(w) \/ LookForAdmin(w) \/ CommitRows(w)

SeedNext == \E w \in Worker : StartUp(w) \/ Kill(w)

SeedSpec == SeedInit /\ [][SeedNext]_seedVars

-----------------------------------------------------------------------------
(* All that is configured is there. *)
Seeded ==
    /\ rows = Configured
    /\ \A k \in 1..bootstrap :
         admins[k] # NoRow /\ admins[k].role = "super_admin" /\ admins[k].active

(* A commit of a worker's seeding leaves everything configured, and one    *)
(* that failed has left nothing of its own half done: neither a factory    *)
(* nor an administrator comes without the others (metadata.py 50-91).  An  *)
(* empty list of administrators, the default (config.py:47), asks for the  *)
(* factories alone.                                                        *)
SeedIsWhole ==
    [][/\ rows' # rows \/ admins' # admins => Seeded'
       /\ \A w \in Worker : step'[w] = "ready" /\ step[w] # "ready" => Seeded']_seedVars

(* Workers that start together disturb one another, but what makes one     *)
(* fail is that another goes on: unless another user has the email of one, *)
(* every administrator listed is there in the end, with every factory.     *)
EventuallySeeded == taken \cap 1..bootstrap # {} \/ <>[]Seeded
=============================================================================

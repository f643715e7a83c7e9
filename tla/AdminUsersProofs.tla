-------------------------- MODULE AdminUsersProofs --------------------------
(***************************************************************************)
(* Theorems about AdminUsers, for every set of requests, of users and of   *)
(* things a request may ask for.                                           *)
(***************************************************************************)
EXTENDS AdminUsers, TLAPS

(* What a request asks for has the type of its kind. *)
LEMMA OpTypes ==
    ASSUME TypeOK, NEW r \in Request
    PROVE  /\ Creates(r) => op[r] \in CreateOp
           /\ Updates(r) => op[r] \in UpdateOp
           /\ Deletes(r) => op[r] \in DeleteOp
           /\ Creates(r) \/ Updates(r) \/ Deletes(r)
<1>1. op[r] \in CreateOp \cup UpdateOp \cup DeleteOp
  BY AdminAssumption DEF TypeOK
<1> QED
  BY <1>1 DEF CreateOp, UpdateOp, DeleteOp, Creates, Updates, Deletes

Writing == {"lockRow", "issueDelete", "finishDelete", "commit"}

(* What a request knows while it is under way. *)
Working(r) ==
    /\ pc[r] \in {"cleanPool", "dropRow", "createPool", "getPool"} => Creates(r)
    /\ pc[r] = "lockRow" => Updates(r)
    /\ pc[r] = "deletePool" => Deletes(r)
    /\ Creates(r) /\ pc[r] = "commit" => sub[r] \in Id
    /\ Creates(r) /\ pc[r] \notin {"start", "done"} => op[r].factories \subseteq Factory
    /\ Updates(r) /\ pc[r] \in Writing =>
         seen[r] \in Row /\ target[r] \in Id /\ NextGrants(r) \subseteq Factory

TInv == TypeOK /\ \A r \in Request : Working(r)

LEMMA InitTInv == Init => TInv
<1> SUFFICES ASSUME Init PROVE TInv
  OBVIOUS
<1>1. row \in [Id -> Row \cup {None}]
  BY AdminAssumption DEF Init, Id
<1>2. grants \subseteq Grant /\ pool \in [Email -> Id \cup {None}]
  BY AdminAssumption DEF Init, Grant, Id
<1>3. TypeOK
  BY <1>1, <1>2, AdminAssumption DEF Init, TypeOK, PC
<1> QED
  BY <1>3 DEF TInv, Init, Working, Writing

(* A refused request, or one that failed, keeps TInv. *)
LEMMA RefuseTInv ==
    ASSUME TInv, NEW r \in Request,
           NEW status \in {400, 404, 409, 500, 502}, Refuse(r, status), op' = op,
           inTurn' \in BOOLEAN
    PROVE  TInv'
<1>1. TypeOK'
  BY DEF Refuse, TInv, TypeOK, PC
<1>2. ASSUME NEW q \in Request PROVE Working(q)'
  <2>1. CASE q = r
    BY <2>1 DEF Refuse, TInv, TypeOK, Working, Writing
  <2>2. CASE q # r
    BY <2>2 DEF Refuse, TInv, TypeOK, Working, Writing, Creates, Updates,
                Deletes, NextGrants
  <2> QED
    BY <2>1, <2>2
<1> QED
  BY <1>1, <1>2 DEF TInv

(* Other requests do not notice. *)
LEMMA OthersWork ==
    ASSUME TInv, NEW r \in Request, op' = op,
           \A q \in Request \ {r} : /\ pc'[q] = pc[q] /\ target'[q] = target[q]
                                    /\ seen'[q] = seen[q] /\ sub'[q] = sub[q]
    PROVE  \A q \in Request \ {r} : Working(q)'
BY DEF TInv, Working, Writing, Creates, Updates, Deletes, NextGrants

LEMMA StepTInv ==
    ASSUME TInv, NEW r \in Request, op' = op, TypeOK', Working(r)',
           \A q \in Request \ {r} : /\ pc'[q] = pc[q] /\ target'[q] = target[q]
                                    /\ seen'[q] = seen[q] /\ sub'[q] = sub[q]
    PROVE  TInv'
<1>1. \A q \in Request \ {r} : Working(q)'
  BY OthersWork
<1> QED
  BY <1>1 DEF TInv

(* The row an update commits. *)
LEMMA ChangedType ==
    ASSUME TypeOK, NEW r \in Request, Updates(r), seen[r] \in Row,
           NEW current \in Row
    PROVE  /\ Changed(r, current) \in Row
           /\ Changed(r, current).email = current.email
           /\ Changed(r, current).sub = current.sub
           /\ Changed(r, current).active = current.active
<1>1. op[r] \in UpdateOp
  BY OpTypes
<1>2. NextRole(r) \in Role
  BY <1>1, AdminAssumption DEF NextRole, UpdateOp, Role, Row
<1>3. NextSystem(r) \in BOOLEAN
  BY <1>1, AdminAssumption DEF NextSystem, UpdateOp, Row
<1> DEFINE nr == IF NextRole(r) # seen[r].role THEN NextRole(r) ELSE current.role
           ns == IF NextSystem(r) # seen[r].system THEN NextSystem(r) ELSE current.system
<1>4. nr \in Role
  BY <1>2 DEF Row
<1>5. ns \in BOOLEAN
  BY <1>3 DEF Row
<1>6. Changed(r, current) = [current EXCEPT !.role = nr, !.system = ns]
  BY DEF Changed, Row
<1> HIDE DEF nr, ns
<1> QED
  BY <1>4, <1>5, <1>6 DEF Row

(* The row a creation commits. *)
LEMMA NewRowType ==
    ASSUME TypeOK, NEW r \in Request, Creates(r), sub[r] \in Id
    PROVE  NewRow(r) \in Row
<1>1. op[r] \in CreateOp
  BY OpTypes
<1>2. (op[r].role = "super_admin" \/ op[r].system) \in BOOLEAN
  BY <1>1 DEF CreateOp
<1> QED
  BY <1>1, <1>2 DEF NewRow, Row, CreateOp, Role

LEMMA NextWatched ==
    ASSUME TypeOK, [Next]_vars
    PROVE  inTurn' \in BOOLEAN
<1>1. CASE UNCHANGED vars
  BY <1>1 DEF vars, TypeOK
<1>2. CASE Next
  <2>1. inTurn' = (inTurn /\ OneByOne)
    BY <1>2 DEF Next, Step, Watch
  <2> QED
    BY <2>1
<1> QED
  BY <1>1, <1>2

LEMMA NextTInv == TInv /\ [Next]_vars => TInv'
<1> SUFFICES ASSUME TInv, [Next]_vars PROVE TInv'
  OBVIOUS
<1>t. TypeOK
  BY DEF TInv
<1>b. inTurn' \in BOOLEAN
  BY <1>t, NextWatched
<1>i. \A r \in Request : r \in Id
  BY DEF Id
<1> USE DEF PC, Goto
<1>1. ASSUME NEW r \in Request, StartCreate(r) PROVE TInv'
  <2> DEFINE same == SameEmail(r)
  <2>1. CASE Refuse(r, 400) \/ Refuse(r, 409)
    <3>1. op' = op
      BY <2>1 DEF Refuse
    <3> QED
      BY <2>1, <3>1, <1>b, RefuseTInv
  <2>2. CASE ~(Refuse(r, 400) \/ Refuse(r, 409))
    <3>1. op[r].factories \subseteq Factory
      BY <1>1, <2>2 DEF StartCreate, BadGrants
    <3>2. same \subseteq Id
      BY DEF SameEmail
    <3>3. target' \in [Request -> Id \cup {None}]
      BY <1>1, <1>t, <1>b, <2>2, <3>2 DEF StartCreate, TypeOK
    <3>4. TypeOK'
      BY <1>1, <1>t, <1>b, <2>2, <3>3 DEF StartCreate, TypeOK
    <3>5. Working(r)'
      BY <1>1, <1>t, <1>b, <2>2, <3>1
         DEF StartCreate, TypeOK, Working, Creates, Updates, Writing
    <3>8. op' = op
      BY <1>1, <2>2 DEF StartCreate
    <3>9. \A q \in Request \ {r} : /\ pc'[q] = pc[q] /\ target'[q] = target[q]
                                    /\ seen'[q] = seen[q] /\ sub'[q] = sub[q]
      BY <1>1, <1>t, <1>b, <2>2 DEF StartCreate, TypeOK
    <3> QED
      BY <3>4, <3>5, <3>8, <3>9, StepTInv
  <2> QED
    BY <2>1, <2>2
<1>2. ASSUME NEW r \in Request, CleanPool(r) PROVE TInv'
  <2>1. TypeOK'
    BY <1>2, <1>t, <1>b DEF CleanPool, TypeOK
  <2>2. Working(r)'
    BY <1>2, <1>t, <1>b DEF CleanPool, TInv, TypeOK, Working, Creates, Updates, Writing
  <2>8. op' = op
    BY <1>2 DEF CleanPool
  <2>9. \A q \in Request \ {r} : /\ pc'[q] = pc[q] /\ target'[q] = target[q]
                                  /\ seen'[q] = seen[q] /\ sub'[q] = sub[q]
    BY <1>2, <1>t, <1>b DEF CleanPool, TypeOK
  <2> QED
    BY <2>1, <2>2, <2>8, <2>9, StepTInv
<1>3. ASSUME NEW r \in Request, DropRow(r) PROVE TInv'
  <2>1. TypeOK'
    BY <1>3, <1>t, <1>b DEF DropRow, TypeOK
  <2>2. Working(r)'
    BY <1>3, <1>t, <1>b DEF DropRow, TInv, TypeOK, Working, Creates, Updates, Writing
  <2>8. op' = op
    BY <1>3 DEF DropRow
  <2>9. \A q \in Request \ {r} : /\ pc'[q] = pc[q] /\ target'[q] = target[q]
                                  /\ seen'[q] = seen[q] /\ sub'[q] = sub[q]
    BY <1>3, <1>t, <1>b DEF DropRow, TypeOK
  <2> QED
    BY <2>1, <2>2, <2>8, <2>9, StepTInv
<1>4. ASSUME NEW r \in Request, CreatePool(r) PROVE TInv'
  <2>1. CASE Refuse(r, 502)
    <3>1. op' = op
      BY <2>1 DEF Refuse
    <3> QED
      BY <2>1, <3>1, <1>b, RefuseTInv
  <2>2. CASE ~Refuse(r, 502)
    <3>1. TypeOK'
      BY <1>4, <1>t, <1>b, <1>i, <2>2 DEF CreatePool, TypeOK
    <3>2. Working(r)'
      BY <1>4, <1>t, <1>b, <2>2
         DEF CreatePool, TInv, TypeOK, Working, Creates, Updates, Writing
    <3>8. op' = op
      BY <1>4, <2>2 DEF CreatePool
    <3>9. \A q \in Request \ {r} : /\ pc'[q] = pc[q] /\ target'[q] = target[q]
                                    /\ seen'[q] = seen[q] /\ sub'[q] = sub[q]
      BY <1>4, <1>t, <1>b, <2>2 DEF CreatePool, TypeOK
    <3> QED
      BY <3>1, <3>2, <3>8, <3>9, StepTInv
  <2> QED
    BY <2>1, <2>2
<1>5. ASSUME NEW r \in Request, GetPool(r) PROVE TInv'
  <2>1. CASE Refuse(r, 502)
    <3>1. op' = op
      BY <2>1 DEF Refuse
    <3> QED
      BY <2>1, <3>1, <1>b, RefuseTInv
  <2>2. CASE ~Refuse(r, 502)
    <3>0. Creates(r)
      BY <1>5 DEF GetPool, TInv, Working
    <3>1. op[r].email \in Email
      BY <1>t, <1>b, <3>0, OpTypes DEF CreateOp
    <3>2. pool[op[r].email] \in Id
      BY <1>5, <1>t, <1>b, <2>2, <3>1 DEF GetPool, TypeOK
    <3>3. TypeOK'
      BY <1>5, <1>t, <1>b, <2>2, <3>2 DEF GetPool, TypeOK
    <3>4. Working(r)'
      BY <1>5, <1>t, <1>b, <2>2, <3>0, <3>2
         DEF GetPool, TInv, TypeOK, Working, Creates, Updates, Writing
    <3>8. op' = op
      BY <1>5, <2>2 DEF GetPool
    <3>9. \A q \in Request \ {r} : /\ pc'[q] = pc[q] /\ target'[q] = target[q]
                                    /\ seen'[q] = seen[q] /\ sub'[q] = sub[q]
      BY <1>5, <1>t, <1>b, <2>2 DEF GetPool, TypeOK
    <3> QED
      BY <3>3, <3>4, <3>8, <3>9, StepTInv
  <2> QED
    BY <2>1, <2>2
<1>6. ASSUME NEW r \in Request, CommitCreate(r) PROVE TInv'
  <2>1. CASE Refuse(r, 500)
    <3>1. op' = op
      BY <2>1 DEF Refuse
    <3> QED
      BY <2>1, <3>1, <1>b, RefuseTInv
  <2>2. CASE ~Refuse(r, 500)
    <3>0. Creates(r) /\ sub[r] \in Id /\ op[r].factories \subseteq Factory
      BY <1>6 DEF CommitCreate, TInv, Working
    <3>1. NewRow(r) \in Row
      BY <1>t, <1>b, <3>0, NewRowType
    <3>2. row' \in [Id -> Row \cup {None}]
      BY <1>6, <1>t, <1>b, <2>2, <3>1 DEF CommitCreate, TypeOK
    <3>3. grants' \subseteq Grant
      BY <1>6, <1>t, <1>b, <1>i, <2>2, <3>0 DEF CommitCreate, Replaced, GrantsOf, TypeOK, Grant
    <3>4. TypeOK'
      <4>1. snap' \in [Request -> SUBSET Grant]
        BY <1>6, <1>t, <2>2 DEF CommitCreate, Replaced, TypeOK
      <4> QED
        BY <1>6, <1>t, <1>b, <2>2, <3>2, <3>3, <4>1 DEF CommitCreate, Answer, TypeOK
    <3>5. Working(r)'
      BY <1>6, <1>t, <1>b, <2>2 DEF CommitCreate, Answer, TypeOK, Working, Writing
    <3>8. op' = op
      BY <1>6, <2>2 DEF CommitCreate, Answer
    <3>9. \A q \in Request \ {r} : /\ pc'[q] = pc[q] /\ target'[q] = target[q]
                                    /\ seen'[q] = seen[q] /\ sub'[q] = sub[q]
      BY <1>6, <1>t, <1>b, <2>2 DEF CommitCreate, Answer, TypeOK
    <3> QED
      BY <3>4, <3>5, <3>8, <3>9, StepTInv
  <2> QED
    BY <2>1, <2>2
<1>7. ASSUME NEW r \in Request, StartUpdate(r) PROVE TInv'
  <2>1. CASE Refuse(r, 404) \/ Refuse(r, 400)
    <3>1. op' = op
      BY <2>1 DEF Refuse
    <3> QED
      BY <2>1, <3>1, <1>b, RefuseTInv
  <2>2. CASE ~(Refuse(r, 404) \/ Refuse(r, 400))
    <3>0. op[r].user \in Id
      BY <1>7, <1>t, <1>b, OpTypes DEF StartUpdate, UpdateOp
    <3>1. row[op[r].user] \in Row /\ NextGrants(r) \subseteq Factory
      BY <1>7, <1>t, <1>b, <2>2, <3>0 DEF StartUpdate, BadGrants, TypeOK
    <3>2. TypeOK'
      BY <1>7, <1>t, <1>b, <2>2, <3>0, <3>1 DEF StartUpdate, TypeOK
    <3>3. Working(r)'
      BY <1>7, <1>t, <1>b, <2>2, <3>0, <3>1
         DEF StartUpdate, TypeOK, Working, Creates, Updates, Writing, NextGrants, Deletes
    <3>8. op' = op
      BY <1>7, <2>2 DEF StartUpdate
    <3>9. \A q \in Request \ {r} : /\ pc'[q] = pc[q] /\ target'[q] = target[q]
                                    /\ seen'[q] = seen[q] /\ sub'[q] = sub[q]
      BY <1>7, <1>t, <1>b, <2>2 DEF StartUpdate, TypeOK
    <3> QED
      BY <3>2, <3>3, <3>8, <3>9, StepTInv
  <2> QED
    BY <2>1, <2>2
<1>8. ASSUME NEW r \in Request, LockRow(r) PROVE TInv'
  <2>1. CASE Refuse(r, 500)
    <3>1. op' = op
      BY <2>1 DEF Refuse
    <3> QED
      BY <2>1, <3>1, <1>b, RefuseTInv
  <2>2. CASE ~Refuse(r, 500)
    <3>1. TypeOK'
      BY <1>8, <1>t, <1>b, <2>2 DEF LockRow, TypeOK
    <3>2. Updates(r)
      BY <1>8 DEF LockRow, TInv, Working
    <3>3. Working(r)'
      BY <1>8, <1>t, <1>b, <2>2, <3>2 DEF LockRow, TInv, TypeOK, Working, Creates, Updates,
                              Writing, NextGrants, Deletes
    <3>8. op' = op
      BY <1>8, <2>2 DEF LockRow
    <3>9. \A q \in Request \ {r} : /\ pc'[q] = pc[q] /\ target'[q] = target[q]
                                    /\ seen'[q] = seen[q] /\ sub'[q] = sub[q]
      BY <1>8, <1>t, <1>b, <2>2 DEF LockRow, TypeOK
    <3> QED
      BY <3>1, <3>3, <3>8, <3>9, StepTInv
  <2> QED
    BY <2>1, <2>2
<1>9. ASSUME NEW r \in Request, CommitUpdate(r) PROVE TInv'
  <2>1. CASE Refuse(r, 500)
    <3>1. op' = op
      BY <2>1 DEF Refuse
    <3> QED
      BY <2>1, <3>1, <1>b, RefuseTInv
  <2>2. CASE ~Refuse(r, 500)
    <3>0. seen[r] \in Row /\ target[r] \in Id /\ NextGrants(r) \subseteq Factory
      BY <1>9 DEF CommitUpdate, TInv, Working, Writing
    <3>1. row[target[r]] # None => Changed(r, row[target[r]]) \in Row
      BY <1>9, <1>t, <1>b, <3>0, ChangedType DEF CommitUpdate, TypeOK
    <3>2. row' \in [Id -> Row \cup {None}]
      BY <1>9, <1>t, <1>b, <2>2, <3>0, <3>1 DEF CommitUpdate, TypeOK
    <3>3. grants' \subseteq Grant
      BY <1>9, <1>t, <1>b, <2>2, <3>0 DEF CommitUpdate, Replaced, TypeOK, Grant
    <3>4. TypeOK'
      <4>1. snap' \in [Request -> SUBSET Grant]
        BY <1>9, <1>t, <2>2 DEF CommitUpdate, Replaced, TypeOK
      <4> QED
        BY <1>9, <1>t, <1>b, <2>2, <3>2, <3>3, <4>1 DEF CommitUpdate, Answer, TypeOK
    <3>5. Working(r)'
      BY <1>9, <1>t, <1>b, <2>2 DEF CommitUpdate, Answer, TypeOK, Working, Writing
    <3>8. op' = op
      BY <1>9, <2>2 DEF CommitUpdate, Answer
    <3>9. \A q \in Request \ {r} : /\ pc'[q] = pc[q] /\ target'[q] = target[q]
                                    /\ seen'[q] = seen[q] /\ sub'[q] = sub[q]
      BY <1>9, <1>t, <1>b, <2>2 DEF CommitUpdate, Answer, TypeOK
    <3> QED
      BY <3>4, <3>5, <3>8, <3>9, StepTInv
  <2> QED
    BY <2>1, <2>2
<1>10. ASSUME NEW r \in Request, StartDelete(r) PROVE TInv'
  <2>1. CASE Refuse(r, 404)
    <3>1. op' = op
      BY <2>1 DEF Refuse
    <3> QED
      BY <2>1, <3>1, <1>b, RefuseTInv
  <2>2. CASE ~Refuse(r, 404)
    <3>0. op[r].user \in Id
      BY <1>10, <1>t, <1>b, OpTypes DEF StartDelete, DeleteOp
    <3>1. row[op[r].user] \in Row \cup {None}
      BY <1>t, <1>b, <3>0 DEF TypeOK
    <3>2. TypeOK'
      BY <1>10, <1>t, <1>b, <2>2, <3>0, <3>1 DEF StartDelete, TypeOK
    <3>3. Working(r)'
      BY <1>10, <1>t, <1>b, <2>2
         DEF StartDelete, TypeOK, Working, Creates, Updates, Deletes, Writing
    <3>8. op' = op
      BY <1>10, <2>2 DEF StartDelete
    <3>9. \A q \in Request \ {r} : /\ pc'[q] = pc[q] /\ target'[q] = target[q]
                                    /\ seen'[q] = seen[q] /\ sub'[q] = sub[q]
      BY <1>10, <1>t, <1>b, <2>2 DEF StartDelete, TypeOK
    <3> QED
      BY <3>2, <3>3, <3>8, <3>9, StepTInv
  <2> QED
    BY <2>1, <2>2
<1>11. ASSUME NEW r \in Request, DeletePool(r) PROVE TInv'
  <2>1. CASE Refuse(r, 502)
    <3>1. op' = op
      BY <2>1 DEF Refuse
    <3> QED
      BY <2>1, <3>1, <1>b, RefuseTInv
  <2>2. CASE ~Refuse(r, 502)
    <3>1. TypeOK'
      BY <1>11, <1>t, <1>b, <2>2 DEF DeletePool, TypeOK
    <3>2. Deletes(r)
      BY <1>11 DEF DeletePool, TInv, Working
    <3>3. Working(r)'
      BY <1>11, <1>t, <1>b, <2>2, <3>2
         DEF DeletePool, TypeOK, Working, Creates, Updates, Deletes, Writing
    <3>8. op' = op
      BY <1>11, <2>2 DEF DeletePool
    <3>9. \A q \in Request \ {r} : /\ pc'[q] = pc[q] /\ target'[q] = target[q]
                                    /\ seen'[q] = seen[q] /\ sub'[q] = sub[q]
      BY <1>11, <1>t, <1>b, <2>2 DEF DeletePool, TypeOK
    <3> QED
      BY <3>1, <3>3, <3>8, <3>9, StepTInv
  <2> QED
    BY <2>1, <2>2
<1>12. ASSUME NEW r \in Request, CommitDelete(r) PROVE TInv'
  <2>g. grants' \subseteq Grant
    BY <1>12, <1>t DEF CommitDelete, Replaced, TypeOK
  <2>s. snap' \in [Request -> SUBSET Grant]
    BY <1>12, <1>t DEF CommitDelete, Replaced, TypeOK
  <2>w. row' \in [Id -> Row \cup {None}]
    BY <1>12, <1>t DEF CommitDelete, TypeOK
  <2>p. pc' \in [Request -> PC]
    BY <1>12, <1>t DEF CommitDelete, Answer, TypeOK
  <2>0. /\ grants' \subseteq Grant
        /\ row' \in [Id -> Row \cup {None}]
        /\ pc' \in [Request -> PC]
        /\ snap' \in [Request -> SUBSET Grant]
    BY <2>g, <2>s, <2>w, <2>p
  <2>a. answer' \in [Request -> {200, 201, 400, 404, 409, 500, 502, None}]
    BY <1>12, <1>t, <1>b DEF CommitDelete, Answer, TypeOK
  <2>1. TypeOK'
    BY <1>12, <1>t, <1>b, <2>0, <2>a DEF CommitDelete, Answer, TypeOK
  <2>2. Working(r)'
    BY <1>12, <1>t, <1>b DEF CommitDelete, Answer, TypeOK, Working, Writing
  <2>8. op' = op
    BY <1>12 DEF CommitDelete, Answer
  <2>9. \A q \in Request \ {r} : /\ pc'[q] = pc[q] /\ target'[q] = target[q]
                                  /\ seen'[q] = seen[q] /\ sub'[q] = sub[q]
    BY <1>12, <1>t, <1>b DEF CommitDelete, Answer, TypeOK
  <2> QED
    BY <2>1, <2>2, <2>8, <2>9, StepTInv
<1>13. ASSUME NEW r \in Request, IssueDelete(r) PROVE TInv'
  <2>1. TypeOK'
    BY <1>13, <1>t, <1>b DEF IssueDelete, TypeOK, GrantsOf
  <2>2. Working(r)'
    BY <1>13, <1>t, <1>b DEF IssueDelete, TInv, TypeOK, Working, Creates, Updates, Writing,
                       NextGrants, Deletes
  <2>8. op' = op
    BY <1>13 DEF IssueDelete
  <2>9. \A q \in Request \ {r} : /\ pc'[q] = pc[q] /\ target'[q] = target[q]
                                  /\ seen'[q] = seen[q] /\ sub'[q] = sub[q]
    BY <1>13, <1>t, <1>b DEF IssueDelete, TypeOK
  <2> QED
    BY <2>1, <2>2, <2>8, <2>9, StepTInv
<1>14. ASSUME NEW r \in Request, FinishDelete(r) PROVE TInv'
  <2>1. TypeOK'
    BY <1>14, <1>t, <1>b DEF FinishDelete, TypeOK
  <2>2. Working(r)'
    BY <1>14, <1>t, <1>b DEF FinishDelete, TInv, TypeOK, Working, Creates, Updates, Writing,
                       NextGrants, Deletes
  <2>8. op' = op
    BY <1>14 DEF FinishDelete
  <2>9. \A q \in Request \ {r} : /\ pc'[q] = pc[q] /\ target'[q] = target[q]
                                  /\ seen'[q] = seen[q] /\ sub'[q] = sub[q]
    BY <1>14, <1>t, <1>b DEF FinishDelete, TypeOK
  <2> QED
    BY <2>1, <2>2, <2>8, <2>9, StepTInv
<1>15. ASSUME NEW r \in Request, Deadlock(r) PROVE TInv'
  <2>1. Refuse(r, 500)
    BY <1>15 DEF Deadlock
  <2>2. op' = op
    BY <2>1 DEF Refuse
  <2> QED
    BY <2>1, <2>2, <1>b, RefuseTInv
<1>16. ASSUME NEW r \in Request, Fail(r) PROVE TInv'
  <2>1. TypeOK'
    BY <1>16, <1>t, <1>b, AdminAssumption DEF Fail, TypeOK
  <2>2. Working(r)'
    BY <1>16, <1>t, <1>b DEF Fail, TypeOK, Working, Writing
  <2>8. op' = op
    BY <1>16 DEF Fail
  <2>9. \A q \in Request \ {r} : /\ pc'[q] = pc[q] /\ target'[q] = target[q]
                                  /\ seen'[q] = seen[q] /\ sub'[q] = sub[q]
    BY <1>16, <1>t, <1>b DEF Fail, TypeOK
  <2> QED
    BY <2>1, <2>2, <2>8, <2>9, StepTInv
<1>17. CASE UNCHANGED vars
  BY <1>17 DEF vars, TInv, TypeOK, Working, Creates, Updates, Deletes, NextGrants, Writing
<1>18. CASE Next
  <2>1. PICK r \in Request : Step(r) \/ Fail(r)
    BY <1>18 DEF Next
  <2> QED
    BY <2>1, <1>1, <1>2, <1>3, <1>4, <1>5, <1>6, <1>7, <1>8, <1>9, <1>10, <1>11,
       <1>12, <1>13, <1>14, <1>15, <1>16 DEF Step, Do
<1> QED
  BY <1>17, <1>18

(* Every variable keeps its type. *)
THEOREM TypeCorrect == Spec => []TypeOK
<1>1. TInv => TypeOK
  BY DEF TInv
<1> QED
  BY <1>1, InitTInv, NextTInv, PTL DEF Spec

-----------------------------------------------------------------------------
(* The rows stay what the pool says; nobody clears a pool entry, so a      *)
(* subject read from the pool is still there when the row is committed.    *)
SInv ==
    /\ TInv
    /\ \A u \in Id : row[u] # None =>
         IF row[u].active THEN SignsIn(u) ELSE ~Replaces(row[u].email)
    /\ \A r \in Request :
         /\ ~Deletes(r)
         /\ Creates(r) => /\ target[r] = None
                          /\ pc[r] \in {"start", "createPool", "getPool", "commit", "done"}
         /\ Creates(r) /\ pc[r] = "commit" => sub[r] = pool[op[r].email]

(* A pool entry that is there stays. *)
PoolGrows == \A e \in Email : pool[e] # None => pool'[e] = pool[e]

LEMMA SeedSInv == ASSUME NothingRemoved, Init PROVE SInv
<1>1. TInv
  BY InitTInv
<1>2. ASSUME NEW u \in Id, row[u] # None
      PROVE  IF row[u].active THEN SignsIn(u) ELSE ~Replaces(row[u].email)
  BY <1>2 DEF NothingRemoved, Init, SignsIn
<1>3. ASSUME NEW r \in Request PROVE ~Deletes(r)
  BY DEF NothingRemoved, Deletes
<1> QED
  BY <1>1, <1>2, <1>3 DEF SInv, Init

(* The pool loses nothing in a step. *)
LEMMA StepPoolGrows ==
    ASSUME SInv, NEW r \in Request, Step(r) \/ Fail(r)
    PROVE  PoolGrows
<1>t. TypeOK /\ Working(r) /\ ~Deletes(r)
      /\ (Creates(r) => pc[r] \in {"start", "createPool", "getPool", "commit", "done"})
  BY DEF SInv, TInv
<1>1. CASE CreatePool(r)
  BY <1>1, <1>t DEF CreatePool, Refuse, PoolGrows, TypeOK
<1>2. ~CleanPool(r) /\ ~DeletePool(r)
  BY <1>t DEF CleanPool, DeletePool, Working
<1> QED
  BY <1>1, <1>2
     DEF Step, Do, Fail, StartCreate, DropRow, GetPool, CommitCreate, StartUpdate, LockRow,
         CommitUpdate, StartDelete, CommitDelete, IssueDelete, FinishDelete, Deadlock,
         Refuse, Answer, PoolGrows

(* Rows that are left alone stay what the pool says. *)
LEMMA KeptRows ==
    ASSUME SInv, PoolGrows, NEW u \in Id, row[u] # None, row'[u] # None,
           row'[u].email = row[u].email, row'[u].sub = row[u].sub,
           row'[u].active = row[u].active
    PROVE  IF row'[u].active THEN SignsIn(u)' ELSE ~Replaces(row'[u].email)
<1>1. CASE ~row[u].active
  BY <1>1 DEF SInv
<1>2. CASE row[u].active
  <2>1. row[u] \in Row /\ pool[row[u].email] = row[u].sub
    BY <1>2 DEF SInv, TInv, TypeOK, SignsIn
  <2>2. row[u].email \in Email /\ pool[row[u].email] # None
    BY <2>1, AdminAssumption DEF Row
  <2> QED
    BY <1>2, <2>1, <2>2 DEF PoolGrows, SignsIn
<1> QED
  BY <1>1, <1>2

LEMMA OpsKept == [Next]_vars => op' = op
<1>1. CASE UNCHANGED vars
  BY <1>1 DEF vars
<1>2. ASSUME NEW r \in Request,
             StartCreate(r) \/ CleanPool(r) \/ DropRow(r) \/ CreatePool(r) \/ GetPool(r)
             \/ CommitCreate(r)
      PROVE  op' = op
  BY <1>2 DEF StartCreate, CleanPool, DropRow, CreatePool, GetPool, CommitCreate, Refuse,
              Answer
<1>3. ASSUME NEW r \in Request,
             StartUpdate(r) \/ LockRow(r) \/ CommitUpdate(r) \/ StartDelete(r)
             \/ DeletePool(r) \/ CommitDelete(r)
      PROVE  op' = op
  BY <1>3 DEF StartUpdate, LockRow, CommitUpdate, StartDelete, DeletePool, CommitDelete,
              Refuse, Answer
<1>4. ASSUME NEW r \in Request, IssueDelete(r) \/ FinishDelete(r) \/ Deadlock(r) \/ Fail(r)
      PROVE  op' = op
  BY <1>4 DEF IssueDelete, FinishDelete, Deadlock, Fail, Refuse
<1> QED
  BY <1>1, <1>2, <1>3, <1>4 DEF Next, Step, Do

LEMMA NextSInv == SInv /\ [Next]_vars => SInv'
<1> SUFFICES ASSUME SInv, [Next]_vars PROVE SInv'
  OBVIOUS
<1>t. TInv /\ TypeOK /\ TInv'
  BY NextTInv DEF SInv, TInv
<1>1. CASE UNCHANGED vars
  BY <1>1, <1>t DEF SInv, vars, SignsIn, Creates, Deletes, Replaces
<1>2. CASE Next
  <2>1. PICK r \in Request : Step(r) \/ Fail(r)
    BY <1>2 DEF Next
  <2>2. PoolGrows
    BY <2>1, StepPoolGrows
  <2>w. /\ Working(r) /\ ~Deletes(r)
        /\ Creates(r) => /\ target[r] = None
                         /\ pc[r] \in {"start", "createPool", "getPool", "commit", "done"}
        /\ Creates(r) /\ pc[r] = "commit" => sub[r] = pool[op[r].email]
    BY DEF SInv, TInv
  <2>3. ASSUME NEW u \in Id, row'[u] # None
        PROVE  IF row'[u].active THEN SignsIn(u)' ELSE ~Replaces(row'[u].email)
    <3>1. CASE row' = row
      BY <3>1, <2>2, <2>3, KeptRows
    <3>2. CASE CommitCreate(r) /\ row' # row
      <4>0. Creates(r) /\ ~CreateConflicts(r) /\ target[r] = None /\ sub[r] \in Id
            /\ sub[r] = pool[op[r].email]
        BY <3>2, <2>w DEF CommitCreate, Refuse, Working
      <4>1. row'[u] = IF u = r THEN NewRow(r) ELSE row[u]
        BY <3>2, <4>0, AdminAssumption DEF CommitCreate, Refuse
      <4>2. pool' = pool
        BY <3>2, <4>0 DEF CommitCreate, Answer
      <4>3. CASE u = r
        BY <4>0, <4>1, <4>2, <4>3 DEF NewRow, SignsIn
      <4>4. CASE u # r
        BY <4>1, <4>4, <2>2, <2>3, KeptRows
      <4> QED
        BY <4>3, <4>4
    <3>3. CASE CommitUpdate(r) /\ row' # row
      <4>0. Updates(r) /\ seen[r] \in Row /\ target[r] \in Id
        BY <3>3, <2>w DEF CommitUpdate, Working, Writing
      <4>1. row' = [row EXCEPT ![target[r]] =
                      IF row[target[r]] = None THEN None ELSE Changed(r, row[target[r]])]
        BY <3>3, <1>t, <4>0 DEF CommitUpdate, Refuse, TypeOK
      <4>2. CASE u = target[r]
        <5>1. row[u] # None /\ row[u] \in Row
          BY <1>t, <2>3, <4>0, <4>1, <4>2 DEF TypeOK
        <5>2. row'[u] = Changed(r, row[u])
          BY <1>t, <4>0, <4>1, <4>2, <5>1 DEF TypeOK
        <5> QED
          BY <1>t, <2>2, <2>3, <4>0, <5>1, <5>2, ChangedType, KeptRows
      <4>3. CASE u # target[r]
        <5>1. row'[u] = row[u]
          BY <1>t, <4>0, <4>1, <4>3 DEF TypeOK
        <5> QED
          BY <2>2, <2>3, <5>1, KeptRows
      <4> QED
        BY <4>2, <4>3
    <3>4. CommitCreate(r) \/ CommitUpdate(r) \/ row' = row
      BY <2>1, <2>w
         DEF Step, Do, Fail, StartCreate, DropRow, GetPool, StartUpdate, LockRow, CreatePool,
             CleanPool, DeletePool, StartDelete, CommitDelete, IssueDelete, FinishDelete,
             Deadlock, Refuse
    <3> QED
      BY <3>1, <3>2, <3>3, <3>4
  <2>4. op' = op
    BY OpsKept
  <2>5. ASSUME NEW q \in Request, Creates(q)
        PROVE  /\ target'[q] = None
               /\ pc'[q] \in {"start", "createPool", "getPool", "commit", "done"}
               /\ pc'[q] = "commit" => sub'[q] = pool'[op[q].email]
    <3>e. op[q].email \in Email
      BY <2>5, <1>t, OpTypes DEF CreateOp
    <3>q. /\ target[q] = None
          /\ pc[q] \in {"start", "createPool", "getPool", "commit", "done"}
          /\ pc[q] = "commit" => sub[q] = pool[op[q].email] /\ sub[q] \in Id
      BY <2>5 DEF SInv, TInv, Working
    <3>1. CASE q # r
      <4>1. pc'[q] = pc[q] /\ target'[q] = target[q] /\ sub'[q] = sub[q]
        BY <2>1, <3>1, <1>t
           DEF Step, Do, Fail, StartCreate, DropRow, GetPool, StartUpdate, LockRow,
               CreatePool, CleanPool, DeletePool, StartDelete, CommitDelete, IssueDelete,
               FinishDelete, CommitCreate, CommitUpdate, Deadlock, Refuse, Answer, Goto,
               TypeOK
      <4> QED
        BY <4>1, <3>q, <3>e, <2>2, AdminAssumption DEF PoolGrows
    <3>2. CASE q = r /\ StartCreate(r)
      <4>1. SameEmail(r) = {} \/ \E u \in SameEmail(r) : row[u].active
        <5>1. Replaces(op[r].email)
          BY <2>5, <3>2 DEF Replaces, Creates
        <5> QED
          BY <5>1 DEF SameEmail, SInv
      <4>2. CASE Refuse(r, 400) \/ Refuse(r, 409)
        BY <4>2, <3>2, <3>q, <1>t DEF Refuse, TypeOK
      <4>3. CASE ~(Refuse(r, 400) \/ Refuse(r, 409))
        BY <4>1, <4>3, <3>2, <3>q, <1>t DEF StartCreate, Goto, TypeOK
      <4> QED
        BY <4>2, <4>3
    <3>3. CASE q = r /\ GetPool(r)
      BY <3>3, <3>q, <1>t DEF GetPool, Goto, Refuse, TypeOK
    <3>4. CASE q = r /\ CreatePool(r)
      BY <3>4, <3>q, <1>t DEF CreatePool, Goto, Refuse, TypeOK
    <3>5. CASE q = r /\ (CommitCreate(r) \/ Deadlock(r) \/ Fail(r))
      BY <3>5, <3>q, <1>t
         DEF CommitCreate, Deadlock, Fail, Refuse, Answer, TypeOK
    <3>6. q = r => /\ ~CleanPool(r) /\ ~DropRow(r) /\ ~StartUpdate(r) /\ ~LockRow(r)
                   /\ ~CommitUpdate(r) /\ ~StartDelete(r) /\ ~DeletePool(r)
                   /\ ~CommitDelete(r) /\ ~IssueDelete(r) /\ ~FinishDelete(r)
      BY <2>5, <3>q
         DEF CleanPool, DropRow, StartUpdate, LockRow, CommitUpdate, StartDelete,
             DeletePool, CommitDelete, IssueDelete, FinishDelete, Creates, Updates, Deletes
    <3> QED
      BY <2>1, <3>1, <3>2, <3>3, <3>4, <3>5, <3>6 DEF Step, Do
  <2>6. ASSUME NEW u \in Id, (row[u] # None)'
        PROVE  (IF row[u].active THEN SignsIn(u) ELSE ~Replaces(row[u].email))'
    BY <2>3, <2>4, <2>6 DEF Replaces
  <2>7. \A q \in Request : ~Deletes(q)'
    BY <2>4 DEF SInv, Deletes
  <2> QED
    BY <1>t, <2>4, <2>5, <2>6, <2>7 DEF SInv, Creates
<1> QED
  BY <1>1, <1>2

(* As long as nobody is deleted or replaced, creations and updates that    *)
(* overlap and fail anywhere leave every active row with its own Cognito   *)
(* user (admin_users.py 113-198, 201-264).                                 *)
THEOREM SignInCorrect == Spec => []CreatedUsersSignIn
<1> DEFINE I == NothingRemoved => SInv
<1>1. Init => I
  BY SeedSInv
<1>2. I /\ [Next]_vars => I'
  <2> SUFFICES ASSUME I, [Next]_vars, NothingRemoved' PROVE SInv'
    OBVIOUS
  <2>1. NothingRemoved
    BY OpsKept DEF NothingRemoved, Replaces
  <2> QED
    BY <2>1, NextSInv
<1>3. I => CreatedUsersSignIn
  BY DEF SInv, CreatedUsersSignIn, ActiveUsersSignIn, ActiveUsers
<1> QED
  BY <1>1, <1>2, <1>3, PTL DEF Spec

-----------------------------------------------------------------------------
(* Requests that come one at a time. *)

Busy(r) == pc[r] \notin {"start", "done"}

Calm == inTurn /\ \A r \in Request : answer[r] # 500

(* Pool and active rows agree about an email. *)
AgreeOn(e) ==
    /\ \A u \in ActiveUsers : row[u].email = e => pool[e] = row[u].sub
    /\ pool[e] # None => \E u \in ActiveUsers : row[u].email = e

(* The pool is ahead of the rows: r has created or deleted the Cognito user. *)
Ahead(r, e) ==
    \/ Creates(r) /\ pc[r] \in {"getPool", "commit"} /\ e = op[r].email
    \/ Deletes(r) /\ pc[r] \in Writing /\ e = seen[r].email

(* What a creation that works alone knows. *)
CreatesAlone(r) ==
    /\ ~BadGrants(op[r].role, op[r].factories)
    /\ \A u \in SameEmail(r) : u = target[r] /\ ~row[u].active
    /\ target[r] # None => target[r] \in SameEmail(r)
    /\ pc[r] = "getPool" => pool[op[r].email] # None
    /\ pc[r] = "commit" => sub[r] = pool[op[r].email]

(* What an update that works alone knows. *)
UpdatesAlone(r) ==
    /\ target[r] \in Id /\ seen[r] = row[target[r]] /\ seen[r] # None
    /\ ~BadGrants(NextRole(r), NextGrants(r))
    /\ pc[r] = "finishDelete" => snap[r] = GrantsOf(target[r])
    /\ pc[r] = "commit" /\ ReplacesGrants(r) => gone[r] = GrantsOf(target[r])

(* What a deletion that works alone knows. *)
DeletesAlone(r) ==
    /\ target[r] \in Id /\ seen[r] = row[target[r]] /\ seen[r] # None
    /\ pc[r] \in Writing => pool[seen[r].email] = None

Alone(r) ==
    /\ \A q \in Request : Busy(q) => q = r
    /\ Creates(r) => CreatesAlone(r)
    /\ Updates(r) => UpdatesAlone(r)
    /\ Deletes(r) => DeletesAlone(r)

EmailsUnique ==
    \A u, v \in Id : row[u] # None /\ row[v] # None /\ row[u].email = row[v].email => u = v

RowsSound ==
    /\ EmailsUnique
    /\ \A g \in grants : row[g[1]] # None
    /\ \A r \in Request : row[r] # None => pc[r] = "done"
    /\ NoGrantsForGlobalAdmins
    /\ SuperAdminsSeeSystem

CalmInv ==
    /\ RowsSound
    /\ \A e \in Email : AgreeOn(e) \/ \E r \in Request : Ahead(r, e)
    /\ \A r \in Request : Busy(r) => Alone(r)

FailedDone == \A r \in Request : answer[r] = 500 => pc[r] = "done"

TurnInv == TInv /\ FailedDone /\ (Calm => CalmInv)

(* Before and in a step of r no other request is under way. *)
TurnStep(r) ==
    /\ TypeOK /\ TypeOK' /\ Working(r) /\ CalmInv
    /\ op' = op /\ pc[r] # "done"
    /\ \A q \in Request \ {r} : ~Busy(q) /\ pc'[q] = pc[q]

(* What a request of r's kind knows when it works alone. *)
KnowsItsPart(r) ==
    /\ Creates(r) => CreatesAlone(r)
    /\ Updates(r) => UpdatesAlone(r)
    /\ Deletes(r) => DeletesAlone(r)

LEMMA StepKnows ==
    ASSUME NEW r \in Request, TurnStep(r)
    PROVE  /\ Busy(r) => KnowsItsPart(r)
           /\ \A e \in Email : AgreeOn(e) \/ Ahead(r, e)
           /\ RowsSound
<1>1. \A e \in Email : AgreeOn(e) \/ \E q \in Request : Ahead(q, e)
  BY DEF TurnStep, CalmInv
<1>2. ASSUME NEW q \in Request, NEW e, Ahead(q, e) PROVE Busy(q)
  BY <1>2 DEF Ahead, Busy, Writing
<1>3. \A q \in Request : Busy(q) => q = r
  BY DEF TurnStep
<1>4. \A e \in Email : AgreeOn(e) \/ Ahead(r, e)
  BY <1>1, <1>2, <1>3
<1>5. RowsSound /\ (Busy(r) => Alone(r))
  BY DEF TurnStep, CalmInv
<1> QED
  BY <1>4, <1>5 DEF Alone, KnowsItsPart

(* What is left to show of a step. *)
LEMMA CloseTurn ==
    ASSUME NEW r \in Request, TurnStep(r), RowsSound',
           \A e \in Email : AgreeOn(e)' \/ Ahead(r, e)',
           Busy(r)' => KnowsItsPart(r)'
    PROVE  CalmInv'
<1>1. \A q \in Request : Busy(q)' => q = r
  BY DEF TurnStep, Busy
<1>2. (\A e \in Email : AgreeOn(e) \/ \E q \in Request : Ahead(q, e))'
  OBVIOUS
<1>3. \A q \in Request : Busy(q)' => Alone(q)'
  BY <1>1 DEF Alone, KnowsItsPart
<1> QED
  BY <1>2, <1>3 DEF CalmInv

LEMMA RowsKept ==
    ASSUME NEW r \in Request, TurnStep(r), row' = row, grants' = grants
    PROVE  RowsSound'
<1>1. RowsSound
  BY StepKnows
<1>2. \A q \in Request : row'[q] # None => pc'[q] = "done"
  BY <1>1 DEF TurnStep, RowsSound
<1>3. ActiveUsers' = ActiveUsers /\ \A u : GrantsOf(u)' = GrantsOf(u)
  BY DEF ActiveUsers, GrantsOf
<1>4. EmailsUnique' /\ NoGrantsForGlobalAdmins' /\ SuperAdminsSeeSystem'
  BY <1>1, <1>3 DEF RowsSound, EmailsUnique, NoGrantsForGlobalAdmins, SuperAdminsSeeSystem
<1> QED
  BY <1>1, <1>2, <1>4 DEF RowsSound

LEMMA AgreeKept ==
    ASSUME NEW e \in Email, AgreeOn(e), row' = row, pool'[e] = pool[e]
    PROVE  AgreeOn(e)'
<1>1. ActiveUsers' = ActiveUsers
  BY DEF ActiveUsers
<1> QED
  BY <1>1 DEF AgreeOn

(* Neither tables nor pool change. *)
LEMMA QuietTurn ==
    ASSUME NEW r \in Request, TurnStep(r),
           row' = row, grants' = grants, pool' = pool,
           \A e \in Email : Ahead(r, e) => Ahead(r, e)',
           Busy(r)' => KnowsItsPart(r)'
    PROVE  CalmInv'
<1>1. \A e \in Email : AgreeOn(e)' \/ Ahead(r, e)'
  BY StepKnows, AgreeKept
<1> QED
  BY <1>1, RowsKept, CloseTurn

LEMMA RefuseTurn ==
    ASSUME NEW r \in Request, TurnStep(r),
           NEW status, Refuse(r, status), \A e \in Email : ~Ahead(r, e)
    PROVE  CalmInv'
<1>1. row' = row /\ grants' = grants /\ pool' = pool
  BY DEF Refuse
<1>2. ~Busy(r)'
  BY DEF Refuse, Busy, TurnStep, TypeOK
<1> QED
  BY <1>1, <1>2, QuietTurn

-----------------------------------------------------------------------------
(* One lemma per step that leaves tables and pool alone. *)

LEMMA TurnStartCreate ==
    ASSUME NEW r \in Request, TurnStep(r), StartCreate(r)
    PROVE  CalmInv'
<1>a. Creates(r) /\ pc[r] = "start" /\ ~Updates(r) /\ ~Deletes(r)
  BY DEF StartCreate, Creates, Updates, Deletes
<1>b. \A e \in Email : ~Ahead(r, e)
  BY <1>a DEF Ahead
<1>1. CASE Refuse(r, 400) \/ Refuse(r, 409)
  BY <1>1, <1>b, RefuseTurn
<1>2. CASE ~(Refuse(r, 400) \/ Refuse(r, 409))
  <2>1. /\ ~BadGrants(op[r].role, op[r].factories)
        /\ \A u \in SameEmail(r) : ~row[u].active
        /\ row' = row /\ grants' = grants /\ pool' = pool
        /\ pc' = [pc EXCEPT ![r] = IF SameEmail(r) = {} THEN "createPool" ELSE "cleanPool"]
        /\ target' = [target EXCEPT ![r] = IF SameEmail(r) = {} THEN None
                                           ELSE CHOOSE u \in SameEmail(r) : TRUE]
    BY <1>2 DEF StartCreate, Goto
  <2>2. SameEmail(r)' = SameEmail(r) /\ Creates(r)' /\ ~Updates(r)' /\ ~Deletes(r)'
    BY <1>a, <2>1 DEF TurnStep, SameEmail, Creates, Updates, Deletes
  <2>3. target'[r] = IF SameEmail(r) = {} THEN None ELSE CHOOSE u \in SameEmail(r) : TRUE
    BY <2>1 DEF TurnStep, TypeOK
  <2>4. SameEmail(r) # {} => target'[r] \in SameEmail(r)
    BY <2>3
  <2>5. \A u, v \in SameEmail(r) : u = v
    BY StepKnows DEF RowsSound, EmailsUnique, SameEmail
  <2>6. pc'[r] \in {"createPool", "cleanPool"}
    BY <2>1 DEF TurnStep, TypeOK
  <2>7. ~BadGrants(op[r].role, op[r].factories)'
    BY <2>1 DEF TurnStep, BadGrants
  <2>8. CreatesAlone(r)'
    BY <2>1, <2>2, <2>3, <2>4, <2>5, <2>6, <2>7 DEF CreatesAlone
  <2> QED
    BY <1>b, <2>1, <2>2, <2>8, QuietTurn DEF KnowsItsPart
<1> QED
  BY <1>1, <1>2

LEMMA TurnDropRow ==
    ASSUME NEW r \in Request, TurnStep(r), DropRow(r)
    PROVE  CalmInv'
<1>a. Creates(r) /\ ~Updates(r) /\ ~Deletes(r)
  BY DEF DropRow, TurnStep, Working, Creates, Updates, Deletes
<1>b. \A e \in Email : ~Ahead(r, e)
  BY <1>a DEF Ahead, DropRow
<1>1. /\ row' = row /\ grants' = grants /\ pool' = pool /\ target' = target
      /\ pc'[r] = "createPool" /\ op' = op
  BY DEF DropRow, Goto, TurnStep, TypeOK
<1>2. CreatesAlone(r)
  BY <1>a, StepKnows DEF DropRow, Busy, KnowsItsPart
<1>3. CreatesAlone(r)'
  BY <1>1, <1>2 DEF CreatesAlone, SameEmail, BadGrants
<1>4. KnowsItsPart(r)'
  BY <1>a, <1>1, <1>3 DEF KnowsItsPart, Creates, Updates, Deletes
<1> QED
  BY <1>b, <1>1, <1>4, QuietTurn

LEMMA TurnGetPool ==
    ASSUME NEW r \in Request, TurnStep(r), GetPool(r)
    PROVE  CalmInv'
<1>a. Creates(r) /\ ~Updates(r) /\ ~Deletes(r)
  BY DEF GetPool, TurnStep, Working, Creates, Updates, Deletes
<1>0. CreatesAlone(r)
  BY <1>a, StepKnows DEF GetPool, Busy, KnowsItsPart
<1>1. pool[op[r].email] # None
  BY <1>0 DEF CreatesAlone, GetPool
<1>2. /\ row' = row /\ grants' = grants /\ pool' = pool /\ target' = target
      /\ pc'[r] = "commit" /\ op' = op /\ sub'[r] = pool[op[r].email]
  BY <1>1 DEF GetPool, Goto, TurnStep, TypeOK
<1>3. CreatesAlone(r)'
  BY <1>0, <1>2 DEF CreatesAlone, SameEmail, BadGrants
<1>4. KnowsItsPart(r)'
  BY <1>a, <1>2, <1>3 DEF KnowsItsPart, Creates, Updates, Deletes
<1>5. \A e \in Email : Ahead(r, e) => Ahead(r, e)'
  BY <1>a, <1>2 DEF Ahead, Creates
<1> QED
  BY <1>2, <1>4, <1>5, QuietTurn

LEMMA TurnStartUpdate ==
    ASSUME NEW r \in Request, TurnStep(r), StartUpdate(r)
    PROVE  CalmInv'
<1>a. Updates(r) /\ pc[r] = "start" /\ ~Creates(r) /\ ~Deletes(r)
  BY DEF StartUpdate, Creates, Updates, Deletes
<1>b. \A e \in Email : ~Ahead(r, e)
  BY <1>a DEF Ahead
<1>1. CASE Refuse(r, 404) \/ Refuse(r, 400)
  BY <1>1, <1>b, RefuseTurn
<1>2. CASE ~(Refuse(r, 404) \/ Refuse(r, 400))
  <2> DEFINE u == op[r].user
             role == IF op[r].role = None THEN row[u].role ELSE op[r].role
  <2>0. u \in Id
    BY <1>a, OpTypes DEF TurnStep, UpdateOp
  <2>1. /\ row[u] # None /\ ~BadGrants(role, NextGrants(r))
        /\ row' = row /\ grants' = grants /\ pool' = pool /\ op' = op
        /\ pc'[r] = "lockRow" /\ target'[r] = u /\ seen'[r] = row[u]
    BY <1>2 DEF StartUpdate, Goto, TurnStep, TypeOK
  <2>2. NextRole(r)' = role /\ NextGrants(r)' = NextGrants(r)
    BY <2>1 DEF NextRole, NextGrants, Creates, Updates, Deletes
  <2>3. UpdatesAlone(r)'
    BY <2>0, <2>1, <2>2 DEF UpdatesAlone, BadGrants
  <2>4. KnowsItsPart(r)'
    BY <1>a, <2>1, <2>3 DEF KnowsItsPart, Creates, Updates, Deletes
  <2> QED
    BY <1>b, <2>1, <2>4, QuietTurn
<1> QED
  BY <1>1, <1>2

LEMMA TurnLockRow ==
    ASSUME NEW r \in Request, TurnStep(r), LockRow(r)
    PROVE  CalmInv'
<1>a. Updates(r) /\ ~Creates(r) /\ ~Deletes(r)
  BY DEF LockRow, TurnStep, Working, Creates, Updates, Deletes
<1>b. \A e \in Email : ~Ahead(r, e)
  BY <1>a DEF Ahead
<1>0. UpdatesAlone(r)
  BY <1>a, StepKnows DEF LockRow, Busy, KnowsItsPart
<1>1. row[target[r]] # None
  BY <1>0 DEF UpdatesAlone
<1>2. /\ row' = row /\ grants' = grants /\ pool' = pool /\ target' = target
      /\ op' = op /\ seen' = seen
      /\ pc'[r] = IF ReplacesGrants(r) THEN "issueDelete" ELSE "commit"
  BY <1>1 DEF LockRow, Goto, TurnStep, TypeOK
<1>3. /\ NextRole(r)' = NextRole(r) /\ NextGrants(r)' = NextGrants(r)
      /\ ReplacesGrants(r)' = ReplacesGrants(r)
  BY <1>2 DEF NextRole, NextGrants, ReplacesGrants, Creates, Updates, Deletes
<1>4. UpdatesAlone(r)'
  BY <1>0, <1>2, <1>3 DEF UpdatesAlone, BadGrants
<1>5. KnowsItsPart(r)'
  BY <1>a, <1>2, <1>4 DEF KnowsItsPart, Creates, Updates, Deletes
<1> QED
  BY <1>b, <1>2, <1>5, QuietTurn

LEMMA TurnStartDelete ==
    ASSUME NEW r \in Request, TurnStep(r), StartDelete(r)
    PROVE  CalmInv'
<1>a. Deletes(r) /\ pc[r] = "start" /\ ~Creates(r) /\ ~Updates(r)
  BY DEF StartDelete, Creates, Updates, Deletes
<1>b. \A e \in Email : ~Ahead(r, e)
  BY <1>a DEF Ahead, Writing
<1>1. CASE Refuse(r, 404)
  BY <1>1, <1>b, RefuseTurn
<1>2. CASE ~Refuse(r, 404)
  <2>0. op[r].user \in Id
    BY <1>a, OpTypes DEF TurnStep, DeleteOp
  <2>1. /\ row[op[r].user] # None
        /\ row' = row /\ grants' = grants /\ pool' = pool /\ op' = op
        /\ pc'[r] = "deletePool" /\ target'[r] = op[r].user
        /\ seen'[r] = row[op[r].user]
    BY <1>2 DEF StartDelete, Goto, TurnStep, TypeOK
  <2>2. DeletesAlone(r)'
    BY <2>0, <2>1 DEF DeletesAlone, Writing
  <2>3. KnowsItsPart(r)'
    BY <1>a, <2>1, <2>2 DEF KnowsItsPart, Creates, Updates, Deletes
  <2> QED
    BY <1>b, <2>1, <2>3, QuietTurn
<1> QED
  BY <1>1, <1>2

LEMMA TurnIssueDelete ==
    ASSUME NEW r \in Request, TurnStep(r), IssueDelete(r)
    PROVE  CalmInv'
<1>1. /\ row' = row /\ grants' = grants /\ pool' = pool /\ target' = target
      /\ op' = op /\ seen' = seen /\ sub' = sub
      /\ pc[r] = "issueDelete" /\ pc'[r] = "finishDelete"
      /\ snap'[r] = GrantsOf(target[r])
  BY DEF IssueDelete, Goto, TurnStep, TypeOK
<1>2. KnowsItsPart(r)
  BY <1>1, StepKnows DEF Busy
<1>3. /\ Creates(r)' = Creates(r) /\ Updates(r)' = Updates(r) /\ Deletes(r)' = Deletes(r)
      /\ NextRole(r)' = NextRole(r) /\ NextGrants(r)' = NextGrants(r)
      /\ GrantsOf(target[r])' = GrantsOf(target[r])
  BY <1>1 DEF NextRole, NextGrants, Creates, Updates, Deletes, GrantsOf
<1>4. Creates(r) => CreatesAlone(r)'
  BY <1>1, <1>2 DEF KnowsItsPart, CreatesAlone, SameEmail, BadGrants
<1>5. Updates(r) => UpdatesAlone(r)'
  <2> SUFFICES ASSUME Updates(r) PROVE UpdatesAlone(r)'
    OBVIOUS
  <2>1. UpdatesAlone(r)
    BY <1>2 DEF KnowsItsPart
  <2> QED
    BY <1>1, <1>3, <2>1 DEF UpdatesAlone, BadGrants, GrantsOf
<1>6. Deletes(r) => DeletesAlone(r)'
  BY <1>1, <1>2 DEF KnowsItsPart, DeletesAlone, Writing
<1>7. KnowsItsPart(r)'
  BY <1>3, <1>4, <1>5, <1>6 DEF KnowsItsPart
<1>8. \A e \in Email : Ahead(r, e) => Ahead(r, e)'
  BY <1>1, <1>3 DEF Ahead, Writing
<1> QED
  BY <1>1, <1>7, <1>8, QuietTurn

LEMMA TurnFinishDelete ==
    ASSUME NEW r \in Request, TurnStep(r), FinishDelete(r)
    PROVE  CalmInv'
<1>1. /\ row' = row /\ grants' = grants /\ pool' = pool /\ target' = target
      /\ op' = op /\ seen' = seen /\ sub' = sub
      /\ pc[r] = "finishDelete"
      /\ pc'[r] = IF Creates(r) THEN "dropRow" ELSE "commit"
      /\ gone'[r] = snap[r]
  BY DEF FinishDelete, Goto, TurnStep, TypeOK
<1>2. KnowsItsPart(r)
  BY <1>1, StepKnows DEF Busy
<1>3. /\ Creates(r)' = Creates(r) /\ Updates(r)' = Updates(r) /\ Deletes(r)' = Deletes(r)
      /\ NextRole(r)' = NextRole(r) /\ NextGrants(r)' = NextGrants(r)
  BY <1>1 DEF NextRole, NextGrants, Creates, Updates, Deletes
<1>4. Creates(r) => CreatesAlone(r)'
  BY <1>1, <1>2 DEF KnowsItsPart, CreatesAlone, SameEmail, BadGrants
<1>5. Updates(r) => UpdatesAlone(r)'
  <2> SUFFICES ASSUME Updates(r) PROVE UpdatesAlone(r)'
    OBVIOUS
  <2>1. UpdatesAlone(r) /\ ~Creates(r)
    BY <1>2 DEF KnowsItsPart, Creates, Updates
  <2>2. gone'[r] = GrantsOf(target[r])
    BY <1>1, <2>1 DEF UpdatesAlone, GrantsOf
  <2> QED
    BY <1>1, <1>3, <2>1, <2>2 DEF UpdatesAlone, BadGrants, GrantsOf
<1>6. Deletes(r) => DeletesAlone(r)'
  BY <1>1, <1>2 DEF KnowsItsPart, DeletesAlone, Writing
<1>7. KnowsItsPart(r)'
  BY <1>3, <1>4, <1>5, <1>6 DEF KnowsItsPart
<1>8. \A e \in Email : Ahead(r, e) => Ahead(r, e)'
  BY <1>1, <1>3 DEF Ahead, Writing, Creates, Deletes
<1> QED
  BY <1>1, <1>7, <1>8, QuietTurn

-----------------------------------------------------------------------------
(* The steps that change the pool, at the email e. *)
LEMMA PoolTurn ==
    ASSUME NEW r \in Request, TurnStep(r), row' = row, grants' = grants,
           NEW at \in Email, \A e \in Email \ {at} : pool'[e] = pool[e],
           \A e \in Email : ~Ahead(r, e),
           AgreeOn(at)' \/ Ahead(r, at)',
           KnowsItsPart(r)'
    PROVE  CalmInv'
<1>1. ASSUME NEW e \in Email PROVE AgreeOn(e)' \/ Ahead(r, e)'
  <2>1. CASE e = at
    BY <2>1
  <2>2. CASE e # at
    BY <2>2, StepKnows, AgreeKept
  <2> QED
    BY <2>1, <2>2
<1> QED
  BY <1>1, RowsKept, CloseTurn

LEMMA TurnCleanPool ==
    ASSUME NEW r \in Request, TurnStep(r), CleanPool(r)
    PROVE  CalmInv'
<1>a. Creates(r) /\ ~Updates(r) /\ ~Deletes(r)
  BY DEF CleanPool, TurnStep, Working, Creates, Updates, Deletes
<1>e. op[r].email \in Email
  BY <1>a, OpTypes DEF TurnStep, CreateOp
<1>1. /\ row' = row /\ grants' = grants /\ target' = target /\ op' = op
      /\ pc[r] = "cleanPool" /\ pc'[r] = "issueDelete"
      /\ pool' = [pool EXCEPT ![op[r].email] = None]
  BY DEF CleanPool, Goto, TurnStep, TypeOK
<1>2. CreatesAlone(r)
  BY <1>a, <1>1, StepKnows DEF Busy, KnowsItsPart
<1>3. CreatesAlone(r)'
  BY <1>1, <1>2 DEF CreatesAlone, SameEmail, BadGrants
<1>4. KnowsItsPart(r)'
  BY <1>a, <1>1, <1>3 DEF KnowsItsPart, Creates, Updates, Deletes
<1>5. \A e \in Email : ~Ahead(r, e)
  BY <1>a, <1>1 DEF Ahead
<1>6. pool'[op[r].email] = None /\ \A e \in Email \ {op[r].email} : pool'[e] = pool[e]
  BY <1>1, <1>e DEF TurnStep, TypeOK
<1>7. \A u \in ActiveUsers' : row'[u].email # op[r].email
  BY <1>1, <1>2 DEF ActiveUsers, CreatesAlone, SameEmail
<1>8. AgreeOn(op[r].email)'
  BY <1>1, <1>6, <1>7 DEF AgreeOn
<1> QED
  BY <1>e, <1>1, <1>4, <1>5, <1>6, <1>8, PoolTurn

LEMMA TurnCreatePool ==
    ASSUME NEW r \in Request, TurnStep(r), CreatePool(r)
    PROVE  CalmInv'
<1>a. Creates(r) /\ ~Updates(r) /\ ~Deletes(r) /\ pc[r] = "createPool"
  BY DEF CreatePool, TurnStep, Working, Creates, Updates, Deletes
<1>e. op[r].email \in Email
  BY <1>a, OpTypes DEF TurnStep, CreateOp
<1>b. \A e \in Email : ~Ahead(r, e)
  BY <1>a DEF Ahead
<1>0. CASE Refuse(r, 502)
  BY <1>0, <1>b, RefuseTurn
<1>c. CASE ~Refuse(r, 502)
  <2>1. /\ row' = row /\ grants' = grants /\ target' = target /\ op' = op
        /\ pc'[r] = "getPool" /\ pool' = [pool EXCEPT ![op[r].email] = r]
    BY <1>c DEF CreatePool, Goto, TurnStep, TypeOK
  <2>2. CreatesAlone(r)
    BY <1>a, StepKnows DEF Busy, KnowsItsPart
  <2>3. pool'[op[r].email] = r /\ \A e \in Email \ {op[r].email} : pool'[e] = pool[e]
    BY <2>1, <1>e DEF TurnStep, TypeOK
  <2>4. r # None
    BY AdminAssumption DEF Id
  <2>5. CreatesAlone(r)'
    BY <2>1, <2>2, <2>3, <2>4 DEF CreatesAlone, SameEmail, BadGrants
  <2>6. KnowsItsPart(r)'
    BY <1>a, <2>1, <2>5 DEF KnowsItsPart, Creates, Updates, Deletes
  <2>7. Ahead(r, op[r].email)'
    BY <1>a, <2>1 DEF Ahead, Creates
  <2> QED
    BY <1>b, <1>e, <2>1, <2>3, <2>6, <2>7, PoolTurn
<1> QED
  BY <1>0, <1>c

LEMMA TurnDeletePool ==
    ASSUME NEW r \in Request, TurnStep(r), DeletePool(r)
    PROVE  CalmInv'
<1>a. Deletes(r) /\ ~Creates(r) /\ ~Updates(r) /\ pc[r] = "deletePool"
  BY DEF DeletePool, TurnStep, Working, Creates, Updates, Deletes
<1>b. \A e \in Email : ~Ahead(r, e)
  BY <1>a DEF Ahead, Writing
<1>0. CASE Refuse(r, 502)
  BY <1>0, <1>b, RefuseTurn
<1>c. CASE ~Refuse(r, 502)
  <2>1. /\ row' = row /\ grants' = grants /\ target' = target /\ op' = op /\ seen' = seen
        /\ pc'[r] = "issueDelete" /\ pool' = [pool EXCEPT ![seen[r].email] = None]
    BY <1>c DEF DeletePool, Goto, TurnStep, TypeOK
  <2>2. DeletesAlone(r)
    BY <1>a, StepKnows DEF Busy, KnowsItsPart
  <2>e. seen[r].email \in Email
    BY <2>2 DEF DeletesAlone, TurnStep, TypeOK, Row
  <2>3. pool'[seen[r].email] = None /\ \A e \in Email \ {seen[r].email} : pool'[e] = pool[e]
    BY <2>1, <2>e DEF TurnStep, TypeOK
  <2>5. DeletesAlone(r)'
    BY <2>1, <2>2, <2>3 DEF DeletesAlone
  <2>6. KnowsItsPart(r)'
    BY <1>a, <2>1, <2>5 DEF KnowsItsPart, Creates, Updates, Deletes
  <2>7. Ahead(r, seen[r].email)'
    BY <1>a, <2>1 DEF Ahead, Deletes, Writing
  <2> QED
    BY <1>b, <2>e, <2>1, <2>3, <2>6, <2>7, PoolTurn
<1> QED
  BY <1>0, <1>c

-----------------------------------------------------------------------------
(* The steps that change the rows, and are the last of their request. *)

(* Rows and grants stay sound when only one user's change. *)
LEMMA CommitTurn ==
    ASSUME NEW r \in Request, TurnStep(r), pool' = pool, ~Busy(r)', RowsSound',
           \A e \in Email : AgreeOn(e)'
    PROVE  CalmInv'
BY CloseTurn

LEMMA TurnCommitCreate ==
    ASSUME NEW r \in Request, TurnStep(r), CommitCreate(r), answer'[r] # 500
    PROVE  CalmInv'
<1>a. Creates(r) /\ ~Updates(r) /\ ~Deletes(r) /\ pc[r] = "commit" /\ sub[r] \in Id
  BY DEF CommitCreate, TurnStep, Working, Creates, Updates, Deletes
<1>t. TypeOK /\ r \in Id /\ r # None
  BY AdminAssumption DEF TurnStep, Id
<1>o. op[r] \in CreateOp
  BY <1>a, <1>t, OpTypes
<1>k. CreatesAlone(r) /\ RowsSound
  BY <1>a, StepKnows DEF Busy, KnowsItsPart
<1>n. NewRow(r) \in Row
  BY <1>a, <1>t, NewRowType
<1>0. ~Refuse(r, 500)
  BY <1>t DEF Refuse, TypeOK
<1>1. /\ row' = [u \in Id |-> IF u = r THEN NewRow(r)
                              ELSE IF u = target[r] THEN None ELSE row[u]]
      /\ grants' = {g \in grants : g[1] # target[r]} \cup ({r} \X op[r].factories)
      /\ pool' = pool /\ op' = op /\ pc' = [pc EXCEPT ![r] = "done"]
  <2>1. grants' = (grants \ GrantsOf(target[r])) \cup ({r} \X op[r].factories)
    BY <1>0 DEF CommitCreate, Replaced
  <2>2. grants \ GrantsOf(target[r]) = {g \in grants : g[1] # target[r]}
    BY DEF GrantsOf
  <2> QED
    BY <1>0, <2>1, <2>2 DEF CommitCreate, Answer
<1>p. pool' = pool
  BY <1>1
<1>2. row[r] = None
  BY <1>a, <1>k DEF RowsSound
<1>3. NewRow(r) # None /\ NewRow(r).email = op[r].email
      /\ NewRow(r).role = op[r].role /\ NewRow(r).active /\ NewRow(r).sub = sub[r]
      /\ (op[r].role = "super_admin" => NewRow(r).system)
  BY <1>n, AdminAssumption DEF NewRow
<1>4. \A u \in Id \ {r} : row'[u] # None =>
        row'[u] = row[u] /\ row[u] # None /\ u # target[r] /\ row[u].email # op[r].email
  BY <1>1, <1>k DEF CreatesAlone, SameEmail
<1>5. row'[r] = NewRow(r)
  BY <1>1, <1>t
<1>6. EmailsUnique'
  <2> SUFFICES ASSUME NEW u \in Id, NEW v \in Id, row'[u] # None, row'[v] # None,
                      row'[u].email = row'[v].email
               PROVE  u = v
    BY DEF EmailsUnique
  <2> QED
    BY <1>3, <1>4, <1>5, <1>k DEF RowsSound, EmailsUnique
<1>7. \A g \in grants' : row'[g[1]] # None
  <2>1. \A g \in {r} \X op[r].factories : g[1] = r
    OBVIOUS
  <2>2. ASSUME NEW g \in grants, g[1] # target[r] PROVE row'[g[1]] # None
    <3>1. g[1] \in Id /\ row[g[1]] # None
      BY <2>2, <1>k, <1>t DEF RowsSound, TypeOK, Grant
    <3> QED
      BY <1>1, <1>3, <2>2, <3>1
  <2> QED
    BY <1>1, <1>3, <1>5, <2>1, <2>2
<1>8. \A q \in Request : row'[q] # None => pc'[q] = "done"
  <2> SUFFICES ASSUME NEW q \in Request, row'[q] # None PROVE pc'[q] = "done"
    OBVIOUS
  <2>1. CASE q = r
    BY <1>1, <1>t, <2>1 DEF TypeOK
  <2>2. CASE q # r
    <3>1. q \in Id
      BY DEF Id
    <3> QED
      BY <1>4, <1>k, <2>2, <3>1 DEF RowsSound, TurnStep
  <2> QED
    BY <2>1, <2>2
<1>9. op[r].role \in GlobalAdmin => op[r].factories = {}
  BY <1>k DEF CreatesAlone, BadGrants
<1>10. \A u \in ActiveUsers' : u = r \/ (u # r /\ u \in ActiveUsers /\ row'[u] = row[u])
  BY <1>4 DEF ActiveUsers
<1>11. GrantsOf(r)' = {r} \X op[r].factories
  BY <1>1, <1>2, <1>k DEF GrantsOf, RowsSound
<1>12. \A u \in Id \ {r} : GrantsOf(u)' \subseteq GrantsOf(u)
  BY <1>1 DEF GrantsOf
<1>13. NoGrantsForGlobalAdmins'
  <2> SUFFICES ASSUME NEW u \in ActiveUsers', row'[u].role \in GlobalAdmin
               PROVE  GrantsOf(u)' = {}
    BY DEF NoGrantsForGlobalAdmins
  <2>1. CASE u = r
    BY <1>3, <1>5, <1>9, <1>11, <2>1
  <2>2. CASE u # r
    <3>1. u \in Id /\ u \in ActiveUsers /\ row[u].role \in GlobalAdmin
      BY <1>10, <2>2 DEF ActiveUsers
    <3>2. GrantsOf(u) = {}
      BY <1>k, <3>1 DEF RowsSound, NoGrantsForGlobalAdmins
    <3> QED
      BY <1>12, <2>2, <3>1, <3>2
  <2> QED
    BY <2>1, <2>2
<1>14. SuperAdminsSeeSystem'
  BY <1>3, <1>5, <1>10, <1>k DEF RowsSound, SuperAdminsSeeSystem
<1>15. RowsSound'
  BY <1>6, <1>7, <1>8, <1>13, <1>14 DEF RowsSound
<1>16. ASSUME NEW e \in Email PROVE AgreeOn(e)'
  <2>1. CASE e = op[r].email
    <3>1. r \in ActiveUsers'
      BY <1>3, <1>5, <1>t DEF ActiveUsers
    <3>2. \A u \in ActiveUsers' : row'[u].email = e => u = r
      BY <1>4, <2>1 DEF ActiveUsers
    <3>3. pool[e] = sub[r]
      BY <1>a, <1>k, <2>1 DEF CreatesAlone
    <3>4. \A u \in ActiveUsers' : row'[u].email = e => pool'[e] = row'[u].sub
      BY <1>1, <1>3, <1>5, <3>2, <3>3
    <3>5. \E u \in ActiveUsers' : row'[u].email = e
      BY <1>3, <1>5, <2>1, <3>1
    <3> QED
      BY <3>4, <3>5 DEF AgreeOn
  <2>2. CASE e # op[r].email
    <3>1. AgreeOn(e)
      BY <1>a, <2>2, StepKnows DEF Ahead
    <3>2. \A u \in ActiveUsers' : row'[u].email = e => u \in ActiveUsers /\ row'[u] = row[u]
      BY <1>3, <1>5, <1>10, <2>2
    <3>3. ASSUME NEW u \in ActiveUsers, row[u].email = e
          PROVE  u \in ActiveUsers' /\ row'[u] = row[u]
      <4>1. u \in Id /\ row[u] # None /\ u # r
        BY <1>2 DEF ActiveUsers
      <4>2. u # target[r]
        BY <1>k, <2>2, <3>3, <4>1, AdminAssumption DEF CreatesAlone, SameEmail
      <4>3. row'[u] = row[u]
        BY <1>1, <4>1, <4>2
      <4> QED
        BY <4>1, <4>3 DEF ActiveUsers
    <3>4. \A u \in ActiveUsers' : row'[u].email = e => pool'[e] = row'[u].sub
      BY <1>p, <3>1, <3>2 DEF AgreeOn
    <3>5. pool'[e] # None => \E u \in ActiveUsers' : row'[u].email = e
      BY <1>p, <3>1, <3>3 DEF AgreeOn
    <3> QED
      BY <3>4, <3>5 DEF AgreeOn
  <2> QED
    BY <2>1, <2>2
<1>17. ~Busy(r)'
  BY <1>1, <1>t DEF Busy, TypeOK
<1> QED
  BY <1>1, <1>15, <1>16, <1>17, CommitTurn

LEMMA TurnCommitDelete ==
    ASSUME NEW r \in Request, TurnStep(r), CommitDelete(r)
    PROVE  CalmInv'
<1>a. Deletes(r) /\ ~Creates(r) /\ ~Updates(r) /\ pc[r] = "commit"
  BY DEF CommitDelete, Creates, Updates, Deletes
<1>t. TypeOK
  BY DEF TurnStep
<1>k. DeletesAlone(r) /\ RowsSound
  BY <1>a, StepKnows DEF Busy, KnowsItsPart
<1>0. target[r] \in Id /\ seen[r] = row[target[r]] /\ seen[r] # None
      /\ pool[seen[r].email] = None
  BY <1>a, <1>k DEF DeletesAlone, Writing
<1>1. /\ row' = [row EXCEPT ![target[r]] = None]
      /\ grants' = {g \in grants : g[1] # target[r]}
      /\ pc' = [pc EXCEPT ![r] = "done"]
  BY DEF CommitDelete, Answer, Replaced, GrantsOf
<1>p. pool' = pool
  BY DEF CommitDelete, Answer
<1>2. row'[target[r]] = None /\ \A u \in Id \ {target[r]} : row'[u] = row[u]
  BY <1>0, <1>1, <1>t DEF TypeOK
<1>3. ActiveUsers' = ActiveUsers \ {target[r]}
  BY <1>0, <1>2 DEF ActiveUsers
<1>4. EmailsUnique'
  BY <1>2, <1>k DEF RowsSound, EmailsUnique
<1>5. \A g \in grants' : row'[g[1]] # None
  BY <1>1, <1>2, <1>k, <1>t DEF RowsSound, TypeOK, Grant
<1>6. \A q \in Request : row'[q] # None => pc'[q] = "done"
  <2> SUFFICES ASSUME NEW q \in Request, row'[q] # None PROVE pc'[q] = "done"
    OBVIOUS
  <2>1. q \in Id /\ row[q] # None
    BY <1>2 DEF Id
  <2> QED
    BY <1>1, <1>k, <1>t, <2>1 DEF RowsSound, TypeOK
<1>7. \A u \in ActiveUsers' : u \in ActiveUsers /\ row'[u] = row[u]
                              /\ GrantsOf(u)' \subseteq GrantsOf(u)
  BY <1>1, <1>2, <1>3 DEF ActiveUsers, GrantsOf
<1>8. NoGrantsForGlobalAdmins'
  <2> SUFFICES ASSUME NEW u \in ActiveUsers', row'[u].role \in GlobalAdmin
               PROVE  GrantsOf(u)' = {}
    BY DEF NoGrantsForGlobalAdmins
  <2>1. GrantsOf(u) = {}
    BY <1>7, <1>k DEF RowsSound, NoGrantsForGlobalAdmins
  <2> QED
    BY <1>7, <2>1
<1>9. SuperAdminsSeeSystem'
  BY <1>7, <1>k DEF RowsSound, SuperAdminsSeeSystem
<1>10. RowsSound'
  BY <1>4, <1>5, <1>6, <1>8, <1>9 DEF RowsSound
<1>11. ASSUME NEW e \in Email PROVE AgreeOn(e)'
  <2>1. CASE e = seen[r].email
    <3>1. \A u \in ActiveUsers' : row'[u].email # e
      BY <1>0, <1>3, <1>7, <1>k, <2>1 DEF RowsSound, EmailsUnique, ActiveUsers
    <3>2. pool'[e] = None
      BY <1>0, <1>p, <2>1
    <3> QED
      BY <3>1, <3>2 DEF AgreeOn
  <2>2. CASE e # seen[r].email
    <3>1. AgreeOn(e)
      BY <1>a, <2>2, StepKnows DEF Ahead
    <3>2. ASSUME NEW u \in ActiveUsers, row[u].email = e
          PROVE  u \in ActiveUsers' /\ row'[u] = row[u]
      BY <1>0, <1>2, <1>3, <2>2, <3>2 DEF ActiveUsers
    <3>4. \A u \in ActiveUsers' : row'[u].email = e => pool'[e] = row'[u].sub
      BY <1>p, <1>7, <3>1 DEF AgreeOn
    <3>5. pool'[e] # None => \E u \in ActiveUsers' : row'[u].email = e
      BY <1>p, <3>1, <3>2 DEF AgreeOn
    <3> QED
      BY <3>4, <3>5 DEF AgreeOn
  <2> QED
    BY <2>1, <2>2
<1>12. ~Busy(r)'
  BY <1>1, <1>t DEF Busy, TypeOK
<1> QED
  BY <1>p, <1>10, <1>11, <1>12, CommitTurn

(* What an update makes of the row it has read. *)
LEMMA ChangedRow ==
    ASSUME TypeOK, NEW r \in Request, Updates(r), seen[r] \in Row
    PROVE  /\ Changed(r, seen[r]).role = NextRole(r)
           /\ Changed(r, seen[r]).system = NextSystem(r)
           /\ NextRole(r) = "super_admin" => NextSystem(r)
<1>1. /\ Changed(r, seen[r]).role = NextRole(r)
      /\ Changed(r, seen[r]).system = NextSystem(r)
  BY DEF Changed, Row
<1>2. NextRole(r) = "super_admin" => NextSystem(r)
  BY DEF NextSystem
<1> QED
  BY <1>1, <1>2

LEMMA TurnCommitUpdate ==
    ASSUME NEW r \in Request, TurnStep(r), CommitUpdate(r), answer'[r] # 500
    PROVE  CalmInv'
<1>a. Updates(r) /\ ~Creates(r) /\ ~Deletes(r) /\ pc[r] = "commit"
  BY DEF CommitUpdate, Creates, Updates, Deletes
<1>t. TypeOK
  BY DEF TurnStep
<1>k. UpdatesAlone(r) /\ RowsSound
  BY <1>a, StepKnows DEF Busy, KnowsItsPart
<1> DEFINE new == Changed(r, seen[r])
<1>at. PICK at \in Id : at = target[r]
  BY <1>k DEF UpdatesAlone
<1>0. /\ seen[r] = row[at] /\ seen[r] # None
      /\ NextRole(r) \in GlobalAdmin => NextGrants(r) = {}
      /\ ReplacesGrants(r) => gone[r] = GrantsOf(at)
  BY <1>a, <1>at, <1>k DEF UpdatesAlone, BadGrants
<1>s. seen[r] \in Row /\ new \in Row /\ new # None
  BY <1>0, <1>a, <1>t, ChangedType, AdminAssumption DEF TypeOK
<1>c. /\ new.role = NextRole(r) /\ new.system = NextSystem(r)
      /\ NextRole(r) = "super_admin" => NextSystem(r)
      /\ new.email = row[at].email /\ new.sub = row[at].sub /\ new.active = row[at].active
  BY <1>0, <1>a, <1>s, <1>t, ChangedRow, ChangedType
<1>r. ~Refuse(r, 500)
  BY <1>t DEF Refuse, TypeOK
<1>1. /\ row' = [row EXCEPT ![at] = new]
      /\ grants' = (grants \ gone[r]) \cup ({at} \X NextGrants(r))
      /\ pc' = [pc EXCEPT ![r] = "done"]
  BY <1>r, <1>at, <1>0, <1>t DEF CommitUpdate, Answer, Replaced, TypeOK
<1>p. pool' = pool
  BY <1>r DEF CommitUpdate, Answer
<1> HIDE DEF new
<1>2. row'[at] = new /\ \A u \in Id \ {at} : row'[u] = row[u]
  BY <1>0, <1>1, <1>t DEF TypeOK
<1>3. \A u \in Id : /\ (row'[u] # None) = (row[u] # None)
                    /\ row'[u] # None => /\ row'[u].email = row[u].email
                                         /\ row'[u].sub = row[u].sub
                                         /\ row'[u].active = row[u].active
  BY <1>0, <1>2, <1>c, <1>s
<1>4. ActiveUsers' = ActiveUsers
  BY <1>3 DEF ActiveUsers
<1>5. EmailsUnique'
  BY <1>3, <1>k DEF RowsSound, EmailsUnique
<1>6. \A g \in grants' : row'[g[1]] # None
  <2>1. ASSUME NEW g \in grants PROVE row'[g[1]] # None
    BY <1>3, <1>k, <1>t, <2>1 DEF RowsSound, TypeOK, Grant
  <2>2. ASSUME NEW g \in {at} \X NextGrants(r) PROVE row'[g[1]] # None
    BY <1>2, <1>s
  <2> QED
    BY <1>1, <2>1, <2>2
<1>7. \A q \in Request : row'[q] # None => pc'[q] = "done"
  <2> SUFFICES ASSUME NEW q \in Request, row'[q] # None PROVE pc'[q] = "done"
    OBVIOUS
  <2>1. q \in Id /\ row[q] # None
    BY <1>3 DEF Id
  <2> QED
    BY <1>1, <1>k, <1>t, <2>1 DEF RowsSound, TypeOK
<1>8. \A u \in Id \ {at} : GrantsOf(u)' \subseteq GrantsOf(u)
  BY <1>1 DEF GrantsOf
<1>9. NextRole(r) \in GlobalAdmin => GrantsOf(at)' = {}
  BY <1>0, <1>1 DEF GrantsOf, ReplacesGrants
<1>10. NoGrantsForGlobalAdmins'
  <2> SUFFICES ASSUME NEW u \in ActiveUsers', row'[u].role \in GlobalAdmin
               PROVE  GrantsOf(u)' = {}
    BY DEF NoGrantsForGlobalAdmins
  <2>1. CASE u = at
    BY <1>2, <1>9, <1>c, <2>1
  <2>2. CASE u # at
    <3>1. u \in Id /\ u \in ActiveUsers /\ row[u].role \in GlobalAdmin
      BY <1>2, <1>4, <2>2 DEF ActiveUsers
    <3>2. GrantsOf(u) = {}
      BY <1>k, <3>1 DEF RowsSound, NoGrantsForGlobalAdmins
    <3> QED
      BY <1>8, <2>2, <3>1, <3>2
  <2> QED
    BY <2>1, <2>2
<1>11. SuperAdminsSeeSystem'
  <2> SUFFICES ASSUME NEW u \in ActiveUsers', row'[u].role = "super_admin"
               PROVE  row'[u].system
    BY DEF SuperAdminsSeeSystem
  <2>1. CASE u = at
    BY <1>2, <1>c, <2>1
  <2>2. CASE u # at
    BY <1>2, <1>4, <1>k, <2>2 DEF RowsSound, SuperAdminsSeeSystem, ActiveUsers
  <2> QED
    BY <2>1, <2>2
<1>12. RowsSound'
  BY <1>5, <1>6, <1>7, <1>10, <1>11 DEF RowsSound
<1>13. ASSUME NEW e \in Email PROVE AgreeOn(e)'
  <2>1. AgreeOn(e)
    BY <1>a, StepKnows DEF Ahead
  <2>2. \A u \in ActiveUsers : row'[u].email = row[u].email /\ row'[u].sub = row[u].sub
    BY <1>3 DEF ActiveUsers
  <2> QED
    BY <1>4, <1>p, <2>1, <2>2 DEF AgreeOn
<1>14. ~Busy(r)'
  BY <1>1, <1>t DEF Busy, TypeOK
<1> QED
  BY <1>p, <1>12, <1>13, <1>14, CommitTurn

-----------------------------------------------------------------------------
(* A step by r touches no other request, and answers r at its end only. *)
LEMMA StepAlone ==
    ASSUME TypeOK, NEW r \in Request, Do(r) \/ Fail(r)
    PROVE  /\ pc[r] # "done"
           /\ pc[r] = "start" => pc'[r] # "start"
           /\ \A q \in Request \ {r} : pc'[q] = pc[q] /\ answer'[q] = answer[q]
           /\ answer'[r] # answer[r] => pc'[r] = "done"
<1>1. pc[r] # "done"
  BY DEF Do, Fail, StartCreate, CleanPool, DropRow, CreatePool, GetPool, CommitCreate,
         StartUpdate, LockRow, CommitUpdate, StartDelete, DeletePool, CommitDelete,
         IssueDelete, FinishDelete, Deadlock, WaitsFor
<1>2. pc[r] = "start" => pc'[r] # "start"
  BY DEF Do, Fail, StartCreate, CleanPool, DropRow, CreatePool, GetPool, CommitCreate,
         StartUpdate, LockRow, CommitUpdate, StartDelete, DeletePool, CommitDelete,
         IssueDelete, FinishDelete, Deadlock, Refuse, Answer, Goto, TypeOK
<1>3. \A q \in Request \ {r} : pc'[q] = pc[q] /\ answer'[q] = answer[q]
  BY DEF Do, Fail, StartCreate, CleanPool, DropRow, CreatePool, GetPool, CommitCreate,
         StartUpdate, LockRow, CommitUpdate, StartDelete, DeletePool, CommitDelete,
         IssueDelete, FinishDelete, Deadlock, Refuse, Answer, Goto, TypeOK
<1>4. answer'[r] # answer[r] => pc'[r] = "done"
  BY DEF Do, Fail, StartCreate, CleanPool, DropRow, CreatePool, GetPool, CommitCreate,
         StartUpdate, LockRow, CommitUpdate, StartDelete, DeletePool, CommitDelete,
         IssueDelete, FinishDelete, Deadlock, Refuse, Answer, Goto, TypeOK
<1> QED
  BY <1>1, <1>2, <1>3, <1>4

LEMMA InitTurn == Init => TurnInv
<1> SUFFICES ASSUME Init PROVE TurnInv
  OBVIOUS
<1>1. TInv /\ FailedDone
  <2>1. \A r \in Request : answer[r] = None /\ pc[r] = "start"
    BY DEF Init
  <2> QED
    BY <2>1, InitTInv, AdminAssumption DEF FailedDone
<1>2. \A u \in Id : IF u \in Seed THEN row[u] = SeedRow[u] /\ row[u] # None
                    ELSE row[u] = None
  BY AdminAssumption DEF Init, Id
<1>3. \A u \in ActiveUsers : u \in Seed /\ row[u] = SeedRow[u] /\ SeedRow[u].active
  BY <1>2 DEF ActiveUsers
<1>4. EmailsUnique
  BY <1>2, SeedAssumption DEF EmailsUnique
<1>5. \A g \in grants : row[g[1]] # None
  BY <1>2, AdminAssumption DEF Init, Id
<1>6. \A r \in Request : row[r] = None
  BY <1>2, AdminAssumption DEF Id
<1>7. NoGrantsForGlobalAdmins /\ SuperAdminsSeeSystem
  <2>1. ASSUME NEW u \in ActiveUsers
        PROVE  /\ row[u].role \in GlobalAdmin => GrantsOf(u) = {}
               /\ row[u].role = "super_admin" => row[u].system
    <3>1. u \in Seed /\ row[u] = SeedRow[u] /\ SeedRow[u].active
      BY <1>3
    <3>2. GrantsOf(u) = {g \in SeedGrants : g[1] = u}
      BY DEF Init, GrantsOf
    <3> QED
      BY <3>1, <3>2, SeedAssumption
  <2> QED
    BY <2>1 DEF NoGrantsForGlobalAdmins, SuperAdminsSeeSystem
<1>8. ASSUME NEW e \in Email PROVE AgreeOn(e)
  <2>1. \A u \in ActiveUsers : row[u].email = e => pool[e] = row[u].sub
    <3>1. pool = SeedPool
      BY DEF Init
    <3> QED
      BY <1>3, <3>1, SeedAssumption
  <2>2. pool[e] # None => \E u \in ActiveUsers : row[u].email = e
    <3> SUFFICES ASSUME pool[e] # None PROVE \E u \in ActiveUsers : row[u].email = e
      OBVIOUS
    <3>1. PICK u \in Seed : SeedRow[u].active /\ SeedRow[u].email = e
      BY SeedAssumption DEF Init
    <3>2. u \in ActiveUsers /\ row[u].email = e
      BY <1>2, <3>1 DEF ActiveUsers, Id
    <3> QED
      BY <3>2
  <2> QED
    BY <2>1, <2>2 DEF AgreeOn
<1>9. \A r \in Request : ~Busy(r)
  BY DEF Init, Busy
<1> QED
  BY <1>1, <1>4, <1>5, <1>6, <1>7, <1>8, <1>9 DEF TurnInv, CalmInv, RowsSound

LEMMA NextTurn == TurnInv /\ [Next]_vars => TurnInv'
<1> SUFFICES ASSUME TurnInv, [Next]_vars PROVE TurnInv'
  OBVIOUS
<1>t. TInv /\ TypeOK /\ TInv' /\ TypeOK'
  BY NextTInv DEF TurnInv, TInv
<1>1. CASE UNCHANGED vars
  <2>1. FailedDone'
    BY <1>1 DEF TurnInv, FailedDone, vars
  <2>2. Calm' = Calm /\ RowsSound' = RowsSound
    BY <1>1 DEF vars, Calm, RowsSound, EmailsUnique, NoGrantsForGlobalAdmins, GrantsOf,
                SuperAdminsSeeSystem, ActiveUsers
  <2>3. \A e : AgreeOn(e)' = AgreeOn(e)
    BY <1>1 DEF vars, AgreeOn, ActiveUsers
  <2>4. \A r : Busy(r)' = Busy(r)
    BY <1>1 DEF vars, Busy
  <2>5. \A r, e : Ahead(r, e)' = Ahead(r, e)
    BY <1>1 DEF vars, Ahead, Creates, Deletes
  <2>6. \A r : Alone(r)' = Alone(r)
    <3>1. \A r : CreatesAlone(r)' = CreatesAlone(r)
      BY <1>1 DEF vars, CreatesAlone, SameEmail, BadGrants
    <3>2. \A r : UpdatesAlone(r)' = UpdatesAlone(r)
      BY <1>1 DEF vars, UpdatesAlone, NextRole, NextGrants, ReplacesGrants, GrantsOf,
                  BadGrants, Creates, Updates, Deletes
    <3>3. \A r : DeletesAlone(r)' = DeletesAlone(r)
      BY <1>1 DEF vars, DeletesAlone
    <3> QED
      BY <1>1, <2>4, <3>1, <3>2, <3>3 DEF vars, Alone, Creates, Updates, Deletes
  <2>7. CalmInv' = CalmInv
    BY <2>2, <2>3, <2>4, <2>5, <2>6 DEF CalmInv
  <2> QED
    BY <1>t, <2>1, <2>2, <2>7 DEF TurnInv
<1>2. CASE Next
  <2>1. PICK r \in Request : Step(r) \/ (Fail(r) /\ Watch)
    BY <1>2 DEF Next
  <2>2. (Do(r) \/ Fail(r)) /\ inTurn' = (inTurn /\ OneByOne)
    BY <2>1 DEF Step, Watch
  <2>3. /\ pc[r] # "done" /\ (pc[r] = "start" => pc'[r] # "start")
        /\ \A q \in Request \ {r} : pc'[q] = pc[q] /\ answer'[q] = answer[q]
        /\ answer'[r] # answer[r] => pc'[r] = "done"
    BY <1>t, <2>2, StepAlone
  <2>4. FailedDone'
    BY <2>3 DEF TurnInv, FailedDone
  <2>5. ASSUME Calm' PROVE CalmInv'
    <3>2. Calm /\ OneByOne /\ answer'[r] # 500
      <4>1. inTurn /\ OneByOne /\ \A q \in Request : answer'[q] # 500
        BY <2>2, <2>5 DEF Calm
      <4>2. answer[r] # 500
        BY <2>3 DEF TurnInv, FailedDone
      <4> QED
        BY <2>3, <4>1, <4>2 DEF Calm
    <3>3. CalmInv
      BY <3>2 DEF TurnInv
    <3>4. \A q \in Request \ {r} : ~Busy(q)
      <4>1. CASE pc[r] = "start"
        BY <2>3, <3>2, <4>1 DEF OneByOne, Idle, Busy
      <4>2. CASE pc[r] # "start"
        <5>1. Alone(r)
          BY <2>3, <3>3, <4>2 DEF CalmInv, Busy
        <5> QED
          BY <5>1 DEF Alone
      <4> QED
        BY <4>1, <4>2
    <3>5. TurnStep(r)
      BY <1>t, <2>3, <3>3, <3>4, OpsKept DEF TurnStep, TInv
    <3>6. ~Deadlock(r) /\ ~Fail(r)
      BY <1>t, <3>2 DEF Deadlock, Fail, Refuse, TypeOK
    <3> QED
      BY <2>2, <3>2, <3>5, <3>6, TurnStartCreate, TurnCleanPool, TurnDropRow,
         TurnCreatePool, TurnGetPool, TurnCommitCreate, TurnStartUpdate, TurnLockRow,
         TurnCommitUpdate, TurnStartDelete, TurnDeletePool, TurnCommitDelete,
         TurnIssueDelete, TurnFinishDelete DEF Do
  <2> QED
    BY <1>t, <2>4, <2>5 DEF TurnInv
<1> QED
  BY <1>1, <1>2

(* However many requests come one after the other, and whatever they ask   *)
(* for: between them pool and tables agree, and never does a global        *)
(* administrator have grants or a super_admin miss the system pages        *)
(* (admin_users.py 134-287).                                               *)
THEOREM InTurnCorrect == Spec => []RowsAgreeInTurn
<1>1. TurnInv => RowsAgreeInTurn
  <2> SUFFICES ASSUME TurnInv, Calm
               PROVE  PoolAgreesWithRows /\ NoGrantsForGlobalAdmins /\ SuperAdminsSeeSystem
    BY DEF RowsAgreeInTurn, Calm
  <2>1. CalmInv
    BY DEF TurnInv
  <2>2. ASSUME Idle PROVE ActiveUsersSignIn
                          /\ \A e \in Email : pool[e] # None =>
                                \E u \in ActiveUsers : row[u].email = e
    <3>1. \A r \in Request : ~Busy(r)
      BY <2>2 DEF Idle, Busy
    <3>2. \A e \in Email : AgreeOn(e)
      BY <2>1, <3>1 DEF CalmInv, Ahead, Busy, Writing
    <3>3. \A u \in ActiveUsers : row[u].email \in Email
      BY AdminAssumption DEF ActiveUsers, TurnInv, TInv, TypeOK, Row
    <3> QED
      BY <3>2, <3>3 DEF AgreeOn, ActiveUsersSignIn, SignsIn
  <2> QED
    BY <2>1, <2>2 DEF CalmInv, RowsSound, PoolAgreesWithRows
<1> QED
  BY <1>1, InitTurn, NextTurn, PTL DEF Spec
=============================================================================

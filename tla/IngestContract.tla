--------------------------- MODULE IngestContract ---------------------------
(***************************************************************************)
(* What the data processor promises about one telemetry message: its       *)
(* section of the factory's LATEST item becomes that message in one step,  *)
(* the other section is untouched, and the message reaches the processed   *)
(* archive only after LATEST has shown it.  Applying and archiving may be  *)
(* repeated, because delivery is at least once.                            *)
(***************************************************************************)
CONSTANTS
    Message,      \* telemetry messages, one per message_id
    Factory,      \* factories
    FactoryOf,    \* [Message -> Factory]
    KindOf,       \* [Message -> {"factory_state", "infra_state"}]
    NoMessage     \* a section that no message has filled yet

VARIABLES
    section,      \* section[f][k]: the message LATEST shows for kind k of f
    applied,      \* messages LATEST has shown at some time
    archived      \* messages whose processed objects are all in S3

vars == <<section, applied, archived>>

Kind == {"factory_state", "infra_state"}

Init ==
    /\ section = [f \in Factory |-> [k \in Kind |-> NoMessage]]
    /\ applied = {}
    /\ archived = {}

(* LATEST shows m: exactly one section of one factory changes. *)
Apply(m) ==
    /\ section' = [section EXCEPT
                     ![FactoryOf[m]] = [@ EXCEPT ![KindOf[m]] = m]]
    /\ applied' = applied \cup {m}
    /\ UNCHANGED archived

(* The processed objects of m are complete; LATEST has shown m before. *)
Archive(m) ==
    /\ m \in applied
    /\ archived' = archived \cup {m}
    /\ UNCHANGED <<section, applied>>

Next == \E m \in Message : Apply(m) \/ Archive(m)

Spec == Init /\ [][Next]_vars
=============================================================================

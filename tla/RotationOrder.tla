--------------------------- MODULE RotationOrder ---------------------------
(***************************************************************************)
(* What the row of a rotation promises to whoever reads it (rotation.rs),  *)
(* however many processes are behind it and whatever stale copies of the   *)
(* row they act on: the state only moves along the edges below, each move  *)
(* is backed by what is on record by then, the record is made in order     *)
(* (nothing is disabled or revoked before the new value was validated),    *)
(* and nothing on record is taken back.  There are no processes here, and  *)
(* every move is one step.                                                 *)
(***************************************************************************)

CONSTANT Rotations

VARIABLES
  state,   \* [Rotations -> state]
  terms,   \* [Rotations -> what planning fixed: how the replacement is obtained, and
           \*  whether the provider can disable the old key]
  record   \* [Rotations -> the facts on record]

orderVars == <<state, terms, record>>

Terms == [mode : {"api_create", "manual_create"}, disables : BOOLEAN]

Init ==
  /\ state = [x \in Rotations |-> "none"] /\ terms \in [Rotations -> Terms]
  /\ record = [x \in Rotations |-> {}]

Has(x, f) == f \in record[x]

Move(x, from, to) ==
  /\ state[x] \in from /\ state' = [state EXCEPT ![x] = to]
  /\ UNCHANGED <<terms, record>>

Plan(x) ==
  /\ state[x] = "none" /\ state' = [state EXCEPT ![x] = "planned"]
  /\ \E t \in Terms : terms' = [terms EXCEPT ![x] = t]
  /\ UNCHANGED record

Approve(x) == Move(x, {"planned"}, "approved")

\* The replacement is created by the provider, or brought by the user.
Claim(x) == terms[x].mode = "api_create" /\ Move(x, {"approved"}, "creating_replacement")
Create(x) == Move(x, {"creating_replacement"}, "creating_in_progress")
Await(x) == terms[x].mode = "manual_create" /\ Move(x, {"approved"}, "awaiting_manual_key")
Store(x) ==
  /\ Has(x, "stored") /\ (state[x] = "approved" => terms[x].mode = "manual_create")
  /\ Move(x, {"approved", "awaiting_manual_key", "creating_in_progress"}, "replacement_stored")

Distribute(x) == Has(x, "planned") /\ Move(x, {"replacement_stored"}, "updating_destinations")
Verify(x) == Move(x, {"updating_destinations"}, "destinations_verified")
EnterGrace(x) == Has(x, "validated") /\ Move(x, {"destinations_verified"}, "grace_period")
Retire(x) ==
  /\ terms[x].disables => Has(x, "disabled")
  /\ Move(x, {"grace_period"}, "old_disabled")

\* By the program, or by hand where the program cannot or dares not.
Complete(x) ==
  /\ Has(x, "validated")
  /\ Move(x, {"grace_period", "old_disabled", "manual_required"}, "completed")
LeaveToUser(x) == Move(x, {"old_disabled"}, "manual_required")

\* Before the replacement is in use; after that only a rollback leads out.
Cancel(x) ==
  Move(x, {"planned", "approved", "creating_replacement", "creating_in_progress",
           "awaiting_manual_key"}, "failed")

Finished == {"completed", "rolled_back"}
RollBack(x) ==
  /\ Has(x, "stored") /\ state[x] \notin Finished \cup {"none", "planned"}
  /\ Move(x, {state[x]}, "rolling_back")
Settle(x) == \E to \in {"rolled_back", "manual_required"} : Move(x, {"rolling_back"}, to)

\* What a fact presupposes.
Presupposed(f) ==
  CASE f = "stored" -> {}
    [] f \in {"planned", "validated"} -> {"stored"}
    [] f \in {"disabled", "attempted"} -> {"validated"}
    [] f = "revoked" -> {"validated", "attempted"}
Facts == {"stored", "planned", "validated", "disabled", "attempted", "revoked"}

\* A process that was under way may still note what it did when the rotation has moved on.
Note(x) ==
  /\ state[x] \notin {"none", "planned"} /\ UNCHANGED <<state, terms>>
  /\ record' # record
  /\ \E f \in Facts \ record[x] :
       Presupposed(f) \subseteq record[x] /\ record' = [record EXCEPT ![x] = @ \cup {f}]

Moves(x) ==
  \/ Plan(x) \/ Approve(x) \/ Claim(x) \/ Create(x) \/ Await(x) \/ Store(x)
  \/ Distribute(x) \/ Verify(x) \/ EnterGrace(x) \/ Retire(x)
  \/ Complete(x) \/ LeaveToUser(x) \/ Cancel(x) \/ RollBack(x) \/ Settle(x)

Next == \E x \in Rotations : (state' # state /\ Moves(x)) \/ Note(x)

Spec == Init /\ [][Next]_orderVars
=============================================================================

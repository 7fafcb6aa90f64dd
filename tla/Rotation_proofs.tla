-------------------------- MODULE Rotation_proofs --------------------------
(***************************************************************************)
(* Theorems about Rotation, for any rotations, processes, destinations and *)
(* providers and any bounds: types, the order of states, the abstract      *)
(* rotation it implements (RotationOrder), and what precedes a destructive *)
(* step; and, for one process and one rotation, what a rollback restores   *)
(* and what is still served when a key is revoked.                         *)
(*                                                                         *)
(* Every operation works on a copy of its row.  The inductive invariant    *)
(* therefore says three things: what a row of the table looks like         *)
(* (RowOK), what an operation knows at each of its steps (OpOK), and which *)
(* facts of a copy remain true of the row however old the copy is          *)
(* (Ahead): a stored version, a plan, the validation, the disabling, a     *)
(* recorded attempt, the mode and the identity of the old key are never    *)
(* undone.                                                                 *)
(* The last part strengthens it for one process that may die at any step   *)
(* (SInv): there a copy is the row, until the process itself writes.       *)
(***************************************************************************)
EXTENDS Rotation, TLAPS

\* The states, short of the validated ones, that a row reaches with its replacement stored.
WithValue == {"replacement_stored", "updating_destinations", "destinations_verified",
              "rolling_back", "rolled_back", "manual_required"}

\* A row of the table, with n versions stored and m plans.
RowOK(r, n, m) ==
  /\ r \in Row
  /\ r.old_version <= n /\ r.new_version <= n /\ r.plan <= m
  /\ r.old_version = NoVersion <=> r.new_version = NoVersion
  /\ r.validated => r.new_version # NoVersion
  /\ r.state \in {"grace_period", "old_disabled", "completed"} => r.validated
  /\ r.state \in {"none", "planned"} => r.new_version = NoVersion
  /\ r.state \in WithValue => r.new_version # NoVersion
  /\ r.state = "updating_destinations" => r.plan # NoPlan

\* What a copy s shares with its row r, however old it is.
Ahead(s, r) ==
  /\ s.new_version # NoVersion => r.new_version # NoVersion
  /\ s.plan # NoPlan => r.plan # NoPlan
  /\ s.validated => r.validated
  /\ s.disabled => r.disabled
  /\ s.attempted => r.attempted
  /\ s.state # "none" => r.state # "none" /\ r.old_key = s.old_key /\ r.mode = s.mode
  /\ s.state \notin {"none", "planned"} => r.state \notin {"none", "planned"}
SnapOK(s, r, n, m) == RowOK(s, n, m) /\ Ahead(s, r)

RollbackSteps == {"rollback", "reenable", "restore", "resync", "undo", "drop", "settle"}

\* An operation, at each of its steps, when the table is R.
OpOK(o, R, n, m) ==
  /\ o \in Op
  /\ o.pc # "idle" => o.x \in Rotations /\ R[o.x].state # "none"
  /\ o.pc \notin {"idle", "approve", "cancel"} => R[o.x].state # "planned"
  /\ o.pc \notin {"idle", "approve", "load"} =>
       SnapOK(o.snap, R[o.x], n, m) /\ o.snap.state # "none"
  /\ o.pc \in {"created", "store", "replace", "versions", "stored"} =>
       /\ o.snap.state \in {"approved", "awaiting_manual_key", "creating_in_progress"}
       /\ o.snap.state = "approved" => o.snap.mode = "manual_create"
  /\ o.pc = "stored" => R[o.x].new_version # NoVersion
  /\ o.pc \in {"replace", "versions"} => o.ver \in 1..n
  /\ o.pc = "planned" => R[o.x].plan # NoPlan
  /\ o.pc \in {"exec", "undo"} => o.k \in Keys /\ o.snap.plan # NoPlan
  /\ o.pc = "resync" => o.snap.plan # NoPlan
  /\ o.pc \in {"validate", "validated"} => o.snap.new_version # NoVersion
  /\ o.pc = "grace" => R[o.x].validated
  /\ o.pc \in {"disabled", "revoke", "revoked", "complete", "complete_manual"} =>
       o.snap.validated
  /\ o.pc = "disabling" => R[o.x].disabled
  /\ o.pc \in {"revoke", "revoked"} => R[o.x].attempted
  /\ o.pc = "complete_manual" =>
       o.snap.state \in {"manual_required", "grace_period", "old_disabled"}
  /\ o.pc \in {"cancel", "rollback"} => o.snap.state \notin Finished
  /\ o.pc = "cancel" => o.snap.new_version = NoVersion
  /\ o.pc \in RollbackSteps => o.snap.new_version # NoVersion

RowsOK == rot \in [Rotations -> Row] /\ \A x \in Rotations : RowOK(rot[x], Len(stored), Len(plans))
OpsOK == op \in [Procs -> Op] /\ \A p \in Procs : OpOK(op[p], rot, Len(stored), Len(plans))

\* The value, the plans, and what is served and validated.
ValueOK == provider \in Providers /\ stored \in Seq(Keys) /\ Len(stored) \in 1..MaxVersions
PlanRow == [to : 1..MaxVersions, from : 0..MaxVersions, step : [Dests -> StepStates]]
PlansOK ==
  /\ plans \in Seq(PlanRow) /\ Len(plans) \in 0..MaxPlans
  /\ \A i \in 1..Len(plans) : plans[i].from <= Len(stored)
DestsOK == dest \in [Dests -> Keys] /\ checked \in [Rotations -> Keys \cup {NoKey}]

\* A rotation has created fewer keys than the first key that is still absent.
KeysOK ==
  /\ key \in [Keys -> KeyStates]
  /\ creates \in [Rotations -> 0..MaxKeys]
  /\ \A x \in Rotations, k \in Keys : key[k] = "absent" => creates[x] < k

IInv == RowsOK /\ OpsOK /\ ValueOK /\ PlansOK /\ DestsOK /\ KeysOK

-----------------------------------------------------------------------------
(* Lemmas.                                                                 *)

\* The invariant covers the type invariant.
LEMMA InvTypes == IInv => TypeOK
BY DEF IInv, RowsOK, RowOK, OpsOK, ValueOK, PlansOK, PlanRow, DestsOK, KeysOK, TypeOK

\* What every step does with the facts a copy relies on.
Grows ==
  /\ Len(stored) <= Len(stored') /\ Len(plans) <= Len(plans')
  /\ \A x \in Rotations : Ahead(rot[x], rot'[x])

\* A row stays valid when more is stored.
LEMMA RowStays ==
  ASSUME NEW r, NEW n \in Nat, NEW m \in Nat, NEW nn \in Nat, NEW mm \in Nat,
         n <= nn, m <= mm, RowOK(r, n, m)
  PROVE  RowOK(r, nn, mm)
BY KeysAssumption DEF RowOK, Row

\* An operation that does not move stays valid.
LEMMA OpStays ==
  ASSUME NEW o, NEW n \in Nat, NEW m \in Nat, NEW nn \in Nat, NEW mm \in Nat,
         n <= nn, m <= mm, NEW R, NEW RR,
         \A x \in Rotations : Ahead(R[x], RR[x]),
         OpOK(o, R, n, m)
  PROVE  OpOK(o, RR, nn, mm)
<1>1. ASSUME o.pc \notin {"idle", "approve", "load"} PROVE SnapOK(o.snap, RR[o.x], nn, mm)
  <2>1. o.x \in Rotations /\ SnapOK(o.snap, R[o.x], n, m)  BY <1>1 DEF OpOK
  <2>2. RowOK(o.snap, nn, mm)  BY <2>1, RowStays DEF SnapOK
  <2>3. QED  BY <2>1, <2>2 DEF SnapOK, Ahead
<1>2. o.ver \in 1..n => o.ver \in 1..nn  OBVIOUS
<1>3. o.pc # "idle" => o.x \in Rotations /\ Ahead(R[o.x], RR[o.x])  BY DEF OpOK
<1>4. /\ o.pc # "idle" => RR[o.x].state # "none"
      /\ o.pc \notin {"idle", "approve", "cancel"} => RR[o.x].state # "planned"
      /\ o.pc = "stored" => RR[o.x].new_version # NoVersion
      /\ o.pc = "planned" => RR[o.x].plan # NoPlan
      /\ o.pc = "grace" => RR[o.x].validated
      /\ o.pc = "disabling" => RR[o.x].disabled
      /\ o.pc \in {"revoke", "revoked"} => RR[o.x].attempted
  BY <1>3 DEF OpOK, Ahead
<1>5. QED  BY <1>1, <1>2, <1>4 DEF OpOK

\* One process moves to o, the others stay.
LEMMA OpsStep ==
  ASSUME IInv, Grows, ValueOK', PlansOK', NEW p \in Procs, NEW o,
         op' = [op EXCEPT ![p] = o], OpOK(o, rot', Len(stored'), Len(plans'))
  PROVE  OpsOK'
<1>1. /\ Len(stored) \in Nat /\ Len(plans) \in Nat
      /\ Len(stored') \in Nat /\ Len(plans') \in Nat
  BY DEF IInv, ValueOK, PlansOK
<1>2. ASSUME NEW q \in Procs PROVE OpOK(op'[q], rot', Len(stored'), Len(plans'))
  <2>1. CASE q = p  BY <2>1 DEF IInv, OpsOK
  <2>2. CASE q # p
    <3>1. op'[q] = op[q] /\ OpOK(op[q], rot, Len(stored), Len(plans))
      BY <2>2 DEF IInv, OpsOK
    <3>2. QED  BY <1>1, <3>1, OpStays DEF Grows
  <2>3. QED  BY <2>1, <2>2
<1>3. o \in Op  BY DEF OpOK
<1>4. op' \in [Procs -> Op]  BY <1>3 DEF IInv, OpsOK
<1>5. QED  BY <1>2, <1>4 DEF OpsOK

\* One row changes to r, the others stay; stored versions and plans only grow.
LEMMA RowStep ==
  ASSUME IInv, ValueOK', PlansOK', Len(stored) <= Len(stored'), Len(plans) <= Len(plans'),
         NEW x \in Rotations, NEW r, rot' = [rot EXCEPT ![x] = r],
         RowOK(r, Len(stored'), Len(plans')), Ahead(rot[x], r)
  PROVE  RowsOK' /\ Grows
<1>1. /\ Len(stored) \in Nat /\ Len(plans) \in Nat
      /\ Len(stored') \in Nat /\ Len(plans') \in Nat
  BY DEF IInv, ValueOK, PlansOK
<1>2. ASSUME NEW y \in Rotations
      PROVE  RowOK(rot'[y], Len(stored'), Len(plans')) /\ Ahead(rot[y], rot'[y])
  <2>1. CASE y = x  BY <2>1 DEF IInv, RowsOK
  <2>2. CASE y # x
    <3>1. rot'[y] = rot[y] /\ RowOK(rot[y], Len(stored), Len(plans))
      BY <2>2 DEF IInv, RowsOK
    <3>2. QED  BY <1>1, <3>1, RowStays DEF Ahead
  <2>3. QED  BY <2>1, <2>2
<1>3. rot' \in [Rotations -> Row]  BY DEF IInv, RowsOK, RowOK
<1>4. QED  BY <1>2, <1>3 DEF RowsOK, Grows

\* No row changes.
LEMMA RowsStay ==
  ASSUME IInv, ValueOK', PlansOK', Len(stored) <= Len(stored'), Len(plans) <= Len(plans'),
         UNCHANGED rot
  PROVE  RowsOK' /\ Grows
<1>1. /\ Len(stored) \in Nat /\ Len(plans) \in Nat
      /\ Len(stored') \in Nat /\ Len(plans') \in Nat
  BY DEF IInv, ValueOK, PlansOK
<1>2. ASSUME NEW y \in Rotations
      PROVE  RowOK(rot'[y], Len(stored'), Len(plans')) /\ Ahead(rot[y], rot'[y])
  BY <1>1, RowStays DEF Ahead, IInv, RowsOK
<1>3. QED  BY <1>2 DEF RowsOK, Grows, IInv

\* What the world keeps when none of it changes.
LEMMA WorldStays ==
  IInv /\ UNCHANGED world => ValueOK' /\ PlansOK' /\ DestsOK' /\ KeysOK'
                             /\ Len(stored) <= Len(stored') /\ Len(plans) <= Len(plans')
BY DEF IInv, world, ValueOK, PlansOK, DestsOK, KeysOK

\* set_state: what each state asks of the row.
LEMMA StateStep ==
  ASSUME IInv, UNCHANGED world, NEW x \in Rotations, NEW from,
         NEW to \in States \ {"none", "planned"}, SetState(x, from, to),
         to \in {"grace_period", "old_disabled", "completed"} => rot[x].validated,
         to \in WithValue =>
           from \in WithValue \cup {"old_disabled"} \/ rot[x].new_version # NoVersion,
         to = "updating_destinations" => rot[x].plan # NoPlan
  PROVE  RowsOK' /\ Grows
<1> DEFINE r == [rot[x] EXCEPT !.state = to]
<1>1. RowOK(rot[x], Len(stored), Len(plans))  BY DEF IInv, RowsOK
<1>2. RowOK(r, Len(stored), Len(plans)) /\ Ahead(rot[x], r)
  <2>1. rot[x].state = from  BY DEF SetState
  <2>2. to \in WithValue => rot[x].new_version # NoVersion  BY <1>1, <2>1 DEF RowOK
  <2>3. /\ r \in Row /\ r.state = to /\ r.mode = rot[x].mode
        /\ r.old_version = rot[x].old_version /\ r.new_version = rot[x].new_version
        /\ r.plan = rot[x].plan /\ r.old_key = rot[x].old_key
        /\ r.validated = rot[x].validated /\ r.disabled = rot[x].disabled
        /\ r.attempted = rot[x].attempted
    BY <1>1 DEF RowOK, Row
  <2> HIDE DEF r
  <2>4. QED  BY <1>1, <2>2, <2>3 DEF RowOK, Ahead
<1>3. rot' = [rot EXCEPT ![x] = r]  BY DEF SetState, IInv, RowsOK
<1>4. UNCHANGED <<stored, plans>>  BY DEF world
<1> HIDE DEF r
<1>5. QED  BY <1>2, <1>3, <1>4, WorldStays, RowStep

\* One of the two ways an operation's step ends: it is over.
LEMMA IdleOK == ASSUME NEW R, NEW n, NEW m PROVE OpOK(Idle, R, n, m)
<1>1. Idle \in Op
  BY KeysAssumption DEF Idle, Op, Steps, NewRow, Row, States, NoKey, NoVersion, NoPlan
<1>2. QED  BY <1>1 DEF OpOK, Idle, RollbackSteps

\* The other: it loads the row again.
LEMMA LoadOK ==
  ASSUME NEW x \in Rotations, NEW g \in BOOLEAN, NEW R, NEW n, NEW m,
         R[x].state \notin {"none", "planned"}
  PROVE  OpOK([Idle EXCEPT !.pc = "load", !.x = x, !.give = g], R, n, m)
<1> DEFINE o == [Idle EXCEPT !.pc = "load", !.x = x, !.give = g]
<1>1. Idle \in Op  BY IdleOK DEF OpOK
<1>2. o \in Op /\ o.pc = "load" /\ o.x = x  BY <1>1 DEF Op, Steps
<1>3. QED  BY <1>2 DEF OpOK, RollbackSteps

\* A process's operation is valid, and its rotation is one of the table.
LEMMA OpHere ==
  ASSUME IInv, NEW p \in Procs
  PROVE  /\ op[p] \in Op /\ OpOK(op[p], rot, Len(stored), Len(plans))
         /\ op[p].pc # "idle" => op[p].x \in Rotations /\ rot[op[p].x].state # "none"
         /\ op[p].pc # "idle" => RowOK(rot[op[p].x], Len(stored), Len(plans))
BY DEF IInv, OpsOK, OpOK, RowsOK

\* What every step does: the invariant stays, and so does what a copy relies on.
Preserved == IInv' /\ Grows

\* A step that only returns, once its row is settled.
LEMMA Leaves ==
  ASSUME IInv, UNCHANGED world, RowsOK', Grows, NEW p \in Procs, Return(p)
  PROVE  Preserved
<1>1. OpsOK'  BY WorldStays, IdleOK, OpsStep DEF Return
<1>2. QED  BY <1>1, WorldStays DEF IInv, Preserved

\* A step that loads again.
LEMMA LoadsAgain ==
  ASSUME IInv, UNCHANGED world, RowsOK', Grows, NEW p \in Procs,
         op[p].pc \notin {"idle", "approve", "cancel"}, Again(p)
  PROVE  Preserved
<1>1. /\ op[p].x \in Rotations /\ op[p].give \in BOOLEAN
      /\ rot'[op[p].x].state \notin {"none", "planned"}
  <2>1. op[p].x \in Rotations /\ op[p].give \in BOOLEAN
        /\ rot[op[p].x].state \notin {"none", "planned"}
    BY OpHere DEF Op, OpOK
  <2>2. QED  BY <2>1 DEF Grows, Ahead
<1>2. OpsOK'  BY <1>1, WorldStays, LoadOK, OpsStep DEF Again
<1>3. QED  BY <1>2, WorldStays DEF IInv, Preserved

-----------------------------------------------------------------------------
(* Every action preserves the invariant.                                   *)

\* The steps that settle a state and end the operation, or its round.
LEMMA SettlingSteps ==
  ASSUME IInv, NEW p \in Procs,
         \/ Approve(p) \/ AwaitKey(p) \/ RevokeByHand(p) \/ Complete(p) \/ CompleteManual(p)
         \/ Cancel(p) \/ Settle(p) \/ ClaimApi(p) \/ ClaimCreation(p) \/ AlreadyStored(p)
         \/ Stored(p) \/ Planned(p) \/ DestinationsVerified(p) \/ EnterGrace(p)
         \/ OldDisabled(p)
  PROVE  Preserved
<1> DEFINE x == op[p].x
<1>0. op[p] \in Op /\ OpOK(op[p], rot, Len(stored), Len(plans))  BY OpHere
<1>1. op[p].pc # "idle" /\ x \in Rotations
  <2>1. op[p].pc # "idle"
    BY DEF Approve, AwaitKey, RevokeByHand, Complete, CompleteManual, Cancel, Settle,
       ClaimApi, ClaimCreation, AlreadyStored, Stored, Planned, DestinationsVerified,
       EnterGrace, OldDisabled, Seen, At
  <2>2. QED  BY <2>1, <1>0 DEF OpOK
<1>2. UNCHANGED world
  BY DEF Approve, AwaitKey, RevokeByHand, Complete, CompleteManual, Cancel, Settle,
     ClaimApi, ClaimCreation, AlreadyStored, Stored, Planned, DestinationsVerified,
     EnterGrace, OldDisabled
<1>1a. \/ ClaimApi(p) \/ ClaimCreation(p) \/ AlreadyStored(p) \/ Stored(p) \/ Planned(p)
       \/ DestinationsVerified(p) \/ EnterGrace(p) \/ OldDisabled(p)
       => op[p].pc \notin {"idle", "approve", "cancel"}
  BY DEF ClaimApi, ClaimCreation, AlreadyStored, Stored, Planned, DestinationsVerified,
     EnterGrace, OldDisabled, Seen, At
<1> HIDE DEF x
<1>3. CASE Approve(p)
  <2>1. SetState(x, "planned", "approved") /\ Return(p)  BY <1>3 DEF Approve, x
  <2>2. RowsOK' /\ Grows  BY <2>1, <1>1, <1>2, StateStep DEF States, WithValue
  <2>3. QED  BY <2>1, <2>2, <1>2, Leaves
<1>4. CASE AwaitKey(p)
  <2>1. SetState(x, "approved", "awaiting_manual_key") /\ Return(p)  BY <1>4 DEF AwaitKey, x
  <2>2. RowsOK' /\ Grows  BY <2>1, <1>1, <1>2, StateStep DEF States, WithValue
  <2>3. QED  BY <2>1, <2>2, <1>2, Leaves
<1>5. CASE RevokeByHand(p)
  <2>1. SetState(x, "old_disabled", "manual_required") /\ Return(p)
    BY <1>5 DEF RevokeByHand, x
  <2>2. RowsOK' /\ Grows  BY <2>1, <1>1, <1>2, StateStep DEF States, WithValue
  <2>3. QED  BY <2>1, <2>2, <1>2, Leaves
<1>6. CASE Complete(p)
  <2>1. SetState(x, "old_disabled", "completed") /\ Return(p) /\ op[p].pc = "complete"
    BY <1>6 DEF Complete, At, x
  <2>2. rot[x].validated  BY <2>1, <1>0 DEF OpOK, SnapOK, Ahead, x
  <2>3. RowsOK' /\ Grows  BY <2>1, <2>2, <1>1, <1>2, StateStep DEF States, WithValue
  <2>4. QED  BY <2>1, <2>3, <1>2, Leaves
<1>7. CASE CompleteManual(p)
  <2>1. SetState(x, op[p].snap.state, "completed") /\ Return(p) /\ op[p].pc = "complete_manual"
    BY <1>7 DEF CompleteManual, At, x
  <2>2. rot[x].validated  BY <2>1, <1>0 DEF OpOK, SnapOK, Ahead, x
  <2>3. RowsOK' /\ Grows  BY <2>1, <2>2, <1>1, <1>2, StateStep DEF States, WithValue
  <2>4. QED  BY <2>1, <2>3, <1>2, Leaves
<1>8. CASE Cancel(p)
  <2>1. SetState(x, op[p].snap.state, "failed") /\ Return(p)  BY <1>8 DEF Cancel, x
  <2>2. RowsOK' /\ Grows  BY <2>1, <1>1, <1>2, StateStep DEF States, WithValue
  <2>3. QED  BY <2>1, <2>2, <1>2, Leaves
<1>9. CASE Settle(p)
  <2>1. \E to \in {"manual_required", "rolled_back"} : SetState(x, "rolling_back", to)
    BY <1>9 DEF Settle, x
  <2>2. Return(p) /\ op[p].pc = "settle"  BY <1>9 DEF Settle, At
  <2>3. rot[x].new_version # NoVersion
    BY <2>2, <1>0 DEF OpOK, SnapOK, Ahead, RollbackSteps, x
  <2>4. RowsOK' /\ Grows  BY <2>1, <2>3, <1>1, <1>2, StateStep DEF States, WithValue
  <2>5. QED  BY <2>2, <2>4, <1>2, Leaves
<1>10. CASE ClaimApi(p)
  <2>1. SetState(x, "approved", "creating_replacement") /\ Again(p)  BY <1>10 DEF ClaimApi, x
  <2>2. RowsOK' /\ Grows  BY <2>1, <1>1, <1>2, StateStep DEF States, WithValue
  <2>3. QED  BY <2>1, <2>2, <1>1a, <1>2, <1>10, LoadsAgain
<1>11. CASE ClaimCreation(p)
  <2>1. SetState(x, "creating_replacement", "creating_in_progress") /\ Again(p)
    BY <1>11 DEF ClaimCreation, x
  <2>2. RowsOK' /\ Grows  BY <2>1, <1>1, <1>2, StateStep DEF States, WithValue
  <2>3. QED  BY <2>1, <2>2, <1>1a, <1>2, <1>11, LoadsAgain
<1>12. CASE AlreadyStored(p)
  <2>1. SetState(x, "creating_in_progress", "replacement_stored") /\ Again(p)
    BY <1>12 DEF AlreadyStored, x
  <2>2. rot[x].new_version # NoVersion
    BY <1>0, <1>12 DEF AlreadyStored, Seen, At, OpOK, SnapOK, Ahead, x
  <2>3. RowsOK' /\ Grows  BY <2>1, <2>2, <1>1, <1>2, StateStep DEF States, WithValue
  <2>4. QED  BY <2>1, <2>3, <1>1a, <1>2, <1>12, LoadsAgain
<1>13. CASE Stored(p)
  <2>1. SetState(x, op[p].snap.state, "replacement_stored") /\ Again(p)  BY <1>13 DEF Stored, x
  <2>2. rot[x].new_version # NoVersion  BY <1>0, <1>13 DEF Stored, At, OpOK, x
  <2>3. RowsOK' /\ Grows  BY <2>1, <2>2, <1>1, <1>2, StateStep DEF States, WithValue
  <2>4. QED  BY <2>1, <2>3, <1>1a, <1>2, <1>13, LoadsAgain
<1>14. CASE Planned(p)
  <2>1. SetState(x, "replacement_stored", "updating_destinations") /\ Again(p)
        /\ op[p].pc = "planned"
    BY <1>14 DEF Planned, At, x
  <2>2. rot[x].plan # NoPlan  BY <2>1, <1>0 DEF OpOK, x
  <2>3. RowsOK' /\ Grows  BY <2>1, <2>2, <1>1, <1>2, StateStep DEF States, WithValue
  <2>4. QED  BY <2>1, <2>3, <1>1a, <1>2, <1>14, LoadsAgain
<1>15. CASE DestinationsVerified(p)
  <2>1. SetState(x, "updating_destinations", "destinations_verified") /\ Again(p)
    BY <1>15 DEF DestinationsVerified, x
  <2>2. RowsOK' /\ Grows  BY <2>1, <1>1, <1>2, StateStep DEF States, WithValue
  <2>3. QED  BY <2>1, <2>2, <1>1a, <1>2, <1>15, LoadsAgain
<1>16. CASE EnterGrace(p)
  <2>1. SetState(x, "destinations_verified", "grace_period") /\ Again(p) /\ op[p].pc = "grace"
    BY <1>16 DEF EnterGrace, At, x
  <2>2. rot[x].validated  BY <2>1, <1>0 DEF OpOK, x
  <2>3. RowsOK' /\ Grows  BY <2>1, <2>2, <1>1, <1>2, StateStep DEF States, WithValue
  <2>4. QED  BY <2>1, <2>3, <1>1a, <1>2, <1>16, LoadsAgain
<1>17. CASE OldDisabled(p)
  <2>1. SetState(x, "grace_period", "old_disabled") /\ Again(p)  BY <1>17 DEF OldDisabled, x
  <2>2. rot[x].validated  BY <2>1, <1>1, OpHere DEF SetState, RowOK, x
  <2>3. RowsOK' /\ Grows  BY <2>1, <2>2, <1>1, <1>2, StateStep DEF States, WithValue
  <2>4. QED  BY <2>1, <2>3, <1>1a, <1>2, <1>17, LoadsAgain
<1>18. QED
  BY <1>3, <1>4, <1>5, <1>6, <1>7, <1>8, <1>9, <1>10, <1>11, <1>12, <1>13, <1>14, <1>15,
     <1>16, <1>17
\* A process moves to o, valid wherever the operation as it was would be.
LEMMA Moves ==
  ASSUME IInv, RowsOK', Grows, ValueOK', PlansOK', DestsOK', KeysOK',
         NEW p \in Procs, NEW o, op' = [op EXCEPT ![p] = o],
         OpOK(op[p], rot', Len(stored'), Len(plans')) => OpOK(o, rot', Len(stored'), Len(plans'))
  PROVE  Preserved
<1>1. /\ Len(stored) \in Nat /\ Len(plans) \in Nat
      /\ Len(stored') \in Nat /\ Len(plans') \in Nat
  BY DEF IInv, ValueOK, PlansOK
<1>2. OpOK(op[p], rot', Len(stored'), Len(plans'))
  BY <1>1, OpHere, OpStays DEF Grows
<1>3. OpsOK'  BY <1>2, OpsStep
<1>4. QED  BY <1>3 DEF IInv, Preserved

\* A process moves to o and nothing else changes.
LEMMA MovesAlone ==
  ASSUME IInv, UNCHANGED <<world, rot>>,
         NEW p \in Procs, NEW o, op' = [op EXCEPT ![p] = o],
         OpOK(o, rot, Len(stored), Len(plans))
  PROVE  Preserved
<1>1. UNCHANGED <<stored, plans, rot>>  BY DEF world
<1>2. RowsOK' /\ Grows  BY WorldStays, RowsStay
<1>3. QED  BY <1>1, <1>2, WorldStays, Moves

\* A fresh copy of a row.
LEMMA CopyOK ==
  ASSUME IInv, NEW x \in Rotations
  PROVE  rot[x] \in Row /\ SnapOK(rot[x], rot[x], Len(stored), Len(plans))
BY DEF IInv, RowsOK, SnapOK, Ahead

\* An operation begins, with the row it has just read.
LEMMA BeginningSteps ==
  ASSUME IInv, NEW p \in Procs, NEW x \in Rotations,
         \/ BeginApprove(p, x) \/ BeginAdvance(p, x) \/ BeginCompleteManual(p, x)
         \/ BeginCancel(p, x) \/ BeginRollback(p, x)
  PROVE  Preserved
<1> USE IdleOK, CopyOK DEF Steps, SnapOK, RollbackSteps
<1>0. Idle \in Op  BY DEF OpOK
<1>1. rot[x].state # "none"
  <2>1. RowOK(rot[x], Len(stored), Len(plans))  BY CopyOK
  <2>2. rot[x].old_version # NoVersion => rot[x].state # "none"  BY <2>1 DEF RowOK
  <2>3. QED
    BY <2>2 DEF BeginApprove, BeginAdvance, BeginCompleteManual, BeginCancel, BeginRollback
<1>2. CASE BeginApprove(p, x)
  <2> DEFINE o == [Idle EXCEPT !.pc = "approve", !.x = x]
  <2>1. o \in Op /\ o.pc = "approve" /\ o.x = x  BY <1>0 DEF Op
  <2>2. OpOK(o, rot, Len(stored), Len(plans))  BY <2>1, <1>1 DEF OpOK
  <2>3. QED  BY <1>2, <2>2, MovesAlone DEF BeginApprove
<1>3. CASE BeginAdvance(p, x)
  <2>1. PICK g \in BOOLEAN :
          op' = [op EXCEPT ![p] = [Idle EXCEPT !.pc = "load", !.x = x, !.give = g]]
    BY <1>3 DEF BeginAdvance
  <2>2. UNCHANGED <<world, rot>>  BY <1>3 DEF BeginAdvance
  <2>3. rot[x].state \notin {"none", "planned"}  BY <1>3 DEF BeginAdvance
  <2>4. QED  BY <2>1, <2>2, <2>3, LoadOK, MovesAlone
<1>4. CASE BeginCompleteManual(p, x)
  <2> DEFINE o == [Idle EXCEPT !.pc = "complete_manual", !.x = x, !.snap = rot[x]]
  <2>1. o \in Op /\ o.pc = "complete_manual" /\ o.x = x /\ o.snap = rot[x]  BY <1>0 DEF Op
  <2>2. rot[x].validated /\ rot[x].state \in {"manual_required", "grace_period", "old_disabled"}
    BY <1>4 DEF BeginCompleteManual
  <2>3. OpOK(o, rot, Len(stored), Len(plans))  BY <2>1, <2>2, <1>1 DEF OpOK
  <2>4. QED  BY <1>4, <2>3, MovesAlone DEF BeginCompleteManual, Loaded
<1>5. CASE BeginCancel(p, x)
  <2> DEFINE o == [Idle EXCEPT !.pc = "cancel", !.x = x, !.snap = rot[x]]
  <2>1. o \in Op /\ o.pc = "cancel" /\ o.x = x /\ o.snap = rot[x]  BY <1>0 DEF Op
  <2>2. rot[x].state \notin Finished
    BY <1>5 DEF BeginCancel, Finished, RowOK, WithValue
  <2>3. rot[x].new_version = NoVersion  BY <1>5 DEF BeginCancel
  <2>4. OpOK(o, rot, Len(stored), Len(plans))  BY <2>1, <2>2, <2>3, <1>1 DEF OpOK
  <2>5. QED  BY <1>5, <2>4, MovesAlone DEF BeginCancel, Loaded
<1>6. CASE BeginRollback(p, x)
  <2> DEFINE o == [Idle EXCEPT !.pc = "rollback", !.x = x, !.snap = rot[x], !.k = Material(rot[x])]
  <2>1. rot[x].state \notin Finished \cup {"planned"} /\ rot[x].new_version # NoVersion
    BY <1>6 DEF BeginRollback, Finished, RowOK
  <2>2. Material(rot[x]) \in Keys \cup {NoKey}
    <3>1. stored \in Seq(Keys) /\ rot[x].old_version \in 1..Len(stored)
      BY <2>1 DEF IInv, ValueOK, RowOK, Row, NoVersion
    <3>2. QED  BY <3>1 DEF Material
  <2> HIDE DEF Material
  <2>3. o \in Op /\ o.pc = "rollback" /\ o.x = x /\ o.snap = rot[x]  BY <1>0, <2>2 DEF Op
  <2>4. OpOK(o, rot, Len(stored), Len(plans))  BY <2>1, <2>3, <1>1 DEF OpOK
  <2>5. QED  BY <1>6, <2>4, MovesAlone DEF BeginRollback, LoadForRollback
<1>7. QED  BY <1>2, <1>3, <1>4, <1>5, <1>6

\* An operation goes on to the step named pc, its locals as they are.
LEMMA GotoMeans ==
  ASSUME IInv, NEW p \in Procs, NEW pc \in Steps, Goto(p, pc)
  PROVE  \E o \in Op : /\ op' = [op EXCEPT ![p] = o]
                       /\ o.pc = pc /\ o.x = op[p].x /\ o.snap = op[p].snap
                       /\ o.k = op[p].k /\ o.ver = op[p].ver
<1> DEFINE o == [op[p] EXCEPT !.pc = pc]
<1>1. op[p] \in Op /\ op \in [Procs -> Op]  BY DEF IInv, OpsOK
<1>2. /\ o \in Op /\ o.pc = pc /\ o.x = op[p].x /\ o.snap = op[p].snap
      /\ o.k = op[p].k /\ o.ver = op[p].ver
  BY <1>1 DEF Op
<1>3. op' = [op EXCEPT ![p] = o]  BY <1>1 DEF Goto
<1>4. QED  BY <1>2, <1>3
\* The steps that only decide: the operation goes on, nothing else changes.
LEMMA DecidingSteps ==
  ASSUME IInv, NEW p \in Procs,
         \/ Load(p) \/ TakeValue(p) \/ CheckStored(p) \/ BeginExecute(p) \/ Executed(p)
         \/ OwnVersion(p) \/ Validate(p) \/ AlreadyRevoked(p) \/ BeginResync(p) \/ Undone(p)
         \/ (\E d \in Dests : UndoAborts(p, d)) \/ Leave(p)
  PROVE  Preserved
<1> DEFINE n == Len(stored)  m == Len(plans)
<1>0. /\ op[p] \in Op /\ OpOK(op[p], rot, n, m)
      /\ op \in [Procs -> Op]
      /\ op[p].pc # "idle" => op[p].x \in Rotations
  BY OpHere DEF IInv, OpsOK
<1>1. stored \in Seq(Keys) /\ n \in 1..MaxVersions /\ plans \in Seq(PlanRow) /\ m \in Nat
  BY DEF IInv, ValueOK, PlansOK
<1> HIDE DEF n, m
<1> USE DEF Steps, SnapOK, Ahead, RollbackSteps, At, Seen
<1>2. UNCHANGED <<world, rot>>
  BY DEF Load, TakeValue, CheckStored, BeginExecute, Executed, OwnVersion, Validate,
     AlreadyRevoked, BeginResync, Undone, UndoAborts, Leave
<1>3. ASSUME NEW o, op' = [op EXCEPT ![p] = o], OpOK(o, rot, n, m) PROVE Preserved
  BY <1>2, <1>3, MovesAlone DEF n, m
<1>4. CASE Load(p)
  <2> DEFINE o == [op[p] EXCEPT !.pc = "step", !.snap = rot[op[p].x]]
  <2>1. /\ op[p].x \in Rotations /\ rot[op[p].x].state # "none"
        /\ rot[op[p].x] \in Row /\ SnapOK(rot[op[p].x], rot[op[p].x], n, m)
    BY <1>0, <1>4, OpHere, CopyOK DEF Load, n, m
  <2>2. o \in Op /\ o.pc = "step" /\ o.x = op[p].x /\ o.snap = rot[op[p].x]
    BY <1>0, <2>1 DEF Op
  <2>3. OpOK(o, rot, n, m)  BY <2>1, <2>2, <1>0, <1>4 DEF OpOK, Load
  <2>4. op' = [op EXCEPT ![p] = o]  BY <1>0, <1>4 DEF Load
  <2>5. QED  BY <2>3, <2>4, <1>3
<1>5. CASE TakeValue(p)
  <2> DEFINE o == [op[p] EXCEPT !.pc = "store", !.give = FALSE]
  <2>1. o \in Op /\ o.pc = "store" /\ o.x = op[p].x /\ o.snap = op[p].snap
    BY <1>0 DEF Op
  <2>2. OpOK(o, rot, n, m)  BY <2>1, <1>0, <1>5 DEF OpOK, TakeValue
  <2>3. op' = [op EXCEPT ![p] = o]  BY <1>0, <1>5 DEF TakeValue
  <2>4. QED  BY <2>2, <2>3, <1>3
<1>6. CASE CheckStored(p)
  <2>1. CASE Goto(p, "stored")
    <3>1. PICK o \in Op : /\ op' = [op EXCEPT ![p] = o]
                          /\ o.pc = "stored" /\ o.x = op[p].x /\ o.snap = op[p].snap
      BY <2>1, GotoMeans
    <3>2. rot[op[p].x].new_version # NoVersion
      <4>1. op[p].pc = "store" /\ op \in [Procs -> Op]  BY <1>0, <1>6 DEF CheckStored
      <4>2. o.pc # "replace"  BY <3>1
      <4>3. op'[p].pc = "stored"  BY <3>1, <4>1
      <4>4. QED  BY <1>6, <4>1, <4>3 DEF CheckStored, Op
    <3>3. OpOK(o, rot, n, m)  BY <3>1, <3>2, <1>0, <1>6 DEF OpOK, CheckStored
    <3>4. QED  BY <3>1, <3>3, <1>3
  <2>2. CASE op' = [op EXCEPT ![p].pc = "replace", ![p].ver = value_version]
    <3> DEFINE o == [op[p] EXCEPT !.pc = "replace", !.ver = value_version]
    <3>0. value_version = n /\ value_version \in 0..MaxVersions
      BY <1>1, KeysAssumption DEF value_version, n
    <3>1. /\ o \in Op /\ o.pc = "replace" /\ o.x = op[p].x /\ o.snap = op[p].snap
          /\ o.ver = n
      BY <1>0, <3>0 DEF Op
    <3>2. OpOK(o, rot, n, m)  BY <3>1, <1>0, <1>1, <1>6 DEF OpOK, CheckStored
    <3>3. op' = [op EXCEPT ![p] = o]  BY <1>0, <2>2
    <3>4. QED  BY <3>2, <3>3, <1>3
  <2>3. QED  BY <1>6, <2>1, <2>2 DEF CheckStored
<1>7. CASE BeginExecute(p)
  <2> DEFINE pl == plans[op[p].snap.plan]
             todo == {d \in Dests : pl.step[d] \in {"planned", "failed"}}
             o == [op[p] EXCEPT !.pc = "exec", !.k = stored[pl.to], !.todo = todo]
  <2>1. op[p].pc = "step" /\ op[p].snap.state = "updating_destinations" /\ pl.to = n
    BY <1>7 DEF BeginExecute, value_version, n
  <2>2. op[p].snap.plan # NoPlan  BY <2>1, <1>0 DEF OpOK, RowOK
  <2>3. stored[pl.to] \in Keys  BY <2>1, <1>1 DEF n
  <2>4. op' = [op EXCEPT ![p] = o]  BY <1>0, <1>7 DEF BeginExecute
  <2> HIDE DEF pl
  <2>5. todo \in SUBSET Dests  OBVIOUS
  <2> HIDE DEF todo
  <2>6. /\ o \in Op /\ o.pc = "exec" /\ o.x = op[p].x /\ o.snap = op[p].snap
        /\ o.k = stored[pl.to]
    BY <1>0, <2>3, <2>5 DEF Op
  <2>7. OpOK(o, rot, n, m)  BY <2>1, <2>2, <2>3, <2>6, <1>0 DEF OpOK
  <2>8. QED  BY <2>4, <2>7, <1>3
<1>8. CASE Executed(p)
  <2>1. PICK o \in Op : /\ op' = [op EXCEPT ![p] = o]
                        /\ o.pc = "executed" /\ o.x = op[p].x /\ o.snap = op[p].snap
    BY <1>8, GotoMeans DEF Executed
  <2>2. OpOK(o, rot, n, m)  BY <2>1, <1>0, <1>8 DEF OpOK, Executed
  <2>3. QED  BY <2>1, <2>2, <1>3
<1>9. CASE OwnVersion(p)
  <2>1. PICK o \in Op : /\ op' = [op EXCEPT ![p] = o]
                        /\ o.pc = "validate" /\ o.x = op[p].x /\ o.snap = op[p].snap
    BY <1>9, GotoMeans DEF OwnVersion
  <2>2. op[p].pc = "step" /\ op[p].snap.new_version # NoVersion
    BY <1>1, <1>9 DEF OwnVersion, value_version, n, NoVersion
  <2>3. OpOK(o, rot, n, m)  BY <2>1, <2>2, <1>0 DEF OpOK
  <2>4. QED  BY <2>1, <2>3, <1>3
<1>10. CASE Validate(p)
  <2> DEFINE o == [op[p] EXCEPT !.pc = "validated", !.k = stored[value_version]]
  <2>1. stored[value_version] \in Keys  BY <1>1 DEF value_version, n
  <2>2. o \in Op /\ o.pc = "validated" /\ o.x = op[p].x /\ o.snap = op[p].snap
    BY <1>0, <2>1 DEF Op
  <2>3. OpOK(o, rot, n, m)  BY <2>2, <1>0, <1>10 DEF OpOK, Validate
  <2>4. op' = [op EXCEPT ![p] = o]  BY <1>0, <1>10 DEF Validate
  <2>5. QED  BY <2>3, <2>4, <1>3
<1>11. CASE AlreadyRevoked(p)
  <2>1. PICK o \in Op : /\ op' = [op EXCEPT ![p] = o]
                        /\ o.pc = "complete" /\ o.x = op[p].x /\ o.snap = op[p].snap
    BY <1>11, GotoMeans DEF AlreadyRevoked
  <2>2. OpOK(o, rot, n, m)  BY <2>1, <1>0, <1>11 DEF OpOK, AlreadyRevoked
  <2>3. QED  BY <2>1, <2>2, <1>3
<1>12. CASE BeginResync(p)
  <2> DEFINE pl == plans[op[p].snap.plan]
             todo == {d \in Dests : pl.step[d] = "executed"}
             o1 == [op[p] EXCEPT !.pc = "drop", !.bad = TRUE]
             o2 == [op[p] EXCEPT !.pc = "undo", !.k = stored[pl.from], !.todo = todo]
  <2>1. op[p].pc = "resync"  BY <1>12 DEF BeginResync
  <2>2. op[p].snap.plan # NoPlan /\ op[p].snap \in Row /\ op[p].snap.plan <= m
    BY <2>1, <1>0 DEF OpOK, RowOK
  <2>3. op[p].snap.plan \in 1..m  BY <2>2, <1>1, KeysAssumption DEF Row, NoPlan
  <2>4. pl \in PlanRow /\ pl.from <= n
    <3>1. \A i \in 1..m : plans[i].from <= n  BY DEF IInv, PlansOK, m, n
    <3>2. \A i \in 1..m : plans[i] \in PlanRow  BY <1>1 DEF m
    <3> HIDE DEF pl
    <3>3. QED  BY <2>3, <3>1, <3>2 DEF pl
  <2>5. op' = IF pl.from = NoVersion THEN [op EXCEPT ![p] = o1] ELSE [op EXCEPT ![p] = o2]
    BY <1>0, <1>12 DEF BeginResync
  <2> HIDE DEF pl
  <2>6. CASE pl.from = NoVersion
    <3>1. o1 \in Op /\ o1.pc = "drop" /\ o1.x = op[p].x /\ o1.snap = op[p].snap
      BY <1>0 DEF Op
    <3>2. OpOK(o1, rot, n, m)  BY <2>1, <3>1, <1>0 DEF OpOK
    <3>3. QED  BY <2>5, <2>6, <3>2, <1>3
  <2>7. CASE pl.from # NoVersion
    <3>1. pl.from \in 1..n  BY <2>4, <2>7, <1>1, KeysAssumption DEF PlanRow, NoVersion
    <3>2. stored[pl.from] \in Keys /\ todo \in SUBSET Dests  BY <3>1, <1>1 DEF n
    <3> HIDE DEF todo
    <3>3. /\ o2 \in Op /\ o2.pc = "undo" /\ o2.x = op[p].x /\ o2.snap = op[p].snap
          /\ o2.k = stored[pl.from]
      BY <1>0, <3>2 DEF Op
    <3>4. OpOK(o2, rot, n, m)  BY <2>1, <2>2, <3>2, <3>3, <1>0 DEF OpOK
    <3>5. QED  BY <2>5, <2>7, <3>4, <1>3
  <2>8. QED  BY <2>6, <2>7
<1>13. CASE Undone(p)
  <2> DEFINE b == op[p].bad \/ ~op[p].any
             o == [op[p] EXCEPT !.pc = "drop", !.bad = b]
  <2>1. op' = [op EXCEPT ![p] = o]  BY <1>0, <1>13 DEF Undone
  <2>2. b \in BOOLEAN  BY <1>0 DEF Op
  <2> HIDE DEF b
  <2>3. o \in Op /\ o.pc = "drop" /\ o.x = op[p].x /\ o.snap = op[p].snap
    BY <1>0, <2>2 DEF Op
  <2>4. OpOK(o, rot, n, m)  BY <2>3, <1>0, <1>13 DEF OpOK, Undone
  <2>5. QED  BY <2>1, <2>4, <1>3
<1>14. CASE \E d \in Dests : UndoAborts(p, d)
  <2> DEFINE o == [op[p] EXCEPT !.pc = "drop", !.todo = {}, !.bad = TRUE]
  <2>1. op' = [op EXCEPT ![p] = o] /\ op[p].pc = "undo"  BY <1>0, <1>14 DEF UndoAborts
  <2>2. o \in Op /\ o.pc = "drop" /\ o.x = op[p].x /\ o.snap = op[p].snap
    BY <1>0 DEF Op
  <2>3. OpOK(o, rot, n, m)  BY <2>1, <2>2, <1>0 DEF OpOK
  <2>4. QED  BY <2>1, <2>3, <1>3
<1>15. CASE Leave(p)
  BY <1>15, <1>3, IdleOK DEF Leave, Return
<1>16. QED
  BY <1>4, <1>5, <1>6, <1>7, <1>8, <1>9, <1>10, <1>11, <1>12, <1>13, <1>14, <1>15
\* A key's state is set, and no key is created: what was created stays below the first
\* absent key.
LEMMA KeySet ==
  ASSUME IInv, NEW k, NEW s \in KeyStates \ {"absent"}, key' = [key EXCEPT ![k] = s],
         UNCHANGED creates
  PROVE  KeysOK'
BY DEF IInv, KeysOK

\* Provider calls on keys that exist, and the row fields they are noted in.
LEMMA ProviderSteps ==
  ASSUME IInv, NEW p \in Procs, \/ Disable(p) \/ Revoke(p) \/ Reenable(p) \/ Drop(p)
  PROVE  Preserved
<1> DEFINE n == Len(stored)  m == Len(plans)
<1>0. /\ op[p] \in Op /\ OpOK(op[p], rot, n, m)
      /\ op \in [Procs -> Op]
  BY OpHere DEF IInv, OpsOK
<1> USE DEF Steps, SnapOK, Ahead, RollbackSteps, At, Seen
<1>1. ValueOK' /\ PlansOK' /\ DestsOK' /\ RowsOK' /\ Grows
  <2>1. UNCHANGED <<provider, rot, stored, plans, dest, checked>>
    BY DEF Disable, Revoke, Reenable, Drop
  <2>2. ValueOK' /\ PlansOK' /\ DestsOK'  BY <2>1 DEF IInv, ValueOK, PlansOK, DestsOK
  <2>3. n \in Nat /\ m \in Nat /\ UNCHANGED <<n, m>>  BY <2>1 DEF IInv, ValueOK, PlansOK
  <2>4. QED  BY <2>1, <2>2, <2>3, RowsStay
<1>2. UNCHANGED <<rot, n, m, creates>>  BY DEF Disable, Revoke, Reenable, Drop
<1>3. KeysOK'
  <2>1. \/ UNCHANGED key
        \/ \E k : \E s \in KeyStates \ {"absent"} : key' = [key EXCEPT ![k] = s]
    BY DEF Disable, Revoke, Reenable, Drop, Revoked, KeyStates
  <2>2. CASE UNCHANGED key  BY <2>2, <1>2 DEF IInv, KeysOK
  <2>3. QED  BY <2>1, <2>2, <1>2, KeySet
<1> HIDE DEF n, m
<1>4. ASSUME NEW o, op' = [op EXCEPT ![p] = o], OpOK(o, rot, n, m) PROVE Preserved
  BY <1>1, <1>2, <1>3, <1>4, Moves DEF n, m
<1>5. CASE Disable(p)
  <2>1. PICK o \in Op : /\ op' = [op EXCEPT ![p] = o]
                        /\ o.pc = "disabled" /\ o.x = op[p].x /\ o.snap = op[p].snap
    BY <1>5, GotoMeans DEF Disable
  <2>2. op[p].snap.validated  BY <1>0, <1>5 DEF OpOK, RowOK, Disable
  <2>3. OpOK(o, rot, n, m)  BY <2>1, <2>2, <1>0, <1>5 DEF OpOK, Disable
  <2>4. QED  BY <2>1, <2>3, <1>4
<1>6. CASE Revoke(p)
  <2>1. PICK o \in Op : /\ op' = [op EXCEPT ![p] = o]
                        /\ o.pc = "revoked" /\ o.x = op[p].x /\ o.snap = op[p].snap
    BY <1>6, GotoMeans DEF Revoke
  <2>2. OpOK(o, rot, n, m)  BY <2>1, <1>0, <1>6 DEF OpOK, Revoke
  <2>3. QED  BY <2>1, <2>2, <1>4
<1>7. CASE Reenable(p)
  <2>1. CASE Goto(p, "restore")
    <3>1. PICK o \in Op : /\ op' = [op EXCEPT ![p] = o]
                          /\ o.pc = "restore" /\ o.x = op[p].x /\ o.snap = op[p].snap
      BY <2>1, GotoMeans
    <3>2. OpOK(o, rot, n, m)  BY <3>1, <1>0, <1>7 DEF OpOK, Reenable
    <3>3. QED  BY <3>1, <3>2, <1>4
  <2>2. CASE op' = [op EXCEPT ![p].pc = "restore", ![p].bad = TRUE]
    <3> DEFINE o == [op[p] EXCEPT !.pc = "restore", !.bad = TRUE]
    <3>1. op' = [op EXCEPT ![p] = o]  BY <1>0, <2>2
    <3>2. o \in Op /\ o.pc = "restore" /\ o.x = op[p].x /\ o.snap = op[p].snap
      BY <1>0 DEF Op
    <3>3. OpOK(o, rot, n, m)  BY <3>2, <1>0, <1>7 DEF OpOK, Reenable
    <3>4. QED  BY <3>1, <3>3, <1>4
  <2>3. QED  BY <1>7, <2>1, <2>2 DEF Reenable
<1>8. CASE Drop(p)
  <2>1. CASE Goto(p, "settle")
    <3>1. PICK o \in Op : /\ op' = [op EXCEPT ![p] = o]
                          /\ o.pc = "settle" /\ o.x = op[p].x /\ o.snap = op[p].snap
      BY <2>1, GotoMeans
    <3>2. OpOK(o, rot, n, m)  BY <3>1, <1>0, <1>8 DEF OpOK, Drop
    <3>3. QED  BY <3>1, <3>2, <1>4
  <2>2. CASE op' = [op EXCEPT ![p].pc = "settle", ![p].bad = TRUE]
    <3> DEFINE o == [op[p] EXCEPT !.pc = "settle", !.bad = TRUE]
    <3>1. op' = [op EXCEPT ![p] = o]  BY <1>0, <2>2
    <3>2. o \in Op /\ o.pc = "settle" /\ o.x = op[p].x /\ o.snap = op[p].snap
      BY <1>0 DEF Op
    <3>3. OpOK(o, rot, n, m)  BY <3>2, <1>0, <1>8 DEF OpOK, Drop
    <3>4. QED  BY <3>1, <3>3, <1>4
  <2>3. QED  BY <1>8, <2>1, <2>2 DEF Drop
<1>9. QED  BY <1>5, <1>6, <1>7, <1>8

\* A step that writes one row and goes on to pc.
LEMMA Notes ==
  ASSUME IInv, ValueOK', PlansOK', DestsOK', KeysOK',
         Len(stored) <= Len(stored'), Len(plans) <= Len(plans'),
         NEW p \in Procs, op[p].pc # "idle", NEW r, rot' = [rot EXCEPT ![op[p].x] = r],
         RowOK(r, Len(stored'), Len(plans')), Ahead(rot[op[p].x], r),
         NEW o, op' = [op EXCEPT ![p] = o],
         OpOK(op[p], rot', Len(stored'), Len(plans')) => OpOK(o, rot', Len(stored'), Len(plans'))
  PROVE  Preserved
<1>1. op[p].x \in Rotations  BY OpHere
<1>2. RowsOK' /\ Grows  BY <1>1, RowStep
<1>3. QED  BY <1>2, Moves

\* The steps that note in the row what was just done.
LEMMA NotingSteps ==
  ASSUME IInv, NEW p \in Procs,
         \/ NoteKey(p) \/ SetVersions(p) \/ MarkValidated(p) \/ NoteDisabled(p)
         \/ MarkAttempt(p) \/ NoteRevoked(p)
  PROVE  Preserved
<1> DEFINE n == Len(stored)  m == Len(plans)  row == rot[op[p].x]
<1> USE DEF Steps, SnapOK, Ahead, RollbackSteps, At, Seen
<1>0. /\ op[p] \in Op /\ OpOK(op[p], rot, n, m)
      /\ op \in [Procs -> Op] /\ rot \in [Rotations -> Row]
  BY OpHere DEF IInv, OpsOK, RowsOK
<1>1. /\ op[p].pc # "idle" /\ op[p].x \in Rotations
      /\ RowOK(row, n, m) /\ row.state # "none"
  <2>1. op[p].pc # "idle"
    BY DEF NoteKey, SetVersions, MarkValidated, NoteDisabled, MarkAttempt, NoteRevoked
  <2>2. QED  BY <2>1, OpHere
<1>2. /\ ValueOK' /\ PlansOK' /\ KeysOK' /\ DestsOK'
      /\ n \in 1..MaxVersions /\ m \in Nat /\ UNCHANGED <<stored, plans>>
  <2>1. UNCHANGED <<provider, stored, key, plans, dest, creates>>
    BY DEF NoteKey, SetVersions, MarkValidated, NoteDisabled, MarkAttempt, NoteRevoked, world
  <2>2. ValueOK' /\ PlansOK' /\ KeysOK'  BY <2>1 DEF IInv, ValueOK, PlansOK, KeysOK
  <2>3. checked' \in [Rotations -> Keys \cup {NoKey}]
    <3>1. \/ UNCHANGED checked \/ checked' = [checked EXCEPT ![op[p].x] = op[p].k]
      BY DEF NoteKey, SetVersions, MarkValidated, NoteDisabled, MarkAttempt, NoteRevoked, world
    <3>2. checked \in [Rotations -> Keys \cup {NoKey}] /\ op[p].k \in Keys \cup {NoKey}
      BY <1>0 DEF IInv, DestsOK, Op
    <3>3. QED  BY <3>1, <3>2
  <2>4. QED  BY <2>1, <2>2, <2>3 DEF IInv, ValueOK, PlansOK, DestsOK
<1> HIDE DEF n, m, row
<1>3. ASSUME NEW r, rot' = [rot EXCEPT ![op[p].x] = r], RowOK(r, n, m), Ahead(row, r),
             NEW o, op' = [op EXCEPT ![p] = o], OpOK(op[p], rot', n, m) => OpOK(o, rot', n, m)
      PROVE  Preserved
  <2>1. n = Len(stored) /\ n = Len(stored') /\ m = Len(plans) /\ m = Len(plans')
    BY <1>2 DEF n, m
  <2>2. Len(stored) <= Len(stored') /\ Len(plans) <= Len(plans')  BY <2>1, <1>2
  <2>3. /\ RowOK(r, Len(stored'), Len(plans')) /\ Ahead(rot[op[p].x], r)
        /\ OpOK(op[p], rot', Len(stored'), Len(plans')) => OpOK(o, rot', Len(stored'), Len(plans'))
    BY <1>3, <2>1 DEF row
  <2> HIDE DEF Ahead, SnapOK
  <2>4. QED  BY <1>1, <1>2, <1>3, <2>2, <2>3, Notes
<1>4. CASE NoteKey(p)
  <2> DEFINE r == [row EXCEPT !.new_key = op[p].k]
  <2>1. rot' = [rot EXCEPT ![op[p].x] = r]  BY <1>0, <1>1, <1>4 DEF NoteKey, row
  <2>2. RowOK(r, n, m) /\ Ahead(row, r)  BY <1>0, <1>1 DEF RowOK, Row, Op
  <2>3. PICK o \in Op : /\ op' = [op EXCEPT ![p] = o]
                        /\ o.pc = "store" /\ o.x = op[p].x /\ o.snap = op[p].snap
    BY <1>4, GotoMeans DEF NoteKey
  <2>4. OpOK(op[p], rot', n, m) => OpOK(o, rot', n, m)  BY <2>3, <1>4 DEF OpOK, NoteKey
  <2> HIDE DEF r
  <2>5. QED  BY <2>1, <2>2, <2>3, <2>4, <1>3
<1>5. CASE SetVersions(p)
  <2> DEFINE r == [row EXCEPT !.old_version = op[p].ver, !.new_version = value_version]
  <2>1. rot' = [rot EXCEPT ![op[p].x] = r]  BY <1>0, <1>1, <1>5 DEF SetVersions, row
  <2>2. op[p].ver \in 1..n /\ value_version = n
    BY <1>0, <1>5 DEF SetVersions, OpOK, value_version, n
  <2>3. r \in Row
    <3>1. op[p].ver \in 0..MaxVersions /\ value_version \in 0..MaxVersions
      BY <2>2, <1>2, KeysAssumption
    <3>2. QED  BY <3>1, <1>1 DEF RowOK, Row
  <2>4. r.old_version # NoVersion /\ r.new_version # NoVersion
        /\ r.old_version <= n /\ r.new_version <= n
    BY <2>2, <1>1, <1>2 DEF RowOK, Row, NoVersion
  <2>5. /\ r.plan = row.plan /\ r.validated = row.validated /\ r.state = row.state
        /\ r.attempted = row.attempted /\ r.old_key = row.old_key /\ r.mode = row.mode
        /\ r.disabled = row.disabled /\ row.state \notin {"none", "planned"}
    BY <1>0, <1>1, <1>5 DEF RowOK, Row, SetVersions, OpOK, row
  <2> HIDE DEF r
  <2>6. RowOK(r, n, m) /\ Ahead(row, r)  BY <2>3, <2>4, <2>5, <1>1 DEF RowOK
  <2>7. PICK o \in Op : /\ op' = [op EXCEPT ![p] = o]
                        /\ o.pc = "stored" /\ o.x = op[p].x /\ o.snap = op[p].snap
    BY <1>5, GotoMeans DEF SetVersions
  <2>8. rot'[o.x].new_version # NoVersion  BY <2>1, <2>4, <2>7, <1>0, <1>1
  <2>9. OpOK(op[p], rot', n, m) => OpOK(o, rot', n, m)
    BY <2>7, <2>8, <1>5 DEF OpOK, SetVersions
  <2>10. QED  BY <2>1, <2>6, <2>7, <2>9, <1>3
<1>6. CASE MarkValidated(p)
  <2> DEFINE r == [row EXCEPT !.validated = TRUE]
  <2>1. rot' = [rot EXCEPT ![op[p].x] = r]  BY <1>0, <1>1, <1>6 DEF MarkValidated, row
  <2>2. row.new_version # NoVersion  BY <1>0, <1>6 DEF MarkValidated, OpOK, row
  <2>3. RowOK(r, n, m) /\ Ahead(row, r)  BY <2>2, <1>1 DEF RowOK, Row
  <2>4. PICK o \in Op : /\ op' = [op EXCEPT ![p] = o]
                        /\ o.pc = "grace" /\ o.x = op[p].x /\ o.snap = op[p].snap
    BY <1>6, GotoMeans DEF MarkValidated
  <2>5. rot'[o.x].validated  BY <2>1, <2>4, <1>0, <1>1 DEF RowOK, Row
  <2>6. OpOK(op[p], rot', n, m) => OpOK(o, rot', n, m)
    BY <2>4, <2>5, <1>6 DEF OpOK, MarkValidated
  <2> HIDE DEF r
  <2>7. QED  BY <2>1, <2>3, <2>4, <2>6, <1>3
<1>7. CASE NoteDisabled(p)
  <2> DEFINE r == [row EXCEPT !.disabled = TRUE]
  <2>1. rot' = [rot EXCEPT ![op[p].x] = r]  BY <1>0, <1>1, <1>7 DEF NoteDisabled, row
  <2>2. RowOK(r, n, m) /\ Ahead(row, r)  BY <1>1 DEF RowOK, Row
  <2>3. PICK o \in Op : /\ op' = [op EXCEPT ![p] = o]
                        /\ o.pc = "disabling" /\ o.x = op[p].x /\ o.snap = op[p].snap
    BY <1>7, GotoMeans DEF NoteDisabled
  <2>4. rot'[o.x].disabled  BY <2>1, <2>3, <1>0, <1>1 DEF RowOK, Row
  <2>5. OpOK(op[p], rot', n, m) => OpOK(o, rot', n, m)
    BY <2>3, <2>4, <1>7 DEF OpOK, NoteDisabled
  <2> HIDE DEF r
  <2>6. QED  BY <2>1, <2>2, <2>3, <2>5, <1>3
<1>8. CASE MarkAttempt(p)
  <2> DEFINE r == [row EXCEPT !.attempted = TRUE]
             o == [op[p] EXCEPT !.pc = "revoke", !.before = row.attempted]
  <2>1. rot' = [rot EXCEPT ![op[p].x] = r]  BY <1>0, <1>1, <1>8 DEF MarkAttempt, row
  <2>2. RowOK(r, n, m) /\ Ahead(row, r)  BY <1>1 DEF RowOK, Row
  <2>3. op' = [op EXCEPT ![p] = o]  BY <1>0, <1>8 DEF MarkAttempt, row
  <2>4. row.attempted \in BOOLEAN  BY <1>1 DEF RowOK, Row
  <2>5. o \in Op /\ o.pc = "revoke" /\ o.x = op[p].x /\ o.snap = op[p].snap
    BY <1>0, <2>4 DEF Op
  <2> HIDE DEF o
  <2>6. rot'[o.x].attempted  BY <2>1, <2>5, <1>0, <1>1 DEF RowOK, Row
  <2> HIDE DEF r
  <2>7. OpOK(op[p], rot', n, m) => OpOK(o, rot', n, m)
    BY <2>5, <2>6, <1>8 DEF OpOK, MarkAttempt
  <2>8. QED  BY <2>1, <2>2, <2>3, <2>7, <1>3
<1>9. CASE NoteRevoked(p)
  <2> DEFINE r == [row EXCEPT !.revoked = TRUE]
  <2>1. rot' = [rot EXCEPT ![op[p].x] = r]  BY <1>0, <1>1, <1>9 DEF NoteRevoked, row
  <2>2. RowOK(r, n, m) /\ Ahead(row, r)  BY <1>1 DEF RowOK, Row
  <2>3. PICK o \in Op : /\ op' = [op EXCEPT ![p] = o]
                        /\ o.pc = "complete" /\ o.x = op[p].x /\ o.snap = op[p].snap
    BY <1>9, GotoMeans DEF NoteRevoked
  <2>4. OpOK(op[p], rot', n, m) => OpOK(o, rot', n, m)  BY <2>3, <1>9 DEF OpOK, NoteRevoked
  <2> HIDE DEF r
  <2>5. QED  BY <2>1, <2>2, <2>3, <2>4, <1>3
<1>10. QED  BY <1>4, <1>5, <1>6, <1>7, <1>8, <1>9
\* The 404, settled either way; and the claim of a rollback.
LEMMA AnswerSteps ==
  ASSUME IInv, NEW p \in Procs, NotFound(p) \/ EnterRollback(p)
  PROVE  Preserved
<1> DEFINE n == Len(stored)  m == Len(plans)
<1> USE DEF Steps, RollbackSteps, At
<1>0. op[p] \in Op /\ OpOK(op[p], rot, n, m) /\ op[p].x \in Rotations
  BY OpHere DEF NotFound, EnterRollback
<1>1. UNCHANGED world  BY DEF NotFound, EnterRollback
<1>2. CASE NotFound(p) /\ Goto(p, "revoked") /\ UNCHANGED rot
  <2>1. PICK o \in Op : /\ op' = [op EXCEPT ![p] = o]
                        /\ o.pc = "revoked" /\ o.x = op[p].x /\ o.snap = op[p].snap
    BY <1>2, GotoMeans
  <2>2. OpOK(o, rot, n, m)  BY <2>1, <1>0, <1>2 DEF OpOK, NotFound
  <2>3. QED  BY <2>1, <2>2, <1>1, <1>2, MovesAlone
<1>3. CASE NotFound(p) /\ SetState(op[p].x, "old_disabled", "manual_required") /\ Return(p)
  <2>1. RowsOK' /\ Grows  BY <1>0, <1>1, <1>3, StateStep DEF States
  <2>2. QED  BY <2>1, <1>1, <1>3, Leaves
<1>4. CASE EnterRollback(p)
  <2>1. SetState(op[p].x, op[p].snap.state, "rolling_back")  BY <1>4 DEF EnterRollback
  <2>2. RowsOK' /\ Grows
    <3>1. rot[op[p].x].new_version # NoVersion
      BY <1>0, <1>4 DEF EnterRollback, OpOK, SnapOK, Ahead
    <3>2. QED  BY <2>1, <3>1, <1>0, <1>1, StateStep DEF States
  <2>3. PICK o \in Op : /\ op' = [op EXCEPT ![p] = o]
                        /\ o.pc = "reenable" /\ o.x = op[p].x /\ o.snap = op[p].snap
    BY <1>4, GotoMeans DEF EnterRollback
  <2>4. op[p].pc = "rollback"  BY <1>4 DEF EnterRollback
  <2>5. ASSUME NEW R, NEW nn, NEW mm, OpOK(op[p], R, nn, mm) PROVE OpOK(o, R, nn, mm)
    BY <2>3, <2>4, <2>5 DEF OpOK
  <2>6. QED  BY <2>2, <2>3, <2>5, <1>1, WorldStays, Moves
<1>5. QED  BY <1>2, <1>3, <1>4 DEF NotFound

\* A key is created: the first absent one, now active.
LEMMA CreateStep ==
  ASSUME IInv, NEW p \in Procs, Create(p)
  PROVE  Preserved
<1> DEFINE n == Len(stored)  m == Len(plans)
<1> USE DEF Steps, RollbackSteps, At, Seen
<1>0. /\ op[p] \in Op /\ OpOK(op[p], rot, n, m) /\ op[p].x \in Rotations
      /\ op \in [Procs -> Op]
  BY OpHere DEF Create, IInv, OpsOK
<1>1. PICK k \in Keys : /\ Fresh(k) /\ key' = [key EXCEPT ![k] = "active"]
                        /\ op' = [op EXCEPT ![p].pc = "created", ![p].k = k]
  BY DEF Create
<1>2. UNCHANGED <<provider, rot, stored, plans, dest, checked>>
      /\ creates' = [creates EXCEPT ![op[p].x] = @ + 1]
  BY DEF Create
<1>3. KeysOK'
  <2>1. key \in [Keys -> KeyStates] /\ creates \in [Rotations -> 0..MaxKeys]
    BY DEF IInv, KeysOK
  <2>2. \A x \in Rotations : creates[x] < k  BY <1>1 DEF IInv, KeysOK, Fresh
  <2>3. k \in 1..MaxKeys /\ MaxKeys \in Nat  BY KeysAssumption DEF Keys
  <2>4. key' \in [Keys -> KeyStates]  BY <1>1, <2>1 DEF KeyStates
  <2>5. ASSUME NEW x \in Rotations PROVE creates'[x] \in 0..MaxKeys /\ creates'[x] <= k
    <3>1. creates[x] \in 0..MaxKeys /\ creates[x] < k  BY <2>1, <2>2
    <3>2. creates'[x] = creates[x] \/ creates'[x] = creates[x] + 1  BY <1>2, <2>1
    <3>3. QED  BY <3>1, <3>2, <2>3
  <2>6. creates' \in [Rotations -> 0..MaxKeys]  BY <2>1, <2>5, <1>2
  <2>7. ASSUME NEW x \in Rotations, NEW j \in Keys, key'[j] = "absent"
        PROVE  creates'[x] < j
    <3>1. j # k /\ key[j] = "absent"  BY <2>1, <2>7, <1>1
    <3>2. ~(j < k)  BY <3>1, <1>1, <2>3, KeysAssumption DEF Fresh, Keys
    <3>3. j \in Nat  BY KeysAssumption DEF Keys
    <3>4. QED  BY <2>3, <2>5, <3>1, <3>2, <3>3
  <2>8. QED  BY <2>4, <2>6, <2>7 DEF KeysOK
<1>4. ValueOK' /\ PlansOK' /\ DestsOK'  BY <1>2 DEF IInv, ValueOK, PlansOK, DestsOK
<1>5. n \in Nat /\ m \in Nat /\ UNCHANGED <<n, m>>  BY <1>2 DEF IInv, ValueOK, PlansOK
<1>6. RowsOK' /\ Grows  BY <1>2, <1>4, <1>5, RowsStay
<1> DEFINE o == [op[p] EXCEPT !.pc = "created", !.k = k]
<1>7. op' = [op EXCEPT ![p] = o]  BY <1>0, <1>1
<1>8. o \in Op /\ o.pc = "created" /\ o.x = op[p].x /\ o.snap = op[p].snap
  BY <1>0 DEF Op
<1> HIDE DEF o
<1>9. op[p].pc = "step" /\ op[p].snap.state = "creating_in_progress"  BY DEF Create
<1>10. ASSUME NEW R, NEW nn, NEW mm, OpOK(op[p], R, nn, mm) PROVE OpOK(o, R, nn, mm)
  BY <1>8, <1>9, <1>10 DEF OpOK
<1>11. QED  BY <1>3, <1>4, <1>6, <1>7, <1>10, Moves

\* The value moves on by one version.
LEMMA ReplaceStep ==
  ASSUME IInv, NEW k \in Keys, Replace(k), UNCHANGED <<provider, plans>>
  PROVE  /\ ValueOK' /\ PlansOK'
         /\ Len(stored) <= Len(stored') /\ Len(plans) <= Len(plans')
<1>1. stored \in Seq(Keys) /\ Len(stored) \in 1..MaxVersions /\ MaxVersions \in Nat
      /\ provider \in Providers
  BY KeysAssumption DEF IInv, ValueOK
<1>2. stored' = Append(stored, k) /\ Len(stored) < MaxVersions
  BY DEF Replace, value_version
<1>3. stored' \in Seq(Keys) /\ Len(stored') = Len(stored) + 1  BY <1>1, <1>2
<1>4. ValueOK'  BY <1>1, <1>2, <1>3 DEF ValueOK
<1>5. Len(stored) <= Len(stored')  BY <1>1, <1>3
<1>6. PlansOK' /\ Len(plans) <= Len(plans')
  <2>1. plans \in Seq(PlanRow) /\ Len(plans) \in 0..MaxPlans  BY DEF IInv, PlansOK
  <2>2. ASSUME NEW i \in 1..Len(plans) PROVE plans[i].from <= Len(stored')
    <3>1. plans[i] \in PlanRow /\ plans[i].from <= Len(stored)  BY <2>1 DEF IInv, PlansOK
    <3>2. plans[i].from \in Nat  BY <3>1, <1>1 DEF PlanRow
    <3>3. QED  BY <3>1, <3>2, <1>1, <1>3
  <2>3. QED  BY <2>1, <2>2 DEF PlansOK
<1>7. QED  BY <1>4, <1>5, <1>6

\* The replacement is stored, the old value goes back, or the user replaces the value.
LEMMA ValueSteps ==
  ASSUME IInv, \/ ReplaceByUser
               \/ \E p \in Procs : StoreValue(p) \/ Restore(p)
  PROVE  Preserved
<1> USE DEF Steps, RollbackSteps, At
<1>1. UNCHANGED <<provider, rot, plans, dest, creates, checked>>
  BY DEF ReplaceByUser, StoreValue, Restore
<1>2. (\E k \in Keys : Replace(k)) \/ UNCHANGED stored
  <2>1. CASE ReplaceByUser  BY <2>1 DEF ReplaceByUser
  <2>2. ASSUME NEW p \in Procs, StoreValue(p) \/ Restore(p)
        PROVE  (\E k \in Keys : Replace(k)) \/ UNCHANGED stored
    <3>1. op[p].k \in Keys \cup {NoKey}  BY OpHere DEF Op
    <3>2. QED  BY <2>2, <3>1 DEF StoreValue, Restore
  <2>3. QED  BY <2>1, <2>2
<1>3. /\ ValueOK' /\ PlansOK' /\ DestsOK'
      /\ Len(stored) <= Len(stored') /\ Len(plans) <= Len(plans')
  <2>1. DestsOK'  BY <1>1 DEF IInv, DestsOK
  <2>2. CASE UNCHANGED stored  BY <2>1, <2>2, <1>1 DEF IInv, ValueOK, PlansOK
  <2>3. CASE \E k \in Keys : Replace(k)  BY <2>1, <2>3, <1>1, ReplaceStep
  <2>4. QED  BY <1>2, <2>2, <2>3
<1>4. RowsOK' /\ Grows  BY <1>1, <1>3, RowsStay
<1>5. KeysOK'
  <2>1. UNCHANGED key \/ \E k : key' = [key EXCEPT ![k] = "active"]
    BY DEF ReplaceByUser, StoreValue, Restore
  <2>2. CASE UNCHANGED key  BY <2>2, <1>1 DEF IInv, KeysOK
  <2>3. "active" \in KeyStates \ {"absent"}  BY DEF KeyStates
  <2>4. QED  BY <2>1, <2>2, <2>3, <1>1, KeySet
<1>6. CASE ReplaceByUser
  <2>1. UNCHANGED op  BY <1>6 DEF ReplaceByUser
  <2>2. /\ Len(stored) \in Nat /\ Len(plans) \in Nat
        /\ Len(stored') \in Nat /\ Len(plans') \in Nat
    BY <1>3 DEF IInv, ValueOK, PlansOK
  <2>3. ASSUME NEW q \in Procs PROVE OpOK(op[q], rot', Len(stored'), Len(plans'))
    BY <2>2, <1>3, <1>4, OpHere, OpStays DEF Grows
  <2>4. OpsOK'  BY <2>1, <2>3 DEF IInv, OpsOK
  <2>5. QED  BY <2>4, <1>3, <1>4, <1>5 DEF IInv, Preserved
<1>7. ASSUME NEW p \in Procs, StoreValue(p) PROVE Preserved
  <2>1. PICK o \in Op : /\ op' = [op EXCEPT ![p] = o]
                        /\ o.pc = "versions" /\ o.x = op[p].x /\ o.snap = op[p].snap
                        /\ o.ver = op[p].ver
    BY <1>7, GotoMeans DEF StoreValue
  <2>2. op[p].pc = "replace"  BY <1>7 DEF StoreValue
  <2>3. ASSUME NEW R, NEW nn, NEW mm, OpOK(op[p], R, nn, mm) PROVE OpOK(o, R, nn, mm)
    BY <2>1, <2>2, <2>3 DEF OpOK
  <2>4. QED  BY <2>1, <2>3, <1>3, <1>4, <1>5, Moves
<1>8. ASSUME NEW p \in Procs, Restore(p) PROVE Preserved
  <2> DEFINE pc == IF op[p].snap.plan # NoPlan THEN "resync" ELSE "drop"
  <2>1. PICK o \in Op : /\ op' = [op EXCEPT ![p] = o]
                        /\ o.pc = pc /\ o.x = op[p].x /\ o.snap = op[p].snap
    BY <1>8, GotoMeans DEF Restore
  <2>2. op[p].pc = "restore"  BY <1>8 DEF Restore
  <2>3. ASSUME NEW R, NEW nn, NEW mm, OpOK(op[p], R, nn, mm) PROVE OpOK(o, R, nn, mm)
    BY <2>1, <2>2, <2>3 DEF OpOK
  <2>4. QED  BY <2>1, <2>3, <1>3, <1>4, <1>5, Moves
<1>9. QED  BY <1>6, <1>7, <1>8
\* A plan is made for the value as it is, and the row points at it.
LEMMA MakePlanStep ==
  ASSUME IInv, NEW p \in Procs, MakePlan(p)
  PROVE  Preserved
<1> DEFINE n == Len(stored)  m == Len(plans)  row == rot[op[p].x]
           pl == [to |-> n, from |-> n - 1, step |-> [d \in Dests |-> "planned"]]
           r == [row EXCEPT !.plan = m + 1]
<1> USE DEF Steps, RollbackSteps, At, Seen
<1>0. /\ op[p].pc = "step" /\ op[p].x \in Rotations /\ RowOK(row, n, m)
      /\ rot \in [Rotations -> Row]
  BY OpHere DEF MakePlan, IInv, RowsOK
<1>1. n \in 1..MaxVersions /\ m \in 0..MaxPlans /\ plans \in Seq(PlanRow)
      /\ MaxVersions \in Nat /\ MaxPlans \in Nat
  BY KeysAssumption DEF IInv, ValueOK, PlansOK
<1>2. /\ m < MaxPlans /\ plans' = Append(plans, pl) /\ rot' = [rot EXCEPT ![op[p].x] = r]
      /\ UNCHANGED <<provider, stored, key, dest, creates, checked>>
  BY <1>0 DEF MakePlan, value_version
<1>3. pl \in PlanRow /\ pl.from = n - 1  BY <1>1 DEF PlanRow, StepStates
<1> HIDE DEF pl
<1>4. plans' \in Seq(PlanRow) /\ Len(plans') = m + 1  BY <1>1, <1>2, <1>3
<1>5. PlansOK'
  <2>1. ASSUME NEW i \in 1..Len(plans') PROVE plans'[i].from <= Len(stored')
    <3>1. CASE i = m + 1
      <4>1. plans'[i] = pl  BY <3>1, <1>1, <1>2
      <4>2. QED  BY <4>1, <1>1, <1>2, <1>3
    <3>2. CASE i # m + 1
      <4>1. i \in 1..m  BY <3>2, <1>1, <1>4
      <4>2. plans'[i] = plans[i] /\ plans[i].from <= n
        BY <4>1, <1>1, <1>2 DEF IInv, PlansOK
      <4>3. QED  BY <4>2, <1>2
    <3>3. QED  BY <3>1, <3>2
  <2>2. QED  BY <2>1, <1>1, <1>2, <1>4 DEF PlansOK
<1>6. ValueOK' /\ DestsOK' /\ KeysOK'  BY <1>2 DEF IInv, ValueOK, DestsOK, KeysOK
<1>7. RowOK(r, Len(stored'), Len(plans')) /\ Ahead(row, r)
  <2>1. /\ r \in Row /\ r.plan = m + 1 /\ r.old_version = row.old_version
        /\ r.new_version = row.new_version /\ r.validated = row.validated
        /\ r.state = row.state /\ r.attempted = row.attempted /\ r.old_key = row.old_key
        /\ r.mode = row.mode /\ r.disabled = row.disabled
    <3>1. row \in Row /\ m + 1 \in 0..MaxPlans  BY <1>0, <1>1, <1>2 DEF RowOK
    <3>2. QED  BY <3>1 DEF Row
  <2> HIDE DEF r
  <2>2. QED  BY <2>1, <1>0, <1>1, <1>2, <1>4 DEF RowOK, Ahead, NoPlan
<1>8. PICK o \in Op : /\ op' = [op EXCEPT ![p] = o]
                      /\ o.pc = "planned" /\ o.x = op[p].x /\ o.snap = op[p].snap
  BY GotoMeans DEF MakePlan
<1>9. rot'[op[p].x].plan # NoPlan
  <2>1. rot'[op[p].x] = r /\ row \in Row  BY <1>0, <1>2 DEF RowOK
  <2>2. QED  BY <2>1, <1>1 DEF Row, NoPlan
<1>10. ASSUME NEW nn, NEW mm, OpOK(op[p], rot', nn, mm) PROVE OpOK(o, rot', nn, mm)
  BY <1>0, <1>8, <1>9, <1>10 DEF OpOK
<1>11. Len(stored) <= Len(stored') /\ Len(plans) <= Len(plans')  BY <1>1, <1>2, <1>4
<1> HIDE DEF r
<1>12. QED  BY <1>0, <1>2, <1>5, <1>6, <1>7, <1>8, <1>10, <1>11, Notes

\* One destination is written, or written back, and its step recorded.
LEMMA DestinationSteps ==
  ASSUME IInv, NEW p \in Procs, NEW d \in Dests,
         ExecuteStep(p, d) \/ UndoStep(p, d) \/ UndoFails(p, d)
  PROVE  Preserved
<1> DEFINE n == Len(stored)  m == Len(plans)  i == op[p].snap.plan
<1> USE DEF Steps, RollbackSteps, At
<1>0. /\ op[p] \in Op /\ OpOK(op[p], rot, n, m) /\ op \in [Procs -> Op]
      /\ op[p].pc \in {"exec", "undo"}
  BY OpHere DEF IInv, OpsOK, ExecuteStep, UndoStep, UndoFails
<1>1. op[p].k \in Keys  BY <1>0 DEF OpOK
<1>2. UNCHANGED <<provider, rot, stored, key, creates, checked>>
  BY DEF ExecuteStep, UndoStep, UndoFails
<1>3. \E s \in StepStates : plans' = [plans EXCEPT ![i].step[d] = s]
  BY DEF ExecuteStep, UndoStep, UndoFails, MarkStep, StepStates
<1>4. plans' \in Seq(PlanRow) /\ Len(plans') = m /\ \A j \in 1..m : plans'[j].from = plans[j].from
  <2>1. PICK s \in StepStates : plans' = [plans EXCEPT ![i].step[d] = s]  BY <1>3
  <2>2. plans \in Seq(PlanRow)  BY DEF IInv, PlansOK
  <2>3. ASSUME NEW j \in 1..m
        PROVE  plans'[j] \in PlanRow /\ plans'[j].from = plans[j].from
    <3>1. plans[j] \in PlanRow  BY <2>2
    <3>2. CASE j = i
      <4> DEFINE steps == [plans[j].step EXCEPT ![d] = s]
      <4>1. steps \in [Dests -> StepStates]  BY <3>1 DEF PlanRow
      <4>2. plans'[j] = [plans[j] EXCEPT !.step = steps]  BY <2>1, <2>2, <3>2
      <4> HIDE DEF steps
      <4>3. QED  BY <3>1, <4>1, <4>2 DEF PlanRow
    <3>3. CASE j # i  BY <2>1, <2>2, <3>1, <3>3
    <3>4. QED  BY <3>2, <3>3
  <2>4. DOMAIN plans' = 1..m  BY <2>1, <2>2
  <2>5. plans' = [j \in 1..m |-> plans'[j]]  BY <2>1, <2>2, <2>4
  <2>6. plans' \in [1..m -> PlanRow] /\ m \in Nat  BY <2>2, <2>3, <2>5
  <2>7. plans' \in Seq(PlanRow) /\ Len(plans') = m  BY <2>4, <2>6
  <2>8. QED  BY <2>3, <2>7
<1>5. n \in Nat /\ m \in Nat  BY DEF IInv, ValueOK, PlansOK
<1>6. PlansOK'  BY <1>2, <1>4 DEF IInv, PlansOK
<1>7. dest' \in [Dests -> Keys]
  <2>1. dest \in [Dests -> Keys]  BY DEF IInv, DestsOK
  <2>2. UNCHANGED dest \/ dest' = [dest EXCEPT ![d] = op[p].k]
    BY DEF ExecuteStep, UndoStep, UndoFails
  <2>3. QED  BY <2>1, <2>2, <1>1
<1>8. ValueOK' /\ DestsOK' /\ KeysOK'  BY <1>2, <1>7 DEF IInv, ValueOK, DestsOK, KeysOK
<1>9. RowsOK' /\ Grows  BY <1>2, <1>4, <1>5, <1>6, <1>8, RowsStay
<1>10. PICK o \in Op : /\ op' = [op EXCEPT ![p] = o]
                       /\ o.pc = op[p].pc /\ o.x = op[p].x /\ o.snap = op[p].snap
                       /\ o.k = op[p].k
  <2> DEFINE left == op[p].todo \ {d}
             o1 == [op[p] EXCEPT !.todo = left]
             o2 == [op[p] EXCEPT !.todo = left, !.any = TRUE]
  <2>1. op' = [op EXCEPT ![p] = o1] \/ op' = [op EXCEPT ![p] = o2]
    BY <1>0 DEF ExecuteStep, UndoStep, UndoFails, Tick
  <2>2. left \in SUBSET Dests  BY <1>0 DEF Op
  <2> HIDE DEF left
  <2>3. /\ o1 \in Op /\ o1.pc = op[p].pc /\ o1.x = op[p].x /\ o1.snap = op[p].snap
        /\ o1.k = op[p].k
    BY <1>0, <2>2 DEF Op
  <2>4. /\ o2 \in Op /\ o2.pc = op[p].pc /\ o2.x = op[p].x /\ o2.snap = op[p].snap
        /\ o2.k = op[p].k
    BY <1>0, <2>2 DEF Op
  <2> HIDE DEF o1, o2
  <2>5. QED  BY <2>1, <2>3, <2>4
<1>11. ASSUME NEW R, NEW nn, NEW mm, OpOK(op[p], R, nn, mm) PROVE OpOK(o, R, nn, mm)
  BY <1>0, <1>10, <1>11 DEF OpOK
<1>12. QED  BY <1>6, <1>8, <1>9, <1>10, <1>11, Moves

\* A rotation is planned; a person removes a key at the provider.
LEMMA OutsideSteps ==
  ASSUME IInv, NEW x \in Rotations, Plan(x) \/ RemoveOutside(x)
  PROVE  Preserved
<1> DEFINE n == Len(stored)  m == Len(plans)
<1>0. n \in Nat /\ m \in Nat  BY DEF IInv, ValueOK, PlansOK
<1>1. UNCHANGED <<provider, stored, plans, dest, op, creates, checked>>
  BY DEF Plan, RemoveOutside, world
<1>2. ValueOK' /\ PlansOK' /\ DestsOK'  BY <1>1 DEF IInv, ValueOK, PlansOK, DestsOK
<1>3. KeysOK'
  <2>1. CASE Plan(x)  BY <2>1 DEF Plan, world, IInv, KeysOK
  <2>2. CASE RemoveOutside(x)
    <3>1. "removed" \in KeyStates \ {"absent"}  BY DEF KeyStates
    <3>2. QED  BY <2>2, <3>1, <1>1, KeySet DEF RemoveOutside
  <2>3. QED  BY <2>1, <2>2
<1>4. RowsOK' /\ Grows
  <2>1. CASE Plan(x)
    <3>1. PICK mode \in {"api_create", "manual_create"}, k \in {NoKey, stored[value_version]} :
            rot' = [rot EXCEPT ![x].state = "planned", ![x].mode = mode, ![x].old_key = k]
      BY <2>1 DEF Plan
    <3>2. k \in Keys \cup {NoKey}  BY DEF IInv, ValueOK, value_version
    <3> DEFINE r == [rot[x] EXCEPT !.state = "planned", !.mode = mode, !.old_key = k]
    <3>3. RowOK(rot[x], n, m) /\ rot \in [Rotations -> Row]  BY DEF IInv, RowsOK
    <3>4. rot' = [rot EXCEPT ![x] = r]  BY <3>1, <3>3
    <3>5. rot[x].state = "none"  BY <2>1 DEF Plan
    <3>6. RowOK(r, n, m) /\ Ahead(rot[x], r)
      BY <3>2, <3>3, <3>5 DEF RowOK, Row, States, Ahead, WithValue
    <3> HIDE DEF r
    <3>7. /\ Len(stored) <= Len(stored') /\ Len(plans) <= Len(plans')
          /\ RowOK(r, Len(stored'), Len(plans'))
      BY <3>6, <1>0, <1>1
    <3>8. QED  BY <3>4, <3>6, <3>7, <1>2, RowStep
  <2>2. CASE RemoveOutside(x)  BY <2>2, <1>0, <1>1, <1>2, RowsStay DEF RemoveOutside
  <2>3. QED  BY <2>1, <2>2
<1>5. OpsOK'
  <2>1. ASSUME NEW q \in Procs PROVE OpOK(op[q], rot', n, m)
    BY <1>0, <1>4, OpHere, OpStays DEF Grows
  <2>2. QED  BY <2>1, <1>1 DEF IInv, OpsOK
<1>6. QED  BY <1>2, <1>3, <1>4, <1>5 DEF IInv, Preserved

-----------------------------------------------------------------------------
(* Types.                                                                  *)

\* The invariant holds at the start.
LEMMA InvInit == Init => IInv
<1> SUFFICES ASSUME Init PROVE IInv  OBVIOUS
<1> USE KeysAssumption
<1>1. stored = <<1>> /\ Len(stored) = 1 /\ plans = <<>> /\ Len(plans) = 0  BY DEF Init
<1>2. NewRow \in Row /\ RowOK(NewRow, 1, 0)
  BY DEF NewRow, Row, RowOK, WithValue, States, NoKey, NoVersion, NoPlan
<1>3. RowsOK  BY <1>1, <1>2 DEF Init, RowsOK
<1>4. OpsOK  BY IdleOK DEF Init, OpsOK, OpOK
<1>5. 1 \in Keys  BY DEF Keys
<1>6. ValueOK  BY <1>1, <1>5 DEF Init, ValueOK
<1>7. PlansOK  BY <1>1 DEF Init, PlansOK
<1>8. DestsOK  BY <1>5 DEF Init, DestsOK
<1>9. KeysOK  BY DEF Init, KeysOK, KeyStates, Keys
<1>10. QED  BY <1>3, <1>4, <1>6, <1>7, <1>8, <1>9 DEF IInv

\* Every step preserves it.
LEMMA InvStep == IInv /\ [Next]_vars => IInv' /\ Grows
<1> SUFFICES ASSUME IInv, [Next]_vars PROVE Preserved
  BY DEF Preserved
<1>1. CASE UNCHANGED vars
  <2>1. IInv'  BY <1>1 DEF vars, IInv, RowsOK, OpsOK, ValueOK, PlansOK, DestsOK, KeysOK
  <2>2. Len(stored) <= Len(stored') /\ Len(plans) <= Len(plans') /\ UNCHANGED rot
    BY <1>1 DEF vars, IInv, ValueOK, PlansOK
  <2>3. Grows  BY <2>2 DEF Grows, Ahead
  <2>4. QED  BY <2>1, <2>3 DEF Preserved
<1>2. CASE \E x \in Rotations : Plan(x) \/ RemoveOutside(x)  BY <1>2, OutsideSteps
<1>3. CASE ReplaceByUser  BY <1>3, ValueSteps
<1>4. CASE \E p \in Procs : \E x \in Rotations :
             BeginApprove(p, x) \/ BeginAdvance(p, x) \/ BeginCompleteManual(p, x)
             \/ BeginCancel(p, x) \/ BeginRollback(p, x)
  BY <1>4, BeginningSteps
<1>5. ASSUME NEW p \in Procs, Approve(p) \/ CompleteManual(p) \/ Cancel(p) \/ Leave(p)
      PROVE  Preserved
  BY <1>5, SettlingSteps, DecidingSteps
<1>6. ASSUME NEW p \in Procs, Advance(p) PROVE Preserved
  BY <1>6, SettlingSteps, DecidingSteps, ProviderSteps, NotingSteps, AnswerSteps, CreateStep,
     ValueSteps, MakePlanStep, DestinationSteps DEF Advance
<1>7. ASSUME NEW p \in Procs, Rollback(p) PROVE Preserved
  BY <1>7, SettlingSteps, DecidingSteps, ProviderSteps, AnswerSteps, ValueSteps,
     DestinationSteps DEF Rollback
<1>8. QED  BY <1>1, <1>2, <1>3, <1>4, <1>5, <1>6, <1>7 DEF Next

\* Every row, version, plan, key, destination and operation keeps its type, and a row
\* names only versions the credential has, whatever two processes do to it.
THEOREM TypeCorrect == Spec => []TypeOK
BY InvInit, InvStep, InvTypes, PTL DEF Spec
-----------------------------------------------------------------------------
(* The order of states.                                                    *)

\* What ForwardOnly allows of one row.
Allowed(s, t) ==
  s # t => /\ s \notin Finished
           /\ Before(s, t) \/ t \in Aside \/ (s = "manual_required" /\ t = "completed")

\* The pairs of states the code moves between, in the order of rotation.rs.
LEMMA ForwardPairs ==
  /\ Before("none", "planned") /\ Before("planned", "approved")
  /\ Before("approved", "creating_replacement") /\ Before("approved", "awaiting_manual_key")
  /\ Before("creating_replacement", "creating_in_progress")
  /\ Before("approved", "replacement_stored") /\ Before("awaiting_manual_key", "replacement_stored")
  /\ Before("creating_in_progress", "replacement_stored")
  /\ Before("replacement_stored", "updating_destinations")
  /\ Before("updating_destinations", "destinations_verified")
  /\ Before("destinations_verified", "grace_period") /\ Before("grace_period", "old_disabled")
  /\ Before("grace_period", "completed") /\ Before("old_disabled", "completed")
<1>1. /\ DOMAIN Forward = 1..12
      /\ Forward[1] = "none" /\ Forward[2] = "planned" /\ Forward[3] = "approved"
      /\ Forward[4] = "creating_replacement" /\ Forward[5] = "creating_in_progress"
      /\ Forward[6] = "awaiting_manual_key" /\ Forward[7] = "replacement_stored"
      /\ Forward[8] = "updating_destinations" /\ Forward[9] = "destinations_verified"
      /\ Forward[10] = "grace_period" /\ Forward[11] = "old_disabled"
      /\ Forward[12] = "completed"
  BY DEF Forward
<1>2. ASSUME NEW i \in 1..12, NEW j \in 1..12, i < j PROVE Before(Forward[i], Forward[j])
  BY <1>1, <1>2 DEF Before
<1> HIDE DEF Forward
<1>3. /\ Before(Forward[1], Forward[2]) /\ Before(Forward[2], Forward[3])
      /\ Before(Forward[3], Forward[4]) /\ Before(Forward[3], Forward[6])
      /\ Before(Forward[4], Forward[5]) /\ Before(Forward[3], Forward[7])
      /\ Before(Forward[6], Forward[7]) /\ Before(Forward[5], Forward[7])
      /\ Before(Forward[7], Forward[8]) /\ Before(Forward[8], Forward[9])
      /\ Before(Forward[9], Forward[10]) /\ Before(Forward[10], Forward[11])
      /\ Before(Forward[10], Forward[12]) /\ Before(Forward[11], Forward[12])
  BY <1>2
<1>4. QED  BY <1>1, <1>3

\* A compare-and-swap between allowed states.
LEMMA SwapAllowed ==
  ASSUME IInv, NEW x, NEW from, NEW to, SetState(x, from, to), Allowed(from, to)
  PROVE  \A y \in Rotations : Allowed(rot[y].state, rot'[y].state)
<1>1. rot \in [Rotations -> Row] /\ rot[x].state = from /\ rot' = [rot EXCEPT ![x].state = to]
  BY DEF IInv, RowsOK, SetState
<1>2. ASSUME NEW y \in Rotations PROVE Allowed(rot[y].state, rot'[y].state)
  <2>1. CASE y = x
    <3>1. rot'[y].state = to  BY <2>1, <1>1 DEF Row
    <3>2. QED  BY <3>1, <2>1, <1>1
  <2>2. CASE y # x  BY <2>2, <1>1 DEF Allowed
  <2>3. QED  BY <2>1, <2>2
<1>3. QED  BY <1>2

\* A write to other fields of a row leaves every state as it is.
LEMMA OtherFields ==
  ASSUME IInv, NEW x, NEW v, NEW w,
         \/ UNCHANGED rot
         \/ rot' = [rot EXCEPT ![x].new_key = v]
         \/ rot' = [rot EXCEPT ![x].old_version = v, ![x].new_version = w]
         \/ rot' = [rot EXCEPT ![x].plan = v]
         \/ rot' = [rot EXCEPT ![x].validated = v]
         \/ rot' = [rot EXCEPT ![x].disabled = v]
         \/ rot' = [rot EXCEPT ![x].attempted = v]
         \/ rot' = [rot EXCEPT ![x].revoked = v]
  PROVE  \A y \in Rotations : Allowed(rot[y].state, rot'[y].state)
<1>1. rot \in [Rotations -> Row]  BY DEF IInv, RowsOK
<1>2. ASSUME NEW y \in Rotations PROVE rot'[y].state = rot[y].state
  BY <1>1 DEF Row
<1>3. QED  BY <1>2 DEF Allowed

\* Every step of an operation moves its row along, or aside, or not at all.
LEMMA OperationAllowed ==
  ASSUME IInv, NEW p \in Procs,
         Approve(p) \/ CompleteManual(p) \/ Cancel(p) \/ Advance(p) \/ Rollback(p) \/ Leave(p)
  PROVE  \A y \in Rotations : Allowed(rot[y].state, rot'[y].state)
<1> DEFINE x == op[p].x  s == op[p].snap.state
           Holds == \A y \in Rotations : Allowed(rot[y].state, rot'[y].state)
<1>0. OpOK(op[p], rot, Len(stored), Len(plans))  BY OpHere
<1>1. ASSUME NEW from, NEW to, SetState(x, from, to),
             from \notin Finished, Before(from, to) \/ to \in Aside
      PROVE  Holds
  BY <1>1, SwapAllowed DEF Allowed
<1> HIDE DEF x, s
<1> USE DEF Finished, Aside
<1>2. CASE Approve(p)
  BY <1>2, <1>1, ForwardPairs DEF Approve, x
<1>3. CASE CompleteManual(p)
  <2>1. SetState(x, s, "completed") /\ s \in {"manual_required", "grace_period", "old_disabled"}
    BY <1>3, <1>0 DEF CompleteManual, At, OpOK, x, s
  <2>2. CASE s = "manual_required"  BY <2>1, <2>2, SwapAllowed DEF Allowed
  <2>3. CASE s \in {"grace_period", "old_disabled"}  BY <2>1, <2>3, <1>1, ForwardPairs
  <2>4. QED  BY <2>1, <2>2, <2>3
<1>4. CASE Cancel(p)
  <2>1. SetState(x, s, "failed") /\ s \notin Finished
    BY <1>4, <1>0 DEF Cancel, At, OpOK, x, s
  <2>2. QED  BY <2>1, <1>1
<1>5. CASE Stored(p)
  <2>1. SetState(x, s, "replacement_stored")
        /\ s \in {"approved", "awaiting_manual_key", "creating_in_progress"}
    BY <1>5, <1>0 DEF Stored, At, OpOK, x, s
  <2>2. QED  BY <2>1, <1>1, ForwardPairs
<1>6. CASE EnterRollback(p)
  <2>1. SetState(x, s, "rolling_back") /\ s \notin Finished
    BY <1>6, <1>0 DEF EnterRollback, At, OpOK, x, s
  <2>2. QED  BY <2>1, <1>1
<1>7. CASE Settle(p)
  <2>1. \E to \in Aside : SetState(x, "rolling_back", to)  BY <1>7 DEF Settle, x
  <2>2. QED  BY <2>1, <1>1
<1>8. CASE ClaimApi(p) \/ AwaitKey(p) \/ ClaimCreation(p) \/ AlreadyStored(p)
  BY <1>8, <1>1, ForwardPairs DEF ClaimApi, AwaitKey, ClaimCreation, AlreadyStored, x
<1>9. CASE Planned(p) \/ DestinationsVerified(p) \/ EnterGrace(p) \/ OldDisabled(p)
  BY <1>9, <1>1, ForwardPairs DEF Planned, DestinationsVerified, EnterGrace, OldDisabled, x
<1>10. CASE RevokeByHand(p) \/ Complete(p)
  BY <1>10, <1>1, ForwardPairs DEF RevokeByHand, Complete, x
<1>11. CASE NotFound(p)
  <2>1. SetState(x, "old_disabled", "manual_required") \/ UNCHANGED rot
    BY <1>11 DEF NotFound, x
  <2>2. CASE UNCHANGED rot  BY <2>2, OtherFields
  <2>3. QED  BY <2>1, <2>2, <1>1
<1>12. CASE NoteKey(p) \/ SetVersions(p) \/ MakePlan(p)
  <2>1. CASE NoteKey(p)
    <3>1. rot' = [rot EXCEPT ![op[p].x].new_key = op[p].k]  BY <2>1 DEF NoteKey
    <3>2. QED  BY <3>1, OtherFields
  <2>2. CASE SetVersions(p)
    <3>1. rot' = [rot EXCEPT ![op[p].x].old_version = op[p].ver,
                             ![op[p].x].new_version = value_version]
      BY <2>2 DEF SetVersions
    <3>2. QED  BY <3>1, OtherFields
  <2>3. CASE MakePlan(p)
    <3>1. rot' = [rot EXCEPT ![op[p].x].plan = Len(plans) + 1]  BY <2>3 DEF MakePlan
    <3>2. QED  BY <3>1, OtherFields
  <2>4. QED  BY <1>12, <2>1, <2>2, <2>3
<1>13. CASE MarkValidated(p) \/ NoteDisabled(p) \/ MarkAttempt(p) \/ NoteRevoked(p)
  <2>1. \/ rot' = [rot EXCEPT ![op[p].x].validated = TRUE]
        \/ rot' = [rot EXCEPT ![op[p].x].disabled = TRUE]
        \/ rot' = [rot EXCEPT ![op[p].x].attempted = TRUE]
        \/ rot' = [rot EXCEPT ![op[p].x].revoked = TRUE]
    BY <1>13 DEF MarkValidated, NoteDisabled, MarkAttempt, NoteRevoked
  <2>2. QED  BY <2>1, OtherFields
<1>14. CASE UNCHANGED rot  BY <1>14, OtherFields
<1>15. ASSUME Advance(p) PROVE Holds
  <2>1. CASE Load(p) \/ TakeValue(p) \/ Create(p) \/ CheckStored(p) \/ StoreValue(p)
             \/ BeginExecute(p) \/ (\E d \in Dests : ExecuteStep(p, d)) \/ Executed(p)
             \/ OwnVersion(p) \/ Validate(p) \/ Disable(p) \/ AlreadyRevoked(p) \/ Revoke(p)
    BY <2>1, <1>14 DEF Load, TakeValue, Create, CheckStored, StoreValue, BeginExecute,
       ExecuteStep, Executed, OwnVersion, Validate, Disable, AlreadyRevoked, Revoke
  <2>2. QED
    BY <2>1, <1>15, <1>5, <1>8, <1>9, <1>10, <1>11, <1>12, <1>13 DEF Advance
<1>16. ASSUME Rollback(p) PROVE Holds
  <2>1. CASE Reenable(p) \/ Restore(p) \/ BeginResync(p) \/ Undone(p) \/ Drop(p)
             \/ \E d \in Dests : UndoStep(p, d) \/ UndoAborts(p, d) \/ UndoFails(p, d)
    BY <2>1, <1>14 DEF Reenable, Restore, BeginResync, Undone, Drop, UndoStep, UndoAborts,
       UndoFails
  <2>2. QED  BY <2>1, <1>16, <1>6, <1>7 DEF Rollback
<1>17. CASE Leave(p)  BY <1>17, <1>14 DEF Leave
<1>18. QED  BY <1>2, <1>3, <1>4, <1>15, <1>16, <1>17

\* So does every other step.
LEMMA StepAllowed ==
  IInv /\ [Next]_vars => \A x \in Rotations : Allowed(rot[x].state, rot'[x].state)
<1> SUFFICES ASSUME IInv, [Next]_vars
             PROVE  \A x \in Rotations : Allowed(rot[x].state, rot'[x].state)
  OBVIOUS
<1>1. CASE UNCHANGED rot  BY <1>1, OtherFields
<1>2. ASSUME NEW x \in Rotations, Plan(x)
      PROVE  \A y \in Rotations : Allowed(rot[y].state, rot'[y].state)
  <2>1. rot \in [Rotations -> Row] /\ rot[x].state = "none"
        /\ \E m, k : rot' = [rot EXCEPT ![x].state = "planned", ![x].mode = m, ![x].old_key = k]
    BY <1>2 DEF Plan, IInv, RowsOK
  <2>2. ASSUME NEW y \in Rotations PROVE Allowed(rot[y].state, rot'[y].state)
    <3>1. CASE y = x
      <4>1. rot'[y].state = "planned"  BY <2>1, <3>1 DEF Row
      <4>2. QED  BY <2>1, <3>1, <4>1, ForwardPairs DEF Allowed, Finished
    <3>2. CASE y # x  BY <2>1, <3>2 DEF Allowed
    <3>3. QED  BY <3>1, <3>2
  <2>3. QED  BY <2>2
<1>3. CASE Next
  <2>1. CASE ReplaceByUser \/ \E x \in Rotations : RemoveOutside(x)
    BY <2>1, <1>1 DEF ReplaceByUser, RemoveOutside
  <2>2. ASSUME NEW p \in Procs, NEW x \in Rotations,
               BeginApprove(p, x) \/ BeginAdvance(p, x) \/ BeginCompleteManual(p, x)
               \/ BeginCancel(p, x) \/ BeginRollback(p, x)
        PROVE  UNCHANGED rot
    BY <2>2 DEF BeginApprove, BeginAdvance, BeginCompleteManual, BeginCancel, BeginRollback
  <2>3. QED  BY <1>1, <1>2, <1>3, <2>1, <2>2, OperationAllowed DEF Next
<1>4. QED  BY <1>1, <1>3 DEF vars

\* No process moves a rotation back, or moves one that is finished, whatever stale copy of
\* its row it acts on: a rotation goes forward in the order of rotation.rs:18, or aside, and
\* only manual completion leads back from aside.
THEOREM OrderKept == Spec => ForwardOnly
<1>1. IInv /\ [Next]_vars =>
        [\A x \in Rotations :
           LET s == rot[x].state  t == rot'[x].state
           IN s # t => /\ s \notin Finished
                       /\ \/ Before(s, t)
                          \/ t \in Aside
                          \/ s = "manual_required" /\ t = "completed"]_vars
  BY StepAllowed DEF Allowed
<1>2. QED  BY <1>1, InvInit, InvStep, PTL DEF Spec, ForwardOnly

-----------------------------------------------------------------------------
(* The abstract rotation.                                                  *)

\* No step changes the credential's provider.
LEMMA ProviderStays ==
  ASSUME [Next]_vars
  PROVE  UNCHANGED provider
<1> USE DEF world
<1>1. CASE UNCHANGED vars  BY <1>1 DEF vars
<1>2. CASE ReplaceByUser \/ \E x \in Rotations : Plan(x) \/ RemoveOutside(x)
  BY <1>2 DEF ReplaceByUser, Plan, RemoveOutside
<1>3. ASSUME NEW p \in Procs, NEW x \in Rotations,
             BeginApprove(p, x) \/ BeginAdvance(p, x) \/ BeginCompleteManual(p, x)
             \/ BeginCancel(p, x) \/ BeginRollback(p, x)
      PROVE  UNCHANGED provider
  BY <1>3 DEF BeginApprove, BeginAdvance, BeginCompleteManual, BeginCancel, BeginRollback
<1>4. ASSUME NEW p \in Procs,
             Approve(p) \/ CompleteManual(p) \/ Cancel(p) \/ Leave(p) \/ Rollback(p)
      PROVE  UNCHANGED provider
  BY <1>4 DEF Approve, CompleteManual, Cancel, Leave, Rollback, EnterRollback, Reenable,
     Restore, BeginResync, Undone, UndoStep, UndoAborts, UndoFails, Drop, Settle
<1>5. ASSUME NEW p \in Procs, Advance(p) PROVE UNCHANGED provider
  <2>1. CASE Load(p) \/ ClaimApi(p) \/ AwaitKey(p) \/ TakeValue(p) \/ ClaimCreation(p)
             \/ AlreadyStored(p) \/ Create(p) \/ NoteKey(p) \/ CheckStored(p) \/ StoreValue(p)
             \/ SetVersions(p) \/ Stored(p)
    BY <2>1 DEF Load, ClaimApi, AwaitKey, TakeValue, ClaimCreation, AlreadyStored, Create,
       NoteKey, CheckStored, StoreValue, SetVersions, Stored
  <2>2. CASE MakePlan(p) \/ Planned(p) \/ BeginExecute(p) \/ (\E d \in Dests : ExecuteStep(p, d))
             \/ Executed(p) \/ DestinationsVerified(p) \/ OwnVersion(p) \/ Validate(p)
             \/ MarkValidated(p) \/ EnterGrace(p)
    BY <2>2 DEF MakePlan, Planned, BeginExecute, ExecuteStep, Executed, DestinationsVerified,
       OwnVersion, Validate, MarkValidated, EnterGrace
  <2>3. CASE Disable(p) \/ NoteDisabled(p) \/ OldDisabled(p) \/ AlreadyRevoked(p)
             \/ RevokeByHand(p) \/ MarkAttempt(p) \/ Revoke(p) \/ NotFound(p)
             \/ NoteRevoked(p) \/ Complete(p)
    BY <2>3 DEF Disable, NoteDisabled, OldDisabled, AlreadyRevoked, RevokeByHand, MarkAttempt,
       Revoke, NotFound, NoteRevoked, Complete
  <2>4. QED  BY <1>5, <2>1, <2>2, <2>3 DEF Advance
<1>6. QED  BY <1>1, <1>2, <1>3, <1>4, <1>5 DEF Next

\* What stands on record, fact by fact.
LEMMA OnRecordMeans ==
  ASSUME NEW r \in Row
  PROVE  /\ "stored" \in OnRecord(r) <=> r.new_version # NoVersion
         /\ "planned" \in OnRecord(r) <=> r.plan # NoPlan
         /\ "validated" \in OnRecord(r) <=> r.validated
         /\ "disabled" \in OnRecord(r) <=> r.disabled
         /\ "attempted" \in OnRecord(r) <=> r.attempted
         /\ "revoked" \in OnRecord(r) <=> r.revoked
BY DEF OnRecord

\* The row of x becomes r, of the same terms ...
Rewritten(x, r) ==
  rot' = [rot EXCEPT ![x] = r] /\ r.mode = rot[x].mode /\ r.old_key = rot[x].old_key

\* ... and so do its state and its record.
Mapped(x, r) ==
  /\ OrderState' = [OrderState EXCEPT ![x] = r.state]
  /\ UNCHANGED OrderTerms
  /\ OrderRecord' = [OrderRecord EXCEPT ![x] = OnRecord(r)]

LEMMA RowMapped ==
  ASSUME IInv, UNCHANGED provider, NEW x \in Rotations, NEW r \in Row, Rewritten(x, r)
  PROVE  Mapped(x, r)
<1> USE DEF Rewritten, Mapped
<1>1. rot \in [Rotations -> Row]  BY DEF IInv, RowsOK
<1>2. \A y \in Rotations : rot'[y] = IF y = x THEN r ELSE rot[y]  BY <1>1
<1>3. OrderState' = [OrderState EXCEPT ![x] = r.state]
  <2>1. OrderState = [y \in Rotations |-> rot[y].state]
        /\ OrderState' = [y \in Rotations |-> rot'[y].state]
    BY DEF OrderState
  <2>2. \A y \in Rotations : rot'[y].state = IF y = x THEN r.state ELSE rot[y].state  BY <1>2
  <2>3. QED  BY <2>1, <2>2
<1>4. CanDisable' <=> CanDisable  BY DEF CanDisable
<1>5. UNCHANGED OrderTerms
  <2>1. \A y \in Rotations : rot'[y].mode = rot[y].mode /\ rot'[y].old_key = rot[y].old_key
    BY <1>2
  <2>2. \A y \in Rotations : (CanDisable' /\ rot'[y].old_key # NoKey)
                               = (CanDisable /\ rot[y].old_key # NoKey)
    BY <2>1, <1>4
  <2>3. QED  BY <2>1, <2>2 DEF OrderTerms
<1>6. OrderRecord' = [OrderRecord EXCEPT ![x] = OnRecord(r)]
  <2>1. OrderRecord = [y \in Rotations |-> OnRecord(rot[y])]
        /\ OrderRecord' = [y \in Rotations |-> OnRecord(rot'[y])]
    BY DEF OrderRecord
  <2>2. \A y \in Rotations : OnRecord(rot'[y]) = IF y = x THEN OnRecord(r) ELSE OnRecord(rot[y])
    BY <1>2
  <2>3. QED  BY <2>1, <2>2
<1>7. QED  BY <1>3, <1>5, <1>6

\* A row as the abstract rotation sees it.
LEMMA RowSeen ==
  ASSUME NEW x \in Rotations
  PROVE  /\ OrderState[x] = rot[x].state
         /\ OrderTerms[x].mode = rot[x].mode
         /\ OrderTerms[x].disables = (CanDisable /\ rot[x].old_key # NoKey)
         /\ OrderRecord[x] = OnRecord(rot[x])
BY DEF OrderState, OrderTerms, OrderRecord

\* What every step comes to.
Ordered == [Order!Next]_Order!orderVars

\* The abstract rotation does not move.
LEMMA RowsKept ==
  ASSUME UNCHANGED <<provider, rot>>
  PROVE  Ordered
BY DEF Ordered, Order!orderVars, OrderState, OrderTerms, OrderRecord, CanDisable

\* set_state is a move, from any set of states that holds the one it swaps.
LEMMA SwapMoves ==
  ASSUME IInv, UNCHANGED provider, NEW x \in Rotations, NEW from \in States, NEW to \in States,
         SetState(x, from, to), NEW S \in SUBSET States, from \in S
  PROVE  Order!Move(x, S, to)
<1> DEFINE r == [rot[x] EXCEPT !.state = to]
<1>1. rot \in [Rotations -> Row] /\ rot[x].state = from /\ rot' = [rot EXCEPT ![x].state = to]
  BY DEF IInv, RowsOK, SetState
<1>2. rot' = [rot EXCEPT ![x] = r]  BY <1>1
<1>3. r \in Row /\ r.state = to /\ r.mode = rot[x].mode /\ r.old_key = rot[x].old_key
      /\ OnRecord(r) = OnRecord(rot[x])
  BY <1>1 DEF Row, OnRecord
<1> HIDE DEF r
<1>4. /\ OrderState' = [OrderState EXCEPT ![x] = to] /\ UNCHANGED OrderTerms
      /\ OrderRecord' = [OrderRecord EXCEPT ![x] = OnRecord(rot[x])]
  <2>1. Rewritten(x, r)  BY <1>2, <1>3 DEF Rewritten
  <2>2. Mapped(x, r)  BY <2>1, <1>3, RowMapped
  <2>3. QED  BY <2>2, <1>3 DEF Mapped
<1>5. UNCHANGED OrderRecord  BY <1>4 DEF OrderRecord
<1>6. OrderState[x] \in S  BY <1>1, RowSeen
<1>7. QED  BY <1>4, <1>5, <1>6 DEF Order!Move

\* A move that changes no record is a step of the abstract rotation, or none.
LEMMA Moved ==
  ASSUME NEW x \in Rotations, Order!Moves(x), UNCHANGED <<OrderTerms, OrderRecord>>
  PROVE  Ordered
<1>1. CASE UNCHANGED OrderState  BY <1>1 DEF Ordered, Order!orderVars
<1>2. CASE OrderState' # OrderState  BY <1>2 DEF Ordered, Order!Next
<1>3. QED  BY <1>1, <1>2

\* A fact is put on record, if it is not there yet.
LEMMA Noted ==
  ASSUME IInv, UNCHANGED provider, NEW x \in Rotations, rot[x].state \notin {"none", "planned"},
         NEW r \in Row, rot' = [rot EXCEPT ![x] = r],
         r.state = rot[x].state, r.mode = rot[x].mode, r.old_key = rot[x].old_key,
         NEW f \in Order!Facts, OnRecord(r) = OnRecord(rot[x]) \cup {f},
         Order!Presupposed(f) \subseteq OnRecord(rot[x])
  PROVE  Ordered
<1>1. /\ OrderState' = [OrderState EXCEPT ![x] = rot[x].state] /\ UNCHANGED OrderTerms
      /\ OrderRecord' = [OrderRecord EXCEPT ![x] = OnRecord(rot[x]) \cup {f}]
  <2>1. Rewritten(x, r)  BY DEF Rewritten
  <2>2. Mapped(x, r)  BY <2>1, RowMapped
  <2>3. QED  BY <2>2 DEF Mapped
<1>2. UNCHANGED OrderState  BY <1>1 DEF OrderState
<1>3. OrderRecord[x] = OnRecord(rot[x]) /\ OrderState[x] = rot[x].state  BY RowSeen
<1>4. CASE f \in OnRecord(rot[x])
  <2>1. UNCHANGED OrderRecord  BY <1>1, <1>4 DEF OrderRecord
  <2>2. QED  BY <1>1, <1>2, <2>1 DEF Ordered, Order!orderVars
<1>5. CASE f \notin OnRecord(rot[x])
  <2>1. OrderRecord' = [OrderRecord EXCEPT ![x] = @ \cup {f}]  BY <1>1, <1>3
  <2>2. OrderRecord' # OrderRecord  BY <1>1, <1>3, <1>5 DEF OrderRecord
  <2>3. Order!Note(x)
    <3>1. OrderState[x] \notin {"none", "planned"} /\ UNCHANGED <<OrderState, OrderTerms>>
      BY <1>1, <1>2, <1>3
    <3>2. f \in Order!Facts \ OrderRecord[x] /\ Order!Presupposed(f) \subseteq OrderRecord[x]
      BY <1>3, <1>5
    <3>3. QED  BY <2>1, <2>2, <3>1, <3>2 DEF Order!Note
  <2>4. QED  BY <2>3 DEF Ordered, Order!Next
<1>6. QED  BY <1>4, <1>5

\* A first attempt met a 404: the rotation is left to the user.
GivesUp(p) == At(p, "revoke") /\ SetState(op[p].x, "old_disabled", "manual_required")

\* Every swap of a state is one of the abstract moves.
LEMMA MovesOrdered ==
  ASSUME IInv, UNCHANGED provider, NEW p \in Procs,
         \/ Approve(p) \/ AwaitKey(p) \/ RevokeByHand(p) \/ Complete(p) \/ CompleteManual(p)
         \/ Cancel(p) \/ Settle(p) \/ ClaimApi(p) \/ ClaimCreation(p) \/ AlreadyStored(p)
         \/ Stored(p) \/ Planned(p) \/ DestinationsVerified(p) \/ EnterGrace(p)
         \/ OldDisabled(p) \/ EnterRollback(p)
         \/ GivesUp(p)
  PROVE  Ordered
<1> DEFINE x == op[p].x  s == op[p].snap
<1>0. OpOK(op[p], rot, Len(stored), Len(plans))  BY OpHere
<1>1. x \in Rotations /\ op[p].pc # "idle" /\ RowOK(rot[x], Len(stored), Len(plans))
      /\ rot[x] \in Row
  <2>1. op[p].pc # "idle"
    BY DEF Approve, AwaitKey, RevokeByHand, Complete, CompleteManual, Cancel, Settle,
       ClaimApi, ClaimCreation, AlreadyStored, Stored, Planned, DestinationsVerified,
       EnterGrace, OldDisabled, EnterRollback, GivesUp, At, Seen
  <2>2. QED  BY <2>1, OpHere DEF RowOK
<1>2. op[p].pc \notin {"idle", "approve", "load"} =>
        RowOK(s, Len(stored), Len(plans)) /\ Ahead(s, rot[x]) /\ s.state # "none"
  BY <1>0 DEF OpOK, SnapOK
<1>3. /\ OrderState[x] = rot[x].state /\ OrderTerms[x].mode = rot[x].mode
      /\ OrderTerms[x].disables = (CanDisable /\ rot[x].old_key # NoKey)
      /\ Order!Has(x, "stored") <=> rot[x].new_version # NoVersion
      /\ Order!Has(x, "planned") <=> rot[x].plan # NoPlan
      /\ Order!Has(x, "validated") <=> rot[x].validated
      /\ Order!Has(x, "disabled") <=> rot[x].disabled
  BY <1>1, RowSeen, OnRecordMeans DEF Order!Has
<1>2a. s \in Row  BY OpHere DEF Op
<1> HIDE DEF x, s
<1> USE DEF States
<1>4. ASSUME NEW from \in States, NEW to \in States, SetState(x, from, to),
             NEW S \in SUBSET States, from \in S
      PROVE  /\ Order!Move(x, S, to) /\ rot[x].state = from
             /\ UNCHANGED <<OrderTerms, OrderRecord>>
  <2>1. Order!Move(x, S, to)  BY <1>1, <1>4, SwapMoves
  <2>2. QED  BY <2>1, <1>4 DEF Order!Move, SetState
<1>5. ASSUME Order!Moves(x), UNCHANGED <<OrderTerms, OrderRecord>> PROVE Ordered
  BY <1>1, <1>5, Moved
<1>6. CASE Approve(p)
  <2>1. SetState(x, "planned", "approved")  BY <1>6 DEF Approve, x
  <2>2. Order!Approve(x) /\ UNCHANGED <<OrderTerms, OrderRecord>>  BY <2>1, <1>4 DEF Order!Approve
  <2>3. QED  BY <2>2, <1>5 DEF Order!Moves
<1>7. CASE ClaimApi(p)
  <2>1. SetState(x, "approved", "creating_replacement")  BY <1>7 DEF ClaimApi, x
  <2>2. rot[x].mode = "api_create"  BY <1>2, <1>7 DEF ClaimApi, Seen, At, Ahead, s
  <2>3. Order!Claim(x) /\ UNCHANGED <<OrderTerms, OrderRecord>>
    BY <2>1, <2>2, <1>3, <1>4 DEF Order!Claim
  <2>4. QED  BY <2>3, <1>5 DEF Order!Moves
<1>8. CASE ClaimCreation(p)
  <2>1. SetState(x, "creating_replacement", "creating_in_progress")
    BY <1>8 DEF ClaimCreation, x
  <2>2. Order!Create(x) /\ UNCHANGED <<OrderTerms, OrderRecord>>  BY <2>1, <1>4 DEF Order!Create
  <2>3. QED  BY <2>2, <1>5 DEF Order!Moves
<1>9. CASE AwaitKey(p)
  <2>1. SetState(x, "approved", "awaiting_manual_key")  BY <1>9 DEF AwaitKey, x
  <2>2. rot[x].mode = "manual_create"  BY <1>2, <1>9 DEF AwaitKey, Seen, At, Ahead, s
  <2>3. Order!Await(x) /\ UNCHANGED <<OrderTerms, OrderRecord>>
    BY <2>1, <2>2, <1>3, <1>4 DEF Order!Await
  <2>4. QED  BY <2>3, <1>5 DEF Order!Moves
<1>10. CASE AlreadyStored(p) \/ Stored(p)
  <2> DEFINE S == {"approved", "awaiting_manual_key", "creating_in_progress"}
  <2>1. PICK from \in S : SetState(x, from, "replacement_stored")
                          /\ (from = "approved" => rot[x].mode = "manual_create")
    <3>1. CASE AlreadyStored(p)  BY <3>1 DEF AlreadyStored, x
    <3>2. CASE Stored(p)
      <4>1. SetState(x, s.state, "replacement_stored") /\ op[p].pc = "stored"
        BY <3>2 DEF Stored, At, x, s
      <4>2. s.state \in S /\ (s.state = "approved" => s.mode = "manual_create")
        BY <4>1, <1>0 DEF OpOK, s
      <4>3. rot[x].mode = s.mode  BY <4>1, <1>2 DEF Ahead
      <4>4. QED  BY <4>1, <4>2, <4>3
    <3>3. QED  BY <1>10, <3>1, <3>2
  <2>2. rot[x].new_version # NoVersion
    <3>1. CASE AlreadyStored(p)
      BY <3>1, <1>2 DEF AlreadyStored, Seen, At, Ahead, s
    <3>2. CASE Stored(p)  BY <3>2, <1>0 DEF Stored, At, OpOK, x
    <3>3. QED  BY <1>10, <3>1, <3>2
  <2>s. S \in SUBSET States  OBVIOUS
  <2> HIDE DEF S
  <2>3. Order!Move(x, S, "replacement_stored") /\ rot[x].state = from
        /\ UNCHANGED <<OrderTerms, OrderRecord>>
    BY <2>1, <2>s, <1>4
  <2>4. Order!Store(x)  BY <2>1, <2>2, <2>3, <1>3 DEF Order!Store, S
  <2>5. QED  BY <2>3, <2>4, <1>5 DEF Order!Moves
<1>11. CASE Planned(p)
  <2>1. SetState(x, "replacement_stored", "updating_destinations") /\ rot[x].plan # NoPlan
    BY <1>11, <1>0 DEF Planned, At, OpOK, x
  <2>2. Order!Distribute(x) /\ UNCHANGED <<OrderTerms, OrderRecord>>
    BY <2>1, <1>3, <1>4 DEF Order!Distribute
  <2>3. QED  BY <2>2, <1>5 DEF Order!Moves
<1>12. CASE DestinationsVerified(p)
  <2>1. SetState(x, "updating_destinations", "destinations_verified")
    BY <1>12 DEF DestinationsVerified, x
  <2>2. Order!Verify(x) /\ UNCHANGED <<OrderTerms, OrderRecord>>  BY <2>1, <1>4 DEF Order!Verify
  <2>3. QED  BY <2>2, <1>5 DEF Order!Moves
<1>13. CASE EnterGrace(p)
  <2>1. SetState(x, "destinations_verified", "grace_period") /\ rot[x].validated
    BY <1>13, <1>0 DEF EnterGrace, At, OpOK, x
  <2>2. Order!EnterGrace(x) /\ UNCHANGED <<OrderTerms, OrderRecord>>
    BY <2>1, <1>3, <1>4 DEF Order!EnterGrace
  <2>3. QED  BY <2>2, <1>5 DEF Order!Moves
<1>14. CASE OldDisabled(p)
  <2>1. SetState(x, "grace_period", "old_disabled")  BY <1>14 DEF OldDisabled, x
  <2>2. CanDisable /\ rot[x].old_key # NoKey => rot[x].disabled
    <3>1. CASE op[p].pc = "disabling"  BY <3>1, <1>0 DEF OpOK, x
    <3>2. CASE op[p].pc # "disabling"
      BY <3>2, <1>2, <1>14 DEF OldDisabled, Seen, At, Ahead, s
    <3>3. QED  BY <3>1, <3>2
  <2>3. OrderTerms[x].disables => Order!Has(x, "disabled")  BY <2>2, <1>3
  <2>4. Order!Retire(x) /\ UNCHANGED <<OrderTerms, OrderRecord>>
    BY <2>1, <2>3, <1>4 DEF Order!Retire
  <2>5. QED  BY <2>4, <1>5 DEF Order!Moves
<1>15. CASE Complete(p) \/ CompleteManual(p)
  <2> DEFINE S == {"grace_period", "old_disabled", "manual_required"}
  <2>1. op[p].pc \in {"complete", "complete_manual"} /\ \E from \in S : SetState(x, from, "completed")
    <3>1. CASE Complete(p)  BY <3>1 DEF Complete, At, x
    <3>2. CASE CompleteManual(p)
      BY <3>2, <1>0 DEF CompleteManual, At, OpOK, x
    <3>3. QED  BY <1>15, <3>1, <3>2
  <2>2. rot[x].validated  BY <2>1, <1>0, <1>2 DEF OpOK, Ahead, s
  <2>s. S \in SUBSET States  OBVIOUS
  <2> HIDE DEF S
  <2>3. Order!Move(x, S, "completed") /\ UNCHANGED <<OrderTerms, OrderRecord>>
    BY <2>1, <2>s, <1>4
  <2>4. Order!Complete(x)  BY <2>2, <2>3, <1>3 DEF Order!Complete, S
  <2>5. QED  BY <2>3, <2>4, <1>5 DEF Order!Moves
<1>16. CASE RevokeByHand(p) \/ GivesUp(p)
  <2>1. SetState(x, "old_disabled", "manual_required")
    BY <1>16 DEF RevokeByHand, GivesUp, x
  <2>2. Order!LeaveToUser(x) /\ UNCHANGED <<OrderTerms, OrderRecord>>
    BY <2>1, <1>4 DEF Order!LeaveToUser
  <2>3. QED  BY <2>2, <1>5 DEF Order!Moves
<1>17. CASE Cancel(p)
  <2>1. SetState(x, s.state, "failed") /\ op[p].pc = "cancel"  BY <1>17 DEF Cancel, At, x, s
  <2>2. CASE s.state = "failed"
    <3>1. Order!Move(x, {"failed"}, "failed") /\ rot[x].state = "failed"  BY <2>1, <2>2, <1>4
    <3>2. UNCHANGED OrderState  BY <3>1, <1>3 DEF Order!Move, OrderState
    <3>3. QED  BY <3>1, <3>2 DEF Order!Move, Ordered, Order!orderVars
  <2>3. CASE s.state # "failed"
    <3> DEFINE S == {"planned", "approved", "creating_replacement", "creating_in_progress",
                     "awaiting_manual_key"}
    <3>1. s.new_version = NoVersion  BY <2>1, <1>0 DEF OpOK, s
    <3>2. s.state \in S
      BY <2>1, <2>3, <3>1, <1>2 DEF RowOK, WithValue, Row, States
    <3>s. S \in SUBSET States  OBVIOUS
    <3> HIDE DEF S
    <3>3. Order!Move(x, S, "failed") /\ UNCHANGED <<OrderTerms, OrderRecord>>
      BY <2>1, <3>2, <3>s, <1>2a, <1>4 DEF Row
    <3>4. Order!Cancel(x)  BY <3>3 DEF Order!Cancel, S
    <3>5. QED  BY <3>3, <3>4, <1>5 DEF Order!Moves
  <2>4. QED  BY <2>2, <2>3
<1>18. CASE EnterRollback(p)
  <2>1. SetState(x, s.state, "rolling_back") /\ op[p].pc = "rollback"
    BY <1>18 DEF EnterRollback, At, x, s
  <2>2. s.state \notin Finished /\ rot[x].state \notin {"none", "planned"}
        /\ rot[x].new_version # NoVersion
    BY <2>1, <1>0, <1>2 DEF OpOK, RollbackSteps, Ahead, x, s
  <2>3. Order!Move(x, {s.state}, "rolling_back") /\ rot[x].state = s.state
        /\ UNCHANGED <<OrderTerms, OrderRecord>>
    <3>1. s.state \in States /\ {s.state} \in SUBSET States  BY <1>2a DEF Row
    <3>2. QED  BY <2>1, <3>1, <1>4
  <2>4. Order!RollBack(x)  BY <2>2, <2>3, <1>3 DEF Order!RollBack, Order!Finished, Finished
  <2>5. QED  BY <2>3, <2>4, <1>5 DEF Order!Moves
<1>19. CASE Settle(p)
  <2>1. PICK to \in {"rolled_back", "manual_required"} : SetState(x, "rolling_back", to)
    BY <1>19 DEF Settle, x
  <2>2. Order!Settle(x) /\ UNCHANGED <<OrderTerms, OrderRecord>>
    BY <2>1, <1>4 DEF Order!Settle
  <2>3. QED  BY <2>2, <1>5 DEF Order!Moves
<1>20. QED
  BY <1>6, <1>7, <1>8, <1>9, <1>10, <1>11, <1>12, <1>13, <1>14, <1>15, <1>16, <1>17, <1>18,
     <1>19

\* Every other write to a row puts a fact on record, after the facts it presupposes.
LEMMA NotesOrdered ==
  ASSUME IInv, UNCHANGED provider, NEW p \in Procs,
         \/ NoteKey(p) \/ SetVersions(p) \/ MakePlan(p) \/ MarkValidated(p)
         \/ NoteDisabled(p) \/ MarkAttempt(p) \/ NoteRevoked(p)
  PROVE  Ordered
<1> DEFINE x == op[p].x  s == op[p].snap  row == rot[x]
<1> USE DEF Seen, At
<1>0. OpOK(op[p], rot, Len(stored), Len(plans)) /\ op[p] \in Op  BY OpHere
<1>1. op[p].pc \notin {"idle", "approve", "load", "cancel"}
  BY DEF NoteKey, SetVersions, MakePlan, MarkValidated, NoteDisabled, MarkAttempt, NoteRevoked
<1>2. /\ x \in Rotations /\ row \in Row /\ row.state \notin {"none", "planned"}
      /\ rot \in [Rotations -> Row]
  BY <1>0, <1>1, OpHere DEF OpOK, IInv, RowsOK
<1>3. s \in Row /\ RowOK(s, Len(stored), Len(plans)) /\ Ahead(s, row)
  BY <1>0, <1>1 DEF OpOK, SnapOK, RowOK
<1>4. RowOK(row, Len(stored), Len(plans))  BY <1>1, OpHere
<1>5. /\ "stored" \in OnRecord(row) <=> row.new_version # NoVersion
      /\ "validated" \in OnRecord(row) <=> row.validated
      /\ "attempted" \in OnRecord(row) <=> row.attempted
  BY <1>2, OnRecordMeans
<1>6. Len(stored) \in 1..MaxVersions /\ MaxVersions \in Nat /\ Len(plans) \in 0..MaxPlans
      /\ MaxPlans \in Nat
  BY KeysAssumption DEF IInv, ValueOK, PlansOK
<1> HIDE DEF x, s, row
<1>7. ASSUME NEW r \in Row, rot' = [rot EXCEPT ![x] = r],
             r.state = row.state, r.mode = row.mode, r.old_key = row.old_key,
             NEW f \in Order!Facts, OnRecord(r) = OnRecord(row) \cup {f},
             Order!Presupposed(f) \subseteq OnRecord(row)
      PROVE  Ordered
  BY <1>2, <1>7, Noted DEF row
<1>8. CASE NoteKey(p)
  <2> DEFINE r == [row EXCEPT !.new_key = op[p].k]
  <2>1. rot' = [rot EXCEPT ![x] = r]  BY <1>2, <1>8 DEF NoteKey, row, x
  <2>2. /\ r \in Row /\ r.state = row.state /\ r.mode = row.mode /\ r.old_key = row.old_key
        /\ OnRecord(r) = OnRecord(row)
    BY <1>0, <1>2 DEF Row, Op, OnRecord
  <2> HIDE DEF r
  <2>3. Rewritten(x, r)  BY <2>1, <2>2 DEF Rewritten, row
  <2>4. Mapped(x, r)  BY <2>2, <2>3, <1>2, RowMapped
  <2>5. UNCHANGED <<OrderState, OrderTerms, OrderRecord>>
    BY <2>2, <2>4 DEF Mapped, OrderState, OrderRecord, row
  <2>6. QED  BY <2>5 DEF Ordered, Order!orderVars
<1>9. CASE SetVersions(p)
  <2> DEFINE r == [row EXCEPT !.old_version = op[p].ver, !.new_version = value_version]
  <2>1. rot' = [rot EXCEPT ![x] = r]  BY <1>2, <1>9 DEF SetVersions, row, x
  <2>2. op[p].ver \in 0..MaxVersions /\ value_version \in 0..MaxVersions
        /\ value_version # NoVersion
    BY <1>0, <1>6 DEF Op, value_version, NoVersion
  <2>3. /\ r \in Row /\ r.state = row.state /\ r.mode = row.mode /\ r.old_key = row.old_key
        /\ r.new_version # NoVersion /\ r.plan = row.plan /\ r.validated = row.validated
        /\ r.disabled = row.disabled /\ r.attempted = row.attempted /\ r.revoked = row.revoked
    BY <1>2, <2>2 DEF Row
  <2> HIDE DEF r
  <2>4. OnRecord(r) = OnRecord(row) \cup {"stored"}  BY <2>3 DEF OnRecord
  <2>5. "stored" \in Order!Facts /\ Order!Presupposed("stored") \subseteq OnRecord(row)
    BY DEF Order!Facts, Order!Presupposed
  <2>6. QED  BY <2>1, <2>3, <2>4, <2>5, <1>7
<1>10. CASE MakePlan(p)
  <2> DEFINE r == [row EXCEPT !.plan = Len(plans) + 1]
  <2>1. rot' = [rot EXCEPT ![x] = r]  BY <1>2, <1>10 DEF MakePlan, row, x
  <2>2. Len(plans) + 1 \in 0..MaxPlans /\ Len(plans) + 1 # NoPlan
    BY <1>6, <1>10 DEF MakePlan, NoPlan
  <2>3. /\ r \in Row /\ r.state = row.state /\ r.mode = row.mode /\ r.old_key = row.old_key
        /\ r.plan # NoPlan /\ r.new_version = row.new_version /\ r.validated = row.validated
        /\ r.disabled = row.disabled /\ r.attempted = row.attempted /\ r.revoked = row.revoked
    BY <1>2, <2>2 DEF Row
  <2> HIDE DEF r
  <2>4. OnRecord(r) = OnRecord(row) \cup {"planned"}  BY <2>3 DEF OnRecord
  <2>5. row.new_version # NoVersion
    BY <1>3, <1>10 DEF MakePlan, RowOK, WithValue, Ahead, s
  <2>6. "planned" \in Order!Facts /\ Order!Presupposed("planned") \subseteq OnRecord(row)
    BY <2>5, <1>5 DEF Order!Facts, Order!Presupposed
  <2>7. QED  BY <2>1, <2>3, <2>4, <2>6, <1>7
<1>11. CASE MarkValidated(p)
  <2> DEFINE r == [row EXCEPT !.validated = TRUE]
  <2>1. rot' = [rot EXCEPT ![x] = r]  BY <1>2, <1>11 DEF MarkValidated, row, x
  <2>2. /\ r \in Row /\ r.state = row.state /\ r.mode = row.mode /\ r.old_key = row.old_key
        /\ r.validated /\ r.new_version = row.new_version /\ r.plan = row.plan
        /\ r.disabled = row.disabled /\ r.attempted = row.attempted /\ r.revoked = row.revoked
    BY <1>2 DEF Row
  <2> HIDE DEF r
  <2>3. OnRecord(r) = OnRecord(row) \cup {"validated"}  BY <2>2 DEF OnRecord
  <2>4. row.new_version # NoVersion  BY <1>0, <1>3, <1>11 DEF MarkValidated, OpOK, Ahead, s
  <2>5. "validated" \in Order!Facts /\ Order!Presupposed("validated") \subseteq OnRecord(row)
    BY <2>4, <1>5 DEF Order!Facts, Order!Presupposed
  <2>6. QED  BY <2>1, <2>2, <2>3, <2>5, <1>7
<1>12. CASE NoteDisabled(p)
  <2> DEFINE r == [row EXCEPT !.disabled = TRUE]
  <2>1. rot' = [rot EXCEPT ![x] = r]  BY <1>2, <1>12 DEF NoteDisabled, row, x
  <2>2. /\ r \in Row /\ r.state = row.state /\ r.mode = row.mode /\ r.old_key = row.old_key
        /\ r.disabled /\ r.new_version = row.new_version /\ r.plan = row.plan
        /\ r.validated = row.validated /\ r.attempted = row.attempted /\ r.revoked = row.revoked
    BY <1>2 DEF Row
  <2> HIDE DEF r
  <2>3. OnRecord(r) = OnRecord(row) \cup {"disabled"}  BY <2>2 DEF OnRecord
  <2>4. row.validated  BY <1>0, <1>3, <1>12 DEF NoteDisabled, OpOK, Ahead, s
  <2>5. "disabled" \in Order!Facts /\ Order!Presupposed("disabled") \subseteq OnRecord(row)
    BY <2>4, <1>5 DEF Order!Facts, Order!Presupposed
  <2>6. QED  BY <2>1, <2>2, <2>3, <2>5, <1>7
<1>13. CASE MarkAttempt(p)
  <2> DEFINE r == [row EXCEPT !.attempted = TRUE]
  <2>1. rot' = [rot EXCEPT ![x] = r]  BY <1>2, <1>13 DEF MarkAttempt, row, x
  <2>2. /\ r \in Row /\ r.state = row.state /\ r.mode = row.mode /\ r.old_key = row.old_key
        /\ r.attempted /\ r.new_version = row.new_version /\ r.plan = row.plan
        /\ r.validated = row.validated /\ r.disabled = row.disabled /\ r.revoked = row.revoked
    BY <1>2 DEF Row
  <2> HIDE DEF r
  <2>3. OnRecord(r) = OnRecord(row) \cup {"attempted"}  BY <2>2 DEF OnRecord
  <2>4. row.validated  BY <1>3, <1>13 DEF MarkAttempt, Ahead, s
  <2>5. "attempted" \in Order!Facts /\ Order!Presupposed("attempted") \subseteq OnRecord(row)
    BY <2>4, <1>5 DEF Order!Facts, Order!Presupposed
  <2>6. QED  BY <2>1, <2>2, <2>3, <2>5, <1>7
<1>14. CASE NoteRevoked(p)
  <2> DEFINE r == [row EXCEPT !.revoked = TRUE]
  <2>1. rot' = [rot EXCEPT ![x] = r]  BY <1>2, <1>14 DEF NoteRevoked, row, x
  <2>2. /\ r \in Row /\ r.state = row.state /\ r.mode = row.mode /\ r.old_key = row.old_key
        /\ r.revoked /\ r.new_version = row.new_version /\ r.plan = row.plan
        /\ r.validated = row.validated /\ r.disabled = row.disabled
        /\ r.attempted = row.attempted
    BY <1>2 DEF Row
  <2> HIDE DEF r
  <2>3. OnRecord(r) = OnRecord(row) \cup {"revoked"}  BY <2>2 DEF OnRecord
  <2>4. row.validated /\ row.attempted
    BY <1>0, <1>3, <1>14 DEF NoteRevoked, OpOK, Ahead, s, x, row
  <2>5. "revoked" \in Order!Facts /\ Order!Presupposed("revoked") \subseteq OnRecord(row)
    BY <2>4, <1>5 DEF Order!Facts, Order!Presupposed
  <2>6. QED  BY <2>1, <2>2, <2>3, <2>5, <1>7
<1>15. QED  BY <1>8, <1>9, <1>10, <1>11, <1>12, <1>13, <1>14

\* A rotation is planned.
LEMMA PlanOrdered ==
  ASSUME IInv, UNCHANGED provider, NEW x \in Rotations, Plan(x)
  PROVE  Ordered
<1>1. PICK m \in {"api_create", "manual_create"}, k \in {NoKey, stored[value_version]} :
        rot' = [rot EXCEPT ![x].state = "planned", ![x].mode = m, ![x].old_key = k]
  BY DEF Plan
<1> DEFINE r == [rot[x] EXCEPT !.state = "planned", !.mode = m, !.old_key = k]
           t == [mode |-> m, disables |-> CanDisable /\ k # NoKey]
<1>2. rot \in [Rotations -> Row] /\ rot[x].state = "none"  BY DEF Plan, IInv, RowsOK
<1>3. /\ r.state = "planned" /\ r.mode = m /\ r.old_key = k
      /\ OnRecord(r) = OnRecord(rot[x])
  BY <1>2 DEF Row, OnRecord
<1>4. \A y \in Rotations : rot'[y] = IF y = x THEN r ELSE rot[y]  BY <1>1, <1>2
<1> HIDE DEF r
<1>5. OrderState' = [OrderState EXCEPT ![x] = "planned"]
  <2>1. OrderState = [y \in Rotations |-> rot[y].state]
        /\ OrderState' = [y \in Rotations |-> rot'[y].state]
    BY DEF OrderState
  <2>2. \A y \in Rotations : rot'[y].state = IF y = x THEN "planned" ELSE rot[y].state
    BY <1>3, <1>4
  <2>3. QED  BY <2>1, <2>2
<1>6. CanDisable' <=> CanDisable  BY DEF CanDisable
<1>7. OrderTerms' = [OrderTerms EXCEPT ![x] = t]
  <2> DEFINE Of(y) == [mode |-> rot[y].mode, disables |-> CanDisable /\ rot[y].old_key # NoKey]
             Then(y) == [mode |-> rot'[y].mode,
                         disables |-> CanDisable' /\ rot'[y].old_key # NoKey]
  <2>1. OrderTerms = [y \in Rotations |-> Of(y)] /\ OrderTerms' = [y \in Rotations |-> Then(y)]
    BY DEF OrderTerms
  <2>2. ASSUME NEW y \in Rotations PROVE Then(y) = IF y = x THEN t ELSE Of(y)
    <3>1. CASE y = x
      <4>1. rot'[y].mode = m /\ rot'[y].old_key = k  BY <3>1, <1>3, <1>4
      <4>2. (CanDisable' /\ rot'[y].old_key # NoKey) = (CanDisable /\ k # NoKey)
        BY <4>1, <1>6
      <4>3. QED  BY <3>1, <4>1, <4>2
    <3>2. CASE y # x
      <4>1. rot'[y] = rot[y]  BY <3>2, <1>4
      <4>2. (CanDisable' /\ rot'[y].old_key # NoKey) = (CanDisable /\ rot[y].old_key # NoKey)
        BY <4>1, <1>6
      <4>3. QED  BY <3>2, <4>1, <4>2
    <3>3. QED  BY <3>1, <3>2
  <2> HIDE DEF Of, Then, t
  <2>3. QED  BY <2>1, <2>2
<1>8. UNCHANGED OrderRecord
  <2>1. OrderRecord = [y \in Rotations |-> OnRecord(rot[y])]
        /\ OrderRecord' = [y \in Rotations |-> OnRecord(rot'[y])]
    BY DEF OrderRecord
  <2>2. \A y \in Rotations : OnRecord(rot'[y]) = OnRecord(rot[y])  BY <1>3, <1>4
  <2>3. QED  BY <2>1, <2>2
<1>9. t \in Order!Terms
  <2>1. (CanDisable /\ k # NoKey) \in BOOLEAN  OBVIOUS
  <2>2. QED  BY <2>1 DEF Order!Terms
<1> HIDE DEF t
<1>10. OrderState[x] = "none"  BY <1>2, RowSeen
<1>11. Order!Plan(x)  BY <1>5, <1>7, <1>8, <1>9, <1>10 DEF Order!Plan
<1>12. OrderState' # OrderState  BY <1>5, <1>10 DEF OrderState
<1>13. QED  BY <1>11, <1>12 DEF Ordered, Order!Next, Order!Moves

\* Every step of an operation is a move, a note, or nothing to the abstract rotation.
LEMMA OperationOrdered ==
  ASSUME IInv, UNCHANGED provider, NEW p \in Procs,
         Approve(p) \/ CompleteManual(p) \/ Cancel(p) \/ Advance(p) \/ Rollback(p) \/ Leave(p)
  PROVE  Ordered
<1>1. CASE UNCHANGED rot  BY <1>1, RowsKept
<1>2. CASE Approve(p) \/ CompleteManual(p) \/ Cancel(p)  BY <1>2, MovesOrdered
<1>3. CASE NotFound(p)
  <2>1. UNCHANGED rot \/ GivesUp(p)  BY <1>3 DEF NotFound, GivesUp
  <2>2. QED  BY <2>1, <1>1, MovesOrdered
<1>4. ASSUME Advance(p) PROVE Ordered
  <2>1. CASE Load(p) \/ TakeValue(p) \/ Create(p) \/ CheckStored(p) \/ StoreValue(p)
             \/ BeginExecute(p) \/ (\E d \in Dests : ExecuteStep(p, d)) \/ Executed(p)
             \/ OwnVersion(p) \/ Validate(p) \/ Disable(p) \/ AlreadyRevoked(p) \/ Revoke(p)
    BY <2>1, <1>1 DEF Load, TakeValue, Create, CheckStored, StoreValue, BeginExecute,
       ExecuteStep, Executed, OwnVersion, Validate, Disable, AlreadyRevoked, Revoke
  <2>2. CASE ClaimApi(p) \/ AwaitKey(p) \/ ClaimCreation(p) \/ AlreadyStored(p) \/ Stored(p)
             \/ Planned(p) \/ DestinationsVerified(p) \/ EnterGrace(p) \/ OldDisabled(p)
             \/ RevokeByHand(p) \/ Complete(p)
    BY <2>2, MovesOrdered
  <2>3. CASE NoteKey(p) \/ SetVersions(p) \/ MakePlan(p) \/ MarkValidated(p) \/ NoteDisabled(p)
             \/ MarkAttempt(p) \/ NoteRevoked(p)
    BY <2>3, NotesOrdered
  <2>4. QED  BY <2>1, <2>2, <2>3, <1>3, <1>4 DEF Advance
<1>5. ASSUME Rollback(p) PROVE Ordered
  <2>1. CASE Reenable(p) \/ Restore(p) \/ BeginResync(p) \/ Undone(p) \/ Drop(p)
             \/ \E d \in Dests : UndoStep(p, d) \/ UndoAborts(p, d) \/ UndoFails(p, d)
    BY <2>1, <1>1 DEF Reenable, Restore, BeginResync, Undone, Drop, UndoStep, UndoAborts,
       UndoFails
  <2>2. CASE EnterRollback(p) \/ Settle(p)  BY <2>2, MovesOrdered
  <2>3. QED  BY <2>1, <2>2, <1>5 DEF Rollback
<1>6. CASE Leave(p)  BY <1>6, <1>1 DEF Leave
<1>7. QED  BY <1>2, <1>4, <1>5, <1>6

\* So is every other step.
LEMMA StepOrdered == IInv /\ [Next]_vars => [Order!Next]_Order!orderVars
<1> SUFFICES ASSUME IInv, [Next]_vars PROVE Ordered
  BY DEF Ordered
<1>0. UNCHANGED provider  BY ProviderStays
<1>1. CASE UNCHANGED rot  BY <1>0, <1>1, RowsKept
<1>2. CASE Next
  <2>1. CASE ReplaceByUser \/ \E x \in Rotations : RemoveOutside(x)
    BY <2>1, <1>1 DEF ReplaceByUser, RemoveOutside
  <2>2. CASE \E x \in Rotations : Plan(x)  BY <2>2, <1>0, PlanOrdered
  <2>3. ASSUME NEW p \in Procs, NEW x \in Rotations,
               BeginApprove(p, x) \/ BeginAdvance(p, x) \/ BeginCompleteManual(p, x)
               \/ BeginCancel(p, x) \/ BeginRollback(p, x)
        PROVE  UNCHANGED rot
    BY <2>3 DEF BeginApprove, BeginAdvance, BeginCompleteManual, BeginCancel, BeginRollback
  <2>4. QED  BY <1>0, <1>1, <1>2, <2>1, <2>2, <2>3, OperationOrdered DEF Next
<1>3. QED  BY <1>1, <1>2 DEF vars

\* The rotation is the abstract one for any processes, rotations, destinations and
\* providers: operations that act on stale copies, write field by field and may die at
\* every step move a row only along the edges of RotationOrder, each move is backed by what
\* the row has on record, and nothing is disabled or revoked on record before the new value
\* was (rotation.rs:18).
THEOREM OrderImplemented == Spec => ImplementsOrder
<1>1. Init => Order!Init
  <2> SUFFICES ASSUME Init PROVE Order!Init
    OBVIOUS
  <2>1. \A x \in Rotations : rot[x] = NewRow  BY DEF Init
  <2>2. OnRecord(NewRow) = {}  BY DEF OnRecord, NewRow
  <2>3. NewRow.state = "none" /\ NewRow.mode = "manual_create" /\ NewRow.old_key = NoKey
    BY DEF NewRow
  <2>4. OrderState = [x \in Rotations |-> "none"] /\ OrderRecord = [x \in Rotations |-> {}]
    BY <2>1, <2>2, <2>3 DEF OrderState, OrderRecord
  <2>5. OrderTerms \in [Rotations -> Order!Terms]
    <3>1. ASSUME NEW x \in Rotations
          PROVE  [mode |-> rot[x].mode, disables |-> CanDisable /\ rot[x].old_key # NoKey]
                   \in Order!Terms
      <4>1. rot[x].mode = "manual_create"  BY <2>1, <2>3
      <4>2. (CanDisable /\ rot[x].old_key # NoKey) \in BOOLEAN  OBVIOUS
      <4>3. QED  BY <4>1, <4>2 DEF Order!Terms
    <3>2. QED  BY <3>1 DEF OrderTerms
  <2>6. QED  BY <2>4, <2>5 DEF Order!Init
<1>2. QED  BY <1>1, InvInit, InvStep, StepOrdered, PTL DEF Spec, ImplementsOrder, Order!Spec

-----------------------------------------------------------------------------
(* The destructive steps.                                                  *)

\* Only disabling, revoking and dropping take a key out of service.
LEMMA KeyWrites ==
  ASSUME [Next]_vars
  PROVE  \/ UNCHANGED key
         \/ \E j : \E s \in {"active", "removed"} : key' = [key EXCEPT ![j] = s]
         \/ \E p \in Procs : Disable(p) \/ Revoke(p) \/ Drop(p)
<1> DEFINE Harmless == \/ UNCHANGED key
                       \/ \E j : \E s \in {"active", "removed"} : key' = [key EXCEPT ![j] = s]
<1> USE DEF world
<1>1. CASE UNCHANGED vars  BY <1>1 DEF vars
<1>2. CASE ReplaceByUser \/ \E x \in Rotations : Plan(x) \/ RemoveOutside(x)
  BY <1>2 DEF ReplaceByUser, Plan, RemoveOutside
<1>3. ASSUME NEW p \in Procs, NEW x \in Rotations,
             BeginApprove(p, x) \/ BeginAdvance(p, x) \/ BeginCompleteManual(p, x)
             \/ BeginCancel(p, x) \/ BeginRollback(p, x)
      PROVE  UNCHANGED key
  BY <1>3 DEF BeginApprove, BeginAdvance, BeginCompleteManual, BeginCancel, BeginRollback
<1>4. ASSUME NEW p \in Procs, Approve(p) \/ CompleteManual(p) \/ Cancel(p) \/ Leave(p)
      PROVE  UNCHANGED key
  BY <1>4 DEF Approve, CompleteManual, Cancel, Leave
<1>5. ASSUME NEW p \in Procs, Advance(p), ~Disable(p), ~Revoke(p) PROVE Harmless
  <2>1. CASE Create(p) \/ StoreValue(p)  BY <2>1 DEF Create, StoreValue
  <2>2. CASE Load(p) \/ ClaimApi(p) \/ AwaitKey(p) \/ TakeValue(p) \/ ClaimCreation(p)
             \/ AlreadyStored(p) \/ NoteKey(p) \/ CheckStored(p) \/ SetVersions(p) \/ Stored(p)
    BY <2>2 DEF Load, ClaimApi, AwaitKey, TakeValue, ClaimCreation, AlreadyStored, NoteKey,
       CheckStored, SetVersions, Stored
  <2>3. CASE MakePlan(p) \/ Planned(p) \/ BeginExecute(p) \/ (\E d \in Dests : ExecuteStep(p, d))
             \/ Executed(p) \/ DestinationsVerified(p) \/ OwnVersion(p) \/ Validate(p)
             \/ MarkValidated(p) \/ EnterGrace(p)
    BY <2>3 DEF MakePlan, Planned, BeginExecute, ExecuteStep, Executed, DestinationsVerified,
       OwnVersion, Validate, MarkValidated, EnterGrace
  <2>4. CASE NoteDisabled(p) \/ OldDisabled(p) \/ AlreadyRevoked(p) \/ RevokeByHand(p)
             \/ MarkAttempt(p) \/ NotFound(p) \/ NoteRevoked(p) \/ Complete(p)
    BY <2>4 DEF NoteDisabled, OldDisabled, AlreadyRevoked, RevokeByHand, MarkAttempt, NotFound,
       NoteRevoked, Complete
  <2>5. QED  BY <1>5, <2>1, <2>2, <2>3, <2>4 DEF Advance
<1>6. ASSUME NEW p \in Procs, Rollback(p), ~Drop(p) PROVE Harmless
  BY <1>6 DEF Rollback, EnterRollback, Reenable, Restore, BeginResync, Undone, UndoStep,
     UndoAborts, UndoFails, Settle
<1>7. QED  BY <1>1, <1>2, <1>3, <1>4, <1>5, <1>6 DEF Next

\* A key is taken out of service for a rotation that verified its new value, and revoked
\* with its attempt on record; or a rollback drops it.
LEMMA DestroyStep ==
  ASSUME IInv, [Next]_vars, NEW k \in Keys, key'[k] # key[k],
         key'[k] \in {"inactive", "archived", "deleted"}
  PROVE  \/ \E x \in Rotations :
              /\ rot[x].old_key = k /\ rot[x].validated
              /\ key'[k] \in {"archived", "deleted"} => rot[x].attempted
         \/ \E p \in Procs : Drops(p, k)
<1>0. key \in [Keys -> KeyStates]  BY DEF IInv, KeysOK
<1>1. ASSUME NEW j, NEW s, key' = [key EXCEPT ![j] = s] PROVE j = k /\ key'[k] = s
  BY <1>0, <1>1
<1>2. PICK p \in Procs : Disable(p) \/ Revoke(p) \/ Drop(p)
  <2>1. ASSUME NEW j, NEW s \in {"active", "removed"}, key' = [key EXCEPT ![j] = s] PROVE FALSE
    BY <1>1, <2>1
  <2>2. QED  BY <2>1, KeyWrites
<1>3. OpOK(op[p], rot, Len(stored), Len(plans)) /\ op[p] \in Op  BY OpHere
<1>4. CASE Disable(p)
  <2>1. op[p].pc = "step" /\ op[p].snap.state = "grace_period"
        /\ key' = [key EXCEPT ![op[p].snap.old_key] = "inactive"]
    BY <1>4 DEF Disable, Seen, At
  <2>2. op[p].snap.old_key = k /\ key'[k] = "inactive"  BY <2>1, <1>1
  <2>3. op[p].x \in Rotations /\ RowOK(op[p].snap, Len(stored), Len(plans))
        /\ Ahead(op[p].snap, rot[op[p].x])
    BY <2>1, <1>3 DEF OpOK, SnapOK
  <2>4. rot[op[p].x].old_key = k /\ rot[op[p].x].validated
    BY <2>1, <2>2, <2>3 DEF RowOK, Ahead
  <2>5. QED  BY <2>2, <2>3, <2>4
<1>5. CASE Revoke(p)
  <2>1. op[p].pc = "revoke" /\ key' = [key EXCEPT ![op[p].snap.old_key] = Revoked]
    BY <1>5 DEF Revoke, At
  <2>2. op[p].snap.old_key = k  BY <2>1, <1>1
  <2>3. /\ op[p].x \in Rotations /\ Ahead(op[p].snap, rot[op[p].x])
        /\ op[p].snap.state # "none" /\ op[p].snap.validated /\ rot[op[p].x].attempted
    BY <2>1, <1>3 DEF OpOK, SnapOK
  <2>4. QED  BY <2>2, <2>3 DEF Ahead
<1>6. CASE Drop(p)
  <2>1. key' = [key EXCEPT ![op[p].snap.new_key] = Revoked] /\ At(p, "drop")
    BY <1>6 DEF Drop
  <2>2. QED  BY <2>1, <1>1 DEF Drops
<1>7. QED  BY <1>2, <1>4, <1>5, <1>6

\* Nothing is destroyed unverified: the program takes an old key out of service, and
\* completes a rotation, only after the replacement was validated, in whatever order any
\* number of processes work on any number of rotations (rotation_advance's gate).
THEOREM DestructionVerified == Spec => VerifiedFirst
<1>1. ASSUME IInv, [Next]_vars, NEW k \in Keys, key'[k] # key[k], Destroyed(k)'
      PROVE  \/ \E x \in Rotations : rot[x].old_key = k /\ rot[x].validated
             \/ \E p \in Procs : Drops(p, k)
  BY <1>1, DestroyStep DEF Destroyed
<1>2. ASSUME IInv', NEW x \in Rotations, rot'[x].state = "completed" PROVE rot'[x].validated
  BY <1>2 DEF IInv, RowsOK, RowOK
<1>3. IInv /\ IInv' /\ [Next]_vars =>
        [/\ \A k \in Keys : key'[k] # key[k] /\ Destroyed(k)' =>
              \/ \E x \in Rotations : rot[x].old_key = k /\ rot[x].validated
              \/ \E p \in Procs : Drops(p, k)
         /\ \A x \in Rotations : rot'[x].state = "completed" => rot'[x].validated]_vars
  BY <1>1, <1>2
<1>4. QED  BY <1>3, InvInit, InvStep, PTL DEF Spec, VerifiedFirst

\* A revocation always leaves its trace: the attempt is on record before the provider is
\* called, and stays there, so that a retry after a death can tell its own 404 from a wrong
\* key, and a rollback knows (rotation_revoke_old's marker).
THEOREM RevocationTraced == Spec => RevokeLeavesTrace
<1>1. ASSUME IInv, [Next]_vars, NEW k \in Keys, key'[k] # key[k],
             key'[k] \in {"archived", "deleted"}
      PROVE  \/ \E x \in Rotations : rot[x].old_key = k /\ rot[x].attempted
             \/ \E p \in Procs : Drops(p, k)
  BY <1>1, DestroyStep
<1>2. ASSUME IInv, [Next]_vars, NEW x \in Rotations, rot[x].attempted
      PROVE  rot'[x].attempted
  BY <1>2, InvStep DEF Grows, Ahead
<1>3. IInv /\ [Next]_vars =>
        [/\ \A k \in Keys : key'[k] # key[k] /\ key'[k] \in {"archived", "deleted"} =>
              \/ \E x \in Rotations : rot[x].old_key = k /\ rot[x].attempted
              \/ \E p \in Procs : Drops(p, k)
         /\ \A x \in Rotations : rot[x].attempted => rot'[x].attempted]_vars
  BY <1>1, <1>2
<1>4. QED  BY <1>3, InvInit, InvStep, PTL DEF Spec, RevokeLeavesTrace

-----------------------------------------------------------------------------
(* One process and one rotation: what a rollback restores, and what is     *)
(* still served when a key is revoked.  With two processes none of this    *)
(* holds.  The process may die at any step and start again, and the user   *)
(* replaces the value and removes keys as before.                          *)

Alone == (\A p, q \in Procs : p = q) /\ (\A x, y \in Rotations : x = y)

\* The states of a rotation on its way, by what they presuppose.
Early == {"none", "planned", "approved", "creating_replacement", "awaiting_manual_key"}
Storing == {"approved", "awaiting_manual_key", "creating_in_progress"}
Cleared == {"destinations_verified", "grace_period", "old_disabled"}
Late == {"replacement_stored", "updating_destinations"} \cup Cleared
Working == Early \cup {"creating_in_progress"} \cup Late

value == stored[Len(stored)]

\* The keys a row names exist, and the one it created is another than the old one.
Names(r) ==
  /\ r.state = "none" => r = NewRow
  /\ r.state \in Early => r.new_key = NoKey
  /\ r.state \in Late => r.new_version # NoVersion
  /\ r.old_key # NoKey => key[r.old_key] # "absent"
  /\ r.new_key # NoKey => key[r.new_key] # "absent" /\ r.new_key # r.old_key

\* The replacement's value is neither the one it replaced nor any that came after it, and
\* the value is not the old key until a rollback begins.
Replaced(r) ==
  r.new_version # NoVersion =>
    /\ stored[r.old_version] # r.new_key
    /\ stored[r.old_version] # stored[r.new_version]
    /\ \A j \in 1..Len(stored) : r.new_version < j => stored[j] # stored[r.new_version]
    /\ r.state \in Working => value # r.old_key

\* A destination whose step is recorded EXECUTED does not serve the old key, and none does
\* once all steps were verified.
Deployed(r) ==
  /\ r.plan # NoPlan =>
       \A d \in Dests : plans[r.plan].step[d] = "executed" => dest[d] # r.old_key
  /\ r.state \in Cleared => \A d \in Dests : dest[d] # r.old_key

\* What the refusal of rotation_rollback leaves: no attempt that may have deleted the old key.
MayReturn(r) == ~CanDisable /\ r.old_key # NoKey => ~r.attempted

\* A row that is rolled back is past its own version; and without a provider that disables,
\* what was destroyed is the replacement, or the old key after a recorded attempt.
Returned(r) ==
  /\ r.state = "rolled_back" => r.new_version < Len(stored)
  /\ r.state \in {"rolling_back", "rolled_back"} => MayReturn(r)
  /\ ~CanDisable => \A k \in Keys : Destroyed(k) =>
       k = r.new_key \/ (k = r.old_key /\ r.attempted)

RowAlone(r) == Names(r) /\ Replaced(r) /\ Deployed(r) /\ Returned(r)

\* A key that was created and is no version of the value yet.
Unused(k, r) ==
  /\ k \in Keys /\ key[k] # "absent" /\ k # r.old_key
  /\ \A i \in 1..Len(stored) : stored[i] # k

Exact == {"step", "created", "exec", "executed", "validate", "validated", "disabled",
          "complete_manual", "cancel", "rollback"}
Undoing == {"reenable", "restore", "resync", "undo", "drop", "settle"}

\* How the copy of the only process relates to the row: it is the row, until the process
\* itself writes.
CopyAlone(o, r) ==
  /\ o.pc \in Exact => o.snap = r
  /\ o.pc \in Undoing =>
       /\ r.state = "rolling_back"
       /\ o.snap.old_version = r.old_version /\ o.snap.new_version = r.new_version
       /\ o.snap.new_key = r.new_key /\ o.snap.plan = r.plan
  /\ o.pc \in {"store", "replace", "versions"} => r.state \in Storing
  /\ o.pc = "revoke" => r.state = "old_disabled"

\* What it has in hand on the way forward ...
HandAlone(o, r) ==
  /\ o.pc \in {"load", "step"} => o.k = NoKey
  /\ o.pc = "created" =>
       /\ r.state = "creating_in_progress" /\ r.new_key = NoKey /\ r.new_version = NoVersion
       /\ Unused(o.k, r)
  /\ o.pc \in {"store", "replace"} => o.k = r.new_key /\ (o.k # NoKey => Unused(o.k, r))
  /\ o.pc = "versions" =>
       /\ o.ver < Len(stored) /\ stored[o.ver] # r.new_key
       /\ \A j \in 1..Len(stored) : j < Len(stored) => stored[j] # value
       /\ value # r.old_key
  /\ o.pc = "stored" => r.new_version # NoVersion
  /\ o.pc = "exec" => o.k # r.old_key
  /\ o.pc = "executed" => \A d \in Dests : dest[d] # r.old_key

\* ... and on the way back: the value to restore, unless the value has moved on by itself.
BackAlone(o, r) ==
  /\ o.pc = "rollback" => MayReturn(r)
  /\ o.pc \in {"rollback", "reenable", "restore"} =>
       IF o.k = NoKey THEN r.new_version < Len(stored) ELSE o.k = stored[r.old_version]
  /\ o.pc \in {"resync", "undo", "drop", "settle"} => r.new_version < Len(stored)

OpAlone(o, r) == CopyAlone(o, r) /\ HandAlone(o, r) /\ BackAlone(o, r)

ValuesMade == \A i \in 1..Len(stored) : key[stored[i]] # "absent"

\* The inductive invariant of one process and one rotation, beside IInv.
SInv ==
  /\ ValuesMade
  /\ \A x \in Rotations : RowAlone(rot[x])
  /\ \A p \in Procs, x \in Rotations : op[p].pc # "idle" => OpAlone(op[p], rot[x])

\* What holds of the only process and the only rotation before a step.
LEMMA SoloHere ==
  ASSUME Alone, IInv, SInv, NEW p \in Procs, NEW x \in Rotations
  PROVE  /\ rot \in [Rotations -> Row] /\ rot[x] \in Row
         /\ RowOK(rot[x], Len(stored), Len(plans)) /\ RowAlone(rot[x])
         /\ op \in [Procs -> Op] /\ op[p] \in Op
         /\ OpOK(op[p], rot, Len(stored), Len(plans))
         /\ op[p].pc # "idle" => op[p].x = x /\ OpAlone(op[p], rot[x])
BY OpHere DEF Alone, SInv, IInv, RowsOK, OpsOK

\* What holds of the values and the plans.
LEMMA SoloWorld ==
  ASSUME IInv
  PROVE  /\ stored \in Seq(Keys) /\ Len(stored) \in 1..MaxVersions /\ MaxVersions \in Nat
         /\ key \in [Keys -> KeyStates] /\ dest \in [Dests -> Keys]
         /\ plans \in Seq(PlanRow) /\ Len(plans) \in Nat
         /\ Keys \subseteq Nat /\ NoKey \notin Keys
BY KeysAssumption DEF IInv, ValueOK, KeysOK, DestsOK, PlansOK, Keys, NoKey

\* After a step, the only process and the only rotation are all there is to look at.
LEMMA SoloStep ==
  ASSUME Alone, NEW p \in Procs, NEW x \in Rotations,
         ValuesMade', RowAlone(rot[x])', (op[p].pc # "idle" => OpAlone(op[p], rot[x]))'
  PROVE  SInv'
BY DEF Alone, SInv

\* A step that leaves the values, keys, plans and destinations alone: the row becomes r and
\* the operation o.
LEMMA SoloMoves ==
  ASSUME Alone, IInv, SInv, UNCHANGED <<provider, stored, key, plans, dest>>,
         NEW p \in Procs, NEW x \in Rotations,
         NEW r, rot' = [rot EXCEPT ![x] = r], RowAlone(r),
         NEW o, op' = [op EXCEPT ![p] = o], o.pc # "idle" => OpAlone(o, r)
  PROVE  SInv'
<1>1. rot'[x] = r /\ op'[p] = o  BY SoloHere
<1>2. ValuesMade'  BY DEF SInv, ValuesMade
<1>3. RowAlone(rot[x])'
  BY <1>1 DEF RowAlone, Names, Replaced, Deployed, Returned, MayReturn, value, CanDisable,
     Destroyed
<1>4. (op[p].pc # "idle" => OpAlone(op[p], rot[x]))'
  BY <1>1 DEF OpAlone, CopyAlone, HandAlone, BackAlone, Unused, MayReturn, value, CanDisable
<1>5. QED  BY <1>2, <1>3, <1>4, SoloStep

\* The row stays as well.
LEMMA SoloMovesAlone ==
  ASSUME Alone, IInv, SInv, UNCHANGED <<world, rot>>, NEW p \in Procs, NEW x \in Rotations,
         NEW o, op' = [op EXCEPT ![p] = o], o.pc # "idle" => OpAlone(o, rot[x])
  PROVE  SInv'
<1>1. UNCHANGED <<provider, stored, key, plans, dest>>  BY DEF world
<1>2. rot' = [rot EXCEPT ![x] = rot[x]] /\ RowAlone(rot[x])  BY SoloHere
<1>3. QED  BY <1>1, <1>2, SoloMoves

\* An operation that is over, or loads again, holds nothing.
LEMMA SoloRests ==
  ASSUME NEW x, NEW g, NEW r
  PROVE  /\ Idle.pc = "idle"
         /\ OpAlone([Idle EXCEPT !.pc = "load", !.x = x, !.give = g], r)
BY DEF Idle, OpAlone, CopyAlone, HandAlone, BackAlone, Exact, Undoing

\* An operation begins.
LEMMA SoloBeginnings ==
  ASSUME Alone, IInv, SInv, NEW p \in Procs, NEW x \in Rotations,
         \/ BeginApprove(p, x) \/ BeginAdvance(p, x) \/ BeginCompleteManual(p, x)
         \/ BeginCancel(p, x) \/ BeginRollback(p, x)
  PROVE  SInv'
<1> DEFINE r == rot[x]
<1> USE DEF OpAlone, CopyAlone, HandAlone, BackAlone, Exact, Undoing
<1>0. RowOK(r, Len(stored), Len(plans)) /\ RowAlone(r)  BY SoloHere
<1>1. UNCHANGED <<world, rot>>
  BY DEF BeginApprove, BeginAdvance, BeginCompleteManual, BeginCancel, BeginRollback
<1>2. ASSUME NEW o, op' = [op EXCEPT ![p] = o], o.pc # "idle" => OpAlone(o, r) PROVE SInv'
  <2> HIDE DEF OpAlone
  <2>1. QED  BY <1>1, <1>2, SoloMovesAlone
<1> HIDE DEF r
<1>3. CASE BeginApprove(p, x)
  <2> DEFINE o == [Idle EXCEPT !.pc = "approve", !.x = x]
  <2>1. op' = [op EXCEPT ![p] = o]  BY <1>3 DEF BeginApprove
  <2>2. OpAlone(o, r)  BY DEF Idle
  <2>3. QED  BY <2>1, <2>2, <1>2
<1>4. CASE BeginAdvance(p, x)
  <2>1. PICK g \in BOOLEAN :
          op' = [op EXCEPT ![p] = [Idle EXCEPT !.pc = "load", !.x = x, !.give = g]]
    BY <1>4 DEF BeginAdvance
  <2>2. OpAlone([Idle EXCEPT !.pc = "load", !.x = x, !.give = g], r)  BY SoloRests
  <2>3. QED  BY <2>1, <2>2, <1>2
<1>5. CASE BeginCompleteManual(p, x)
  <2> DEFINE o == [Idle EXCEPT !.pc = "complete_manual", !.x = x, !.snap = r]
  <2>1. op' = [op EXCEPT ![p] = o]  BY <1>5 DEF BeginCompleteManual, Loaded, r
  <2>2. OpAlone(o, r)  BY DEF Idle
  <2>3. QED  BY <2>1, <2>2, <1>2
<1>6. CASE BeginCancel(p, x)
  <2> DEFINE o == [Idle EXCEPT !.pc = "cancel", !.x = x, !.snap = r]
  <2>1. op' = [op EXCEPT ![p] = o]  BY <1>6 DEF BeginCancel, Loaded, r
  <2>2. OpAlone(o, r)  BY DEF Idle
  <2>3. QED  BY <2>1, <2>2, <1>2
<1>7. CASE BeginRollback(p, x)
  <2> DEFINE o == [Idle EXCEPT !.pc = "rollback", !.x = x, !.snap = r, !.k = Material(r)]
  <2>1. op' = [op EXCEPT ![p] = o]  BY <1>7 DEF BeginRollback, LoadForRollback, r
  <2>2. MayReturn(r)
    BY <1>7 DEF BeginRollback, MayReturn, CanDisable, RevokeIsReversible, r
  <2>3. IF Material(r) = NoKey THEN r.new_version < Len(stored)
                               ELSE Material(r) = stored[r.old_version]
    <3>1. /\ r.old_version \in 1..Len(stored) /\ r.new_version \in Nat
          /\ r.new_version <= Len(stored)
      BY <1>0, <1>7, SoloWorld DEF BeginRollback, RowOK, Row, NoVersion, r
    <3>2. stored[r.old_version] # NoKey  BY <3>1, SoloWorld
    <3>3. QED  BY <3>1, <3>2, SoloWorld DEF Material, value_version
  <2> HIDE DEF Material
  <2>4. OpAlone(o, r)  BY <2>2, <2>3 DEF Idle
  <2>5. QED  BY <2>1, <2>4, <1>2
<1>8. QED  BY <1>3, <1>4, <1>5, <1>6, <1>7

\* The steps that only decide.
LEMMA SoloDeciding ==
  ASSUME Alone, IInv, SInv, NEW p \in Procs,
         \/ Load(p) \/ TakeValue(p) \/ CheckStored(p) \/ BeginExecute(p) \/ Executed(p)
         \/ OwnVersion(p) \/ Validate(p) \/ AlreadyRevoked(p) \/ BeginResync(p) \/ Undone(p)
         \/ (\E d \in Dests : UndoAborts(p, d)) \/ Leave(p)
  PROVE  SInv'
<1> DEFINE x == op[p].x  r == rot[x]
<1> USE DEF OpAlone, CopyAlone, HandAlone, BackAlone, Exact, Undoing, At, Seen
<1>1. op[p].pc # "idle" /\ UNCHANGED <<world, rot>>
  BY DEF Load, TakeValue, CheckStored, BeginExecute, Executed, OwnVersion, Validate,
     AlreadyRevoked, BeginResync, Undone, UndoAborts, Leave
<1>2. x \in Rotations /\ op[p] \in Op /\ op \in [Procs -> Op]  BY <1>1, OpHere DEF IInv, OpsOK
<1>3. /\ OpAlone(op[p], r) /\ RowAlone(r) /\ r \in Row
      /\ OpOK(op[p], rot, Len(stored), Len(plans))
  BY <1>1, <1>2, SoloHere
<1>4. ASSUME NEW o, op' = [op EXCEPT ![p] = o], o.pc # "idle" => OpAlone(o, r) PROVE SInv'
  <2> HIDE DEF OpAlone
  <2>1. QED  BY <1>1, <1>2, <1>4, SoloMovesAlone
<1> HIDE DEF x, r
<1>5. ASSUME NEW pc \in Steps, Goto(p, pc),
             ASSUME NEW o, o.pc = pc, o.snap = op[p].snap, o.k = op[p].k, o.ver = op[p].ver
             PROVE  OpAlone(o, r)
      PROVE  SInv'
  <2>1. PICK o \in Op : /\ op' = [op EXCEPT ![p] = o]
                        /\ o.pc = pc /\ o.snap = op[p].snap
                        /\ o.k = op[p].k /\ o.ver = op[p].ver
    BY <1>5, GotoMeans
  <2> HIDE DEF OpAlone
  <2>2. OpAlone(o, r)  BY <2>1, <1>5
  <2>3. QED  BY <2>1, <2>2, <1>4
<1>6. CASE Load(p)
  <2> DEFINE o == [op[p] EXCEPT !.pc = "step", !.snap = r]
  <2>1. op' = [op EXCEPT ![p] = o]  BY <1>2, <1>6 DEF Load, x, r
  <2>2. o.pc = "step" /\ o.snap = r /\ o.k = op[p].k  BY <1>2 DEF Op
  <2>3. OpAlone(o, r)  BY <2>2, <1>3, <1>6 DEF Load
  <2>4. QED  BY <2>1, <2>3, <1>4
<1>7. CASE TakeValue(p)
  <2> DEFINE o == [op[p] EXCEPT !.pc = "store", !.give = FALSE]
  <2>1. op' = [op EXCEPT ![p] = o]  BY <1>2, <1>7 DEF TakeValue
  <2>2. o.pc = "store" /\ o.snap = op[p].snap /\ o.k = op[p].k  BY <1>2 DEF Op
  <2>3. r.state \in Storing /\ r.new_key = NoKey /\ op[p].k = NoKey
    BY <1>3, <1>7 DEF TakeValue, RowAlone, Names, Early, Storing
  <2>4. OpAlone(o, r)  BY <2>2, <2>3
  <2>5. QED  BY <2>1, <2>4, <1>4
<1>8. CASE CheckStored(p)
  <2>1. CASE r.new_version # NoVersion
    <3>1. Goto(p, "stored") /\ "stored" \in Steps  BY <2>1, <1>8 DEF CheckStored, x, r, Steps
    <3>2. QED  BY <3>1, <2>1, <1>5
  <2>2. CASE r.new_version = NoVersion
    <3> DEFINE o == [op[p] EXCEPT !.pc = "replace", !.ver = value_version]
    <3>1. op' = [op EXCEPT ![p] = o]  BY <1>2, <1>8, <2>2 DEF CheckStored, x, r
    <3>2. o.pc = "replace" /\ o.k = op[p].k  BY <1>2 DEF Op
    <3>3. OpAlone(o, r)  BY <3>2, <1>3, <1>8 DEF CheckStored
    <3>4. QED  BY <3>1, <3>3, <1>4
  <2>3. QED  BY <2>1, <2>2
<1>9. CASE BeginExecute(p)
  <2> DEFINE pl == plans[op[p].snap.plan]
             todo == {d \in Dests : pl.step[d] \in {"planned", "failed"}}
             o == [op[p] EXCEPT !.pc = "exec", !.k = stored[pl.to], !.todo = todo]
  <2>1. op[p].pc = "step" /\ op[p].snap.state = "updating_destinations"
        /\ pl.to = Len(stored) /\ op' = [op EXCEPT ![p] = o]
    BY <1>2, <1>9 DEF BeginExecute, value_version
  <2>2. op[p].snap = r  BY <2>1, <1>3
  <2> HIDE DEF pl, todo
  <2>3. o.pc = "exec" /\ o.snap = r /\ o.k = value  BY <2>1, <2>2, <1>2 DEF Op, value
  <2>4. value # r.old_key
    BY <2>1, <2>2, <1>3 DEF RowAlone, Names, Replaced, Working, Late
  <2>5. OpAlone(o, r)  BY <2>3, <2>4
  <2>6. QED  BY <2>1, <2>5, <1>4
<1>10. CASE Executed(p)
  <2>1. op[p].pc = "exec" /\ Goto(p, "executed") /\ "executed" \in Steps
        /\ \A d \in Dests : plans[op[p].snap.plan].step[d] = "executed"
    BY <1>10 DEF Executed, Steps
  <2>2. op[p].snap = r /\ r.plan # NoPlan  BY <2>1, <1>3 DEF OpOK
  <2>3. \A d \in Dests : dest[d] # r.old_key  BY <2>1, <2>2, <1>3 DEF RowAlone, Deployed
  <2>4. QED  BY <2>1, <2>2, <2>3, <1>5
<1>11. CASE OwnVersion(p)
  <2>1. op[p].snap = r /\ Goto(p, "validate") /\ "validate" \in Steps
    BY <1>3, <1>11 DEF OwnVersion, Steps
  <2>2. QED  BY <2>1, <1>5
<1>12. CASE Validate(p)
  <2> DEFINE o == [op[p] EXCEPT !.pc = "validated", !.k = stored[value_version]]
  <2>1. op' = [op EXCEPT ![p] = o]  BY <1>2, <1>12 DEF Validate
  <2>2. o.pc = "validated" /\ o.snap = op[p].snap  BY <1>2 DEF Op
  <2>3. OpAlone(o, r)  BY <2>2, <1>3, <1>12 DEF Validate
  <2>4. QED  BY <2>1, <2>3, <1>4
<1>13. CASE AlreadyRevoked(p)
  <2>1. Goto(p, "complete") /\ "complete" \in Steps  BY <1>13 DEF AlreadyRevoked, Steps
  <2>2. QED  BY <2>1, <1>5
<1>14. CASE BeginResync(p)
  <2> DEFINE pl == plans[op[p].snap.plan]
             todo == {d \in Dests : pl.step[d] = "executed"}
             o1 == [op[p] EXCEPT !.pc = "drop", !.bad = TRUE]
             o2 == [op[p] EXCEPT !.pc = "undo", !.k = stored[pl.from], !.todo = todo]
  <2>1. op[p].pc = "resync"
        /\ (op' = [op EXCEPT ![p] = o1] \/ op' = [op EXCEPT ![p] = o2])
    BY <1>2, <1>14 DEF BeginResync
  <2> HIDE DEF pl, todo
  <2>2. o1.pc = "drop" /\ o1.snap = op[p].snap /\ o2.pc = "undo" /\ o2.snap = op[p].snap
    BY <1>2 DEF Op
  <2>3. OpAlone(o1, r) /\ OpAlone(o2, r)  BY <2>1, <2>2, <1>3
  <2> HIDE DEF o1, o2
  <2>4. QED  BY <2>1, <2>3, <1>4
<1>15. CASE Undone(p)
  <2> DEFINE b == op[p].bad \/ ~op[p].any
             o == [op[p] EXCEPT !.pc = "drop", !.bad = b]
  <2>1. op' = [op EXCEPT ![p] = o]  BY <1>2, <1>15 DEF Undone
  <2> HIDE DEF b
  <2>2. o.pc = "drop" /\ o.snap = op[p].snap  BY <1>2 DEF Op
  <2>3. OpAlone(o, r)  BY <2>2, <1>3, <1>15 DEF Undone
  <2>4. QED  BY <2>1, <2>3, <1>4
<1>16. CASE \E d \in Dests : UndoAborts(p, d)
  <2> DEFINE o == [op[p] EXCEPT !.pc = "drop", !.todo = {}, !.bad = TRUE]
  <2>1. op' = [op EXCEPT ![p] = o] /\ op[p].pc = "undo"  BY <1>2, <1>16 DEF UndoAborts
  <2>2. o.pc = "drop" /\ o.snap = op[p].snap  BY <1>2 DEF Op
  <2>3. OpAlone(o, r)  BY <2>1, <2>2, <1>3
  <2>4. QED  BY <2>1, <2>3, <1>4
<1>17. CASE Leave(p)
  BY <1>17, <1>4, SoloRests DEF Leave, Return
<1>18. QED
  BY <1>6, <1>7, <1>8, <1>9, <1>10, <1>11, <1>12, <1>13, <1>14, <1>15, <1>16, <1>17

\* set_state: what a row's next state asks of the row.
LEMMA SoloState ==
  ASSUME IInv, NEW r \in Row, RowAlone(r), NEW to \in States \ {"none"},
         to \in Early => r.new_key = NoKey,
         to \in Late => r.new_version # NoVersion,
         to \in Working => r.state \in Working,
         to \in Cleared => \A d \in Dests : dest[d] # r.old_key,
         to = "rolled_back" => r.new_version < Len(stored),
         to \in {"rolling_back", "rolled_back"} => MayReturn(r)
  PROVE  RowAlone([r EXCEPT !.state = to])
<1> DEFINE rr == [r EXCEPT !.state = to]
<1>1. /\ rr.state = to /\ rr.old_version = r.old_version /\ rr.new_version = r.new_version
      /\ rr.plan = r.plan /\ rr.old_key = r.old_key /\ rr.new_key = r.new_key
      /\ rr.attempted = r.attempted
  BY DEF Row
<1> HIDE DEF rr
<1>2. Names(rr)  BY <1>1 DEF RowAlone, Names
<1>3. Replaced(rr)  BY <1>1 DEF RowAlone, Replaced
<1>4. Deployed(rr)  BY <1>1 DEF RowAlone, Deployed
<1>5. Returned(rr)  BY <1>1 DEF RowAlone, Returned, MayReturn
<1>6. QED  BY <1>2, <1>3, <1>4, <1>5 DEF RowAlone, rr

\* The steps that settle a state and end the operation, or its round.
LEMMA SoloSettling ==
  ASSUME Alone, IInv, SInv, NEW p \in Procs,
         \/ Approve(p) \/ AwaitKey(p) \/ RevokeByHand(p) \/ Complete(p) \/ CompleteManual(p)
         \/ Cancel(p) \/ Settle(p) \/ ClaimApi(p) \/ ClaimCreation(p) \/ AlreadyStored(p)
         \/ Stored(p) \/ Planned(p) \/ DestinationsVerified(p) \/ EnterGrace(p)
         \/ OldDisabled(p) \/ EnterRollback(p)
  PROVE  SInv'
<1> DEFINE x == op[p].x  r == rot[x]
<1>1. op[p].pc # "idle" /\ UNCHANGED world
  BY DEF Approve, AwaitKey, RevokeByHand, Complete, CompleteManual, Cancel, Settle,
     ClaimApi, ClaimCreation, AlreadyStored, Stored, Planned, DestinationsVerified,
     EnterGrace, OldDisabled, EnterRollback, Seen, At
<1>2. x \in Rotations /\ op[p] \in Op /\ op \in [Procs -> Op]  BY <1>1, OpHere DEF IInv, OpsOK
<1>3. /\ OpAlone(op[p], r) /\ RowAlone(r) /\ r \in Row /\ rot \in [Rotations -> Row]
      /\ OpOK(op[p], rot, Len(stored), Len(plans))
  BY <1>1, <1>2, SoloHere
<1>4. UNCHANGED <<provider, stored, key, plans, dest>>  BY <1>1 DEF world
<1> HIDE DEF x, r
<1> USE DEF Early, Late, Working, Cleared
<1>5. ASSUME NEW to \in States \ {"none"}, rot' = [rot EXCEPT ![x].state = to],
             to \in Early => r.new_key = NoKey,
             to \in Late => r.new_version # NoVersion,
             to \in Working => r.state \in Working,
             to \in Cleared => \A d \in Dests : dest[d] # r.old_key,
             to = "rolled_back" => r.new_version < Len(stored),
             to \in {"rolling_back", "rolled_back"} => MayReturn(r),
             Return(p) \/ Again(p)
      PROVE  SInv'
  <2>1. RowAlone([r EXCEPT !.state = to])  BY <1>3, <1>5, SoloState
  <2>2. rot' = [rot EXCEPT ![x] = [r EXCEPT !.state = to]]  BY <1>2, <1>3, <1>5 DEF r
  <2>3. CASE Return(p)
    BY <1>2, <1>4, <2>1, <2>2, <2>3, SoloRests, SoloMoves DEF Return
  <2>4. CASE Again(p)
    <3> DEFINE o == [Idle EXCEPT !.pc = "load", !.x = x, !.give = op[p].give]
    <3>1. op' = [op EXCEPT ![p] = o]  BY <2>4 DEF Again, x
    <3>2. OpAlone(o, [r EXCEPT !.state = to])  BY SoloRests
    <3> HIDE DEF o
    <3>3. QED  BY <1>2, <1>4, <2>1, <2>2, <3>1, <3>2, SoloMoves
  <2>5. QED  BY <1>5, <2>3, <2>4
<1> USE DEF OpAlone, CopyAlone, HandAlone, BackAlone, Exact, Undoing, At, Seen
<1>6. CASE Approve(p)
  <2>1. r.state = "planned" /\ rot' = [rot EXCEPT ![x].state = "approved"] /\ Return(p)
        /\ "approved" \in States \ {"none"}
    BY <1>6 DEF Approve, SetState, x, r, States
  <2>2. r.new_key = NoKey  BY <2>1, <1>3 DEF RowAlone, Names
  <2> HIDE DEF OpAlone
  <2>3. QED  BY <2>1, <2>2, <1>5 DEF States
<1>7. CASE AwaitKey(p) \/ ClaimApi(p)
  <2>1. PICK to \in {"awaiting_manual_key", "creating_replacement"} :
          r.state = "approved" /\ rot' = [rot EXCEPT ![x].state = to] /\ (Return(p) \/ Again(p))
    BY <1>7 DEF AwaitKey, ClaimApi, SetState, x, r
  <2>2. r.new_key = NoKey  BY <2>1, <1>3 DEF RowAlone, Names
  <2> HIDE DEF OpAlone
  <2>3. QED  BY <2>1, <2>2, <1>5 DEF States
<1>8. CASE RevokeByHand(p) \/ Complete(p) \/ CompleteManual(p) \/ Cancel(p)
  <2>1. PICK to \in {"manual_required", "completed", "failed"} :
          rot' = [rot EXCEPT ![x].state = to] /\ Return(p)
    BY <1>8 DEF RevokeByHand, Complete, CompleteManual, Cancel, SetState, x
  <2> HIDE DEF OpAlone
  <2>2. QED  BY <2>1, <1>5 DEF States
<1>9. CASE Settle(p)
  <2>1. PICK to \in {"manual_required", "rolled_back"} :
          r.state = "rolling_back" /\ rot' = [rot EXCEPT ![x].state = to] /\ Return(p)
    BY <1>9 DEF Settle, SetState, x, r
  <2>2. r.new_version < Len(stored)  BY <1>3, <1>9 DEF Settle
  <2>3. MayReturn(r)  BY <2>1, <1>3 DEF RowAlone, Returned
  <2> HIDE DEF OpAlone
  <2>4. QED  BY <2>1, <2>2, <2>3, <1>5 DEF States
<1>10. CASE ClaimCreation(p)
  <2>1. /\ r.state = "creating_replacement" /\ Again(p)
        /\ rot' = [rot EXCEPT ![x].state = "creating_in_progress"]
        /\ "creating_in_progress" \in States \ {"none"}
    BY <1>10 DEF ClaimCreation, SetState, x, r, States
  <2> HIDE DEF OpAlone
  <2>2. QED  BY <2>1, <1>5 DEF States
<1>11. CASE AlreadyStored(p)
  <2>1. /\ r.state = "creating_in_progress" /\ Again(p)
        /\ rot' = [rot EXCEPT ![x].state = "replacement_stored"]
        /\ "replacement_stored" \in States \ {"none"}
    BY <1>11 DEF AlreadyStored, SetState, x, r, States
  <2>2. r.new_version # NoVersion  BY <1>3, <1>11 DEF AlreadyStored
  <2> HIDE DEF OpAlone
  <2>3. QED  BY <2>1, <2>2, <1>5 DEF States
<1>12. CASE Stored(p)
  <2>1. /\ r.state = op[p].snap.state /\ Again(p) /\ op[p].pc = "stored"
        /\ rot' = [rot EXCEPT ![x].state = "replacement_stored"]
        /\ "replacement_stored" \in States \ {"none"}
    BY <1>12 DEF Stored, SetState, x, r, States
  <2>2. r.new_version # NoVersion /\ r.state \in Storing
    BY <2>1, <1>3 DEF OpOK, Storing
  <2> HIDE DEF OpAlone
  <2>3. QED  BY <2>1, <2>2, <1>5 DEF States, Storing
<1>13. CASE Planned(p)
  <2>1. /\ r.state = "replacement_stored" /\ Again(p)
        /\ rot' = [rot EXCEPT ![x].state = "updating_destinations"]
        /\ "updating_destinations" \in States \ {"none"}
    BY <1>13 DEF Planned, SetState, x, r, States
  <2>2. r.new_version # NoVersion  BY <2>1, <1>3 DEF RowAlone, Names
  <2> HIDE DEF OpAlone
  <2>3. QED  BY <2>1, <2>2, <1>5 DEF States
<1>14. CASE DestinationsVerified(p)
  <2>1. /\ r.state = "updating_destinations" /\ Again(p) /\ op[p].pc = "executed"
        /\ rot' = [rot EXCEPT ![x].state = "destinations_verified"]
        /\ "destinations_verified" \in States \ {"none"}
    BY <1>14 DEF DestinationsVerified, SetState, x, r, States
  <2>2. r.new_version # NoVersion  BY <2>1, <1>3 DEF RowAlone, Names
  <2>3. \A d \in Dests : dest[d] # r.old_key  BY <2>1, <1>3
  <2> HIDE DEF OpAlone
  <2>4. QED  BY <2>1, <2>2, <2>3, <1>5 DEF States
<1>15. CASE EnterGrace(p) \/ OldDisabled(p)
  <2>1. PICK to \in {"grace_period", "old_disabled"} :
          r.state \in Cleared /\ rot' = [rot EXCEPT ![x].state = to] /\ Again(p)
    BY <1>15 DEF EnterGrace, OldDisabled, SetState, x, r
  <2>2. r.new_version # NoVersion  BY <2>1, <1>3 DEF RowAlone, Names
  <2>3. \A d \in Dests : dest[d] # r.old_key  BY <2>1, <1>3 DEF RowAlone, Deployed
  <2> HIDE DEF OpAlone
  <2>4. QED  BY <2>1, <2>2, <2>3, <1>5 DEF States
<1>16. CASE EnterRollback(p)
  <2> DEFINE rr == [r EXCEPT !.state = "rolling_back"]
  <2>1. op[p].pc = "rollback" /\ rot' = [rot EXCEPT ![x].state = "rolling_back"]
        /\ Goto(p, "reenable") /\ "reenable" \in Steps
    BY <1>16 DEF EnterRollback, SetState, x, Steps
  <2>2. op[p].snap = r /\ MayReturn(r)  BY <2>1, <1>3
  <2>3. RowAlone(rr)
    <3> HIDE DEF OpAlone
    <3>1. QED  BY <2>2, <1>3, SoloState DEF States
  <2>4. rot' = [rot EXCEPT ![x] = rr]  BY <1>2, <1>3, <2>1 DEF r
  <2>5. /\ rr.state = "rolling_back" /\ rr.old_version = r.old_version
        /\ rr.new_version = r.new_version /\ rr.new_key = r.new_key /\ rr.plan = r.plan
    BY <1>3 DEF Row
  <2> HIDE DEF rr
  <2>6. PICK o \in Op : /\ op' = [op EXCEPT ![p] = o]
                        /\ o.pc = "reenable" /\ o.snap = op[p].snap /\ o.k = op[p].k
    BY <2>1, GotoMeans
  <2>7. OpAlone(o, rr)  BY <2>1, <2>2, <2>5, <2>6, <1>3
  <2> HIDE DEF OpAlone
  <2>8. QED  BY <1>2, <1>4, <2>3, <2>4, <2>6, <2>7, SoloMoves
<1>17. QED
  BY <1>6, <1>7, <1>8, <1>9, <1>10, <1>11, <1>12, <1>13, <1>14, <1>15, <1>16

\* The steps that note in the row what was just done.
LEMMA SoloNoting ==
  ASSUME Alone, IInv, SInv, NEW p \in Procs,
         \/ NoteKey(p) \/ SetVersions(p) \/ MarkValidated(p) \/ NoteDisabled(p)
         \/ MarkAttempt(p) \/ NoteRevoked(p)
  PROVE  SInv'
<1> DEFINE x == op[p].x  r == rot[x]
<1> USE DEF At, Seen
<1>1. op[p].pc # "idle" /\ UNCHANGED <<provider, stored, key, plans, dest>>
  BY DEF NoteKey, SetVersions, MarkValidated, NoteDisabled, MarkAttempt, NoteRevoked, world
<1>2. x \in Rotations /\ op[p] \in Op /\ op \in [Procs -> Op]  BY <1>1, OpHere DEF IInv, OpsOK
<1>3. /\ OpAlone(op[p], r) /\ RowAlone(r) /\ r \in Row /\ rot \in [Rotations -> Row]
      /\ OpOK(op[p], rot, Len(stored), Len(plans)) /\ r.state # "none"
  BY <1>1, <1>2, SoloHere, OpHere
<1>4. stored \in Seq(Keys) /\ Len(stored) \in 1..MaxVersions /\ MaxVersions \in Nat
  BY SoloWorld
<1> HIDE DEF x, r
<1>5. ASSUME NEW rr, rot' = [rot EXCEPT ![x] = rr], RowAlone(rr),
             NEW o, op' = [op EXCEPT ![p] = o], OpAlone(o, rr)
      PROVE  SInv'
  BY <1>1, <1>2, <1>5, SoloMoves
<1> USE DEF OpAlone, CopyAlone, HandAlone, BackAlone, Exact, Undoing
<1>6. CASE NoteKey(p)
  <2> DEFINE rr == [r EXCEPT !.new_key = op[p].k]
  <2>1. op[p].pc = "created" /\ rot' = [rot EXCEPT ![x] = rr]
        /\ Goto(p, "store") /\ "store" \in Steps
    BY <1>2, <1>3, <1>6 DEF NoteKey, x, r, Steps
  <2>2. /\ r.state = "creating_in_progress" /\ r.new_key = NoKey /\ r.new_version = NoVersion
        /\ Unused(op[p].k, r)
    BY <2>1, <1>3
  <2>3. /\ rr.state = r.state /\ rr.new_version = r.new_version /\ rr.plan = r.plan
        /\ rr.old_key = r.old_key /\ rr.new_key = op[p].k /\ rr.attempted = r.attempted
    BY <1>3 DEF Row
  <2> HIDE DEF rr
  <2>4. RowAlone(rr)
    <3>1. Names(rr)
      BY <2>2, <2>3, <1>3 DEF RowAlone, Names, Unused, Early, Late, Cleared
    <3>2. Replaced(rr) /\ Deployed(rr)
      BY <2>2, <2>3, <1>3 DEF RowAlone, Replaced, Deployed
    <3>3. Returned(rr)
      BY <2>2, <2>3, <1>3, SoloWorld DEF RowAlone, Returned
    <3>4. QED  BY <3>1, <3>2, <3>3 DEF RowAlone
  <2>5. PICK o \in Op : /\ op' = [op EXCEPT ![p] = o]
                        /\ o.pc = "store" /\ o.snap = op[p].snap /\ o.k = op[p].k
    BY <2>1, GotoMeans
  <2>6. OpAlone(o, rr)  BY <2>2, <2>3, <2>5 DEF Storing, Unused
  <2>7. QED  BY <2>1, <2>4, <2>5, <2>6, <1>5
<1>7. CASE SetVersions(p)
  <2> DEFINE rr == [r EXCEPT !.old_version = op[p].ver, !.new_version = value_version]
  <2>1. op[p].pc = "versions" /\ rot' = [rot EXCEPT ![x] = rr]
        /\ Goto(p, "stored") /\ "stored" \in Steps
    BY <1>2, <1>3, <1>7 DEF SetVersions, x, r, Steps
  <2>2. /\ r.state \in Storing /\ op[p].ver \in 1..Len(stored)
        /\ op[p].ver < Len(stored) /\ stored[op[p].ver] # r.new_key
        /\ \A j \in 1..Len(stored) : j < Len(stored) => stored[j] # value
        /\ value # r.old_key
    BY <2>1, <1>3 DEF OpOK
  <2>3. /\ rr.state = r.state /\ rr.old_version = op[p].ver /\ rr.new_version = Len(stored)
        /\ rr.plan = r.plan /\ rr.old_key = r.old_key /\ rr.new_key = r.new_key
        /\ rr.attempted = r.attempted
    BY <1>3 DEF Row, value_version
  <2> HIDE DEF rr
  <2>4. RowAlone(rr)
    <3>1. Names(rr)
      BY <2>2, <2>3, <1>3, <1>4 DEF RowAlone, Names, Storing, NoVersion
    <3>2. Replaced(rr)
      BY <2>2, <2>3, <1>4 DEF Replaced, value
    <3>3. Deployed(rr) /\ Returned(rr)
      BY <2>2, <2>3, <1>3 DEF RowAlone, Deployed, Returned, MayReturn, Storing
    <3>4. QED  BY <3>1, <3>2, <3>3 DEF RowAlone
  <2>5. PICK o \in Op : op' = [op EXCEPT ![p] = o] /\ o.pc = "stored"
    BY <2>1, GotoMeans
  <2>6. OpAlone(o, rr)  BY <2>3, <2>5, <1>4 DEF NoVersion
  <2>7. QED  BY <2>1, <2>4, <2>5, <2>6, <1>5
<1>8. CASE MarkValidated(p) \/ NoteDisabled(p) \/ NoteRevoked(p)
  <2>1. PICK rr \in {[r EXCEPT !.validated = TRUE], [r EXCEPT !.disabled = TRUE],
                     [r EXCEPT !.revoked = TRUE]},
             pc \in {"grace", "disabling", "complete"} :
          rot' = [rot EXCEPT ![x] = rr] /\ Goto(p, pc)
    BY <1>2, <1>3, <1>8 DEF MarkValidated, NoteDisabled, NoteRevoked, x, r
  <2>2. /\ rr.state = r.state /\ rr.old_version = r.old_version
        /\ rr.new_version = r.new_version /\ rr.plan = r.plan /\ rr.old_key = r.old_key
        /\ rr.new_key = r.new_key /\ rr.attempted = r.attempted
    BY <2>1, <1>3 DEF Row
  <2>3. RowAlone(rr)
    BY <2>2, <1>3 DEF RowAlone, Names, Replaced, Deployed, Returned, MayReturn
  <2>4. PICK o \in Op : op' = [op EXCEPT ![p] = o] /\ o.pc = pc
    BY <2>1, GotoMeans DEF Steps
  <2>5. OpAlone(o, rr)  BY <2>1, <2>4
  <2>6. QED  BY <2>1, <2>3, <2>4, <2>5, <1>5
<1>9. CASE MarkAttempt(p)
  <2> DEFINE rr == [r EXCEPT !.attempted = TRUE]
             o == [op[p] EXCEPT !.pc = "revoke", !.before = rot[op[p].x].attempted]
  <2>1. op[p].pc = "step" /\ op[p].snap.state = "old_disabled"
        /\ rot' = [rot EXCEPT ![x] = rr] /\ op' = [op EXCEPT ![p] = o]
    BY <1>2, <1>3, <1>9 DEF MarkAttempt, x, r
  <2>2. r.state = "old_disabled"  BY <2>1, <1>3
  <2>3. /\ rr.state = r.state /\ rr.old_version = r.old_version
        /\ rr.new_version = r.new_version /\ rr.plan = r.plan /\ rr.old_key = r.old_key
        /\ rr.new_key = r.new_key /\ rr.attempted
    BY <1>3 DEF Row
  <2>4. o.pc = "revoke"  BY <1>2 DEF Op
  <2> HIDE DEF rr, o
  <2>5. RowAlone(rr)
    BY <2>2, <2>3, <1>3 DEF RowAlone, Names, Replaced, Deployed, Returned
  <2>6. OpAlone(o, rr)  BY <2>2, <2>3, <2>4
  <2>7. QED  BY <2>1, <2>5, <2>6, <1>5
<1>10. QED  BY <1>6, <1>7, <1>8, <1>9

\* A key that exists or is new changes its state at the provider.
LEMMA SoloKey ==
  ASSUME IInv, ValuesMade, NEW x \in Rotations, RowAlone(rot[x]),
         NEW k, NEW s \in KeyStates \ {"absent"}, key' = [key EXCEPT ![k] = s],
         s \in {"inactive", "archived", "deleted"} /\ ~CanDisable =>
           k = rot[x].new_key \/ (k = rot[x].old_key /\ rot[x].attempted),
         UNCHANGED <<provider, rot, stored, plans, dest>>
  PROVE  ValuesMade' /\ RowAlone(rot[x])'
<1>1. \A j \in Keys : key'[j] = key[j] \/ (j = k /\ key'[j] = s)
  BY SoloWorld
<1>2. rot[x] \in Row  BY DEF IInv, RowsOK
<1>3. ValuesMade'
  <2>1. \A i \in 1..Len(stored) : stored[i] \in Keys  BY SoloWorld
  <2>2. QED  BY <2>1, <1>1 DEF ValuesMade
<1>4. Names(rot[x])'
  <2>1. rot[x].old_key \in Keys \cup {NoKey} /\ rot[x].new_key \in Keys \cup {NoKey}
    BY <1>2 DEF Row
  <2>2. QED  BY <2>1, <1>1 DEF RowAlone, Names
<1>5. Replaced(rot[x])' /\ Deployed(rot[x])'
  BY DEF RowAlone, Replaced, Deployed, value
<1>6. Returned(rot[x])'
  BY <1>1 DEF RowAlone, Returned, MayReturn, CanDisable, Destroyed
<1>7. QED  BY <1>3, <1>4, <1>5, <1>6 DEF RowAlone

\* Provider calls.
LEMMA SoloProvider ==
  ASSUME Alone, IInv, SInv, NEW p \in Procs, NEW x \in Rotations,
         Create(p) \/ Disable(p) \/ Revoke(p) \/ Reenable(p) \/ Drop(p)
  PROVE  SInv'
<1> DEFINE r == rot[x]
<1> USE DEF At, Seen
<1>1. op[p].pc \notin {"idle", "approve", "load"}
      /\ UNCHANGED <<provider, rot, stored, plans, dest>>
  BY DEF Create, Disable, Revoke, Reenable, Drop
<1>2. /\ op[p].x = x /\ op[p] \in Op /\ op \in [Procs -> Op]
      /\ OpAlone(op[p], r) /\ RowAlone(r) /\ r \in Row /\ ValuesMade
      /\ OpOK(op[p], rot, Len(stored), Len(plans))
  BY <1>1, SoloHere DEF SInv
<1>3. op[p].snap \in Row /\ op[p].snap.old_key = r.old_key
  BY <1>1, <1>2 DEF OpOK, SnapOK, Ahead, RowOK
<1>4. r' = r  BY <1>1
<1>5. ASSUME NEW k, NEW s \in {"active", "inactive", "archived", "deleted"},
             key' = [key EXCEPT ![k] = s],
             s # "active" /\ ~CanDisable => k = r.new_key \/ (k = r.old_key /\ r.attempted)
      PROVE  ValuesMade' /\ RowAlone(rot[x])'
  <2>1. s \in KeyStates \ {"absent"}  BY DEF KeyStates
  <2>2. QED  BY <2>1, <1>1, <1>2, <1>5, SoloKey
<1>6. ASSUME UNCHANGED key PROVE ValuesMade' /\ RowAlone(rot[x])'
  BY <1>1, <1>2, <1>6 DEF ValuesMade, RowAlone, Names, Replaced, Deployed, Returned,
     MayReturn, value, CanDisable, Destroyed
<1>7. Revoked \in {"archived", "deleted"}  BY DEF Revoked
<1> USE DEF OpAlone, CopyAlone, HandAlone, BackAlone, Exact, Undoing
<1>8. CASE Create(p)
  <2>1. PICK k \in Keys : /\ Fresh(k) /\ key' = [key EXCEPT ![k] = "active"]
                          /\ op' = [op EXCEPT ![p].pc = "created", ![p].k = k]
    BY <1>8 DEF Create
  <2>2. /\ op[p].snap = r /\ r.state = "creating_in_progress"
        /\ r.new_version = NoVersion /\ r.new_key = NoKey
    BY <1>2, <1>8 DEF Create, Orphaned
  <2>3. ValuesMade' /\ RowAlone(rot[x])'  BY <2>1, <1>5
  <2>4. op'[p].pc = "created" /\ op'[p].snap = r /\ op'[p].k = k
    BY <2>1, <2>2, <1>2 DEF Op
  <2>5. key[k] = "absent" /\ key'[k] = "active"  BY <2>1, SoloWorld DEF Fresh
  <2>6. Unused(k, r)'
    BY <2>1, <2>5, <1>1, <1>2 DEF Unused, ValuesMade, RowAlone, Names, Keys, NoKey
  <2>7. OpAlone(op[p], rot[x])'  BY <2>2, <2>4, <2>6, <1>4 DEF Unused
  <2> HIDE DEF OpAlone
  <2>8. QED  BY <2>3, <2>7, SoloStep
<1>9. CASE Disable(p)
  <2>1. CanDisable /\ key' = [key EXCEPT ![op[p].snap.old_key] = "inactive"]
        /\ op' = [op EXCEPT ![p].pc = "disabled"]
    BY <1>9 DEF Disable, Goto
  <2>2. ValuesMade' /\ RowAlone(rot[x])'  BY <2>1, <1>5
  <2>3. op'[p].pc = "disabled" /\ op'[p].snap = r  BY <2>1, <1>2, <1>9 DEF Disable, Op
  <2>4. OpAlone(op[p], rot[x])'  BY <2>3, <1>4
  <2> HIDE DEF OpAlone
  <2>5. QED  BY <2>2, <2>4, SoloStep
<1>10. CASE Revoke(p)
  <2>1. op[p].pc = "revoke" /\ key' = [key EXCEPT ![op[p].snap.old_key] = Revoked]
        /\ op' = [op EXCEPT ![p].pc = "revoked"]
    BY <1>10 DEF Revoke, Goto
  <2>2. r.attempted  BY <2>1, <1>2 DEF OpOK
  <2>3. ValuesMade' /\ RowAlone(rot[x])'
    <3> HIDE DEF OpAlone
    <3>1. QED  BY <2>1, <2>2, <1>3, <1>5, <1>7
  <2>4. op'[p].pc = "revoked"  BY <2>1, <1>2 DEF Op
  <2>5. OpAlone(op[p], rot[x])'  BY <2>4
  <2> HIDE DEF OpAlone
  <2>6. QED  BY <2>3, <2>5, SoloStep
<1>11. CASE Reenable(p)
  <2>1. /\ UNCHANGED key \/ \E k : key' = [key EXCEPT ![k] = "active"]
        /\ op[p].pc = "reenable"
        /\ \/ op' = [op EXCEPT ![p].pc = "restore"]
           \/ op' = [op EXCEPT ![p].pc = "restore", ![p].bad = TRUE]
    BY <1>11 DEF Reenable, Goto
  <2>2. ValuesMade' /\ RowAlone(rot[x])'
    <3> HIDE DEF OpAlone
    <3>1. QED  BY <2>1, <1>5, <1>6
  <2>3. op'[p].pc = "restore" /\ op'[p].snap = op[p].snap /\ op'[p].k = op[p].k
    BY <2>1, <1>2 DEF Op
  <2>4. OpAlone(op[p], rot[x])'  BY <2>1, <2>3, <1>1, <1>2, <1>4
  <2> HIDE DEF OpAlone
  <2>5. QED  BY <2>2, <2>4, SoloStep
<1>12. CASE Drop(p)
  <2>1. /\ op[p].pc = "drop"
        /\ UNCHANGED key \/ key' = [key EXCEPT ![op[p].snap.new_key] = Revoked]
        /\ \/ op' = [op EXCEPT ![p].pc = "settle"]
           \/ op' = [op EXCEPT ![p].pc = "settle", ![p].bad = TRUE]
    BY <1>12 DEF Drop, Goto
  <2>2. op[p].snap.new_key = r.new_key  BY <2>1, <1>2
  <2>3. ValuesMade' /\ RowAlone(rot[x])'
    <3> HIDE DEF OpAlone
    <3>1. QED  BY <2>1, <2>2, <1>5, <1>6, <1>7
  <2>4. op'[p].pc = "settle" /\ op'[p].snap = op[p].snap  BY <2>1, <1>2 DEF Op
  <2>5. OpAlone(op[p], rot[x])'  BY <2>1, <2>4, <1>1, <1>2, <1>4
  <2> HIDE DEF OpAlone
  <2>6. QED  BY <2>3, <2>5, SoloStep
<1>13. QED  BY <1>8, <1>9, <1>10, <1>11, <1>12

\* The value moves on to k, a key the row's replacement does not hold.
LEMMA SoloValue ==
  ASSUME IInv, ValuesMade, NEW x \in Rotations, RowAlone(rot[x]), NEW k \in Keys,
         stored' = Append(stored, k), key'[k] # "absent",
         \A j \in Keys : key'[j] = key[j] \/ key'[j] = "active",
         rot[x].new_version # NoVersion => k # stored[rot[x].new_version],
         rot[x].state \in Working => k # rot[x].old_key,
         UNCHANGED <<provider, rot, plans, dest>>
  PROVE  ValuesMade' /\ RowAlone(rot[x])'
<1> DEFINE n == Len(stored)  r == rot[x]
<1>1. stored \in Seq(Keys) /\ n \in 1..MaxVersions /\ MaxVersions \in Nat
      /\ Keys \subseteq Nat /\ NoKey \notin Keys
  BY SoloWorld
<1>2. r \in Row /\ RowOK(r, n, Len(plans)) /\ r' = r  BY DEF IInv, RowsOK
<1>3. /\ Len(stored') = n + 1 /\ stored'[n + 1] = k /\ value' = k
      /\ \A i \in 1..n : stored'[i] = stored[i] /\ stored[i] \in Keys
  BY <1>1 DEF value
<1>4. r.new_version # NoVersion => r.new_version \in 1..n /\ r.old_version \in 1..n
  BY <1>1, <1>2 DEF RowOK, Row, NoVersion
<1>5. r.new_version \in Nat  BY <1>1, <1>2 DEF Row
<1> HIDE DEF n, r
<1>6. ValuesMade'
  <2>1. ASSUME NEW i \in 1..(n + 1) PROVE key'[stored'[i]] # "absent"
    <3>1. CASE i = n + 1  BY <3>1, <1>3
    <3>2. CASE i # n + 1
      <4>1. i \in 1..n  BY <3>2, <1>1
      <4>2. key[stored[i]] # "absent"  BY <4>1 DEF ValuesMade, n
      <4>3. QED  BY <4>1, <4>2, <1>3
    <3>3. QED  BY <3>1, <3>2
  <2>2. QED  BY <2>1, <1>3 DEF ValuesMade
<1>7. Names(r)'
  <2>1. r.old_key \in Keys \cup {NoKey} /\ r.new_key \in Keys \cup {NoKey}
    BY <1>2 DEF Row
  <2>2. QED  BY <2>1, <1>2 DEF RowAlone, Names, r
<1>8. Replaced(r)'
  <2>1. SUFFICES ASSUME r.new_version # NoVersion
                 PROVE  /\ stored'[r.old_version] # r.new_key
                        /\ stored'[r.old_version] # stored'[r.new_version]
                        /\ \A j \in 1..(n + 1) :
                             r.new_version < j => stored'[j] # stored'[r.new_version]
                        /\ r.state \in Working => k # r.old_key
    BY <1>2, <1>3 DEF Replaced
  <2>2. /\ stored[r.old_version] # r.new_key
        /\ stored[r.old_version] # stored[r.new_version]
        /\ \A j \in 1..n : r.new_version < j => stored[j] # stored[r.new_version]
    BY <2>1 DEF RowAlone, Replaced, r, n
  <2>3. ASSUME NEW j \in 1..(n + 1), r.new_version < j
        PROVE  stored'[j] # stored'[r.new_version]
    <3>1. CASE j = n + 1  BY <3>1, <1>3, <1>4, <2>1 DEF r
    <3>2. CASE j # n + 1
      <4>1. j \in 1..n  BY <3>2, <1>1
      <4>2. QED  BY <4>1, <2>1, <2>2, <2>3, <1>3, <1>4
    <3>3. QED  BY <3>1, <3>2
  <2>4. QED  BY <2>1, <2>2, <2>3, <1>3, <1>4 DEF r
<1>9. Deployed(r)'  BY <1>2 DEF RowAlone, Deployed, r
<1>10. Returned(r)'
  <2>1. r.new_version < n => r.new_version < Len(stored')  BY <1>1, <1>3, <1>5
  <2>2. ASSUME NEW j \in Keys, key'[j] \in {"inactive", "archived", "deleted"}
        PROVE  key[j] = key'[j]
    BY <2>2
  <2>3. QED
    BY <2>1, <2>2, <1>2 DEF RowAlone, Returned, MayReturn, CanDisable, Destroyed, r, n
<1>11. QED  BY <1>6, <1>7, <1>8, <1>9, <1>10 DEF RowAlone, r

\* A step of nobody leaves every operation as it is.
LEMMA SoloOutside ==
  ASSUME Alone, NEW x \in Rotations, ValuesMade', RowAlone(rot[x])',
         \A p \in Procs : (op[p].pc # "idle" => OpAlone(op[p], rot[x]))'
  PROVE  SInv'
BY DEF Alone, SInv

\* The process stores the new value, or puts the old one back.
LEMMA SoloValueSteps ==
  ASSUME Alone, IInv, SInv, NEW p \in Procs, NEW x \in Rotations, StoreValue(p) \/ Restore(p)
  PROVE  SInv'
<1> DEFINE r == rot[x]  n == Len(stored)
<1> USE DEF At
<1>1. op[p].pc \in {"replace", "restore"} /\ UNCHANGED <<provider, rot, plans, dest>>
  BY DEF StoreValue, Restore
<1>2. /\ op[p].x = x /\ op[p] \in Op /\ op \in [Procs -> Op]
      /\ OpAlone(op[p], r) /\ RowAlone(r) /\ r \in Row /\ ValuesMade
      /\ OpOK(op[p], rot, n, Len(plans)) /\ RowOK(r, n, Len(plans))
  BY <1>1, SoloHere DEF SInv
<1>3. stored \in Seq(Keys) /\ n \in 1..MaxVersions /\ MaxVersions \in Nat
      /\ Keys \subseteq Nat /\ NoKey \notin Keys /\ key \in [Keys -> KeyStates]
  BY SoloWorld
<1>4. r' = r  BY <1>1
<1>5. r.new_version # NoVersion => r.new_version \in 1..n /\ r.old_version \in 1..n
  BY <1>2, <1>3 DEF RowOK, Row, NoVersion
<1> HIDE DEF r, n
<1> USE DEF OpAlone, CopyAlone, HandAlone, BackAlone, Exact, Undoing
<1>6. CASE StoreValue(p)
  <2>1. op[p].pc = "replace" /\ op' = [op EXCEPT ![p].pc = "versions"]
    BY <1>6 DEF StoreValue, Goto
  <2>2. PICK k \in Keys :
          /\ stored' = Append(stored, k) /\ key'[k] # "absent"
          /\ \A j \in Keys : key'[j] = key[j] \/ key'[j] = "active"
          /\ k # r.old_key /\ (r.new_key # NoKey => k = r.new_key)
          /\ \A i \in 1..n : stored[i] # k
    <3>1. CASE op[p].k # NoKey
      <4>1. stored' = Append(stored, op[p].k) /\ UNCHANGED key
        BY <1>6, <3>1 DEF StoreValue, Replace
      <4>2. Unused(op[p].k, r) /\ op[p].k = r.new_key  BY <2>1, <3>1, <1>2
      <4>3. QED  BY <4>1, <4>2 DEF Unused, n
    <3>2. CASE op[p].k = NoKey
      <4>1. PICK k \in Keys :
              Fresh(k) /\ stored' = Append(stored, k) /\ key' = [key EXCEPT ![k] = "active"]
        BY <1>6, <3>2 DEF StoreValue, Replace
      <4>2. key[k] = "absent"  BY <4>1 DEF Fresh
      <4>3. k # r.old_key /\ \A i \in 1..n : stored[i] # k
        BY <4>2, <1>2, <1>3 DEF RowAlone, Names, ValuesMade, n
      <4>4. r.new_key = NoKey  BY <2>1, <3>2, <1>2
      <4>5. QED  BY <4>1, <4>3, <4>4, <1>3
    <3>3. QED  BY <3>1, <3>2
  <2>3. ValuesMade' /\ RowAlone(rot[x])'
    <3> HIDE DEF OpAlone
    <3>1. QED  BY <2>2, <1>1, <1>2, <1>5, SoloValue DEF r
  <2>4. op'[p].pc = "versions" /\ op'[p].ver = op[p].ver  BY <2>1, <1>2 DEF Op
  <2>5. op[p].ver \in 1..n /\ r.state \in Storing  BY <2>1, <1>2 DEF OpOK
  <2>6. /\ Len(stored') = n + 1 /\ value' = k
        /\ \A i \in 1..n : stored'[i] = stored[i] /\ stored[i] \in Keys
    BY <2>2, <1>3 DEF value, n
  <2>7. op[p].ver < Len(stored') /\ stored'[op[p].ver] # r.new_key
    <3>1. stored'[op[p].ver] # k /\ stored'[op[p].ver] # NoKey  BY <2>2, <2>5, <2>6, <1>3
    <3>2. QED  BY <3>1, <2>2, <2>5, <2>6, <1>3
  <2>8. ASSUME NEW j \in 1..Len(stored'), j < Len(stored') PROVE stored'[j] # value'
    <3>1. j \in 1..n  BY <2>6, <2>8, <1>3
    <3>2. QED  BY <3>1, <2>2, <2>6
  <2>9. OpAlone(op[p], rot[x])'
    BY <2>2, <2>4, <2>5, <2>6, <2>7, <2>8, <1>4 DEF r
  <2> HIDE DEF OpAlone
  <2>10. QED  BY <2>3, <2>9, SoloStep
<1>7. CASE Restore(p)
  <2> DEFINE pc == IF op[p].snap.plan # NoPlan THEN "resync" ELSE "drop"
  <2>1. op[p].pc = "restore" /\ op' = [op EXCEPT ![p].pc = pc] /\ UNCHANGED key
    BY <1>7 DEF Restore, Goto
  <2>2. op'[p].pc = pc /\ op'[p].snap = op[p].snap  BY <2>1, <1>2 DEF Op
  <2>3. r.state = "rolling_back" /\ r.new_version # NoVersion
    BY <2>1, <1>2 DEF OpOK, RollbackSteps, SnapOK, Ahead, r
  <2>4. CASE op[p].k # NoKey
    <3>1. stored' = Append(stored, op[p].k) /\ op[p].k = stored[r.old_version]
      BY <2>1, <2>4, <1>2, <1>7 DEF Restore, Replace
    <3>2. op[p].k \in Keys /\ op[p].k # stored[r.new_version] /\ key[op[p].k] # "absent"
      BY <3>1, <2>3, <1>2, <1>3, <1>5 DEF RowAlone, Replaced, ValuesMade, n
    <3>3. ValuesMade' /\ RowAlone(rot[x])'
      <4>1. r.state \notin Working
        BY <2>3 DEF Working, Early, Late, Cleared
      <4> HIDE DEF OpAlone
      <4>2. QED  BY <4>1, <3>1, <3>2, <2>1, <1>1, <1>2, SoloValue DEF r
    <3>4. r.new_version < Len(stored')
      BY <3>1, <3>2, <2>3, <1>3, <1>5 DEF n
    <3>5. OpAlone(op[p], rot[x])'
      BY <3>4, <2>1, <2>2, <2>3, <1>2, <1>4 DEF r
    <3> HIDE DEF OpAlone
    <3>6. QED  BY <3>3, <3>5, SoloStep
  <2>5. CASE op[p].k = NoKey
    <3>1. UNCHANGED stored /\ r.new_version < Len(stored)
      BY <2>1, <2>5, <1>2, <1>7 DEF Restore
    <3>2. ValuesMade' /\ RowAlone(rot[x])'
      BY <3>1, <2>1, <1>1, <1>2 DEF ValuesMade, RowAlone, Names, Replaced, Deployed,
         Returned, MayReturn, value, CanDisable, Destroyed, r
    <3>3. OpAlone(op[p], rot[x])'
      BY <3>1, <2>1, <2>2, <2>3, <1>2, <1>4 DEF r
    <3> HIDE DEF OpAlone
    <3>4. QED  BY <3>2, <3>3, SoloStep
  <2>6. QED  BY <2>4, <2>5
<1>8. QED  BY <1>6, <1>7

\* The user replaces the value with a key of their own.
LEMMA SoloUser ==
  ASSUME Alone, IInv, SInv, NEW x \in Rotations, ReplaceByUser
  PROVE  SInv'
<1> DEFINE r == rot[x]  n == Len(stored)
<1>1. UNCHANGED <<provider, rot, plans, dest, op>> /\ r' = r  BY DEF ReplaceByUser
<1>2. RowAlone(r) /\ r \in Row /\ ValuesMade /\ RowOK(r, n, Len(plans))
  BY DEF SInv, IInv, RowsOK
<1>3. stored \in Seq(Keys) /\ n \in 1..MaxVersions /\ MaxVersions \in Nat
      /\ Keys \subseteq Nat /\ NoKey \notin Keys /\ key \in [Keys -> KeyStates]
  BY SoloWorld
<1>4. PICK k \in Keys :
        Fresh(k) /\ stored' = Append(stored, k) /\ key' = [key EXCEPT ![k] = "active"]
  BY DEF ReplaceByUser, Replace
<1>5. key[k] = "absent" /\ key'[k] = "active"
      /\ \A j \in Keys : key'[j] = key[j] \/ key'[j] = "active"
  BY <1>3, <1>4 DEF Fresh
<1>6. k # r.old_key /\ \A i \in 1..n : stored[i] # k
  BY <1>2, <1>3, <1>5 DEF RowAlone, Names, ValuesMade
<1>7. r.new_version # NoVersion => r.new_version \in 1..n /\ r.old_version \in 1..n
  BY <1>2, <1>3 DEF RowOK, Row, NoVersion
<1>8. r.new_version \in Nat  BY <1>2, <1>3 DEF Row
<1> HIDE DEF n
<1>9. ValuesMade' /\ RowAlone(rot[x])'
  BY <1>1, <1>2, <1>4, <1>5, <1>6, <1>7, SoloValue
<1>10. /\ Len(stored') = n + 1 /\ value' = k
       /\ \A i \in 1..n : stored'[i] = stored[i]
  BY <1>3, <1>4 DEF value, n
<1> HIDE DEF r
<1>11. ASSUME NEW j, Unused(j, r) PROVE Unused(j, r)'
  <2>1. j \in Keys /\ key[j] # "absent" /\ j # r.old_key /\ \A i \in 1..n : stored[i] # j
    BY <1>11 DEF Unused, n
  <2>2. j # k /\ key'[j] # "absent"  BY <2>1, <1>5
  <2>3. ASSUME NEW i \in 1..Len(stored') PROVE stored'[i] # j
    <3>1. CASE i = n + 1
      <4>1. stored'[i] = k  BY <3>1, <1>3, <1>4 DEF n
      <4>2. QED  BY <4>1, <2>2
    <3>2. CASE i # n + 1
      <4>1. i \in 1..n  BY <3>2, <1>3, <1>10
      <4>2. QED  BY <4>1, <2>1, <1>10
    <3>3. QED  BY <3>1, <3>2
  <2>4. QED  BY <2>1, <2>2, <2>3, <1>1 DEF Unused
<1>12. ASSUME NEW p \in Procs, op[p].pc # "idle" PROVE OpAlone(op[p], rot[x])'
  <2> DEFINE o == op[p]
  <2>1. OpAlone(o, r) /\ OpOK(o, rot, n, Len(plans)) /\ o' = o
    BY <1>1, <1>12, SoloHere DEF r, n
  <2>2. o.pc = "versions" => o.ver \in 1..n  BY <2>1 DEF OpOK
  <2>3. o.pc \in RollbackSteps => r.new_version # NoVersion
    BY <1>12, <2>1, SoloHere DEF OpOK, SnapOK, Ahead, RollbackSteps, r
  <2> HIDE DEF o
  <2>4. CopyAlone(o, r)'  BY <2>1, <1>1 DEF OpAlone, CopyAlone
  <2>5. HandAlone(o, r)'
    <3>1. o.pc = "versions" =>
            /\ o.ver < Len(stored') /\ stored'[o.ver] # r.new_key
            /\ \A j \in 1..Len(stored') : j < Len(stored') => stored'[j] # value'
            /\ value' # r.old_key
      <4>1. SUFFICES ASSUME o.pc = "versions"
                     PROVE  /\ o.ver < Len(stored') /\ stored'[o.ver] # r.new_key
                            /\ \A j \in 1..Len(stored') : j < Len(stored') => stored'[j] # value'
                            /\ value' # r.old_key
        OBVIOUS
      <4>2. o.ver \in 1..n /\ stored[o.ver] # r.new_key
        BY <4>1, <2>1, <2>2 DEF OpAlone, HandAlone
      <4>3. ASSUME NEW j \in 1..Len(stored'), j < Len(stored') PROVE stored'[j] # value'
        <5>1. j \in 1..n  BY <4>3, <1>3, <1>10
        <5>2. QED  BY <5>1, <1>6, <1>10
      <4>4. QED  BY <4>2, <4>3, <1>3, <1>6, <1>10
    <3>2. QED  BY <3>1, <2>1, <1>1, <1>11 DEF OpAlone, HandAlone
  <2>6. BackAlone(o, r)'
    <3>1. r.new_version < n => r.new_version < Len(stored')  BY <1>3, <1>8, <1>10
    <3>2. r.new_version # NoVersion => stored'[r.old_version] = stored[r.old_version]
      BY <1>7, <1>10
    <3>3. QED
      BY <3>1, <3>2, <2>1, <2>3, <1>1 DEF OpAlone, BackAlone, MayReturn, CanDisable,
         RollbackSteps, n
  <2>7. QED  BY <2>4, <2>5, <2>6 DEF OpAlone, o, r
<1>13. QED  BY <1>1, <1>9, <1>12, SoloOutside

\* 404: the revocation was done before, or a person has to look.
LEMMA SoloNotFound ==
  ASSUME Alone, IInv, SInv, NEW p \in Procs, NEW x \in Rotations, NotFound(p)
  PROVE  SInv'
<1>1. op[p].pc = "revoke" /\ UNCHANGED world  BY DEF NotFound, At
<1>2. /\ op[p].x = x /\ RowAlone(rot[x]) /\ rot[x] \in Row /\ rot \in [Rotations -> Row]
  BY <1>1, SoloHere
<1>3. CASE Goto(p, "revoked") /\ UNCHANGED rot
  <2>1. PICK o \in Op : op' = [op EXCEPT ![p] = o] /\ o.pc = "revoked"
    BY <1>3, GotoMeans DEF Steps
  <2>2. OpAlone(o, rot[x])
    BY <2>1 DEF OpAlone, CopyAlone, HandAlone, BackAlone, Exact, Undoing
  <2>3. QED  BY <1>1, <1>3, <2>1, <2>2, SoloMovesAlone
<1>4. CASE SetState(op[p].x, "old_disabled", "manual_required") /\ Return(p)
  <2> DEFINE rr == [rot[x] EXCEPT !.state = "manual_required"]
  <2>1. RowAlone(rr)
    BY <1>2, SoloState DEF States, Early, Late, Cleared, Working
  <2>2. rot' = [rot EXCEPT ![x] = rr]  BY <1>2, <1>4 DEF SetState
  <2> HIDE DEF rr
  <2>3. op' = [op EXCEPT ![p] = Idle] /\ Idle.pc = "idle"  BY <1>4 DEF Return, Idle
  <2>4. QED  BY <1>1, <2>1, <2>2, <2>3, SoloMoves DEF world
<1>5. QED  BY <1>3, <1>4 DEF NotFound

\* A plan is made: none of its steps is recorded EXECUTED.
LEMMA SoloMakePlan ==
  ASSUME Alone, IInv, SInv, NEW p \in Procs, NEW x \in Rotations, MakePlan(p)
  PROVE  SInv'
<1> DEFINE r == rot[x]  m == Len(plans)  rr == [r EXCEPT !.plan = m + 1]
           pl == [to |-> value_version, from |-> value_version - 1,
                  step |-> [d \in Dests |-> "planned"]]
<1>1. /\ op[p].pc = "step" /\ op[p].snap.state = "replacement_stored"
      /\ UNCHANGED <<provider, stored, key, dest>> /\ Goto(p, "planned")
      /\ plans' = Append(plans, pl)
  BY DEF MakePlan, Seen, At
<1>2. /\ op[p].x = x /\ RowAlone(r) /\ r \in Row /\ rot \in [Rotations -> Row]
      /\ OpAlone(op[p], r) /\ ValuesMade
  BY <1>1, SoloHere DEF SInv
<1>3. r.state = "replacement_stored"
  BY <1>1, <1>2 DEF OpAlone, CopyAlone, Exact
<1>4. plans \in Seq(PlanRow) /\ m \in Nat  BY SoloWorld
<1>5. rot'[x] = rr  BY <1>2 DEF MakePlan
<1>6. plans'[m + 1].step = [d \in Dests |-> "planned"]
  BY <1>1, <1>4
<1>7. /\ rr.state = r.state /\ rr.old_version = r.old_version
      /\ rr.new_version = r.new_version /\ rr.plan = m + 1 /\ rr.old_key = r.old_key
      /\ rr.new_key = r.new_key /\ rr.attempted = r.attempted
  BY <1>2 DEF Row
<1> HIDE DEF rr, r, m, pl
<1>8. RowAlone(rot[x])'
  <2>1. Names(rot[x])' /\ Replaced(rot[x])' /\ Returned(rot[x])'
    BY <1>1, <1>2, <1>3, <1>5, <1>7 DEF RowAlone, Names, Replaced, Returned, MayReturn,
       value, CanDisable, Destroyed
  <2>2. Deployed(rot[x])'
    BY <1>1, <1>2, <1>3, <1>5, <1>6, <1>7 DEF RowAlone, Deployed, Cleared
  <2>3. QED  BY <2>1, <2>2 DEF RowAlone
<1>9. PICK o \in Op : op' = [op EXCEPT ![p] = o] /\ o.pc = "planned"
  BY <1>1, GotoMeans DEF Steps
<1>10. op'[p].pc = "planned"  BY <1>9, SoloHere
<1>11. OpAlone(op[p], rot[x])'
  BY <1>10 DEF OpAlone, CopyAlone, HandAlone, BackAlone, Exact, Undoing
<1>12. ValuesMade'  BY <1>1, <1>2 DEF ValuesMade
<1>13. QED  BY <1>8, <1>11, <1>12, SoloStep

\* One destination is written, or written back, and its step recorded.
LEMMA SoloDestinations ==
  ASSUME Alone, IInv, SInv, NEW p \in Procs, NEW x \in Rotations, NEW d \in Dests,
         ExecuteStep(p, d) \/ UndoStep(p, d) \/ UndoFails(p, d)
  PROVE  SInv'
<1> DEFINE r == rot[x]  m == Len(plans)  i == op[p].snap.plan
<1>1. /\ op[p].pc \in {"exec", "undo"} /\ UNCHANGED <<provider, rot, stored, key>>
      /\ r' = r
  BY DEF ExecuteStep, UndoStep, UndoFails, At
<1>2. /\ op[p].x = x /\ RowAlone(r) /\ r \in Row /\ OpAlone(op[p], r) /\ ValuesMade
      /\ op[p] \in Op /\ op \in [Procs -> Op] /\ OpOK(op[p], rot, Len(stored), m)
  BY <1>1, SoloHere DEF SInv
<1>3. i = r.plan /\ i \in 1..m
  <2>1. i # NoPlan /\ i \in Nat /\ i <= m
    BY <1>1, <1>2, KeysAssumption DEF OpOK, SnapOK, RowOK, Row
  <2>2. i = r.plan
    BY <1>1, <1>2 DEF OpAlone, CopyAlone, Exact, Undoing
  <2>3. QED  BY <2>1, <2>2, SoloWorld DEF NoPlan
<1>4. plans \in Seq(PlanRow) /\ dest \in [Dests -> Keys]  BY SoloWorld
<1>5. \E s \in {"executed", "failed", "rolled_back"} :
        /\ plans' = [plans EXCEPT ![i].step[d] = s]
        /\ s = "executed" => dest' = [dest EXCEPT ![d] = op[p].k] /\ op[p].pc = "exec"
        /\ \/ UNCHANGED dest
           \/ dest' = [dest EXCEPT ![d] = op[p].k] /\ (op[p].pc = "exec" \/ s = "rolled_back")
  BY DEF ExecuteStep, UndoStep, UndoFails, MarkStep, At
<1>6. PICK s \in {"executed", "failed", "rolled_back"} :
        /\ plans' = [plans EXCEPT ![i].step[d] = s]
        /\ s = "executed" => dest' = [dest EXCEPT ![d] = op[p].k] /\ op[p].pc = "exec"
        /\ \/ UNCHANGED dest
           \/ dest' = [dest EXCEPT ![d] = op[p].k] /\ (op[p].pc = "exec" \/ s = "rolled_back")
  BY <1>5
<1>7. /\ \A e \in Dests : dest'[e] = dest[e] \/ (e = d /\ dest'[e] = op[p].k)
      /\ s = "executed" => dest'[d] = op[p].k
  BY <1>4, <1>6
<1>8. \A e \in Dests : plans'[i].step[e] = (IF e = d THEN s ELSE plans[i].step[e])
  <2>1. plans[i] \in PlanRow  BY <1>3, <1>4
  <2>2. plans'[i].step = [plans[i].step EXCEPT ![d] = s]
    BY <2>1, <1>3, <1>4, <1>6 DEF PlanRow
  <2>3. plans[i].step \in [Dests -> StepStates]  BY <2>1 DEF PlanRow
  <2>4. QED  BY <2>2, <2>3
<1>9. op'[p].pc = op[p].pc /\ op'[p].snap = op[p].snap /\ op'[p].k = op[p].k
  <2>1. \/ op' = [op EXCEPT ![p].todo = @ \ {d}]
        \/ op' = [op EXCEPT ![p].todo = @ \ {d}, ![p].any = TRUE]
    BY DEF ExecuteStep, UndoStep, UndoFails, Tick
  <2>2. QED  BY <2>1, <1>2 DEF Op
<1> HIDE DEF r, m, i
<1>10. op[p].pc = "exec" => op[p].k # r.old_key
  BY <1>2 DEF OpAlone, HandAlone
<1>11. op[p].pc = "undo" => r.state = "rolling_back"
  BY <1>2 DEF OpAlone, CopyAlone, Undoing
<1>12. RowAlone(r)'
  <2>1. Names(r)' /\ Replaced(r)' /\ Returned(r)'
    BY <1>1, <1>2 DEF RowAlone, Names, Replaced, Returned, MayReturn, value, CanDisable,
       Destroyed
  <2>2. ASSUME NEW e \in Dests, plans'[r.plan].step[e] = "executed"
        PROVE  dest'[e] # r.old_key
    <3>1. CASE e = d
      <4>1. s = "executed"  BY <3>1, <2>2, <1>3, <1>8
      <4>2. QED  BY <4>1, <3>1, <1>6, <1>7, <1>10
    <3>2. CASE e # d
      <4>1. dest'[e] = dest[e] /\ plans[r.plan].step[e] = "executed"
        BY <3>2, <2>2, <1>3, <1>7, <1>8
      <4>2. r.plan # NoPlan  BY <1>3 DEF NoPlan
      <4>3. QED  BY <4>1, <4>2, <1>2 DEF RowAlone, Deployed
    <3>3. QED  BY <3>1, <3>2
  <2>3. ASSUME r.state \in Cleared, NEW e \in Dests PROVE dest'[e] # r.old_key
    <3>1. op[p].pc = "exec"  BY <2>3, <1>1, <1>11 DEF Cleared
    <3>2. dest[e] # r.old_key  BY <2>3, <1>2 DEF RowAlone, Deployed
    <3>3. QED  BY <3>1, <3>2, <1>7, <1>10
  <2>4. Deployed(r)'  BY <2>2, <2>3, <1>1 DEF Deployed
  <2>5. QED  BY <2>1, <2>4 DEF RowAlone
<1>13. OpAlone(op[p], rot[x])'
  BY <1>1, <1>2, <1>9 DEF OpAlone, CopyAlone, HandAlone, BackAlone, Exact, Undoing, r
<1>14. ValuesMade'  BY <1>1, <1>2 DEF ValuesMade
<1>15. QED  BY <1>12, <1>13, <1>14, SoloStep DEF r

\* A rotation is planned: before, no key was destroyed, and nothing was in its row.
LEMMA SoloPlan ==
  ASSUME Alone, IInv, SInv, NEW x \in Rotations, Plan(x)
  PROVE  SInv'
<1> DEFINE r == rot[x]
<1>1. /\ r.state = "none" /\ RowAlone(r) /\ ValuesMade /\ rot \in [Rotations -> Row]
      /\ UNCHANGED <<provider, stored, key, plans, dest, op>>
  BY DEF Plan, SInv, IInv, RowsOK, world
<1>2. r = NewRow  BY <1>1 DEF RowAlone, Names
<1>3. PICK mode \in {"api_create", "manual_create"}, k \in {NoKey, value} :
        rot' = [rot EXCEPT ![x].state = "planned", ![x].mode = mode, ![x].old_key = k]
  BY DEF Plan, value, value_version
<1> DEFINE rr == [NewRow EXCEPT !.state = "planned", !.mode = mode, !.old_key = k]
<1>4. rot'[x] = rr
  <2>1. rot'[x] = [r EXCEPT !.state = "planned", !.mode = mode, !.old_key = k]
    BY <1>1, <1>3
  <2>2. QED  BY <2>1, <1>2
<1>5. /\ rr.state = "planned" /\ rr.old_version = NoVersion /\ rr.new_version = NoVersion
      /\ rr.plan = NoPlan /\ rr.old_key = k /\ rr.new_key = NoKey /\ rr.attempted = FALSE
  BY DEF NewRow
<1> HIDE DEF rr
<1>6. k # NoKey => key[k] # "absent"
  <2>1. Len(stored) \in 1..Len(stored)  BY SoloWorld
  <2>2. QED  BY <2>1, <1>1 DEF ValuesMade, value
<1>7. \A j \in Keys : ~CanDisable => ~Destroyed(j)
  <2>1. r.new_key = NoKey /\ r.old_key = NoKey  BY <1>2 DEF NewRow
  <2>2. QED  BY <2>1, <1>1, SoloWorld DEF RowAlone, Returned
<1>8. RowAlone(rot[x])'
  BY <1>1, <1>4, <1>5, <1>6, <1>7 DEF RowAlone, Names, Replaced, Deployed, Returned, MayReturn,
     Early, Late, Cleared, CanDisable, Destroyed
<1>9. ValuesMade'  BY <1>1 DEF ValuesMade
<1>10. ASSUME NEW p \in Procs PROVE op'[p].pc = "idle"
  BY <1>1, SoloHere, OpHere
<1>11. QED  BY <1>8, <1>9, <1>10, SoloOutside

\* The old key is deleted outside the program.
LEMMA SoloRemove ==
  ASSUME Alone, IInv, SInv, NEW x \in Rotations, RemoveOutside(x)
  PROVE  SInv'
<1>1. /\ UNCHANGED <<provider, rot, stored, plans, dest, op>>
      /\ key' = [key EXCEPT ![rot[x].old_key] = "removed"] /\ rot[x].old_key # NoKey
  BY DEF RemoveOutside
<1>2. ValuesMade' /\ RowAlone(rot[x])'
  BY <1>1, SoloKey DEF SInv, KeyStates
<1>3. ASSUME NEW p \in Procs, op[p].pc # "idle" PROVE OpAlone(op[p], rot[x])'
  <2>1. OpAlone(op[p], rot[x])  BY <1>3 DEF SInv
  <2>2. ASSUME NEW k, Unused(k, rot[x]) PROVE Unused(k, rot[x])'
    BY <2>2, <1>1, SoloWorld DEF Unused
  <2>3. QED
    BY <2>1, <2>2, <1>1 DEF OpAlone, CopyAlone, HandAlone, BackAlone, MayReturn, CanDisable,
       value
<1>4. QED  BY <1>1, <1>2, <1>3, SoloOutside

LEMMA SoloInit == Init => SInv
<1> SUFFICES ASSUME Init PROVE SInv  OBVIOUS
<1>1. stored = <<1>> /\ Len(stored) = 1 /\ 1 \in Keys /\ key[1] = "active"
  BY KeysAssumption DEF Init, Keys
<1>2. ValuesMade  BY <1>1 DEF ValuesMade
<1>3. ASSUME NEW x \in Rotations PROVE RowAlone(rot[x])
  <2>1. rot[x] = NewRow  BY DEF Init
  <2>2. \A k \in Keys : ~Destroyed(k)  BY DEF Init, Destroyed
  <2>3. QED
    BY <2>1, <2>2 DEF RowAlone, Names, Replaced, Deployed, Returned, NewRow, Late, Cleared
<1>4. \A p \in Procs : op[p].pc = "idle"  BY DEF Init, Idle
<1>5. QED  BY <1>2, <1>3, <1>4 DEF SInv

\* Every step of the only process, on the only rotation, preserves the invariant.
LEMMA SoloInvStep ==
  ASSUME Alone, IInv, SInv, [Next]_vars
  PROVE  SInv'
<1>1. CASE UNCHANGED vars
  BY <1>1 DEF vars, SInv, ValuesMade, RowAlone, Names, Replaced, Deployed, Returned, MayReturn,
     OpAlone, CopyAlone, HandAlone, BackAlone, Unused, value, CanDisable, Destroyed
<1>2. ASSUME NEW x \in Rotations, Plan(x) \/ RemoveOutside(x) PROVE SInv'
  BY <1>2, SoloPlan, SoloRemove
<1>3. ASSUME ReplaceByUser PROVE SInv'
  <2>1. CASE Rotations = {}
    <3>1. ASSUME NEW p \in Procs, op[p].pc # "idle" PROVE FALSE  BY <2>1, <3>1, OpHere
    <3>2. ValuesMade'
      <4>1. PICK k \in Keys : stored' = Append(stored, k) /\ key' = [key EXCEPT ![k] = "active"]
        BY <1>3 DEF ReplaceByUser, Replace
      <4>2. stored \in Seq(Keys) /\ key \in [Keys -> KeyStates]  BY SoloWorld
      <4>3. ASSUME NEW i \in 1..Len(stored') PROVE key'[stored'[i]] # "absent"
        <5>1. CASE i = Len(stored) + 1
          <6>1. stored'[i] = k  BY <5>1, <4>1, <4>2
          <6>2. QED  BY <6>1, <4>1, <4>2
        <5>2. CASE i # Len(stored) + 1
          <6>1. i \in 1..Len(stored) /\ stored'[i] = stored[i] /\ stored[i] \in Keys
            BY <5>2, <4>1, <4>2
          <6>2. key[stored[i]] # "absent"  BY <6>1 DEF SInv, ValuesMade
          <6>3. QED  BY <6>1, <6>2, <4>1, <4>2
        <5>3. QED  BY <5>1, <5>2
      <4>4. QED  BY <4>3 DEF ValuesMade
    <3>3. QED  BY <2>1, <3>2 DEF SInv
  <2>2. CASE \E x : x \in Rotations  BY <1>3, <2>2, SoloUser
  <2>3. QED  BY <2>1, <2>2
<1>4. ASSUME NEW p \in Procs, NEW x \in Rotations,
             BeginApprove(p, x) \/ BeginAdvance(p, x) \/ BeginCompleteManual(p, x)
             \/ BeginCancel(p, x) \/ BeginRollback(p, x)
      PROVE  SInv'
  BY <1>4, SoloBeginnings
<1>5. ASSUME NEW p \in Procs, op[p].pc # "idle" PROVE \E x : x \in Rotations
  BY <1>5, OpHere
<1>6. ASSUME NEW p \in Procs, Approve(p) \/ CompleteManual(p) \/ Cancel(p) \/ Leave(p)
      PROVE  SInv'
  BY <1>6, SoloSettling, SoloDeciding
<1>7. ASSUME NEW p \in Procs, Advance(p) PROVE SInv'
  <2>1. CASE Load(p) \/ TakeValue(p) \/ CheckStored(p) \/ BeginExecute(p) \/ Executed(p)
             \/ OwnVersion(p) \/ Validate(p) \/ AlreadyRevoked(p)
    BY <2>1, SoloDeciding
  <2>2. CASE ClaimApi(p) \/ AwaitKey(p) \/ ClaimCreation(p) \/ AlreadyStored(p) \/ Stored(p)
             \/ Planned(p) \/ DestinationsVerified(p) \/ EnterGrace(p) \/ OldDisabled(p)
             \/ RevokeByHand(p) \/ Complete(p)
    BY <2>2, SoloSettling
  <2>3. CASE NoteKey(p) \/ SetVersions(p) \/ MarkValidated(p) \/ NoteDisabled(p)
             \/ MarkAttempt(p) \/ NoteRevoked(p)
    BY <2>3, SoloNoting
  <2>4. CASE Create(p) \/ Disable(p) \/ Revoke(p) \/ StoreValue(p) \/ MakePlan(p)
             \/ NotFound(p) \/ \E d \in Dests : ExecuteStep(p, d)
    <3>1. \E x : x \in Rotations
      BY <2>4, <1>5 DEF Create, Disable, Revoke, StoreValue, MakePlan, NotFound, ExecuteStep,
         Seen, At
    <3>2. QED
      BY <2>4, <3>1, SoloProvider, SoloValueSteps, SoloMakePlan, SoloNotFound, SoloDestinations
  <2>5. QED  BY <1>7, <2>1, <2>2, <2>3, <2>4 DEF Advance
<1>8. ASSUME NEW p \in Procs, Rollback(p) PROVE SInv'
  <2>1. CASE EnterRollback(p) \/ Settle(p)  BY <2>1, SoloSettling
  <2>2. CASE BeginResync(p) \/ Undone(p) \/ \E d \in Dests : UndoAborts(p, d)
    BY <2>2, SoloDeciding
  <2>3. CASE Reenable(p) \/ Restore(p) \/ Drop(p)
             \/ \E d \in Dests : UndoStep(p, d) \/ UndoFails(p, d)
    <3>1. \E x : x \in Rotations
      BY <2>3, <1>5 DEF Reenable, Restore, Drop, UndoStep, UndoFails, At
    <3>2. QED  BY <2>3, <3>1, SoloProvider, SoloValueSteps, SoloDestinations
  <2>4. QED  BY <1>8, <2>1, <2>2, <2>3 DEF Rollback
<1>9. QED  BY <1>1, <1>2, <1>3, <1>4, <1>6, <1>7, <1>8 DEF Next

\* In every state a lone process reaches, the invariant holds.
LEMMA SoloInvariance == ASSUME Alone PROVE Spec => [](IInv /\ SInv)
<1>1. IInv /\ SInv /\ [Next]_vars => IInv' /\ SInv'
  BY InvStep, SoloInvStep
<1>2. QED  BY <1>1, InvInit, SoloInit, PTL DEF Spec

\* One process, which may die at any step and be started again by its user: a rotation that
\* reads rolled_back does not leave its own replacement as the vault's value, however often
\* the value was replaced meanwhile (rotation_rollback's restored value).
THEOREM RollbackTakesBack == ASSUME Alone PROVE Spec => []ValueRolledBack
<1>1. ASSUME IInv, SInv, NEW x \in Rotations, rot[x].state = "rolled_back"
      PROVE  stored[value_version] # stored[rot[x].new_version]
  <2>1. rot[x] \in Row /\ RowOK(rot[x], Len(stored), Len(plans)) /\ RowAlone(rot[x])
    BY <1>1 DEF IInv, RowsOK, SInv
  <2>2. rot[x].new_version # NoVersion /\ rot[x].new_version < Len(stored)
    BY <1>1, <2>1 DEF RowOK, WithValue, RowAlone, Returned
  <2>3. Len(stored) \in 1..Len(stored)  BY <1>1, SoloWorld
  <2>4. QED  BY <2>1, <2>2, <2>3 DEF RowAlone, Replaced, value_version
<1>2. IInv /\ SInv => ValueRolledBack  BY <1>1 DEF ValueRolledBack
<1>3. QED  BY <1>2, SoloInvariance, PTL

\* One process, and no provider whose connector disables keys: a rotation that reads
\* rolled_back did not put back a key the program deleted, wherever it died between a
\* revocation and its record (the refusals of rotation_rollback).
THEOREM RollbackRestoresLiveKey ==
  ASSUME Alone, "anthropic" \notin Providers PROVE Spec => []RestoredKeyLives
<1>1. ASSUME IInv, SInv, NEW x \in Rotations, rot[x].state = "rolled_back"
      PROVE  ~Destroyed(stored[rot[x].old_version])
  <2>1. rot[x] \in Row /\ RowOK(rot[x], Len(stored), Len(plans)) /\ RowAlone(rot[x])
    BY <1>1 DEF IInv, RowsOK, SInv
  <2>2. ~CanDisable  BY <1>1 DEF IInv, ValueOK, CanDisable
  <2>3. rot[x].new_version # NoVersion /\ rot[x].old_version \in 1..Len(stored)
    BY <1>1, <2>1, SoloWorld DEF RowOK, WithValue, Row, NoVersion
  <2>4. stored[rot[x].old_version] \in Keys /\ NoKey \notin Keys
    BY <1>1, <2>3, SoloWorld
  <2>5. stored[rot[x].old_version] # rot[x].new_key  BY <2>1, <2>3 DEF RowAlone, Replaced
  <2>6. QED  BY <1>1, <2>1, <2>2, <2>4, <2>5 DEF RowAlone, Returned, MayReturn
<1>2. IInv /\ SInv => RestoredKeyLives  BY <1>1 DEF RestoredKeyLives
<1>3. QED  BY <1>2, SoloInvariance, PTL

\* One process: when the program disables or revokes the old key, no destination serves it
\* and it is not the vault's value, whatever the user replaced while the destinations were
\* updated ("revoked only after verification").
THEOREM RevokedKeyUnused == ASSUME Alone PROVE Spec => OldKeyUnusedWhenRevoked
<1>1. ASSUME IInv, SInv, [Next]_vars, NEW x \in Rotations, rot[x].old_key # NoKey,
             ~Destroyed(rot[x].old_key), Destroyed(rot[x].old_key)'
      PROVE  stored[value_version] # rot[x].old_key /\ \A d \in Dests : dest[d] # rot[x].old_key
  <2>1. rot[x] \in Row /\ RowAlone(rot[x])  BY <1>1 DEF IInv, RowsOK, SInv
  <2>2. PICK k \in Keys : k = rot[x].old_key  BY <1>1, <2>1 DEF Row
  <2>3. rot'[x].old_key = k
    <3>1. rot[x].state # "none"  BY <1>1, <2>1 DEF RowAlone, Names, NewRow
    <3>2. Ahead(rot[x], rot'[x])  BY <1>1, InvStep DEF Grows
    <3>3. QED  BY <2>2, <3>1, <3>2 DEF Ahead
  <2>4. key \in [Keys -> KeyStates] /\ key[k] \notin {"inactive", "archived", "deleted"}
        /\ key'[k] \in {"inactive", "archived", "deleted"}
    BY <1>1, <2>2, <2>3, SoloWorld DEF Destroyed
  <2>5. ASSUME NEW j, NEW s, key' = [key EXCEPT ![j] = s] PROVE j = k /\ key'[k] = s
    BY <2>4, <2>5
  <2>6. PICK p \in Procs : Disable(p) \/ Revoke(p) \/ Drop(p)
    <3>1. ASSUME NEW j, NEW s \in {"active", "removed"}, key' = [key EXCEPT ![j] = s]
          PROVE  FALSE
      BY <2>4, <2>5, <3>1
    <3>2. QED  BY <1>1, <2>4, <3>1, KeyWrites
  <2>7. op[p].pc # "idle" => OpAlone(op[p], rot[x])  BY <1>1, SoloHere
  <2>8. rot[x].state \in Cleared
    <3>1. CASE Disable(p)
      <4>1. op[p].pc = "step" /\ op[p].snap.state = "grace_period"
        BY <3>1 DEF Disable, Seen, At
      <4>2. QED  BY <2>7, <4>1 DEF OpAlone, CopyAlone, Exact, Cleared
    <3>2. CASE Revoke(p)
      <4>1. op[p].pc = "revoke"  BY <3>2 DEF Revoke, At
      <4>2. QED  BY <2>7, <4>1 DEF OpAlone, CopyAlone, Cleared
    <3>3. CASE Drop(p)
      <4>1. op[p].pc = "drop" /\ key' = [key EXCEPT ![op[p].snap.new_key] = Revoked]
            /\ op[p].snap.new_key # NoKey
        BY <3>3, <2>4 DEF Drop, At
      <4>2. op[p].snap.new_key = k  BY <2>5, <4>1
      <4>3. rot[x].new_key = k  BY <2>7, <4>1, <4>2 DEF OpAlone, CopyAlone, Undoing
      <4>4. QED  BY <1>1, <2>1, <2>2, <4>3 DEF RowAlone, Names
    <3>4. QED  BY <2>6, <3>1, <3>2, <3>3
  <2>9. rot[x].state \in Late /\ rot[x].state \in Working  BY <2>8 DEF Late, Working
  <2>10. value # rot[x].old_key  BY <2>1, <2>9 DEF RowAlone, Names, Replaced
  <2>11. \A d \in Dests : dest[d] # rot[x].old_key  BY <2>1, <2>8 DEF RowAlone, Deployed
  <2>12. QED  BY <2>10, <2>11 DEF value, value_version
<1>2. IInv /\ SInv /\ [Next]_vars =>
        [\A x \in Rotations :
           LET k == rot[x].old_key
           IN k # NoKey /\ ~Destroyed(k) /\ Destroyed(k)' =>
                stored[value_version] # k /\ \A d \in Dests : dest[d] # k]_vars
  BY <1>1
<1>3. QED  BY <1>2, SoloInvariance, PTL DEF Spec, OldKeyUnusedWhenRevoked

\* Only the creating arm of rotation_advance creates a key at the provider.
LEMMA CreateWrites ==
  ASSUME [Next]_vars
  PROVE  UNCHANGED creates \/ \E p \in Procs : Create(p)
<1> USE DEF world
<1>1. CASE UNCHANGED vars  BY <1>1 DEF vars
<1>2. CASE ReplaceByUser \/ \E x \in Rotations : Plan(x) \/ RemoveOutside(x)
  BY <1>2 DEF ReplaceByUser, Plan, RemoveOutside
<1>3. ASSUME NEW p \in Procs, NEW x \in Rotations,
             BeginApprove(p, x) \/ BeginAdvance(p, x) \/ BeginCompleteManual(p, x)
             \/ BeginCancel(p, x) \/ BeginRollback(p, x)
      PROVE  UNCHANGED creates
  BY <1>3 DEF BeginApprove, BeginAdvance, BeginCompleteManual, BeginCancel, BeginRollback
<1>4. ASSUME NEW p \in Procs,
             Approve(p) \/ CompleteManual(p) \/ Cancel(p) \/ Leave(p) \/ Rollback(p)
      PROVE  UNCHANGED creates
  BY <1>4 DEF Approve, CompleteManual, Cancel, Leave, Rollback, EnterRollback, Reenable,
     Restore, BeginResync, Undone, UndoStep, UndoAborts, UndoFails, Drop, Settle
<1>5. ASSUME NEW p \in Procs, Advance(p), ~Create(p) PROVE UNCHANGED creates
  <2>1. CASE Load(p) \/ ClaimApi(p) \/ AwaitKey(p) \/ TakeValue(p) \/ ClaimCreation(p)
             \/ AlreadyStored(p) \/ NoteKey(p) \/ CheckStored(p) \/ StoreValue(p)
             \/ SetVersions(p) \/ Stored(p)
    BY <2>1 DEF Load, ClaimApi, AwaitKey, TakeValue, ClaimCreation, AlreadyStored, NoteKey,
       CheckStored, StoreValue, SetVersions, Stored
  <2>2. CASE MakePlan(p) \/ Planned(p) \/ BeginExecute(p) \/ (\E d \in Dests : ExecuteStep(p, d))
             \/ Executed(p) \/ DestinationsVerified(p) \/ OwnVersion(p) \/ Validate(p)
             \/ MarkValidated(p) \/ EnterGrace(p)
    BY <2>2 DEF MakePlan, Planned, BeginExecute, ExecuteStep, Executed, DestinationsVerified,
       OwnVersion, Validate, MarkValidated, EnterGrace
  <2>3. CASE Disable(p) \/ NoteDisabled(p) \/ OldDisabled(p) \/ AlreadyRevoked(p)
             \/ RevokeByHand(p) \/ MarkAttempt(p) \/ Revoke(p) \/ NotFound(p)
             \/ NoteRevoked(p) \/ Complete(p)
    BY <2>3 DEF Disable, NoteDisabled, OldDisabled, AlreadyRevoked, RevokeByHand, MarkAttempt,
       Revoke, NotFound, NoteRevoked, Complete
  <2>4. QED  BY <1>5, <2>1, <2>2, <2>3 DEF Advance
<1>6. QED  BY <1>1, <1>2, <1>3, <1>4, <1>5 DEF Next

\* One process: once a created key is on record, the rotation creates no further one,
\* wherever the process died in between (the orphan guard of rotation_advance).
THEOREM OrphanGuarded == ASSUME Alone PROVE Spec => OrphanSurfaced
<1>1. ASSUME IInv, SInv, [Next]_vars, NEW x \in Rotations, creates'[x] > creates[x]
      PROVE  rot[x].new_key = NoKey
  <2>1. PICK p \in Procs : Create(p)
    <3>1. creates \in [Rotations -> 0..MaxKeys]  BY <1>1 DEF IInv, KeysOK
    <3>2. creates[x] \in Nat  BY <3>1, KeysAssumption
    <3>3. QED  BY <1>1, <3>2, CreateWrites
  <2>2. op[p].pc = "step" /\ op[p].snap.new_version = NoVersion /\ ~Orphaned(op[p].snap)
    BY <2>1 DEF Create, Seen, At
  <2>3. op[p].snap = rot[x]  BY <1>1, <2>2, SoloHere DEF OpAlone, CopyAlone, Exact
  <2>4. QED  BY <2>2, <2>3 DEF Orphaned
<1>2. IInv /\ SInv /\ [Next]_vars =>
        [\A x \in Rotations : creates'[x] > creates[x] => rot[x].new_key = NoKey]_vars
  BY <1>1
<1>3. QED  BY <1>2, SoloInvariance, PTL DEF Spec, OrphanSurfaced
=============================================================================

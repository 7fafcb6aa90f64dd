------------------------------ MODULE Rotation ------------------------------
(***************************************************************************)
(* The durable key rotation of crates/core: rows of `rotations`            *)
(* (rotation.rs), the operations of vault.rs that drive them, the stored   *)
(* versions of the credential, the provider's keys and the destinations    *)
(* the value is deployed to.  One credential; any number of processes (the *)
(* CLI, the desktop app) run rotation operations against the same SQLite   *)
(* file.                                                                   *)
(*                                                                         *)
(* Every database statement and every provider call is a step of its own,  *)
(* because nothing locks a rotation across them: an operation loads the    *)
(* row (`snap`), decides from that copy, and the only guard on a later     *)
(* write is set_state's compare-and-swap on `state`.  Adjacent reads, and  *)
(* a write followed by a read that only its own process can tell apart,    *)
(* are one step.                                                           *)
(*                                                                         *)
(* Leave(p) ends an operation at any step and changes nothing else.  It    *)
(* stands for every early return of the code (grace not over, continued    *)
(* use, a refused compare-and-swap, a failed call before it took effect),  *)
(* for a provider response lost after the call took effect, and for the    *)
(* death of the process: in all of them the row keeps what was written.    *)
(***************************************************************************)
EXTENDS Integers, Sequences, FiniteSets

CONSTANTS Rotations,   \* ids of rows of `rotations`, all of the one credential
          Procs,       \* processes that run rotation operations
          Dests,       \* attachments a sync plan writes
          Exports,     \* those that are recorded .env exports (ACTION_REEXPORT)
          Providers,   \* subset of {"openai", "anthropic", "github"}
          MaxKeys,     \* bound: provider keys ever created
          MaxVersions, \* bound: value_version of the credential
          MaxPlans     \* bound: sync plans created

ASSUME KeysAssumption == MaxKeys \in Nat \ {0} /\ MaxVersions \in Nat \ {0} /\ MaxPlans \in Nat
ASSUME DestsAssumption == Exports \subseteq Dests
ASSUME ProvidersAssumption == Providers \subseteq {"openai", "anthropic", "github"}

Keys == 1..MaxKeys      \* key 1 is the one the credential starts with
NoKey == 0
NoVersion == 0
NoPlan == 0
Nobody == "no rotation"

KeyStates == {"absent", "active", "inactive", "archived", "deleted", "removed"}
States == {"none", "planned", "approved", "creating_replacement", "creating_in_progress",
           "awaiting_manual_key", "replacement_stored", "updating_destinations",
           "destinations_verified", "grace_period", "old_disabled", "completed", "failed",
           "rolling_back", "rolled_back", "manual_required"}
StepStates == {"planned", "executed", "failed", "rolled_back"}

VARIABLES
  provider,   \* the credential's provider
  rot,        \* [Rotations -> Row]: the table `rotations` (and its revoke marker event)
  stored,     \* Seq(Keys): the key each version of the value holds; the last is current
  key,        \* [Keys -> KeyStates]: what the provider would answer; "removed": deleted
              \* by its owner outside the program
  plans,      \* sequence of [to, from, step]: the table of sync plans
  dest,       \* [Dests -> Keys]: the key each destination serves
  op,         \* [Procs -> Op]: the operation a process is in, and its locals
  creates,    \* [Rotations -> Nat]: provider-side creations performed for a rotation
  checked     \* [Rotations -> Keys \cup {NoKey}]: the key whose validation set the flag

vars == <<provider, rot, stored, key, plans, dest, op, creates, checked>>
world == <<provider, stored, key, plans, dest, creates, checked>>

Row == [state : States, mode : {"api_create", "manual_create"},
        old_version : 0..MaxVersions, new_version : 0..MaxVersions, plan : 0..MaxPlans,
        old_key : Keys \cup {NoKey}, new_key : Keys \cup {NoKey},
        validated : BOOLEAN, disabled : BOOLEAN, revoked : BOOLEAN, attempted : BOOLEAN]

NewRow == [state |-> "none", mode |-> "manual_create", old_version |-> NoVersion,
           new_version |-> NoVersion, plan |-> NoPlan, old_key |-> NoKey, new_key |-> NoKey,
           validated |-> FALSE, disabled |-> FALSE, revoked |-> FALSE, attempted |-> FALSE]

Steps == {"idle", "approve", "load", "step", "created", "store", "replace", "versions",
          "stored", "planned", "exec", "executed", "validate", "validated", "grace",
          "disabled", "disabling", "revoke", "revoked", "complete", "complete_manual",
          "cancel", "rollback", "reenable", "restore", "resync", "undo", "drop", "settle"}

\* snap: the row as loaded; give: a value came with the call; k: the key in hand;
\* ver: the version in hand; todo: destinations left; any: some step rolled back;
\* before: a revoke was attempted earlier; bad: a rollback step failed.
Op == [pc : Steps, x : Rotations \cup {Nobody}, snap : Row, give : BOOLEAN,
       k : Keys \cup {NoKey}, ver : 0..MaxVersions, todo : SUBSET Dests,
       any : BOOLEAN, before : BOOLEAN, bad : BOOLEAN]

Idle == [pc |-> "idle", x |-> Nobody, snap |-> NewRow, give |-> FALSE, k |-> NoKey,
         ver |-> NoVersion, todo |-> {}, any |-> FALSE, before |-> FALSE, bad |-> FALSE]

\* Types; and a rotation names only versions the credential has.
TypeOK ==
  /\ provider \in Providers
  /\ rot \in [Rotations -> Row]
  /\ \A x \in Rotations : rot[x].old_version <= Len(stored) /\ rot[x].new_version <= Len(stored)
  /\ stored \in Seq(Keys) /\ Len(stored) \in 1..MaxVersions
  /\ key \in [Keys -> KeyStates]
  /\ plans \in Seq([to : 1..MaxVersions, from : 0..MaxVersions, step : [Dests -> StepStates]])
  /\ Len(plans) \in 0..MaxPlans
  /\ dest \in [Dests -> Keys]
  /\ op \in [Procs -> Op]
  /\ creates \in [Rotations -> 0..MaxKeys]
  /\ checked \in [Rotations -> Keys \cup {NoKey}]

Init ==
  /\ provider \in Providers
  /\ rot = [x \in Rotations |-> NewRow]
  /\ stored = <<1>>
  /\ key = [k \in Keys |-> IF k = 1 THEN "active" ELSE "absent"]
  /\ plans = <<>>
  /\ dest = [d \in Dests |-> 1]
  /\ op = [p \in Procs |-> Idle]
  /\ creates = [x \in Rotations |-> 0]
  /\ checked = [x \in Rotations |-> NoKey]

(***************************************************************************)
(* What each provider can do, the version numbers, and the two writes the  *)
(* operations share.                                                       *)
(***************************************************************************)
CanCreate == provider = "openai"
CanDisable == provider = "anthropic"
CanRevoke == provider \in {"openai", "anthropic"}
RevokeIsReversible == provider = "anthropic"
Revoked == IF RevokeIsReversible THEN "archived" ELSE "deleted"
Gone == {"absent", "deleted", "removed"}   \* the provider answers 404

value_version == Len(stored)
Fresh(k) == key[k] = "absent" /\ \A j \in 1..(k - 1) : key[j] # "absent"

\* replace_credential_value: the outgoing value is retained, the version moves by one.
Replace(k) == value_version < MaxVersions /\ stored' = Append(stored, k)

\* set_state without its WHERE clause on the state the caller saw.
SetStateBlind(x, from, to) == rot' = [rot EXCEPT ![x].state = to]

\* set_state: the write lands only on a row still in `from`; otherwise the caller leaves.
SetState(x, from, to) == rot[x].state = from /\ rot' = [rot EXCEPT ![x].state = to]

At(p, pc) == op[p].pc = pc
Goto(p, pc) == op' = [op EXCEPT ![p].pc = pc]
Return(p) == op' = [op EXCEPT ![p] = Idle]
\* Back to the top of rotation_advance's loop, which loads the row again.
Again(p) == op' = [op EXCEPT ![p] = [Idle EXCEPT !.pc = "load", !.x = op[p].x, !.give = op[p].give]]
Seen(p, s) == At(p, "step") /\ op[p].snap.state = s

(***************************************************************************)
(* Planning and approval.                                                  *)
(***************************************************************************)

\* rotation_plan is one INSERT: the mode needs an administrative connection, the old
\* key's id is the newest confirmed link, or unknown.
Plan(x) ==
  /\ rot[x].state = "none"
  /\ \E m \in (IF CanCreate THEN {"api_create", "manual_create"} ELSE {"manual_create"}),
        k \in {NoKey, stored[value_version]} :
       rot' = [rot EXCEPT ![x].state = "planned", ![x].mode = m, ![x].old_key = k]
  /\ UNCHANGED <<world, op>>

Elsewhere(x) == {y \in Rotations \ {x} :
                   rot[y].state \notin {"none", "planned", "completed", "rolled_back", "failed"}}

BeginApprove(p, x) ==
  /\ At(p, "idle") /\ rot[x].state = "planned" /\ Elsewhere(x) = {}
  /\ op' = [op EXCEPT ![p] = [Idle EXCEPT !.pc = "approve", !.x = x]]
  /\ UNCHANGED <<world, rot>>

Approve(p) ==
  /\ At(p, "approve") /\ SetState(op[p].x, "planned", "approved") /\ Return(p)
  /\ UNCHANGED world

(***************************************************************************)
(* rotation_advance: up to twelve rounds of load, then one state's step.   *)
(***************************************************************************)
BeginAdvance(p, x) ==
  /\ At(p, "idle") /\ rot[x].state \notin {"none", "planned"}
  /\ \E g \in BOOLEAN :
       op' = [op EXCEPT ![p] = [Idle EXCEPT !.pc = "load", !.x = x, !.give = g]]
  /\ UNCHANGED <<world, rot>>

Load(p) ==
  /\ At(p, "load")
  /\ op' = [op EXCEPT ![p].pc = "step", ![p].snap = rot[op[p].x]]
  /\ UNCHANGED <<world, rot>>

\* A provider key was created but its value never stored: creating again would orphan it.
Orphaned(row) == row.new_key # NoKey /\ row.new_version = NoVersion

ClaimApi(p) ==
  /\ Seen(p, "approved") /\ op[p].snap.mode = "api_create" /\ ~op[p].give
  /\ SetState(op[p].x, "approved", "creating_replacement") /\ Again(p)
  /\ UNCHANGED world

AwaitKey(p) ==
  /\ Seen(p, "approved") /\ op[p].snap.mode = "manual_create" /\ ~op[p].give
  /\ SetState(op[p].x, "approved", "awaiting_manual_key") /\ Return(p)
  /\ UNCHANGED world

TakeValue(p) ==
  /\ \/ Seen(p, "approved") /\ op[p].snap.mode = "manual_create"
     \/ Seen(p, "awaiting_manual_key")
  /\ op[p].give
  /\ op' = [op EXCEPT ![p].pc = "store", ![p].give = FALSE]
  /\ UNCHANGED <<world, rot>>

ClaimCreation(p) ==
  /\ Seen(p, "creating_replacement") /\ ~Orphaned(op[p].snap)
  /\ SetState(op[p].x, "creating_replacement", "creating_in_progress") /\ Again(p)
  /\ UNCHANGED world

AlreadyStored(p) ==
  /\ Seen(p, "creating_in_progress") /\ op[p].snap.new_version # NoVersion
  /\ SetState(op[p].x, "creating_in_progress", "replacement_stored") /\ Again(p)
  /\ UNCHANGED world

\* Creation without the orphan guard.
CreateUnguarded(p) ==
  /\ Seen(p, "creating_in_progress") /\ op[p].snap.new_version = NoVersion
  /\ \E k \in Keys :
       /\ Fresh(k)
       /\ key' = [key EXCEPT ![k] = "active"]
       /\ op' = [op EXCEPT ![p].pc = "created", ![p].k = k]
  /\ creates' = [creates EXCEPT ![op[p].x] = @ + 1]
  /\ UNCHANGED <<provider, rot, stored, plans, dest, checked>>

\* The provider-side creation itself: not idempotent, its value shown once.
Create(p) ==
  /\ Seen(p, "creating_in_progress")
  /\ op[p].snap.new_version = NoVersion /\ ~Orphaned(op[p].snap)
  /\ \E k \in Keys :
       /\ Fresh(k)
       /\ key' = [key EXCEPT ![k] = "active"]
       /\ op' = [op EXCEPT ![p].pc = "created", ![p].k = k]
  /\ creates' = [creates EXCEPT ![op[p].x] = @ + 1]
  /\ UNCHANGED <<provider, rot, stored, plans, dest, checked>>

NoteKey(p) ==
  /\ At(p, "created")
  /\ rot' = [rot EXCEPT ![op[p].x].new_key = op[p].k]
  /\ Goto(p, "store")
  /\ UNCHANGED world

\* rotation_store_replacement: the fresh load and the version it replaces ...
CheckStored(p) ==
  /\ At(p, "store")
  /\ IF rot[op[p].x].new_version # NoVersion
       THEN Goto(p, "stored")
       ELSE op' = [op EXCEPT ![p].pc = "replace", ![p].ver = value_version]
  /\ UNCHANGED <<world, rot>>

\* ... the write transaction, with the created key's value or one the user brings ...
StoreValue(p) ==
  /\ At(p, "replace")
  /\ IF op[p].k # NoKey
       THEN Replace(op[p].k) /\ UNCHANGED key
       ELSE \E k \in Keys : Fresh(k) /\ Replace(k) /\ key' = [key EXCEPT ![k] = "active"]
  /\ Goto(p, "versions")
  /\ UNCHANGED <<provider, rot, plans, dest, creates, checked>>

\* A version number computed instead of read back.
SetVersionsAhead(p) ==
  /\ At(p, "versions")
  /\ rot' = [rot EXCEPT ![op[p].x].old_version = op[p].ver, ![op[p].x].new_version = value_version + 1]
  /\ Goto(p, "stored")
  /\ UNCHANGED world

\* ... and set_versions, with the version read back after the transaction.
SetVersions(p) ==
  /\ At(p, "versions")
  /\ rot' = [rot EXCEPT ![op[p].x].old_version = op[p].ver, ![op[p].x].new_version = value_version]
  /\ Goto(p, "stored")
  /\ UNCHANGED world

Stored(p) ==
  /\ At(p, "stored")
  /\ SetState(op[p].x, op[p].snap.state, "replacement_stored") /\ Again(p)
  /\ UNCHANGED world

(***************************************************************************)
(* Destinations: a sync plan, its steps, and the verdict on them.  A step  *)
(* writes and then verifies; a write that landed but did not verify is     *)
(* recorded FAILED.  An export step fails without writing.                 *)
(***************************************************************************)
MakePlan(p) ==
  /\ Seen(p, "replacement_stored") /\ Len(plans) < MaxPlans
  /\ plans' = Append(plans, [to |-> value_version, from |-> value_version - 1,
                             step |-> [d \in Dests |-> "planned"]])
  /\ rot' = [rot EXCEPT ![op[p].x].plan = Len(plans) + 1]
  /\ Goto(p, "planned")
  /\ UNCHANGED <<provider, stored, key, dest, creates, checked>>

Planned(p) ==
  /\ At(p, "planned")
  /\ SetState(op[p].x, "replacement_stored", "updating_destinations") /\ Again(p)
  /\ UNCHANGED world

\* sync_plan_execute: a stale plan is an error; the value is decrypted once.
BeginExecute(p) ==
  /\ Seen(p, "updating_destinations")
  /\ LET pl == plans[op[p].snap.plan]
     IN /\ pl.to = value_version
        /\ op' = [op EXCEPT ![p].pc = "exec", ![p].k = stored[pl.to],
                            ![p].todo = {d \in Dests : pl.step[d] \in {"planned", "failed"}}]
  /\ UNCHANGED <<world, rot>>

MarkStep(i, d, s) == plans' = [plans EXCEPT ![i].step[d] = s]
Tick(p, d) == op' = [op EXCEPT ![p].todo = @ \ {d}]

ExecuteStep(p, d) ==
  /\ At(p, "exec") /\ d \in op[p].todo
  /\ \/ /\ MarkStep(op[p].snap.plan, d, "executed")
        /\ dest' = [dest EXCEPT ![d] = op[p].k]
     \/ /\ MarkStep(op[p].snap.plan, d, "failed")
        /\ \/ UNCHANGED dest
           \/ d \notin Exports /\ dest' = [dest EXCEPT ![d] = op[p].k]
  /\ Tick(p, d)
  /\ UNCHANGED <<provider, rot, stored, key, creates, checked>>

\* The verdict without reading the steps back.
ExecutedUnread(p) ==
  /\ At(p, "exec") /\ op[p].todo = {}
  /\ Goto(p, "executed")
  /\ UNCHANGED <<world, rot>>

\* The steps are read back: only a plan with nothing planned or failed goes on.
Executed(p) ==
  /\ At(p, "exec") /\ op[p].todo = {}
  /\ \A d \in Dests : plans[op[p].snap.plan].step[d] = "executed"
  /\ Goto(p, "executed")
  /\ UNCHANGED <<world, rot>>

DestinationsVerified(p) ==
  /\ At(p, "executed")
  /\ SetState(op[p].x, "updating_destinations", "destinations_verified") /\ Again(p)
  /\ UNCHANGED world

(***************************************************************************)
(* Validation of the new value, then the destructive steps.                *)
(***************************************************************************)

\* The value validated must be this rotation's replacement: the version is compared ...
OwnVersion(p) ==
  /\ Seen(p, "destinations_verified") /\ op[p].snap.new_version = value_version
  /\ Goto(p, "validate")
  /\ UNCHANGED <<world, rot>>

\* ... and validate_credential then decrypts the current value and asks the provider.
Validate(p) ==
  /\ At(p, "validate") /\ key[stored[value_version]] = "active"
  /\ op' = [op EXCEPT ![p].pc = "validated", ![p].k = stored[value_version]]
  /\ UNCHANGED <<world, rot>>

\* mark_new_value_validated and grace_ends_at.
MarkValidated(p) ==
  /\ At(p, "validated")
  /\ rot' = [rot EXCEPT ![op[p].x].validated = TRUE]
  /\ checked' = [checked EXCEPT ![op[p].x] = op[p].k]
  /\ Goto(p, "grace")
  /\ UNCHANGED <<provider, stored, key, plans, dest, creates>>

EnterGrace(p) ==
  /\ At(p, "grace")
  /\ SetState(op[p].x, "destinations_verified", "grace_period") /\ Again(p)
  /\ UNCHANGED world

\* rotation_disable_old, the grace period being over and continued use ruled out.
Disable(p) ==
  /\ Seen(p, "grace_period") /\ CanDisable /\ op[p].snap.old_key # NoKey
  /\ key[op[p].snap.old_key] \notin Gone
  /\ key' = [key EXCEPT ![op[p].snap.old_key] = "inactive"]
  /\ Goto(p, "disabled")
  /\ UNCHANGED <<provider, rot, stored, plans, dest, creates, checked>>

NoteDisabled(p) ==
  /\ At(p, "disabled")
  /\ rot' = [rot EXCEPT ![op[p].x].disabled = TRUE]
  /\ Goto(p, "disabling")
  /\ UNCHANGED world

OldDisabled(p) ==
  /\ \/ At(p, "disabling")
     \/ Seen(p, "grace_period") /\ (~CanDisable \/ op[p].snap.old_key = NoKey)
  /\ SetState(op[p].x, "grace_period", "old_disabled") /\ Again(p)
  /\ UNCHANGED world

\* rotation_revoke_old.  A recorded revocation only has to be completed.
AlreadyRevoked(p) ==
  /\ Seen(p, "old_disabled") /\ op[p].snap.validated /\ op[p].snap.revoked
  /\ Goto(p, "complete")
  /\ UNCHANGED <<world, rot>>

Revocable(p) == CanRevoke /\ op[p].snap.old_key # NoKey

RevokeByHand(p) ==
  /\ Seen(p, "old_disabled") /\ op[p].snap.validated /\ ~op[p].snap.revoked /\ ~Revocable(p)
  /\ SetState(op[p].x, "old_disabled", "manual_required") /\ Return(p)
  /\ UNCHANGED world

\* The call without the marker that must precede it.
SkipMarker(p) ==
  /\ Seen(p, "old_disabled") /\ op[p].snap.validated /\ ~op[p].snap.revoked /\ Revocable(p)
  /\ op' = [op EXCEPT ![p].pc = "revoke", ![p].before = rot[op[p].x].attempted]
  /\ UNCHANGED <<world, rot>>

\* The durable marker before the call, and whether an earlier one was there.
MarkAttempt(p) ==
  /\ Seen(p, "old_disabled") /\ op[p].snap.validated /\ ~op[p].snap.revoked /\ Revocable(p)
  /\ op' = [op EXCEPT ![p].pc = "revoke", ![p].before = rot[op[p].x].attempted]
  /\ rot' = [rot EXCEPT ![op[p].x].attempted = TRUE]
  /\ UNCHANGED world

Revoke(p) ==
  /\ At(p, "revoke") /\ key[op[p].snap.old_key] \notin Gone
  /\ key' = [key EXCEPT ![op[p].snap.old_key] = Revoked]
  /\ Goto(p, "revoked")
  /\ UNCHANGED <<provider, rot, stored, plans, dest, creates, checked>>

\* 404: after an earlier attempt the revocation is done; on a first attempt it is
\* ambiguous and a person has to look.
NotFound(p) ==
  /\ At(p, "revoke") /\ key[op[p].snap.old_key] \in Gone
  /\ \/ op[p].before /\ Goto(p, "revoked") /\ UNCHANGED rot
     \/ ~op[p].before /\ SetState(op[p].x, "old_disabled", "manual_required") /\ Return(p)
  /\ UNCHANGED world

NoteRevoked(p) ==
  /\ At(p, "revoked")
  /\ rot' = [rot EXCEPT ![op[p].x].revoked = TRUE]
  /\ Goto(p, "complete")
  /\ UNCHANGED world

Complete(p) ==
  /\ At(p, "complete")
  /\ SetState(op[p].x, "old_disabled", "completed") /\ Return(p)
  /\ UNCHANGED world

Advance(p) ==
  \/ Load(p) \/ ClaimApi(p) \/ AwaitKey(p) \/ TakeValue(p) \/ ClaimCreation(p)
  \/ AlreadyStored(p) \/ Create(p) \/ NoteKey(p) \/ CheckStored(p) \/ StoreValue(p)
  \/ SetVersions(p) \/ Stored(p) \/ MakePlan(p) \/ Planned(p) \/ BeginExecute(p)
  \/ (\E d \in Dests : ExecuteStep(p, d)) \/ Executed(p) \/ DestinationsVerified(p)
  \/ OwnVersion(p) \/ Validate(p) \/ MarkValidated(p) \/ EnterGrace(p)
  \/ Disable(p) \/ NoteDisabled(p) \/ OldDisabled(p) \/ AlreadyRevoked(p) \/ RevokeByHand(p)
  \/ MarkAttempt(p) \/ Revoke(p) \/ NotFound(p) \/ NoteRevoked(p) \/ Complete(p)

(***************************************************************************)
(* The user's other operations: manual completion, cancellation, rollback. *)
(* Each loads and checks in one step and writes in later ones.             *)
(***************************************************************************)
Loaded(p, x, pc) == op' = [op EXCEPT ![p] = [Idle EXCEPT !.pc = pc, !.x = x, !.snap = rot[x]]]

\* Manual completion that does not ask whether the value was validated.
CompleteUnasked(p, x) ==
  /\ At(p, "idle")
  /\ rot[x].state \in {"manual_required", "grace_period", "old_disabled"}
  /\ Loaded(p, x, "complete_manual")
  /\ UNCHANGED <<world, rot>>

\* manual_required, grace and old_disabled rotations, with a validated new value.
BeginCompleteManual(p, x) ==
  /\ At(p, "idle")
  /\ rot[x].state \in {"manual_required", "grace_period", "old_disabled"} /\ rot[x].validated
  /\ Loaded(p, x, "complete_manual")
  /\ UNCHANGED <<world, rot>>

CompleteManual(p) ==
  /\ At(p, "complete_manual")
  /\ SetState(op[p].x, op[p].snap.state, "completed") /\ Return(p)
  /\ UNCHANGED world

BeginCancel(p, x) ==
  /\ At(p, "idle") /\ rot[x].state # "none"
  /\ ~rot[x].disabled /\ ~rot[x].revoked /\ rot[x].new_version = NoVersion
  /\ Loaded(p, x, "cancel")
  /\ UNCHANGED <<world, rot>>

Cancel(p) ==
  /\ At(p, "cancel")
  /\ SetState(op[p].x, op[p].snap.state, "failed") /\ Return(p)
  /\ UNCHANGED world

\* The wrong version decrypted.
RestoresNew(row) == IF row.new_version = value_version THEN stored[row.new_version] ELSE NoKey

\* The rollback material is decrypted before anything is written, and only when the
\* current value is still the one this rotation stored (k = NoKey: left as it is).
Material(row) == IF row.new_version = value_version THEN stored[row.old_version] ELSE NoKey

LoadForRollback(p, x) ==
  op' = [op EXCEPT ![p] = [Idle EXCEPT !.pc = "rollback", !.x = x, !.snap = rot[x],
                                       !.k = Material(rot[x])]]

\* The same load with the recorded attempt ignored.
RollbackUnasked(p, x) ==
  /\ At(p, "idle")
  /\ rot[x].state \notin {"completed", "rolled_back"} /\ rot[x].old_version # NoVersion
  /\ ~rot[x].revoked
  /\ LoadForRollback(p, x)
  /\ UNCHANGED <<world, rot>>

\* A recorded revocation refuses; so does an attempted one, where revoking deletes.
BeginRollback(p, x) ==
  /\ At(p, "idle")
  /\ rot[x].state \notin {"completed", "rolled_back"} /\ rot[x].old_version # NoVersion
  /\ ~rot[x].revoked
  /\ (rot[x].old_key # NoKey /\ ~RevokeIsReversible) => ~rot[x].attempted
  /\ LoadForRollback(p, x)
  /\ UNCHANGED <<world, rot>>

EnterRollback(p) ==
  /\ At(p, "rollback")
  /\ SetState(op[p].x, op[p].snap.state, "rolling_back")
  /\ Goto(p, "reenable")
  /\ UNCHANGED world

\* 1. A key recorded as disabled is re-enabled first, where that is possible.
Reenables(p) == op[p].snap.disabled /\ op[p].snap.old_key # NoKey /\ RevokeIsReversible

Reenable(p) ==
  /\ At(p, "reenable")
  /\ \/ /\ Reenables(p) /\ key[op[p].snap.old_key] \notin Gone
        /\ key' = [key EXCEPT ![op[p].snap.old_key] = "active"]
        /\ Goto(p, "restore")
     \/ /\ Reenables(p)
        /\ op' = [op EXCEPT ![p].pc = "restore", ![p].bad = TRUE]
        /\ UNCHANGED key
     \/ ~Reenables(p) /\ Goto(p, "restore") /\ UNCHANGED key
  /\ UNCHANGED <<provider, rot, stored, plans, dest, creates, checked>>

\* 2. The vault's value goes back, as a new version.
Restore(p) ==
  /\ At(p, "restore")
  /\ IF op[p].k # NoKey THEN Replace(op[p].k) ELSE UNCHANGED stored
  /\ Goto(p, IF op[p].snap.plan # NoPlan THEN "resync" ELSE "drop")
  /\ UNCHANGED <<provider, rot, key, plans, dest, creates, checked>>

\* 3. sync_plan_rollback: only steps recorded EXECUTED go back to the plan's from_version.
BeginResync(p) ==
  /\ At(p, "resync")
  /\ LET pl == plans[op[p].snap.plan]
     IN op' = IF pl.from = NoVersion
                THEN [op EXCEPT ![p].pc = "drop", ![p].bad = TRUE]
                ELSE [op EXCEPT ![p].pc = "undo", ![p].k = stored[pl.from],
                                ![p].todo = {d \in Dests : pl.step[d] = "executed"}]
  /\ UNCHANGED <<world, rot>>

UndoStep(p, d) ==
  /\ At(p, "undo") /\ d \in op[p].todo
  /\ MarkStep(op[p].snap.plan, d, "rolled_back")
  /\ dest' = [dest EXCEPT ![d] = op[p].k]
  /\ op' = [op EXCEPT ![p].todo = @ \ {d}, ![p].any = TRUE]
  /\ UNCHANGED <<provider, rot, stored, key, creates, checked>>

\* A destination's failed write aborts the plan's rollback; an export's is recorded and
\* the loop goes on.
UndoAborts(p, d) ==
  /\ At(p, "undo") /\ d \in op[p].todo \ Exports
  /\ op' = [op EXCEPT ![p].pc = "drop", ![p].todo = {}, ![p].bad = TRUE]
  /\ UNCHANGED <<world, rot>>

UndoFails(p, d) ==
  /\ At(p, "undo") /\ d \in op[p].todo \cap Exports
  /\ MarkStep(op[p].snap.plan, d, "failed") /\ Tick(p, d)
  /\ UNCHANGED <<provider, rot, stored, key, dest, creates, checked>>

Undone(p) ==
  /\ At(p, "undo") /\ op[p].todo = {}
  /\ op' = [op EXCEPT ![p].pc = "drop", ![p].bad = @ \/ ~op[p].any]
  /\ UNCHANGED <<world, rot>>

\* 4. Optionally the key this rotation created is revoked.
Drop(p) ==
  /\ At(p, "drop")
  /\ \/ Goto(p, "settle") /\ UNCHANGED key
     \/ /\ op[p].snap.new_key # NoKey /\ CanRevoke
        /\ \/ /\ key[op[p].snap.new_key] \notin Gone
              /\ key' = [key EXCEPT ![op[p].snap.new_key] = Revoked]
              /\ Goto(p, "settle")
           \/ op' = [op EXCEPT ![p].pc = "settle", ![p].bad = TRUE] /\ UNCHANGED key
  /\ UNCHANGED <<provider, rot, stored, plans, dest, creates, checked>>

Settle(p) ==
  /\ At(p, "settle")
  /\ SetState(op[p].x, "rolling_back", IF op[p].bad THEN "manual_required" ELSE "rolled_back")
  /\ Return(p)
  /\ UNCHANGED world

Rollback(p) ==
  \/ EnterRollback(p) \/ Reenable(p) \/ Restore(p) \/ BeginResync(p) \/ Undone(p) \/ Drop(p)
  \/ \E d \in Dests : UndoStep(p, d) \/ UndoAborts(p, d) \/ UndoFails(p, d)
  \/ Settle(p)

Leave(p) == ~At(p, "idle") /\ Return(p) /\ UNCHANGED <<world, rot>>

(***************************************************************************)
(* Outside the rotation: the user replaces the credential's value, or      *)
(* deletes at the provider the old key of a rotation that reached the      *)
(* steps in which the program asks for it.                                 *)
(***************************************************************************)
ReplaceByUser ==
  /\ \E k \in Keys : Fresh(k) /\ Replace(k) /\ key' = [key EXCEPT ![k] = "active"]
  /\ UNCHANGED <<provider, rot, plans, dest, op, creates, checked>>

RemoveOutside(x) ==
  /\ rot[x].state \in {"grace_period", "old_disabled", "manual_required"}
  /\ rot[x].old_key # NoKey /\ key[rot[x].old_key] \notin Gone
  /\ key' = [key EXCEPT ![rot[x].old_key] = "removed"]
  /\ UNCHANGED <<provider, rot, stored, plans, dest, op, creates, checked>>

Next ==
  \/ \E x \in Rotations : Plan(x) \/ RemoveOutside(x)
  \/ ReplaceByUser
  \/ \E p \in Procs :
       \/ \E x \in Rotations :
            BeginApprove(p, x) \/ BeginAdvance(p, x) \/ BeginCompleteManual(p, x)
            \/ BeginCancel(p, x) \/ BeginRollback(p, x)
       \/ Approve(p) \/ CompleteManual(p) \/ Cancel(p) \/ Advance(p) \/ Rollback(p) \/ Leave(p)

Spec == Init /\ [][Next]_vars

(***************************************************************************)
(* Properties.                                                             *)
(***************************************************************************)
Finished == {"completed", "rolled_back"}
Aside == {"failed", "rolling_back", "rolled_back", "manual_required"}
Forward == <<"none", "planned", "approved", "creating_replacement", "creating_in_progress",
             "awaiting_manual_key", "replacement_stored", "updating_destinations",
             "destinations_verified", "grace_period", "old_disabled", "completed">>
Before(s, t) == \E i, j \in DOMAIN Forward : i < j /\ Forward[i] = s /\ Forward[j] = t

\* rotation.rs:18: a rotation moves forward, or aside; only manual completion leads back
\* from aside, and a finished rotation never moves again - whatever stale copies of the
\* row other processes still act on.
ForwardOnly ==
  [][\A x \in Rotations :
       LET s == rot[x].state  t == rot'[x].state
       IN s # t => /\ s \notin Finished
                   /\ \/ Before(s, t)
                      \/ t \in Aside
                      \/ s = "manual_required" /\ t = "completed"]_vars

Destroyed(k) == key[k] \in {"inactive", "archived", "deleted"}
\* A rollback is about to drop the key it has on record as its own replacement.
Drops(p, k) == At(p, "drop") /\ op[p].snap.new_key = k

\* The gate of rotation_advance and rotation_complete_manual: the program disables or
\* revokes no old key, and completes no rotation, before the new value of a rotation away
\* from that key was validated; in whatever order two processes run it.
VerifiedFirst ==
  [][/\ \A k \in Keys : key'[k] # key[k] /\ Destroyed(k)' =>
          \/ \E x \in Rotations : rot[x].old_key = k /\ rot[x].validated
          \/ \E p \in Procs : Drops(p, k)
     /\ \A x \in Rotations : rot'[x].state = "completed" => rot'[x].validated]_vars

\* The marker rotation_revoke_old records before the call: an old key the program revokes
\* has one, which stays, so that a lost response or a death right after leaves a trace.
RevokeLeavesTrace ==
  [][/\ \A k \in Keys : key'[k] # key[k] /\ key'[k] \in {"archived", "deleted"} =>
          \/ \E x \in Rotations : rot[x].old_key = k /\ rot[x].attempted
          \/ \E p \in Procs : Drops(p, k)
     /\ \A x \in Rotations : rot[x].attempted => rot'[x].attempted]_vars

\* What rotation_rollback's refusals are for: a rotation that reads rolled_back did not
\* put a key back into the vault that the program itself disabled or deleted.
RestoredKeyLives ==
  \A x \in Rotations :
    rot[x].state = "rolled_back" => ~Destroyed(stored[rot[x].old_version])

\* What a rollback is for: a rotation that reads rolled_back no longer leaves its own
\* replacement as the vault's value, wherever the process died and the user retried.
ValueRolledBack ==
  \A x \in Rotations :
    rot[x].state = "rolled_back" => stored[value_version] # stored[rot[x].new_version]

\* "Revoked only after verification": when the program disables or revokes an old key, no
\* destination serves it and it is not the vault's value.
OldKeyUnusedWhenRevoked ==
  [][\A x \in Rotations :
       LET k == rot[x].old_key
       IN k # NoKey /\ ~Destroyed(k) /\ Destroyed(k)' =>
            stored[value_version] # k /\ \A d \in Dests : dest[d] # k]_vars

\* The orphan guard of rotation_advance: once a created key is on record without its value
\* being stored, no further key is created for the rotation.  It holds for one process; a
\* second one can be in the provider call with a copy from before (see CreatesOnce).
OrphanSurfaced ==
  [][\A x \in Rotations : creates'[x] > creates[x] => rot[x].new_key = NoKey]_vars

\* rotation.rs:26: "two concurrent `rotation advance` processes cannot both create a key".
CreatesOnce == \A x \in Rotations : creates[x] <= 1

\* rotation_rollback: "A partially failed rollback must not present as clean": a rotation
\* that reads rolled_back left no destination on the key it had deployed.
CleanRollback ==
  \A x \in Rotations :
    rot[x].state = "rolled_back" => \A d \in Dests : dest[d] # stored[rot[x].new_version]

\* rotation_advance: "a concurrent manual replacement must not be able to arm the
\* destructive steps": the flag was set by validating this rotation's own replacement.
OwnValueArms ==
  \A x \in Rotations : rot[x].validated => checked[x] = stored[rot[x].new_version]

(***************************************************************************)
(* The abstract rotation.                                                  *)
(***************************************************************************)
\* What a row has on record.
OnRecord(r) ==
  (IF r.new_version # NoVersion THEN {"stored"} ELSE {})
  \cup (IF r.plan # NoPlan THEN {"planned"} ELSE {})
  \cup (IF r.validated THEN {"validated"} ELSE {})
  \cup (IF r.disabled THEN {"disabled"} ELSE {})
  \cup (IF r.attempted THEN {"attempted"} ELSE {})
  \cup (IF r.revoked THEN {"revoked"} ELSE {})

OrderState == [x \in Rotations |-> rot[x].state]
OrderTerms == [x \in Rotations |-> [mode |-> rot[x].mode,
                                    disables |-> CanDisable /\ rot[x].old_key # NoKey]]
OrderRecord == [x \in Rotations |-> OnRecord(rot[x])]

Order == INSTANCE RotationOrder WITH
  state <- OrderState, terms <- OrderTerms, record <- OrderRecord

\* rotation.rs:18: "A rotation only ever moves forward through these, or into failed /
\* rolling_back / rolled_back / manual_required": operations that load a row, work for long
\* and write field by field with one compare-and-swap are together an atomic rotation, whose
\* every move is backed by what its row has on record.
ImplementsOrder == Order!Spec
=============================================================================

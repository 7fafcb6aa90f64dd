----------------------------- MODULE ObservedRun -----------------------------
(***************************************************************************)
(* One observed run (run_monitored, crates/observe/src/session.rs): the    *)
(* launcher that opens a session row, starts the proxy, spawns the child   *)
(* and polls for its exit or for a lock of the vault, the child, and the   *)
(* monitor that closes rows whose child is gone (runtime/store.rs).        *)
(* Composes VaultSession (the file the launcher watches) and               *)
(* ObservationProxy (the threads it has to tear down).                     *)
(***************************************************************************)
EXTENDS VaultSession, ObservationProxy

CONSTANTS ReapTries  \* CHILD_REAP_TRIES
ASSUME ReapAssumption == ReapTries \in Nat

VARIABLES
  watch,     \* LockPolicy: the session file, or a cap on the run's time (max_run)
  row,       \* the session row: status, interrupt_reason, and what identifies the child
  launcher,  \* where run_monitored is
  started,   \* when the wait began
  cause,     \* why the wait ended
  tries,     \* reaps attempted
  child,     \* the child process; a zombie is an exit nobody has waited for
  reused,    \* another process got the child's pid
  sweeper    \* the monitor's sweep, between a probe and its update

runVars == <<watch, row, launcher, started, cause, tries, child, reused, sweeper>>
vars == <<sessionVars, proxyVars, runVars>>

Reasons == {"none", "trust_setup_failed", "child_spawn_failed", "vault_locked", "auto_lock",
            "launcher_gone"}
NoRow == [status |-> "none", reason |-> "none", pid |-> FALSE]
Alive == launcher \notin {"init", "done", "left", "dead"}

TypeOK ==
  /\ SessionTypeOK /\ ProxyTypeOK
  /\ watch \in {"file", "cap"}
  /\ row \in [status : {"none", "running", "completed", "interrupted"}, reason : Reasons,
              pid : BOOLEAN]
  /\ launcher \in {"init", "opened", "proxied", "trusted", "launched", "waiting", "checking",
                   "stopping", "terminating", "reaping", "draining", "attributing", "closing",
                   "done", "left", "dead"}
  /\ started \in 0..MaxTime /\ cause \in Reasons \cup {"exit"} /\ tries \in 0..ReapTries
  /\ child \in {"none", "running", "zombie", "gone"} /\ reused \in BOOLEAN
  /\ sweeper \in {"idle", "gone"}

Init ==
  /\ SessionInit /\ ProxyInit
  /\ watch \in {"file", "cap"} /\ row = NoRow /\ launcher = "init"
  /\ started = 0 /\ cause = "none" /\ tries = 0 /\ child = "none" /\ reused = FALSE
  /\ sweeper = "idle"

(***************************************************************************)
(* The row.                                                                *)
(***************************************************************************)
\* Variant: without asking whether the session is still running.
CloseRowBlind(status, reason) == row' = [row EXCEPT !.status = status, !.reason = reason]

\* finish_session and interrupt_session: only a running session.
CloseRow(status, reason) ==
  row' = IF row.status = "running" THEN [row EXCEPT !.status = status, !.reason = reason] ELSE row

(***************************************************************************)
(* The launcher.                                                           *)
(***************************************************************************)
At(l) == launcher = l
LauncherGoes(l) == launcher' = l
StartFrame == UNCHANGED <<sessionVars, watch, started, tries, reused, sweeper>>

\* A run under a session token was resumed from its file.
OpenSession ==
  /\ At("init") /\ (watch = "file" => PeekState = "active")
  /\ LauncherGoes("opened") /\ row' = [row EXCEPT !.status = "running"]
  /\ StartFrame /\ UNCHANGED <<proxyVars, cause, child>>

StartProxy ==
  /\ At("opened") /\ ProxyStarts /\ LauncherGoes("proxied")
  /\ UNCHANGED <<shutdown, active, worker, pushing, registry, sockets, stopping, channel>>
  /\ StartFrame /\ UNCHANGED <<row, cause, child>>

\* `?`: the row keeps reading running, without a pid.
StartProxyFails ==
  /\ At("opened") /\ LauncherGoes("left")
  /\ StartFrame /\ UNCHANGED <<proxyVars, row, cause, child>>

PrepareTrust ==
  /\ At("proxied")
  /\ \/ LauncherGoes("trusted") /\ UNCHANGED <<proxyVars, cause>>
     \/ LauncherGoes("stopping") /\ cause' = "trust_setup_failed" /\ StopFlag
  /\ StartFrame /\ UNCHANGED <<row, child>>

SpawnChild ==
  /\ At("trusted")
  /\ \/ LauncherGoes("launched") /\ child' = "running" /\ UNCHANGED <<proxyVars, cause>>
     \/ LauncherGoes("stopping") /\ cause' = "child_spawn_failed" /\ StopFlag /\ child' = child
  /\ StartFrame /\ UNCHANGED row

\* Its error is ignored.
RecordChild ==
  /\ At("launched") /\ LauncherGoes("waiting") /\ started' = IF watch = "cap" THEN now ELSE 0
  /\ \E pid \in BOOLEAN : row' = [row EXCEPT !.pid = pid]
  /\ UNCHANGED <<sessionVars, proxyVars, watch, cause, tries, child, reused, sweeper>>

WaitFrame == UNCHANGED <<sessionVars, watch, row, started, tries, reused, sweeper>>

\* Variant: a blocking wait.
TryWaitBlocking ==
  /\ At("waiting") /\ child = "zombie"
  /\ child' = "gone" /\ cause' = "exit" /\ StopFlag /\ LauncherGoes("stopping")
  /\ WaitFrame

\* try_wait reaps a child that exited.
TryWait ==
  /\ At("waiting")
  /\ \/ child = "zombie" /\ child' = "gone" /\ cause' = "exit" /\ StopFlag /\ LauncherGoes("stopping")
     \/ child = "running" /\ LauncherGoes("checking") /\ UNCHANGED <<proxyVars, cause, child>>
  /\ WaitFrame

LockSignal ==
  CASE watch = "cap" /\ Ttl # 0 /\ now - started >= Ttl -> "auto_lock"
    [] watch = "file" /\ PeekState = "missing" -> "vault_locked"
    [] watch = "file" /\ PeekState = "expired" -> "auto_lock"
    [] OTHER -> "none"

CheckLock ==
  /\ At("checking") /\ cause' = LockSignal
  /\ IF LockSignal = "none" THEN LauncherGoes("waiting") /\ UNCHANGED proxyVars
     ELSE LauncherGoes("stopping") /\ StopFlag
  /\ WaitFrame /\ UNCHANGED child

\* proxy.shutdown returned.
Stopped ==
  /\ At("stopping") /\ stop = "stopped"
  /\ LauncherGoes(IF cause \in {"vault_locked", "auto_lock"} THEN "terminating" ELSE "draining")
  /\ WaitFrame /\ UNCHANGED <<proxyVars, cause, child>>

\* terminate_verified: refused without an identity, and the child may ignore the signal.  The
\* pid is still the child's: nobody has waited for it.
Terminate ==
  /\ At("terminating") /\ LauncherGoes("reaping")
  /\ child' \in IF child = "running" THEN {"running", "zombie"} ELSE {child}
  /\ WaitFrame /\ UNCHANGED <<proxyVars, cause>>

Reap ==
  /\ At("reaping")
  /\ child' = IF child = "running" THEN child ELSE "gone"
  /\ IF child = "running" /\ tries < ReapTries THEN tries' = tries + 1 /\ launcher' = launcher
     ELSE tries' = tries /\ LauncherGoes("draining")
  /\ UNCHANGED <<sessionVars, proxyVars, watch, row, started, cause, reused, sweeper>>

\* The launcher drops its sender and joins the writer.
SinkDropped == At("draining")

\* Variant: the writer is left to itself.
JoinWriterNot ==
  /\ At("draining") /\ LauncherGoes("attributing")
  /\ WaitFrame /\ UNCHANGED <<proxyVars, cause, child>>

JoinWriter ==
  /\ At("draining") /\ writer = "ended" /\ LauncherGoes("attributing")
  /\ WaitFrame /\ UNCHANGED <<proxyVars, cause, child>>

\* attribute_session: `?` leaves before the row is closed.
Attribute ==
  /\ At("attributing")
  /\ \/ LauncherGoes("closing")
     \/ cause \notin {"trust_setup_failed", "child_spawn_failed"} /\ LauncherGoes("left")
  /\ WaitFrame /\ UNCHANGED <<proxyVars, cause, child>>

CloseSession ==
  /\ At("closing")
  /\ \/ LauncherGoes("left") /\ row' = row
     \/ /\ LauncherGoes("done")
        /\ IF cause = "exit" THEN CloseRow("completed", "none") ELSE CloseRow("interrupted", cause)
  /\ UNCHANGED <<sessionVars, proxyVars, watch, started, cause, tries, child, reused, sweeper>>

\* Killed, or the machine goes down with everything in it.
LauncherDies ==
  /\ Alive /\ launcher' = "dead" /\ ProxyDies
  /\ child' \in CASE child = "running" -> {"running", "gone"} [] child = "zombie" -> {"gone"}
                 [] OTHER -> {child}
  /\ UNCHANGED <<sessionVars, watch, row, started, cause, tries, reused, sweeper>>

Launcher ==
  \/ StartProxy \/ PrepareTrust \/ SpawnChild \/ RecordChild
  \/ TryWait \/ CheckLock \/ Stopped \/ Terminate \/ Reap \/ JoinWriter \/ Attribute \/ CloseSession

(***************************************************************************)
(* The child and the monitor.                                              *)
(***************************************************************************)
\* Reaped by init when its launcher has gone.
ChildExits ==
  /\ child = "running" /\ child' = IF Alive THEN "zombie" ELSE "gone"
  /\ UNCHANGED <<sessionVars, proxyVars, watch, row, launcher, started, cause, tries, reused, sweeper>>

InitReaps ==
  /\ child = "zombie" /\ ~Alive /\ child' = "gone"
  /\ UNCHANGED <<sessionVars, proxyVars, watch, row, launcher, started, cause, tries, reused, sweeper>>

PidReused ==
  /\ child = "gone" /\ ~reused /\ reused' = TRUE
  /\ UNCHANGED <<sessionVars, proxyVars, watch, row, launcher, started, cause, tries, child, sweeper>>

SweepFrame == UNCHANGED <<sessionVars, proxyVars, watch, launcher, started, cause, tries, child, reused>>

\* Variant: a process that only waits to be reaped counts as gone.
GoneIfZombie == child \in {"zombie", "gone"} /\ ~reused

\* Variant: a platform without a probe.
ProbeProvesNothing == FALSE

\* A zombie still has its pid, and a reused pid is somebody's.
DefinitelyGone == child = "gone" /\ ~reused

\* sweep_with: a running row with a pid, probed and then closed.
SweepProbes ==
  /\ sweeper = "idle" /\ row.status = "running" /\ row.pid /\ DefinitelyGone
  /\ sweeper' = "gone" /\ SweepFrame /\ row' = row

SweepCloses ==
  /\ sweeper = "gone" /\ sweeper' = "idle" /\ CloseRow("interrupted", "launcher_gone") /\ SweepFrame

Sweep == SweepProbes \/ SweepCloses

(***************************************************************************)
(* The whole.                                                              *)
(***************************************************************************)
\* The child and what it started connect to the proxy for as long as it listens.
ProxyRuns ==
  /\ UNCHANGED <<sessionVars, runVars>>
  /\ \/ ProxyNext \/ WriterEnds(SinkDropped)
     \/ child # "none" /\ \E c \in Conns : ChildConnects(c)

\* Bound: the session is followed for as long as the launcher may look at it.
SessionRuns == (Alive \/ At("init")) /\ SessionNext /\ UNCHANGED <<proxyVars, runVars>>

Next ==
  \/ SessionRuns \/ ProxyRuns
  \/ OpenSession \/ StartProxyFails \/ LauncherDies \/ Launcher
  \/ ChildExits \/ InitReaps \/ PidReused \/ Sweep

Spec == Init /\ [][Next]_vars

\* The launcher's thread and those of its proxy run, and the monitor keeps sweeping.  No
\* user, child or clock is owed a step.
FairSpec ==
  /\ Spec /\ ProxyFair /\ WF_proxyVars(WriterEnds(SinkDropped))
  /\ WF_vars(Launcher) /\ WF_vars(Sweep) /\ WF_vars(InitReaps)

(***************************************************************************)
(* Properties.                                                             *)
(***************************************************************************)
Verdict == row.status # "running" /\ row.reason # "launcher_gone" /\ launcher = "done"

\* The launcher closes its row only when no thread relays any more and everything recorded
\* was handed to the database, whatever its workers were blocked on when the run ended or
\* the vault was locked ("the writer is done, no concurrent writes").
VerdictAfterTeardown ==
  Verdict => Live = {} /\ listener = "ended" /\ writer = "ended" /\ channel = 0

\* "never overwrite a terminal state": whoever closes the row first, launcher or monitor,
\* decides what it says.
TerminalFinal ==
  [][row.status \in {"completed", "interrupted"} =>
       row'.status = row.status /\ row'.reason = row.reason]_vars

\* "never closes a live session": the monitor closes a row only if its child is gone, and no
\* launcher can still be waiting for it.
OrphanOnly ==
  row.reason = "launcher_gone" => child = "gone" /\ launcher \notin {"waiting", "checking"}

\* Locking the vault stops an active run: if the session file is gone the proxy goes down,
\* although workers may be dialling, unregistered or blocked on a full channel.
LockEndsRun ==
  (launcher \in {"waiting", "checking"} /\ watch = "file" /\ PeekState = "missing")
    ~> (Exists \/ (Live = {} /\ listener = "ended"))

\* A run whose launcher died does not read running for ever once its child is gone, unless
\* its pid never got into the row or belongs to another process now.
OrphanClosed ==
  (launcher = "dead" /\ row.pid /\ child = "gone") ~> (row.status # "running" \/ reused)
=============================================================================

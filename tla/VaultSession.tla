---------------------------- MODULE VaultSession ----------------------------
(***************************************************************************)
(* The session file of an unlocked vault (crates/core/src/session.rs) and  *)
(* the processes that share it: every command that was given its token     *)
(* loads it and slides its expiry, `unlock` writes a new one, `lock`       *)
(* deletes it, and an observed run watches it.  Reading the file, removing *)
(* it and renaming a new one over it are separate steps; nothing but the   *)
(* file system is between the processes.                                   *)
(***************************************************************************)
EXTENDS Integers

CONSTANTS
  Procs,       \* commands running under a session token
  Ttl,         \* auto_lock_minutes; 0 turns auto-lock off
  MaxTime,     \* bound: ticks
  MaxSessions  \* bound: sessions ever saved

ASSUME SessionAssumption ==
  /\ Ttl \in Nat /\ MaxTime \in Nat /\ MaxSessions \in Nat

VARIABLES
  now,
  file,    \* the session file: which save wrote it, and its expires_at
  saved,   \* sessions saved so far
  cli,     \* [Procs -> ...]: a command inside load_and_refresh, with the file it read
  locked   \* the last session that was in force when `lock` ran (history)

sessionVars == <<now, file, saved, cli, locked>>

Never == MaxTime + Ttl + 1
NoFile == [id |-> 0, until |-> 0]
Files == [id : 0..MaxSessions, until : 0..Never]

SessionTypeOK ==
  /\ now \in 0..MaxTime /\ file \in Files /\ saved \in 0..MaxSessions
  /\ cli \in [Procs -> [pc : {"idle", "expired", "loaded"}, copy : Files]]
  /\ locked \in 0..MaxSessions

IdleCli == [pc |-> "idle", copy |-> NoFile]

SessionInit ==
  /\ now = 0 /\ file = NoFile /\ saved = 0 /\ locked = 0
  /\ cli = [p \in Procs |-> IdleCli]

ExpiryFromNow == IF Ttl = 0 THEN Never ELSE now + Ttl
Expired(f) == f.until <= now
Exists == file # NoFile

\* peek_state, which never changes the file.
PeekState == IF ~Exists THEN "missing" ELSE IF Expired(file) THEN "expired" ELSE "active"

Tick == now < MaxTime /\ now' = now + 1 /\ UNCHANGED <<file, saved, cli, locked>>

\* save: a new session id, renamed into place; by `unlock`, or by a command that unlocked
\* a project under its token (persist_session).
Save ==
  /\ saved < MaxSessions /\ saved' = saved + 1
  /\ file' = [id |-> saved + 1, until |-> ExpiryFromNow]
  /\ UNCHANGED <<now, cli, locked>>

Lock == Exists /\ file' = NoFile /\ locked' = saved /\ UNCHANGED <<now, saved, cli>>

\* load_and_refresh reads the file; a token of another session ends the command at once.
LoadSession(p) ==
  /\ cli[p].pc = "idle" /\ Exists
  /\ cli' = [cli EXCEPT ![p] = [pc |-> IF Expired(file) THEN "expired" ELSE "loaded",
                                copy |-> file]]
  /\ UNCHANGED <<now, file, saved, locked>>

\* What is at the path by then is deleted.
RemoveExpired(p) ==
  /\ cli[p].pc = "expired" /\ file' = NoFile /\ cli' = [cli EXCEPT ![p] = IdleCli]
  /\ UNCHANGED <<now, saved, locked>>

\* What was read is written again with a later expiry.
Refresh(p) ==
  /\ cli[p].pc = "loaded"
  /\ file' = [cli[p].copy EXCEPT !.until = ExpiryFromNow]
  /\ cli' = [cli EXCEPT ![p] = IdleCli]
  /\ UNCHANGED <<now, saved, locked>>

\* The command ends, at whatever point.
EndCommand(p) ==
  /\ cli[p] # IdleCli /\ cli' = [cli EXCEPT ![p] = IdleCli]
  /\ UNCHANGED <<now, file, saved, locked>>

SessionNext ==
  \/ Tick \/ Save \/ Lock
  \/ \E p \in Procs :
       LoadSession(p) \/ RemoveExpired(p) \/ Refresh(p) \/ EndCommand(p)

(***************************************************************************)
(* Properties.                                                             *)
(***************************************************************************)
\* THREAT_MODEL.md: sessions "can be revoked by deleting the session file": a session that
\* was in force when `lock` returned is not in force again.
LockStays == Exists => file.id > locked
=============================================================================

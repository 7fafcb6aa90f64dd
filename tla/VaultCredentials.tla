-------------------------- MODULE VaultCredentials --------------------------
(***************************************************************************)
(* Projects, their keys, and the values encrypted under them               *)
(* (crates/core/src/vault.rs), as several unlocked processes change them   *)
(* over one database.  Values are encrypted under a project key, which is  *)
(* itself wrapped by the vault key and, for a locked project, a password.  *)
(* What write_txn covers is one step; statements outside of it are steps   *)
(* of their own.                                                           *)
(*                                                                         *)
(* A key is a number that is never drawn twice, and a wrap is named by the *)
(* key in it: every wrap is made with a fresh key.  A value is known by    *)
(* how many its credential had before, a fingerprint by its value.         *)
(***************************************************************************)
EXTENDS Integers

CONSTANTS
  Procs, Projects, Creds,
  MaxKey,      \* bound: project keys ever drawn
  MaxVersion,  \* bound: values a credential ever has
  KeepVersions \* KEEP_VERSIONS of retain_credential_version

ASSUME BoundsAssumption ==
  MaxKey \in Nat /\ MaxVersion \in Nat \ {0} /\ KeepVersions \in Nat

NoKey == 0
Keys == 1..MaxKey
None == "none"
ASSUME NoneAssumption == None \notin Creds \cup Projects

VARIABLES
  project,  \* [Projects -> ...]: the row; mode "absent" before create_project
  cred,     \* [Creds -> ...]: the row; absent when its project is None
  versions, \* [Creds -> SET]: credential_versions
  pinned,   \* [Creds -> version an active rotation must be able to restore, or 0]
  cached,   \* [Procs -> [Projects -> Keys or NoKey]]: project_keys of an unlocked process
  op,       \* [Procs -> ...]: an operation in several steps, with what it read
  drawn,    \* keys drawn so far
  given     \* [Creds -> Nat]: values the credential was ever given (history)

vars == <<project, cred, versions, pinned, cached, op, drawn, given>>

Absent == [project |-> None, value |-> 0, key |-> NoKey, version |-> 0, link |-> None, fp |-> 0]
Bearer(j, v, k, n) == [project |-> j, value |-> v, key |-> k, version |-> n, link |-> None, fp |-> v]
Idle == [pc |-> "idle", c |-> None, j |-> None, row |-> Absent, key |-> NoKey]

Live(c) == cred[c].project # None
Bears(c) == Live(c) /\ cred[c].link = None
References(c) == {r \in Creds : Live(r) /\ cred[r].link = c}

Modes == {"absent", "vault", "vault+password"}
Rows == [project : Projects \cup {None}, value : 0..MaxVersion, key : Keys \cup {NoKey},
         version : 0..MaxVersion, link : Creds \cup {None}, fp : 0..MaxVersion]
Versions == [version : 1..MaxVersion, value : 1..MaxVersion, key : Keys]
Operations == [pc : {"idle", "unwrapped", "source", "unrotated", "unreferenced"},
               c : Creds \cup {None}, j : Projects \cup {None}, row : Rows,
               key : Keys \cup {NoKey}]

TypeOK ==
  /\ project \in [Projects -> [mode : Modes, key : Keys \cup {NoKey}, archived : BOOLEAN]]
  /\ cred \in [Creds -> Rows]
  /\ versions \in [Creds -> SUBSET Versions]
  /\ pinned \in [Creds -> 0..MaxVersion]
  /\ cached \in [Procs -> [Projects -> Keys \cup {NoKey}]]
  /\ op \in [Procs -> Operations]
  /\ drawn \in 0..MaxKey
  /\ given \in [Creds -> 0..MaxVersion]

Init ==
  /\ project = [j \in Projects |-> [mode |-> "absent", key |-> NoKey, archived |-> FALSE]]
  /\ cred = [c \in Creds |-> Absent] /\ versions = [c \in Creds |-> {}]
  /\ pinned = [c \in Creds |-> 0]
  /\ cached = [p \in Procs |-> [j \in Projects |-> NoKey]]
  /\ op = [p \in Procs |-> Idle] /\ drawn = 0 /\ given = [c \in Creds |-> 0]

At(p, pc) == op[p].pc = pc
Done(p) == op' = [op EXCEPT ![p] = Idle]

(***************************************************************************)
(* Projects.                                                               *)
(***************************************************************************)
\* Variant: the key an earlier unlock left is good enough.
CanUseCached(p, j) == project[j].mode = "vault" \/ cached[p][j] # NoKey

\* project_key_for_row: the cached key must be the one in the wrap that is stored now.
CanUse(p, j) ==
  \/ project[j].mode = "vault"
  \/ project[j].mode = "vault+password" /\ cached[p][j] # NoKey /\ cached[p][j] = project[j].key

KeyFor(p, j) == IF project[j].mode = "vault" THEN project[j].key ELSE cached[p][j]

CreateProject(p, j) ==
  /\ At(p, "idle") /\ project[j].mode = "absent" /\ drawn < MaxKey
  /\ drawn' = drawn + 1
  /\ project' = [project EXCEPT ![j] = [mode |-> "vault", key |-> drawn + 1, archived |-> FALSE]]
  /\ UNCHANGED <<cred, versions, pinned, cached, op, given>>

SetProjectArchived(p, j) ==
  /\ At(p, "idle") /\ project[j].mode # "absent"
  /\ project' = [project EXCEPT ![j].archived = ~project[j].archived]
  /\ UNCHANGED <<cred, versions, pinned, cached, op, drawn, given>>

\* A value or a version, sealed under another key.
Under(sealed, key) == [sealed EXCEPT !.key = key]

\* Variant: the retained versions are left under the old key.
RotateValuesOnly(j, old, new) ==
  /\ cred' = [c \in Creds |->
       IF cred[c].project = j /\ cred[c].link = None /\ cred[c].key = old
       THEN Under(cred[c], new) ELSE cred[c]]
  /\ versions' = versions

\* Every value and retained version of the project; one that the old key does not open
\* fails the transaction.
RotateProjectKey(j, old, new) ==
  /\ \A c \in Creds : cred[c].project = j /\ cred[c].link = None =>
       cred[c].key = old /\ \A v \in versions[c] : v.key = old
  /\ cred' = [c \in Creds |->
       IF cred[c].project = j /\ cred[c].link = None
       THEN Under(cred[c], new) ELSE cred[c]]
  /\ versions' = [c \in Creds |->
       IF cred[c].project = j /\ cred[c].link = None
       THEN {Under(v, new) : v \in versions[c]} ELSE versions[c]]

\* The project row under a new wrap.
Wrapped(j, mode, key) == [mode |-> mode, key |-> key, archived |-> project[j].archived]

\* Sets or changes it; the process stays unlocked.
SetProjectPassword(p, j) ==
  /\ At(p, "idle") /\ CanUse(p, j) /\ drawn < MaxKey
  /\ drawn' = drawn + 1
  /\ RotateProjectKey(j, KeyFor(p, j), drawn + 1)
  /\ project' = [project EXCEPT ![j] = Wrapped(j, "vault+password", drawn + 1)]
  /\ cached' = [cached EXCEPT ![p][j] = drawn + 1]
  /\ UNCHANGED <<pinned, op, given>>

UnlockProject(p, j) ==
  /\ At(p, "idle") /\ project[j].mode = "vault+password"
  /\ cached' = [cached EXCEPT ![p][j] = project[j].key]
  /\ UNCHANGED <<project, cred, versions, pinned, op, drawn, given>>

LockProject(p, j) ==
  /\ At(p, "idle") /\ project[j].mode = "vault+password" /\ cached[p][j] # NoKey
  /\ cached' = [cached EXCEPT ![p][j] = NoKey]
  /\ UNCHANGED <<project, cred, versions, pinned, op, drawn, given>>

\* The unwrap of remove_project_password runs on a row read before the transaction ...
RemoveRead(p, j) ==
  /\ At(p, "idle") /\ project[j].mode = "vault+password"
  /\ op' = [op EXCEPT ![p] = [Idle EXCEPT !.pc = "unwrapped", !.j = j, !.key = project[j].key]]
  /\ UNCHANGED <<project, cred, versions, pinned, cached, drawn, given>>

StillWrapped(j, key) == project[j].mode = "vault+password" /\ project[j].key = key

\* ... which requires that wrap to be current.
RemoveProjectPassword(p) ==
  LET j == op[p].j  old == op[p].key
  IN /\ At(p, "unwrapped") /\ StillWrapped(j, old) /\ drawn < MaxKey
     /\ drawn' = drawn + 1
     /\ RotateProjectKey(j, old, drawn + 1)
     /\ project' = [project EXCEPT ![j] = Wrapped(j, "vault", drawn + 1)]
     /\ cached' = [cached EXCEPT ![p][j] = NoKey] /\ Done(p)
     /\ UNCHANGED <<pinned, given>>

RemoveRefused(p) ==
  /\ At(p, "unwrapped") /\ ~StillWrapped(op[p].j, op[p].key) /\ Done(p)
  /\ UNCHANGED <<project, cred, versions, pinned, cached, drawn, given>>

(***************************************************************************)
(* Credentials.                                                            *)
(***************************************************************************)
AddCredential(p, c, j) ==
  /\ At(p, "idle") /\ ~Live(c) /\ given[c] = 0
  /\ ~project[j].archived /\ CanUse(p, j)
  /\ cred' = [cred EXCEPT ![c] = Bearer(j, 1, KeyFor(p, j), 1)]
  /\ given' = [given EXCEPT ![c] = 1]
  /\ UNCHANGED <<project, versions, pinned, cached, op, drawn>>

\* Retained versions that pruning may not take: an active rotation restores from them.
Exempt(c, v) == v.version = pinned[c]

\* Variant: the cap counts every version.
PrunedToCap(c, vs, n) == {v \in vs : v.version > n - KeepVersions}

\* retain_credential_version: the newest are kept, and those a rotation needs.
Pruned(c, vs, n) == {v \in vs : v.version > n - KeepVersions \/ Exempt(c, v)}

Retained(c) == [version |-> cred[c].version, value |-> cred[c].value, key |-> cred[c].key]

ReplaceCredentialValue(p, c) ==
  LET j == cred[c].project  n == cred[c].version  v == given[c] + 1
  IN /\ At(p, "idle") /\ Bears(c) /\ CanUse(p, j) /\ n < MaxVersion
     /\ cred[c].key = KeyFor(p, j)
     /\ versions' = [versions EXCEPT ![c] =
          Pruned(c, {w \in versions[c] : w.version # n} \cup {Retained(c)}, n)]
     /\ cred' = [r \in Creds |-> CASE r = c -> Bearer(j, v, KeyFor(p, j), n + 1)
                                 [] r \in References(c) -> [cred[r] EXCEPT !.fp = v]
                                 [] OTHER -> cred[r]]
     /\ given' = [given EXCEPT ![c] = @ + 1]
     /\ UNCHANGED <<project, pinned, cached, op, drawn>>

\* unlock_vault: versions past the rollback window, the oldest first.
UnlockSweep(p, c, n) ==
  /\ At(p, "idle")
  /\ versions' = [versions EXCEPT ![c] = {v \in @ : v.version > n \/ Exempt(c, v)}]
  /\ versions' # versions
  /\ UNCHANGED <<project, cred, pinned, cached, op, drawn, given>>

\* add_credential_reference reads the project and the source, and goes to the
\* value-bearing record if the source is itself a reference ...
ReferenceRead(p, c, j, source) ==
  LET root == IF cred[source].link = None THEN source ELSE cred[source].link
  IN /\ At(p, "idle") /\ ~Live(c) /\ given[c] = 0 /\ Live(source)
     /\ project[j].mode # "absent" /\ ~project[j].archived
     /\ op' = [op EXCEPT ![p] = [Idle EXCEPT !.pc = "source", !.c = c, !.j = j,
                 !.row = [Absent EXCEPT !.project = j, !.link = root, !.fp = cred[root].fp]]]
     /\ UNCHANGED <<project, cred, versions, pinned, cached, drawn, given>>

\* ... then inserts what it read, without a transaction around both.  The foreign key
\* refuses a root that is gone.
AddCredentialReference(p) ==
  /\ At(p, "source") /\ Done(p)
  /\ cred' = IF Live(op[p].row.link) /\ ~Live(op[p].c) /\ given[op[p].c] = 0
             THEN [cred EXCEPT ![op[p].c] = op[p].row] ELSE cred
  /\ UNCHANGED <<project, versions, pinned, cached, drawn, given>>

(***************************************************************************)
(* Rotations, as far as they pin a version and forbid deletion: approval   *)
(* and a terminal state.                                                   *)
(***************************************************************************)
RotationActive(c) ==
  /\ Bears(c) /\ pinned[c] = 0 /\ pinned' = [pinned EXCEPT ![c] = cred[c].version]
  /\ UNCHANGED <<project, cred, versions, cached, op, drawn, given>>

RotationOver(c) ==
  /\ pinned[c] # 0 /\ pinned' = [pinned EXCEPT ![c] = 0]
  /\ UNCHANGED <<project, cred, versions, cached, op, drawn, given>>

(***************************************************************************)
(* delete_credential: two checks and a deletion, each a statement.         *)
(***************************************************************************)
CheckRotations(p, c) ==
  /\ At(p, "idle") /\ Live(c) /\ pinned[c] = 0
  /\ op' = [op EXCEPT ![p] = [Idle EXCEPT !.pc = "unrotated", !.c = c]]
  /\ UNCHANGED <<project, cred, versions, pinned, cached, drawn, given>>

CheckReferences(p) ==
  /\ At(p, "unrotated")
  /\ op' = [op EXCEPT ![p] = IF References(op[p].c) = {} THEN [op[p] EXCEPT !.pc = "unreferenced"]
                             ELSE Idle]
  /\ UNCHANGED <<project, cred, versions, pinned, cached, drawn, given>>

\* Variant: references that appeared since the check are ignored.
MayDeleteChecked(c) == Live(c)

\* linked_credential_id REFERENCES credentials(id): a referenced row stays.
MayDelete(c) == Live(c) /\ References(c) = {}

\* Versions and rotations go with the row (ON DELETE CASCADE).
DeleteCredential(p) ==
  LET c == op[p].c
  IN /\ At(p, "unreferenced") /\ Done(p)
     /\ IF MayDelete(c)
        THEN /\ cred' = [cred EXCEPT ![c] = Absent]
             /\ versions' = [versions EXCEPT ![c] = {}] /\ pinned' = [pinned EXCEPT ![c] = 0]
        ELSE UNCHANGED <<cred, versions, pinned>>
     /\ UNCHANGED <<project, cached, drawn, given>>

\* A process ends, or its vault is locked: the keys it held are dropped.
Lock(p) ==
  /\ Done(p) /\ cached' = [cached EXCEPT ![p] = [j \in Projects |-> NoKey]]
  /\ <<op', cached'>> # <<op, cached>>
  /\ UNCHANGED <<project, cred, versions, pinned, drawn, given>>

ProjectStep(p, j) ==
  \/ CreateProject(p, j) \/ SetProjectArchived(p, j)
  \/ SetProjectPassword(p, j) \/ UnlockProject(p, j) \/ LockProject(p, j) \/ RemoveRead(p, j)

CredentialStep(p, c) ==
  \/ ReplaceCredentialValue(p, c)
  \/ \E j \in Projects : AddCredential(p, c, j)
  \/ \E j \in Projects, s \in Creds : ReferenceRead(p, c, j, s)
  \/ \E n \in 1..MaxVersion : UnlockSweep(p, c, n)
  \/ CheckRotations(p, c)

Resume(p) ==
  \/ RemoveProjectPassword(p) \/ RemoveRefused(p) \/ AddCredentialReference(p)
  \/ CheckReferences(p) \/ DeleteCredential(p) \/ Lock(p)

Next ==
  \/ \E p \in Procs, j \in Projects : ProjectStep(p, j)
  \/ \E p \in Procs, c \in Creds : CredentialStep(p, c)
  \/ \E p \in Procs : Resume(p)
  \/ \E c \in Creds : RotationActive(c) \/ RotationOver(c)

Spec == Init /\ [][Next]_vars

(***************************************************************************)
(* Properties.                                                             *)
(***************************************************************************)
\* write_txn: "committed ciphertext is always decryptable under the persisted key".  Every
\* value and every retained version is under the key in its project's wrap, whichever
\* processes add, replace, lock, unlock and re-key at once.
AlwaysDecryptable ==
  \A c \in Creds : Bears(c) =>
    /\ cred[c].key = project[cred[c].project].key
    /\ \A v \in versions[c] : v.key = project[cred[c].project].key

\* References point at value-bearing records, never at nothing and never at another
\* reference, although they are resolved and inserted in two statements.
ReferencesResolve ==
  \A c \in Creds : Live(c) /\ cred[c].link # None => Bears(cred[c].link)

\* A retained version is the value its number stood for (what a rollback restores), and is
\* older than the value in force (retain_credential_version).
VersionsTruthful ==
  \A c \in Creds : \A v \in versions[c] :
    v.version < cred[c].version /\ v.value = v.version

\* The version an active rotation restores from survives every replacement, the cap and
\* the sweep at unlock (VERSION_PRUNE_ROTATION_EXEMPTION).
PinnedKept ==
  \A c \in Creds : pinned[c] # 0 =>
    cred[c].version = pinned[c] \/ \E v \in versions[c] : v.version = pinned[c]

\* replace_credential_value: references are kept "consistent with the new value".
ReferencesConsistent ==
  \A c \in Creds : Live(c) /\ cred[c].link # None => cred[c].fp = cred[cred[c].link].fp

\* delete_credential "refuses while [...] a rotation is in flight (deleting would cascade
\* away the tracking of a still-live provider-side key)".
DeleteKeepsTracking ==
  [][\A c \in Creds : Live(c) /\ cred'[c] = Absent => pinned[c] = 0]_vars
=============================================================================

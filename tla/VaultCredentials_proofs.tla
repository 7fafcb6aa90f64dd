---------------------- MODULE VaultCredentials_proofs ----------------------
(***************************************************************************)
(* Theorems about VaultCredentials, for any processes, projects and        *)
(* credentials and any bounds: what is committed opens under the wrap that *)
(* is stored, retained versions are what their number says, and the one a  *)
(* rotation needs is there.                                                *)
(*                                                                         *)
(* What makes AlwaysDecryptable inductive is that the key of a project is  *)
(* only replaced together with everything under it, and that a value is    *)
(* only written by a process whose key is the stored one; both need to     *)
(* know that a record with a value lies in a project that has a key        *)
(* (Housed), and that nothing is left of a deleted one (Gone).             *)
(***************************************************************************)
EXTENDS VaultCredentials, TLAPS

\* A record that bears a value: its number is that of the value, in a project that exists.
Housed ==
  \A c \in Creds : Bears(c) =>
    /\ cred[c].project \in Projects /\ project[cred[c].project].mode # "absent"
    /\ cred[c].version = given[c] /\ cred[c].value = given[c] /\ given[c] \in 1..MaxVersion
    /\ cred[c].key \in Keys

\* Nothing is retained or pinned of what is not a record with a value.
Gone == \A c \in Creds : ~Bears(c) => versions[c] = {} /\ pinned[c] = 0

\* A project that exists has a key.
Keyed == \A j \in Projects : project[j].mode # "absent" => project[j].key \in Keys

\* A reference about to be inserted is one, and its target had a value.
Referring ==
  \A p \in Procs :
    /\ op[p].pc = "source" => /\ op[p].row.link \in Creds /\ op[p].row.project \in Projects
                               /\ op[p].c \in Creds /\ given[op[p].row.link] # 0
    /\ op[p].pc = "unwrapped" => op[p].j \in Projects
    /\ op[p].pc \in {"unrotated", "unreferenced"} => op[p].c \in Creds

\* A reference never had a value, so no record with a value becomes one.
Valueless == \A c \in Creds : Live(c) /\ cred[c].link # None => given[c] = 0

Inv ==
  /\ TypeOK /\ Housed /\ Gone /\ Keyed /\ Referring /\ Valueless /\ ReferencesResolve
  /\ AlwaysDecryptable /\ VersionsTruthful /\ PinnedKept

----------------------------------------------------------------------------
\* The key a process may use is the one in force.
LEMMA UsableKey ==
  ASSUME NEW p \in Procs, NEW j \in Projects, CanUse(p, j)
  PROVE  KeyFor(p, j) = project[j].key /\ project[j].mode # "absent"
BY DEF CanUse, KeyFor

\* Every initial state satisfies the invariant.
LEMMA InitInv == Init => Inv
<1> SUFFICES ASSUME Init PROVE Inv
  OBVIOUS
<1> USE BoundsAssumption, NoneAssumption
<1> USE DEF Init, Absent, Idle, Live, Bears, NoKey, Keys, None
<1>1. TypeOK
  BY DEF TypeOK, Rows, Versions, Modes, Operations
<1>2. Housed /\ Gone /\ Keyed /\ Referring
  BY DEF Housed, Gone, Keyed, Referring
<1>3. AlwaysDecryptable /\ VersionsTruthful /\ PinnedKept
  BY DEF AlwaysDecryptable, VersionsTruthful, PinnedKept
<1>4. Valueless /\ ReferencesResolve
  BY DEF Valueless, ReferencesResolve
<1>5. QED
  BY <1>1, <1>2, <1>3, <1>4 DEF Inv

\* Steps that touch nothing but the operation of a process and the keys it holds.
LEMMA ProcessStep ==
  ASSUME Inv, UNCHANGED <<project, cred, versions, pinned, drawn, given>>,
         op' \in [Procs -> Operations],
         cached' \in [Procs -> [Projects -> Keys \cup {NoKey}]],
         Referring'
  PROVE  Inv'
<1>1. TypeOK'
  BY DEF Inv, TypeOK
<1>2. Housed' /\ Gone' /\ Keyed'
  BY DEF Inv, Housed, Gone, Keyed, Live, Bears
<1>3. AlwaysDecryptable' /\ VersionsTruthful' /\ PinnedKept'
  BY DEF Inv, AlwaysDecryptable, VersionsTruthful, PinnedKept, Live, Bears
<1>4. Valueless' /\ ReferencesResolve'
  BY DEF Inv, Valueless, ReferencesResolve, Live, Bears
<1>5. QED
  BY <1>1, <1>2, <1>3, <1>4 DEF Inv

----------------------------------------------------------------------------
\* The flag of a project row is nothing but that.
LEMMA RowArchived ==
  ASSUME NEW S, NEW T, NEW r \in [mode : S, key : T, archived : BOOLEAN], NEW b \in BOOLEAN
  PROVE  /\ [r EXCEPT !.archived = b] \in [mode : S, key : T, archived : BOOLEAN]
         /\ [r EXCEPT !.archived = b].mode = r.mode
         /\ [r EXCEPT !.archived = b].key = r.key
OBVIOUS

\* A project row changes, and neither its key nor a credential with it.
LEMMA ArchiveStep ==
  ASSUME Inv, NEW p \in Procs, NEW j \in Projects, SetProjectArchived(p, j)
  PROVE  Inv'
<1> USE DEF SetProjectArchived
<1>1. /\ \A i \in Projects : project'[i].mode = project[i].mode /\ project'[i].key = project[i].key
      /\ project' \in [Projects -> [mode : Modes, key : Keys \cup {NoKey}, archived : BOOLEAN]]
  <2> DEFINE b == ~project[j].archived
             P == [mode : Modes, key : Keys \cup {NoKey}, archived : BOOLEAN]
  <2>1. project \in [Projects -> P]
    BY DEF Inv, TypeOK
  <2>2. b \in BOOLEAN
    OBVIOUS
  <2>3. project' = [project EXCEPT ![j] = [project[j] EXCEPT !.archived = b]]
    OBVIOUS
  <2> HIDE DEF b
  <2>4. [project[j] EXCEPT !.archived = b] \in P
        /\ [project[j] EXCEPT !.archived = b].mode = project[j].mode
        /\ [project[j] EXCEPT !.archived = b].key = project[j].key
    BY <2>1, <2>2, RowArchived
  <2>5. QED
    BY <2>1, <2>3, <2>4
<1>2. TypeOK' /\ Referring'
  BY <1>1 DEF Inv, TypeOK, Referring
<1>3. Housed' /\ Gone' /\ Keyed'
  BY <1>1 DEF Inv, Housed, Gone, Keyed, Live, Bears
<1>4. AlwaysDecryptable' /\ VersionsTruthful' /\ PinnedKept'
  BY <1>1 DEF Inv, AlwaysDecryptable, VersionsTruthful, PinnedKept, Housed, Live, Bears
<1>5. Valueless' /\ ReferencesResolve'
  BY DEF Inv, Valueless, ReferencesResolve, Live, Bears
<1>6. QED
  BY <1>2, <1>3, <1>4, <1>5 DEF Inv

\* A new project has no credential yet.
LEMMA CreateStep ==
  ASSUME Inv, NEW p \in Procs, NEW j \in Projects, CreateProject(p, j)
  PROVE  Inv'
<1> USE BoundsAssumption DEF CreateProject
<1>1. drawn + 1 \in Keys /\ drawn' \in 0..MaxKey
  BY DEF Inv, TypeOK, Keys
<1>2. TypeOK' /\ Referring'
  BY <1>1 DEF Inv, TypeOK, Modes, Referring
<1>3. \A c \in Creds : Bears(c) => cred[c].project # j
  BY DEF Inv, Housed
<1>4. Housed' /\ Gone'
  BY <1>3 DEF Inv, Housed, Gone, Live, Bears, TypeOK
<1>5. Keyed'
  BY <1>1 DEF Inv, Keyed, TypeOK
<1>6. AlwaysDecryptable' /\ VersionsTruthful' /\ PinnedKept'
  BY <1>3 DEF Inv, AlwaysDecryptable, VersionsTruthful, PinnedKept, Housed, Live, Bears, TypeOK
<1>7. Valueless' /\ ReferencesResolve'
  BY DEF Inv, Valueless, ReferencesResolve, Live, Bears
<1>8. QED
  BY <1>2, <1>4, <1>5, <1>6, <1>7 DEF Inv

\* Sealing under another key changes nothing else.
LEMMA VersionUnder ==
  ASSUME NEW v \in Versions, NEW k \in Keys
  PROVE  /\ Under(v, k) \in Versions /\ Under(v, k).key = k
         /\ Under(v, k).version = v.version /\ Under(v, k).value = v.value
BY DEF Under, Versions

\* The same of a credential's row.
LEMMA RowUnder ==
  ASSUME NEW r \in Rows, NEW k \in Keys
  PROVE  /\ Under(r, k) \in Rows /\ Under(r, k).key = k
         /\ Under(r, k).version = r.version /\ Under(r, k).value = r.value
         /\ Under(r, k).project = r.project /\ Under(r, k).link = r.link
BY DEF Under, Rows

\* What is under the old key of a project is put under the new one, all of it.
LEMMA Rekeyed ==
  ASSUME Inv, NEW j \in Projects, NEW mode \in Modes, mode # "absent", drawn < MaxKey,
         RotateProjectKey(j, project[j].key, drawn + 1), drawn' = drawn + 1,
         project' \in [Projects -> [mode : Modes, key : Keys \cup {NoKey}, archived : BOOLEAN]],
         project'[j].mode = mode, project'[j].key = drawn + 1,
         \A i \in Projects \ {j} : project'[i] = project[i],
         UNCHANGED <<pinned, given>>,
         op' \in [Procs -> Operations],
         cached' \in [Procs -> [Projects -> Keys \cup {NoKey}]],
         Referring'
  PROVE  Inv'
<1> USE BoundsAssumption
<1> DEFINE mine(c) == cred[c].project = j /\ cred[c].link = None
<1>1. drawn + 1 \in Keys /\ drawn' \in 0..MaxKey
  BY DEF Inv, TypeOK, Keys
<1>2. \A c \in Creds :
        /\ mine(c) => cred'[c] = Under(cred[c], drawn + 1)
                       /\ versions'[c] = {Under(v, drawn + 1) : v \in versions[c]}
        /\ ~mine(c) => cred'[c] = cred[c] /\ versions'[c] = versions[c]
  BY DEF RotateProjectKey
<1>3. \A c \in Creds : cred[c] \in Rows /\ versions[c] \subseteq Versions
  BY DEF Inv, TypeOK
<1>4. \A c \in Creds :
        /\ cred'[c] \in Rows
        /\ cred'[c].project = cred[c].project /\ cred'[c].link = cred[c].link
        /\ cred'[c].version = cred[c].version /\ cred'[c].value = cred[c].value
        /\ cred'[c].key = IF mine(c) THEN drawn + 1 ELSE cred[c].key
  BY <1>1, <1>2, <1>3, RowUnder
<1>5. \A c \in Creds : \A w \in versions'[c] : \E v \in versions[c] :
        /\ w \in Versions /\ w.version = v.version /\ w.value = v.value
        /\ w.key = IF mine(c) THEN drawn + 1 ELSE v.key
  <2> SUFFICES ASSUME NEW c \in Creds, NEW w \in versions'[c]
               PROVE  \E v \in versions[c] :
                        /\ w \in Versions /\ w.version = v.version /\ w.value = v.value
                        /\ w.key = IF mine(c) THEN drawn + 1 ELSE v.key
    OBVIOUS
  <2>1. CASE mine(c)
    <3>1. PICK v \in versions[c] : w = Under(v, drawn + 1)
      BY <2>1, <1>2
    <3>2. v \in Versions
      BY <1>3
    <3>3. QED
      BY <2>1, <3>1, <3>2, <1>1, VersionUnder
  <2>2. CASE ~mine(c)
    BY <2>2, <1>2, <1>3
  <2>3. QED
    BY <2>1, <2>2
<1>6. \A c \in Creds : \A v \in versions[c] : \E w \in versions'[c] : w.version = v.version
  <2> SUFFICES ASSUME NEW c \in Creds, NEW v \in versions[c]
               PROVE  \E w \in versions'[c] : w.version = v.version
    OBVIOUS
  <2>1. CASE mine(c)
    <3>1. v \in Versions
      BY <1>3
    <3>2. Under(v, drawn + 1) \in versions'[c]
      BY <2>1, <1>2
    <3>3. QED
      BY <1>1, <3>1, <3>2, VersionUnder
  <2>2. CASE ~mine(c)
    BY <2>2, <1>2
  <2>3. QED
    BY <2>1, <2>2
<1>7. TypeOK'
  <2>1. cred' \in [Creds -> Rows]
    BY <1>4 DEF RotateProjectKey
  <2>2. versions' \in [Creds -> SUBSET Versions]
    <3>1. \A c \in Creds : versions'[c] \subseteq Versions
      BY <1>5
    <3>2. versions' = [c \in Creds |-> versions'[c]]
      BY DEF RotateProjectKey
    <3>3. QED
      BY <3>1, <3>2
  <2>3. QED
    BY <2>1, <2>2, <1>1 DEF Inv, TypeOK
<1>8. \A c \in Creds : (Bears(c)' <=> Bears(c)) /\ (Live(c)' <=> Live(c))
  BY <1>4 DEF Live, Bears
<1>9. Gone' /\ Keyed'
  <2>1. Gone'
    BY <1>5, <1>8 DEF Inv, Gone
  <2>2. Keyed'
    BY <1>1 DEF Inv, Keyed
  <2>3. QED
    BY <2>1, <2>2
<1>10. Housed'
  BY <1>1, <1>4, <1>8 DEF Inv, Housed
<1>11. AlwaysDecryptable'
  <2> SUFFICES ASSUME NEW c \in Creds, Bears(c)'
               PROVE  /\ cred'[c].key = project'[cred'[c].project].key
                      /\ \A w \in versions'[c] : w.key = project'[cred'[c].project].key
    BY DEF AlwaysDecryptable
  <2>1. Bears(c) /\ cred[c].link = None /\ cred[c].project \in Projects
    BY <1>8 DEF Inv, Housed, Bears
  <2>2. /\ cred[c].key = project[cred[c].project].key
        /\ \A v \in versions[c] : v.key = project[cred[c].project].key
    BY <2>1 DEF Inv, AlwaysDecryptable
  <2>3. CASE cred[c].project = j
    BY <2>1, <2>3, <1>4, <1>5
  <2>4. CASE cred[c].project # j
    BY <2>1, <2>2, <2>4, <1>4, <1>5
  <2>5. QED
    BY <2>3, <2>4
<1>12. VersionsTruthful'
  BY <1>4, <1>5 DEF Inv, VersionsTruthful
<1>13. PinnedKept'
  BY <1>4, <1>6 DEF Inv, PinnedKept
<1>14. Valueless' /\ ReferencesResolve'
  BY <1>4, <1>8 DEF Inv, Valueless, ReferencesResolve, TypeOK, Rows
<1>15. QED
  BY <1>7, <1>9, <1>10, <1>11, <1>12, <1>13, <1>14 DEF Inv

\* Setting or changing a password.
LEMMA PasswordStep ==
  ASSUME Inv, NEW p \in Procs, NEW j \in Projects, SetProjectPassword(p, j)
  PROVE  Inv'
<1> USE BoundsAssumption DEF SetProjectPassword
<1>1. KeyFor(p, j) = project[j].key
  BY UsableKey
<1>2. /\ project' \in [Projects -> [mode : Modes, key : Keys \cup {NoKey}, archived : BOOLEAN]]
      /\ project'[j].mode = "vault+password" /\ project'[j].key = drawn + 1
      /\ \A i \in Projects \ {j} : project'[i] = project[i]
  BY DEF Inv, TypeOK, Keys, Modes, Wrapped
<1>3. cached' \in [Procs -> [Projects -> Keys \cup {NoKey}]]
  BY DEF Inv, TypeOK, Keys
<1>4. Referring'
  BY DEF Inv, Referring
<1>5. QED
  BY <1>1, <1>2, <1>3, <1>4, Rekeyed DEF Inv, TypeOK, Modes

\* Removing one, under the wrap that is still stored.
LEMMA RemovePasswordStep ==
  ASSUME Inv, NEW p \in Procs, RemoveProjectPassword(p)
  PROVE  Inv'
<1> USE BoundsAssumption DEF RemoveProjectPassword
<1> DEFINE j == op[p].j
<1>1. j \in Projects /\ op[p].key = project[j].key
  BY DEF Inv, Referring, At, StillWrapped
<1>2. /\ project' \in [Projects -> [mode : Modes, key : Keys \cup {NoKey}, archived : BOOLEAN]]
      /\ project'[j].mode = "vault" /\ project'[j].key = drawn + 1
      /\ \A i \in Projects \ {j} : project'[i] = project[i]
  BY <1>1 DEF Inv, TypeOK, Keys, Modes, Wrapped
<1>3. cached' \in [Procs -> [Projects -> Keys \cup {NoKey}]]
  BY DEF Inv, TypeOK, Keys
<1>4. /\ Referring'
      /\ op' \in [Procs -> Operations]
  BY DEF Inv, TypeOK, Referring, Done, Idle, Absent, Rows, Operations, Keys, NoKey
<1>5. RotateProjectKey(j, project[j].key, drawn + 1)
  BY <1>1
<1>6. QED
  <2> HIDE DEF j
  <2>1. "vault" \in Modes /\ "vault" # "absent"
    BY DEF Modes
  <2>2. drawn < MaxKey /\ drawn' = drawn + 1 /\ UNCHANGED <<pinned, given>>
    OBVIOUS
  <2>3. QED
    BY <1>1, <1>2, <1>3, <1>4, <1>5, <2>1, <2>2, Rekeyed

----------------------------------------------------------------------------
\* What is sealed in a row, and where: all but the fingerprint.
Sealed(r) == <<r.project, r.link, r.version, r.value, r.key>>

\* What a row, its versions, the pin and the count of its values have to be together.
Fits(row, vs, pin, g) ==
  IF row.project # None /\ row.link = None
  THEN /\ row.project \in Projects /\ project[row.project].mode # "absent"
       /\ row.version = g /\ row.value = g /\ g # 0 /\ row.key \in Keys
       /\ row.key = project[row.project].key
       /\ \A v \in vs : v.key = row.key /\ v.version < row.version /\ v.value = v.version
       /\ pin # 0 => row.version = pin \/ \E v \in vs : v.version = pin
  ELSE vs = {} /\ pin = 0 /\ (row.project # None => g = 0)

\* A step that writes one credential, and of others at most the fingerprint: what it has
\* to show of the one it writes.
LEMMA CredentialWritten ==
  ASSUME Inv, NEW c \in Creds, NEW row \in Rows, NEW vs \in SUBSET Versions,
         NEW pin \in 0..MaxVersion, NEW g \in 0..MaxVersion,
         cred' \in [Creds -> Rows], cred'[c] = row,
         \A d \in Creds \ {c} : Sealed(cred'[d]) = Sealed(cred[d]),
         versions' = [versions EXCEPT ![c] = vs],
         pinned' = [pinned EXCEPT ![c] = pin], given' = [given EXCEPT ![c] = g],
         UNCHANGED <<project, cached, drawn>>,
         op' \in [Procs -> Operations],
         Referring',
         Fits(row, vs, pin, g),
         row.project # None /\ row.link # None => row.link # c /\ Bears(row.link),
         ~(row.project # None /\ row.link = None) => References(c) = {}
  PROVE  Inv'
<1>1. TypeOK'
  BY DEF Inv, TypeOK
<1>2. \A d \in Creds \ {c} :
        /\ cred'[d].project = cred[d].project /\ cred'[d].link = cred[d].link
        /\ cred'[d].version = cred[d].version /\ cred'[d].value = cred[d].value
        /\ cred'[d].key = cred[d].key
        /\ versions'[d] = versions[d] /\ pinned'[d] = pinned[d] /\ given'[d] = given[d]
  BY DEF Inv, TypeOK, Sealed
<1>3. cred'[c] = row /\ versions'[c] = vs /\ pinned'[c] = pin /\ given'[c] = g
  BY DEF Inv, TypeOK
<1>4. /\ \A d \in Creds \ {c} : (Bears(d)' <=> Bears(d))
      /\ Bears(c)' <=> row.project # None /\ row.link = None
  BY <1>2, <1>3 DEF Bears, Live
<1>5. Gone' /\ Keyed'
  BY <1>2, <1>3, <1>4 DEF Fits, Inv, Gone, Keyed
<1>6. Housed'
  BY <1>2, <1>3, <1>4 DEF Fits, Inv, Housed
<1>7. AlwaysDecryptable'
  BY <1>2, <1>3, <1>4 DEF Fits, Inv, AlwaysDecryptable
<1>8. VersionsTruthful'
  <2>1. \A d \in Creds \ {c} : \A v \in versions'[d] :
          v.version < cred'[d].version /\ v.value = v.version
    BY <1>2 DEF Inv, VersionsTruthful
  <2>2. \A v \in versions'[c] : v.version < cred'[c].version /\ v.value = v.version
    BY <1>3 DEF Fits
  <2>3. QED
    BY <2>1, <2>2 DEF VersionsTruthful
<1>9. PinnedKept'
  <2>1. \A d \in Creds \ {c} : pinned'[d] # 0 =>
          cred'[d].version = pinned'[d] \/ \E v \in versions'[d] : v.version = pinned'[d]
    BY <1>2 DEF Inv, PinnedKept
  <2>2. pinned'[c] # 0 =>
          cred'[c].version = pinned'[c] \/ \E v \in versions'[c] : v.version = pinned'[c]
    BY <1>3 DEF Fits
  <2>3. QED
    BY <2>1, <2>2 DEF PinnedKept
<1>10. Valueless'
  BY <1>2, <1>3, <1>4 DEF Inv, Valueless, Fits, Live
<1>11. ReferencesResolve'
  <2>1. ASSUME NEW d \in Creds \ {c}, Live(d)', cred'[d].link # None
        PROVE  Bears(cred[d].link)'
    <3>1. /\ Live(d) /\ cred[d].link # None /\ cred'[d].link = cred[d].link
          /\ cred[d].link \in Creds
      BY <1>2, <2>1 DEF Live, Inv, TypeOK, Rows
    <3>2. Bears(cred[d].link)
      BY <3>1 DEF Inv, ReferencesResolve
    <3>3. cred[d].link = c => d \in References(c)
      BY <3>1 DEF References
    <3>4. QED
      BY <1>4, <3>1, <3>2, <3>3
  <2>2. ASSUME Live(c)', cred'[c].link # None
        PROVE  Bears(cred[c].link)'
    BY <1>3, <1>4, <2>2 DEF Live, Rows
  <2>3. QED
    BY <2>1, <2>2 DEF ReferencesResolve
<1>12. QED
  BY <1>1, <1>5, <1>6, <1>7, <1>8, <1>9, <1>10, <1>11 DEF Inv

\* A reference follows the fingerprint of its target, and nothing else.
LEMMA RowFingerprint ==
  ASSUME NEW r \in Rows, NEW f \in 0..MaxVersion
  PROVE  [r EXCEPT !.fp = f] \in Rows /\ Sealed([r EXCEPT !.fp = f]) = Sealed(r)
BY DEF Rows, Sealed

\* A new credential, under the key in force.
LEMMA AddStep ==
  ASSUME Inv, NEW p \in Procs, NEW c \in Creds, NEW j \in Projects, AddCredential(p, c, j)
  PROVE  Inv'
<1> USE BoundsAssumption, NoneAssumption DEF AddCredential
<1> DEFINE row == Bearer(j, 1, KeyFor(p, j), 1)
<1>1. KeyFor(p, j) = project[j].key /\ project[j].mode # "absent" /\ project[j].key \in Keys
  BY UsableKey DEF Inv, Keyed
<1>2. /\ row \in Rows /\ row.project = j /\ row.link = None /\ row.key = project[j].key
      /\ row.version = 1 /\ row.value = 1
  BY <1>1 DEF Bearer, Rows, None
<1>3. versions[c] = {} /\ pinned[c] = 0
  BY DEF Inv, Gone, Bears
<1>4. /\ cred' \in [Creds -> Rows] /\ cred'[c] = row
      /\ \A d \in Creds \ {c} : Sealed(cred'[d]) = Sealed(cred[d])
  BY <1>2 DEF Inv, TypeOK
<1>5. versions' = [versions EXCEPT ![c] = {}] /\ pinned' = [pinned EXCEPT ![c] = 0]
  BY <1>3 DEF Inv, TypeOK
<1>6. Referring'
  BY DEF Inv, Referring, TypeOK
<1>7. op' = op /\ given' = [given EXCEPT ![c] = 1] /\ UNCHANGED <<project, cached, drawn>>
  OBVIOUS
<1>8. QED
  <2> HIDE DEF row, AddCredential
  <2>1. j # None
    OBVIOUS
  <2>2. op' \in [Procs -> Operations]
    BY <1>7 DEF Inv, TypeOK
  <2>3. {} \in SUBSET Versions /\ 0 \in 0..MaxVersion /\ 1 \in 0..MaxVersion
    OBVIOUS
  <2>4. Fits(row, {}, 0, 1)
    BY <1>1, <1>2, <2>1 DEF Fits
  <2>5. QED
    BY <1>2, <1>4, <1>5, <1>6, <1>7, <2>1, <2>2, <2>3, <2>4, CredentialWritten

\* A value is replaced: the old one becomes a version, under the same key, and neither the
\* cap nor the new version row takes the one a rotation needs.
LEMMA ReplaceStep ==
  ASSUME Inv, NEW p \in Procs, NEW c \in Creds, ReplaceCredentialValue(p, c)
  PROVE  Inv'
<1> USE BoundsAssumption, NoneAssumption
<1> DEFINE j == cred[c].project
           n == cred[c].version
           row == Bearer(j, n + 1, KeyFor(p, j), n + 1)
           kept == {w \in versions[c] : w.version # n} \cup {Retained(c)}
           vs == Pruned(c, kept, n)
<1>1. /\ Bears(c) /\ CanUse(p, j) /\ n < MaxVersion /\ cred[c].key = KeyFor(p, j)
      /\ versions' = [versions EXCEPT ![c] = vs] /\ UNCHANGED <<project, pinned, cached, op, drawn>>
  BY DEF ReplaceCredentialValue
<1>2. /\ j \in Projects /\ n = given[c] /\ cred[c].value = n /\ n \in 1..MaxVersion
      /\ cred[c].key \in Keys /\ project[j].mode # "absent"
  BY <1>1 DEF Inv, Housed
<1>3. cred[c].key = project[j].key /\ KeyFor(p, j) = project[j].key
  BY <1>1, <1>2, UsableKey
<1>4. /\ row \in Rows /\ row.project = j /\ row.link = None /\ row.key = project[j].key
      /\ row.version = n + 1 /\ row.value = n + 1
  BY <1>1, <1>2, <1>3 DEF Bearer, Rows
<1>5. /\ cred' \in [Creds -> Rows] /\ cred'[c] = row
      /\ \A d \in Creds \ {c} : Sealed(cred'[d]) = Sealed(cred[d])
  <2> DEFINE marked(r) == [cred[r] EXCEPT !.fp = n + 1]
  <2>1. cred' = [r \in Creds |-> CASE r = c -> row
                                 [] r \in References(c) -> marked(r)
                                 [] OTHER -> cred[r]]
    BY <1>2 DEF ReplaceCredentialValue
  <2>2. c \notin References(c)
    BY <1>1, NoneAssumption DEF References, Bears
  <2>3. \A r \in Creds : marked(r) \in Rows /\ Sealed(marked(r)) = Sealed(cred[r])
    <3> SUFFICES ASSUME NEW r \in Creds
                 PROVE  marked(r) \in Rows /\ Sealed(marked(r)) = Sealed(cred[r])
      OBVIOUS
    <3>1. cred[r] \in Rows /\ n + 1 \in 0..MaxVersion
      BY <1>1, <1>2 DEF Inv, TypeOK
    <3> HIDE DEF n
    <3>2. QED
      BY <3>1, RowFingerprint
  <2> HIDE DEF row, n, marked
  <2>4. cred'[c] = row
    BY <2>1, <2>2
  <2>5. \A d \in Creds \ {c} : cred'[d] \in Rows /\ Sealed(cred'[d]) = Sealed(cred[d])
    <3> SUFFICES ASSUME NEW d \in Creds \ {c}
                 PROVE  cred'[d] \in Rows /\ Sealed(cred'[d]) = Sealed(cred[d])
      OBVIOUS
    <3>1. cred[d] \in Rows
      BY DEF Inv, TypeOK
    <3>2. cred'[d] = IF d \in References(c) THEN marked(d) ELSE cred[d]
      BY <2>1
    <3>3. QED
      BY <2>3, <3>1, <3>2
  <2>6. cred' = [r \in Creds |-> cred'[r]]
    BY <2>1
  <2>7. QED
    BY <1>4, <2>4, <2>5, <2>6
<1>6. \A v \in versions[c] : /\ v \in Versions /\ v.key = project[j].key
                              /\ v.version < n /\ v.value = v.version
  BY <1>1 DEF Inv, TypeOK, AlwaysDecryptable, VersionsTruthful
<1>7. /\ Retained(c) \in Versions /\ Retained(c).key = project[j].key
      /\ Retained(c).version = n /\ Retained(c).value = n
  BY <1>2, <1>3 DEF Retained, Versions
<1>8. vs \in SUBSET Versions /\ \A v \in vs : v.key = project[j].key /\ v.version < n + 1
                                                 /\ v.value = v.version
  <2> SUFFICES ASSUME NEW v \in vs
               PROVE  v \in Versions /\ v.key = project[j].key /\ v.version < n + 1
                      /\ v.value = v.version
    OBVIOUS
  <2>1. v \in versions[c] \/ v = Retained(c)
    BY DEF Pruned
  <2> HIDE DEF n, j, vs
  <2>2. CASE v \in versions[c]
    <3>1. v.version \in Nat /\ n \in Nat
      BY <1>2, <1>6, <2>2 DEF Versions
    <3>2. QED
      BY <1>6, <2>2, <3>1
  <2>3. CASE v = Retained(c)
    BY <1>2, <1>7, <2>3
  <2>4. QED
    BY <2>1, <2>2, <2>3
<1>9. pinned[c] # 0 => \E v \in vs : v.version = pinned[c]
  <2> SUFFICES ASSUME pinned[c] # 0 PROVE \E v \in vs : v.version = pinned[c]
    OBVIOUS
  <2>1. CASE n = pinned[c]
    BY <1>7, <2>1 DEF Pruned, Exempt
  <2>2. CASE n # pinned[c]
    <3>1. PICK v \in versions[c] : v.version = pinned[c]
      BY <2>2 DEF Inv, PinnedKept
    <3>2. QED
      BY <2>2, <3>1 DEF Pruned, Exempt
  <2>3. QED
    BY <2>1, <2>2
<1>10. Fits(row, vs, pinned[c], n + 1)
  <2> HIDE DEF row, vs, n, j
  <2>1. j # None /\ n + 1 # 0 /\ project[j].key \in Keys
    BY <1>2, <1>3
  <2>2. QED
    BY <1>2, <1>4, <1>8, <1>9, <2>1 DEF Fits
<1>11. /\ pinned' = [pinned EXCEPT ![c] = pinned[c]] /\ pinned[c] \in 0..MaxVersion
       /\ given' = [given EXCEPT ![c] = n + 1] /\ n + 1 \in 0..MaxVersion
       /\ op' \in [Procs -> Operations]
  <2>1. given' = [given EXCEPT ![c] = n + 1]
    BY <1>2 DEF ReplaceCredentialValue
  <2>2. QED
    BY <1>1, <1>2, <2>1 DEF Inv, TypeOK
<1>12. Referring'
  BY <1>1, <1>2, <1>11 DEF Inv, Referring, TypeOK
<1>13. QED
  <2> HIDE DEF row, vs, n, j
  <2>1. j # None
    BY <1>2
  <2>2. QED
    BY <2>1, <1>1, <1>4, <1>5, <1>8, <1>10, <1>11, <1>12, CredentialWritten

\* The sweep at unlock takes versions, but none a rotation needs.
LEMMA SweepStep ==
  ASSUME Inv, NEW p \in Procs, NEW c \in Creds, NEW n \in 1..MaxVersion, UnlockSweep(p, c, n)
  PROVE  Inv'
<1> USE DEF UnlockSweep
<1>1. \A d \in Creds : versions'[d] \subseteq versions[d]
  BY DEF Inv, TypeOK
<1>2. \A v \in versions[c] : v.version = pinned[c] => v \in versions'[c]
  BY DEF Inv, TypeOK, Exempt
<1>3. \A d \in Creds \ {c} : versions'[d] = versions[d]
  BY DEF Inv, TypeOK
<1>4. TypeOK'
  <2>1. versions' \in [Creds -> SUBSET Versions]
    BY DEF Inv, TypeOK
  <2>2. QED
    BY <2>1 DEF Inv, TypeOK
<1>5. Housed' /\ Gone' /\ Keyed' /\ Referring'
  BY <1>1 DEF Inv, Housed, Gone, Keyed, Referring, Bears, Live
<1>6. AlwaysDecryptable' /\ VersionsTruthful'
  BY <1>1 DEF Inv, AlwaysDecryptable, VersionsTruthful, Bears, Live
<1>7. PinnedKept'
  BY <1>2, <1>3 DEF Inv, PinnedKept
<1>8. Valueless' /\ ReferencesResolve'
  BY DEF Inv, Valueless, ReferencesResolve, Live, Bears
<1>9. QED
  BY <1>4, <1>5, <1>6, <1>7, <1>8 DEF Inv

\* A rotation begins to need the version in force, or ends.
LEMMA RotationStep ==
  ASSUME Inv, NEW c \in Creds, RotationActive(c) \/ RotationOver(c)
  PROVE  Inv'
<1> USE BoundsAssumption
<1>1. /\ UNCHANGED <<project, cred, versions, cached, op, drawn, given>>
      /\ \A d \in Creds \ {c} : pinned'[d] = pinned[d]
      /\ pinned' \in [Creds -> 0..MaxVersion]
      /\ pinned'[c] # 0 => Bears(c) /\ pinned'[c] = cred[c].version
  <2>1. Bears(c) => cred[c].version \in 0..MaxVersion
    BY DEF Inv, Housed
  <2>2. QED
    BY <2>1 DEF RotationActive, RotationOver, Inv, TypeOK
<1>2. TypeOK' /\ Referring' /\ Housed' /\ Keyed'
  BY <1>1 DEF Inv, TypeOK, Referring, Housed, Keyed, Bears, Live
<1>3. Gone' /\ PinnedKept'
  BY <1>1 DEF Inv, Gone, PinnedKept, Bears, Live
<1>4. AlwaysDecryptable' /\ VersionsTruthful'
  BY <1>1 DEF Inv, AlwaysDecryptable, VersionsTruthful, Bears, Live
<1>5. Valueless' /\ ReferencesResolve'
  BY <1>1 DEF Inv, Valueless, ReferencesResolve, Live, Bears
<1>6. QED
  BY <1>2, <1>3, <1>4, <1>5 DEF Inv

\* A reference is inserted from what was read.
LEMMA ReferenceStep ==
  ASSUME Inv, NEW p \in Procs, AddCredentialReference(p)
  PROVE  Inv'
<1> USE BoundsAssumption, NoneAssumption
<1> DEFINE c == op[p].c
           row == op[p].row
<1>1. At(p, "source") /\ UNCHANGED <<project, versions, pinned, cached, drawn, given>>
      /\ op' = [op EXCEPT ![p] = Idle]
  BY DEF AddCredentialReference, Done
<1>2. c \in Creds /\ row \in Rows /\ row.link \in Creds
  BY <1>1 DEF Inv, Referring, At, TypeOK, Operations
<1>3. /\ op' \in [Procs -> Operations] /\ Referring'
  BY <1>1 DEF Inv, TypeOK, Referring, Idle, Absent, Rows, Operations, Keys, NoKey
<1>4. CASE cred' = cred
  BY <1>1, <1>3, <1>4, ProcessStep DEF Inv, TypeOK
<1>5. CASE cred' # cred
  <2>1. cred' = [cred EXCEPT ![c] = row] /\ ~Live(c) /\ given[c] = 0
    BY <1>5 DEF AddCredentialReference
  <2>2. versions[c] = {} /\ pinned[c] = 0
    BY <1>2, <2>1 DEF Inv, Gone, Bears
  <2>3. versions' = [versions EXCEPT ![c] = {}] /\ pinned' = [pinned EXCEPT ![c] = 0]
        /\ given' = [given EXCEPT ![c] = 0]
    BY <1>1, <1>2, <2>1, <2>2 DEF Inv, TypeOK
  <2>4. /\ cred' \in [Creds -> Rows] /\ cred'[c] = row
        /\ \A d \in Creds \ {c} : Sealed(cred'[d]) = Sealed(cred[d])
    BY <1>2, <2>1 DEF Inv, TypeOK
  <2>5. Fits(row, {}, 0, 0)
    BY <1>2 DEF Fits
  <2>6. Bears(row.link) /\ row.link # c
    <3>1. Live(row.link) /\ given[row.link] # 0
      BY <1>1, <1>5 DEF AddCredentialReference, Inv, Referring, At
    <3>2. QED
      BY <1>2, <2>1, <3>1 DEF Inv, Valueless, Bears
  <2>7. References(c) = {}
    <3>1. ASSUME NEW d \in References(c) PROVE FALSE
      BY <1>2, <2>1, <3>1 DEF References, Inv, ReferencesResolve, Bears
    <3>2. QED
      BY <3>1
  <2>8. {} \in SUBSET Versions /\ 0 \in 0..MaxVersion
    OBVIOUS
  <2> HIDE DEF c, row
  <2>9. row.link # None
    BY <1>2
  <2>10. QED
    BY <1>1, <1>2, <1>3, <2>3, <2>4, <2>5, <2>8, <2>9, <2>6, <2>7, CredentialWritten
<1>6. QED
  BY <1>4, <1>5

\* A credential goes with its versions and rotations, if no reference is left.
LEMMA DeleteStep ==
  ASSUME Inv, NEW p \in Procs, DeleteCredential(p)
  PROVE  Inv'
<1> USE BoundsAssumption, NoneAssumption
<1> DEFINE c == op[p].c
<1>1. At(p, "unreferenced") /\ UNCHANGED <<project, cached, drawn, given>>
      /\ op' = [op EXCEPT ![p] = Idle]
  BY DEF DeleteCredential, Done
<1>2. c \in Creds
  BY <1>1 DEF Inv, Referring, At
<1>3. op' \in [Procs -> Operations] /\ Referring'
  BY <1>1 DEF Inv, TypeOK, Referring, Idle, Absent, Rows, Operations, Keys, NoKey
<1>4. CASE ~MayDelete(c)
  BY <1>1, <1>3, <1>4, ProcessStep DEF Inv, TypeOK, DeleteCredential
<1>5. CASE MayDelete(c)
  <2>1. /\ cred' = [cred EXCEPT ![c] = Absent] /\ versions' = [versions EXCEPT ![c] = {}]
        /\ pinned' = [pinned EXCEPT ![c] = 0]
    BY <1>5 DEF DeleteCredential
  <2>2. Absent \in Rows /\ Absent.project = None
    BY DEF Absent, Rows, NoKey
  <2>3. /\ cred' \in [Creds -> Rows] /\ cred'[c] = Absent
        /\ \A d \in Creds \ {c} : Sealed(cred'[d]) = Sealed(cred[d])
    BY <1>2, <2>1, <2>2 DEF Inv, TypeOK
  <2>4. Fits(Absent, {}, 0, given[c]) /\ given[c] \in 0..MaxVersion
        /\ given' = [given EXCEPT ![c] = given[c]]
    BY <1>1, <1>2, <2>2 DEF Fits, Inv, TypeOK
  <2>5. References(c) = {}
    BY <1>5 DEF MayDelete
  <2>6. {} \in SUBSET Versions /\ 0 \in 0..MaxVersion
    OBVIOUS
  <2> HIDE DEF c
  <2>7. QED
    BY <1>1, <1>2, <1>3, <2>1, <2>2, <2>3, <2>4, <2>6, <2>5, CredentialWritten
<1>6. QED
  BY <1>4, <1>5

----------------------------------------------------------------------------
\* The steps of a process that write nothing.
LEMMA ReadSteps ==
  ASSUME Inv, NEW p \in Procs,
         \/ \E j \in Projects : UnlockProject(p, j) \/ LockProject(p, j) \/ RemoveRead(p, j)
         \/ \E c, s \in Creds, j \in Projects : ReferenceRead(p, c, j, s)
         \/ \E c \in Creds : CheckRotations(p, c)
         \/ RemoveRefused(p) \/ CheckReferences(p) \/ Lock(p)
  PROVE  Inv'
<1> USE BoundsAssumption, NoneAssumption
<1>1. UNCHANGED <<project, cred, versions, pinned, drawn, given>>
  BY DEF UnlockProject, LockProject, RemoveRead, ReferenceRead, CheckRotations, RemoveRefused,
         CheckReferences, Lock
<1>2. cached' \in [Procs -> [Projects -> Keys \cup {NoKey}]]
  <2>1. CASE cached' = cached
    BY <2>1 DEF Inv, TypeOK
  <2>2. ASSUME NEW j \in Projects, UnlockProject(p, j) \/ LockProject(p, j)
        PROVE  cached' \in [Procs -> [Projects -> Keys \cup {NoKey}]]
    <3>1. project[j].key \in Keys \cup {NoKey}
      BY DEF Inv, TypeOK
    <3>2. PICK k \in Keys \cup {NoKey} : cached' = [cached EXCEPT ![p][j] = k]
      BY <2>2, <3>1 DEF UnlockProject, LockProject
    <3>3. QED
      BY <3>2 DEF Inv, TypeOK
  <2>3. CASE Lock(p)
    BY <2>3 DEF Lock, Inv, TypeOK
  <2>4. QED
    BY <2>1, <2>2, <2>3 DEF RemoveRead, ReferenceRead, CheckRotations, RemoveRefused, CheckReferences
<1>3. op' \in [Procs -> Operations] /\ Referring'
  <2>1. CASE op' = op
    BY <1>1, <2>1 DEF Inv, TypeOK, Referring
  <2>2. Idle \in Operations /\ Absent \in Rows
    BY DEF Idle, Absent, Rows, Operations, Keys, NoKey
  <2>3. CASE op' = [op EXCEPT ![p] = Idle]
    BY <1>1, <2>2, <2>3 DEF Inv, TypeOK, Referring, Idle
  <2>4. ASSUME NEW j \in Projects, RemoveRead(p, j)
        PROVE  op' \in [Procs -> Operations] /\ Referring'
    <3>1. [Idle EXCEPT !.pc = "unwrapped", !.j = j, !.key = project[j].key] \in Operations
      BY <2>2 DEF Idle, Operations, Inv, TypeOK
    <3>2. QED
      BY <2>4, <3>1 DEF RemoveRead, Idle, Inv, TypeOK, Referring
  <2>5. ASSUME NEW c \in Creds, CheckRotations(p, c)
        PROVE  op' \in [Procs -> Operations] /\ Referring'
    <3>1. [Idle EXCEPT !.pc = "unrotated", !.c = c] \in Operations
      BY <2>2 DEF Idle, Operations
    <3>2. QED
      BY <2>5, <3>1 DEF CheckRotations, Idle, Inv, TypeOK, Referring
  <2>6. CASE CheckReferences(p)
    <3>1. [op[p] EXCEPT !.pc = "unreferenced"] \in Operations
          /\ [op[p] EXCEPT !.pc = "unreferenced"].pc = "unreferenced"
          /\ [op[p] EXCEPT !.pc = "unreferenced"].c = op[p].c
      BY DEF Operations, Inv, TypeOK
    <3>2. op[p].c \in Creds
      BY <2>6 DEF CheckReferences, Inv, Referring, At
    <3>3. QED
      BY <2>2, <2>6, <3>1, <3>2 DEF CheckReferences, Idle, Inv, TypeOK, Referring
  <2>7. ASSUME NEW c \in Creds, NEW s \in Creds, NEW j \in Projects, ReferenceRead(p, c, j, s)
        PROVE  op' \in [Procs -> Operations] /\ Referring'
    <3> DEFINE root == IF cred[s].link = None THEN s ELSE cred[s].link
               row == [Absent EXCEPT !.project = j, !.link = root, !.fp = cred[root].fp]
               new == [Idle EXCEPT !.pc = "source", !.c = c, !.j = j, !.row = row]
    <3>1. root \in Creds
      BY DEF Inv, TypeOK, Rows
    <3>2. given[root] # 0
      <4>1. Live(s)
        BY <2>7 DEF ReferenceRead
      <4>2. Bears(root)
        BY <4>1 DEF Inv, ReferencesResolve, Bears
      <4>3. QED
        BY <3>1, <4>2 DEF Inv, Housed
    <3>3. cred[root].fp \in 0..MaxVersion
      BY <3>1 DEF Inv, TypeOK, Rows
    <3>4. op' = [op EXCEPT ![p] = new]
      BY <2>7 DEF ReferenceRead
    <3> HIDE DEF root
    <3>5. row \in Rows /\ row.link = root /\ row.project = j
      BY <2>2, <3>1, <3>3 DEF Absent, Rows
    <3> HIDE DEF row
    <3>6. new \in Operations /\ new.pc = "source" /\ new.c = c /\ new.row = row
      BY <2>2, <3>5 DEF Idle, Operations
    <3> HIDE DEF new
    <3>7. QED
      BY <1>1, <3>1, <3>4, <3>5, <3>6, <3>2 DEF Inv, TypeOK, Referring
  <2>8. QED
    BY <2>1, <2>3, <2>4, <2>5, <2>6, <2>7
       DEF UnlockProject, LockProject, RemoveRefused, Lock, Done
<1>4. QED
  BY <1>1, <1>2, <1>3, ProcessStep

----------------------------------------------------------------------------
\* No step of Next breaks the invariant.
LEMMA StepInv == Inv /\ [Next]_vars => Inv'
<1> SUFFICES ASSUME Inv, [Next]_vars PROVE Inv'
  OBVIOUS
<1>1. CASE UNCHANGED vars
  BY <1>1 DEF vars, Inv, TypeOK, Housed, Gone, Keyed, Referring, AlwaysDecryptable,
              VersionsTruthful, PinnedKept, Valueless, ReferencesResolve, Bears, Live
<1>2. ASSUME NEW p \in Procs, NEW j \in Projects, ProjectStep(p, j)
      PROVE  Inv'
  BY <1>2, CreateStep, ArchiveStep, PasswordStep, ReadSteps DEF ProjectStep
<1>3. ASSUME NEW p \in Procs, NEW c \in Creds, CredentialStep(p, c)
      PROVE  Inv'
  BY <1>3, AddStep, ReplaceStep, SweepStep, ReadSteps DEF CredentialStep
<1>4. ASSUME NEW p \in Procs, Resume(p)
      PROVE  Inv'
  BY <1>4, RemovePasswordStep, ReferenceStep, DeleteStep, ReadSteps DEF Resume
<1>5. QED
  BY <1>1, <1>2, <1>3, <1>4, RotationStep DEF Next

\* The strengthened invariant holds in every reachable state.
LEMMA Invariant == Spec => []Inv
BY InitInv, StepInv, PTL DEF Spec

\* Every row, version, project, key and half-done operation keeps its type, whatever the
\* processes of the vault interleave.
THEOREM TypeCorrect == Spec => []TypeOK
<1>1. Inv => TypeOK
  BY DEF Inv
<1>2. QED
  BY <1>1, Invariant, PTL

\* write_txn's promise: what is committed is always decryptable under the key in force,
\* although processes replace values and re-key projects from state they read earlier.
THEOREM Decryptable == Spec => []AlwaysDecryptable
<1>1. Inv => AlwaysDecryptable
  BY DEF Inv
<1>2. QED
  BY <1>1, Invariant, PTL

\* A retained version is the value its number stood for, and older than the one in force.
THEOREM VersionsRight == Spec => []VersionsTruthful
<1>1. Inv => VersionsTruthful
  BY DEF Inv
<1>2. QED
  BY <1>1, Invariant, PTL

\* Neither the cap on versions, nor the sweep at unlock, nor any number of replacements
\* takes the version an active rotation must be able to restore.
THEOREM RotationRestorable == Spec => []PinnedKept
<1>1. Inv => PinnedKept
  BY DEF Inv
<1>2. QED
  BY <1>1, Invariant, PTL

\* References point at a record with a value, never at nothing and never at a reference,
\* although they are resolved in one statement and inserted in another.
THEOREM ReferencesRight == Spec => []ReferencesResolve
<1>1. Inv => ReferencesResolve
  BY DEF Inv
<1>2. QED
  BY <1>1, Invariant, PTL
=============================================================================

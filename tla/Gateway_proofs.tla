--------------------------- MODULE Gateway_proofs ---------------------------
(***************************************************************************)
(* Proofs about two parts of the gateway that share no state: the writer   *)
(* of environment links (EnvLink), then the resident matching key          *)
(* (MatchingKey).                                                          *)
(*                                                                         *)
(* EnvLink, for any files, routes, values and bounds.  LinkInv says of     *)
(* every file that each line pointing at the gateway is the one its row    *)
(* remembers having written and that every other line is the user's; of    *)
(* every row that what it remembers is the user's and none of the writer's *)
(* own lines; and of the command under way what it may rely on at each of  *)
(* its statements: the record is there before the lines are, and no line   *)
(* of the route is left when its row goes.                                 *)
(*                                                                         *)
(* MatchingKey, for any exchanges, any channel, any durations that locking *)
(* sessions send and any cap.                                              *)
(***************************************************************************)
EXTENDS MatchingKey, EnvLink, TLAPS

(***************************************************************************)
(* Values, contents and records.                                           *)
(***************************************************************************)

\* A variable a provider reads is not NO_PROXY; both are names of assignments.
LEMMA NamesOfLinks ==
  ASSUME NEW r \in Routes
  PROVE  VarOf[r] \in Vars /\ VarOf[r] \in Names /\ VarOf[r] # NoProxy /\ NoProxy \in Names
BY LinkAssumption DEF Vars, Names

LEMMA UrlTyped ==
  ASSUME NEW s \in Slugs, NEW n \in 1..MaxPort
  PROVE  Url(s, n) \in Urls /\ Url(s, n).slug = s /\ Url(s, n).port = n
BY DEF Url, Urls

LEMMA ListTyped ==
  ASSUME NEW S \in SUBSET (UserHosts \cup {Loopback})
  PROVE  List(S) \in Lists /\ List(S).hosts = S
BY DEF List, Lists

\* NO_PROXY_ENTRIES are added to whatever the assignment says.
LEMMA ExtendedTyped ==
  ASSUME NEW v \in ValuesOf(NoProxy)
  PROVE  Extended(v) \in Lists /\ Loopback \in Extended(v).hosts
<1>1. CASE v = NoValue
  <2>1. Extended(v) = List({Loopback})
    BY <1>1 DEF Extended
  <2> QED BY <2>1, ListTyped
<1>2. CASE v # NoValue
  <2>1. PICK S \in SUBSET (UserHosts \cup {Loopback}) : v = List(S)
    BY <1>2 DEF ValuesOf, Lists
  <2>2. Extended(v) = List(S \cup {Loopback})
    BY <1>2, <2>1, ListTyped DEF Extended
  <2> QED BY <2>2, ListTyped
<1> QED BY <1>1, <1>2

\* What is in a content is a value; NO_PROXY takes lists, the others text and links.
LEMMA ValuesOfTyped ==
  ASSUME NEW k \in Names
  PROVE  /\ ValuesOf(k) \subseteq Values /\ NoValue \in ValuesOf(k)
         /\ OwnValues(k) \subseteq ValuesOf(k)
         /\ k = NoProxy => Lists \subseteq ValuesOf(k)
         /\ k # NoProxy => Urls \subseteq ValuesOf(k)
<1>1. ValuesOf(k) \subseteq Values /\ NoValue \in ValuesOf(k)
  BY DEF ValuesOf, Values
<1>2. OwnValues(k) \subseteq ValuesOf(k)
  BY DEF OwnValues, ValuesOf, Lists
<1>3. (k = NoProxy => Lists \subseteq ValuesOf(k)) /\ (k # NoProxy => Urls \subseteq ValuesOf(k))
  BY DEF ValuesOf
<1> QED BY <1>1, <1>2, <1>3

LEMMA EmptyTyped == Content(NoFile) /\ Row(NoRow) /\ Command(Idle)
<1>1. Content(NoFile)
  <2>1. NoFile \in Contents
    BY ValuesOfTyped DEF NoFile, Contents
  <2> QED BY <2>1, ValuesOfTyped DEF NoFile, Content
<1>2. Unrecorded \in PriorVars
  BY DEF Unrecorded, PriorVars, Values
<1>3. NoRecord \in PriorEnvs
  BY <1>2 DEF NoRecord, PriorEnvs
<1>4. NoRow \in Rows /\ NoRow.rec = NoRecord
  BY <1>3, LinkAssumption DEF NoRow, Rows
<1>5. \A f \in Files, k \in Names : NoRecord[f].vars[k] = Unrecorded
  BY DEF NoRecord
<1>6. Row(NoRow)
  BY <1>4, <1>5, ValuesOfTyped DEF Row, Unrecorded
<1>7. Idle \in Commands
  <2>1. NoFile \in Contents /\ [f \in Files |-> NoFile] \in [Files -> Contents]
    BY <1>1 DEF Content
  <2>2. 1 \in 1..MaxPort /\ 0 \in 0..MaxSlugs
    BY LinkAssumption
  <2> HIDE DEF NoFile, NoRow
  <2> QED BY <1>4, <2>1, <2>2 DEF Idle, Commands, Pcs
<1>8. Command(Idle)
  <2> HIDE DEF NoFile, NoRow
  <2> QED BY <1>1, <1>6, <1>7 DEF Command, Idle
<1> QED BY <1>1, <1>6, <1>8

\* plan_file.
LEMMA PlannedTyped ==
  ASSUME NEW c, Content(c), NEW r \in Routes, NEW url \in Urls
  PROVE  Content(Planned(c, r, url))
<1>1. VarOf[r] \in Names /\ VarOf[r] # NoProxy /\ NoProxy \in Names
  BY NamesOfLinks
<1>2. Extended(c.vals[NoProxy]) \in ValuesOf(NoProxy)
  BY <1>1, ExtendedTyped, ValuesOfTyped DEF Content
<1>3. url \in ValuesOf(VarOf[r])
  BY <1>1, ValuesOfTyped
<1>4. Planned(c, r, url) =
        [there |-> TRUE, vals |-> [k \in Names |->
           IF k = NoProxy THEN Extended(c.vals[NoProxy]) ELSE IF k = VarOf[r] THEN url ELSE c.vals[k]]]
  BY <1>1 DEF Planned, Content, Contents
<1>5. \A k \in Names : Planned(c, r, url).vals[k] \in ValuesOf(k)
  BY <1>2, <1>3, <1>4 DEF Content
<1> QED BY <1>4, <1>5, ValuesOfTyped DEF Content, Contents

Recordable(rec) ==
  /\ rec \in PriorEnvs
  /\ \A f \in Files, k \in Names :
       rec[f].vars[k].prior \in ValuesOf(k) /\ rec[f].vars[k].written \in ValuesOf(k)

\* A Fresh record of one file, assignment by assignment.
LEMMA FreshVars ==
  ASSUME NEW c, Content(c), NEW r \in Routes, NEW url \in Urls, NEW k \in Names
  PROVE  /\ Fresh(c, r, url).existed = c.there
         /\ k = VarOf[r] =>
              Fresh(c, r, url).vars[k] = [kept |-> TRUE, prior |-> c.vals[k], written |-> url]
         /\ k = NoProxy /\ Extended(c.vals[k]) # c.vals[k] =>
              Fresh(c, r, url).vars[k] =
                [kept |-> TRUE, prior |-> c.vals[k], written |-> Extended(c.vals[k])]
         /\ (k # VarOf[r] /\ ~(k = NoProxy /\ Extended(c.vals[k]) # c.vals[k])) =>
              Fresh(c, r, url).vars[k] = Unrecorded
         /\ Fresh(c, r, url).vars[k] \in PriorVars
         /\ Fresh(c, r, url).vars[k].prior \in ValuesOf(k)
         /\ Fresh(c, r, url).vars[k].written \in ValuesOf(k)
<1>1. VarOf[r] # NoProxy
  BY NamesOfLinks
<1>2. c.vals[k] \in ValuesOf(k) /\ ValuesOf(k) \subseteq Values /\ NoValue \in ValuesOf(k)
  BY ValuesOfTyped DEF Content
<1>3. k = NoProxy => Extended(c.vals[k]) \in ValuesOf(k)
  BY <1>2, ExtendedTyped, ValuesOfTyped
<1>4. k = VarOf[r] => url \in ValuesOf(k)
  BY <1>1, ValuesOfTyped
<1>5. Fresh(c, r, url).vars[k] =
        CASE k = VarOf[r] -> [kept |-> TRUE, prior |-> c.vals[k], written |-> url]
          [] k = NoProxy /\ Extended(c.vals[k]) # c.vals[k] ->
               [kept |-> TRUE, prior |-> c.vals[k], written |-> Extended(c.vals[k])]
          [] OTHER -> Unrecorded
  BY DEF Fresh
<1>6. CASE k = VarOf[r]
  <2>1. Fresh(c, r, url).vars[k] = [kept |-> TRUE, prior |-> c.vals[k], written |-> url]
    BY <1>1, <1>5, <1>6
  <2> QED BY <1>1, <1>2, <1>4, <1>6, <2>1 DEF PriorVars, Fresh
<1>7. CASE k = NoProxy /\ Extended(c.vals[k]) # c.vals[k]
  <2>1. Fresh(c, r, url).vars[k] =
          [kept |-> TRUE, prior |-> c.vals[k], written |-> Extended(c.vals[k])]
    BY <1>1, <1>5, <1>7
  <2> QED BY <1>1, <1>2, <1>3, <1>7, <2>1 DEF PriorVars, Fresh
<1>8. CASE k # VarOf[r] /\ ~(k = NoProxy /\ Extended(c.vals[k]) # c.vals[k])
  <2>1. Fresh(c, r, url).vars[k] = Unrecorded
    BY <1>5, <1>8
  <2> QED BY <1>2, <1>8, <2>1 DEF PriorVars, Fresh, Unrecorded
<1> QED BY <1>6, <1>7, <1>8

LEMMA FreshTyped ==
  ASSUME NEW seen, \A f \in Files : Content(seen[f]), NEW r \in Routes, NEW url \in Urls
  PROVE  Recordable([f \in Files |-> Fresh(seen[f], r, url)])
<1>1. ASSUME NEW f \in Files
      PROVE  Fresh(seen[f], r, url) \in [existed : BOOLEAN, vars : [Names -> PriorVars]]
  <2>1. Fresh(seen[f], r, url).vars = [k \in Names |-> Fresh(seen[f], r, url).vars[k]]
    BY DEF Fresh
  <2>2. Fresh(seen[f], r, url) =
          [existed |-> seen[f].there, vars |-> Fresh(seen[f], r, url).vars]
    BY DEF Fresh
  <2>3. Fresh(seen[f], r, url).vars \in [Names -> PriorVars]
    BY <2>1, FreshVars
  <2>4. seen[f].there \in BOOLEAN
    BY DEF Content, Contents
  <2> QED BY <2>2, <2>3, <2>4
<1> QED BY <1>1, FreshVars DEF Recordable, PriorEnvs

\* The first recorded prior stays, what was written last is written.
Combines(old, new, m) ==
  /\ ~old.kept => m = new
  /\ old.kept /\ new.kept => m.kept /\ m.prior = old.prior /\ m.written = new.written
  /\ old.kept /\ ~new.kept => m = old

\* merge_prior, assignment by assignment.
LEMMA MergedVars ==
  ASSUME NEW stored, Row(stored), NEW fresh, Recordable(fresh), NEW f \in Files, NEW k \in Names
  PROVE  LET m == Merged(stored, fresh)[f].vars[k] IN
         /\ Combines(stored.rec[f].vars[k], fresh[f].vars[k], m)
         /\ m \in PriorVars /\ m.prior \in ValuesOf(k) /\ m.written \in ValuesOf(k)
<1> DEFINE old == stored.rec[f].vars[k]
           new == fresh[f].vars[k]
           m == Merged(stored, fresh)[f].vars[k]
<1>1. old \in PriorVars /\ new \in PriorVars
  BY DEF Row, Rows, Recordable, PriorEnvs
<1>2. /\ old.prior \in ValuesOf(k) /\ old.written \in ValuesOf(k)
      /\ new.prior \in ValuesOf(k) /\ new.written \in ValuesOf(k)
  BY DEF Row, Recordable
<1>3. m = CASE ~old.kept -> new
            [] old.kept /\ new.kept -> [old EXCEPT !.written = new.written]
            [] OTHER -> old
  BY DEF Merged
<1>4. [old EXCEPT !.written = new.written] =
        [kept |-> old.kept, prior |-> old.prior, written |-> new.written]
  BY <1>1 DEF PriorVars
<1>5. old.kept \in BOOLEAN /\ new.kept \in BOOLEAN
  BY <1>1 DEF PriorVars
<1>6. old.kept /\ new.kept => m = [kept |-> old.kept, prior |-> old.prior, written |-> new.written]
  BY <1>3, <1>4
<1>7. (~old.kept => m = new) /\ (old.kept /\ ~new.kept => m = old)
  BY <1>3
<1>8. new.written \in Values /\ old.prior \in Values
  BY <1>1 DEF PriorVars
<1> HIDE DEF old, new, m
<1>9. old.kept /\ new.kept =>
        m \in PriorVars /\ m.kept /\ m.prior = old.prior /\ m.written = new.written
  <2> SUFFICES ASSUME old.kept, new.kept
               PROVE  m \in PriorVars /\ m.kept /\ m.prior = old.prior /\ m.written = new.written
    OBVIOUS
  <2>1. m = [kept |-> TRUE, prior |-> old.prior, written |-> new.written]
    BY <1>5, <1>6
  <2> QED BY <1>8, <2>1 DEF PriorVars
<1>10. /\ Combines(old, new, m)
       /\ m \in PriorVars /\ m.prior \in ValuesOf(k) /\ m.written \in ValuesOf(k)
  BY <1>1, <1>2, <1>5, <1>7, <1>9 DEF Combines
<1> QED BY <1>10 DEF old, new, m

LEMMA MergedTyped ==
  ASSUME NEW stored, Row(stored), NEW fresh, Recordable(fresh)
  PROVE  Recordable(Merged(stored, fresh))
<1>1. ASSUME NEW f \in Files
      PROVE  Merged(stored, fresh)[f] \in [existed : BOOLEAN, vars : [Names -> PriorVars]]
  <2>1. Merged(stored, fresh)[f].vars = [k \in Names |-> Merged(stored, fresh)[f].vars[k]]
    BY DEF Merged
  <2>2. Merged(stored, fresh)[f] =
          [existed |-> IF stored.has THEN stored.rec[f].existed ELSE fresh[f].existed,
           vars |-> Merged(stored, fresh)[f].vars]
    BY DEF Merged
  <2>3. Merged(stored, fresh)[f].vars \in [Names -> PriorVars]
    BY <2>1, MergedVars
  <2>4. stored.rec[f].existed \in BOOLEAN /\ fresh[f].existed \in BOOLEAN
    BY DEF Row, Rows, Recordable, PriorEnvs
  <2> QED BY <2>2, <2>3, <2>4
<1>2. Merged(stored, fresh) = [f \in Files |-> Merged(stored, fresh)[f]]
  BY DEF Merged
<1> QED BY <1>1, <1>2, MergedVars DEF Recordable, PriorEnvs

\* d is c restored from the record x.
From(d, c, x, f, sealed) ==
  \A k \in Names : d.vals[k] = IF Outcome(c.vals[k], x.rec[f].vars[k], sealed) = "restored"
                               THEN x.rec[f].vars[k].prior ELSE c.vals[k]

\* restore_file writes back nothing but what the file said or what the record remembers.
LEMMA RestoredTyped ==
  ASSUME NEW c, Content(c), NEW x, Row(x), NEW f \in Files, NEW sealed
  PROVE  /\ Content(Restored(c, x.rec[f], sealed))
         /\ Restored(c, x.rec[f], sealed).there = c.there
         /\ From(Restored(c, x.rec[f], sealed), c, x, f, sealed)
<1>1. Restored(c, x.rec[f], sealed) =
        [there |-> c.there, vals |-> [k \in Names |->
           IF Outcome(c.vals[k], x.rec[f].vars[k], sealed) = "restored"
           THEN x.rec[f].vars[k].prior ELSE c.vals[k]]]
  BY DEF Restored, Content, Contents
<1>2. \A k \in Names : Restored(c, x.rec[f], sealed).vals[k] \in ValuesOf(k)
  BY <1>1 DEF Row, Content
<1>3. c.there \in BOOLEAN
  BY DEF Content, Contents
<1>4. Restored(c, x.rec[f], sealed) \in Contents
  BY <1>1, <1>2, <1>3, ValuesOfTyped DEF Contents
<1>5. From(Restored(c, x.rec[f], sealed), c, x, f, sealed)
  BY <1>1 DEF From
<1> QED BY <1>1, <1>2, <1>4, <1>5 DEF Content

(***************************************************************************)
(* Type correctness.                                                       *)
(***************************************************************************)
CommandsTyped == job \in [Jobs -> Commands] /\ \A p \in Jobs : Command(job[p])

LEMMA SetTyped ==
  ASSUME CommandsTyped, NEW p \in Jobs, NEW j, Command(j), Set(p, j)
  PROVE  CommandsTyped'
<1>1. j \in Commands
  BY DEF Command
<1>2. job' = [job EXCEPT ![p] = j]
  BY DEF Set
<1> QED BY <1>1, <1>2 DEF CommandsTyped

LEMMA EndTyped ==
  ASSUME CommandsTyped, NEW p \in Jobs, End(p)
  PROVE  CommandsTyped'
BY SetTyped, EmptyTyped DEF End

\* A fresh slug is one of Slugs when Preview's guard holds.
LEMMA FreshSlugTyped ==
  ASSUME \E s \in Slugs : ~InUse(s)
  PROVE  FreshSlug \in Slugs /\ ~InUse(FreshSlug)
BY DEF FreshSlug

\* The steps of apply_link.
LEMMA LinkCommandsTyped ==
  ASSUME LinkTypeOK, NEW p \in Jobs, Link(p)
  PROVE  CommandsTyped'
<1> DEFINE j == job[p]
<1>0. /\ CommandsTyped /\ j \in Commands /\ Command(j)
      /\ files \in [Files -> Contents] /\ \A f \in Files : Content(files[f])
      /\ port \in 1..MaxPort /\ routes \subseteq Routes
      /\ rows \in [Routes -> Rows] /\ \A r \in Routes : Row(rows[r])
  BY DEF LinkTypeOK, CommandsTyped
<1>1. ASSUME NEW r \in Routes, Preview(p, r)
      PROVE  CommandsTyped'
  <2> DEFINE s == IF Linked(r) THEN rows[r].slug ELSE FreshSlug
             n == [Idle EXCEPT !.pc = "preview", !.r = r, !.seen = files, !.port = port, !.slug = s]
  <2>1. Set(p, n)
    BY <1>1 DEF Preview
  <2>2. s \in Slugs
    BY <1>0, <1>1, FreshSlugTyped, LinkAssumption DEF Preview, Linked, Slugs, Row, Rows
  <2>3. Idle \in Commands /\ Command(Idle) /\ Idle.pc = "idle"
    BY EmptyTyped DEF Command, Idle
  <2> HIDE DEF s, Idle
  <2>4. n \in Commands
    <3>1. s \in 0..MaxSlugs
      BY <2>2 DEF Slugs
    <3> QED BY <1>0, <2>3, <3>1 DEF Commands, Pcs
  <2>5. Command(n)
    BY <1>0, <2>2, <2>3, <2>4 DEF Commands, Command
  <2> HIDE DEF n
  <2> QED BY <1>0, <2>1, <2>5, SetTyped
<1>2. CASE Replan(p)
  <2> DEFINE n == [j EXCEPT !.pc = "insert", !.existing = Linked(j.r)]
  <2>1. CASE End(p)
    BY <1>0, <2>1, EndTyped
  <2>2. CASE Set(p, n)
    <3>1. n \in Commands /\ Command(n)
      BY <1>0, <1>2 DEF Replan, At, Commands, Command, Pcs, Linked
    <3> HIDE DEF n
    <3> QED BY <1>0, <2>2, <3>1, SetTyped
  <2> QED BY <1>2, <2>1, <2>2 DEF Replan
<1>3. CASE InsertLink(p)
  <2> DEFINE n == [j EXCEPT !.pc = "readPrior", !.existing = FALSE]
  <2>1. CASE End(p)
    BY <1>0, <2>1, EndTyped
  <2>2. CASE Set(p, n)
    <3>1. n \in Commands /\ Command(n)
      BY <1>0, <1>3 DEF InsertLink, At, Commands, Command, Pcs
    <3> HIDE DEF n
    <3> QED BY <1>0, <2>2, <3>1, SetTyped
  <2> QED BY <1>3, <2>1, <2>2 DEF InsertLink
<1>4. CASE ReadPrior(p)
  <2> DEFINE x == IF rows[j.r].slug = j.slug THEN rows[j.r] ELSE NoRow
             n == [j EXCEPT !.pc = "update", !.todo = Files, !.stored = x]
  <2>1. Set(p, n)
    BY <1>4 DEF ReadPrior
  <2>2. Row(x) /\ x \in Rows
    <3> HIDE DEF NoRow
    <3> QED BY <1>0, <1>4, EmptyTyped DEF ReadPrior, At, Command, Row
  <2> HIDE DEF x
  <2>3. n \in Commands /\ Command(n)
    BY <1>0, <1>4, <2>2 DEF ReadPrior, At, Commands, Command, Pcs
  <2> HIDE DEF n
  <2> QED BY <1>0, <2>1, <2>3, SetTyped
<1>5. CASE UpdateLinkEnv(p)
  <2> DEFINE n == [j EXCEPT !.pc = "write", !.stored = NoRow]
  <2>1. Set(p, n)
    BY <1>5 DEF UpdateLinkEnv
  <2>2. Row(NoRow) /\ NoRow \in Rows
    BY EmptyTyped DEF Row
  <2> HIDE DEF NoRow
  <2>3. n \in Commands /\ Command(n)
    BY <1>0, <1>5, <2>2 DEF UpdateLinkEnv, At, Commands, Command, Pcs
  <2> HIDE DEF n
  <2> QED BY <1>0, <2>1, <2>3, SetTyped
<1>6. ASSUME NEW f \in Files, WriteFile(p, f)
      PROVE  CommandsTyped'
  <2> DEFINE n == [j EXCEPT !.todo = @ \ {f}]
  <2>1. CASE End(p)
    BY <1>0, <2>1, EndTyped
  <2>2. CASE Set(p, n)
    <3>1. n \in Commands /\ Command(n)
      BY <1>0, <1>6 DEF WriteFile, At, Commands, Command, Pcs
    <3> HIDE DEF n
    <3> QED BY <1>0, <2>2, <3>1, SetTyped
  <2> QED BY <1>6, <2>1, <2>2 DEF WriteFile
<1>7. CASE LinkDone(p)
  BY <1>0, <1>7, EndTyped DEF LinkDone
<1> QED BY <1>1, <1>2, <1>3, <1>4, <1>5, <1>6, <1>7 DEF Link

\* The steps of unlink.
LEMMA RestoreCommandsTyped ==
  ASSUME LinkTypeOK, NEW p \in Jobs, Restore(p)
  PROVE  CommandsTyped'
<1> DEFINE j == job[p]
<1>0. /\ CommandsTyped /\ j \in Commands /\ Command(j)
      /\ files \in [Files -> Contents] /\ \A f \in Files : Content(files[f])
      /\ rows \in [Routes -> Rows] /\ \A r \in Routes : Row(rows[r])
      /\ Row(NoRow) /\ NoRow \in Rows /\ Content(NoFile) /\ NoFile \in Contents
      /\ 1 \in 1..MaxPort /\ 0 \in 0..MaxSlugs
  BY EmptyTyped, LinkAssumption DEF LinkTypeOK, CommandsTyped, Row, Content
<1>1. ASSUME NEW r \in Routes, NEW sealed \in BOOLEAN, Unlink(p, r, sealed)
      PROVE  CommandsTyped'
  <2> DEFINE pc == IF rows[r].has THEN "restore" ELSE "remove"
             x == IF rows[r].has THEN rows[r] ELSE NoRow
             todo == IF rows[r].has THEN Files ELSE {}
             l == sealed /\ rows[r].has
             n == [Idle EXCEPT !.pc = pc, !.r = r, !.stored = x, !.locked = l, !.todo = todo]
  <2>1. Set(p, n)
    BY <1>1 DEF Unlink
  <2>2. pc \in {"restore", "remove"} /\ Row(x) /\ x \in Rows /\ todo \in SUBSET Files
        /\ l \in BOOLEAN
    BY <1>0
  <2>3. Idle \in Commands /\ Command(Idle) /\ Idle.pc = "idle"
    BY EmptyTyped DEF Command, Idle
  <2> HIDE DEF pc, x, todo, Idle
  <2> HIDE DEF l
  <2>4. n \in Commands
    BY <2>2, <2>3 DEF Commands, Pcs
  <2>5. Command(n)
    BY <2>2, <2>3, <2>4 DEF Commands, Command
  <2> HIDE DEF n
  <2> QED BY <1>0, <2>1, <2>5, SetTyped
<1>2. ASSUME NEW f \in Files, ReadFile(p, f)
      PROVE  CommandsTyped'
  <2> DEFINE rec == j.stored.rec[f]
             outcomes == {Outcome(files[f].vals[k], rec.vars[k], j.locked) : k \in Names}
             u == j.unsettled \/ \E o \in outcomes : ~Settled(o)
             pc == IF "restored" \in outcomes THEN "writeBack" ELSE "restore"
             n1 == [j EXCEPT !.todo = @ \ {f}]
             n2 == [j EXCEPT !.todo = @ \ {f}, !.unsettled = TRUE]
             n3 == [j EXCEPT !.todo = @ \ {f}, !.f = f, !.at = files[f], !.unsettled = u, !.pc = pc]
  <2>1. At(p, "restore") /\ (Set(p, n1) \/ Set(p, n2) \/ Set(p, n3))
    BY <1>2 DEF ReadFile
  <2>2. u \in BOOLEAN /\ pc \in {"writeBack", "restore"}
    BY <1>0 DEF Command, Commands
  <2> HIDE DEF u, pc
  <2>3. Command(n1) /\ Command(n2)
    BY <1>0, <2>1 DEF At, Commands, Command, Pcs
  <2>4. Command(n3)
    <3>1. n3 \in Commands
      BY <1>0, <2>1, <2>2 DEF At, Commands, Command, Pcs
    <3> QED BY <1>0, <2>1, <2>2, <3>1 DEF At, Commands, Command
  <2> HIDE DEF n1, n2, n3
  <2> QED BY <1>0, <2>1, <2>3, <2>4, SetTyped
<1>3. CASE WriteBack(p)
  <2> DEFINE n1 == [j EXCEPT !.pc = "restore", !.f = Idle.f, !.at = NoFile]
             n2 == [n1 EXCEPT !.unsettled = TRUE]
  <2>1. At(p, "writeBack") /\ (Set(p, n1) \/ Set(p, n2))
    BY <1>3 DEF WriteBack
  <2>2. Idle.f = NoValue
    BY DEF Idle
  <2> HIDE DEF Idle, NoFile
  <2>3. Command(n1)
    BY <1>0, <2>1, <2>2 DEF At, Commands, Command, Pcs
  <2>4. n1.pc = "restore"
    BY <1>0 DEF Commands, Command
  <2> HIDE DEF n1
  <2>5. Command(n2)
    BY <2>3, <2>4 DEF Commands, Command, Pcs
  <2> HIDE DEF n2
  <2> QED BY <1>0, <2>1, <2>3, <2>5, SetTyped
<1>4. CASE FilesDone(p)
  <2> DEFINE n == [Idle EXCEPT !.pc = "remove", !.r = j.r]
  <2>1. CASE End(p)
    BY <1>0, <2>1, EndTyped
  <2>2. CASE Set(p, n)
    <3>1. j.r \in Routes
      BY <1>0, <1>4 DEF FilesDone, At, Command
    <3>2. Idle \in Commands /\ Command(Idle) /\ Idle.pc = "idle"
      BY EmptyTyped DEF Command, Idle
    <3> HIDE DEF Idle
    <3>3. n \in Commands /\ Command(n)
      BY <3>1, <3>2 DEF Commands, Command, Pcs
    <3> HIDE DEF n
    <3> QED BY <1>0, <2>2, <3>3, SetTyped
  <2> QED BY <1>4, <2>1, <2>2 DEF FilesDone
<1>5. CASE RemoveLink(p)
  BY <1>0, <1>5, EndTyped DEF RemoveLink
<1> QED BY <1>1, <1>2, <1>3, <1>4, <1>5 DEF Restore
FilesTyped == files \in [Files -> Contents] /\ \A f \in Files : Content(files[f])
RowsTyped == rows \in [Routes -> Rows] /\ \A r \in Routes : Row(rows[r])
HistoryTyped ==
  /\ edits \in 0..MaxEdits /\ edited \subseteq Files \X Names /\ orphaned \subseteq Slugs
  /\ mine \in [Files -> [Names -> Values]]
  /\ \A f \in Files, k \in Names : mine[f][k] \in OwnValues(k)

LEMMA LinkTypeParts ==
  LinkTypeOK <=> /\ FilesTyped /\ RowsTyped /\ CommandsTyped /\ HistoryTyped
                 /\ routes \subseteq Routes /\ port \in 1..MaxPort
BY DEF LinkTypeOK, FilesTyped, RowsTyped, CommandsTyped, HistoryTyped

LEMMA LinkTypeNext ==
  ASSUME FilesTyped', RowsTyped', CommandsTyped', HistoryTyped', routes' \subseteq Routes,
         port' \in 1..MaxPort
  PROVE  LinkTypeOK'
BY DEF LinkTypeOK, FilesTyped, RowsTyped, CommandsTyped, HistoryTyped

LEMMA FilePutTyped ==
  ASSUME FilesTyped, NEW f \in Files, NEW c, Content(c), files' = [files EXCEPT ![f] = c]
  PROVE  FilesTyped'
<1>1. c \in Contents
  BY DEF Content
<1> QED BY <1>1 DEF FilesTyped

LEMMA RowPutTyped ==
  ASSUME RowsTyped, NEW r \in Routes, NEW x, Row(x), rows' = [rows EXCEPT ![r] = x]
  PROVE  RowsTyped'
<1>1. x \in Rows
  BY DEF Row
<1> QED BY <1>1 DEF RowsTyped

\* update_link_env changes two columns of one row.
LEMMA RowRecorded ==
  ASSUME rows \in [Routes -> Rows], NEW r \in Routes, NEW m
  PROVE  [rows EXCEPT ![r].has = TRUE, ![r].rec = m] =
           [rows EXCEPT ![r] = [slug |-> rows[r].slug, has |-> TRUE, rec |-> m]]
<1> DEFINE y == [rows EXCEPT ![r].has = TRUE]
           x == [slug |-> rows[r].slug, has |-> TRUE, rec |-> m]
<1>1. /\ y \in [Routes -> Rows] /\ y[r].slug = rows[r].slug /\ y[r].has = TRUE
      /\ \A q \in Routes \ {r} : y[q] = rows[q]
  BY DEF Rows
<1>2. ASSUME NEW z \in Rows
      PROVE  [z EXCEPT !.rec = m] = [slug |-> z.slug, has |-> z.has, rec |-> m]
  BY DEF Rows
<1> HIDE DEF y
<1>3. [y[r] EXCEPT !.rec = m] = x
  BY <1>1, <1>2
<1>4. [y EXCEPT ![r].rec = m] = [y EXCEPT ![r] = x]
  BY <1>1, <1>3
<1>5. [y EXCEPT ![r] = x] = [rows EXCEPT ![r] = x]
  BY <1>1
<1> QED BY <1>4, <1>5 DEF y

\* What a link job means to write is typed.
LEMMA PlanTyped ==
  ASSUME CommandsTyped, NEW p \in Jobs,
         job[p].pc \in {"preview", "insert", "readPrior", "update", "write"}
  PROVE  /\ job[p].r \in Routes /\ job[p].slug \in Slugs
         /\ Url(job[p].slug, job[p].port) \in Urls
         /\ \A f \in Files : Content(job[p].seen[f])
         /\ Row(job[p].stored)
<1>1. Command(job[p]) /\ job[p] \in Commands
  BY DEF CommandsTyped, Command
<1>2. job[p].r \in Routes /\ job[p].slug \in Slugs /\ job[p].port \in 1..MaxPort
  BY <1>1 DEF Command, Commands
<1> QED BY <1>1, <1>2, UrlTyped DEF Command

LEMMA LinkWritesTyped ==
  ASSUME LinkTypeOK, NEW p \in Jobs, Link(p)
  PROVE  FilesTyped' /\ RowsTyped'
<1>0. FilesTyped /\ RowsTyped /\ CommandsTyped
  BY LinkTypeParts
<1>1. ASSUME UNCHANGED files PROVE FilesTyped'
  BY <1>0, <1>1 DEF FilesTyped
<1>2. ASSUME UNCHANGED rows PROVE RowsTyped'
  BY <1>0, <1>2 DEF RowsTyped
<1>3. CASE \E r \in Routes : Preview(p, r)
  BY <1>1, <1>2, <1>3 DEF Preview
<1>4. CASE Replan(p)
  BY <1>1, <1>2, <1>4 DEF Replan
<1>5. CASE InsertLink(p)
  <2> DEFINE x == [NoRow EXCEPT !.slug = job[p].slug]
  <2>1. job[p].r \in Routes /\ job[p].slug \in Slugs
    BY <1>0, <1>5, PlanTyped DEF InsertLink, At
  <2>2. Row(x)
    <3>1. Row(NoRow) /\ NoRow \in Rows
      BY EmptyTyped DEF Row
    <3>2. job[p].slug \in 0..MaxSlugs /\ job[p].slug # 0
      BY <2>1 DEF Slugs
    <3> HIDE DEF NoRow
    <3>3. x \in Rows /\ x.slug # 0 /\ x.rec = NoRow.rec
      BY <3>1, <3>2 DEF Rows
    <3> QED BY <3>1, <3>3 DEF Row
  <2>3. FilesTyped' /\ (UNCHANGED rows \/ rows' = [rows EXCEPT ![job[p].r] = x])
    BY <1>1, <1>5 DEF InsertLink
  <2> HIDE DEF x
  <2> QED BY <1>0, <1>2, <2>1, <2>2, <2>3, RowPutTyped
<1>6. CASE ReadPrior(p)
  BY <1>1, <1>2, <1>6 DEF ReadPrior
<1>7. CASE UpdateLinkEnv(p)
  <2> DEFINE j == job[p]
             fresh == [f \in Files |-> Fresh(j.seen[f], j.r, Url(j.slug, j.port))]
             m == Merged(j.stored, fresh)
             x == [slug |-> rows[j.r].slug, has |-> TRUE, rec |-> m]
  <2>1. /\ j.r \in Routes /\ j.slug \in Slugs /\ Url(j.slug, j.port) \in Urls
        /\ \A f \in Files : Content(j.seen[f])
        /\ Row(j.stored)
    BY <1>0, <1>7, PlanTyped DEF UpdateLinkEnv, At
  <2>2. Recordable(fresh)
    <3> HIDE DEF j
    <3> QED BY <2>1, FreshTyped
  <2>3. Recordable(m)
    <3> HIDE DEF fresh, j
    <3> QED BY <2>1, <2>2, MergedTyped
  <2>4. FilesTyped'
    BY <1>1, <1>7 DEF UpdateLinkEnv
  <2>5. rows' = IF rows[j.r].slug = j.slug
                THEN [rows EXCEPT ![j.r].has = TRUE, ![j.r].rec = m] ELSE rows
    BY <1>7 DEF UpdateLinkEnv
  <2>6. CASE rows[j.r].slug = j.slug
    <3> HIDE DEF m, j
    <3>1. rows[j.r] \in Rows /\ rows \in [Routes -> Rows]
      BY <1>0, <2>1 DEF RowsTyped
    <3>2. rows' = [rows EXCEPT ![j.r] = x]
      BY <2>1, <2>5, <2>6, <3>1, RowRecorded
    <3>3. x \in Rows /\ x.slug # 0
      BY <2>1, <2>3, <2>6, <3>1 DEF Rows, Recordable, Slugs
    <3>4. Row(x)
      BY <2>3, <3>3 DEF Row, Recordable
    <3> HIDE DEF x
    <3> QED BY <1>0, <2>1, <2>4, <3>2, <3>4, RowPutTyped
  <2>7. CASE rows[j.r].slug # j.slug
    BY <1>2, <2>4, <2>5, <2>7
  <2> QED BY <2>6, <2>7
<1>8. ASSUME NEW f \in Files, WriteFile(p, f)
      PROVE  FilesTyped' /\ RowsTyped'
  <2> DEFINE j == job[p]
             c == Planned(j.seen[f], j.r, Url(j.slug, j.port))
  <2>1. /\ j.r \in Routes /\ Url(j.slug, j.port) \in Urls /\ Content(j.seen[f])
    BY <1>0, <1>8, PlanTyped DEF WriteFile, At
  <2>2. Content(c)
    <3> HIDE DEF j
    <3> QED BY <2>1, PlannedTyped
  <2>3. RowsTyped' /\ (UNCHANGED files \/ files' = [files EXCEPT ![f] = c])
    BY <1>2, <1>8 DEF WriteFile
  <2> HIDE DEF c
  <2> QED BY <1>0, <1>1, <2>2, <2>3, FilePutTyped
<1>9. CASE LinkDone(p)
  BY <1>1, <1>2, <1>9 DEF LinkDone
<1> QED BY <1>3, <1>4, <1>5, <1>6, <1>7, <1>8, <1>9 DEF Link

LEMMA RestoreWritesTyped ==
  ASSUME LinkTypeOK, NEW p \in Jobs, Restore(p)
  PROVE  FilesTyped' /\ RowsTyped'
<1>0. FilesTyped /\ RowsTyped /\ CommandsTyped
  BY LinkTypeParts
<1>1. ASSUME UNCHANGED files PROVE FilesTyped'
  BY <1>0, <1>1 DEF FilesTyped
<1>2. ASSUME UNCHANGED rows PROVE RowsTyped'
  BY <1>0, <1>2 DEF RowsTyped
<1>3. CASE \E r \in Routes, sealed \in BOOLEAN : Unlink(p, r, sealed)
  BY <1>1, <1>2, <1>3 DEF Unlink
<1>4. CASE \E f \in Files : ReadFile(p, f)
  BY <1>1, <1>2, <1>4 DEF ReadFile
<1>5. CASE WriteBack(p)
  <2> DEFINE j == job[p]
             new == Restored(j.at, j.stored.rec[j.f], j.locked)
             c == IF ~j.stored.rec[j.f].existed /\ new.vals = NoFile.vals THEN NoFile ELSE new
  <2>1. Command(j) /\ j.pc = "writeBack"
    BY <1>0, <1>5 DEF WriteBack, At, CommandsTyped
  <2>2. Row(j.stored) /\ Content(j.at) /\ j.f \in Files
    BY <2>1 DEF Command
  <2>3. Content(c)
    <3>1. Content(new)
      <4> HIDE DEF j
      <4> QED BY <2>2, RestoredTyped
    <3> HIDE DEF new
    <3> QED BY <3>1, EmptyTyped
  <2>4. RowsTyped' /\ (UNCHANGED files \/ files' = [files EXCEPT ![j.f] = c])
    BY <1>2, <1>5 DEF WriteBack
  <2> HIDE DEF c
  <2> QED BY <1>0, <1>1, <2>2, <2>3, <2>4, FilePutTyped
<1>6. CASE FilesDone(p)
  BY <1>1, <1>2, <1>6 DEF FilesDone
<1>7. CASE RemoveLink(p)
  <2>1. job[p].r \in Routes
    BY <1>0, <1>7 DEF RemoveLink, At, CommandsTyped, Command
  <2>2. FilesTyped' /\ rows' = [rows EXCEPT ![job[p].r] = NoRow]
    BY <1>1, <1>7 DEF RemoveLink
  <2> QED BY <1>0, <2>1, <2>2, EmptyTyped, RowPutTyped
<1> QED BY <1>3, <1>4, <1>5, <1>6, <1>7 DEF Restore

\* What a user puts into a file.
LEMMA UserPutsTyped ==
  ASSUME LinkTypeOK, NEW f \in Files, NEW c, Content(c), UserPuts(f, c),
         \A k \in Names : c.vals[k] # files[f].vals[k] => c.vals[k] \in OwnValues(k)
  PROVE  LinkTypeOK'
<1> DEFINE changed == {k \in Names : c.vals[k] # files[f].vals[k]}
           m == [k \in Names |-> IF k \in changed THEN c.vals[k] ELSE mine[f][k]]
<1>1. /\ edits < MaxEdits /\ edits' = edits + 1
      /\ files' = [files EXCEPT ![f] = c]
      /\ mine' = [mine EXCEPT ![f] = m]
      /\ edited' = edited \/ edited' = edited \cup ({f} \X changed)
      /\ UNCHANGED <<routes, rows, port, job, orphaned>>
  <2>1. mine' = [mine EXCEPT ![f] = [k \in Names |-> IF k \in changed THEN c.vals[k] ELSE @[k]]]
    BY DEF UserPuts
  <2>2. mine' = [mine EXCEPT ![f] = m]
    BY <2>1
  <2> QED BY <2>2 DEF UserPuts
<1>2. FilesTyped /\ RowsTyped /\ CommandsTyped /\ HistoryTyped /\ routes \subseteq Routes /\ port \in 1..MaxPort
  BY LinkTypeParts
<1>3. FilesTyped'
  BY <1>1, <1>2, FilePutTyped
<1>4. RowsTyped' /\ CommandsTyped'
  BY <1>1, <1>2 DEF RowsTyped, CommandsTyped
<1>5. \A k \in Names : m[k] \in OwnValues(k)
  BY <1>2 DEF HistoryTyped
<1>6. m \in [Names -> Values]
  BY <1>5, ValuesOfTyped
<1>7. HistoryTyped'
  <2>1. edits' \in 0..MaxEdits /\ edited' \subseteq Files \X Names /\ orphaned' \subseteq Slugs
    BY <1>1, <1>2, LinkAssumption DEF HistoryTyped
  <2> HIDE DEF m
  <2> QED BY <1>1, <1>2, <1>5, <1>6, <2>1 DEF HistoryTyped
<1> QED BY <1>1, <1>2, <1>3, <1>4, <1>7, LinkTypeNext

LEMMA UserStepTyped ==
  ASSUME LinkTypeOK, NEW f \in Files, (\E k \in Names : UserEdits(f, k)) \/ UserDeletes(f)
  PROVE  LinkTypeOK'
<1>0. Content(files[f])
  BY LinkTypeParts DEF FilesTyped
<1>1. ASSUME NEW k \in Names, UserEdits(f, k)
      PROVE  LinkTypeOK'
  <2>1. PICK v \in OwnValues(k) : UserPuts(f, [there |-> TRUE, vals |-> [files[f].vals EXCEPT ![k] = v]])
    BY <1>1 DEF UserEdits
  <2> DEFINE c == [there |-> TRUE, vals |-> [files[f].vals EXCEPT ![k] = v]]
  <2>2. v \in ValuesOf(k) /\ v \in Values
    BY <2>1, ValuesOfTyped
  <2>3. Content(c)
    BY <1>0, <2>2 DEF Content, Contents
  <2>4. \A m \in Names : c.vals[m] # files[f].vals[m] => c.vals[m] \in OwnValues(m)
    BY <1>0, <2>1 DEF Content, Contents
  <2> HIDE DEF c
  <2> QED BY <2>1, <2>3, <2>4, UserPutsTyped DEF c
<1>2. CASE UserDeletes(f)
  <2>1. \A m \in Names : NoFile.vals[m] \in OwnValues(m)
    BY DEF NoFile, OwnValues
  <2> QED BY <1>2, <2>1, EmptyTyped, UserPutsTyped DEF UserDeletes
<1> QED BY <1>1, <1>2

LEMMA LinkTypeStep == LinkTypeOK /\ [LinkNext]_linkVars => LinkTypeOK'
<1> SUFFICES ASSUME LinkTypeOK, [LinkNext]_linkVars
             PROVE  LinkTypeOK'
  OBVIOUS
<1>0. FilesTyped /\ RowsTyped /\ CommandsTyped /\ HistoryTyped /\ routes \subseteq Routes /\ port \in 1..MaxPort
  BY LinkTypeParts
<1>1. ASSUME UNCHANGED ghosts PROVE HistoryTyped'
  BY <1>0, <1>1 DEF HistoryTyped, ghosts
<1>2. ASSUME NEW p \in Jobs, Link(p)
      PROVE  LinkTypeOK'
  <2>1. FilesTyped' /\ RowsTyped' /\ CommandsTyped'
    BY <1>2, LinkWritesTyped, LinkCommandsTyped
  <2>2. UNCHANGED <<routes, port, ghosts>>
    BY <1>2 DEF Link, Preview, Replan, InsertLink, ReadPrior, UpdateLinkEnv, WriteFile, LinkDone
  <2> QED BY <1>0, <1>1, <2>1, <2>2, LinkTypeNext
<1>3. ASSUME NEW p \in Jobs, Restore(p)
      PROVE  LinkTypeOK'
  <2>1. FilesTyped' /\ RowsTyped' /\ CommandsTyped'
    BY <1>3, RestoreWritesTyped, RestoreCommandsTyped
  <2>2. UNCHANGED <<routes, port, ghosts>>
    BY <1>3 DEF Restore, Unlink, ReadFile, WriteBack, FilesDone, RemoveLink
  <2> QED BY <1>0, <1>1, <2>1, <2>2, LinkTypeNext
<1>4. ASSUME NEW p \in Jobs, Die(p)
      PROVE  LinkTypeOK'
  <2>1. CommandsTyped'
    BY <1>0, <1>4, EndTyped DEF Die
  <2>2. UNCHANGED <<files, routes, rows, port, ghosts>>
    BY <1>4 DEF Die
  <2> QED BY <1>0, <1>1, <2>1, <2>2, LinkTypeNext DEF FilesTyped, RowsTyped
<1>5. ASSUME NEW r \in Routes, RemoveRoute(r)
      PROVE  LinkTypeOK'
  <2>1. RowsTyped'
    BY <1>0, <1>5, EmptyTyped, RowPutTyped DEF RemoveRoute
  <2>2. rows[r].slug \in 0..MaxSlugs
    BY <1>0 DEF RowsTyped, Rows
  <2>3. orphaned' \subseteq Slugs
    <3>1. {rows[r].slug} \ {0} \subseteq Slugs
      BY <2>2 DEF Slugs
    <3> QED BY <1>0, <1>5, <3>1 DEF HistoryTyped, RemoveRoute
  <2>4. HistoryTyped'
    BY <1>0, <1>5, <2>3 DEF HistoryTyped, RemoveRoute
  <2>5. routes' \subseteq Routes /\ UNCHANGED <<files, port, job>>
    BY <1>0, <1>5 DEF RemoveRoute
  <2> QED BY <1>0, <2>1, <2>4, <2>5, LinkTypeNext DEF FilesTyped, CommandsTyped
<1>6. ASSUME NEW r \in Routes, AddRoute(r)
      PROVE  LinkTypeOK'
  <2>1. routes' \subseteq Routes /\ UNCHANGED <<files, rows, port, job, ghosts>>
    BY <1>0, <1>6 DEF AddRoute
  <2> QED BY <1>0, <1>1, <2>1, LinkTypeNext DEF FilesTyped, RowsTyped, CommandsTyped
<1>7. CASE UNCHANGED linkVars
  BY <1>7 DEF linkVars, ghosts, LinkTypeOK
<1> QED BY <1>2, <1>3, <1>4, <1>5, <1>6, <1>7, UserStepTyped DEF LinkNext

LEMMA LinkInitTyped == LinkInit => LinkTypeOK
<1> SUFFICES ASSUME LinkInit PROVE LinkTypeOK
  OBVIOUS
<1>1. ASSUME NEW f \in Files
      PROVE  Content(files[f]) /\ \A k \in Names : files[f].vals[k] \in OwnValues(k)
  <2>1. CASE files[f] = NoFile
    BY <2>1, EmptyTyped DEF NoFile, OwnValues
  <2>2. ASSUME NEW v \in OwnContents, files[f] = [there |-> TRUE, vals |-> v]
        PROVE  Content(files[f]) /\ \A k \in Names : files[f].vals[k] \in OwnValues(k)
    <3>1. \A k \in Names : v[k] \in OwnValues(k)
      BY DEF OwnContents
    <3>2. v = [k \in Names |-> v[k]]
      BY DEF OwnContents
    <3>3. v \in [Names -> Values]
      BY <3>1, <3>2, ValuesOfTyped
    <3> QED BY <2>2, <3>1, <3>3, ValuesOfTyped DEF Content, Contents
  <2> QED BY <2>1, <2>2 DEF LinkInit
<1>2. FilesTyped
  <2>1. files = [f \in Files |-> files[f]]
    BY DEF LinkInit
  <2> QED BY <1>1, <2>1 DEF FilesTyped, Content
<1>3. RowsTyped /\ CommandsTyped
  <2> HIDE DEF NoRow, Idle
  <2> QED BY EmptyTyped DEF LinkInit, RowsTyped, CommandsTyped, Row, Command
<1>4. HistoryTyped
  <2>1. mine = [f \in Files |-> files[f].vals] /\ edits = 0 /\ edited = {} /\ orphaned = {}
    BY DEF LinkInit
  <2>2. \A f \in Files : mine[f] = files[f].vals /\ files[f].vals \in [Names -> Values]
    BY <1>1, <2>1 DEF Content, Contents
  <2> QED BY <1>1, <2>1, <2>2, LinkAssumption DEF HistoryTyped
<1>5. routes \subseteq Routes /\ port \in 1..MaxPort
  BY LinkAssumption DEF LinkInit
<1> QED BY <1>2, <1>3, <1>4, <1>5, LinkTypeParts

\* However many commands run: every file, row, record and plan in memory is well formed.  A
\* row has a slug, an assignment only values of its kind, and the user's own are never links.
THEOREM LinkTypeCorrect == LinkSpec => []LinkTypeOK
<1>1. LinkInit => LinkTypeOK
  BY LinkInitTyped
<1>2. LinkTypeOK /\ [LinkNext]_linkVars => LinkTypeOK'
  BY LinkTypeStep
<1> QED BY <1>1, <1>2, PTL DEF LinkSpec
(***************************************************************************)
(* What the record owes the files.                                         *)
(*                                                                         *)
(* The predicates below are about a state of the database and of the       *)
(* history, w: its rows, the slugs that lost theirs, what the user last    *)
(* put where, and what the user changed under a link.                      *)
(***************************************************************************)
now == [rows |-> rows, orphaned |-> orphaned, mine |-> mine, edited |-> edited]

Kept(w, r, f, k) == w.rows[r].rec[f].vars[k].kept
Undisturbed(w, f, k) == w.orphaned = {} /\ <<f, k>> \notin w.edited

\* A line that points at the gateway is the one its row remembers having written.
Accounted(w, f, r, x) ==
  x \in Urls /\ x.slug \notin w.orphaned =>
    /\ x.port = 1 /\ w.rows[r].slug = x.slug /\ w.rows[r].has
    /\ Kept(w, r, f, VarOf[r]) /\ w.rows[r].rec[f].vars[VarOf[r]].written = x

\* What a file may say: lines with a record, else what the user last put there; NO_PROXY
\* with the gateway's entries only while some row remembers it without.
FileOK(w, f, c) ==
  /\ ~c.there => c.vals = NoFile.vals
  /\ \A r \in Routes :
       /\ Accounted(w, f, r, c.vals[VarOf[r]])
       /\ Undisturbed(w, f, VarOf[r]) /\ c.vals[VarOf[r]] \notin Urls =>
            c.vals[VarOf[r]] = w.mine[f][VarOf[r]]
  /\ Undisturbed(w, f, NoProxy) =>
       \/ c.vals[NoProxy] = w.mine[f][NoProxy]
       \/ /\ c.vals[NoProxy] = Extended(w.mine[f][NoProxy])
          /\ \E r \in Routes : Kept(w, r, f, NoProxy)

\* A recorded prior is never one of the writer's own lines, and is what the user had.
PriorOK(w, f, k, v) ==
  v.kept =>
    /\ v.prior \in Urls => v.prior.slug \in w.orphaned
    /\ Undisturbed(w, f, k) =>
         v.prior = w.mine[f][k] /\ (k = NoProxy => v.written = Extended(w.mine[f][k]))

RowOK(w, r, x) ==
  /\ ~x.has => x.rec = NoRecord
  /\ \A f \in Files, k \in Names :
       /\ x.rec[f].vars[k].kept => k \in {VarOf[r], NoProxy}
       /\ PriorOK(w, f, k, x.rec[f].vars[k])

\* Nothing of route r is left in a file.
Cleared(w, f, r, c) ==
  /\ c.vals[VarOf[r]] \in Urls => c.vals[VarOf[r]].slug \in w.orphaned
  /\ Undisturbed(w, f, NoProxy) /\ Kept(w, r, f, NoProxy) => c.vals[NoProxy] = w.mine[f][NoProxy]

\* The row holds everything that is about to be written over.
Recorded(w, j) ==
  /\ w.rows[j.r].slug = j.slug /\ w.rows[j.r].has
  /\ \A f \in Files :
       LET v == w.rows[j.r].rec[f].vars  n == j.seen[f].vals[NoProxy] IN
       /\ v[VarOf[j.r]].kept /\ v[VarOf[j.r]].written = Url(j.slug, 1)
       /\ Extended(n) # n => v[NoProxy].kept

LinkOK(w, j) ==
  /\ j.port = 1 /\ \A f \in Files : FileOK(w, f, j.seen[f])
  /\ j.pc \in {"preview", "insert"} /\ w.rows[j.r] # NoRow => w.rows[j.r].slug = j.slug
  /\ (j.pc = "insert" /\ j.existing) \/ j.pc \in {"readPrior", "update"} =>
       w.rows[j.r].slug = j.slug \/ j.slug \in w.orphaned
  /\ j.pc = "update" /\ w.rows[j.r].slug = j.slug => j.stored = w.rows[j.r]
  /\ j.pc = "write" => Recorded(w, j) \/ j.slug \in w.orphaned

RestoreOK(w, fs, j) ==
  /\ w.rows[j.r] \in {j.stored, NoRow} /\ RowOK(w, j.r, j.stored) /\ j.stored.has
  /\ \A f \in Files \ j.todo :
       (j.pc = "writeBack" /\ f = j.f) \/ j.unsettled \/ Cleared(w, f, j.r, fs[f])
  /\ j.pc = "writeBack" =>
       /\ j.f \notin j.todo /\ j.at.there /\ FileOK(w, j.f, j.at)
       /\ j.unsettled \/ Cleared(w, j.f, j.r, Restored(j.at, j.stored.rec[j.f], j.locked))

JobOK(w, fs, j) ==
  /\ j.pc \in {"preview", "insert", "readPrior", "update", "write"} => LinkOK(w, j)
  /\ j.pc \in {"restore", "writeBack"} => RestoreOK(w, fs, j)
  /\ j.pc = "remove" => \A f \in Files : Cleared(w, f, j.r, fs[f])

LinkInv ==
  /\ port = 1
  /\ \A f \in Files : FileOK(now, f, files[f])
  /\ \A r \in Routes : RowOK(now, r, rows[r])
  /\ \A p \in Jobs : JobOK(now, files, job[p])

\* Commands run one at a time, and no two routes write the same variable.
Alone == \A p, q \in Jobs : ~At(p, "idle") /\ ~At(q, "idle") => p = q
Apart == \A q, r \in Routes : VarOf[q] = VarOf[r] => q = r

Known(w) ==
  /\ \A r \in Routes : Row(w.rows[r])
  /\ \A f \in Files, k \in Names : w.mine[f][k] \in OwnValues(k)

LEMMA NowKnown ==
  ASSUME LinkTypeOK
  PROVE  /\ Known(now)
         /\ now.rows = rows /\ now.orphaned = orphaned /\ now.mine = mine /\ now.edited = edited
BY DEF LinkTypeOK, Known, now

\* NO_PROXY of the user is without the gateway's entries; extending it twice is once.
LEMMA ExtendedOnce ==
  ASSUME NEW v \in OwnValues(NoProxy)
  PROVE  /\ Extended(v) # v /\ Extended(v) # NoValue
         /\ Extended(Extended(v)) = Extended(v)
<1>1. NoProxy \in Names
  BY DEF Names
<1>2. v \in ValuesOf(NoProxy)
  BY <1>1, ValuesOfTyped
<1>3. Extended(v) \in Lists /\ Loopback \in Extended(v).hosts
  BY <1>2, ExtendedTyped
<1>4. Extended(v) # NoValue
  BY <1>3, LinkAssumption
<1>5. PICK S \in SUBSET (UserHosts \cup {Loopback}) : Extended(v) = List(S)
  BY <1>3 DEF Lists
<1>6. Extended(Extended(v)) = List(S \cup {Loopback}) /\ S = S \cup {Loopback}
  BY <1>3, <1>4, <1>5, ListTyped DEF Extended
<1>7. v # NoValue => Loopback \notin v.hosts
  <2>1. ASSUME v # NoValue PROVE Loopback \notin v.hosts
    <3>1. PICK T \in SUBSET UserHosts : v = List(T)
      BY <2>1 DEF OwnValues
    <3> QED BY <3>1, ListTyped, LinkAssumption
  <2> QED BY <2>1
<1> QED BY <1>3, <1>4, <1>5, <1>6, <1>7

\* What a user puts there is not a link.
LEMMA OwnIsNoUrl ==
  ASSUME NEW k \in Names, NEW v \in OwnValues(k), k # NoProxy
  PROVE  v \notin Urls
BY LinkAssumption DEF OwnValues

LEMMA NothingKept ==
  /\ \A f \in Files, k \in Names : ~NoRow.rec[f].vars[k].kept
  /\ NoRow.slug = 0 /\ NoRow.has = FALSE /\ NoRow.rec = NoRecord
BY DEF NoRow, NoRecord, Unrecorded

LEMMA NoRowOK ==
  ASSUME NEW w, NEW r \in Routes
  PROVE  RowOK(w, r, NoRow)
BY NothingKept DEF RowOK, PriorOK

(***************************************************************************)
(* How the predicates move with the database.                              *)
(***************************************************************************)
\* z comes after w by edits of the user that are remembered as such.
Later(w, z) ==
  /\ z.rows = w.rows /\ z.orphaned = w.orphaned /\ w.edited \subseteq z.edited
  /\ \A f \in Files, k \in Names : <<f, k>> \notin z.edited => z.mine[f][k] = w.mine[f][k]

LEMMA EditsKeep ==
  ASSUME NEW w, NEW z, Later(w, z)
  PROVE  /\ \A f \in Files : \A c : FileOK(w, f, c) => FileOK(z, f, c)
         /\ \A f \in Files, r \in Routes : \A c : Cleared(w, f, r, c) => Cleared(z, f, r, c)
         /\ \A r \in Routes : \A x : RowOK(w, r, x) => RowOK(z, r, x)
<1>1. NoProxy \in Names /\ \A q \in Routes : VarOf[q] \in Names
  BY NamesOfLinks DEF Names
<1>2. \A g \in Files, k \in Names :
        Undisturbed(z, g, k) => Undisturbed(w, g, k) /\ z.mine[g][k] = w.mine[g][k]
  BY DEF Later, Undisturbed
<1>3. \A q \in Routes, g \in Files : \A k, x :
        /\ Kept(z, q, g, k) <=> Kept(w, q, g, k)
        /\ Accounted(z, g, q, x) <=> Accounted(w, g, q, x)
  BY DEF Later, Kept, Accounted
<1>4. ASSUME NEW f \in Files, NEW c, FileOK(w, f, c) PROVE FileOK(z, f, c)
  <2>1. \A q \in Routes : Accounted(z, f, q, c.vals[VarOf[q]])
    BY <1>3, <1>4 DEF FileOK
  <2>2. \A q \in Routes :
          Undisturbed(z, f, VarOf[q]) /\ c.vals[VarOf[q]] \notin Urls =>
            c.vals[VarOf[q]] = z.mine[f][VarOf[q]]
    BY <1>1, <1>2, <1>4 DEF FileOK
  <2>3. Undisturbed(z, f, NoProxy) =>
          \/ c.vals[NoProxy] = z.mine[f][NoProxy]
          \/ /\ c.vals[NoProxy] = Extended(z.mine[f][NoProxy])
             /\ \E q \in Routes : Kept(z, q, f, NoProxy)
    BY <1>1, <1>2, <1>3, <1>4 DEF FileOK
  <2> QED BY <1>4, <2>1, <2>2, <2>3 DEF FileOK
<1>5. ASSUME NEW f \in Files, NEW r \in Routes, NEW c, Cleared(w, f, r, c) PROVE Cleared(z, f, r, c)
  BY <1>1, <1>2, <1>3, <1>5 DEF Cleared, Later
<1>6. ASSUME NEW r \in Routes, NEW x, RowOK(w, r, x) PROVE RowOK(z, r, x)
  BY <1>1, <1>2, <1>6 DEF RowOK, PriorOK, Later
<1> QED BY <1>4, <1>5, <1>6

\* z comes after w by the removal of a route and, with it, of its row.
Cascaded(w, z, r) ==
  /\ z.rows = [w.rows EXCEPT ![r] = NoRow]
  /\ z.orphaned = w.orphaned \cup ({w.rows[r].slug} \ {0})
  /\ z.edited = w.edited /\ z.mine = w.mine

\* A removed row takes its record with it: nothing is owed for its slug any more.
LEMMA CascadeKeeps ==
  ASSUME NEW w, NEW z, NEW r \in Routes, Cascaded(w, z, r), Known(w),
         w.rows \in [Routes -> Rows]
  PROVE  /\ \A f \in Files : \A c : FileOK(w, f, c) => FileOK(z, f, c)
         /\ \A f \in Files, q \in Routes : \A c : Cleared(w, f, q, c) => Cleared(z, f, q, c)
         /\ \A q \in Routes : \A x : RowOK(w, q, x) => RowOK(z, q, x)
<1>1. CASE w.rows[r].slug = 0
  <2>1. w.rows[r] = NoRow
    BY <1>1 DEF Known, Row
  <2>2. z.rows = w.rows /\ z.orphaned = w.orphaned
    BY <1>1, <2>1 DEF Cascaded
  <2>3. Later(w, z)
    BY <2>2 DEF Later, Cascaded
  <2> QED BY <2>3, EditsKeep
<1>2. CASE w.rows[r].slug # 0
  <2>1. w.rows[r].slug \in z.orphaned /\ w.orphaned \subseteq z.orphaned
    BY <1>2 DEF Cascaded
  <2>2. \A g, k : ~Undisturbed(z, g, k)
    BY <2>1 DEF Undisturbed
  <2>3. \A s \in Routes : s # r => z.rows[s] = w.rows[s]
    BY DEF Cascaded
  <2>4. ASSUME NEW f \in Files, NEW s \in Routes, NEW x, Accounted(w, f, s, x)
        PROVE  Accounted(z, f, s, x)
    BY <2>1, <2>3, <2>4 DEF Accounted, Kept
  <2>5. ASSUME NEW f \in Files, NEW c, FileOK(w, f, c) PROVE FileOK(z, f, c)
    BY <2>2, <2>4, <2>5 DEF FileOK
  <2>6. ASSUME NEW f \in Files, NEW q \in Routes, NEW c, Cleared(w, f, q, c) PROVE Cleared(z, f, q, c)
    BY <2>1, <2>2, <2>6 DEF Cleared
  <2>7. ASSUME NEW q \in Routes, NEW x, RowOK(w, q, x) PROVE RowOK(z, q, x)
    BY <2>1, <2>2, <2>7 DEF RowOK, PriorOK
  <2> QED BY <2>5, <2>6, <2>7
<1> QED BY <1>1, <1>2
\* z comes after w by a change of the row of route r alone.
Put(w, z, r, x) ==
  /\ z.rows = [w.rows EXCEPT ![r] = x]
  /\ z.orphaned = w.orphaned /\ z.edited = w.edited /\ z.mine = w.mine

NewRow(s) == [slug |-> s, has |-> FALSE, rec |-> NoRecord]

\* add_project_link_with_slug: a new row owes nothing yet.
LEMMA InsertKeeps ==
  ASSUME NEW w, NEW z, NEW r \in Routes, NEW s, Put(w, z, r, NewRow(s)),
         w.rows \in [Routes -> Rows], w.rows[r] = NoRow
  PROVE  /\ \A f \in Files : \A c : FileOK(w, f, c) => FileOK(z, f, c)
         /\ \A q \in Routes : \A x : RowOK(w, q, x) => RowOK(z, q, x)
         /\ RowOK(z, r, NewRow(s))
<1>1. NoRow \in Rows
  BY EmptyTyped DEF Row
<1>2. z.rows[r].has = FALSE /\ z.rows[r].rec = NoRecord /\ z.rows[r].slug = s
  <2>1. z.rows[r] = NewRow(s)
    BY DEF Put
  <2> QED BY <2>1 DEF NewRow
<1>3. \A f \in Files, k \in Names : ~Kept(z, r, f, k) /\ ~Kept(w, r, f, k)
  BY <1>2, NothingKept DEF Kept
<1>4. \A q \in Routes : q # r => z.rows[q] = w.rows[q]
  BY DEF Put
<1>5. z.orphaned = w.orphaned /\ z.mine = w.mine /\ \A g, k : Undisturbed(z, g, k) <=> Undisturbed(w, g, k)
  BY DEF Undisturbed, Put
<1>6. \A q \in Routes : VarOf[q] \in Names /\ NoProxy \in Names
  BY NamesOfLinks
<1>7. ASSUME NEW f \in Files, NEW q \in Routes, NEW x, Accounted(w, f, q, x)
      PROVE  Accounted(z, f, q, x)
  <2>1. CASE q = r
    BY <1>3, <1>5, <1>6, <1>7, <2>1 DEF Accounted
  <2>2. CASE q # r
    BY <1>4, <1>5, <1>7, <2>2 DEF Accounted, Kept
  <2> QED BY <2>1, <2>2
<1>8. \A f \in Files, q \in Routes : Kept(w, q, f, NoProxy) => Kept(z, q, f, NoProxy)
  BY <1>3, <1>4, <1>6 DEF Kept
<1>9. ASSUME NEW f \in Files, NEW c, FileOK(w, f, c) PROVE FileOK(z, f, c)
  BY <1>5, <1>7, <1>8, <1>9 DEF FileOK
<1>10. ASSUME NEW q \in Routes, NEW x, RowOK(w, q, x) PROVE RowOK(z, q, x)
  BY <1>5, <1>10 DEF RowOK, PriorOK
<1>11. RowOK(z, r, NewRow(s))
  BY NothingKept DEF RowOK, PriorOK, NewRow
<1> QED BY <1>9, <1>10, <1>11

\* A row that forgets nothing it remembered of a file and says what is written there.
Covers(w, r, s, x, f) ==
  /\ \A k \in Names : Kept(w, r, f, k) => x.rec[f].vars[k].kept
  /\ x.rec[f].vars[VarOf[r]].written = Url(s, 1)

\* update_link_env: the row of route r gets a record x that keeps all the old one kept, and
\* has now written its slug's line.
LEMMA RecordKeeps ==
  ASSUME NEW w, NEW z, NEW r \in Routes, NEW x, NEW s,
         w.rows \in [Routes -> Rows], Put(w, z, r, x),
         x.slug = w.rows[r].slug, x.has, w.rows[r].slug = s,
         \A f \in Files : Covers(w, r, s, x, f)
  PROVE  /\ \A f \in Files : \A c : FileOK(w, f, c) => FileOK(z, f, c)
         /\ \A q \in Routes : \A y : RowOK(w, q, y) => RowOK(z, q, y)
<1>1. z.rows[r] = x /\ \A q \in Routes : q # r => z.rows[q] = w.rows[q]
  BY DEF Put
<1>2. z.orphaned = w.orphaned /\ z.mine = w.mine /\ \A g, k : Undisturbed(z, g, k) <=> Undisturbed(w, g, k)
  BY DEF Undisturbed, Put
<1>3. \A q \in Routes : VarOf[q] \in Names /\ NoProxy \in Names
  BY NamesOfLinks
<1>4. \A f \in Files, q \in Routes, k \in Names : Kept(w, q, f, k) => Kept(z, q, f, k)
  BY <1>1 DEF Kept, Covers
<1>5. ASSUME NEW f \in Files, NEW q \in Routes, NEW v, Accounted(w, f, q, v)
      PROVE  Accounted(z, f, q, v)
  <2>1. CASE q = r
    <3> SUFFICES ASSUME v \in Urls, v.slug \notin z.orphaned
                 PROVE  /\ v.port = 1 /\ z.rows[q].slug = v.slug /\ z.rows[q].has
                        /\ Kept(z, q, f, VarOf[q]) /\ z.rows[q].rec[f].vars[VarOf[q]].written = v
      BY DEF Accounted
    <3>1. v.port = 1 /\ w.rows[q].slug = v.slug /\ Kept(w, q, f, VarOf[q])
      BY <1>2, <1>5 DEF Accounted
    <3>2. v = Url(s, 1)
      BY <2>1, <3>1 DEF Url, Urls
    <3> QED BY <1>1, <1>3, <1>4, <2>1, <3>1, <3>2 DEF Covers
  <2>2. CASE q # r
    BY <1>1, <1>2, <1>5, <2>2 DEF Accounted, Kept
  <2> QED BY <2>1, <2>2
<1>6. ASSUME NEW f \in Files, NEW c, FileOK(w, f, c) PROVE FileOK(z, f, c)
  BY <1>2, <1>3, <1>4, <1>5, <1>6 DEF FileOK
<1>7. ASSUME NEW q \in Routes, NEW y, RowOK(w, q, y) PROVE RowOK(z, q, y)
  BY <1>2, <1>7 DEF RowOK, PriorOK
<1> QED BY <1>6, <1>7

\* remove_project_link: once nothing of the route is left in a file, its row may go.
LEMMA RemovalKeeps ==
  ASSUME NEW w, NEW z, NEW r \in Routes, w.rows \in [Routes -> Rows], Put(w, z, r, NoRow)
  PROVE  /\ \A f \in Files : \A c : FileOK(w, f, c) /\ Cleared(w, f, r, c) => FileOK(z, f, c)
         /\ \A q \in Routes : \A x : RowOK(w, q, x) => RowOK(z, q, x)
<1>1. \A q \in Routes : q # r => z.rows[q] = w.rows[q]
  BY DEF Put
<1>2. z.orphaned = w.orphaned /\ z.mine = w.mine /\ \A g, k : Undisturbed(z, g, k) <=> Undisturbed(w, g, k)
  BY DEF Undisturbed, Put
<1>3. ASSUME NEW f \in Files, NEW c, FileOK(w, f, c), Cleared(w, f, r, c)
      PROVE  FileOK(z, f, c)
  <2>1. ASSUME NEW q \in Routes PROVE Accounted(z, f, q, c.vals[VarOf[q]])
    <3>1. CASE q = r
      BY <1>2, <1>3, <3>1 DEF Cleared, Accounted
    <3>2. CASE q # r
      <4>1. Accounted(w, f, q, c.vals[VarOf[q]])
        BY <1>3 DEF FileOK
      <4>2. z.rows[q] = w.rows[q] /\ z.orphaned = w.orphaned
        BY <1>1, <1>2, <3>2
      <4> QED BY <4>1, <4>2 DEF Accounted, Kept
    <3> QED BY <3>1, <3>2
  <2>2. ASSUME Undisturbed(z, f, NoProxy)
        PROVE  \/ c.vals[NoProxy] = z.mine[f][NoProxy]
               \/ /\ c.vals[NoProxy] = Extended(z.mine[f][NoProxy])
                  /\ \E q \in Routes : Kept(z, q, f, NoProxy)
    <3>1. CASE Kept(w, r, f, NoProxy)
      BY <1>2, <1>3, <2>2, <3>1 DEF Cleared
    <3>2. CASE ~Kept(w, r, f, NoProxy)
      BY <1>1, <1>2, <1>3, <2>2, <3>2 DEF FileOK, Kept
    <3> QED BY <3>1, <3>2
  <2> QED BY <1>2, <1>3, <2>1, <2>2 DEF FileOK
<1>4. ASSUME NEW q \in Routes, NEW x, RowOK(w, q, x) PROVE RowOK(z, q, x)
  BY <1>2, <1>4 DEF RowOK, PriorOK
<1> QED BY <1>3, <1>4

(***************************************************************************)
(* What is written keeps what a file may say.                              *)
(***************************************************************************)
\* plan_file, once the record is committed.
LEMMA PlannedOK ==
  ASSUME Apart, NEW w, Known(w), NEW r \in Routes, NEW f \in Files, NEW c, Content(c),
         FileOK(w, f, c), NEW s \in Slugs,
         \/ s \in w.orphaned
         \/ /\ w.rows[r].slug = s /\ w.rows[r].has
            /\ Kept(w, r, f, VarOf[r]) /\ w.rows[r].rec[f].vars[VarOf[r]].written = Url(s, 1)
            /\ Extended(c.vals[NoProxy]) # c.vals[NoProxy] => Kept(w, r, f, NoProxy)
  PROVE  FileOK(w, f, Planned(c, r, Url(s, 1)))
<1> DEFINE d == Planned(c, r, Url(s, 1))
<1>1. Url(s, 1) \in Urls /\ Url(s, 1).slug = s /\ Url(s, 1).port = 1
  BY UrlTyped, LinkAssumption
<1>2. \A q \in Routes : VarOf[q] \in Names /\ VarOf[q] # NoProxy /\ NoProxy \in Names
  BY NamesOfLinks
<1>3. /\ d.there /\ d.vals[VarOf[r]] = Url(s, 1) /\ d.vals[NoProxy] = Extended(c.vals[NoProxy])
      /\ \A k \in Names \ {VarOf[r], NoProxy} : d.vals[k] = c.vals[k]
  BY <1>2 DEF Planned, Content, Contents
<1> HIDE DEF d
<1>4. Accounted(w, f, r, Url(s, 1))
  BY <1>1 DEF Accounted
<1>5. ASSUME NEW q \in Routes
      PROVE  /\ Accounted(w, f, q, d.vals[VarOf[q]])
             /\ Undisturbed(w, f, VarOf[q]) /\ d.vals[VarOf[q]] \notin Urls =>
                  d.vals[VarOf[q]] = w.mine[f][VarOf[q]]
  <2>1. CASE q = r
    BY <1>1, <1>3, <1>4, <2>1
  <2>2. CASE q # r
    <3>1. VarOf[q] # VarOf[r]
      BY <2>2 DEF Apart
    <3>2. d.vals[VarOf[q]] = c.vals[VarOf[q]]
      BY <1>2, <1>3, <3>1
    <3> QED BY <3>2 DEF FileOK
  <2> QED BY <2>1, <2>2
<1>6. ASSUME Undisturbed(w, f, NoProxy)
      PROVE  /\ d.vals[NoProxy] = Extended(w.mine[f][NoProxy])
             /\ \E q \in Routes : Kept(w, q, f, NoProxy)
  <2>1. w.mine[f][NoProxy] \in OwnValues(NoProxy)
    BY <1>2 DEF Known
  <2>2. /\ Extended(w.mine[f][NoProxy]) # w.mine[f][NoProxy]
        /\ Extended(Extended(w.mine[f][NoProxy])) = Extended(w.mine[f][NoProxy])
    BY <2>1, ExtendedOnce
  <2>3. CASE c.vals[NoProxy] = w.mine[f][NoProxy]
    BY <1>3, <1>6, <2>2, <2>3 DEF Undisturbed
  <2>4. CASE /\ c.vals[NoProxy] = Extended(w.mine[f][NoProxy])
             /\ \E q \in Routes : Kept(w, q, f, NoProxy)
    BY <1>3, <2>2, <2>4
  <2> QED BY <1>6, <2>3, <2>4 DEF FileOK
<1>7. FileOK(w, f, d)
  BY <1>3, <1>5, <1>6 DEF FileOK
<1> QED BY <1>7 DEF d

\* A file goes when nothing is left in it: what it says does not change.
LEMMA OnlyValuesMatter ==
  ASSUME NEW w, NEW f \in Files, NEW r \in Routes, NEW c, NEW d, d.vals = c.vals,
         c.there, ~d.there => d.vals = NoFile.vals
  PROVE  /\ FileOK(w, f, c) => FileOK(w, f, d)
         /\ Cleared(w, f, r, c) => Cleared(w, f, r, d)
BY DEF FileOK, Cleared

\* How restore_file handles an assignment.
LEMMA OutcomeCases ==
  ASSUME NEW cur, NEW v, NEW sealed
  PROVE  /\ Outcome(cur, v, sealed) = "restored" => v.kept /\ cur = v.written
         /\ v.kept /\ cur # NoValue /\ cur = v.written =>
              Outcome(cur, v, sealed) \in {"restored", "priorNotRecorded"}
BY DEF Outcome

LEMMA RestoredOK ==
  ASSUME Apart, NEW w, NEW r \in Routes, NEW f \in Files, NEW x, RowOK(w, r, x),
         NEW c, FileOK(w, f, c), NEW sealed, NEW d, From(d, c, x, f, sealed), d.there
  PROVE  FileOK(w, f, d)
<1>1. \A q \in Routes : VarOf[q] \in Names /\ VarOf[q] # NoProxy /\ NoProxy \in Names
  BY NamesOfLinks
<1>2. \A k \in Names :
        \/ d.vals[k] = c.vals[k]
        \/ /\ k \in {VarOf[r], NoProxy} /\ d.vals[k] = x.rec[f].vars[k].prior
           /\ PriorOK(w, f, k, x.rec[f].vars[k]) /\ x.rec[f].vars[k].kept
  BY OutcomeCases DEF From, RowOK
<1>3. ASSUME NEW q \in Routes
      PROVE  /\ Accounted(w, f, q, d.vals[VarOf[q]])
             /\ Undisturbed(w, f, VarOf[q]) /\ d.vals[VarOf[q]] \notin Urls =>
                  d.vals[VarOf[q]] = w.mine[f][VarOf[q]]
  <2>1. CASE d.vals[VarOf[q]] = c.vals[VarOf[q]]
    BY <2>1 DEF FileOK
  <2>2. CASE d.vals[VarOf[q]] # c.vals[VarOf[q]]
    <3>1. /\ d.vals[VarOf[q]] = x.rec[f].vars[VarOf[q]].prior
          /\ PriorOK(w, f, VarOf[q], x.rec[f].vars[VarOf[q]]) /\ x.rec[f].vars[VarOf[q]].kept
      BY <1>1, <1>2, <2>2
    <3> QED BY <3>1 DEF PriorOK, Accounted
  <2> QED BY <2>1, <2>2
<1>4. ASSUME Undisturbed(w, f, NoProxy)
      PROVE  \/ d.vals[NoProxy] = w.mine[f][NoProxy]
             \/ /\ d.vals[NoProxy] = Extended(w.mine[f][NoProxy])
                /\ \E q \in Routes : Kept(w, q, f, NoProxy)
  BY <1>1, <1>2, <1>4 DEF FileOK, PriorOK
<1> QED BY <1>3, <1>4 DEF FileOK

\* When every outcome is settled nothing of the route is left.
LEMMA SettledClears ==
  ASSUME NEW w, Known(w), NEW r \in Routes, NEW f \in Files,
         NEW x, RowOK(w, r, x), w.rows[r] \in {x, NoRow}, NEW c, FileOK(w, f, c),
         NEW sealed, \A k \in Names : Settled(Outcome(c.vals[k], x.rec[f].vars[k], sealed)),
         NEW d, From(d, c, x, f, sealed)
  PROVE  Cleared(w, f, r, d)
<1>1. VarOf[r] \in Names /\ VarOf[r] # NoProxy /\ NoProxy \in Names
  BY NamesOfLinks
<1>2. \A k \in Names : LET v == x.rec[f].vars[k] IN
        /\ v.kept /\ c.vals[k] # NoValue /\ c.vals[k] = v.written => d.vals[k] = v.prior
        /\ d.vals[k] = c.vals[k] \/ (v.kept /\ d.vals[k] = v.prior)
  BY OutcomeCases DEF From, Settled
<1>3. ASSUME d.vals[VarOf[r]] \in Urls, d.vals[VarOf[r]].slug \notin w.orphaned
      PROVE  FALSE
  <2> DEFINE v == x.rec[f].vars[VarOf[r]]
  <2>1. ~(v.kept /\ d.vals[VarOf[r]] = v.prior)
    BY <1>1, <1>3 DEF RowOK, PriorOK
  <2>2. d.vals[VarOf[r]] = c.vals[VarOf[r]]
    BY <1>1, <1>2, <2>1
  <2>3. /\ w.rows[r].has /\ Kept(w, r, f, VarOf[r])
        /\ w.rows[r].rec[f].vars[VarOf[r]].written = c.vals[VarOf[r]]
    BY <1>3, <2>2 DEF FileOK, Accounted
  <2>4. w.rows[r] = x
    BY <2>3, NothingKept
  <2>5. c.vals[VarOf[r]] # NoValue
    BY <1>3, <2>2, LinkAssumption
  <2> QED BY <1>1, <1>2, <2>1, <2>3, <2>4, <2>5 DEF Kept
<1>4. ASSUME Undisturbed(w, f, NoProxy), Kept(w, r, f, NoProxy)
      PROVE  d.vals[NoProxy] = w.mine[f][NoProxy]
  <2> DEFINE v == x.rec[f].vars[NoProxy]
             m == w.mine[f][NoProxy]
  <2>1. w.rows[r] = x /\ v.kept
    BY <1>1, <1>4, NothingKept DEF Kept
  <2>2. v.prior = m /\ v.written = Extended(m)
    BY <1>1, <1>4, <2>1 DEF RowOK, PriorOK
  <2>3. Extended(m) # NoValue
    BY <1>1, ExtendedOnce DEF Known
  <2>4. c.vals[NoProxy] \in {m, Extended(m)}
    BY <1>4 DEF FileOK
  <2> HIDE DEF m
  <2> QED BY <1>1, <1>2, <2>1, <2>2, <2>3, <2>4 DEF m
<1> QED BY <1>3, <1>4 DEF Cleared

\* A file that is not there has nothing of any route.
LEMMA MissingClears ==
  ASSUME NEW w, Known(w), NEW r \in Routes, NEW f \in Files, NEW c, FileOK(w, f, c), ~c.there
  PROVE  Cleared(w, f, r, c)
<1>1. VarOf[r] \in Names /\ NoProxy \in Names
  BY NamesOfLinks
<1>2. c.vals[VarOf[r]] = NoValue /\ c.vals[NoProxy] = NoValue
  BY <1>1 DEF FileOK, NoFile
<1>3. NoValue \notin Urls
  BY LinkAssumption
<1>4. Extended(w.mine[f][NoProxy]) # NoValue
  BY <1>1, ExtendedOnce DEF Known
<1> QED BY <1>2, <1>3, <1>4 DEF FileOK, Cleared

\* Neither has a route whose row was never given a record.
LEMMA UnrecordedClears ==
  ASSUME NEW w, NEW r \in Routes, NEW f \in Files, NEW c, FileOK(w, f, c),
         RowOK(w, r, w.rows[r]), ~w.rows[r].has
  PROVE  Cleared(w, f, r, c)
<1>1. VarOf[r] \in Names /\ NoProxy \in Names
  BY NamesOfLinks
<1>2. ~Kept(w, r, f, NoProxy)
  BY <1>1, NothingKept DEF RowOK, Kept
<1> QED BY <1>2 DEF FileOK, Accounted, Cleared
(***************************************************************************)
(* merge_prior keeps what a row owes.                                      *)
(***************************************************************************)
FreshOf(seen, r, url) == [f \in Files |-> Fresh(seen[f], r, url)]

\* Row x of route r remembers what slug s wrote and what it needs to take it out again.
Remembers(w, r, s, seen, x, f) ==
  /\ x.rec[f].vars[VarOf[r]].kept /\ x.rec[f].vars[VarOf[r]].written = Url(s, 1)
  /\ LET n == seen[f].vals[NoProxy] IN Extended(n) # n => x.rec[f].vars[NoProxy].kept
  /\ \A k \in Names :
       /\ Kept(w, r, f, k) => x.rec[f].vars[k].kept
       /\ x.rec[f].vars[k].kept => k \in {VarOf[r], NoProxy}
       /\ PriorOK(w, f, k, x.rec[f].vars[k])

LEMMA MergedOK ==
  ASSUME NEW w, Known(w), NEW r \in Routes, NEW s \in Slugs, NEW seen,
         \A f \in Files : Content(seen[f]) /\ FileOK(w, f, seen[f]),
         RowOK(w, r, w.rows[r]), w.rows[r].slug = s,
         NEW x, x.rec = Merged(w.rows[r], FreshOf(seen, r, Url(s, 1))), NEW f \in Files
  PROVE  Remembers(w, r, s, seen, x, f)
<1> DEFINE fresh == FreshOf(seen, r, Url(s, 1))
           old(k) == w.rows[r].rec[f].vars[k]
           new(k) == fresh[f].vars[k]
           m(k) == x.rec[f].vars[k]
           c == seen[f]
           u == Url(s, 1)
<1>1. u \in Urls /\ u.slug = s
  BY UrlTyped, LinkAssumption
<1>2. VarOf[r] \in Names /\ VarOf[r] # NoProxy /\ NoProxy \in Names
  BY NamesOfLinks
<1>3. Row(w.rows[r]) /\ Recordable(fresh) /\ Content(c) /\ fresh[f] = Fresh(c, r, u)
  BY <1>1, FreshTyped DEF Known, FreshOf
<1>4. \A k \in Names :
        /\ k = VarOf[r] => new(k) = [kept |-> TRUE, prior |-> c.vals[k], written |-> u]
        /\ k = NoProxy /\ Extended(c.vals[k]) # c.vals[k] =>
             new(k) = [kept |-> TRUE, prior |-> c.vals[k], written |-> Extended(c.vals[k])]
        /\ k # VarOf[r] /\ ~(k = NoProxy /\ Extended(c.vals[k]) # c.vals[k]) => ~new(k).kept
  <2>1. Unrecorded.kept = FALSE
    BY DEF Unrecorded
  <2> QED BY <1>1, <1>3, <2>1, FreshVars
<1>5. \A k \in Names : Combines(old(k), new(k), m(k))
  BY <1>3, MergedVars
<1>6. \A k \in Names : (old(k).kept => k \in {VarOf[r], NoProxy}) /\ PriorOK(w, f, k, old(k))
  BY DEF RowOK
<1>7. FileOK(w, f, c)
  OBVIOUS
<1>8. \A k \in Names : Kept(w, r, f, k) <=> old(k).kept
  BY DEF Kept
<1> HIDE DEF old, new, m, c, u, fresh
<1>9. m(VarOf[r]).kept /\ m(VarOf[r]).written = u
  BY <1>2, <1>4, <1>5 DEF Combines
<1>10. Extended(c.vals[NoProxy]) # c.vals[NoProxy] => m(NoProxy).kept
  BY <1>2, <1>4, <1>5 DEF Combines
<1>11. ASSUME NEW k \in Names
       PROVE  /\ old(k).kept => m(k).kept
              /\ m(k).kept => k \in {VarOf[r], NoProxy}
  BY <1>4, <1>5, <1>6 DEF Combines
<1>12. PriorOK(w, f, VarOf[r], m(VarOf[r]))
  <2> DEFINE k == VarOf[r]
  <2>1. CASE old(k).kept
    BY <1>2, <1>4, <1>5, <1>6, <2>1 DEF PriorOK, Combines
  <2>2. CASE ~old(k).kept
    <3>1. m(k).prior = c.vals[k]
      BY <1>2, <1>4, <1>5, <2>2 DEF Combines
    <3>2. ~Kept(w, r, f, k)
      BY <1>2, <1>8, <2>2
    <3>3. c.vals[k] \in Urls => c.vals[k].slug \in w.orphaned
      BY <1>7, <3>2 DEF FileOK, Accounted
    <3>4. Undisturbed(w, f, k) => c.vals[k] = w.mine[f][k]
      BY <1>7, <3>3 DEF FileOK, Undisturbed
    <3> QED BY <1>2, <3>1, <3>3, <3>4 DEF PriorOK
  <2> QED BY <2>1, <2>2
<1>13. ASSUME m(NoProxy).kept
       PROVE  PriorOK(w, f, NoProxy, m(NoProxy))
  <2> DEFINE n == c.vals[NoProxy]
             own == w.mine[f][NoProxy]
  <2>1. own \in OwnValues(NoProxy)
    BY <1>2 DEF Known
  <2>2. Extended(own) # own /\ Extended(Extended(own)) = Extended(own)
    BY <2>1, ExtendedOnce
  <2>3. Undisturbed(w, f, NoProxy) => n \in {own, Extended(own)}
    BY <1>7 DEF FileOK
  <2>4. n \notin Urls
    <3>1. n \in ValuesOf(NoProxy)
      BY <1>2, <1>3 DEF Content
    <3>2. ASSUME n \in Urls PROVE FALSE
      <4>1. n = NoValue \/ n \in Lists
        BY <3>1 DEF ValuesOf
      <4>2. n # NoValue
        BY <3>2, LinkAssumption
      <4>3. DOMAIN n = {"hosts"}
        BY <4>1, <4>2 DEF Lists, List
      <4>4. DOMAIN n = {"slug", "port"}
        BY <3>2 DEF Urls
      <4> QED BY <4>3, <4>4
    <3> QED BY <3>2
  <2> HIDE DEF own, n
  <2>5. CASE ~old(NoProxy).kept
    <3>1. Extended(n) # n /\ m(NoProxy).prior = n /\ m(NoProxy).written = Extended(n)
      BY <1>2, <1>4, <1>5, <1>13, <2>5 DEF n, Combines
    <3>2. Undisturbed(w, f, NoProxy) => n = own
      BY <2>2, <2>3, <3>1
    <3> QED BY <2>4, <3>1, <3>2 DEF PriorOK, own
  <2>6. CASE old(NoProxy).kept /\ new(NoProxy).kept
    <3>1. m(NoProxy).prior = old(NoProxy).prior /\ m(NoProxy).written = Extended(n)
      BY <1>2, <1>4, <1>5, <2>6 DEF n, Combines
    <3>2. Undisturbed(w, f, NoProxy) => Extended(n) = Extended(own)
      BY <2>2, <2>3
    <3>3. PriorOK(w, f, NoProxy, old(NoProxy))
      BY <1>2, <1>6
    <3> QED BY <2>6, <3>1, <3>2, <3>3 DEF PriorOK, own
  <2>7. CASE old(NoProxy).kept /\ ~new(NoProxy).kept
    BY <1>2, <1>5, <1>6, <2>7 DEF Combines
  <2> QED BY <2>5, <2>6, <2>7
<1>14. \A k \in Names : PriorOK(w, f, k, m(k))
  BY <1>2, <1>11, <1>12, <1>13 DEF PriorOK
<1> QED BY <1>8, <1>9, <1>10, <1>11, <1>14 DEF m, u, c, Remembers

(***************************************************************************)
(* The steps.                                                              *)
(***************************************************************************)
LEMMA SetOK ==
  ASSUME LinkTypeOK, Alone, Alone', LinkInv, NEW p \in Jobs, NEW j, Set(p, j),
         j.pc # "idle" \/ ~At(p, "idle"), JobOK(now', files', j)
  PROVE  \A q \in Jobs : JobOK(now, files, job[q])'
<1>1. job \in [Jobs -> Commands] /\ job' = [job EXCEPT ![p] = j]
  BY DEF LinkTypeOK, Set
<1>2. ASSUME NEW q \in Jobs, q # p
      PROVE  job'[q] = job[q] /\ job[q].pc = "idle"
  <2>1. job'[q] = job[q] /\ job'[p] = j
    BY <1>1, <1>2
  <2> QED BY <1>2, <2>1 DEF Alone, At
<1> QED BY <1>1, <1>2 DEF JobOK
LEMMA JobStepOK ==
  ASSUME LinkTypeOK, Alone, Alone', LinkInv, NEW p \in Jobs, NEW j, Set(p, j),
         j.pc # "idle" \/ ~At(p, "idle"),
         UNCHANGED <<files, routes, rows, port, ghosts>> \/ UNCHANGED <<files, rows, port, ghosts>>,
         JobOK(now, files, j)
  PROVE  LinkInv'
<1>1. now' = now /\ files' = files /\ rows' = rows /\ port' = port
  BY DEF now, ghosts
<1>2. \A q \in Jobs : JobOK(now, files, job[q])'
  BY <1>1, SetOK
<1> QED BY <1>1, <1>2 DEF LinkInv

LEMMA EndOK ==
  ASSUME LinkTypeOK, Alone, Alone', LinkInv, NEW p \in Jobs, ~At(p, "idle"), End(p),
         UNCHANGED <<files, rows, port, ghosts>>
  PROVE  LinkInv'
<1>1. JobOK(now, files, Idle)
  BY DEF JobOK, Idle
<1>2. Set(p, Idle)
  BY DEF End
<1> HIDE DEF Idle
<1> QED BY <1>1, <1>2, JobStepOK

LEMMA PreviewOK ==
  ASSUME LinkTypeOK, Alone, Alone', LinkInv, NEW p \in Jobs, NEW r \in Routes, Preview(p, r)
  PROVE  LinkInv'
<1> DEFINE s == IF Linked(r) THEN rows[r].slug ELSE FreshSlug
           n == [Idle EXCEPT !.pc = "preview", !.r = r, !.seen = files, !.port = port, !.slug = s]
<1>1. Set(p, n) /\ UNCHANGED <<files, rows, port, ghosts>>
  BY DEF Preview
<1>2. Linked(r) => s = rows[r].slug
  OBVIOUS
<1> HIDE DEF s
<1>3. n.pc = "preview" /\ n.r = r /\ n.seen = files /\ n.port = port /\ n.slug = s
  BY DEF Idle
<1> HIDE DEF n
<1>4. LinkOK(now, n)
  BY <1>2, <1>3, NowKnown DEF LinkOK, LinkInv, Linked
<1>5. JobOK(now, files, n)
  BY <1>3, <1>4 DEF JobOK
<1> QED BY <1>1, <1>3, <1>5, JobStepOK

LEMMA ReplanOK ==
  ASSUME LinkTypeOK, Alone, Alone', LinkInv, NEW p \in Jobs, Replan(p)
  PROVE  LinkInv'
<1> DEFINE j == job[p]
           n == [j EXCEPT !.pc = "insert", !.existing = Linked(j.r)]
<1>1. j.pc = "preview" /\ UNCHANGED <<files, rows, port, ghosts>> /\ (Set(p, n) \/ End(p))
  BY DEF Replan, At
<1>2. CASE End(p)
  BY <1>1, <1>2, EndOK DEF At
<1>3. CASE Set(p, n)
  <2>1. j \in Commands
    BY DEF LinkTypeOK
  <2>2. /\ n.pc = "insert" /\ n.existing = Linked(j.r)
        /\ n.r = j.r /\ n.seen = j.seen /\ n.port = j.port /\ n.slug = j.slug
    BY <2>1 DEF Commands
  <2>3. LinkOK(now, j)
    BY <1>1 DEF LinkInv, JobOK
  <2> HIDE DEF n
  <2>4. LinkOK(now, n)
    BY <1>1, <2>2, <2>3, NowKnown DEF LinkOK, Linked
  <2>5. JobOK(now, files, n)
    BY <2>2, <2>4 DEF JobOK
  <2> QED BY <1>1, <1>3, <2>2, <2>5, JobStepOK
<1> QED BY <1>1, <1>2, <1>3

LEMMA ReadPriorOK ==
  ASSUME LinkTypeOK, Alone, Alone', LinkInv, NEW p \in Jobs, ReadPrior(p)
  PROVE  LinkInv'
<1> DEFINE j == job[p]
           x == IF rows[j.r].slug = j.slug THEN rows[j.r] ELSE NoRow
           n == [j EXCEPT !.pc = "update", !.todo = Files, !.stored = x]
<1>1. j.pc = "readPrior" /\ UNCHANGED <<files, rows, port, ghosts>> /\ Set(p, n)
  BY DEF ReadPrior, At
<1>2. rows[j.r].slug = j.slug => x = rows[j.r]
  OBVIOUS
<1>3. j \in Commands
  BY DEF LinkTypeOK
<1> HIDE DEF x
<1>4. /\ n.pc = "update" /\ n.stored = x
      /\ n.r = j.r /\ n.seen = j.seen /\ n.port = j.port /\ n.slug = j.slug
  BY <1>3 DEF Commands
<1>5. LinkOK(now, j)
  BY <1>1 DEF LinkInv, JobOK
<1> HIDE DEF n
<1>6. LinkOK(now, n)
  BY <1>1, <1>2, <1>4, <1>5, NowKnown DEF LinkOK
<1>7. JobOK(now, files, n)
  BY <1>4, <1>6 DEF JobOK
<1> QED BY <1>1, <1>4, <1>7, JobStepOK

LEMMA InsertLinkOK ==
  ASSUME LinkTypeOK, Alone, Alone', LinkInv, NEW p \in Jobs, InsertLink(p)
  PROVE  LinkInv'
<1> DEFINE j == job[p]
           n == [j EXCEPT !.pc = "readPrior", !.existing = FALSE]
           x == [NoRow EXCEPT !.slug = j.slug]
<1>1. j.pc = "insert" /\ UNCHANGED <<files, port, ghosts>>
  BY DEF InsertLink, At
<1>2. LinkOK(now, j) /\ j \in Commands
  BY <1>1 DEF LinkInv, JobOK, LinkTypeOK
<1>3. /\ n.pc = "readPrior"
      /\ n.r = j.r /\ n.seen = j.seen /\ n.port = j.port /\ n.slug = j.slug
  BY <1>2 DEF Commands
<1>4. CASE End(p) /\ UNCHANGED rows
  BY <1>1, <1>4, EndOK DEF At
<1>5. CASE j.existing /\ Set(p, n) /\ UNCHANGED rows
  <2> HIDE DEF n
  <2>1. LinkOK(now, n)
    BY <1>1, <1>2, <1>3, <1>5 DEF LinkOK
  <2>2. JobOK(now, files, n)
    BY <1>3, <2>1 DEF JobOK
  <2> QED BY <1>1, <1>3, <1>5, <2>2, JobStepOK
<1>6. CASE ~Linked(j.r) /\ rows' = [rows EXCEPT ![j.r] = x] /\ Set(p, n)
  <2>1. j.r \in Routes /\ rows \in [Routes -> Rows] /\ rows[j.r] = NoRow
    BY <1>1, <1>6 DEF LinkTypeOK, Command, Linked
  <2>2. now.rows = rows /\ now'.rows = rows' /\ UNCHANGED <<orphaned, mine, edited>>
        /\ now'.orphaned = now.orphaned /\ now'.mine = now.mine /\ now'.edited = now.edited
    BY <1>1 DEF now, ghosts
  <2>3. /\ \A f \in Files : \A c : FileOK(now, f, c) => FileOK(now', f, c)
        /\ \A q \in Routes : \A y : RowOK(now, q, y) => RowOK(now', q, y)
        /\ RowOK(now', j.r, rows'[j.r]) /\ rows'[j.r].slug = j.slug
    <3>1. Put(now, now', j.r, NewRow(j.slug)) /\ rows'[j.r] = NewRow(j.slug)
      <4>1. x = NewRow(j.slug)
        <5>1. ASSUME NEW y \in Rows, NEW v
              PROVE  [y EXCEPT !.slug = v] = [slug |-> v, has |-> y.has, rec |-> y.rec]
          BY DEF Rows
        <5>2. NoRow \in Rows
          BY EmptyTyped DEF Row
        <5> HIDE DEF NoRow
        <5> QED BY <5>1, <5>2, NothingKept DEF NewRow
      <4> QED BY <1>6, <2>1, <2>2, <4>1 DEF Put
    <3>2. now.rows \in [Routes -> Rows] /\ now.rows[j.r] = NoRow
      BY <2>1, <2>2
    <3> HIDE DEF j, n, x
    <3>3. \A f \in Files : \A c : FileOK(now, f, c) => FileOK(now', f, c)
      BY <2>1, <3>1, <3>2, InsertKeeps
    <3>4. \A q \in Routes : \A y : RowOK(now, q, y) => RowOK(now', q, y)
      BY <2>1, <3>1, <3>2, InsertKeeps
    <3>5. RowOK(now', j.r, NewRow(j.slug))
      BY <2>1, <3>1, <3>2, InsertKeeps
    <3>6. NewRow(j.slug).slug = j.slug
      BY DEF NewRow
    <3> QED BY <3>1, <3>3, <3>4, <3>5, <3>6
  <2>4. \A f \in Files : FileOK(now, f, files[f])'
    BY <1>1, <2>3 DEF LinkInv
  <2>5. ASSUME NEW q \in Routes PROVE RowOK(now, q, rows[q])'
    <3>1. CASE q # j.r
      BY <1>6, <2>1, <2>3, <3>1 DEF LinkInv
    <3>2. CASE q = j.r
      BY <2>2, <2>3, <3>2
    <3> QED BY <3>1, <3>2
  <2> HIDE DEF n, x
  <2>6. JobOK(now', files', n)
    <3>1. LinkOK(now', n)
      BY <1>1, <1>2, <1>3, <2>2, <2>3 DEF LinkOK
    <3> QED BY <1>3, <3>1 DEF JobOK
  <2>7. \A q \in Jobs : JobOK(now, files, job[q])'
    BY <1>1, <1>3, <1>6, <2>6, SetOK
  <2> QED BY <1>1, <2>4, <2>5, <2>7 DEF LinkInv
<1> QED BY <1>4, <1>5, <1>6 DEF InsertLink
LEMMA UpdateLinkEnvOK ==
  ASSUME LinkTypeOK, Alone, Alone', LinkInv, NEW p \in Jobs, UpdateLinkEnv(p)
  PROVE  LinkInv'
<1> DEFINE j == job[p]
           n == [j EXCEPT !.pc = "write", !.stored = NoRow]
           fresh == FreshOf(j.seen, j.r, Url(j.slug, j.port))
           m == Merged(j.stored, fresh)
           x == [slug |-> rows[j.r].slug, has |-> TRUE, rec |-> m]
<1>1. /\ j.pc = "update" /\ UNCHANGED <<files, port, ghosts>> /\ Set(p, n)
      /\ rows' = IF rows[j.r].slug = j.slug
                 THEN [rows EXCEPT ![j.r].has = TRUE, ![j.r].rec = m]
                 ELSE rows
  BY DEF UpdateLinkEnv, At, FreshOf
<1>2. LinkOK(now, j) /\ j \in Commands /\ j.r \in Routes /\ j.slug \in Slugs
      /\ rows \in [Routes -> Rows] /\ \A f \in Files : Content(j.seen[f])
  BY <1>1 DEF LinkInv, JobOK, LinkTypeOK, Command
<1>3. /\ n.pc = "write"
      /\ n.r = j.r /\ n.seen = j.seen /\ n.port = j.port /\ n.slug = j.slug
  BY <1>2 DEF Commands
<1>4. CASE rows[j.r].slug # j.slug
  <2> HIDE DEF n
  <2>1. LinkOK(now, n)
    BY <1>1, <1>2, <1>3, <1>4, NowKnown DEF LinkOK
  <2>2. JobOK(now, files, n)
    BY <1>3, <2>1 DEF JobOK
  <2> QED BY <1>1, <1>3, <1>4, <2>2, JobStepOK
<1>5. CASE rows[j.r].slug = j.slug
  <2> HIDE DEF n
  <2>1. rows' = [rows EXCEPT ![j.r] = x] /\ rows'[j.r] = x
    <3>1. rows' = [rows EXCEPT ![j.r].has = TRUE, ![j.r].rec = m]
      BY <1>1, <1>5
    <3> HIDE DEF j, m
    <3>2. rows' = [rows EXCEPT ![j.r] = x]
      BY <1>2, <3>1, RowRecorded
    <3> QED BY <1>2, <3>2
  <2>2. /\ now.rows = rows /\ now'.rows = rows' /\ Known(now)
        /\ now'.orphaned = now.orphaned /\ now'.mine = now.mine /\ now'.edited = now.edited
    BY <1>1, NowKnown DEF now, ghosts
  <2>3. j.port = 1 /\ j.stored = rows[j.r] /\ \A f \in Files : FileOK(now, f, j.seen[f])
    BY <1>1, <1>2, <1>5, <2>2 DEF LinkOK
  <2>4. RowOK(now, j.r, now.rows[j.r])
    BY <1>2, <2>2 DEF LinkInv
  <2>5. /\ x.has /\ x.slug = now.rows[j.r].slug
        /\ x.rec = Merged(now.rows[j.r], FreshOf(j.seen, j.r, Url(j.slug, 1)))
    BY <2>2, <2>3
  <2> HIDE DEF x, m, fresh
  <2>6. now.rows[j.r].slug = j.slug /\ now.rows \in [Routes -> Rows]
    BY <1>2, <1>5, <2>2
  <2>7. ASSUME NEW f \in Files
        PROVE  Remembers(now, j.r, j.slug, j.seen, x, f)
    <3> HIDE DEF j
    <3> QED BY <1>2, <2>2, <2>3, <2>4, <2>5, <2>6, MergedOK
  <2>8. Put(now, now', j.r, x)
    BY <2>1, <2>2 DEF Put
  <2>9. /\ \A f \in Files : \A c : FileOK(now, f, c) => FileOK(now', f, c)
        /\ \A q \in Routes : \A y : RowOK(now, q, y) => RowOK(now', q, y)
    <3>1. \A f \in Files : Covers(now, j.r, j.slug, x, f)
      BY <2>7 DEF Remembers, Covers
    <3>2. j.r \in Routes
      BY <1>2
    <3> HIDE DEF j
    <3> QED BY <2>5, <2>6, <2>8, <3>1, <3>2, RecordKeeps
  <2>10. \A f \in Files : FileOK(now, f, files[f])'
    BY <1>1, <2>9 DEF LinkInv
  <2>11. RowOK(now, j.r, x)
    BY <2>5, <2>7 DEF RowOK, Remembers
  <2>12. ASSUME NEW q \in Routes PROVE RowOK(now, q, rows[q])'
    <3>1. CASE q # j.r
      BY <1>2, <2>1, <2>9, <3>1 DEF LinkInv
    <3>2. CASE q = j.r
      BY <2>1, <2>9, <2>11, <3>2
    <3> QED BY <3>1, <3>2
  <2>13. LinkOK(now', n)
    <3>1. Recorded(now', n)
      <4>1. now'.rows[n.r] = x /\ x.slug = n.slug /\ x.has
        BY <1>3, <1>5, <2>1, <2>2, <2>5
      <4> HIDE DEF j
      <4> QED BY <1>3, <2>7, <4>1 DEF Recorded, Remembers
    <3>2. \A f \in Files : FileOK(now', f, n.seen[f])
      BY <1>3, <2>3, <2>9
    <3> QED BY <1>3, <2>3, <3>1, <3>2 DEF LinkOK
  <2>14. JobOK(now', files', n)
    BY <1>3, <2>13 DEF JobOK
  <2>15. \A q \in Jobs : JobOK(now, files, job[q])'
    BY <1>1, <1>3, <2>14, SetOK
  <2> QED BY <1>1, <2>10, <2>12, <2>15 DEF LinkInv
<1> QED BY <1>4, <1>5

LEMMA WriteFileOK ==
  ASSUME LinkTypeOK, Alone, Alone', Apart, LinkInv, NEW p \in Jobs, NEW f \in Files, WriteFile(p, f)
  PROVE  LinkInv'
<1> DEFINE j == job[p]
           n == [j EXCEPT !.todo = @ \ {f}]
           new == Planned(j.seen[f], j.r, Url(j.slug, j.port))
<1>1. j.pc = "write" /\ UNCHANGED <<rows, port, ghosts>>
  BY DEF WriteFile, At
<1>2. LinkOK(now, j) /\ j \in Commands /\ j.r \in Routes /\ j.slug \in Slugs
      /\ files \in [Files -> Contents] /\ Content(j.seen[f])
  BY <1>1 DEF LinkInv, JobOK, LinkTypeOK, Command
<1>3. CASE UNCHANGED files /\ End(p)
  BY <1>1, <1>3, EndOK DEF At
<1>4. /\ n.pc = "write"
      /\ n.r = j.r /\ n.seen = j.seen /\ n.port = j.port /\ n.slug = j.slug
  BY <1>1, <1>2 DEF Commands
<1> HIDE DEF n
<1>5. now' = now
  BY <1>1 DEF now, ghosts
<1>6. LinkOK(now, n)
  <2>1. j.port = 1 /\ (\A g \in Files : FileOK(now, g, j.seen[g]))
        /\ (Recorded(now, j) \/ j.slug \in now.orphaned)
    BY <1>1, <1>2 DEF LinkOK
  <2>2. Recorded(now, j) => Recorded(now, n)
    BY <1>4 DEF Recorded
  <2> QED BY <1>4, <2>1, <2>2 DEF LinkOK
<1>7. CASE Set(p, n) /\ (UNCHANGED files \/ files' = [files EXCEPT ![f] = new])
  <2>1. FileOK(now, f, new)
    <3>1. FileOK(now, f, j.seen[f]) /\ j.port = 1 /\ (Recorded(now, j) \/ j.slug \in now.orphaned)
      BY <1>1, <1>2 DEF LinkOK
    <3>2. Known(now)
      BY NowKnown
    <3>3. \/ j.slug \in now.orphaned
          \/ /\ now.rows[j.r].slug = j.slug /\ now.rows[j.r].has
             /\ Kept(now, j.r, f, VarOf[j.r])
             /\ now.rows[j.r].rec[f].vars[VarOf[j.r]].written = Url(j.slug, 1)
             /\ Extended(j.seen[f].vals[NoProxy]) # j.seen[f].vals[NoProxy] =>
                  Kept(now, j.r, f, NoProxy)
      BY <3>1 DEF Recorded, Kept
    <3>4. FileOK(now, f, Planned(j.seen[f], j.r, Url(j.slug, 1)))
      <4> HIDE DEF j
      <4> QED BY <1>2, <3>1, <3>2, <3>3, PlannedOK
    <3> QED BY <3>1, <3>4
  <2> HIDE DEF new
  <2>2. \A g \in Files : FileOK(now, g, files[g])'
    BY <1>2, <1>5, <1>7, <2>1 DEF LinkInv
  <2>3. JobOK(now', files', n)
    BY <1>4, <1>5, <1>6 DEF JobOK
  <2>4. \A q \in Jobs : JobOK(now, files, job[q])'
    BY <1>4, <1>7, <2>3, SetOK
  <2> QED BY <1>1, <1>5, <2>2, <2>4 DEF LinkInv
<1> QED BY <1>3, <1>7 DEF WriteFile, n
LEMMA UnlinkOK ==
  ASSUME LinkTypeOK, Alone, Alone', LinkInv, NEW p \in Jobs, NEW r \in Routes,
         NEW sealed \in BOOLEAN, Unlink(p, r, sealed)
  PROVE  LinkInv'
<1> DEFINE n == [Idle EXCEPT !.pc = IF rows[r].has THEN "restore" ELSE "remove", !.r = r,
                             !.stored = IF rows[r].has THEN rows[r] ELSE NoRow,
                             !.locked = sealed /\ rows[r].has,
                             !.todo = IF rows[r].has THEN Files ELSE {}]
<1>1. Set(p, n) /\ UNCHANGED <<files, rows, port, ghosts>>
  BY DEF Unlink
<1>2. /\ n.pc = (IF rows[r].has THEN "restore" ELSE "remove") /\ n.r = r
      /\ n.stored = (IF rows[r].has THEN rows[r] ELSE NoRow)
      /\ n.todo = (IF rows[r].has THEN Files ELSE {})
  <2> HIDE DEF NoRow
  <2> QED BY DEF Idle
<1> HIDE DEF n
<1>3. now.rows = rows /\ RowOK(now, r, rows[r])
  BY NowKnown DEF LinkInv
<1>4. CASE rows[r].has
  <2>1. RestoreOK(now, files, n)
    BY <1>2, <1>3, <1>4 DEF RestoreOK
  <2> QED BY <1>1, <1>2, <1>4, <2>1, JobStepOK DEF JobOK
<1>5. CASE ~rows[r].has
  <2>1. \A f \in Files : Cleared(now, f, r, files[f])
    BY <1>3, <1>5, UnrecordedClears DEF LinkInv
  <2> QED BY <1>1, <1>2, <1>5, <2>1, JobStepOK DEF JobOK
<1> QED BY <1>4, <1>5

LEMMA ReadFileOK ==
  ASSUME LinkTypeOK, Alone, Alone', LinkInv, NEW p \in Jobs, NEW f \in Files, ReadFile(p, f)
  PROVE  LinkInv'
<1> DEFINE j == job[p]
           x == j.stored
           outcomes == {Outcome(files[f].vals[k], x.rec[f].vars[k], j.locked) : k \in Names}
           u == j.unsettled \/ \E o \in outcomes : ~Settled(o)
           pc == IF "restored" \in outcomes THEN "writeBack" ELSE "restore"
           n1 == [j EXCEPT !.todo = @ \ {f}]
           n2 == [j EXCEPT !.todo = @ \ {f}, !.unsettled = TRUE]
           n3 == [j EXCEPT !.todo = @ \ {f}, !.f = f, !.at = files[f], !.unsettled = u, !.pc = pc]
<1>1. j.pc = "restore" /\ f \in j.todo /\ UNCHANGED <<files, rows, port, ghosts>>
  BY DEF ReadFile, At
<1>2. \/ ~files[f].there /\ Set(p, n1)
      \/ files[f].there /\ Set(p, n2)
      \/ files[f].there /\ Set(p, n3)
  BY DEF ReadFile
<1>3. /\ RestoreOK(now, files, j) /\ j \in Commands /\ j.r \in Routes /\ Row(x)
      /\ FileOK(now, f, files[f]) /\ Content(files[f])
  BY <1>1 DEF LinkInv, JobOK, LinkTypeOK, Command
<1>4. Known(now) /\ now.rows = rows
  BY NowKnown
<1>5. /\ now.rows[j.r] \in {x, NoRow} /\ RowOK(now, j.r, x) /\ x.has
      /\ \A g \in Files \ j.todo : j.unsettled \/ Cleared(now, g, j.r, files[g])
  BY <1>1, <1>3 DEF RestoreOK
<1>6. CASE ~files[f].there /\ Set(p, n1)
  <2>1. n1.pc = "restore" /\ n1.r = j.r /\ n1.stored = x /\ n1.todo = j.todo \ {f}
        /\ n1.unsettled = j.unsettled
    BY <1>1, <1>3 DEF Commands
  <2> HIDE DEF n1, x
  <2>2. Cleared(now, f, j.r, files[f])
    BY <1>3, <1>4, <1>6, MissingClears
  <2>3. RestoreOK(now, files, n1)
    BY <1>5, <2>1, <2>2 DEF RestoreOK
  <2> QED BY <1>1, <1>6, <2>1, <2>3, JobStepOK DEF JobOK
<1>7. CASE Set(p, n2)
  <2>1. n2.pc = "restore" /\ n2.r = j.r /\ n2.stored = x /\ n2.unsettled
    BY <1>1, <1>3 DEF Commands
  <2> HIDE DEF n2, x
  <2>2. RestoreOK(now, files, n2)
    BY <1>5, <2>1 DEF RestoreOK
  <2> QED BY <1>1, <1>7, <2>1, <2>2, JobStepOK DEF JobOK
<1>8. CASE files[f].there /\ Set(p, n3)
  <2> DEFINE d == Restored(files[f], x.rec[f], j.locked)
  <2>1. From(d, files[f], x, f, j.locked)
    <3> HIDE DEF j
    <3> QED BY <1>3, RestoredTyped
  <2>2. /\ n3.r = j.r /\ n3.stored = x /\ n3.todo = j.todo \ {f} /\ n3.f = f
        /\ n3.at = files[f] /\ n3.locked = j.locked
        /\ n3.unsettled = u /\ n3.pc = pc
    <3> HIDE DEF u, pc
    <3> QED BY <1>3 DEF Commands
  <2>3. u \/ \A k \in Names : Settled(Outcome(files[f].vals[k], x.rec[f].vars[k], j.locked))
    OBVIOUS
  <2>4. u \/ Cleared(now, f, j.r, d)
    <3> HIDE DEF u, d, j, x
    <3> QED BY <1>3, <1>4, <1>5, <2>1, <2>3, SettledClears
  <2>5. j.unsettled => u
    OBVIOUS
  <2>6. CASE "restored" \in outcomes
    <3>1. pc = "writeBack"
      BY <2>6
    <3> HIDE DEF n3, d, u, pc, outcomes
    <3>2. FileOK(now, n3.f, n3.at) /\ n3.at.there /\ n3.f \notin n3.todo
      BY <1>3, <1>8, <2>2
    <3>3. n3.unsettled \/ Cleared(now, n3.f, n3.r, Restored(n3.at, n3.stored.rec[n3.f], n3.locked))
      BY <2>2, <2>4 DEF d
    <3>4. RestoreOK(now, files, n3)
      BY <1>5, <2>2, <2>5, <3>1, <3>2, <3>3 DEF RestoreOK
    <3> QED BY <1>1, <1>8, <2>2, <3>1, <3>4, JobStepOK DEF JobOK
  <2>7. CASE "restored" \notin outcomes
    <3>1. pc = "restore"
      BY <2>7
    <3>2. From(files[f], files[f], x, f, j.locked)
      BY <2>7 DEF From
    <3>3. u \/ Cleared(now, f, j.r, files[f])
      <4> HIDE DEF u, j, x
      <4> QED BY <1>3, <1>4, <1>5, <2>3, <3>2, SettledClears
    <3> HIDE DEF n3, d, u, pc, outcomes
    <3>4. RestoreOK(now, files, n3)
      BY <1>5, <2>2, <2>5, <3>1, <3>3 DEF RestoreOK
    <3> QED BY <1>1, <1>8, <2>2, <3>1, <3>4, JobStepOK DEF JobOK
  <2> QED BY <2>6, <2>7
<1> QED BY <1>2, <1>6, <1>7, <1>8

LEMMA WriteBackOK ==
  ASSUME LinkTypeOK, Alone, Alone', Apart, LinkInv, NEW p \in Jobs, WriteBack(p)
  PROVE  LinkInv'
<1> DEFINE j == job[p]
           was == j.stored.rec[j.f]
           new == Restored(j.at, was, j.locked)
           c == IF ~was.existed /\ new.vals = NoFile.vals THEN NoFile ELSE new
           n1 == [j EXCEPT !.pc = "restore", !.f = Idle.f, !.at = NoFile]
           n2 == [n1 EXCEPT !.unsettled = TRUE]
<1>1. j.pc = "writeBack" /\ UNCHANGED <<rows, port, ghosts>>
  BY DEF WriteBack, At
<1>2. (files' = [files EXCEPT ![j.f] = c] /\ Set(p, n1)) \/ (UNCHANGED files /\ Set(p, n2))
  BY DEF WriteBack
<1>3. /\ RestoreOK(now, files, j) /\ j \in Commands /\ j.r \in Routes /\ j.f \in Files
      /\ Row(j.stored) /\ Content(j.at) /\ files \in [Files -> Contents]
  BY <1>1 DEF LinkInv, JobOK, LinkTypeOK, Command
<1>4. now' = now
  BY <1>1 DEF now, ghosts
<1>5. /\ now.rows[j.r] \in {j.stored, NoRow} /\ RowOK(now, j.r, j.stored) /\ j.stored.has
      /\ \A g \in Files \ j.todo : g = j.f \/ j.unsettled \/ Cleared(now, g, j.r, files[g])
      /\ j.f \notin j.todo /\ j.at.there /\ FileOK(now, j.f, j.at)
      /\ j.unsettled \/ Cleared(now, j.f, j.r, new)
  BY <1>1, <1>3 DEF RestoreOK
<1>6. n1 \in Commands /\ n1.pc = "restore" /\ n1.r = j.r /\ n1.stored = j.stored
      /\ n1.todo = j.todo /\ n1.unsettled = j.unsettled
  <2>1. Idle.f \in Files \cup {NoValue} /\ NoFile \in Contents
    BY EmptyTyped DEF Idle, Content
  <2> HIDE DEF Idle, NoFile
  <2> QED BY <1>3, <2>1 DEF Commands, Pcs
<1>7. CASE files' = [files EXCEPT ![j.f] = c] /\ Set(p, n1)
  <2>1. FileOK(now, j.f, new) /\ new.there
    <3>1. new.there = j.at.there /\ From(new, j.at, j.stored, j.f, j.locked)
      <4> HIDE DEF j
      <4> QED BY <1>3, RestoredTyped
    <3> HIDE DEF j, new
    <3> QED BY <1>3, <1>5, <3>1, RestoredOK
  <2>2. c.vals = new.vals /\ (~c.there => c.vals = NoFile.vals)
    <3> HIDE DEF NoFile, new
    <3> QED BY <2>1
  <2> HIDE DEF c, new, n1
  <2>3. FileOK(now, j.f, c) /\ (j.unsettled \/ Cleared(now, j.f, j.r, c))
    <3> HIDE DEF j
    <3> QED BY <1>3, <1>5, <2>1, <2>2, OnlyValuesMatter
  <2>4. files'[j.f] = c /\ \A g \in Files \ {j.f} : files'[g] = files[g]
    BY <1>3, <1>7
  <2>5. \A g \in Files : FileOK(now, g, files[g])'
    BY <1>4, <2>3, <2>4 DEF LinkInv
  <2>6. RestoreOK(now', files', n1)
    BY <1>4, <1>5, <1>6, <2>3, <2>4 DEF RestoreOK
  <2>7. \A q \in Jobs : JobOK(now, files, job[q])'
    BY <1>1, <1>6, <1>7, <2>6, SetOK DEF JobOK, At
  <2> QED BY <1>1, <1>4, <2>5, <2>7 DEF LinkInv
<1>8. CASE UNCHANGED files /\ Set(p, n2)
  <2> HIDE DEF n1
  <2>1. n2.pc = "restore" /\ n2.r = j.r /\ n2.stored = j.stored /\ n2.unsettled
    BY <1>6 DEF Commands
  <2> HIDE DEF n2
  <2>2. RestoreOK(now, files, n2)
    BY <1>5, <2>1 DEF RestoreOK
  <2> QED BY <1>1, <1>8, <2>1, <2>2, JobStepOK DEF JobOK
<1> QED BY <1>2, <1>7, <1>8

LEMMA FilesDoneOK ==
  ASSUME LinkTypeOK, Alone, Alone', LinkInv, NEW p \in Jobs, FilesDone(p)
  PROVE  LinkInv'
<1> DEFINE j == job[p]
           n == [Idle EXCEPT !.pc = "remove", !.r = j.r]
<1>1. /\ j.pc = "restore" /\ j.todo = {} /\ UNCHANGED <<files, rows, port, ghosts>>
      /\ IF j.unsettled THEN End(p) ELSE Set(p, n)
  BY DEF FilesDone, At
<1>2. CASE j.unsettled
  BY <1>1, <1>2, EndOK DEF At
<1>3. CASE ~j.unsettled
  <2>1. n.pc = "remove" /\ n.r = j.r
    BY DEF Idle
  <2>2. RestoreOK(now, files, j)
    BY <1>1 DEF LinkInv, JobOK
  <2> HIDE DEF n
  <2>3. \A f \in Files : Cleared(now, f, n.r, files[f])
    BY <1>1, <1>3, <2>1, <2>2 DEF RestoreOK
  <2> QED BY <1>1, <1>3, <2>1, <2>3, JobStepOK DEF JobOK
<1> QED BY <1>2, <1>3

LEMMA RemoveLinkOK ==
  ASSUME LinkTypeOK, Alone, Alone', LinkInv, NEW p \in Jobs, RemoveLink(p)
  PROVE  LinkInv'
<1> DEFINE r == job[p].r
<1>1. /\ job[p].pc = "remove" /\ rows' = [rows EXCEPT ![r] = NoRow] /\ Set(p, Idle)
      /\ UNCHANGED <<files, port, ghosts>>
  BY DEF RemoveLink, At, End
<1>2. /\ r \in Routes /\ rows \in [Routes -> Rows]
      /\ \A f \in Files : Cleared(now, f, r, files[f])
  BY <1>1 DEF LinkInv, JobOK, LinkTypeOK, Command
<1>3. Put(now, now', r, NoRow) /\ now.rows = rows /\ now'.rows = rows'
  BY <1>1 DEF Put, now, ghosts
<1> HIDE DEF r
<1>4. /\ \A f \in Files : \A c : FileOK(now, f, c) /\ Cleared(now, f, r, c) => FileOK(now', f, c)
      /\ \A q \in Routes : \A x : RowOK(now, q, x) => RowOK(now', q, x)
  BY <1>2, <1>3, RemovalKeeps
<1>5. \A f \in Files : FileOK(now, f, files[f])'
  BY <1>1, <1>2, <1>4 DEF LinkInv
<1>6. ASSUME NEW q \in Routes PROVE RowOK(now, q, rows[q])'
  <2>1. CASE q = r
    BY <1>1, <1>2, <2>1, NoRowOK
  <2>2. CASE q # r
    BY <1>1, <1>2, <1>4, <2>2 DEF LinkInv
  <2> QED BY <2>1, <2>2
<1>7. JobOK(now', files', Idle)
  BY DEF JobOK, Idle
<1> HIDE DEF Idle
<1>8. \A q \in Jobs : JobOK(now, files, job[q])'
  BY <1>1, <1>7, SetOK DEF At
<1> QED BY <1>1, <1>5, <1>6, <1>8 DEF LinkInv

(***************************************************************************)
(* Steps of nobody's command.                                              *)
(***************************************************************************)
\* What a job holds stays right when what it knows about stays right.
LEMMA JobsKept ==
  ASSUME NEW w, NEW z, NEW fs, NEW gs, NEW j, j.r \in Routes, JobOK(w, fs, j),
         \A f \in Files : \A c : FileOK(w, f, c) => FileOK(z, f, c),
         \A x : RowOK(w, j.r, x) => RowOK(z, j.r, x),
         \A f \in Files : /\ \A c : Cleared(w, f, j.r, c) => Cleared(z, f, j.r, c)
                          /\ Cleared(w, f, j.r, fs[f]) => Cleared(z, f, j.r, gs[f]),
         w.orphaned \subseteq z.orphaned,
         \/ z.rows[j.r] = w.rows[j.r]
         \/ z.rows[j.r] = NoRow /\ ({w.rows[j.r].slug} \ {0}) \subseteq z.orphaned,
         j.pc \in {"preview", "insert", "readPrior", "update", "write"} => j.slug \in Slugs,
         j.pc = "writeBack" => j.f \in Files
  PROVE  JobOK(z, gs, j)
<1>1. ASSUME j.pc \in {"preview", "insert", "readPrior", "update", "write"}
      PROVE  LinkOK(z, j)
  <2>1. LinkOK(w, j) /\ j.slug # 0
    BY <1>1 DEF JobOK, Slugs
  <2>2. CASE z.rows[j.r] = w.rows[j.r]
    <3>1. Recorded(w, j) => Recorded(z, j)
      BY <2>2 DEF Recorded
    <3>2. \A f \in Files : FileOK(z, f, j.seen[f])
      BY <2>1 DEF LinkOK
    <3> QED BY <2>1, <2>2, <3>1, <3>2 DEF LinkOK
  <2>3. CASE z.rows[j.r] = NoRow /\ ({w.rows[j.r].slug} \ {0}) \subseteq z.orphaned
    <3>1. w.rows[j.r].slug = j.slug => j.slug \in z.orphaned
      BY <2>1, <2>3
    <3>2. z.rows[j.r].slug # j.slug
      BY <2>1, <2>3, NothingKept
    <3>3. j.pc = "write" => j.slug \in z.orphaned
      BY <2>1, <3>1 DEF LinkOK, Recorded
    <3>4. (j.pc = "insert" /\ j.existing) \/ j.pc \in {"readPrior", "update"} => j.slug \in z.orphaned
      BY <2>1, <3>1 DEF LinkOK
    <3> QED BY <2>1, <2>3, <3>2, <3>3, <3>4 DEF LinkOK
  <2> QED BY <1>1, <2>2, <2>3
<1>2. ASSUME j.pc \in {"restore", "writeBack"}
      PROVE  RestoreOK(z, gs, j)
  <2>1. RestoreOK(w, fs, j)
    BY <1>2 DEF JobOK
  <2>2. z.rows[j.r] \in {j.stored, NoRow} /\ RowOK(z, j.r, j.stored) /\ j.stored.has
    BY <2>1 DEF RestoreOK
  <2>3. \A f \in Files \ j.todo :
          (j.pc = "writeBack" /\ f = j.f) \/ j.unsettled \/ Cleared(z, f, j.r, gs[f])
    BY <2>1 DEF RestoreOK
  <2>4. j.pc = "writeBack" =>
          /\ j.f \notin j.todo /\ j.at.there /\ FileOK(z, j.f, j.at)
          /\ j.unsettled \/ Cleared(z, j.f, j.r, Restored(j.at, j.stored.rec[j.f], j.locked))
    BY <2>1 DEF RestoreOK
  <2> QED BY <2>2, <2>3, <2>4 DEF RestoreOK
<1>3. j.pc = "remove" => \A f \in Files : Cleared(z, f, j.r, gs[f])
  BY DEF JobOK
<1> QED BY <1>1, <1>2, <1>3 DEF JobOK

LEMMA RemoveRouteOK ==
  ASSUME LinkTypeOK, LinkInv, NEW r \in Routes, RemoveRoute(r)
  PROVE  LinkInv'
<1>1. /\ UNCHANGED <<files, port, job, mine, edited>> /\ rows' = [rows EXCEPT ![r] = NoRow]
      /\ orphaned' = orphaned \cup ({rows[r].slug} \ {0}) /\ rows \in [Routes -> Rows]
  BY DEF RemoveRoute, LinkTypeOK
<1>2. Known(now) /\ now.rows = rows /\ Cascaded(now, now', r) /\ now'.rows = rows' /\ now'.orphaned = orphaned'
  BY <1>1, NowKnown DEF Cascaded, now
<1>3. /\ \A f \in Files : \A c : FileOK(now, f, c) => FileOK(now', f, c)
      /\ \A f \in Files, q \in Routes : \A c : Cleared(now, f, q, c) => Cleared(now', f, q, c)
      /\ \A q \in Routes : \A x : RowOK(now, q, x) => RowOK(now', q, x)
  BY <1>1, <1>2, CascadeKeeps
<1>4. \A f \in Files : FileOK(now, f, files[f])'
  BY <1>1, <1>3 DEF LinkInv
<1>5. ASSUME NEW q \in Routes PROVE RowOK(now, q, rows[q])'
  <2>1. CASE q = r
    BY <1>1, <2>1, NoRowOK
  <2>2. CASE q # r
    BY <1>1, <1>3, <2>2 DEF LinkInv
  <2> QED BY <2>1, <2>2
<1>6. ASSUME NEW p \in Jobs PROVE JobOK(now, files, job[p])'
  <2> DEFINE j == job[p]
  <2>1. JobOK(now, files, j) /\ Command(j) /\ (j.pc = "idle" \/ j.r \in Routes)
    BY DEF LinkInv, LinkTypeOK, Command
  <2>2. JobOK(now', files, j)
    <3>1. CASE j.pc = "idle"
      BY <3>1 DEF JobOK
    <3>2. CASE j.r \in Routes
      <4>1. \/ now'.rows[j.r] = now.rows[j.r]
            \/ now'.rows[j.r] = NoRow /\ ({now.rows[j.r].slug} \ {0}) \subseteq now'.orphaned
        BY <1>1, <1>2, <3>2
      <4>2. now.orphaned \subseteq now'.orphaned
        BY <1>2 DEF Cascaded
      <4>3. /\ j.pc \in {"preview", "insert", "readPrior", "update", "write"} => j.slug \in Slugs
            /\ j.pc = "writeBack" => j.f \in Files
        BY <2>1 DEF Command
      <4> HIDE DEF j
      <4> QED BY <1>3, <2>1, <3>2, <4>1, <4>2, <4>3, JobsKept
    <3> QED BY <2>1, <3>1, <3>2
  <2> QED BY <1>1, <2>2
<1> QED BY <1>1, <1>4, <1>5, <1>6 DEF LinkInv
\* Whatever a user puts into a file of a linked project is remembered as an edit; of a
\* project without a link, it is what the file says from then on.
LEMMA UserPutsOK ==
  ASSUME LinkTypeOK, LinkInv, NEW f \in Files, NEW c, Content(c), UserPuts(f, c),
         ~c.there => c.vals = NoFile.vals,
         \A k \in Names : c.vals[k] # files[f].vals[k] => c.vals[k] \in OwnValues(k)
  PROVE  LinkInv'
<1> DEFINE changed == {k \in Names : c.vals[k] # files[f].vals[k]}
<1>1. /\ files' = [files EXCEPT ![f] = c] /\ UNCHANGED <<rows, port, job, orphaned>>
      /\ mine' = [mine EXCEPT ![f] = [k \in Names |-> IF k \in changed THEN c.vals[k] ELSE @[k]]]
      /\ edited' = IF Untouched /\ \A p \in Jobs : At(p, "idle") THEN edited
                   ELSE edited \cup ({f} \X changed)
  BY DEF UserPuts
<1>2. /\ files \in [Files -> Contents] /\ mine \in [Files -> [Names -> Values]]
      /\ \A p \in Jobs : Command(job[p])
  BY DEF LinkTypeOK
<1>3. /\ files'[f] = c /\ \A g \in Files \ {f} : files'[g] = files[g] /\ mine'[g] = mine[g]
      /\ \A k \in Names : mine'[f][k] = IF k \in changed THEN c.vals[k] ELSE mine[f][k]
  BY <1>1, <1>2
<1>4. /\ now.rows = rows /\ now.orphaned = orphaned /\ now.mine = mine /\ now.edited = edited
      /\ now'.rows = rows /\ now'.orphaned = orphaned /\ now'.mine = mine' /\ now'.edited = edited'
  BY <1>1 DEF now
<1>5. NoProxy \in Names /\ \A q \in Routes : VarOf[q] \in Names /\ VarOf[q] # NoProxy
  BY NamesOfLinks DEF Names
<1>6. \A q \in Routes : VarOf[q] \in changed => c.vals[VarOf[q]] \notin Urls
  BY <1>5, OwnIsNoUrl
<1>7. \A k \in Names \ changed : c.vals[k] = files[f].vals[k]
  OBVIOUS
<1>8. \A q \in Routes, g \in Files : \A k, x :
        (Accounted(now, g, q, x) => Accounted(now', g, q, x)) /\ (Kept(now, q, g, k) <=> Kept(now', q, g, k))
  BY <1>4 DEF Accounted, Kept
<1> HIDE DEF changed
<1>9. \A g \in Files : FileOK(now, g, files[g])
  BY DEF LinkInv
<1>10. CASE Untouched /\ \A p \in Jobs : At(p, "idle")
  <2>1. edited' = edited
    BY <1>1, <1>10
  <2>2. ASSUME NEW g \in Files, g # f PROVE FileOK(now', g, files'[g])
    <3>1. FileOK(now, g, files[g]) /\ files'[g] = files[g] /\ mine'[g] = mine[g]
      BY <1>3, <1>9, <2>2
    <3>2. \A k : Undisturbed(now', g, k) <=> Undisturbed(now, g, k)
      BY <1>4, <2>1 DEF Undisturbed
    <3> QED BY <1>4, <1>8, <3>1, <3>2 DEF FileOK
  <2>3. FileOK(now', f, c)
    <3>1. FileOK(now, f, files[f])
      BY <1>9
    <3>2. \A k : Undisturbed(now', f, k) <=> Undisturbed(now, f, k)
      BY <1>4, <2>1 DEF Undisturbed
    <3>3. ASSUME NEW q \in Routes
          PROVE  /\ Accounted(now', f, q, c.vals[VarOf[q]])
                 /\ Undisturbed(now', f, VarOf[q]) /\ c.vals[VarOf[q]] \notin Urls =>
                      c.vals[VarOf[q]] = mine'[f][VarOf[q]]
      <4>1. CASE VarOf[q] \in changed
        BY <1>3, <1>5, <1>6, <4>1 DEF Accounted
      <4>2. CASE VarOf[q] \notin changed
        BY <1>3, <1>4, <1>5, <1>7, <1>8, <3>1, <3>2, <4>2 DEF FileOK
      <4> QED BY <4>1, <4>2
    <3>4. ASSUME Undisturbed(now', f, NoProxy)
          PROVE  \/ c.vals[NoProxy] = mine'[f][NoProxy]
                 \/ /\ c.vals[NoProxy] = Extended(mine'[f][NoProxy])
                    /\ \E q \in Routes : Kept(now', q, f, NoProxy)
      <4>1. CASE NoProxy \in changed
        BY <1>3, <1>5, <4>1
      <4>2. CASE NoProxy \notin changed
        <5>1. c.vals[NoProxy] = files[f].vals[NoProxy] /\ mine'[f][NoProxy] = now.mine[f][NoProxy]
          BY <1>3, <1>4, <1>5, <1>7, <4>2
        <5> QED BY <1>8, <3>1, <3>2, <3>4, <5>1 DEF FileOK
      <4> QED BY <4>1, <4>2
    <3> QED BY <1>4, <3>3, <3>4 DEF FileOK
  <2>4. \A g \in Files : FileOK(now, g, files[g])'
    BY <1>3, <2>2, <2>3
  <2>5. \A q \in Routes : RowOK(now, q, rows[q])'
    BY <1>1, <1>10, NoRowOK DEF Untouched, Linked
  <2>6. \A p \in Jobs : JobOK(now, files, job[p])'
    BY <1>1, <1>10 DEF At, JobOK
  <2> QED BY <1>1, <2>4, <2>5, <2>6 DEF LinkInv
<1>11. CASE ~(Untouched /\ \A p \in Jobs : At(p, "idle"))
  <2>1. edited' = edited \cup ({f} \X changed)
    BY <1>1, <1>11
  <2>2. Later(now, now')
    <3>1. ASSUME NEW g \in Files, NEW k \in Names, <<g, k>> \notin edited'
          PROVE  mine'[g][k] = mine[g][k]
      <4>1. g = f => k \notin changed
        BY <2>1, <3>1
      <4> QED BY <1>3, <4>1
    <3> QED BY <1>4, <2>1, <3>1 DEF Later
  <2>3. /\ \A g \in Files : \A d : FileOK(now, g, d) => FileOK(now', g, d)
        /\ \A g \in Files, r \in Routes : \A d : Cleared(now, g, r, d) => Cleared(now', g, r, d)
        /\ \A r \in Routes : \A x : RowOK(now, r, x) => RowOK(now', r, x)
    BY <2>2, EditsKeep
  <2>4. \A k \in changed : ~Undisturbed(now', f, k)
    BY <1>4, <2>1 DEF Undisturbed
  <2>5. FileOK(now', f, c)
    <3>1. FileOK(now', f, files[f])
      BY <1>9, <2>3
    <3>2. ASSUME NEW q \in Routes
          PROVE  /\ Accounted(now', f, q, c.vals[VarOf[q]])
                 /\ Undisturbed(now', f, VarOf[q]) /\ c.vals[VarOf[q]] \notin Urls =>
                      c.vals[VarOf[q]] = now'.mine[f][VarOf[q]]
      <4>1. CASE VarOf[q] \in changed
        BY <1>6, <2>4, <4>1 DEF Accounted
      <4>2. CASE VarOf[q] \notin changed
        BY <1>5, <1>7, <3>1, <4>2 DEF FileOK
      <4> QED BY <4>1, <4>2
    <3>3. ASSUME Undisturbed(now', f, NoProxy)
          PROVE  \/ c.vals[NoProxy] = now'.mine[f][NoProxy]
                 \/ /\ c.vals[NoProxy] = Extended(now'.mine[f][NoProxy])
                    /\ \E q \in Routes : Kept(now', q, f, NoProxy)
      <4>1. c.vals[NoProxy] = files[f].vals[NoProxy]
        BY <1>5, <1>7, <2>4, <3>3
      <4> QED BY <3>1, <3>3, <4>1 DEF FileOK
    <3> QED BY <3>2, <3>3 DEF FileOK
  <2>6. ASSUME NEW r \in Routes, Cleared(now', f, r, files[f]) PROVE Cleared(now', f, r, c)
    <3>1. c.vals[VarOf[r]] \in Urls => c.vals[VarOf[r]] = files[f].vals[VarOf[r]]
      BY <1>5, <1>6, <1>7
    <3>2. Undisturbed(now', f, NoProxy) => c.vals[NoProxy] = files[f].vals[NoProxy]
      BY <1>5, <1>7, <2>4
    <3> QED BY <2>6, <3>1, <3>2 DEF Cleared
  <2>7. \A g \in Files : FileOK(now, g, files[g])'
    BY <1>3, <1>9, <2>3, <2>5
  <2>8. \A q \in Routes : RowOK(now, q, rows[q])'
    BY <1>1, <2>3 DEF LinkInv
  <2>9. ASSUME NEW p \in Jobs PROVE JobOK(now, files, job[p])'
    <3> DEFINE j == job[p]
    <3>1. JobOK(now, files, j) /\ Command(j) /\ (j.pc = "idle" \/ j.r \in Routes)
      BY DEF LinkInv, LinkTypeOK, Command
    <3>2. CASE j.pc = "idle"
      BY <1>1, <3>2 DEF JobOK
    <3>3. CASE j.r \in Routes
      <4>1. \A g \in Files : /\ \A d : Cleared(now, g, j.r, d) => Cleared(now', g, j.r, d)
                             /\ Cleared(now, g, j.r, files[g]) => Cleared(now', g, j.r, files'[g])
        BY <1>3, <2>3, <2>6, <3>3
      <4>2. now.orphaned \subseteq now'.orphaned /\ now'.rows[j.r] = now.rows[j.r]
        BY <1>4
      <4>3. /\ j.pc \in {"preview", "insert", "readPrior", "update", "write"} => j.slug \in Slugs
            /\ j.pc = "writeBack" => j.f \in Files
        BY <3>1 DEF Command
      <4>4. JobOK(now', files', j)
        <5> HIDE DEF j
        <5> QED BY <2>3, <3>1, <3>3, <4>1, <4>2, <4>3, JobsKept
      <4> QED BY <1>1, <4>4
    <3> QED BY <3>1, <3>2, <3>3
  <2> QED BY <1>1, <2>7, <2>8, <2>9 DEF LinkInv
<1> QED BY <1>10, <1>11

LEMMA UserStepOK ==
  ASSUME LinkTypeOK, LinkInv, NEW f \in Files, (\E k \in Names : UserEdits(f, k)) \/ UserDeletes(f)
  PROVE  LinkInv'
<1>0. Content(files[f])
  BY DEF LinkTypeOK
<1>1. ASSUME NEW k \in Names, UserEdits(f, k)
      PROVE  LinkInv'
  <2>1. PICK v \in OwnValues(k) : UserPuts(f, [there |-> TRUE, vals |-> [files[f].vals EXCEPT ![k] = v]])
    BY <1>1 DEF UserEdits
  <2> DEFINE c == [there |-> TRUE, vals |-> [files[f].vals EXCEPT ![k] = v]]
  <2>2. v \in ValuesOf(k) /\ v \in Values
    BY <2>1, ValuesOfTyped
  <2>3. Content(c)
    BY <1>0, <2>2 DEF Content, Contents
  <2>4. c.there /\ \A m \in Names : c.vals[m] # files[f].vals[m] => c.vals[m] \in OwnValues(m)
    BY <1>0, <2>1 DEF Content, Contents
  <2> HIDE DEF c
  <2> QED BY <2>1, <2>3, <2>4, UserPutsOK DEF c
<1>2. CASE UserDeletes(f)
  <2>1. \A m \in Names : NoFile.vals[m] \in OwnValues(m)
    BY DEF NoFile, OwnValues
  <2> QED BY <1>2, <2>1, EmptyTyped, UserPutsOK DEF UserDeletes
<1> QED BY <1>1, <1>2

LEMMA LinkInvInit == LinkInit => LinkInv
<1> SUFFICES ASSUME LinkInit PROVE LinkInv
  OBVIOUS
<1>1. LinkTypeOK
  BY LinkInitTyped
<1>2. /\ rows = [r \in Routes |-> NoRow] /\ port = 1 /\ job = [p \in Jobs |-> Idle]
      /\ mine = [f \in Files |-> files[f].vals]
      /\ files \in [Files -> {NoFile} \cup {[there |-> TRUE, vals |-> v] : v \in OwnContents}]
  BY DEF LinkInit
<1>3. ASSUME NEW f \in Files PROVE FileOK(now, f, files[f])
  <2>1. ~files[f].there => files[f].vals = NoFile.vals
    <3>1. files[f] = NoFile \/ \E v \in OwnContents : files[f] = [there |-> TRUE, vals |-> v]
      BY <1>2
    <3>2. ASSUME NEW v \in OwnContents, files[f] = [there |-> TRUE, vals |-> v]
          PROVE  files[f].there
      BY <3>2
    <3>3. CASE files[f] = NoFile
      BY <3>3
    <3> QED BY <3>1, <3>2, <3>3
  <2>2. now.mine[f] = files[f].vals
    BY <1>2 DEF now
  <2>3. \A k \in Names : files[f].vals[k] \in OwnValues(k)
    BY <1>1, <1>2 DEF LinkTypeOK
  <2>4. \A q \in Routes : files[f].vals[VarOf[q]] \notin Urls
    BY <2>3, NamesOfLinks, OwnIsNoUrl
  <2> QED BY <2>1, <2>2, <2>4 DEF FileOK, Accounted
<1>4. \A r \in Routes : RowOK(now, r, rows[r])
  BY <1>2, NoRowOK
<1>5. \A p \in Jobs : JobOK(now, files, job[p])
  BY <1>2 DEF JobOK, Idle
<1> QED BY <1>2, <1>3, <1>4, <1>5 DEF LinkInv

LEMMA LinkInvStep ==
  Apart => (LinkTypeOK /\ LinkInv /\ Alone /\ Alone' /\ [LinkNext]_linkVars => LinkInv')
<1> SUFFICES ASSUME Apart, LinkTypeOK, LinkInv, Alone, Alone', [LinkNext]_linkVars
             PROVE  LinkInv'
  OBVIOUS
<1>1. ASSUME NEW p \in Jobs, Link(p)
      PROVE  LinkInv'
  <2>1. CASE LinkDone(p)
    BY <2>1, EndOK DEF LinkDone, At
  <2> QED BY <1>1, <2>1, PreviewOK, ReplanOK, InsertLinkOK, ReadPriorOK, UpdateLinkEnvOK,
             WriteFileOK DEF Link
<1>2. ASSUME NEW p \in Jobs, Restore(p)
      PROVE  LinkInv'
  BY <1>2, UnlinkOK, ReadFileOK, WriteBackOK, FilesDoneOK, RemoveLinkOK DEF Restore
<1>3. ASSUME NEW p \in Jobs, Die(p)
      PROVE  LinkInv'
  BY <1>3, EndOK DEF Die
<1>4. ASSUME NEW r \in Routes, RemoveRoute(r)
      PROVE  LinkInv'
  BY <1>4, RemoveRouteOK
<1>5. ASSUME UNCHANGED <<files, rows, port, job, ghosts>>
      PROVE  LinkInv'
  <2>1. now' = now /\ files' = files /\ rows' = rows /\ port' = port /\ job' = job
    BY <1>5 DEF now, ghosts
  <2> QED BY <2>1 DEF LinkInv
<1>6. ASSUME NEW r \in Routes, AddRoute(r)
      PROVE  LinkInv'
  BY <1>5, <1>6 DEF AddRoute
<1>7. ASSUME NEW f \in Files, (\E k \in Names : UserEdits(f, k)) \/ UserDeletes(f)
      PROVE  LinkInv'
  BY <1>7, UserStepOK
<1>8. CASE UNCHANGED linkVars
  BY <1>5, <1>8 DEF linkVars
<1> QED BY <1>1, <1>2, <1>3, <1>4, <1>6, <1>7, <1>8 DEF LinkNext

LEMMA InvLinesHaveLinks == LinkInv => LinesHaveLinks
<1> SUFFICES ASSUME LinkInv, NEW f \in Files, NEW v \in Vars, NEW s \in Slugs \ orphaned, Points(f, v, s)
             PROVE  \E r \in Routes : rows[r].slug = s
  BY DEF LinesHaveLinks
<1>1. PICK n \in 1..MaxPort : files[f].vals[v] = Url(s, n)
  BY DEF Points
<1>2. PICK r \in Routes : v = VarOf[r]
  BY DEF Vars
<1>3. Accounted(now, f, r, Url(s, n))
  BY <1>1, <1>2 DEF LinkInv, FileOK
<1>4. Url(s, n) \in Urls /\ Url(s, n).slug = s
  BY UrlTyped
<1> QED BY <1>3, <1>4 DEF Accounted, now

LEMMA InvUntouchedReturns == LinkInv => UntouchedReturns
<1> SUFFICES ASSUME LinkInv, Untouched, orphaned = {}, NEW f \in Files, NEW k \in Names,
                    <<f, k>> \notin edited
             PROVE  files[f].vals[k] = mine[f][k]
  BY DEF UntouchedReturns
<1>1. FileOK(now, f, files[f]) /\ Undisturbed(now, f, k) /\ now.mine = mine /\ now.rows = rows
  BY DEF LinkInv, Undisturbed, now
<1>2. \A r \in Routes : rows[r] = NoRow
  BY DEF Untouched, Linked
<1>3. CASE k = NoProxy
  <2>1. \A r \in Routes : ~Kept(now, r, f, NoProxy)
    BY <1>1, <1>2, <1>3, NothingKept DEF Kept
  <2> QED BY <1>1, <1>3, <2>1 DEF FileOK
<1>4. ASSUME NEW r \in Routes, k = VarOf[r]
      PROVE  files[f].vals[k] = mine[f][k]
  <2>1. files[f].vals[k] \notin Urls
    <3>1. Accounted(now, f, r, files[f].vals[k])
      BY <1>1, <1>4 DEF FileOK
    <3>2. ~now.rows[r].has /\ now.orphaned = {}
      BY <1>1, <1>2, NothingKept DEF Undisturbed
    <3> QED BY <3>1, <3>2 DEF Accounted
  <2> QED BY <1>1, <1>4, <2>1 DEF FileOK
<1> QED BY <1>3, <1>4 DEF Names, Vars

LEMMA LinkInvariance == ASSUME Apart PROVE LinkSpec /\ []Alone => []LinkInv
<1>1. LinkInit => LinkInv
  BY LinkInvInit
<1>2. LinkTypeOK /\ LinkInv /\ Alone /\ Alone' /\ [LinkNext]_linkVars => LinkInv'
  BY LinkInvStep
<1> QED BY <1>1, <1>2, LinkTypeCorrect, PTL DEF LinkSpec

\* As long as commands run one at a time and no two routes write one variable: a line that
\* points at the gateway has the row that takes it out again, through every crash, failed
\* write, stale read, edit and unlink without a key.
THEOREM LinesAccounted == ASSUME Apart PROVE LinkSpec /\ []Alone => []LinesHaveLinks
BY LinkInvariance, InvLinesHaveLinks, PTL

\* Under the same conditions, whatever the user did not touch under a link is back once the
\* last link is gone, NO_PROXY included.
THEOREM PriorReturns == ASSUME Apart PROVE LinkSpec /\ []Alone => []UntouchedReturns
BY LinkInvariance, InvUntouchedReturns, PTL

(***************************************************************************)
(* The resident matching key.                                              *)
(***************************************************************************)
USE KeyAssumption

\* The only messages are installs, clears among them, and records.
LEMMA MessageKinds ==
  /\ \A n \in Keys : [install |-> n] \in Messages /\ [install |-> n] \notin Records
  /\ \A e \in Exchanges : [rec |-> e] \in Records /\ [rec |-> e] \in Messages
  /\ \A m \in Messages : m \notin Records => m.install \in Keys
<1>1. ASSUME NEW n \in Keys PROVE [install |-> n] \notin Records
  <2>1. "install" \in DOMAIN [install |-> n]  OBVIOUS
  <2>2. \A m \in Records : DOMAIN m = {"rec"}  BY DEF Records
  <2>3. "install" # "rec"  OBVIOUS
  <2>4. QED  BY <2>1, <2>2, <2>3
<1>2. QED  BY <1>1 DEF Messages, Records

\* Appending a message of either kind keeps the channel a channel within its bound.
LEMMA Enqueued ==
  ASSUME TypeOK, NEW m \in Messages, Enqueue(m) \/ Unsendable
  PROVE  chan' \in Seq(Messages) /\ Len(chan') <= Capacity
<1>1. CASE Enqueue(m)
  <2>1. chan' = Append(chan, m) /\ Len(chan) < Capacity /\ chan \in Seq(Messages)
    BY <1>1 DEF Enqueue, TypeOK
  <2>2. chan' \in Seq(Messages) /\ Len(chan') = Len(chan) + 1 /\ Len(chan) \in Nat
    BY <2>1
  <2>3. QED  BY <2>1, <2>2
<1>2. CASE Unsendable  BY <1>2 DEF Unsendable, TypeOK
<1>3. QED  BY <1>1, <1>2

\* A clear is a message.
LEMMA ClearMessage == NoKey \in Keys /\ [install |-> NoKey] \in Messages
<1>1. NoKey \in Keys  BY DEF NoKey, Keys
<1>2. QED  BY <1>1, MessageKinds

\* The empty channel is a channel.
LEMMA EmptyChannel == <<>> \in Seq(Messages) /\ Len(<<>>) <= Capacity
OBVIOUS

\* Disarming leaves no window and no age.
LEMMA Disarmed ==
  ASSUME Disarm
  PROVE  window' = NoWindow /\ age' = 0
         /\ window' \in {NoWindow} \cup [mono : 0..Cap, wall : 0..Cap] /\ age' \in Nat
BY DEF Disarm

\* An exchange moved to another place is still an exchange.
LEMMA Moved ==
  ASSUME NEW S, NEW f \in [Exchanges -> [at : S, under : Keys]],
         NEW e \in Exchanges, NEW a \in S
  PROVE  [f EXCEPT ![e].at = a] \in [Exchanges -> [at : S, under : Keys]]
<1>1. f[e] \in [at : S, under : Keys]  OBVIOUS
<1>2. [f[e] EXCEPT !.at = a] \in [at : S, under : Keys]  BY <1>1
<1>3. QED  BY <1>2

\* What is granted is within the cap.
LEMMA Granted == ASSUME NEW ttl \in Ttls PROVE Effective(ttl) \in 0..Cap
BY DEF Effective, Smaller

-----------------------------------------------------------------------------
(* Type correctness.                                                       *)

\* The control thread keeps the types.
LEMMA ControlTypes ==
  ASSUME TypeOK,
         PushKey \/ RevokeKey \/ LockNoKey \/ LockWithKey \/ VaultUnlocked \/ Shutdown \/ CtlWorks
  PROVE  TypeOK'
<1> USE DEF TypeOK, service, threads, history, CtlAt, Accept
<1>1. CASE PushKey
  <2>1. pushes' \in Keys  BY <1>1 DEF PushKey, Keys
  <2>2. QED  BY <1>1, <2>1 DEF PushKey
<1>2. CASE RevokeKey \/ LockWithKey  BY <1>2 DEF RevokeKey, LockWithKey
<1>3. CASE LockNoKey  BY <1>3, Disarmed DEF LockNoKey
<1>13. CASE VaultUnlocked  BY <1>13, Disarmed DEF VaultUnlocked
<1>4. CASE Shutdown  BY <1>4 DEF Shutdown
<1>5. CASE PushMatcher
  <2>1. [install |-> pushes] \in Messages  BY MessageKinds
  <2>2. chan' \in Seq(Messages) /\ Len(chan') <= Capacity
    BY <1>5, <2>1, Enqueued DEF PushMatcher
  <2>3. QED  BY <1>5, <2>2 DEF PushMatcher
<1>6. CASE PushBusy  BY <1>6 DEF PushBusy, Unsendable
<1>7. CASE PushInstall  BY <1>7 DEF PushInstall
<1>14. CASE PushFinish  BY <1>14, Disarmed DEF PushFinish
<1>8. CASE DropKey  BY <1>8 DEF DropKey, NoKey, Keys
<1>9. CASE RevokeFinish
  <2>1. [install |-> NoKey] \in Messages  BY ClearMessage
  <2>2. chan' \in Seq(Messages) /\ Len(chan') <= Capacity
    BY <1>9, <2>1, Enqueued DEF RevokeFinish
  <2>3. QED  BY <1>9, <2>2, Disarmed DEF RevokeFinish
<1>10. CASE LockRevokes  BY <1>10 DEF LockRevokes
<1>11. ASSUME NEW ttl \in Ttls, LockRetains(ttl) PROVE TypeOK'
  <2>1. window' \in {NoWindow} \cup [mono : 0..Cap, wall : 0..Cap]
    BY <1>11, Granted DEF LockRetains, Arm
  <2>2. QED  BY <1>11, <2>1 DEF LockRetains
<1>12. QED
  BY <1>1, <1>2, <1>3, <1>4, <1>5, <1>6, <1>7, <1>8, <1>9, <1>10, <1>11, <1>13, <1>14 DEF CtlWorks

\* The poller keeps the types.
LEMMA PollerTypes == ASSUME TypeOK, Poller PROVE TypeOK'
<1> USE DEF TypeOK, service, threads, history, PollAt
<1>1. CASE PollWakes \/ PollWaits  BY <1>1 DEF PollWakes, PollWaits
<1>2. CASE PollExpires  BY <1>2, Disarmed DEF PollExpires
<1>3. CASE PollDrops  BY <1>3 DEF PollDrops, NoKey, Keys
<1>4. CASE PollClears
  <2>1. [install |-> NoKey] \in Messages  BY ClearMessage
  <2>2. chan' \in Seq(Messages) /\ Len(chan') <= Capacity
    BY <1>4, <2>1, Enqueued DEF PollClears
  <2>3. QED  BY <1>4, <2>2 DEF PollClears
<1>5. QED  BY <1>1, <1>2, <1>3, <1>4 DEF Poller

\* Connections and the writer keep the types.
LEMMA TrafficTypes ==
  ASSUME TypeOK, Apply \/ \E e \in Exchanges : Digest(e) \/ Record(e)
  PROVE  TypeOK'
<1> USE DEF TypeOK, service, threads, history
<1>1. ASSUME NEW e \in Exchanges, Digest(e) PROVE TypeOK'  BY <1>1 DEF Digest
<1>2. ASSUME NEW e \in Exchanges, Record(e) PROVE TypeOK'
  <2>1. [rec |-> e] \in Messages  BY MessageKinds
  <2>2. chan' \in Seq(Messages) /\ Len(chan') <= Capacity
    BY <1>2, <2>1, Enqueued DEF Record
  <2>3. ex' \in [Exchanges -> [at : {"new", "open", "sent", "done"}, under : Keys]]
    <3>1. ex' = [ex EXCEPT ![e].at = "sent"] \/ ex' = [ex EXCEPT ![e].at = "done"]
      BY <1>2 DEF Record
    <3>2. /\ [ex EXCEPT ![e].at = "sent"] \in [Exchanges -> [at : {"new", "open", "sent", "done"}, under : Keys]]
          /\ [ex EXCEPT ![e].at = "done"] \in [Exchanges -> [at : {"new", "open", "sent", "done"}, under : Keys]]
      BY Moved
    <3>3. QED  BY <3>1, <3>2
  <2>4. QED  BY <1>2, <2>2, <2>3 DEF Record
<1>3. CASE Apply
  <2>1. chan' \in Seq(Messages) /\ Len(chan') <= Capacity /\ Head(chan) \in Messages
    BY <1>3 DEF Apply
  <2>2. CASE Head(chan) \in Records
    <3>1. Head(chan).rec \in Exchanges  BY <2>2 DEF Records
    <3>2. NoKey \in Keys  BY DEF NoKey, Keys
    <3>3. PICK e \in Exchanges :
            /\ ex' = [ex EXCEPT ![e].at = "done"]
            /\ resolvedBy' = [resolvedBy EXCEPT ![e] = IF ex[e].under = NoKey THEN NoKey ELSE matcher]
      BY <1>3, <2>2, <3>1 DEF Apply
    <3>4. ex' \in [Exchanges -> [at : {"new", "open", "sent", "done"}, under : Keys]]
      <4>1. ex[e] \in [at : {"new", "open", "sent", "done"}, under : Keys]  OBVIOUS
      <4>2. QED  BY <3>3, <4>1, Moved
    <3>5. resolvedBy' \in [Exchanges -> Keys]  BY <3>2, <3>3
    <3>6. QED  BY <1>3, <2>1, <2>2, <3>4, <3>5 DEF Apply
  <2>3. CASE Head(chan) \notin Records
    <3>1. Head(chan).install \in Keys  BY <2>1, <2>3, MessageKinds
    <3>2. QED  BY <1>3, <2>1, <2>3, <3>1 DEF Apply
  <2>4. QED  BY <2>2, <2>3
<1>4. QED  BY <1>1, <1>2, <1>3

\* Stop and time keep the types.
LEMMA StopTypes ==
  ASSUME TypeOK, StopBegins \/ Stopper \/ Tick \/ \E w \in 0..Cap : WallMoves(w)
  PROVE  TypeOK'
<1> USE DEF TypeOK, service, threads, history, StopAt
<1>1. CASE StopBegins  BY <1>1 DEF StopBegins
<1>8. CASE StopClears
  <2>1. NoKey \in Keys  BY DEF NoKey, Keys
  <2>2. QED  BY <1>8, <2>1 DEF StopClears
<1>7. CASE StopDisarms  BY <1>7, Disarmed DEF StopDisarms
<1>2. CASE JoinListener \/ JoinPoller \/ StopControl
  BY <1>2 DEF JoinListener, JoinPoller, StopControl
<1>3. CASE StopWriter  BY <1>3, EmptyChannel DEF StopWriter
<1>4. CASE Tick
  <2>1. window \in [mono : 0..Cap, wall : 0..Cap]  BY <1>4 DEF Tick, Armed
  <2>2. window' \in [mono : 0..Cap, wall : 0..Cap]  BY <1>4, <2>1 DEF Tick, Less
  <2>3. QED  BY <1>4, <2>2 DEF Tick
<1>5. ASSUME NEW w \in 0..Cap, WallMoves(w) PROVE TypeOK'
  <2>1. window \in [mono : 0..Cap, wall : 0..Cap]  BY <1>5 DEF WallMoves, Armed
  <2>2. window' \in [mono : 0..Cap, wall : 0..Cap]  BY <1>5, <2>1 DEF WallMoves, history
  <2>3. QED  BY <1>5, <2>2 DEF WallMoves
<1>6. QED  BY <1>1, <1>2, <1>3, <1>4, <1>5, <1>7, <1>8 DEF Stopper

\* Every step keeps the types.
LEMMA TypeStep == TypeOK /\ [Next]_vars => TypeOK'
<1> SUFFICES ASSUME TypeOK, [Next]_vars PROVE TypeOK'
  OBVIOUS
<1>1. CASE UNCHANGED vars  BY <1>1 DEF TypeOK, vars, service, threads, history
<1>2. CASE Next  BY <1>2, ControlTypes, PollerTypes, TrafficTypes, StopTypes DEF Next
<1>3. QED  BY <1>1, <1>2

\* The gateway starts without a key, a window or anything in the channel.
LEMMA TypeInit == Init => TypeOK
<1> SUFFICES ASSUME Init PROVE TypeOK
  OBVIOUS
<1>1. NoKey \in Keys  BY ClearMessage
<1>2. pushes \in Keys  BY DEF Init, Keys
<1>3. ex \in [Exchanges -> [at : {"new", "open", "sent", "done"}, under : Keys]]
  BY <1>1 DEF Init
<1>4. resolvedBy \in [Exchanges -> Keys]  BY <1>1 DEF Init
<1>5. chan \in Seq(Messages) /\ Len(chan) <= Capacity  BY EmptyChannel DEF Init
<1>6. QED  BY <1>1, <1>2, <1>3, <1>4, <1>5 DEF Init, TypeOK

\* Every variable keeps its type.
THEOREM TypeCorrect == Spec => []TypeOK
BY TypeInit, TypeStep, PTL DEF Spec

-----------------------------------------------------------------------------
(* The window.                                                             *)

\* No window, no age: what the window's bound is counted from.
WindowInv == WithinCap /\ (~Armed => age = 0)

\* Every step keeps the window within the cap of its first arming.
LEMMA WindowStep == TypeOK /\ WindowInv /\ [Next]_vars => WindowInv'
<1> SUFFICES ASSUME TypeOK, WindowInv, [Next]_vars PROVE WindowInv'
  OBVIOUS
<1>1. ASSUME UNCHANGED <<window, age>> PROVE WindowInv'
  BY <1>1 DEF WindowInv, WithinCap, Armed
<1>2. ASSUME Disarm PROVE WindowInv'
  BY <1>2 DEF Disarm, WindowInv, WithinCap, Armed
<1>3. ASSUME NEW ttl \in Ttls, LockRetains(ttl) PROVE WindowInv'
  <2>1. Effective(ttl) \in 0..Cap /\ age \in Nat /\ age' = age  BY <1>3, Granted DEF LockRetains, TypeOK
  <2>2. CASE Armed /\ window.mono <= Effective(ttl)
    BY <1>3, <2>2, <2>1, <1>1 DEF LockRetains, Arm
  <2>3. CASE Armed /\ ~(window.mono <= Effective(ttl))
    <3>1. window' = [mono |-> Effective(ttl), wall |-> Effective(ttl)]
      BY <1>3, <2>3 DEF LockRetains, Arm
    <3>2. window.mono \in 0..Cap /\ age + window.mono <= Cap
      BY <2>3 DEF WindowInv, WithinCap, Armed, TypeOK
    <3>3. window'.mono = Effective(ttl) /\ Armed'
      BY <3>1, <2>1 DEF Armed, NoWindow
    <3>4. age' + window'.mono <= Cap  BY <2>1, <2>3, <3>2, <3>3
    <3>5. QED  BY <3>3, <3>4 DEF WindowInv, WithinCap
  <2>4. CASE ~Armed
    <3>1. window' = [mono |-> Effective(ttl), wall |-> Effective(ttl)] /\ age = 0
      BY <1>3, <2>4 DEF LockRetains, Arm, WindowInv
    <3>2. window'.mono = Effective(ttl) /\ Armed'
      BY <3>1, <2>1 DEF Armed, NoWindow
    <3>3. QED  BY <2>1, <3>1, <3>2 DEF WindowInv, WithinCap
  <2>5. QED  BY <2>2, <2>3, <2>4
<1>4. ASSUME Tick PROVE WindowInv'
  <2>1. window \in [mono : 0..Cap, wall : 0..Cap] /\ age \in Nat /\ age + window.mono <= Cap
    BY <1>4 DEF Tick, Armed, TypeOK, WindowInv, WithinCap
  <2>2. window'.mono = window.mono - 1 /\ age' = age + 1 /\ window.mono > 0
    BY <1>4 DEF Tick
  <2>3. Armed'  BY <2>1, <2>2 DEF Armed, NoWindow
  <2>4. age' + window'.mono <= Cap  BY <2>1, <2>2
  <2>5. QED  BY <2>3, <2>4 DEF WindowInv, WithinCap
<1>5. ASSUME NEW w \in 0..Cap, WallMoves(w) PROVE WindowInv'
  <2>1. window \in [mono : 0..Cap, wall : 0..Cap]  BY <1>5 DEF WallMoves, Armed, TypeOK
  <2>2. window'.mono = window.mono /\ age' = age  BY <1>5, <2>1 DEF WallMoves, history
  <2>3. Armed'  BY <2>1, <2>2 DEF Armed, NoWindow
  <2>4. QED  BY <1>5, <2>2, <2>3 DEF WallMoves, WindowInv, WithinCap
<1>6. CASE Next
  <2>1. CASE PushKey \/ RevokeKey \/ LockWithKey \/ Shutdown
    BY <2>1, <1>1 DEF PushKey, RevokeKey, LockWithKey, Shutdown, service, history
  <2>2. CASE LockNoKey \/ VaultUnlocked
    BY <2>2, <1>2 DEF LockNoKey, VaultUnlocked
  <2>3. CASE CtlWorks
    <3>1. CASE PushMatcher \/ PushBusy \/ PushInstall \/ DropKey \/ LockRevokes
      BY <3>1, <1>1 DEF PushMatcher, PushBusy, PushInstall, DropKey, LockRevokes, service, history
    <3>2. CASE PushFinish \/ RevokeFinish
      BY <3>2, <1>2 DEF PushFinish, RevokeFinish
    <3>3. QED  BY <2>3, <3>1, <3>2, <1>3 DEF CtlWorks
  <2>4. CASE Poller
    <3>1. CASE PollExpires  BY <3>1, <1>2 DEF PollExpires
    <3>2. CASE PollWakes \/ PollWaits \/ PollDrops \/ PollClears
      BY <3>2, <1>1 DEF PollWakes, PollWaits, PollDrops, PollClears, service, history
    <3>3. QED  BY <2>4, <3>1, <3>2 DEF Poller
  <2>5. CASE Apply \/ \E e \in Exchanges : Digest(e) \/ Record(e)
    BY <2>5, <1>1 DEF Apply, Digest, Record, service, history
  <2>6. CASE StopBegins \/ Stopper
    <3>1. CASE StopDisarms  BY <3>1, <1>2 DEF StopDisarms
    <3>2. CASE StopBegins \/ StopClears \/ JoinListener \/ JoinPoller \/ StopWriter \/ StopControl
      BY <3>2, <1>1
      DEF StopBegins, StopClears, JoinListener, JoinPoller, StopWriter, StopControl, service, history
    <3>3. QED  BY <2>6, <3>1, <3>2 DEF Stopper
  <2>7. QED  BY <1>6, <2>1, <2>2, <2>3, <2>4, <2>5, <2>6, <1>4, <1>5 DEF Next
<1>7. QED  BY <1>1, <1>6 DEF vars, service, history

\* However often the vault reports itself locked, for whatever durations, the
\* window ends within the cap after it was first armed (arm_no_later_than).
THEOREM WindowBounded == Spec => []WithinCap
<1>1. Init => WindowInv  BY DEF Init, WindowInv, WithinCap, Armed
<1>2. WindowInv => WithinCap  BY DEF WindowInv
<1>3. QED  BY <1>1, <1>2, TypeInit, TypeStep, WindowStep, PTL DEF Spec

-----------------------------------------------------------------------------
(* Revocation.                                                             *)

\* The key is out before the revocation is answered, and nobody but a push brings
\* one back.
RevokeInv == (ctl = "clear" => key = NoKey) /\ (revoked => key = NoKey)

\* Every step keeps a revocation final.
LEMMA RevokeStep == RevokeInv /\ [Next]_vars => RevokeInv'
<1> SUFFICES ASSUME RevokeInv, [Next]_vars PROVE RevokeInv'
  OBVIOUS
<1>1. ASSUME UNCHANGED revoked, UNCHANGED key \/ key' = NoKey,
             UNCHANGED ctl \/ ctl' # "clear"
      PROVE  RevokeInv'
  BY <1>1 DEF RevokeInv
<1>2. CASE Next
  <2>1. CASE PushKey \/ RevokeKey \/ LockNoKey \/ LockWithKey \/ VaultUnlocked \/ Shutdown
    BY <2>1, <1>1
    DEF PushKey, RevokeKey, LockNoKey, LockWithKey, VaultUnlocked, Shutdown, service, history
  <2>2. CASE CtlWorks
    <3>1. CASE PushMatcher \/ PushBusy \/ PushFinish \/ LockRevokes
      BY <3>1, <1>1 DEF PushMatcher, PushBusy, PushFinish, LockRevokes, service, history
    <3>2. ASSUME NEW ttl \in Ttls, LockRetains(ttl) PROVE RevokeInv'
      BY <3>2, <1>1 DEF LockRetains
    <3>3. CASE PushInstall  BY <3>3 DEF PushInstall, RevokeInv
    <3>4. CASE DropKey  BY <3>4 DEF DropKey, RevokeInv, history
    <3>5. CASE RevokeFinish  BY <3>5 DEF RevokeFinish, CtlAt, RevokeInv
    <3>6. QED  BY <2>2, <3>1, <3>2, <3>3, <3>4, <3>5 DEF CtlWorks
  <2>3. CASE Poller
    BY <2>3, <1>1
    DEF Poller, PollAt, PollWakes, PollExpires, PollWaits, PollDrops, PollClears, service, history
  <2>4. CASE Apply \/ \E e \in Exchanges : Digest(e) \/ Record(e)
    BY <2>4, <1>1 DEF Apply, Digest, Record, service, threads, history
  <2>5. CASE StopBegins \/ Stopper
    BY <2>5, <1>1
    DEF Stopper, StopAt, StopBegins, StopClears, StopDisarms, JoinListener, JoinPoller,
        StopWriter, StopControl, service, history
  <2>6. CASE Tick \/ \E w \in 0..Cap : WallMoves(w)
    BY <2>6, <1>1 DEF Tick, WallMoves, threads, history
  <2>7. QED  BY <1>2, <2>1, <2>2, <2>3, <2>4, <2>5, <2>6 DEF Next
<1>3. QED  BY <1>1, <1>2 DEF vars, service, threads, history

\* Once a revocation has been answered no key is resident until a push installs
\* one, even when the matcher could not be cleared (ServiceControl::revoke_key).
THEOREM RevocationFinal == Spec => []RevokeIsFinal
<1>1. Init => RevokeInv  BY DEF Init, RevokeInv
<1>2. RevokeInv => RevokeIsFinal  BY DEF RevokeInv, RevokeIsFinal
<1>3. QED  BY <1>1, <1>2, RevokeStep, PTL DEF Spec

-----------------------------------------------------------------------------
(* Tables.                                                                 *)

\* A message that leaves a table no older than k, or none.
FreshEnough(k, m) == m \in Records \/ m.install = NoKey \/ m.install >= k

\* The table of push k was sent ahead of position i of the channel, and whatever
\* the writer holds when it comes to i is no older, or nothing.
TableAhead(k, i) ==
  /\ \/ \E j \in 1..i-1 : chan[j] = [install |-> k]
     \/ /\ matcher = NoKey \/ matcher >= k
        /\ \A j \in 1..i-1 : FreshEnough(k, chan[j])

\* Tables are sent in the order of their pushes.
InOrder ==
  \A i, j \in 1..Len(chan) :
    i < j /\ chan[i] \notin Records => FreshEnough(chan[i].install, chan[j])

\* Every holder of a key has its table ahead of the end of the channel.
KeysCovered ==
  /\ ctl = "install" /\ writerUp => TableAhead(pushes, Len(chan) + 1)
  /\ key # NoKey /\ writerUp => TableAhead(key, Len(chan) + 1)
  /\ \A e \in Exchanges :
       ex[e].at = "open" /\ ex[e].under # NoKey /\ writerUp => TableAhead(ex[e].under, Len(chan) + 1)

\* Every record in the channel has the table of its key ahead of it.
ChannelCovered ==
  \A i \in 1..Len(chan) :
    chan[i] \in Records =>
      /\ ex[chan[i].rec].at # "new"
      /\ ex[chan[i].rec].under # NoKey => TableAhead(ex[chan[i].rec].under, i)

\* Tables and keys are numbered by the pushes that began.
Numbered ==
  /\ \A i \in 1..Len(chan) : chan[i] \notin Records => chan[i].install <= pushes
  /\ key <= pushes
  /\ \A e \in Exchanges : ex[e].under <= pushes

\* What was resolved was resolved with a table that was recent enough.
Resolved ==
  /\ \A e \in Exchanges : ex[e].at = "new" => resolvedBy[e] = NoKey
  /\ MatcherNotOlder

\* The inductive invariant: the table of a key is ahead of every record digested
\* under that key, from the moment the key is about to be installed.
TableInv == InOrder /\ Numbered /\ KeysCovered /\ ChannelCovered /\ Resolved

\* What a message added at the end of the channel leaves as it was.
LEMMA AheadEnqueue ==
  ASSUME TypeOK, NEW m \in Messages, Enqueue(m), matcher' = matcher,
         NEW k, NEW i \in 1..Len(chan)+1, TableAhead(k, i)
  PROVE  TableAhead(k, i)'
<1>1. chan \in Seq(Messages) /\ chan' = Append(chan, m)  BY DEF TypeOK, Enqueue
<1>2. \A j \in 1..Len(chan) : chan'[j] = chan[j]  BY <1>1
<1>3. \A j \in 1..i-1 : j \in 1..Len(chan)  BY <1>1
<1>4. QED  BY <1>2, <1>3 DEF TableAhead, FreshEnough

\* Ahead of a message at the end is ahead of the end.
LEMMA AheadAppended ==
  ASSUME TypeOK, NEW m \in Messages, Enqueue(m), matcher' = matcher,
         NEW k, TableAhead(k, Len(chan) + 1), FreshEnough(k, m)
  PROVE  TableAhead(k, Len(chan) + 1)'
<1>1. chan \in Seq(Messages) /\ chan' = Append(chan, m) /\ Len(chan) \in Nat
  BY DEF TypeOK, Enqueue
<1>2. /\ \A j \in 1..Len(chan) : chan'[j] = chan[j]
      /\ chan'[Len(chan) + 1] = m /\ Len(chan') = Len(chan) + 1
  BY <1>1
<1>3. CASE \E j \in 1..Len(chan) : chan[j] = [install |-> k]
  <2>1. PICK j \in 1..Len(chan) : chan[j] = [install |-> k]  BY <1>3
  <2>2. j \in 1..(Len(chan') + 1) - 1 /\ chan'[j] = [install |-> k]  BY <1>1, <1>2, <2>1
  <2>3. QED  BY <2>2 DEF TableAhead
<1>4. CASE /\ matcher = NoKey \/ matcher >= k
           /\ \A j \in 1..Len(chan) : FreshEnough(k, chan[j])
  <2>1. \A j \in 1..(Len(chan') + 1) - 1 : j \in 1..Len(chan) \/ j = Len(chan) + 1
    BY <1>1, <1>2
  <2>2. \A j \in 1..(Len(chan') + 1) - 1 : FreshEnough(k, chan'[j])
    BY <2>1, <1>2, <1>4
  <2>3. QED  BY <1>4, <2>2 DEF TableAhead, FreshEnough
<1>5. (Len(chan) + 1) - 1 = Len(chan)  BY <1>1
<1>6. QED  BY <1>3, <1>4, <1>5 DEF TableAhead

\* Taking the head of the channel: every position moves up by one, and the head,
\* if it is a table, is what the writer holds.
LEMMA AheadApply ==
  ASSUME TypeOK, InOrder, Apply, NEW k \in Keys, NEW i \in 2..Len(chan)+1, TableAhead(k, i)
  PROVE  TableAhead(k, i-1)'
<1>1. /\ chan \in Seq(Messages) /\ chan # <<>> /\ chan' = Tail(chan)
      /\ Head(chan) = chan[1] /\ Len(chan) \in Nat \ {0}
  BY DEF TypeOK, Apply
<1>2. \A j \in 1..Len(chan)-1 : chan'[j] = chan[j+1]  BY <1>1
<1>3. \A j \in 1..(i-1)-1 : j+1 \in 2..i-1 /\ chan'[j] = chan[j+1]
  BY <1>1, <1>2
<1>4. CASE \E j \in 2..i-1 : chan[j] = [install |-> k]
  <2>1. PICK j \in 2..i-1 : chan[j] = [install |-> k]  BY <1>4
  <2>2. j-1 \in 1..(i-1)-1 /\ chan'[j-1] = [install |-> k]
    BY <1>1, <1>2, <2>1
  <2>3. QED  BY <2>2 DEF TableAhead
<1>5. CASE chan[1] = [install |-> k]
  <2>1. chan[1] \notin Records /\ chan[1].install = k  BY <1>5, MessageKinds
  <2>2. matcher' = k  BY <1>1, <2>1 DEF Apply
  <2>3. \A j \in 2..i-1 : FreshEnough(k, chan[j])  BY <1>1, <2>1 DEF InOrder
  <2>4. \A j \in 1..(i-1)-1 : FreshEnough(k, chan'[j])  BY <1>3, <2>3
  <2>5. matcher' >= k  BY <2>2 DEF Keys
  <2>6. QED  BY <2>4, <2>5 DEF TableAhead, FreshEnough
<1>6. CASE /\ matcher = NoKey \/ matcher >= k
           /\ \A j \in 1..i-1 : FreshEnough(k, chan[j])
  <2>1. \A j \in 1..(i-1)-1 : FreshEnough(k, chan'[j])
    <3>1. \A j \in 2..i-1 : FreshEnough(k, chan[j])  BY <1>6
    <3>2. QED  BY <1>3, <3>1
  <2>2. matcher' = NoKey \/ matcher' >= k
    <3>1. FreshEnough(k, chan[1])  BY <1>1, <1>6
    <3>2. QED  BY <1>1, <1>6, <3>1 DEF Apply, FreshEnough
  <2>3. QED  BY <2>1, <2>2 DEF TableAhead, FreshEnough
<1>7. QED
  <2>1. \A j \in 1..i-1 : j = 1 \/ j \in 2..i-1  OBVIOUS
  <2>2. QED  BY <2>1, <1>4, <1>5, <1>6 DEF TableAhead


\* A step that leaves channel, writer and exchanges alone, and brings in no key.
LEMMA TableQuiet ==
  ASSUME TypeOK, TableInv, UNCHANGED <<chan, matcher, writerUp, ex, resolvedBy>>,
         pushes' \in Keys, pushes' >= pushes, key' = key \/ key' = NoKey,
         ctl' = "install" => ctl = "install" /\ pushes' = pushes
  PROVE  TableInv'
<1>1. \A k, i : TableAhead(k, i)' <=> TableAhead(k, i)  BY DEF TableAhead, FreshEnough
<1>2. pushes \in Nat /\ pushes' \in Nat /\ key \in Nat  BY DEF TypeOK, Keys
<1>3. InOrder'  BY DEF TableInv, InOrder, FreshEnough
<1>4. Numbered'
  <2>1. \A i \in 1..Len(chan) : chan[i] \notin Records => chan[i].install \in Nat
    BY MessageKinds DEF TypeOK, Keys
  <2>2. \A e \in Exchanges : ex[e].under \in Nat  BY DEF TypeOK, Keys
  <2>3. \A i \in 1..Len(chan') : chan'[i] \notin Records => chan'[i].install <= pushes'
    BY <1>2, <2>1 DEF TableInv, Numbered
  <2>4. key' <= pushes'  BY <1>2 DEF TableInv, Numbered, NoKey
  <2>5. \A e \in Exchanges : ex'[e].under <= pushes'
    BY <1>2, <2>2 DEF TableInv, Numbered
  <2>6. QED  BY <2>3, <2>4, <2>5 DEF Numbered
<1>5. KeysCovered'
  <2>1. writerUp' = writerUp /\ Len(chan') = Len(chan) /\ ex' = ex  OBVIOUS
  <2>2. ctl' = "install" /\ writerUp' => TableAhead(pushes, Len(chan)+1)
    BY <2>1 DEF TableInv, KeysCovered
  <2>3. key' # NoKey /\ writerUp' => TableAhead(key, Len(chan)+1) /\ key' = key
    BY <2>1 DEF TableInv, KeysCovered
  <2>4. \A e \in Exchanges : ex'[e].at = "open" /\ ex'[e].under # NoKey /\ writerUp' =>
           TableAhead(ex[e].under, Len(chan)+1)
    BY <2>1 DEF TableInv, KeysCovered
  <2>5. QED  BY <2>1, <2>2, <2>3, <2>4, <1>1 DEF KeysCovered, TableAhead, FreshEnough
<1>6. ChannelCovered'  BY <1>1 DEF TableInv, ChannelCovered, TableAhead, FreshEnough
<1>7. Resolved'  BY DEF TableInv, Resolved, MatcherNotOlder
<1>8. QED  BY <1>3, <1>4, <1>5, <1>6, <1>7 DEF TableInv

\* A message at the end of the channel: what is covered stays covered, and the
\* order is kept if the message is fresh enough for every table before it.
LEMMA TableEnqueue ==
  ASSUME TypeOK, TableInv, NEW m \in Messages, Enqueue(m),
         UNCHANGED <<matcher, writerUp, pushes, key>>,
         \A k \in Keys : k <= pushes => FreshEnough(k, m)
  PROVE  /\ chan' = Append(chan, m) /\ Len(chan') = Len(chan) + 1 /\ Len(chan) \in Nat
         /\ \A j \in 1..Len(chan) : chan'[j] = chan[j]
         /\ chan'[Len(chan) + 1] = m
         /\ InOrder'
         /\ \A k \in Keys : k <= pushes /\ TableAhead(k, Len(chan)+1) => TableAhead(k, Len(chan)+1)'
<1>1. chan \in Seq(Messages) /\ chan' = Append(chan, m) /\ Len(chan) \in Nat
  BY DEF TypeOK, Enqueue
<1>2. /\ \A j \in 1..Len(chan) : chan'[j] = chan[j]
      /\ chan'[Len(chan) + 1] = m /\ Len(chan') = Len(chan) + 1
  BY <1>1
<1>3. InOrder'
  <2>1. SUFFICES ASSUME NEW i \in 1..Len(chan'), NEW j \in 1..Len(chan'), i < j, chan'[i] \notin Records
                 PROVE  FreshEnough(chan'[i].install, chan'[j])
    BY DEF InOrder, FreshEnough
  <2>2. i \in 1..Len(chan) /\ chan'[i] = chan[i] /\ chan[i] \in Messages
    BY <2>1, <1>1, <1>2
  <2>3. CASE j \in 1..Len(chan)
    BY <2>1, <2>2, <2>3, <1>2 DEF TableInv, InOrder
  <2>4. CASE j = Len(chan) + 1
    <3>1. chan[i].install \in Keys /\ chan[i].install <= pushes
      BY <2>1, <2>2, MessageKinds DEF TableInv, Numbered
    <3>2. QED  BY <3>1, <2>2, <2>4, <1>2
  <2>5. QED  BY <2>3, <2>4, <1>1, <1>2
<1>4. \A k \in Keys : k <= pushes /\ TableAhead(k, Len(chan)+1) => TableAhead(k, Len(chan)+1)'
  BY AheadAppended
<1>5. QED  BY <1>1, <1>2, <1>3, <1>4

\* A table or a clear is sent.
LEMMA TableInstall ==
  ASSUME TypeOK, TableInv, NEW n \in {NoKey, pushes}, Enqueue([install |-> n]),
         UNCHANGED <<matcher, writerUp, pushes, key, ex, resolvedBy>>,
         ctl' = "install" => ctl = "install" \/ n = pushes
  PROVE  TableInv'
<1> DEFINE m == [install |-> n]
<1>0. pushes \in Nat /\ pushes \in Keys /\ n \in Keys  BY ClearMessage DEF TypeOK, Keys
<1>1. m \in Messages /\ m \notin Records /\ m.install = n  BY <1>0, MessageKinds
<1>2. \A k \in Keys : k <= pushes => FreshEnough(k, m)  BY <1>0, <1>1 DEF FreshEnough
<1> HIDE DEF m
<1>3. Enqueue(m)  BY DEF m
<1>4. /\ Len(chan') = Len(chan) + 1 /\ Len(chan) \in Nat
      /\ \A j \in 1..Len(chan) : chan'[j] = chan[j]
      /\ chan'[Len(chan) + 1] = m
  BY <1>1, <1>2, <1>3, TableEnqueue
<1>5. InOrder'  BY <1>1, <1>2, <1>3, TableEnqueue
<1>6. \A k \in Keys : k <= pushes /\ TableAhead(k, Len(chan)+1) => TableAhead(k, Len(chan)+1)'
  BY <1>1, <1>2, <1>3, TableEnqueue
<1>7. Numbered'
  <2>1. \A i \in 1..Len(chan') : i \in 1..Len(chan) \/ i = Len(chan) + 1  BY <1>4
  <2>2. n <= pushes  BY <1>0 DEF NoKey
  <2>3. \A i \in 1..Len(chan') : chan'[i] \notin Records => chan'[i].install <= pushes
    BY <1>1, <1>4, <2>1, <2>2 DEF TableInv, Numbered
  <2>4. QED  BY <2>3 DEF TableInv, Numbered
<1>8. KeysCovered'
  <2>1. n = pushes => TableAhead(pushes, Len(chan)+1)'
    <3>1. Len(chan)+1 \in 1..(Len(chan')+1)-1  BY <1>4
    <3>2. QED  BY <1>4, <3>1 DEF TableAhead, m
  <2>2. ctl' = "install" /\ writerUp' => TableAhead(pushes, Len(chan)+1)'
    BY <2>1, <1>6, <1>0 DEF TableInv, KeysCovered
  <2>3. key # NoKey /\ writerUp' => TableAhead(key, Len(chan)+1)'
    BY <1>6 DEF TableInv, KeysCovered, Numbered, TypeOK
  <2>4. \A e \in Exchanges : ex[e].at = "open" /\ ex[e].under # NoKey /\ writerUp' =>
           TableAhead(ex[e].under, Len(chan)+1)'
    BY <1>6 DEF TableInv, KeysCovered, Numbered, TypeOK
  <2>5. QED  BY <2>2, <2>3, <2>4 DEF KeysCovered, TableAhead
<1>9. ChannelCovered'
  <2>1. ASSUME NEW i \in 1..Len(chan'), chan'[i] \in Records
        PROVE  /\ i \in 1..Len(chan) /\ chan'[i] = chan[i]
               /\ ex[chan[i].rec].at # "new" /\ ex[chan[i].rec].under \in Keys
               /\ \A k \in Keys : k = ex[chan[i].rec].under /\ k # NoKey => TableAhead(k, i)'
    <3>1. i \in 1..Len(chan) /\ i \in 1..Len(chan)+1 /\ chan'[i] = chan[i]
      BY <2>1, <1>1, <1>4
    <3>2. chan[i].rec \in Exchanges  BY <2>1, <3>1 DEF Records
    <3>3. ex[chan[i].rec].at # "new" /\ ex[chan[i].rec].under \in Keys
      BY <2>1, <3>1, <3>2 DEF TypeOK, TableInv, ChannelCovered
    <3>4. ASSUME NEW k \in Keys, k = ex[chan[i].rec].under, k # NoKey
          PROVE  TableAhead(k, i)'
      <4>1. TableAhead(k, i)  BY <2>1, <3>1, <3>4 DEF TableInv, ChannelCovered
      <4>2. QED  BY <4>1, <3>1, <1>1, <1>3, AheadEnqueue
    <3>5. QED  BY <3>1, <3>3, <3>4
  <2>2. QED  BY <2>1 DEF ChannelCovered, TableAhead
<1>10. Resolved'  BY DEF TableInv, Resolved, MatcherNotOlder
<1>11. QED  BY <1>5, <1>7, <1>8, <1>9, <1>10 DEF TableInv

\* A record is sent, or refused by a full channel.
LEMMA TableRecord ==
  ASSUME TypeOK, TableInv, NEW e \in Exchanges, Record(e)
  PROVE  TableInv'
<1>1. /\ UNCHANGED <<matcher, writerUp, pushes, key, ctl, resolvedBy>> /\ ex[e].at = "open"
      /\ \A x \in Exchanges : ex'[x].under = ex[x].under
      /\ \A x \in Exchanges \ {e} : ex'[x] = ex[x]
      /\ ex'[e].at \in {"sent", "done"}
  BY DEF Record, threads, history, TypeOK
<1>2. CASE Enqueue([rec |-> e])
  <2> DEFINE m == [rec |-> e]
  <2>1. m \in Messages /\ m \in Records /\ m.rec = e  BY MessageKinds
  <2>2. \A k \in Keys : FreshEnough(k, m)  BY <2>1 DEF FreshEnough
  <2> HIDE DEF m
  <2>3. Enqueue(m)  BY <1>2 DEF m
  <2>4. /\ Len(chan') = Len(chan) + 1 /\ Len(chan) \in Nat
        /\ \A j \in 1..Len(chan) : chan'[j] = chan[j]
        /\ chan'[Len(chan) + 1] = m
    BY <1>1, <2>1, <2>2, <2>3, TableEnqueue
  <2>5. InOrder'  BY <1>1, <2>1, <2>2, <2>3, TableEnqueue
  <2>6. \A k \in Keys : k <= pushes /\ TableAhead(k, Len(chan)+1) => TableAhead(k, Len(chan)+1)'
    BY <1>1, <2>1, <2>2, <2>3, TableEnqueue
  <2>7. Numbered'
    <3>1. \A i \in 1..Len(chan') : i \in 1..Len(chan) \/ i = Len(chan) + 1  BY <2>4
    <3>2. \A i \in 1..Len(chan') : chan'[i] \notin Records => chan'[i].install <= pushes
      BY <2>1, <2>4, <3>1 DEF TableInv, Numbered
    <3>3. QED  BY <1>1, <3>2 DEF TableInv, Numbered
  <2>8. KeysCovered'
    <3>1. ctl = "install" /\ writerUp => TableAhead(pushes, Len(chan)+1)'
      BY <1>1, <2>6 DEF TableInv, KeysCovered, TypeOK, Keys
    <3>2. key # NoKey /\ writerUp => TableAhead(key, Len(chan)+1)'
      BY <1>1, <2>6 DEF TableInv, KeysCovered, Numbered, TypeOK
    <3>3. \A x \in Exchanges : ex'[x].at = "open" /\ ex'[x].under # NoKey /\ writerUp =>
             \A k \in Keys : k = ex[x].under => TableAhead(k, Len(chan)+1)'
      <4>1. SUFFICES ASSUME NEW x \in Exchanges, ex'[x].at = "open", ex'[x].under # NoKey, writerUp,
                            NEW k \in Keys, k = ex[x].under
                     PROVE  TableAhead(k, Len(chan)+1)'
        OBVIOUS
      <4>2. x # e /\ ex[x].at = "open" /\ ex[x].under # NoKey  BY <4>1, <1>1
      <4>3. TableAhead(k, Len(chan)+1) /\ k <= pushes
        BY <4>1, <4>2 DEF TableInv, KeysCovered, Numbered
      <4>4. QED  BY <4>3, <2>6
    <3>4. \A x \in Exchanges : ex[x].under \in Keys  BY DEF TypeOK
    <3>5. QED  BY <1>1, <3>1, <3>2, <3>3, <3>4 DEF KeysCovered, TableAhead
  <2>9. ChannelCovered'
    <3>1. ASSUME NEW i \in 1..Len(chan'), chan'[i] \in Records
          PROVE  /\ ex'[chan'[i].rec].at # "new"
                 /\ \A k \in Keys : k = ex[chan'[i].rec].under /\ k # NoKey => TableAhead(k, i)'
                 /\ chan'[i].rec \in Exchanges
      <4>1. chan'[i].rec \in Exchanges  BY <3>1 DEF Records
      <4>2. CASE i \in 1..Len(chan)
        <5>1. chan'[i] = chan[i] /\ i \in 1..Len(chan)+1  BY <4>2, <2>4
        <5>2. ex'[chan'[i].rec].at # "new"
          BY <3>1, <4>1, <4>2, <5>1, <1>1 DEF TableInv, ChannelCovered
        <5>3. ASSUME NEW k \in Keys, k = ex[chan'[i].rec].under, k # NoKey
              PROVE  TableAhead(k, i)'
          <6>1. TableAhead(k, i)  BY <3>1, <4>2, <5>1, <5>3 DEF TableInv, ChannelCovered
          <6>2. QED  BY <6>1, <5>1, <1>1, <2>1, <2>3, AheadEnqueue
        <5>4. QED  BY <4>1, <5>2, <5>3
      <4>3. CASE i = Len(chan) + 1
        <5>1. chan'[i].rec = e  BY <4>3, <2>1, <2>4
        <5>2. ex'[e].at # "new"  BY <1>1
        <5>3. ASSUME NEW k \in Keys, k = ex[e].under, k # NoKey
              PROVE  TableAhead(k, i)'
          <6>1. TableAhead(k, i)
            BY <4>3, <5>3, <1>1, <2>3 DEF Enqueue, TableInv, KeysCovered
          <6>2. i \in 1..Len(chan)+1  BY <4>3, <2>4
          <6>3. QED  BY <6>1, <6>2, <1>1, <2>1, <2>3, AheadEnqueue
        <5>4. QED  BY <4>1, <5>1, <5>2, <5>3
      <4>4. QED  BY <4>2, <4>3, <2>4
    <3>2. \A x \in Exchanges : ex[x].under \in Keys  BY DEF TypeOK
    <3>3. QED  BY <1>1, <3>1, <3>2 DEF ChannelCovered, TableAhead
  <2>10. Resolved'  BY <1>1 DEF TableInv, Resolved, MatcherNotOlder
  <2>11. QED  BY <2>5, <2>7, <2>8, <2>9, <2>10 DEF TableInv
<1>3. CASE UNCHANGED chan
  <2>1. \A k, i : TableAhead(k, i)' <=> TableAhead(k, i)
    BY <1>1, <1>3 DEF TableAhead, FreshEnough
  <2>2. InOrder' /\ Numbered' /\ Resolved'
    BY <1>1, <1>3 DEF TableInv, InOrder, Numbered, Resolved, MatcherNotOlder, FreshEnough
  <2>3. KeysCovered'
    <3>1. \A x \in Exchanges : ex'[x].at = "open" => ex[x].at = "open" /\ x # e  BY <1>1
    <3>2. QED  BY <1>1, <1>3, <3>1 DEF TableInv, KeysCovered, TableAhead, FreshEnough
  <2>4. ChannelCovered'
    <3>1. \A i \in 1..Len(chan) : chan[i] \in Records => chan[i].rec \in Exchanges
      BY DEF Records
    <3>2. \A x \in Exchanges : ex'[x].at = "new" => ex[x].at = "new"  BY <1>1
    <3>3. \A x \in Exchanges : ex'[x].under = ex[x].under  BY <1>1
    <3>4. ChannelCovered  BY DEF TableInv
    <3>5. QED  BY <1>3, <2>1, <3>1, <3>2, <3>3, <3>4 DEF ChannelCovered
  <2>5. QED  BY <2>2, <2>3, <2>4 DEF TableInv
<1>4. QED  BY <1>2, <1>3 DEF Record, Unsendable

\* The writer takes the head of the channel.
LEMMA TableApply == ASSUME TypeOK, TableInv, Apply PROVE TableInv'
<1>1. /\ chan \in Seq(Messages) /\ chan # <<>> /\ chan' = Tail(chan)
      /\ Head(chan) = chan[1] /\ chan[1] \in Messages /\ Len(chan) \in Nat \ {0}
  BY DEF TypeOK, Apply
<1>2. Len(chan') = Len(chan) - 1 /\ \A j \in 1..Len(chan') : j+1 \in 2..Len(chan) /\ chan'[j] = chan[j+1]
  BY <1>1
<1>3. UNCHANGED <<writerUp, pushes, key, ctl>>  BY DEF Apply, threads
<1>4. /\ \A x \in Exchanges : ex'[x].under = ex[x].under
      /\ \A x \in Exchanges : ex'[x].at = ex[x].at \/ ex'[x].at = "done"
  <2>1. CASE chan[1] \in Records
    <3>1. chan[1].rec \in Exchanges  BY <2>1 DEF Records
    <3>2. ex' = [ex EXCEPT ![chan[1].rec].at = "done"]  BY <1>1, <2>1 DEF Apply
    <3>3. \A x \in Exchanges : ex[x] \in [at : {"new", "open", "sent", "done"}, under : Keys]
      BY DEF TypeOK
    <3>4. QED  BY <3>1, <3>2, <3>3 DEF TypeOK
  <2>2. CASE chan[1] \notin Records  BY <1>1, <2>2 DEF Apply
  <2>3. QED  BY <2>1, <2>2
<1>5. \A k \in Keys, i \in 2..Len(chan)+1 : TableAhead(k, i) => TableAhead(k, i-1)'
  BY AheadApply DEF TableInv
<1>6. InOrder'
  <2>1. SUFFICES ASSUME NEW i \in 1..Len(chan'), NEW j \in 1..Len(chan'), i < j, chan'[i] \notin Records
                 PROVE  FreshEnough(chan'[i].install, chan'[j])
    BY DEF InOrder, FreshEnough
  <2>2. i+1 \in 1..Len(chan) /\ j+1 \in 1..Len(chan) /\ i+1 < j+1
        /\ chan'[i] = chan[i+1] /\ chan'[j] = chan[j+1]
    BY <2>1, <1>1, <1>2
  <2>3. QED  BY <2>1, <2>2 DEF TableInv, InOrder
<1>7. Numbered'
  <2>1. \A j \in 1..Len(chan') : j+1 \in 1..Len(chan) /\ chan'[j] = chan[j+1]
    BY <1>1, <1>2
  <2>2. QED  BY <2>1, <1>3, <1>4 DEF TableInv, Numbered
<1>8. KeysCovered'
  <2>1. ASSUME NEW k \in Keys, TableAhead(k, Len(chan)+1)
        PROVE  TableAhead(k, Len(chan)+1)'
    <3>1. PICK i \in 2..Len(chan)+1 : i = Len(chan)+1  BY <1>1
    <3>2. TableAhead(k, i-1)'  BY <2>1, <3>1, <1>5
    <3>3. i-1 = Len(chan')+1  BY <3>1, <1>1, <1>2
    <3>4. QED  BY <3>2, <3>3 DEF TableAhead
  <2>2. ctl = "install" /\ writerUp => TableAhead(pushes, Len(chan)+1)'
    BY <2>1, <1>3 DEF TableInv, KeysCovered, TypeOK
  <2>3. key # NoKey /\ writerUp => TableAhead(key, Len(chan)+1)'
    BY <2>1, <1>3 DEF TableInv, KeysCovered, TypeOK
  <2>4. \A x \in Exchanges : ex'[x].at = "open" /\ ex'[x].under # NoKey /\ writerUp =>
           \A k \in Keys : k = ex[x].under => TableAhead(k, Len(chan)+1)'
    BY <2>1, <1>4 DEF TableInv, KeysCovered
  <2>5. \A x \in Exchanges : ex[x].under \in Keys  BY DEF TypeOK
  <2>6. QED  BY <2>2, <2>3, <2>4, <2>5, <1>3, <1>4 DEF KeysCovered, TableAhead
<1>9. ChannelCovered'
  <2>1. ASSUME NEW i \in 1..Len(chan'), chan'[i] \in Records
        PROVE  /\ ex'[chan'[i].rec].at # "new" /\ chan'[i].rec \in Exchanges
               /\ \A k \in Keys : k = ex[chan'[i].rec].under /\ k # NoKey => TableAhead(k, i)'
    <3>1. i+1 \in 2..Len(chan)+1 /\ i+1 \in 1..Len(chan) /\ chan'[i] = chan[i+1] /\ (i+1)-1 = i
      BY <1>1, <1>2
    <3>2. chan'[i].rec \in Exchanges  BY <2>1 DEF Records
    <3>3. ex'[chan'[i].rec].at # "new"
      BY <2>1, <3>1, <3>2, <1>4 DEF TableInv, ChannelCovered
    <3>4. ASSUME NEW k \in Keys, k = ex[chan'[i].rec].under, k # NoKey
          PROVE  TableAhead(k, i)'
      <4>1. TableAhead(k, i+1)  BY <2>1, <3>1, <3>4 DEF TableInv, ChannelCovered
      <4>2. TableAhead(k, (i+1)-1)'  BY <4>1, <3>1, <1>5
      <4>3. QED  BY <4>2, <3>1 DEF TableAhead
    <3>5. QED  BY <3>2, <3>3, <3>4
  <2>2. \A x \in Exchanges : ex[x].under \in Keys  BY DEF TypeOK
  <2>3. QED  BY <2>1, <2>2, <1>4 DEF ChannelCovered, TableAhead
<1>10. Resolved'
  <2>1. CASE chan[1] \notin Records
    BY <2>1, <1>1 DEF Apply, TableInv, Resolved, MatcherNotOlder
  <2>2. CASE chan[1] \in Records
    <3>1. PICK e \in Exchanges : chan[1].rec = e  BY <2>2 DEF Records
    <3>2. /\ ex' = [ex EXCEPT ![e].at = "done"]
          /\ resolvedBy' = [resolvedBy EXCEPT ![e] = IF ex[e].under = NoKey THEN NoKey ELSE matcher]
      BY <2>2, <3>1, <1>1 DEF Apply
    <3>3. ex'[e].at = "done" /\ resolvedBy'[e] \in {NoKey, matcher}
          /\ (ex[e].under = NoKey => resolvedBy'[e] = NoKey)
      BY <3>2 DEF TypeOK
    <3>4. ex[e].under # NoKey => matcher = NoKey \/ matcher >= ex[e].under
      <4>1. 1 \in 1..Len(chan)  BY <1>1
      <4>2. ASSUME ex[e].under # NoKey PROVE TableAhead(ex[e].under, 1)
        BY <4>1, <4>2, <2>2, <3>1 DEF TableInv, ChannelCovered
      <4>3. QED  BY <4>2 DEF TableAhead
    <3>5. \A x \in Exchanges \ {e} : resolvedBy'[x] = resolvedBy[x] /\ ex'[x] = ex[x]
      BY <3>2 DEF TypeOK
    <3>6. resolvedBy'[e] # NoKey => resolvedBy'[e] >= ex'[e].under
      BY <3>3, <3>4, <1>4
    <3>7. QED  BY <3>3, <3>5, <3>6 DEF TableInv, Resolved, MatcherNotOlder
  <2>3. QED  BY <2>1, <2>2
<1>11. QED  BY <1>6, <1>7, <1>8, <1>9, <1>10 DEF TableInv

\* The writer is gone, and the channel with it.
LEMMA TableStop == ASSUME TypeOK, TableInv, StopWriter PROVE TableInv'
<1>1. /\ chan' = <<>> /\ Len(chan') = 0 /\ ~writerUp'
      /\ UNCHANGED <<key, pushes, ex, resolvedBy>>
  BY DEF StopWriter, StopAt, history
<1>2. InOrder' /\ ChannelCovered' /\ KeysCovered'
  BY <1>1 DEF InOrder, ChannelCovered, KeysCovered
<1>3. Numbered' /\ Resolved'
  BY <1>1 DEF TableInv, Numbered, Resolved, MatcherNotOlder
<1>4. QED  BY <1>2, <1>3 DEF TableInv

\* Every step keeps the tables ahead of their keys.
LEMMA TableStep == TypeOK /\ TableInv /\ [Next]_vars => TableInv'
<1> SUFFICES ASSUME TypeOK, TableInv, [Next]_vars PROVE TableInv'
  OBVIOUS
<1>0. TypeOK' /\ pushes \in Keys /\ pushes' \in Keys /\ pushes \in Nat /\ pushes' \in Nat
  BY TypeStep DEF TypeOK, Keys
<1>1. ASSUME UNCHANGED <<chan, matcher, writerUp, ex, resolvedBy, pushes>>,
             key' = key \/ key' = NoKey, ctl' = "install" => ctl = "install"
      PROVE  TableInv'
  BY <1>0, <1>1, TableQuiet
<1>2. CASE Next
  <2>1. CASE PushKey
    BY <2>1, <1>0, TableQuiet DEF PushKey, service, history
  <2>2. CASE RevokeKey \/ LockNoKey \/ LockWithKey \/ VaultUnlocked \/ Shutdown
    BY <2>2, <1>1
    DEF RevokeKey, LockNoKey, LockWithKey, VaultUnlocked, Shutdown, service, history
  <2>3. CASE CtlWorks
    <3>1. CASE PushMatcher
      BY <3>1, TableInstall DEF PushMatcher, history
    <3>2. CASE PushBusy \/ PushFinish \/ DropKey \/ LockRevokes
      BY <3>2, <1>1 DEF PushBusy, Unsendable, PushFinish, DropKey, LockRevokes, service, history
    <3>3. ASSUME NEW ttl \in Ttls, LockRetains(ttl) PROVE TableInv'
      BY <3>3, <1>1 DEF LockRetains
    <3>4. CASE PushInstall
      <4>1. UNCHANGED <<chan, matcher, writerUp, ex, resolvedBy, pushes>> /\ key' = pushes
            /\ ctl = "install" /\ ctl' = "disarm"
        BY <3>4 DEF PushInstall, CtlAt
      <4>2. InOrder' /\ Numbered' /\ ChannelCovered' /\ Resolved'
        BY <4>1, <1>0
        DEF TableInv, InOrder, Numbered, ChannelCovered, Resolved, MatcherNotOlder, TableAhead, FreshEnough
      <4>3. KeysCovered'
        BY <4>1 DEF TableInv, KeysCovered, TableAhead, FreshEnough
      <4>4. QED  BY <4>2, <4>3 DEF TableInv
    <3>5. CASE RevokeFinish
      <4>1. CASE Enqueue([install |-> NoKey])
        BY <3>5, <4>1, TableInstall DEF RevokeFinish
      <4>2. CASE Unsendable
        BY <3>5, <4>2, <1>1 DEF RevokeFinish, Unsendable
      <4>3. QED  BY <3>5, <4>1, <4>2 DEF RevokeFinish
    <3>6. QED  BY <2>3, <3>1, <3>2, <3>3, <3>4, <3>5 DEF CtlWorks
  <2>4. CASE Poller
    <3>1. CASE PollWakes \/ PollExpires \/ PollWaits \/ PollDrops
      BY <3>1, <1>1 DEF PollWakes, PollExpires, PollWaits, PollDrops, PollAt, service, history
    <3>2. CASE PollClears
      <4>1. CASE Enqueue([install |-> NoKey])
        BY <3>2, <4>1, TableInstall DEF PollClears, PollAt, history
      <4>2. CASE Unsendable
        BY <3>2, <4>2, <1>1 DEF PollClears, PollAt, Unsendable, history
      <4>3. QED  BY <3>2, <4>1, <4>2 DEF PollClears
    <3>3. QED  BY <2>4, <3>1, <3>2 DEF Poller
  <2>5. ASSUME NEW e \in Exchanges, Digest(e) PROVE TableInv'
    <3>1. /\ UNCHANGED <<chan, matcher, writerUp, resolvedBy, pushes, key, ctl>>
          /\ ex[e].at = "new" /\ ex'[e] = [at |-> "open", under |-> key]
          /\ \A x \in Exchanges \ {e} : ex'[x] = ex[x]
      BY <2>5 DEF Digest, service, threads, history, TypeOK
    <3>2. InOrder'  BY <3>1 DEF TableInv, InOrder, FreshEnough
    <3>3. Numbered'  BY <3>1 DEF TableInv, Numbered
    <3>4. KeysCovered'  BY <3>1 DEF TableInv, KeysCovered, TableAhead, FreshEnough
    <3>5. ChannelCovered'
      <4>1. \A i \in 1..Len(chan) : chan[i] \in Records => chan[i].rec \in Exchanges \ {e}
        BY <3>1 DEF Records, TableInv, ChannelCovered
      <4>2. QED  BY <3>1, <4>1 DEF TableInv, ChannelCovered, TableAhead, FreshEnough
    <3>6. Resolved'  BY <3>1 DEF TableInv, Resolved, MatcherNotOlder
    <3>7. QED  BY <3>2, <3>3, <3>4, <3>5, <3>6 DEF TableInv
  <2>6. CASE Apply \/ \E e \in Exchanges : Record(e)
    BY <2>6, TableApply, TableRecord
  <2>7. CASE StopBegins \/ Stopper
    <3>1. CASE StopBegins \/ StopClears \/ StopDisarms \/ JoinListener \/ JoinPoller \/ StopControl
      BY <3>1, <1>1
      DEF StopAt, StopBegins, StopClears, StopDisarms, JoinListener, JoinPoller, StopControl,
          service, history
    <3>2. QED  BY <2>7, <3>1, TableStop DEF Stopper
  <2>8. CASE Tick \/ \E w \in 0..Cap : WallMoves(w)
    BY <2>8, <1>1 DEF Tick, WallMoves, threads, history
  <2>9. QED
    BY <1>2, <2>1, <2>2, <2>3, <2>4, <2>5, <2>6, <2>7, <2>8 DEF Next
<1>3. QED  BY <1>1, <1>2 DEF vars, service, threads, history

\* A digest never meets a table older than its key, for any number of pushes,
\* exchanges and channel slots (ServiceControl::push_key, WriterSink::set_matcher).
THEOREM TablesNotOlder == Spec => []MatcherNotOlder
<1>1. Init => TableInv
  BY DEF Init, TableInv, InOrder, Numbered, KeysCovered, ChannelCovered, Resolved, MatcherNotOlder, NoKey
<1>2. TableInv => MatcherNotOlder  BY DEF TableInv, Resolved
<1>3. QED  BY <1>1, <1>2, TypeInit, TypeStep, TableStep, PTL DEF Spec
=============================================================================

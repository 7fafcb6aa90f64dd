------------------------------ MODULE EnvLink ------------------------------
(***************************************************************************)
(* The `.env` link writer (crates/gateway/src/envlink.rs): a project is    *)
(* linked to a route by rewriting the route's variable, and NO_PROXY, in   *)
(* the project's environment files.  What was there before is recorded     *)
(* with the link row, and unlinking restores it.                           *)
(*                                                                         *)
(* A file is what its assignments say: comments, order and duplicates are  *)
(* not modelled.  A job is one command (`gateway link`, `unlink`, a step   *)
(* of `track`), taken apart at every statement and every file operation;   *)
(* it may die at any of them.  The user edits files at any time.           *)
(***************************************************************************)
EXTENDS FiniteSets, Integers

CONSTANTS
  Jobs,        \* commands that may run
  Files,       \* the environment files a link names
  Routes,      \* route prefixes
  VarOf,       \* [Routes -> variable its provider reads]
  UserValues,  \* values a user gives a variable
  UserHosts,   \* NO_PROXY entries of the user
  Loopback,    \* NO_PROXY_ENTRIES
  NoValue,     \* the variable is not assigned; no route
  MaxSlugs,    \* bound: slugs in use at a time
  MaxPort,     \* bound: the port goes from 1 to MaxPort (persist_port)
  MaxEdits     \* bound: edits by the user

NoProxy == "NO_PROXY"
Vars == {VarOf[r] : r \in Routes}
Names == Vars \cup {NoProxy}

Slugs == 1..MaxSlugs
Urls == [slug : Slugs, port : 1..MaxPort]
List(S) == [hosts |-> S]
Lists == {List(S) : S \in SUBSET (UserHosts \cup {Loopback})}
Values == {NoValue} \cup UserValues \cup Urls \cup Lists

\* A user writes no line with a link's slug (128 random bits) and not the entries of the
\* gateway; a provider's variable is not NO_PROXY.
ASSUME LinkAssumption ==
  /\ MaxSlugs \in Nat /\ MaxPort \in Nat \ {0} /\ MaxEdits \in Nat
  /\ Loopback \notin UserHosts /\ UserValues \cap Urls = {}
  /\ NoValue \notin Routes \cup Files \cup UserValues \cup Urls \cup Lists
  /\ NoProxy \notin Vars

VARIABLES
  files,     \* [Files -> [there, vals]]
  routes,    \* the rows of gateway_routes
  rows,      \* [Routes -> the project's row of gateway_project_links]
  port,      \* gateway_config.port
  job,       \* [Jobs -> a command, with what it holds in memory]
  edits,     \* number of edits so far
  mine,      \* [Files -> [Names -> what the user last put there]] (history)
  edited,    \* assignments changed by the user while a link existed (history)
  orphaned   \* slugs whose row went with its route (history)

ghosts == <<edits, mine, edited, orphaned>>
linkVars == <<files, routes, rows, port, job, ghosts>>

(***************************************************************************)
(* Values and records.                                                     *)
(***************************************************************************)
ValuesOf(k) ==
  {NoValue} \cup (IF k = NoProxy THEN Lists ELSE UserValues \cup Urls)
\* What a user puts there.
OwnValues(k) ==
  {NoValue} \cup (IF k = NoProxy THEN {List(S) : S \in SUBSET UserHosts \ {{}}} ELSE UserValues)

Contents == [there : BOOLEAN, vals : [Names -> Values]]
Content(c) == c \in Contents /\ \A k \in Names : c.vals[k] \in ValuesOf(k)
NoFile == [there |-> FALSE, vals |-> [k \in Names |-> NoValue]]

\* A PriorVar, or what stands for its absence; a PriorFile; prior_env_json.
PriorVars == [kept : BOOLEAN, prior : Values, written : Values]
PriorEnvs == [Files -> [existed : BOOLEAN, vars : [Names -> PriorVars]]]
Unrecorded == [kept |-> FALSE, prior |-> NoValue, written |-> NoValue]
NoRecord == [f \in Files |-> [existed |-> FALSE, vars |-> [k \in Names |-> Unrecorded]]]

Rows == [slug : 0..MaxSlugs, has : BOOLEAN, rec : PriorEnvs]
NoRow == [slug |-> 0, has |-> FALSE, rec |-> NoRecord]
Row(x) ==
  /\ x \in Rows /\ (x.slug = 0 => x = NoRow)
  /\ \A f \in Files, k \in Names :
       x.rec[f].vars[k].prior \in ValuesOf(k) /\ x.rec[f].vars[k].written \in ValuesOf(k)

Pcs == {"idle", "preview", "insert", "readPrior", "update", "write",
        "restore", "writeBack", "remove"}

Commands == [pc : Pcs, r : Routes \cup {NoValue}, slug : 0..MaxSlugs, port : 1..MaxPort,
             existing : BOOLEAN, seen : [Files -> Contents], stored : Rows,
             todo : SUBSET Files, f : Files \cup {NoValue}, at : Contents,
             locked : BOOLEAN, unsettled : BOOLEAN]
Idle == [pc |-> "idle", r |-> NoValue, slug |-> 0, port |-> 1,
         existing |-> FALSE, seen |-> [f \in Files |-> NoFile], stored |-> NoRow,
         todo |-> {}, f |-> NoValue, at |-> NoFile, locked |-> FALSE, unsettled |-> FALSE]

\* A command works on a route; from the restore of a file on that file.
Command(j) ==
  /\ j \in Commands /\ Row(j.stored) /\ Content(j.at)
  /\ \A f \in Files : Content(j.seen[f])
  /\ j.pc # "idle" => j.r \in Routes
  /\ j.pc \in {"preview", "insert", "readPrior", "update", "write"} => j.slug \in Slugs
  /\ j.pc = "writeBack" => j.f \in Files

LinkTypeOK ==
  /\ files \in [Files -> Contents] /\ \A f \in Files : Content(files[f])
  /\ routes \subseteq Routes /\ port \in 1..MaxPort
  /\ rows \in [Routes -> Rows] /\ \A r \in Routes : Row(rows[r])
  /\ job \in [Jobs -> Commands] /\ \A p \in Jobs : Command(job[p])
  /\ edits \in 0..MaxEdits /\ edited \subseteq Files \X Names /\ orphaned \subseteq Slugs
  /\ mine \in [Files -> [Names -> Values]]
  /\ \A f \in Files, k \in Names : mine[f][k] \in OwnValues(k)

OwnContents == {v \in [Names -> UNION {OwnValues(k) : k \in Names}] :
                  \A k \in Names : v[k] \in OwnValues(k)}

\* Files without any gateway line, and no link.
LinkInit ==
  /\ files \in [Files -> {NoFile} \cup {[there |-> TRUE, vals |-> v] : v \in OwnContents}]
  /\ routes = Routes /\ rows = [r \in Routes |-> NoRow] /\ port = 1
  /\ job = [p \in Jobs |-> Idle]
  /\ edits = 0 /\ mine = [f \in Files |-> files[f].vals] /\ edited = {} /\ orphaned = {}

Linked(r) == rows[r] # NoRow
Url(s, n) == [slug |-> s, port |-> n]

\* new_link_slug: 128 random bits, so a slug that occurs nowhere.
InUse(s) ==
  \/ \E r \in Routes : rows[r].slug = s
  \/ \E p \in Jobs : job[p].slug = s
  \/ s \in orphaned
  \/ \E f \in Files, v \in Vars : \E n \in 1..MaxPort : files[f].vals[v] = Url(s, n)
FreshSlug == CHOOSE s \in Slugs : ~InUse(s)

(***************************************************************************)
(* Planning a file.                                                        *)
(***************************************************************************)
Extended(list) == List((IF list = NoValue THEN {} ELSE list.hosts) \cup {Loopback})

\* plan_file: what a file will say, and what to remember of it.
Planned(c, r, url) ==
  [there |-> TRUE,
   vals |-> [c.vals EXCEPT ![VarOf[r]] = url, ![NoProxy] = Extended(@)]]

Fresh(c, r, url) ==
  [existed |-> c.there,
   vars |-> [k \in Names |->
     CASE k = VarOf[r] -> [kept |-> TRUE, prior |-> c.vals[k], written |-> url]
       [] k = NoProxy /\ Extended(c.vals[k]) # c.vals[k] ->
            [kept |-> TRUE, prior |-> c.vals[k], written |-> Extended(c.vals[k])]
       [] OTHER -> Unrecorded]]

\* Variant: the latest prior wins.
MergedLatest(stored, fresh) ==
  [f \in Files |->
    [existed |-> IF stored.has THEN stored.rec[f].existed ELSE fresh[f].existed,
     vars |-> [k \in Names |-> IF fresh[f].vars[k].kept THEN fresh[f].vars[k]
                              ELSE stored.rec[f].vars[k]]]]

\* merge_prior: the first recorded prior of an assignment stays, only `written` moves on.
Merged(stored, fresh) ==
  [f \in Files |->
    [existed |-> IF stored.has THEN stored.rec[f].existed ELSE fresh[f].existed,
     vars |-> [k \in Names |->
       LET old == stored.rec[f].vars[k]  new == fresh[f].vars[k] IN
       CASE ~old.kept -> new
         [] old.kept /\ new.kept -> [old EXCEPT !.written = new.written]
         [] OTHER -> old]]]

(***************************************************************************)
(* apply_link.                                                             *)
(***************************************************************************)
Set(p, j) == job' = [job EXCEPT ![p] = j]
At(p, pc) == job[p].pc = pc
End(p) == Set(p, Idle)

\* plan_link: the preview the user is shown and approves.
Preview(p, r) ==
  /\ At(p, "idle") /\ r \in routes
  /\ Linked(r) \/ \E s \in Slugs : ~InUse(s)
  /\ Set(p, [Idle EXCEPT !.pc = "preview", !.r = r, !.seen = files, !.port = port,
                         !.slug = IF Linked(r) THEN rows[r].slug ELSE FreshSlug])
  /\ UNCHANGED <<files, routes, rows, port, ghosts>>

\* The plan is made again; its digest binds the slug, the port and both contents.
Replan(p) ==
  LET j == job[p]
      same == j.r \in routes /\ j.seen = files /\ j.port = port IN
  /\ At(p, "preview")
  /\ IF same THEN Set(p, [j EXCEPT !.pc = "insert", !.existing = Linked(j.r)]) ELSE End(p)
  /\ UNCHANGED <<files, routes, rows, port, ghosts>>

\* add_project_link_with_slug, unless the plan found a row.
InsertLink(p) ==
  LET j == job[p] IN
  /\ At(p, "insert")
  /\ \/ j.existing /\ Set(p, [j EXCEPT !.pc = "readPrior", !.existing = FALSE]) /\ UNCHANGED rows
     \/ /\ ~j.existing /\ j.r \in routes /\ ~Linked(j.r)
        /\ rows' = [rows EXCEPT ![j.r] = [NoRow EXCEPT !.slug = j.slug]]
        /\ Set(p, [j EXCEPT !.pc = "readPrior", !.existing = FALSE])
     \/ ~j.existing /\ (j.r \notin routes \/ Linked(j.r)) /\ End(p) /\ UNCHANGED rows
  /\ UNCHANGED <<files, routes, port, ghosts>>

\* existing_prior, by slug.
ReadPrior(p) ==
  LET j == job[p] IN
  /\ At(p, "readPrior")
  /\ Set(p, [j EXCEPT !.pc = "update", !.todo = Files,
                      !.stored = IF rows[j.r].slug = j.slug THEN rows[j.r] ELSE NoRow])
  /\ UNCHANGED <<files, routes, rows, port, ghosts>>

\* update_link_env, by slug: nothing happens when the row is gone.  The row and its record
\* are committed before the files are touched.
UpdateLinkEnv(p) ==
  LET j == job[p]
      fresh == [f \in Files |-> Fresh(j.seen[f], j.r, Url(j.slug, j.port))] IN
  /\ At(p, "update")
  /\ rows' = IF rows[j.r].slug = j.slug
             THEN [rows EXCEPT ![j.r].has = TRUE, ![j.r].rec = Merged(j.stored, fresh)]
             ELSE rows
  /\ Set(p, [j EXCEPT !.pc = "write", !.stored = NoRow])
  /\ UNCHANGED <<files, routes, port, ghosts>>

\* atomic_write or write_new of what the plan says; a file that already says it is left
\* alone, and the first error ends the command.
WriteFile(p, f) ==
  LET j == job[p]  new == Planned(j.seen[f], j.r, Url(j.slug, j.port)) IN
  /\ At(p, "write") /\ f \in j.todo
  /\ \/ /\ new = j.seen[f] /\ UNCHANGED files /\ Set(p, [j EXCEPT !.todo = @ \ {f}])
     \/ /\ new # j.seen[f] /\ (j.seen[f].there \/ ~files[f].there)
        /\ files' = [files EXCEPT ![f] = new] /\ Set(p, [j EXCEPT !.todo = @ \ {f}])
     \/ new # j.seen[f] /\ UNCHANGED files /\ End(p)
  /\ UNCHANGED <<routes, rows, port, ghosts>>

LinkDone(p) ==
  /\ At(p, "write") /\ job[p].todo = {} /\ End(p)
  /\ UNCHANGED <<files, routes, rows, port, ghosts>>

(***************************************************************************)
(* unlink.                                                                 *)
(***************************************************************************)
\* With no row there is nothing to do; without an unlocked vault (disable and uninstall
\* may run without one) no sealed value can be opened.
Unlink(p, r, locked) ==
  /\ At(p, "idle") /\ Linked(r)
  /\ Set(p, [Idle EXCEPT !.pc = IF rows[r].has THEN "restore" ELSE "remove", !.r = r,
                         !.stored = IF rows[r].has THEN rows[r] ELSE NoRow,
                         !.locked = locked /\ rows[r].has,
                         !.todo = IF rows[r].has THEN Files ELSE {}])
  /\ UNCHANGED <<files, routes, rows, port, ghosts>>

Withheld(v, locked) == locked /\ v.prior # NoValue

\* restore_file, for one variable: how it is handled.
Outcome(cur, v, locked) ==
  LET prior == IF Withheld(v, locked) THEN NoValue ELSE v.prior IN
  CASE ~v.kept -> "none"
    [] v.kept /\ cur = NoValue /\ prior = NoValue -> "alreadyRestored"
    [] v.kept /\ cur # NoValue /\ cur = v.written ->
         IF Withheld(v, locked) THEN "priorNotRecorded" ELSE "restored"
    [] v.kept /\ cur # NoValue /\ cur # v.written /\ cur = prior -> "alreadyRestored"
    [] OTHER -> "leftUserEdit"

\* Variant: only an I/O error keeps the row.
SettledUnlessFailed(o) == TRUE
\* outcome_is_settled.
Settled(o) == o # "priorNotRecorded"

\* Variant: an assignment that was absent comes back empty.
RestoredBlank(c, rec, locked) ==
  [c EXCEPT !.vals = [k \in Names |->
     IF Outcome(c.vals[k], rec.vars[k], locked) # "restored" THEN c.vals[k]
     ELSE IF rec.vars[k].prior = NoValue THEN List({}) ELSE rec.vars[k].prior]]

Restored(c, rec, locked) ==
  [c EXCEPT !.vals = [k \in Names |->
     IF Outcome(c.vals[k], rec.vars[k], locked) = "restored" THEN rec.vars[k].prior
     ELSE c.vals[k]]]

\* One file is read; a missing one is settled, an unreadable one is not.
ReadFile(p, f) ==
  LET j == job[p]  rec == j.stored.rec[f]
      outcomes == {Outcome(files[f].vals[k], rec.vars[k], j.locked) : k \in Names} IN
  /\ At(p, "restore") /\ f \in j.todo
  /\ \/ ~files[f].there /\ Set(p, [j EXCEPT !.todo = @ \ {f}])
     \/ files[f].there /\ Set(p, [j EXCEPT !.todo = @ \ {f}, !.unsettled = TRUE])
     \/ /\ files[f].there
        /\ Set(p, [j EXCEPT !.todo = @ \ {f}, !.f = f, !.at = files[f],
                            !.unsettled = @ \/ \E o \in outcomes : ~Settled(o),
                            !.pc = IF "restored" \in outcomes THEN "writeBack" ELSE "restore"])
  /\ UNCHANGED <<files, routes, rows, port, ghosts>>

\* What was read is written back restored; a file the link created goes when nothing is
\* left in it.
WriteBack(p) ==
  LET j == job[p]
      was == j.stored.rec[j.f]
      new == Restored(j.at, was, j.locked)
      next == [j EXCEPT !.pc = "restore", !.f = Idle.f, !.at = NoFile] IN
  /\ At(p, "writeBack")
  /\ \/ /\ files' = [files EXCEPT ![j.f] = IF ~was.existed /\ new.vals = NoFile.vals
                                          THEN NoFile ELSE new]
        /\ Set(p, next)
     \/ UNCHANGED files /\ Set(p, [next EXCEPT !.unsettled = TRUE])
  /\ UNCHANGED <<routes, rows, port, ghosts>>

FilesDone(p) ==
  /\ At(p, "restore") /\ job[p].todo = {}
  /\ IF job[p].unsettled THEN End(p) ELSE Set(p, [Idle EXCEPT !.pc = "remove", !.r = job[p].r])
  /\ UNCHANGED <<files, routes, rows, port, ghosts>>

\* remove_project_link, by project and route.
RemoveLink(p) ==
  /\ At(p, "remove") /\ rows' = [rows EXCEPT ![job[p].r] = NoRow] /\ End(p)
  /\ UNCHANGED <<files, routes, port, ghosts>>

(***************************************************************************)
(* Everything else that touches the same state.                            *)
(***************************************************************************)
\* remove_route: the link rows of the route go with it (ON DELETE CASCADE).
RemoveRoute(r) ==
  /\ r \in routes /\ routes' = routes \ {r}
  /\ rows' = [rows EXCEPT ![r] = NoRow]
  /\ orphaned' = orphaned \cup ({rows[r].slug} \ {0})
  /\ UNCHANGED <<files, port, job, edits, mine, edited>>

AddRoute(r) ==
  /\ r \notin routes /\ routes' = routes \cup {r}
  /\ UNCHANGED <<files, rows, port, job, ghosts>>

\* `gateway serve --port`.
PersistPort ==
  /\ port < MaxPort /\ port' = port + 1
  /\ UNCHANGED <<files, routes, rows, job, ghosts>>

Untouched == \A r \in Routes : ~Linked(r)

UserPuts(f, c) ==
  LET changed == {k \in Names : c.vals[k] # files[f].vals[k]} IN
  /\ edits < MaxEdits /\ edits' = edits + 1
  /\ files' = [files EXCEPT ![f] = c]
  /\ mine' = [mine EXCEPT ![f] = [k \in Names |-> IF k \in changed THEN c.vals[k] ELSE @[k]]]
  /\ edited' = IF Untouched /\ \A p \in Jobs : At(p, "idle") THEN edited
               ELSE edited \cup ({f} \X changed)
  /\ UNCHANGED <<routes, rows, port, job, orphaned>>

UserEdits(f, k) ==
  \E v \in OwnValues(k) :
    /\ v # files[f].vals[k]
    /\ UserPuts(f, [there |-> TRUE, vals |-> [files[f].vals EXCEPT ![k] = v]])
UserDeletes(f) == files[f].there /\ UserPuts(f, NoFile)

\* The command dies where it is.
Die(p) == ~At(p, "idle") /\ End(p) /\ UNCHANGED <<files, routes, rows, port, ghosts>>

Link(p) ==
  \/ \E r \in Routes : Preview(p, r)
  \/ Replan(p) \/ InsertLink(p) \/ ReadPrior(p) \/ UpdateLinkEnv(p)
  \/ (\E f \in Files : WriteFile(p, f)) \/ LinkDone(p)
Restore(p) ==
  \/ \E r \in Routes, locked \in BOOLEAN : Unlink(p, r, locked)
  \/ (\E f \in Files : ReadFile(p, f)) \/ WriteBack(p) \/ FilesDone(p) \/ RemoveLink(p)

LinkNext ==
  \/ \E p \in Jobs : Link(p) \/ Restore(p) \/ Die(p)
  \/ \E r \in Routes : RemoveRoute(r) \/ AddRoute(r)
  \/ \E f \in Files : (\E k \in Names : UserEdits(f, k)) \/ UserDeletes(f)

LinkSpec == LinkInit /\ [][LinkNext]_linkVars

\* The same with a gateway whose port changes.
SpecPorts == LinkInit /\ [][LinkNext \/ PersistPort]_linkVars

(***************************************************************************)
(* Properties.                                                             *)
(***************************************************************************)
Quiet == \A p \in Jobs : At(p, "idle")
Points(f, v, s) == \E n \in 1..MaxPort : files[f].vals[v] = Url(s, n)

\* RA-013 and the record-first order of apply_link: a line that points at the gateway has
\* the row that can take it out again, whatever died, failed, was edited or was unlinked
\* without a key.  Rows that went with their route are the exception (RouteKeepsRecord).
LinesHaveLinks ==
  \A f \in Files, v \in Vars, s \in Slugs \ orphaned :
    Points(f, v, s) => \E r \in Routes : rows[r].slug = s

\* apply_link: "if the process dies between the two, the recorded prior state describes at
\* worst MORE restoration than needed ..., never less": between commands unlink recognises
\* every line that is the writer's own.
RecordNeverLess ==
  Quiet => \A f \in Files, r \in Routes :
    LET v == VarOf[r] IN
    Linked(r) /\ rows[r].slug \notin orphaned /\ Points(f, v, rows[r].slug) =>
      rows[r].has /\ rows[r].rec[f].vars[v].written = files[f].vals[v]

\* "unlink and disable restore the exact prior state": once no link is left, an
\* assignment the user did not touch in the meantime is what the user last made it,
\* through any order of links, re-links, failures and unlinks.
UntouchedReturns ==
  (Quiet /\ Untouched /\ orphaned = {}) =>
    \A f \in Files, k \in Names : <<f, k>> \notin edited => files[f].vals[k] = mine[f][k]

\* The same sentence, for rows that go because their route is removed.
RouteKeepsRecord ==
  \A f \in Files, v \in Vars, s \in Slugs :
    Points(f, v, s) => \E r \in Routes : rows[r].slug = s

\* GW-12: while a file sends a project's requests to the loopback gateway, its NO_PROXY
\* keeps them from a proxy.
BypassesProxy ==
  Quiet => \A f \in Files, v \in Vars, s \in Slugs :
    Points(f, v, s) /\ <<f, NoProxy>> \notin edited =>
      files[f].vals[NoProxy] # NoValue /\ Loopback \in files[f].vals[NoProxy].hosts
=============================================================================

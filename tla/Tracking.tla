------------------------------ MODULE Tracking ------------------------------
(***************************************************************************)
(* One tracking setup (crates/tracking): the row of tracking_setups, and   *)
(* the processes that apply it, undo it and refresh it from the observed   *)
(* traffic.  Every statement of a process is a step of its own, so what a  *)
(* process read may be out of date when it writes; only row_version tells. *)
(* The project's links and routes are sets; how a link rewrites `.env` is  *)
(* the module EnvLink.  Routes that an apply re-enables, the health report *)
(* and the attribution step are not modelled.                              *)
(***************************************************************************)
EXTENDS FiniteSets, FiniteSetsExt, Integers

CONSTANTS
  Actors,     \* processes: the CLI, the desktop
  Routes,     \* the routes of the plan, one per provider
  MaxOps,     \* bound: commands started
  MaxTime,    \* bound: clock readings are 1..MaxTime
  MaxEvents,  \* bound: requests recorded
  Skew        \* MAX_CLOCK_SKEW_SECS

ASSUME TrackingAssumption ==
  /\ MaxOps \in Nat /\ MaxTime \in Nat \ {0} /\ MaxEvents \in Nat /\ Skew \in Nat
  /\ IsFiniteSet(Routes)

VARIABLES
  row,     \* the row of tracking_setups
  links,   \* rows of gateway_project_links of the project
  table,   \* rows of gateway_routes
  events,  \* rows of runtime_request_events of the project (`of`: the session, history)
  actor,   \* [Actors -> a command, with what it holds in memory]
  ops,     \* commands started so far
  log      \* every request ever recorded: its time and its session (history)

vars == <<row, links, table, events, actor, ops, log>>

Watchable == {"awaiting", "observed", "partial", "attention"}
States == Watchable \cup {"none", "not_configured", "applying"}
Times == 0..MaxTime   \* 0: NULL
\* now_rfc3339: the clock moves between any two steps, also back, so a reading is any time.
Readings == 1..MaxTime

\* PlanSummary; `of` is the session of the apply that wrote it (history).
NoSummary == [of |-> 0, created |-> {}, completed |-> FALSE]
NoRow == [state |-> "none", version |-> 0, session |-> 0, summary |-> NoSummary,
          appliedAt |-> 0, appliedRow |-> 0, firstTraffic |-> 0, firstVerified |-> 0,
          failedAt |-> 0]

\* A command between two statements: its handle on the row, and the rest it remembers.
Idle == [pc |-> "idle", own |-> NoRow, created |-> {}, held |-> {}, todo |-> {}, rowid |-> 0,
         next |-> "none", clears |-> FALSE, seen |-> 0, tries |-> 0, complete |-> TRUE]

Pcs == {"idle", "upsert", "service", "routes", "provenance", "links", "watermark", "summary",
        "end", "failRead", "failWrite", "judge", "correct", "first", "verified",
        "undoCheck", "undoLinks", "undoRoutes", "undoRemove", "undoClose", "undoClear"}

Summaries == [of : Nat, created : SUBSET Routes, completed : BOOLEAN]
Rows == [state : States, version : Nat, session : Nat, summary : Summaries,
         appliedAt : Times, appliedRow : Nat, firstTraffic : Times, firstVerified : Times,
         failedAt : Times]
Commands == [pc : Pcs, own : Rows, created : SUBSET Routes, held : SUBSET Routes,
             todo : SUBSET Routes, rowid : Nat, next : States, clears : BOOLEAN, seen : Times,
             tries : 0..3, complete : BOOLEAN]
Events == [row : Nat \ {0}, at : Readings, route : Routes, of : Nat]

\* A verified row has been applied, and a failure has a state that shows it.
RowOK(r) ==
  /\ r.state \in {"observed", "partial"} => r.appliedAt # 0 /\ r.summary.completed
  /\ r.failedAt # 0 => r.state = "attention"

TypeOK ==
  /\ row \in Rows /\ RowOK(row) /\ links \subseteq Routes /\ table \subseteq Routes
  /\ events \subseteq Events /\ ops \in 0..MaxOps
  /\ actor \in [Actors -> Commands]

Init ==
  /\ row = NoRow /\ links = {} /\ table \in SUBSET Routes /\ events = {}
  /\ actor = [a \in Actors |-> Idle] /\ ops = 0 /\ log = {}

\* What a handle is still used for once it only guards a write.
Handle(r) == [NoRow EXCEPT !.version = r.version, !.session = r.session]

At(a, pc) == actor[a].pc = pc
Set(a, x) == actor' = [actor EXCEPT ![a] = x]
End(a) == Set(a, Idle)
Quiet == \A a \in Actors : At(a, "idle")

\* newest_event_rowid; SQLite gives a new row one more than the largest.
NewestRow == Max({e.row : e \in events} \cup {0})

(***************************************************************************)
(* The guarded writes.                                                     *)
(***************************************************************************)
\* Variant: last writer wins.
CurrentBlind(own) == TRUE
\* WHERE row_version = ?: the row is still the one the caller read.
Current(own) == own.version = row.version

\* Variant: only health writes compare versions.
CurrentSummaryBlind(own) == TRUE
\* cas_write_summary has the same predicate.
CurrentSummary(own) == Current(own)

Bumped(r) == [r EXCEPT !.version = row.version + 1]

\* cas_write_health on success.
Health(own, next, failed) == Bumped([row EXCEPT !.state = next, !.failedAt = failed])

\* can_transition_to, for the two targets transition() is called with besides not_configured.
CanFail(state) == state \in {"applying"} \cup Watchable

\* The `fail!` macro: three attempts to leave the failure on the row, each of which reads
\* the row and judges the transition anew.
Fail(a) == Set(a, [Idle EXCEPT !.pc = "failRead"])

FailRead(a) ==
  /\ At(a, "failRead")
  /\ IF CanFail(row.state) THEN Set(a, [actor[a] EXCEPT !.pc = "failWrite", !.own = Handle(row)])
     ELSE End(a)
  /\ UNCHANGED <<row, links, table, events, ops, log>>

FailWrite(a) ==
  LET x == actor[a] IN
  /\ At(a, "failWrite")
  /\ IF Current(x.own)
     THEN (\E now \in Readings : row' = Health(x.own, "attention", now)) /\ End(a)
     ELSE /\ UNCHANGED row
          /\ IF x.tries = 2 THEN End(a)
             ELSE Set(a, [Idle EXCEPT !.pc = "failRead", !.tries = x.tries + 1])
  /\ UNCHANGED <<links, table, events, ops, log>>

(***************************************************************************)
(* apply.                                                                  *)
(***************************************************************************)
\* The routes the previous summary says the setup created are read before it is cleared.
StartApply(a) ==
  /\ At(a, "idle") /\ ops < MaxOps /\ ops' = ops + 1
  /\ Set(a, [Idle EXCEPT !.pc = "upsert", !.held = row.summary.created])
  /\ UNCHANGED <<row, links, table, events, log>>

\* upsert_setup: a new verification session; the artifacts of the last one are cleared.
Upsert(a) ==
  LET next == [NoRow EXCEPT !.state = "applying", !.version = row.version + 1,
                            !.session = row.session + 1,
                            !.appliedRow = NewestRow, !.firstVerified = row.firstVerified] IN
  /\ At(a, "upsert") /\ row' = next
  /\ Set(a, [actor[a] EXCEPT !.pc = "service", !.own = Handle(next)])
  /\ UNCHANGED <<links, table, events, ops, log>>

\* ensure_port and ensure_service.
EnsureService(a) ==
  /\ At(a, "service")
  /\ Fail(a) \/ Set(a, [actor[a] EXCEPT !.pc = "routes", !.todo = Routes])
  /\ UNCHANGED <<row, links, table, events, ops, log>>

\* add_manifest_route: created, or already there and reused.
EnsureRoute(a, r) ==
  LET x == actor[a] IN
  /\ At(a, "routes") /\ r \in x.todo
  /\ \/ UNCHANGED table /\ Fail(a)
     \/ /\ table' = table \cup {r}
        /\ Set(a, [x EXCEPT !.todo = @ \ {r}, !.created = IF r \in table THEN @ ELSE @ \cup {r},
                            !.pc = IF x.todo = {r} THEN "provenance" ELSE "routes"])
  /\ UNCHANGED <<row, links, events, ops, log>>

\* record_routes_created: this run's routes and those of earlier runs, before anything else
\* can fail.
RecordRoutes(a) ==
  LET x == actor[a]
      created == x.created \cup x.held
      next == Bumped([row EXCEPT !.summary = [of |-> x.own.session, created |-> created,
                                              completed |-> FALSE]]) IN
  /\ At(a, "provenance")
  /\ IF CurrentSummary(x.own)
     THEN /\ row' = next
          /\ Set(a, [x EXCEPT !.pc = "links", !.own = Handle(next), !.created = created, !.held = {},
                              !.todo = Routes])
     ELSE Fail(a) /\ UNCHANGED row
  /\ UNCHANGED <<links, table, events, ops, log>>

\* The route key, apply_link for each route (its row needs the route's), the path check.
EnsureLink(a, r) ==
  LET x == actor[a] IN
  /\ At(a, "links") /\ r \in x.todo
  /\ \/ UNCHANGED links /\ Fail(a)
     \/ /\ r \in table /\ links' = links \cup {r}
        /\ Set(a, [x EXCEPT !.todo = @ \ {r}, !.pc = IF x.todo = {r} THEN "watermark" ELSE "links"])
  /\ UNCHANGED <<row, table, events, ops, log>>

PathCheckFails(a) ==
  /\ At(a, "watermark") /\ Fail(a)
  /\ UNCHANGED <<row, links, table, events, ops, log>>

\* record_applied reads the newest row id, then writes it with the time and the summary.
ReadWatermark(a) ==
  /\ At(a, "watermark")
  /\ Set(a, [actor[a] EXCEPT !.pc = "summary", !.rowid = NewestRow])
  /\ UNCHANGED <<row, links, table, events, ops, log>>

RecordApplied(a) ==
  LET x == actor[a]
      next == Bumped([row EXCEPT !.summary = [of |-> x.own.session, created |-> x.created,
                                              completed |-> TRUE], !.appliedRow = x.rowid]) IN
  /\ At(a, "summary")
  /\ IF CurrentSummary(x.own)
     THEN /\ \E now \in Readings : row' = [next EXCEPT !.appliedAt = now]
          /\ Set(a, [Idle EXCEPT !.pc = "end", !.own = Handle(row')])
     ELSE Fail(a) /\ UNCHANGED row
  /\ UNCHANGED <<links, table, events, ops, log>>

\* transition to awaiting_restart or awaiting_first_request.
EndApply(a) ==
  /\ At(a, "end")
  /\ IF Current(actor[a].own) THEN row' = Health(actor[a].own, "awaiting", 0) /\ End(a)
     ELSE Fail(a) /\ UNCHANGED row
  /\ UNCHANGED <<links, table, events, ops, log>>

(***************************************************************************)
(* refresh_with.                                                           *)
(***************************************************************************)
StartRefresh(a) ==
  /\ At(a, "idle") /\ ops < MaxOps /\ ops' = ops + 1 /\ row.state # "none"
  /\ Set(a, [Idle EXCEPT !.pc = "judge", !.own = row])
  /\ UNCHANGED <<row, links, table, events, log>>

\* Variant: only the clocks decide.
AdmissibleByTime(own, e, now) == e.at >= own.appliedAt /\ e.at <= now + Skew
\* An observation of this session: recorded after the apply and claiming a time after it,
\* and no time the machine says has not happened yet.
Admissible(own, e, now) == e.row > own.appliedRow /\ e.at >= own.appliedAt /\ e.at <= now + Skew

Providers(own) == IF own.summary.completed THEN Routes ELSE {}

\* What the observations of one reading say about the row it holds: the next state, whether
\* the failure record goes, the earliest observation.  At most three readings write.
Seen(own, now) == {e \in events : Admissible(own, e, now) /\ e.route \in Providers(own)}
Supported(own) == own.state \in Watchable /\ Providers(own) # {} /\ own.appliedAt # 0
FailureIsNewer(own, seen) == own.failedAt # 0 /\ \A e \in seen : own.failedAt > e.at

Derived(own, seen) ==
  CASE own.state \in {"observed", "partial"} /\ seen = {} -> "awaiting"
    [] Supported(own) /\ seen # {} ->
         IF FailureIsNewer(own, seen) THEN "attention"
         ELSE IF {e.route : e \in seen} = Providers(own) THEN "observed" ELSE "partial"
    [] OTHER -> own.state

Judge(a) ==
  LET x == actor[a]  own == x.own IN
  /\ At(a, "judge")
  /\ \E now \in Readings :
       LET seen == Seen(own, now)
           derived == Derived(own, seen)
           earliest == IF Supported(own) /\ seen # {} THEN Min({e.at : e \in seen}) ELSE 0 IN
       IF x.tries = 3 \/ (derived = own.state /\ earliest = 0) THEN End(a)
       ELSE Set(a, [x EXCEPT !.next = derived, !.clears = ~FailureIsNewer(own, seen),
                             !.seen = earliest,
                             !.pc = IF derived = own.state THEN "first" ELSE "correct"])
  /\ UNCHANGED <<row, links, table, events, ops, log>>

\* write_derived keeps the failure record unless the evidence is newer.
Kept(x) == IF x.clears THEN 0 ELSE x.own.failedAt

\* write_derived; a conflict reads the row again.
Correct(a) ==
  LET x == actor[a]  failed == Kept(x) IN
  /\ At(a, "correct")
  /\ IF Current(x.own)
     THEN /\ row' = Health(x.own, x.next, failed)
          /\ IF x.seen = 0 THEN End(a)
             ELSE Set(a, [x EXCEPT !.pc = "first", !.own = Health(x.own, x.next, failed),
                                   !.next = "none", !.clears = FALSE])
     ELSE /\ UNCHANGED row
          /\ Set(a, [Idle EXCEPT !.pc = "judge", !.own = row, !.tries = x.tries + 1])
  /\ UNCHANGED <<links, table, events, ops, log>>

\* The two write-once watermarks, outside the row version.
WriteFirstTraffic(a) ==
  LET x == actor[a] IN
  /\ At(a, "first")
  /\ row' = IF x.own.firstTraffic = 0 /\ row.firstTraffic = 0
            THEN [row EXCEPT !.firstTraffic = x.seen] ELSE row
  /\ IF x.own.firstVerified = 0 THEN Set(a, [Idle EXCEPT !.pc = "verified", !.seen = x.seen])
     ELSE End(a)
  /\ UNCHANGED <<links, table, events, ops, log>>

WriteFirstVerified(a) ==
  /\ At(a, "verified")
  /\ row' = IF row.firstVerified = 0 THEN [row EXCEPT !.firstVerified = actor[a].seen] ELSE row
  /\ End(a)
  /\ UNCHANGED <<links, table, events, ops, log>>

(***************************************************************************)
(* undo.                                                                   *)
(***************************************************************************)
\* The caller reads the setup, and undo asks whether it is still that before it starts.
StartUndo(a) ==
  /\ At(a, "idle") /\ ops < MaxOps /\ ops' = ops + 1 /\ row.state # "none"
  /\ Set(a, [Idle EXCEPT !.pc = "undoCheck", !.own = row])
  /\ UNCHANGED <<row, links, table, events, log>>

\* The links are taken from the table and not from the plan.
CheckUndo(a) ==
  LET x == actor[a] IN
  /\ At(a, "undoCheck")
  /\ IF Current(x.own)
     THEN Set(a, [x EXCEPT !.pc = "undoLinks", !.own = Handle(row), !.todo = links,
                           !.created = x.own.summary.created, !.complete = x.own.summary.completed \/ links = {}])
     ELSE End(a)
  /\ UNCHANGED <<row, links, table, events, ops, log>>

\* envlink::unlink removes the row, keeps it for a retry, or ends the command.
UndoLink(a, r) ==
  LET x == actor[a] IN
  /\ At(a, "undoLinks") /\ r \in x.todo
  /\ \/ links' = links \ {r} /\ Set(a, [x EXCEPT !.todo = @ \ {r}])
     \/ UNCHANGED links /\ Set(a, [x EXCEPT !.todo = @ \ {r}, !.complete = FALSE])
     \/ UNCHANGED links /\ End(a)
  /\ UNCHANGED <<row, table, events, ops, log>>

LinksUndone(a) ==
  LET x == actor[a] IN
  /\ At(a, "undoLinks") /\ x.todo = {}
  /\ Set(a, [x EXCEPT !.pc = "undoRoutes", !.todo = x.created, !.created = {}])
  /\ UNCHANGED <<row, links, table, events, ops, log>>

\* A created route is removed unless a link uses it; that is asked first.
UndoRoute(a, r) ==
  LET x == actor[a] IN
  /\ At(a, "undoRoutes") /\ r \in x.todo
  /\ Set(a, IF r \in links THEN [x EXCEPT !.todo = @ \ {r}]
            ELSE [x EXCEPT !.pc = "undoRemove", !.held = {r}])
  /\ UNCHANGED <<row, links, table, events, ops, log>>

\* remove_route takes the links of the route with it.
UndoRemove(a) ==
  LET x == actor[a] IN
  /\ At(a, "undoRemove")
  /\ table' = table \ x.held /\ links' = links \ x.held
  /\ Set(a, [x EXCEPT !.pc = "undoRoutes", !.todo = @ \ x.held, !.held = {}])
  /\ UNCHANGED <<row, events, ops, log>>

\* The closing transition, guarded by the version undo started from.
CloseUndo(a) ==
  LET x == actor[a] IN
  /\ (At(a, "undoRoutes") /\ x.todo = {}) \/ At(a, "undoClear")
  /\ CASE At(a, "undoClear") ->
            /\ row' = IF Current(x.own)
                      THEN Bumped([row EXCEPT !.summary = NoSummary, !.appliedAt = 0,
                                              !.firstTraffic = 0])
                      ELSE row
            /\ End(a)
       [] ~At(a, "undoClear") /\ Current(x.own) /\ x.complete ->
            /\ row' = Health(x.own, "not_configured", 0)
            /\ Set(a, [Idle EXCEPT !.pc = "undoClear", !.own = Handle(row')])
       [] ~At(a, "undoClear") /\ Current(x.own) /\ ~x.complete /\ CanFail(row.state) ->
            (\E now \in Readings : row' = Health(x.own, "attention", now)) /\ End(a)
       [] OTHER -> UNCHANGED row /\ End(a)
  /\ UNCHANGED <<links, table, events, ops, log>>

(***************************************************************************)
(* Everything else.                                                        *)
(***************************************************************************)
Trace(e) == [n |-> Cardinality(log), at |-> e.at, of |-> e.of]

\* The gateway records a request of the linked project; its clock says what it says.
Record(r) ==
  /\ Cardinality(log) < MaxEvents /\ r \in links
  /\ \E at \in Readings :
       LET e == [row |-> NewestRow + 1, at |-> at, route |-> r, of |-> row.session] IN
       events' = events \cup {e} /\ log' = log \cup {Trace(e)}
  /\ UNCHANGED <<row, links, table, actor, ops>>

\* The user erases the recorded history.
Erase ==
  /\ events # {} /\ events' = {}
  /\ UNCHANGED <<row, links, table, actor, ops, log>>

Die(a) == ~At(a, "idle") /\ End(a) /\ UNCHANGED <<row, links, table, events, ops, log>>

Apply(a) ==
  \/ StartApply(a) \/ Upsert(a) \/ EnsureService(a)
  \/ \E r \in Routes : EnsureRoute(a, r) \/ EnsureLink(a, r)
  \/ RecordRoutes(a) \/ PathCheckFails(a) \/ ReadWatermark(a) \/ RecordApplied(a) \/ EndApply(a)
  \/ FailRead(a) \/ FailWrite(a)
Refresh(a) ==
  StartRefresh(a) \/ Judge(a) \/ Correct(a) \/ WriteFirstTraffic(a) \/ WriteFirstVerified(a)
Undo(a) ==
  \/ StartUndo(a) \/ CheckUndo(a) \/ LinksUndone(a) \/ UndoRemove(a) \/ CloseUndo(a)
  \/ \E r \in Routes : UndoLink(a, r) \/ UndoRoute(a, r)

Next ==
  \/ \E a \in Actors : Apply(a) \/ Refresh(a) \/ Undo(a) \/ Die(a)
  \/ \E r \in Routes : Record(r)
  \/ Erase

Spec == Init /\ [][Next]_vars

(***************************************************************************)
(* Properties.                                                             *)
(***************************************************************************)
\* NEW-31: the plan summary on the row, which undo acts on, is that of the session the row
\* is in, however two applies and an undo are interleaved.
RecordedMatchesSession ==
  row.summary # NoSummary => row.summary.of = row.session

\* RA-005, ZFT-006: a row says traffic was observed only if a request was recorded after
\* the session was opened, whatever earlier sessions left in the table, whatever the
\* writers' clocks say and whoever refreshes from an old handle.
EvidenceOfSession ==
  row.state \in {"observed", "partial"} => \E e \in log : e.of = row.session

\* ZFT-006, VER-01: within a session a recorded failure goes only for an observation that
\* is not older than that failure; a refresh which read the row before the failure was
\* recorded does not erase it.
FailureKept ==
  [][row.failedAt # 0 /\ row'.failedAt = 0 /\ row'.session = row.session
       /\ row'.state # "not_configured"
     => \E e \in log : e.of = row.session /\ e.at >= row.failedAt]_vars

\* NEW-32: a route that is there only because the setup created it is known to the row.
\* (`before`: the routes there were.)  The code does not keep this (see the README).
ProvenanceKept(before) ==
  Quiet => table \ before \subseteq row.summary.created

\* The first traffic of the row's session is that session's.  Nor does it keep this.
FirstTrafficOfSession ==
  row.firstTraffic # 0 => \E e \in log : e.of = row.session /\ e.at = row.firstTraffic
=============================================================================

-------------------------- MODULE Tracking_proofs --------------------------
(***************************************************************************)
(* Theorems about Tracking, for any processes, routes, clock readings and  *)
(* number of requests.                                                     *)
(*                                                                         *)
(* A command decides from a handle that may be out of date.  What it knows *)
(* (Knows) is therefore said of a handle that is still current, and every  *)
(* guarded write takes that away from all other commands at once, because  *)
(* the version only grows (WriteStep).  What makes evidence belong to a    *)
(* session is a fact about row ids (EventsOK): requests recorded before    *)
(* the session are not beyond its watermark, from the moment the session   *)
(* is opened and again when the watermark is moved.                        *)
(***************************************************************************)
EXTENDS Tracking, WellFoundedInduction, TLAPS

ApplyPcs == {"service", "routes", "provenance", "links", "watermark", "summary", "end"}
ReadPcs == {"judge", "correct", "undoCheck"}
Verified == {"observed", "partial"}

\* What a whole copy of the row shares with it while it is current.
Same(own, r) ==
  /\ own.state = r.state /\ own.session = r.session /\ own.summary = r.summary
  /\ own.appliedAt = r.appliedAt /\ own.appliedRow = r.appliedRow /\ own.failedAt = r.failedAt

Witnessed(session, L) == \E t \in L : t.of = session
Answered(session, failed, L) == \E t \in L : t.of = session /\ t.at >= failed

\* The rows of earlier sessions are not beyond a watermark.
Below(E, session, mark) == \A e \in E : e.of < session => e.row <= mark

Knows(x, r, E, L) ==
  /\ RowOK(x.own) /\ x.own.version <= r.version
  /\ x.pc \in {"correct", "failRead", "failWrite"} => x.tries # 3
  /\ x.pc = "correct" =>
       /\ x.next \in Verified => x.own.appliedAt # 0 /\ x.own.summary.completed
       /\ ~x.clears /\ x.own.failedAt # 0 => x.next = "attention"
  /\ x.own.version = r.version =>
       /\ x.pc \in ApplyPcs => x.own.session = r.session /\ r.state = "applying"
       /\ x.pc \in ReadPcs => Same(x.own, r)
       /\ x.pc = "undoClear" => r.state = "not_configured"
       /\ x.pc = "summary" => Below(E, r.session, x.rowid)
       /\ x.pc = "correct" /\ x.next \in Verified => Witnessed(r.session, L)
       /\ x.pc = "correct" /\ x.clears /\ r.failedAt # 0 => Answered(r.session, r.failedAt, L)

RowFits(r, L) ==
  /\ RowOK(r)
  /\ r.summary # NoSummary => r.summary.of = r.session
  /\ r.state \in Verified => Witnessed(r.session, L)

EventsOK(r, E, L) ==
  /\ \A e \in E : e.of <= r.session /\ \E t \in L : t.of = e.of /\ t.at = e.at
  /\ Below(E, r.session, r.appliedRow)
  /\ \E m \in {e.row : e \in E} \cup {0} : \A n \in {e.row : e \in E} \cup {0} : m >= n

Inv ==
  /\ TypeOK /\ RowFits(row, log) /\ EventsOK(row, events, log)
  /\ \A a \in Actors : Knows(actor[a], row, events, log)

----------------------------------------------------------------------------
\* A set of natural numbers that is not empty has a least element, which is its Min.
LEMMA LeastIn ==
  ASSUME NEW S \in SUBSET Nat, S # {}
  PROVE  Min(S) \in S
<1> DEFINE less == {p \in Nat \X Nat : p[1] < p[2]}
<1>1. less = OpToRel(<, Nat)
  BY DEF OpToRel
<1>2. IsWellFoundedOn(less, Nat)
  BY <1>1, NatLessThanWellFounded
<1> HIDE DEF less
<1>3. PICK x \in S : \A y \in S : ~(<<y, x>> \in less)
  BY <1>2, WFMin
<1>4. ASSUME NEW y \in S PROVE x =< y
  <2>1. x \in Nat /\ y \in Nat /\ <<y, x>> \in Nat \X Nat
    OBVIOUS
  <2>2. ~(y < x)
    <3>1. ASSUME y < x PROVE <<y, x>> \in less
      BY <2>1, <3>1, <<y, x>>[1] = y, <<y, x>>[2] = x DEF less
    <3>2. QED
      BY <3>1, <1>3
  <2>3. QED
    BY <2>1, <2>2
<1>5. QED
  BY <1>4 DEF Min

\* The newest row id is that of no event before it, which needs the finitely many events
\* that were ever recorded (EventsOK keeps a greatest one).
LEMMA Newest ==
  ASSUME TypeOK, EventsOK(row, events, log)
  PROVE  NewestRow \in Nat /\ \A e \in events : e.row <= NewestRow
<1> DEFINE S == {e.row : e \in events} \cup {0}
<1>1. S \subseteq Nat
  BY DEF TypeOK, Events
<1>2. \E m \in S : \A n \in S : m >= n
  BY DEF EventsOK
<1>3. Max(S) \in S /\ \A n \in S : Max(S) >= n
  BY <1>2 DEF Max
<1>4. QED
  BY <1>1, <1>3 DEF NewestRow

\* The resting command knows nothing.
LEMMA IdleOK ==
  /\ NoSummary \in Summaries /\ NoRow \in Rows /\ RowOK(NoRow) /\ Idle \in Commands
  /\ Idle.own = NoRow /\ Idle.pc = "idle" /\ Idle.tries = 0 /\ NoRow.version = 0
<1> USE TrackingAssumption
<1>1. NoSummary \in Summaries /\ NoRow \in Rows
  BY DEF NoSummary, Summaries, NoRow, Rows, States, Times
<1>2. QED
  BY <1>1 DEF NoRow, RowOK, Idle, Commands, Pcs, States, Times

LEMMA Resting ==
  ASSUME NEW r \in Rows, NEW E, NEW L
  PROVE  Knows(Idle, r, E, L)
BY IdleOK DEF Knows, ApplyPcs, ReadPcs, Rows

\* A failing apply starts its three attempts without a handle.
LEMMA Failing ==
  ASSUME NEW r \in Rows, NEW E, NEW L
  PROVE  /\ [Idle EXCEPT !.pc = "failRead"] \in Commands
         /\ Knows([Idle EXCEPT !.pc = "failRead"], r, E, L)
<1> DEFINE y == [Idle EXCEPT !.pc = "failRead"]
<1>1. y \in Commands /\ y.pc = "failRead" /\ y.own = NoRow /\ y.tries = 0
  BY IdleOK DEF Commands, Pcs, Idle
<1> HIDE DEF y
<1>2. Knows(y, r, E, L)
  BY <1>1, IdleOK DEF Knows, ApplyPcs, ReadPcs, Rows
<1>3. QED
  BY <1>1, <1>2 DEF y

\* A handle guards like the row it was taken from.
LEMMA HandleOK ==
  ASSUME NEW r \in Rows
  PROVE  /\ Handle(r) \in Rows /\ RowOK(Handle(r))
         /\ Handle(r).version = r.version /\ Handle(r).session = r.session
<1>1. Handle(r) = [NoRow EXCEPT !.version = r.version, !.session = r.session]
  BY DEF Handle
<1>2. r.version \in Nat /\ r.session \in Nat
  BY DEF Rows
<1>3. QED
  BY <1>1, <1>2, IdleOK DEF Rows, RowOK, NoRow

----------------------------------------------------------------------------
\* A command goes on, and the row and the events stay.
LEMMA CommandStep ==
  ASSUME Inv, NEW a \in Actors, NEW y \in Commands, actor' = [actor EXCEPT ![a] = y],
         UNCHANGED <<row, events, log>>,
         links' \subseteq Routes, table' \subseteq Routes, ops' \in 0..MaxOps,
         Knows(y, row, events, log)
  PROVE  Inv'
<1>1. TypeOK'
  BY DEF Inv, TypeOK
<1>2. RowFits(row, log)' /\ EventsOK(row, events, log)'
  BY DEF Inv
<1>3. \A b \in Actors : Knows(actor'[b], row, events, log)
  BY DEF Inv, TypeOK
<1>4. QED
  BY <1>1, <1>2, <1>3 DEF Inv

\* A guarded write: no other handle is current any more.
LEMMA WriteStep ==
  ASSUME Inv, NEW a \in Actors, NEW y \in Commands, actor' = [actor EXCEPT ![a] = y],
         NEW r \in Rows, row' = r, r.version = row.version + 1,
         UNCHANGED <<links, table, events, ops, log>>,
         RowFits(r, log), EventsOK(r, events, log), Knows(y, r, events, log)
  PROVE  Inv'
<1>1. TypeOK'
  BY DEF Inv, TypeOK, RowFits
<1>2. RowFits(row, log)' /\ EventsOK(row, events, log)'
  OBVIOUS
<1>3. ASSUME NEW b \in Actors PROVE Knows(actor'[b], r, events, log)
  <2>1. CASE b = a
    BY <2>1 DEF Inv, TypeOK
  <2>2. CASE b # a
    <3>1. actor'[b] = actor[b] /\ actor[b] \in Commands
      BY <2>2 DEF Inv, TypeOK
    <3>2. actor[b].own.version \in Nat /\ row.version \in Nat
      BY <3>1 DEF Commands, Rows, Inv, TypeOK
    <3>3. Knows(actor[b], row, events, log)
      BY DEF Inv
    <3>4. actor[b].own.version <= r.version /\ actor[b].own.version # r.version
      BY <3>2, <3>3 DEF Knows
    <3>5. QED
      BY <3>1, <3>3, <3>4 DEF Knows
  <2>3. QED
    BY <2>1, <2>2
<1>4. QED
  BY <1>1, <1>2, <1>3 DEF Inv

\* What Inv says of one command and of the row.
LEMMA Facts ==
  ASSUME Inv, NEW a \in Actors
  PROVE  /\ actor[a] \in Commands /\ actor[a].own \in Rows /\ Knows(actor[a], row, events, log)
         /\ row \in Rows /\ row.version \in Nat /\ actor[a].own.version \in Nat
         /\ links \subseteq Routes /\ table \subseteq Routes /\ ops \in 0..MaxOps
         /\ row.summary \in Summaries /\ actor[a].own.summary \in Summaries
BY DEF Inv, TypeOK, Commands, Rows

\* The failing apply.
LEMMA FailStep ==
  ASSUME Inv, NEW a \in Actors, Fail(a), UNCHANGED <<row, events, log, ops>>,
         links' \subseteq Routes, table' \subseteq Routes
  PROVE  Inv'
<1>1. PICK y : y = [Idle EXCEPT !.pc = "failRead"]
  OBVIOUS
<1>2. y \in Commands /\ Knows(y, row, events, log)
  BY <1>1, Failing, Facts
<1>3. QED
  BY <1>1, <1>2, Facts, CommandStep DEF Fail, Set

\* The command ends.
LEMMA EndStep ==
  ASSUME Inv, NEW a \in Actors, End(a), UNCHANGED <<row, events, log, ops>>,
         links' \subseteq Routes, table' \subseteq Routes
  PROVE  Inv'
<1>1. Idle \in Commands /\ Knows(Idle, row, events, log)
  BY IdleOK, Resting, Facts
<1>2. QED
  BY <1>1, Facts, CommandStep DEF End, Set

\* A command keeps its handle and moves between two points at which it knows the same of it.
LEMMA MoveOn ==
  ASSUME Inv, NEW a \in Actors, NEW y \in Commands, actor' = [actor EXCEPT ![a] = y],
         UNCHANGED <<row, events, log, ops>>, links' \subseteq Routes, table' \subseteq Routes,
         y.own = actor[a].own,
         \/ y.pc \in ApplyPcs \ {"summary"} /\ actor[a].pc \in ApplyPcs
         \/ y.pc \in {"undoLinks", "undoRoutes", "undoRemove"}
  PROVE  Inv'
<1>1. Knows(y, row, events, log)
  BY Facts DEF Knows, ApplyPcs, ReadPcs
<1>2. QED
  BY <1>1, Facts, CommandStep

LEMMA FailReads ==
  ASSUME Inv, NEW a \in Actors, FailRead(a)
  PROVE  Inv'
<1> DEFINE y == [actor[a] EXCEPT !.pc = "failWrite", !.own = Handle(row)]
<1>1. CASE CanFail(row.state)
  <2>1. /\ y \in Commands /\ y.pc = "failWrite" /\ y.own = Handle(row)
        /\ y.tries = actor[a].tries
    BY Facts, HandleOK DEF Commands, Pcs
  <2>2. actor[a].tries # 3
    BY Facts DEF FailRead, At, Knows
  <2>3. actor' = [actor EXCEPT ![a] = y] /\ UNCHANGED <<row, links, table, events, ops, log>>
    BY <1>1 DEF FailRead, Set
  <2> HIDE DEF y
  <2>4. Knows(y, row, events, log)
    BY <2>1, <2>2, Facts, HandleOK DEF Knows, ApplyPcs, ReadPcs
  <2>5. QED
    BY <2>1, <2>3, <2>4, Facts, CommandStep
<1>2. CASE ~CanFail(row.state)
  BY <1>2, Facts, EndStep DEF FailRead
<1>3. QED
  BY <1>1, <1>2

LEMMA StartsApply ==
  ASSUME Inv, NEW a \in Actors, StartApply(a)
  PROVE  Inv'
<1> DEFINE y == [Idle EXCEPT !.pc = "upsert", !.held = row.summary.created]
<1>1. y \in Commands /\ y.pc = "upsert" /\ y.own = NoRow /\ y.tries = 0
  BY Facts, IdleOK DEF Commands, Pcs, Summaries, Idle
<1>2. /\ actor' = [actor EXCEPT ![a] = y] /\ UNCHANGED <<row, links, table, events, log>>
      /\ ops' \in 0..MaxOps
  BY Facts, TrackingAssumption DEF StartApply, Set
<1> HIDE DEF y
<1>3. Knows(y, row, events, log)
  BY <1>1, Facts, IdleOK DEF Knows, ApplyPcs, ReadPcs
<1>4. QED
  BY <1>1, <1>2, <1>3, Facts, CommandStep

LEMMA EnsuresService ==
  ASSUME Inv, NEW a \in Actors, EnsureService(a)
  PROVE  Inv'
<1> DEFINE y == [actor[a] EXCEPT !.pc = "routes", !.todo = Routes]
<1>1. CASE Set(a, y)
  <2>1. /\ y \in Commands /\ y.pc = "routes" /\ y.own = actor[a].own
    BY Facts DEF Commands, Pcs
  <2>2. /\ actor' = [actor EXCEPT ![a] = y] /\ actor[a].pc = "service"
        /\ UNCHANGED <<row, links, table, events, ops, log>>
    BY <1>1 DEF EnsureService, Set, At
  <2> HIDE DEF y
  <2>3. QED
    BY <2>1, <2>2, Facts, MoveOn DEF ApplyPcs
<1>2. CASE Fail(a)
  BY <1>2, Facts, FailStep DEF EnsureService
<1>3. QED
  BY <1>1, <1>2 DEF EnsureService

LEMMA EnsuresRoute ==
  ASSUME Inv, NEW a \in Actors, NEW r \in Routes, EnsureRoute(a, r)
  PROVE  Inv'
<1> DEFINE x == actor[a]
           y == [x EXCEPT !.todo = @ \ {r}, !.created = IF r \in table THEN @ ELSE @ \cup {r},
                          !.pc = IF x.todo = {r} THEN "provenance" ELSE "routes"]
<1>1. CASE table' = table \cup {r} /\ Set(a, y)
  <2>1. /\ y \in Commands /\ y.pc \in {"provenance", "routes"} /\ y.own = actor[a].own
    BY Facts DEF Commands, Pcs
  <2>2. /\ actor' = [actor EXCEPT ![a] = y] /\ actor[a].pc = "routes"
        /\ UNCHANGED <<row, links, events, ops, log>> /\ table' \subseteq Routes
    BY <1>1, Facts DEF EnsureRoute, Set, At
  <2> HIDE DEF y
  <2>3. QED
    BY <2>1, <2>2, Facts, MoveOn DEF ApplyPcs
<1>2. CASE UNCHANGED table /\ Fail(a)
  BY <1>2, Facts, FailStep DEF EnsureRoute
<1>3. QED
  BY <1>1, <1>2 DEF EnsureRoute

LEMMA EnsuresLink ==
  ASSUME Inv, NEW a \in Actors, NEW r \in Routes, EnsureLink(a, r)
  PROVE  Inv'
<1> DEFINE x == actor[a]
           y == [x EXCEPT !.todo = @ \ {r},
                          !.pc = IF x.todo = {r} THEN "watermark" ELSE "links"]
<1>1. CASE links' = links \cup {r} /\ Set(a, y)
  <2>1. /\ y \in Commands /\ y.pc \in {"watermark", "links"} /\ y.own = actor[a].own
    BY Facts DEF Commands, Pcs
  <2>2. /\ actor' = [actor EXCEPT ![a] = y] /\ actor[a].pc = "links"
        /\ UNCHANGED <<row, table, events, ops, log>> /\ links' \subseteq Routes
    BY <1>1, Facts DEF EnsureLink, Set, At
  <2> HIDE DEF y
  <2>3. QED
    BY <2>1, <2>2, Facts, MoveOn DEF ApplyPcs
<1>2. CASE UNCHANGED links /\ Fail(a)
  BY <1>2, Facts, FailStep DEF EnsureLink
<1>3. QED
  BY <1>1, <1>2 DEF EnsureLink

LEMMA PathCheckFailing ==
  ASSUME Inv, NEW a \in Actors, PathCheckFails(a)
  PROVE  Inv'
BY Facts, FailStep DEF PathCheckFails

\* The watermark read: no event of an earlier session is newer.
LEMMA ReadsWatermark ==
  ASSUME Inv, NEW a \in Actors, ReadWatermark(a)
  PROVE  Inv'
<1> DEFINE y == [actor[a] EXCEPT !.pc = "summary", !.rowid = NewestRow]
<1>1. NewestRow \in Nat /\ \A e \in events : e.row <= NewestRow
  BY Newest DEF Inv
<1>2. y \in Commands /\ y.pc = "summary" /\ y.own = actor[a].own /\ y.rowid = NewestRow
  BY <1>1, Facts DEF Commands, Pcs
<1>3. /\ actor' = [actor EXCEPT ![a] = y] /\ UNCHANGED <<row, links, table, events, ops, log>>
      /\ actor[a].pc = "watermark"
  BY DEF ReadWatermark, Set, At
<1> HIDE DEF y
<1>4. Below(events, row.session, y.rowid)
  BY <1>1, <1>2 DEF Below
<1>5. Knows(y, row, events, log)
  BY <1>2, <1>3, <1>4, Facts DEF Knows, ApplyPcs, ReadPcs
<1>6. QED
  BY <1>2, <1>3, <1>5, Facts, CommandStep

----------------------------------------------------------------------------
\* A command takes a copy of the row.
LEMMA Copying ==
  ASSUME Inv, NEW a \in Actors, NEW y \in Commands, actor' = [actor EXCEPT ![a] = y],
         y.pc \in {"judge", "undoCheck"}, y.own = row,
         UNCHANGED <<row, links, table, events, log>>, ops' \in 0..MaxOps
  PROVE  Inv'
<1>1. Knows(y, row, events, log)
  BY Facts DEF Knows, ApplyPcs, ReadPcs, Same, Inv, RowFits
<1>2. QED
  BY <1>1, Facts, CommandStep

LEMMA StartsRefresh ==
  ASSUME Inv, NEW a \in Actors, StartRefresh(a)
  PROVE  Inv'
<1> DEFINE y == [Idle EXCEPT !.pc = "judge", !.own = row]
<1>1. y \in Commands /\ y.pc = "judge" /\ y.own = row
  BY Facts, IdleOK DEF Commands, Pcs, Idle
<1>2. /\ actor' = [actor EXCEPT ![a] = y] /\ UNCHANGED <<row, links, table, events, log>>
      /\ ops' \in 0..MaxOps
  BY Facts, TrackingAssumption DEF StartRefresh, Set
<1> HIDE DEF y
<1>3. QED
  BY <1>1, <1>2, Copying

LEMMA StartsUndo ==
  ASSUME Inv, NEW a \in Actors, StartUndo(a)
  PROVE  Inv'
<1> DEFINE y == [Idle EXCEPT !.pc = "undoCheck", !.own = row]
<1>1. y \in Commands /\ y.pc = "undoCheck" /\ y.own = row
  BY Facts, IdleOK DEF Commands, Pcs, Idle
<1>2. /\ actor' = [actor EXCEPT ![a] = y] /\ UNCHANGED <<row, links, table, events, log>>
      /\ ops' \in 0..MaxOps
  BY Facts, TrackingAssumption DEF StartUndo, Set
<1> HIDE DEF y
<1>3. QED
  BY <1>1, <1>2, Copying

\* An admissible observation of a handle that is current is one of the row's session.
LEMMA SeenOfSession ==
  ASSUME Inv, NEW own \in Rows, Same(own, row), NEW now \in Readings, NEW e \in Seen(own, now)
  PROVE  e \in events /\ e.at \in Readings /\ \E t \in log : t.of = row.session /\ t.at = e.at
<1>1. e \in events /\ e.row > own.appliedRow
  BY DEF Seen, Admissible
<1>2. e \in Events /\ e.row \in Nat /\ e.of \in Nat /\ e.at \in Readings
  BY <1>1 DEF Inv, TypeOK, Events
<1>3. own.appliedRow = row.appliedRow /\ row.appliedRow \in Nat /\ row.session \in Nat
  BY DEF Same, Rows, Inv, TypeOK
<1>4. ~(e.of < row.session)
  BY <1>1, <1>2, <1>3 DEF Inv, EventsOK, Below
<1>5. e.of <= row.session /\ \E t \in log : t.of = e.of /\ t.at = e.at
  BY <1>1 DEF Inv, EventsOK
<1>6. e.of = row.session
  BY <1>2, <1>3, <1>4, <1>5
<1>7. QED
  BY <1>1, <1>2, <1>5, <1>6

\* The state a refresh derives, when it is another one.
LEMMA DerivedOK ==
  ASSUME NEW own \in Rows, NEW seen
  PROVE  /\ Derived(own, seen) \in States
         /\ Derived(own, seen) # own.state /\ Derived(own, seen) \in Verified
              => own.appliedAt # 0 /\ own.summary.completed /\ seen # {}
         /\ Derived(own, seen) # own.state /\ FailureIsNewer(own, seen) /\ RowOK(own)
              => Derived(own, seen) = "attention"
<1>1. own.state \in States
  BY DEF Rows
<1>2. CASE own.state \in {"observed", "partial"} /\ seen = {}
  <2>1. Derived(own, seen) = "awaiting"
    BY <1>2 DEF Derived
  <2>2. FailureIsNewer(own, seen) /\ RowOK(own) => FALSE
    BY <1>2 DEF FailureIsNewer, RowOK
  <2>3. QED
    BY <2>1, <2>2 DEF States, Watchable, Verified
<1>3. CASE Supported(own) /\ seen # {}
  <2>1. own.appliedAt # 0 /\ own.summary.completed
    BY <1>3 DEF Supported, Providers
  <2>2. Derived(own, seen) = IF FailureIsNewer(own, seen) THEN "attention"
          ELSE IF {e.route : e \in seen} = Providers(own) THEN "observed" ELSE "partial"
    BY <1>3 DEF Derived
  <2>3. QED
    BY <1>3, <2>1, <2>2 DEF States, Watchable, Verified
<1>4. CASE ~(own.state \in {"observed", "partial"} /\ seen = {}) /\ ~(Supported(own) /\ seen # {})
  <2>1. Derived(own, seen) = own.state
    BY <1>4 DEF Derived
  <2>2. QED
    BY <2>1, <1>1
<1>5. QED
  BY <1>2, <1>3, <1>4

\* A refresh decides; what it knows of a current handle is drawn from observations of the
\* session.
LEMMA Judges ==
  ASSUME Inv, NEW a \in Actors, Judge(a)
  PROVE  Inv'
<1> DEFINE x == actor[a]
           own == x.own
<1>1. PICK now \in Readings :
         LET seen == Seen(own, now)
             derived == Derived(own, seen)
             earliest == IF Supported(own) /\ seen # {} THEN Min({e.at : e \in seen}) ELSE 0 IN
         IF x.tries = 3 \/ (derived = own.state /\ earliest = 0) THEN End(a)
         ELSE Set(a, [x EXCEPT !.next = derived, !.clears = ~FailureIsNewer(own, seen),
                               !.seen = earliest,
                               !.pc = IF derived = own.state THEN "first" ELSE "correct"])
  BY DEF Judge
<1> DEFINE seen == Seen(own, now)
           derived == Derived(own, seen)
           earliest == IF Supported(own) /\ seen # {} THEN Min({e.at : e \in seen}) ELSE 0
           clears == ~FailureIsNewer(own, seen)
           y == [x EXCEPT !.next = derived, !.clears = clears, !.seen = earliest,
                          !.pc = IF derived = own.state THEN "first" ELSE "correct"]
<1>2. UNCHANGED <<row, links, table, events, ops, log>> /\ x.pc = "judge"
  BY DEF Judge, At
<1>3. CASE x.tries = 3 \/ (derived = own.state /\ earliest = 0)
  BY <1>1, <1>2, <1>3, Facts, EndStep
<1>4. CASE ~(x.tries = 3 \/ (derived = own.state /\ earliest = 0))
  <2>1. actor' = [actor EXCEPT ![a] = y]
    BY <1>1, <1>4 DEF Set
  <2>2. derived \in States
    BY Facts, DerivedOK
  <2>3. earliest \in Times
    <3>1. {e.at : e \in seen} \subseteq Readings
      BY DEF Seen, Inv, TypeOK, Events
    <3>2. Readings \subseteq Nat /\ Readings \subseteq Times /\ 0 \in Times
      BY TrackingAssumption DEF Readings, Times
    <3>3. CASE seen # {}
      <4>1. {e.at : e \in seen} # {}
        BY <3>3
      <4> HIDE DEF seen
      <4>2. Min({e.at : e \in seen}) \in {e.at : e \in seen}
        BY <3>1, <3>2, <4>1, LeastIn
      <4>3. QED
        BY <3>1, <3>2, <4>2
    <3>4. QED
      BY <3>2, <3>3
  <2>4. clears \in BOOLEAN
    BY DEF FailureIsNewer
  <2>5. /\ y \in Commands /\ y.own = own /\ y.tries = x.tries /\ y.next = derived
        /\ y.clears = clears /\ y.pc = IF derived = own.state THEN "first" ELSE "correct"
    <3> HIDE DEF derived, clears, earliest
    <3>1. QED
      BY <2>2, <2>3, <2>4, Facts DEF Commands, Pcs
  <2>6. y.pc = "correct" => derived # own.state
    BY <2>5
  <2>7. own \in Rows /\ RowOK(own) /\ own.version <= row.version
    BY Facts DEF Knows
  <2>8. ~clears /\ own.failedAt # 0 /\ derived # own.state => derived = "attention"
    BY <2>7, DerivedOK
  <2>9. derived \in Verified /\ derived # own.state
          => own.appliedAt # 0 /\ own.summary.completed /\ seen # {}
    BY <2>7, DerivedOK
  <2>10. own.version = row.version => Same(own, row)
    BY <1>2, Facts DEF Knows, ReadPcs
  <2>11. Same(own, row) /\ seen # {} => Witnessed(row.session, log)
    BY <2>7, SeenOfSession DEF Witnessed
  <2>12. Same(own, row) /\ clears /\ row.failedAt # 0
           => Answered(row.session, row.failedAt, log)
    <3>1. SUFFICES ASSUME Same(own, row), clears, row.failedAt # 0
                   PROVE  Answered(row.session, row.failedAt, log)
      OBVIOUS
    <3>2. PICK e \in seen : ~(own.failedAt > e.at)
      BY <3>1 DEF FailureIsNewer, Same
    <3>3. e.at \in Readings /\ \E t \in log : t.of = row.session /\ t.at = e.at
      BY <2>7, <3>1, SeenOfSession
    <3>4. e.at \in Nat /\ own.failedAt \in Nat /\ own.failedAt = row.failedAt
      BY <2>7, <3>1, <3>3, TrackingAssumption DEF Rows, Times, Readings, Same
    <3>5. e.at >= row.failedAt
      BY <3>2, <3>4
    <3>6. QED
      BY <3>3, <3>5 DEF Answered
  <2> HIDE DEF y, derived, clears, seen
  <2>13. y.pc \in {"first", "correct"}
    BY <2>5
  <2>14. Knows(y, row, events, log)
    BY <1>4, <2>5, <2>6, <2>7, <2>8, <2>9, <2>10, <2>11, <2>12, <2>13
       DEF Knows, ApplyPcs, ReadPcs
  <2>15. QED
    BY <1>2, <2>1, <2>5, <2>14, Facts, CommandStep
<1>5. QED
  BY <1>3, <1>4

LEMMA ChecksUndo ==
  ASSUME Inv, NEW a \in Actors, CheckUndo(a)
  PROVE  Inv'
<1> DEFINE x == actor[a]
           y == [x EXCEPT !.pc = "undoLinks", !.own = Handle(row), !.todo = links,
                          !.created = x.own.summary.created,
                          !.complete = x.own.summary.completed \/ links = {}]
<1>1. CASE Current(x.own)
  <2>1. /\ y \in Commands /\ y.pc = "undoLinks" /\ y.own = Handle(row) /\ y.tries = x.tries
    BY Facts, HandleOK DEF Commands, Pcs, Summaries
  <2>2. actor' = [actor EXCEPT ![a] = y] /\ UNCHANGED <<row, links, table, events, ops, log>>
    BY <1>1 DEF CheckUndo, Set
  <2> HIDE DEF y
  <2>3. Knows(y, row, events, log)
    BY <2>1, Facts, HandleOK DEF Knows, ApplyPcs, ReadPcs
  <2>4. QED
    BY <2>1, <2>2, <2>3, Facts, CommandStep
<1>2. CASE ~Current(x.own)
  BY <1>2, Facts, EndStep DEF CheckUndo
<1>3. QED
  BY <1>1, <1>2

LEMMA UndoesLink ==
  ASSUME Inv, NEW a \in Actors, NEW r \in Routes, UndoLink(a, r)
  PROVE  Inv'
<1> DEFINE x == actor[a]
           y == [x EXCEPT !.todo = @ \ {r}]
           z == [x EXCEPT !.todo = @ \ {r}, !.complete = FALSE]
<1>1. /\ UNCHANGED <<row, table, events, ops, log>> /\ x.pc = "undoLinks"
      /\ links' \subseteq Routes /\ table' \subseteq Routes
  BY Facts DEF UndoLink, At
<1>2. /\ y \in Commands /\ y.pc = "undoLinks" /\ y.own = x.own
      /\ z \in Commands /\ z.pc = "undoLinks" /\ z.own = x.own
  BY <1>1, Facts DEF Commands
<1>3. Set(a, y) \/ Set(a, z) \/ End(a)
  BY DEF UndoLink
<1> HIDE DEF y, z
<1>4. CASE Set(a, y)
  BY <1>1, <1>2, <1>4, MoveOn DEF Set
<1>5. CASE Set(a, z)
  BY <1>1, <1>2, <1>5, MoveOn DEF Set
<1>6. CASE End(a)
  BY <1>1, <1>6, EndStep
<1>7. QED
  BY <1>3, <1>4, <1>5, <1>6

LEMMA UndoesLinks ==
  ASSUME Inv, NEW a \in Actors, LinksUndone(a)
  PROVE  Inv'
<1> DEFINE x == actor[a]
           y == [x EXCEPT !.pc = "undoRoutes", !.todo = x.created, !.created = {}]
<1>1. y \in Commands /\ y.pc = "undoRoutes" /\ y.own = x.own
  BY Facts DEF Commands, Pcs
<1>2. actor' = [actor EXCEPT ![a] = y] /\ UNCHANGED <<row, links, table, events, ops, log>>
  BY DEF LinksUndone, Set
<1> HIDE DEF y
<1>3. QED
  BY <1>1, <1>2, Facts, MoveOn

LEMMA UndoesRoute ==
  ASSUME Inv, NEW a \in Actors, NEW r \in Routes, UndoRoute(a, r)
  PROVE  Inv'
<1> DEFINE x == actor[a]
           y == IF r \in links THEN [x EXCEPT !.todo = @ \ {r}]
                ELSE [x EXCEPT !.pc = "undoRemove", !.held = {r}]
<1>1. x.pc = "undoRoutes"
  BY DEF UndoRoute, At
<1>2. y \in Commands /\ y.pc \in {"undoRoutes", "undoRemove"} /\ y.own = x.own
  BY <1>1, Facts DEF Commands, Pcs
<1>3. actor' = [actor EXCEPT ![a] = y] /\ UNCHANGED <<row, links, table, events, ops, log>>
  BY DEF UndoRoute, Set
<1> HIDE DEF y
<1>4. QED
  BY <1>2, <1>3, Facts, MoveOn

LEMMA UndoRemoves ==
  ASSUME Inv, NEW a \in Actors, UndoRemove(a)
  PROVE  Inv'
<1> DEFINE x == actor[a]
           y == [x EXCEPT !.pc = "undoRoutes", !.todo = @ \ x.held, !.held = {}]
<1>1. y \in Commands /\ y.pc = "undoRoutes" /\ y.own = x.own
  BY Facts DEF Commands, Pcs
<1>2. /\ actor' = [actor EXCEPT ![a] = y] /\ UNCHANGED <<row, events, ops, log>>
      /\ links' \subseteq Routes /\ table' \subseteq Routes
  BY Facts DEF UndoRemove, Set
<1> HIDE DEF y
<1>3. QED
  BY <1>1, <1>2, MoveOn

LEMMA Dies ==
  ASSUME Inv, NEW a \in Actors, Die(a)
  PROVE  Inv'
BY Facts, EndStep DEF Die

----------------------------------------------------------------------------
\* cas_write_health and the other guarded writes move the row by one version.
LEMMA HealthIs ==
  ASSUME row \in Rows, NEW own, NEW next \in States, NEW failed \in Times
  PROVE  LET h == Health(own, next, failed) IN
         /\ h \in Rows /\ h.version = row.version + 1 /\ h.state = next /\ h.failedAt = failed
         /\ h.session = row.session /\ h.summary = row.summary
         /\ h.appliedAt = row.appliedAt /\ h.appliedRow = row.appliedRow
<1> DEFINE q == [row EXCEPT !.state = next, !.failedAt = failed]
<1>1. /\ q \in Rows /\ q.state = next /\ q.failedAt = failed
      /\ q.session = row.session /\ q.summary = row.summary
      /\ q.appliedAt = row.appliedAt /\ q.appliedRow = row.appliedRow
  BY DEF Rows
<1>2. Health(own, next, failed) = Bumped(q)
  BY DEF Health
<1> HIDE DEF q
<1>3. QED
  BY <1>1, <1>2 DEF Bumped, Rows

\* The events stay in order when session and watermark do.
LEMMA SameMarks ==
  ASSUME Inv, NEW r, r.session = row.session, r.appliedRow = row.appliedRow
  PROVE  EventsOK(r, events, log)
BY DEF Inv, EventsOK

\* A write of the health alone.
LEMMA HealthStep ==
  ASSUME Inv, NEW a \in Actors, NEW own, NEW next \in States, NEW failed \in Times,
         NEW y \in Commands, actor' = [actor EXCEPT ![a] = y],
         row' = Health(own, next, failed), UNCHANGED <<links, table, events, ops, log>>,
         failed # 0 => next = "attention",
         next \in Verified => /\ row.appliedAt # 0 /\ row.summary.completed
                              /\ Witnessed(row.session, log),
         Knows(y, Health(own, next, failed), events, log)
  PROVE  Inv'
<1> DEFINE r == Health(own, next, failed)
<1>1. /\ r \in Rows /\ r.version = row.version + 1 /\ r.state = next /\ r.failedAt = failed
      /\ r.session = row.session /\ r.summary = row.summary
      /\ r.appliedAt = row.appliedAt /\ r.appliedRow = row.appliedRow
  BY HealthIs, Facts
<1> HIDE DEF r
<1>2. RowFits(r, log)
  BY <1>1 DEF Inv, RowFits, RowOK, Verified
<1>3. EventsOK(r, events, log)
  BY <1>1, SameMarks
<1>4. row' = r /\ Knows(y, r, events, log)
  BY DEF r
<1>5. QED
  BY <1>1, <1>2, <1>3, <1>4, WriteStep

LEMMA FailWrites ==
  ASSUME Inv, NEW a \in Actors, FailWrite(a)
  PROVE  Inv'
<1> DEFINE x == actor[a]
           y == [Idle EXCEPT !.pc = "failRead", !.tries = x.tries + 1]
<1>1. UNCHANGED <<links, table, events, ops, log>> /\ x.pc = "failWrite"
  BY DEF FailWrite, At
<1>2. CASE Current(x.own)
  <2>1. PICK now \in Readings : row' = Health(x.own, "attention", now)
    BY <1>2 DEF FailWrite
  <2>2. now \in Times /\ "attention" \in States /\ ~("attention" \in Verified)
    BY TrackingAssumption DEF Readings, Times, States, Watchable, Verified
  <2>3. actor' = [actor EXCEPT ![a] = Idle] /\ Idle \in Commands
    BY <1>2, IdleOK DEF FailWrite, End, Set
  <2>4. Knows(Idle, Health(x.own, "attention", now), events, log)
    BY <2>2, HealthIs, Resting, Facts
  <2>5. QED
    BY <1>1, <2>1, <2>2, <2>3, <2>4, HealthStep
<1>3. CASE ~Current(x.own) /\ x.tries = 2
  BY <1>1, <1>3, Facts, EndStep DEF FailWrite
<1>4. CASE ~Current(x.own) /\ x.tries # 2
  <2>1. x.tries \in 0..3 /\ x.tries # 3
    BY <1>1, Facts DEF Knows, Commands
  <2>2. x.tries + 1 \in 0..3 /\ x.tries + 1 # 3
    BY <1>4, <2>1
  <2>3. y \in Commands /\ y.pc = "failRead" /\ y.own = NoRow /\ y.tries = x.tries + 1
    BY <2>2, IdleOK DEF Commands, Pcs, Idle
  <2>4. actor' = [actor EXCEPT ![a] = y] /\ UNCHANGED row
    BY <1>4 DEF FailWrite, Set
  <2> HIDE DEF y
  <2>5. Knows(y, row, events, log)
    BY <2>2, <2>3, Facts, IdleOK DEF Knows, ApplyPcs, ReadPcs
  <2>6. QED
    BY <1>1, <2>3, <2>4, <2>5, Facts, CommandStep
<1>5. QED
  BY <1>2, <1>3, <1>4

LEMMA EndsApply ==
  ASSUME Inv, NEW a \in Actors, EndApply(a)
  PROVE  Inv'
<1> DEFINE own == actor[a].own
<1>1. UNCHANGED <<links, table, events, ops, log>>
  BY DEF EndApply
<1>2. CASE Current(own)
  <2>1. 0 \in Times /\ "awaiting" \in States /\ ~("awaiting" \in Verified)
    BY TrackingAssumption DEF Times, States, Watchable, Verified
  <2>2. /\ row' = Health(own, "awaiting", 0)
        /\ actor' = [actor EXCEPT ![a] = Idle] /\ Idle \in Commands
    BY <1>2, IdleOK DEF EndApply, End, Set
  <2>3. Knows(Idle, Health(own, "awaiting", 0), events, log)
    BY <2>1, HealthIs, Resting, Facts
  <2>4. QED
    BY <1>1, <2>1, <2>2, <2>3, HealthStep
<1>3. CASE ~Current(own)
  BY <1>1, <1>3, Facts, FailStep DEF EndApply
<1>4. QED
  BY <1>2, <1>3

\* A refresh writes what it derived, or reads the row again.
LEMMA Corrects ==
  ASSUME Inv, NEW a \in Actors, Correct(a)
  PROVE  Inv'
<1> DEFINE x == actor[a]
           failed == Kept(x)
           h == Health(x.own, x.next, failed)
           y == [x EXCEPT !.pc = "first", !.own = h, !.next = "none", !.clears = FALSE]
           z == [Idle EXCEPT !.pc = "judge", !.own = row, !.tries = x.tries + 1]
<1>1. UNCHANGED <<links, table, events, ops, log>> /\ x.pc = "correct"
  BY DEF Correct, At
<1>2. x.next \in States /\ x.own.failedAt \in Times /\ x.tries \in 0..3 /\ x.clears \in BOOLEAN
  BY Facts DEF Commands, Rows
<1>3. failed \in Times
  BY <1>2, TrackingAssumption DEF Kept, Times
<1>4. CASE Current(x.own)
  <2>1. Same(x.own, row)
    BY <1>1, <1>4, Facts DEF Knows, Current, ReadPcs
  <2>2. failed # 0 => x.next = "attention"
    BY <1>1, Facts DEF Knows, Kept
  <2>3. x.next \in Verified => /\ row.appliedAt # 0 /\ row.summary.completed
                               /\ Witnessed(row.session, log)
    BY <1>1, <1>4, <2>1, Facts DEF Knows, Current, Same
  <2>4. /\ h \in Rows /\ h.version = row.version + 1 /\ h.state = x.next /\ h.failedAt = failed
        /\ h.summary = row.summary /\ h.appliedAt = row.appliedAt
    BY <1>2, <1>3, HealthIs, Facts
  <2>5. row' = h
    BY <1>4 DEF Correct
  <2>6. CASE x.seen = 0
    <3>1. actor' = [actor EXCEPT ![a] = Idle] /\ Idle \in Commands
      BY <1>4, <2>6, IdleOK DEF Correct, End, Set
    <3>2. Knows(Idle, h, events, log)
      BY <2>4, Resting
    <3>3. QED
      BY <1>1, <1>2, <1>3, <2>2, <2>3, <2>5, <3>1, <3>2, HealthStep
  <2>7. CASE x.seen # 0
    <3>1. actor' = [actor EXCEPT ![a] = y]
      BY <1>4, <2>7 DEF Correct, Set
    <3>2. y \in Commands /\ y.pc = "first" /\ y.own = h
      <4> HIDE DEF h
      <4>1. QED
        BY <2>4, Facts DEF Commands, Pcs, States
    <3>3. RowOK(h)
      BY <2>2, <2>3, <2>4 DEF RowOK, Verified
    <3>4. Knows(y, h, events, log)
      <4> HIDE DEF h, y
      <4>1. QED
        BY <2>4, <3>2, <3>3, Facts DEF Knows, ApplyPcs, ReadPcs
    <3>5. QED
      <4> HIDE DEF y
      <4>1. QED
        BY <1>1, <1>2, <1>3, <2>2, <2>3, <2>5, <3>1, <3>2, <3>4, HealthStep
  <2>8. QED
    BY <2>6, <2>7
<1>5. CASE ~Current(x.own)
  <2>1. x.tries + 1 \in 0..3
    BY <1>1, <1>2, Facts DEF Knows
  <2>2. z \in Commands /\ z.pc = "judge" /\ z.own = row
    BY <2>1, Facts, IdleOK DEF Commands, Pcs, Idle
  <2>3. actor' = [actor EXCEPT ![a] = z] /\ UNCHANGED row /\ ops' \in 0..MaxOps
    BY <1>1, <1>5, Facts DEF Correct, Set
  <2> HIDE DEF z
  <2>4. QED
    BY <1>1, <2>2, <2>3, Copying
<1>6. QED
  BY <1>4, <1>5

----------------------------------------------------------------------------
\* What upsert_setup writes.
Opening(v, s, m, f) == [NoRow EXCEPT !.state = "applying", !.version = v, !.session = s,
                                     !.appliedRow = m, !.firstVerified = f]
LEMMA Opened ==
  ASSUME NEW v \in Nat, NEW s \in Nat, NEW m \in Nat, NEW f \in Times
  PROVE  LET r == Opening(v, s, m, f) IN
         /\ r \in Rows /\ r.version = v /\ r.state = "applying" /\ r.session = s
         /\ r.appliedRow = m /\ r.summary = NoSummary /\ r.failedAt = 0
<1>1. "applying" \in States /\ 0 \in Times
  BY TrackingAssumption DEF States, Times
<1>2. QED
  BY IdleOK, <1>1 DEF Opening, Rows, NoRow

\* A new verification session: all that was recorded is at or below its watermark.
LEMMA Upserts ==
  ASSUME Inv, NEW a \in Actors, Upsert(a)
  PROVE  Inv'
<1> DEFINE r == Opening(row.version + 1, row.session + 1, NewestRow, row.firstVerified)
           y == [actor[a] EXCEPT !.pc = "service", !.own = Handle(r)]
<1>1. NewestRow \in Nat /\ \A e \in events : e.row <= NewestRow
  BY Newest DEF Inv
<1>2. row.session \in Nat /\ row.version \in Nat /\ row.firstVerified \in Times
  BY Facts DEF Rows
<1>3. /\ r \in Rows /\ r.version = row.version + 1 /\ r.state = "applying"
      /\ r.session = row.session + 1 /\ r.appliedRow = NewestRow
      /\ r.summary = NoSummary /\ r.failedAt = 0
  <2>1. PICK v \in Nat, s \in Nat, m \in Nat, f \in Times :
          v = row.version + 1 /\ s = row.session + 1 /\ m = NewestRow /\ f = row.firstVerified
    BY <1>1, <1>2
  <2>2. r = Opening(v, s, m, f)
    BY <2>1
  <2> HIDE DEF r
  <2>3. QED
    BY <2>1, <2>2, Opened
<1>4. /\ row' = r /\ actor' = [actor EXCEPT ![a] = y]
      /\ UNCHANGED <<links, table, events, ops, log>>
  BY DEF Upsert, Set, Opening
<1> HIDE DEF r
<1>5. Handle(r) \in Rows /\ RowOK(Handle(r)) /\ Handle(r).version = r.version
      /\ Handle(r).session = r.session
  BY <1>3, HandleOK
<1>6. y \in Commands /\ y.pc = "service" /\ y.own = Handle(r)
  BY <1>5, Facts DEF Commands, Pcs
<1> HIDE DEF y
<1>7. RowFits(r, log)
  BY <1>3 DEF RowFits, RowOK, Verified
<1>8. EventsOK(r, events, log)
  <2>1. \A e \in events : e.of <= r.session
    BY <1>2, <1>3 DEF Inv, TypeOK, EventsOK, Events
  <2>2. Below(events, r.session, r.appliedRow)
    BY <1>1, <1>3 DEF Below
  <2>3. QED
    BY <2>1, <2>2 DEF Inv, EventsOK
<1>9. Knows(y, r, events, log)
  BY <1>2, <1>3, <1>5, <1>6 DEF Knows, ApplyPcs, ReadPcs, Rows
<1>10. QED
  BY <1>3, <1>4, <1>6, <1>7, <1>8, <1>9, WriteStep

LEMMA RecordsRoutes ==
  ASSUME Inv, NEW a \in Actors, RecordRoutes(a)
  PROVE  Inv'
<1> DEFINE x == actor[a]
           created == x.created \cup x.held
           s == [of |-> x.own.session, created |-> created, completed |-> FALSE]
           r == Bumped([row EXCEPT !.summary = s])
           y == [x EXCEPT !.pc = "links", !.own = Handle(r), !.created = created, !.held = {},
                          !.todo = Routes]
<1>1. UNCHANGED <<links, table, events, ops, log>> /\ x.pc = "provenance"
  BY DEF RecordRoutes, At
<1>2. CASE CurrentSummary(x.own)
  <2>1. x.own.session = row.session /\ row.state = "applying"
    BY <1>1, <1>2, Facts DEF CurrentSummary, Current, Knows, ApplyPcs
  <2>2. s \in Summaries /\ s.of = row.session /\ created \subseteq Routes
    BY <2>1, Facts DEF Commands, Summaries, Rows
  <2>3. /\ r \in Rows /\ r.version = row.version + 1 /\ r.summary = s /\ r.state = row.state
        /\ r.session = row.session /\ r.failedAt = row.failedAt /\ r.appliedRow = row.appliedRow
    <3> DEFINE q == [row EXCEPT !.summary = s]
    <3> HIDE DEF s
    <3>1. /\ q \in Rows /\ q.summary = s /\ q.state = row.state /\ q.session = row.session
          /\ q.failedAt = row.failedAt /\ q.appliedRow = row.appliedRow
      BY <2>2, Facts DEF Rows
    <3> HIDE DEF q
    <3>2. /\ Bumped(q) \in Rows /\ Bumped(q).version = row.version + 1
          /\ Bumped(q).summary = s /\ Bumped(q).state = row.state
          /\ Bumped(q).session = row.session /\ Bumped(q).failedAt = row.failedAt
          /\ Bumped(q).appliedRow = row.appliedRow
      BY <3>1, Facts DEF Bumped, Rows
    <3>3. QED
      BY <3>2 DEF q
  <2>4. row' = r /\ actor' = [actor EXCEPT ![a] = y]
    BY <1>2 DEF RecordRoutes, Set
  <2> HIDE DEF r, s, created
  <2>5. Handle(r) \in Rows /\ RowOK(Handle(r)) /\ Handle(r).version = r.version
        /\ Handle(r).session = r.session
    BY <2>3, HandleOK
  <2>6. y \in Commands /\ y.pc = "links" /\ y.own = Handle(r)
    BY <2>2, <2>5, Facts DEF Commands, Pcs
  <2> HIDE DEF y
  <2>7. RowFits(r, log)
    BY <2>1, <2>2, <2>3 DEF Inv, RowFits, RowOK, Verified
  <2>8. Knows(y, r, events, log)
    BY <2>1, <2>3, <2>5, <2>6, Facts DEF Knows, ApplyPcs, ReadPcs, Rows
  <2>9. EventsOK(r, events, log)
    BY <2>3, SameMarks
  <2>10. QED
    BY <1>1, <2>3, <2>4, <2>6, <2>7, <2>8, <2>9, WriteStep
<1>3. CASE ~CurrentSummary(x.own)
  BY <1>1, <1>3, Facts, FailStep DEF RecordRoutes
<1>4. QED
  BY <1>2, <1>3

\* The plan is recorded as applied, with the watermark that was read.
LEMMA RecordsApplied ==
  ASSUME Inv, NEW a \in Actors, RecordApplied(a)
  PROVE  Inv'
<1> DEFINE x == actor[a]
           s == [of |-> x.own.session, created |-> x.created, completed |-> TRUE]
           p == Bumped([row EXCEPT !.summary = s, !.appliedRow = x.rowid])
<1>1. UNCHANGED <<links, table, events, ops, log>> /\ x.pc = "summary"
  BY DEF RecordApplied, At
<1>2. CASE CurrentSummary(x.own)
  <2>1. /\ x.own.session = row.session /\ row.state = "applying"
        /\ Below(events, row.session, x.rowid)
    BY <1>1, <1>2, Facts DEF CurrentSummary, Current, Knows, ApplyPcs
  <2>2. s \in Summaries /\ s.of = row.session /\ x.rowid \in Nat
    BY <2>1, Facts DEF Commands, Summaries, Rows
  <2>3. PICK now \in Readings : row' = [p EXCEPT !.appliedAt = now]
    BY <1>2 DEF RecordApplied
  <2> DEFINE r == [p EXCEPT !.appliedAt = now]
             y == [Idle EXCEPT !.pc = "end", !.own = Handle(r)]
  <2>4. actor' = [actor EXCEPT ![a] = y] /\ row' = r
    BY <1>2, <2>3 DEF RecordApplied, Set
  <2>5. /\ p \in Rows /\ p.version = row.version + 1 /\ p.summary = s /\ p.state = row.state
        /\ p.session = row.session /\ p.failedAt = row.failedAt /\ p.appliedRow = x.rowid
    <3> DEFINE q == [row EXCEPT !.summary = s, !.appliedRow = x.rowid]
    <3> HIDE DEF s
    <3>1. /\ q \in Rows /\ q.summary = s /\ q.state = row.state /\ q.session = row.session
          /\ q.failedAt = row.failedAt /\ q.appliedRow = x.rowid
      BY <2>2, Facts DEF Rows
    <3> HIDE DEF q
    <3>2. /\ Bumped(q) \in Rows /\ Bumped(q).version = row.version + 1
          /\ Bumped(q).summary = s /\ Bumped(q).state = row.state
          /\ Bumped(q).session = row.session /\ Bumped(q).failedAt = row.failedAt
          /\ Bumped(q).appliedRow = x.rowid
      BY <3>1, Facts DEF Bumped, Rows
    <3>3. QED
      BY <3>2 DEF q
  <2> HIDE DEF p
  <2>6. /\ r \in Rows /\ r.version = row.version + 1 /\ r.summary = s /\ r.state = row.state
        /\ r.session = row.session /\ r.failedAt = row.failedAt /\ r.appliedRow = x.rowid
    <3> HIDE DEF s
    <3>1. now \in Times
      BY TrackingAssumption DEF Readings, Times
    <3>2. QED
      BY <2>5, <3>1 DEF Rows
  <2> HIDE DEF r
  <2>7. Handle(r) \in Rows /\ RowOK(Handle(r)) /\ Handle(r).version = r.version
        /\ Handle(r).session = r.session
    BY <2>6, HandleOK
  <2>8. y \in Commands /\ y.pc = "end" /\ y.own = Handle(r)
    BY <2>7, IdleOK DEF Commands, Pcs, Idle
  <2> HIDE DEF y
  <2>9. RowFits(r, log)
    BY <2>1, <2>2, <2>6 DEF Inv, RowFits, RowOK, Verified
  <2>10. Knows(y, r, events, log)
    BY <2>1, <2>6, <2>7, <2>8, Facts DEF Knows, ApplyPcs, ReadPcs, Rows
  <2>11. EventsOK(r, events, log)
    BY <2>1, <2>6 DEF Inv, EventsOK
  <2>12. QED
    BY <1>1, <2>4, <2>6, <2>8, <2>9, <2>10, <2>11, WriteStep
<1>3. CASE ~CurrentSummary(x.own)
  BY <1>1, <1>3, Facts, FailStep DEF RecordApplied
<1>4. QED
  BY <1>2, <1>3

----------------------------------------------------------------------------
\* The write-once watermarks are outside what any handle is compared with.
LEMMA WatermarkStep ==
  ASSUME Inv, NEW a \in Actors, NEW y \in Commands, actor' = [actor EXCEPT ![a] = y],
         NEW r \in Rows, row' = r, r.version = row.version, Same(r, row),
         UNCHANGED <<links, table, events, ops, log>>, Knows(y, row, events, log)
  PROVE  Inv'
<1>1. RowFits(r, log)
  BY DEF Inv, RowFits, RowOK, Same
<1>2. TypeOK'
  BY <1>1 DEF Inv, TypeOK, RowFits
<1>3. EventsOK(r, events, log)
  BY SameMarks DEF Same
<1>4. ASSUME NEW b \in Actors PROVE Knows(actor'[b], r, events, log)
  <2>1. Knows(actor'[b], row, events, log)
    BY DEF Inv, TypeOK
  <2>2. QED
    BY <2>1 DEF Knows, Same
<1>5. QED
  BY <1>1, <1>2, <1>3, <1>4 DEF Inv

LEMMA WritesFirstTraffic ==
  ASSUME Inv, NEW a \in Actors, WriteFirstTraffic(a)
  PROVE  Inv'
<1> DEFINE x == actor[a]
           q == [row EXCEPT !.firstTraffic = x.seen]
           r == IF x.own.firstTraffic = 0 /\ row.firstTraffic = 0 THEN q ELSE row
           z == [Idle EXCEPT !.pc = "verified", !.seen = x.seen]
           y == IF x.own.firstVerified = 0 THEN z ELSE Idle
<1>1. x.seen \in Times
  BY Facts DEF Commands
<1>2. q \in Rows /\ q.version = row.version /\ Same(q, row)
  BY <1>1, Facts DEF Rows, Same
<1>3. z \in Commands /\ z.pc = "verified" /\ z.own = NoRow
  BY <1>1, IdleOK DEF Commands, Pcs, Idle
<1>4. /\ row' = r /\ actor' = [actor EXCEPT ![a] = y]
      /\ UNCHANGED <<links, table, events, ops, log>>
  BY DEF WriteFirstTraffic, Set, End
<1> HIDE DEF q, z
<1>5. r \in Rows /\ r.version = row.version /\ Same(r, row)
  BY <1>2, Facts DEF Same
<1>6. Knows(z, row, events, log)
  BY <1>3, Facts, IdleOK DEF Knows, ApplyPcs, ReadPcs
<1>7. y \in Commands /\ Knows(y, row, events, log)
  BY <1>3, <1>6, Facts, IdleOK, Resting
<1> HIDE DEF r, y
<1>8. QED
  BY <1>4, <1>5, <1>7, WatermarkStep

LEMMA WritesFirstVerified ==
  ASSUME Inv, NEW a \in Actors, WriteFirstVerified(a)
  PROVE  Inv'
<1> DEFINE q == [row EXCEPT !.firstVerified = actor[a].seen]
           r == IF row.firstVerified = 0 THEN q ELSE row
<1>1. actor[a].seen \in Times
  BY Facts DEF Commands
<1>2. q \in Rows /\ q.version = row.version /\ Same(q, row)
  BY <1>1, Facts DEF Rows, Same
<1>3. /\ row' = r /\ actor' = [actor EXCEPT ![a] = Idle]
      /\ UNCHANGED <<links, table, events, ops, log>>
  BY DEF WriteFirstVerified, Set, End
<1> HIDE DEF q
<1>4. r \in Rows /\ r.version = row.version /\ Same(r, row)
  BY <1>2, Facts DEF Same
<1> HIDE DEF r
<1>5. Idle \in Commands /\ Knows(Idle, row, events, log)
  BY IdleOK, Resting, Facts
<1>6. QED
  BY <1>3, <1>4, <1>5, WatermarkStep

\* The closing write of an undo, and the clearing write after it.
LEMMA ClosesUndo ==
  ASSUME Inv, NEW a \in Actors, CloseUndo(a)
  PROVE  Inv'
<1> DEFINE x == actor[a]
           r == Bumped([row EXCEPT !.summary = NoSummary, !.appliedAt = 0, !.firstTraffic = 0])
           h == Health(x.own, "not_configured", 0)
           y == [Idle EXCEPT !.pc = "undoClear", !.own = Handle(h)]
<1>1. UNCHANGED <<links, table, events, ops, log>> /\ 0 \in Times
  BY TrackingAssumption DEF CloseUndo, Times
<1>2. Idle \in Commands
  BY IdleOK
<1>3. CASE x.pc = "undoClear" /\ Current(x.own)
  <2>1. row.state = "not_configured"
    BY <1>3, Facts DEF Current, Knows
  <2>2. row' = r /\ actor' = [actor EXCEPT ![a] = Idle]
    BY <1>3 DEF CloseUndo, At, End, Set
  <2>3. /\ r \in Rows /\ r.version = row.version + 1 /\ r.summary = NoSummary
        /\ r.state = row.state /\ r.session = row.session /\ r.failedAt = row.failedAt
        /\ r.appliedRow = row.appliedRow
    <3> DEFINE q == [row EXCEPT !.summary = NoSummary, !.appliedAt = 0, !.firstTraffic = 0]
    <3>1. /\ q \in Rows /\ q.summary = NoSummary
          /\ q.state = row.state /\ q.session = row.session /\ q.failedAt = row.failedAt
          /\ q.appliedRow = row.appliedRow
      BY <1>1, Facts, IdleOK DEF Rows
    <3> HIDE DEF q
    <3>2. /\ Bumped(q) \in Rows /\ Bumped(q).version = row.version + 1
          /\ Bumped(q).summary = NoSummary
          /\ Bumped(q).state = row.state /\ Bumped(q).session = row.session
          /\ Bumped(q).failedAt = row.failedAt /\ Bumped(q).appliedRow = row.appliedRow
      BY <3>1, Facts DEF Bumped, Rows
    <3>3. QED
      BY <3>2 DEF q
  <2> HIDE DEF r
  <2>4. RowFits(r, log)
    BY <2>1, <2>3 DEF Inv, RowFits, RowOK, Verified
  <2>5. EventsOK(r, events, log) /\ Knows(Idle, r, events, log)
    BY <2>3, SameMarks, Resting
  <2>6. QED
    BY <1>1, <1>2, <2>2, <2>3, <2>4, <2>5, WriteStep
<1>4. CASE x.pc = "undoClear" /\ ~Current(x.own)
  <2>1. UNCHANGED row /\ End(a)
    BY <1>4 DEF CloseUndo, At
  <2>2. QED
    BY <1>1, <2>1, Facts, EndStep
<1>5. CASE x.pc # "undoClear" /\ Current(x.own) /\ x.complete
  <2>1. row' = h /\ actor' = [actor EXCEPT ![a] = y]
    BY <1>5 DEF CloseUndo, At, Set
  <2>2. "not_configured" \in States /\ ~("not_configured" \in Verified)
    BY DEF States, Verified
  <2>3. h \in Rows /\ h.version = row.version + 1 /\ h.state = "not_configured"
    BY <1>1, <2>2, HealthIs, Facts
  <2>4. Handle(h) \in Rows /\ RowOK(Handle(h)) /\ Handle(h).version = h.version
    BY <2>3, HandleOK
  <2> HIDE DEF h
  <2>5. y \in Commands /\ y.pc = "undoClear" /\ y.own = Handle(h)
    BY <2>4, IdleOK DEF Commands, Pcs, Idle
  <2> HIDE DEF y
  <2>6. Knows(y, h, events, log)
    BY <2>3, <2>4, <2>5, Facts DEF Knows, ApplyPcs, ReadPcs, Rows
  <2>7. QED
    BY <1>1, <2>1, <2>2, <2>5, <2>6, HealthStep DEF h
<1>6. CASE x.pc # "undoClear" /\ Current(x.own) /\ ~x.complete /\ CanFail(row.state)
  <2>1. PICK now \in Readings : row' = Health(x.own, "attention", now)
    BY <1>6 DEF CloseUndo, At
  <2>2. now \in Times /\ "attention" \in States /\ ~("attention" \in Verified)
    BY TrackingAssumption DEF Readings, Times, States, Watchable, Verified
  <2>3. actor' = [actor EXCEPT ![a] = Idle]
    BY <1>6 DEF CloseUndo, At, End, Set
  <2>4. Knows(Idle, Health(x.own, "attention", now), events, log)
    BY <2>2, HealthIs, Resting, Facts
  <2>5. QED
    BY <1>1, <1>2, <2>1, <2>2, <2>3, <2>4, HealthStep
<1>7. CASE /\ x.pc # "undoClear" /\ ~(Current(x.own) /\ x.complete)
           /\ ~(Current(x.own) /\ ~x.complete /\ CanFail(row.state))
  <2>1. UNCHANGED row /\ End(a)
    BY <1>7 DEF CloseUndo, At
  <2>2. QED
    BY <1>1, <2>1, Facts, EndStep
<1>8. QED
  BY <1>3, <1>4, <1>5, <1>6, <1>7

----------------------------------------------------------------------------
\* A request is recorded: in the session the row is in, and beyond every row there is.
LEMMA Records ==
  ASSUME Inv, NEW r \in Routes, Record(r)
  PROVE  Inv'
<1>1. PICK at \in Readings :
        LET e == [row |-> NewestRow + 1, at |-> at, route |-> r, of |-> row.session] IN
        events' = events \cup {e} /\ log' = log \cup {Trace(e)}
  BY DEF Record
<1> DEFINE e == [row |-> NewestRow + 1, at |-> at, route |-> r, of |-> row.session]
           t == Trace(e)
<1>2. NewestRow \in Nat /\ \A d \in events : d.row <= NewestRow
  BY Newest DEF Inv
<1>3. row.session \in Nat
  BY DEF Inv, TypeOK, Rows
<1>4. e \in Events /\ e.row = NewestRow + 1 /\ e.of = row.session /\ e.at = at
  BY <1>2, <1>3 DEF Events
<1>5. t.of = e.of /\ t.at = e.at
  BY DEF Trace
<1>6. events' = events \cup {e} /\ log' = log \cup {t}
  BY <1>1
<1> HIDE DEF e, t
<1>7. UNCHANGED <<row, links, table, actor, ops>>
  BY DEF Record
<1>8. TypeOK'
  BY <1>4, <1>6, <1>7 DEF Inv, TypeOK
<1>9. RowFits(row, log)'
  BY <1>6, <1>7 DEF Inv, RowFits, Witnessed
<1>10. \A d \in events : d.row \in Nat
  BY DEF Inv, TypeOK, Events
<1>11. EventsOK(row, events', log')
  <2>1. \A d \in events' : d.of <= row.session /\ \E u \in log' : u.of = d.of /\ u.at = d.at
    BY <1>3, <1>4, <1>5, <1>6 DEF Inv, EventsOK
  <2>2. Below(events', row.session, row.appliedRow)
    BY <1>3, <1>4, <1>6 DEF Inv, EventsOK, Below
  <2>3. NewestRow + 1 \in {d.row : d \in events'} \cup {0}
    BY <1>4, <1>6
  <2>4. ASSUME NEW n \in {d.row : d \in events'} \cup {0} PROVE NewestRow + 1 >= n
    BY <1>2, <1>4, <1>6, <1>10
  <2>5. QED
    BY <2>1, <2>2, <2>3, <2>4 DEF EventsOK
<1>12. ASSUME NEW b \in Actors PROVE Knows(actor[b], row, events', log')
  <2>1. Knows(actor[b], row, events, log)
    BY DEF Inv
  <2>2. Below(events, row.session, actor[b].rowid) => Below(events', row.session, actor[b].rowid)
    BY <1>3, <1>4, <1>6 DEF Below
  <2>3. /\ Witnessed(row.session, log) => Witnessed(row.session, log')
        /\ Answered(row.session, row.failedAt, log) => Answered(row.session, row.failedAt, log')
    BY <1>6 DEF Witnessed, Answered
  <2>4. QED
    BY <2>1, <2>2, <2>3 DEF Knows
<1>13. QED
  BY <1>7, <1>8, <1>9, <1>11, <1>12 DEF Inv

LEMMA Erases ==
  ASSUME Inv, Erase
  PROVE  Inv'
<1>1. UNCHANGED <<row, links, table, actor, ops, log>> /\ events' = {}
  BY DEF Erase
<1>2. TypeOK' /\ RowFits(row, log)'
  BY <1>1 DEF Inv, TypeOK
<1>3. EventsOK(row, {}, log)
  BY DEF EventsOK, Below
<1>4. ASSUME NEW b \in Actors PROVE Knows(actor[b], row, {}, log)
  BY DEF Inv, Knows, Below
<1>5. QED
  BY <1>1, <1>2, <1>3, <1>4 DEF Inv

----------------------------------------------------------------------------
\* Inv holds at the start, and every step keeps it.
LEMMA InitInv ==
  ASSUME Init
  PROVE  Inv
<1> USE DEF Init
<1>1. TypeOK
  BY IdleOK, TrackingAssumption DEF TypeOK
<1>2. RowFits(row, log)
  BY IdleOK DEF RowFits, NoRow, Verified
<1>3. EventsOK(row, events, log)
  BY DEF EventsOK, Below
<1>4. \A a \in Actors : Knows(actor[a], row, events, log)
  BY IdleOK, Resting
<1>5. QED
  BY <1>1, <1>2, <1>3, <1>4 DEF Inv

LEMMA StepInv ==
  ASSUME Inv, [Next]_vars
  PROVE  Inv'
<1>1. ASSUME NEW a \in Actors, Apply(a) PROVE Inv'
  <2>1. ASSUME NEW r \in Routes, EnsureRoute(a, r) \/ EnsureLink(a, r) PROVE Inv'
    BY <2>1, EnsuresRoute, EnsuresLink
  <2>2. QED
    BY <1>1, <2>1, StartsApply, Upserts, EnsuresService, RecordsRoutes, PathCheckFailing,
       ReadsWatermark, RecordsApplied, EndsApply, FailReads, FailWrites DEF Apply
<1>2. ASSUME NEW a \in Actors, Refresh(a) PROVE Inv'
  BY <1>2, StartsRefresh, Judges, Corrects, WritesFirstTraffic, WritesFirstVerified DEF Refresh
<1>3. ASSUME NEW a \in Actors, Undo(a) PROVE Inv'
  <2>1. ASSUME NEW r \in Routes, UndoLink(a, r) \/ UndoRoute(a, r) PROVE Inv'
    BY <2>1, UndoesLink, UndoesRoute
  <2>2. QED
    BY <1>3, <2>1, StartsUndo, ChecksUndo, UndoesLinks, UndoRemoves, ClosesUndo DEF Undo
<1>4. ASSUME NEW a \in Actors, Die(a) PROVE Inv'
  BY <1>4, Dies
<1>5. ASSUME NEW r \in Routes, Record(r) PROVE Inv'
  BY <1>5, Records
<1>6. CASE Erase
  BY <1>6, Erases
<1>7. CASE UNCHANGED vars
  BY <1>7 DEF vars, Inv, TypeOK
<1>8. QED
  BY <1>1, <1>2, <1>3, <1>4, <1>5, <1>6, <1>7 DEF Next

\* The strengthened invariant.
THEOREM Invariant == Spec => []Inv
<1>1. Init => Inv
  BY InitInv
<1>2. Inv /\ [Next]_vars => Inv'
  BY StepInv
<1>3. QED
  BY <1>1, <1>2, PTL DEF Spec

\* Every row and every command keeps its type; a row that is verified was applied, and a
\* failure is on a row whose state shows it.
THEOREM TypeCorrect == Spec => []TypeOK
<1>1. Inv => TypeOK
  BY DEF Inv
<1>2. QED
  BY <1>1, Invariant, PTL

\* The plan summary an undo acts on is that of the session the row is in: a guarded write
\* of an apply that was overtaken does not land (cas_write_summary).
THEOREM SummaryOfSession == Spec => []RecordedMatchesSession
<1>1. Inv => RecordedMatchesSession
  BY DEF Inv, RowFits, RecordedMatchesSession
<1>2. QED
  BY <1>1, Invariant, PTL

\* Observed or partial rests on a request of that session, by the row watermark of
\* upsert_setup and record_applied and the guarded write of the derived state.
THEOREM EvidenceRight == Spec => []EvidenceOfSession
<1>1. Inv => EvidenceOfSession
  BY DEF Inv, RowFits, EvidenceOfSession, Witnessed, Verified
<1>2. QED
  BY <1>1, Invariant, PTL

----------------------------------------------------------------------------
\* The failure record goes, within the session and not with the setup.
Forgets ==
  row.failedAt # 0 /\ row'.failedAt = 0 /\ row'.session = row.session
    /\ row'.state # "not_configured"

\* A write that is not that of the health leaves the record.
LEMMA ForgetsNot ==
  ASSUME row'.failedAt = row.failedAt
  PROVE  ~Forgets
BY DEF Forgets

LEMMA HealthForgets ==
  ASSUME Inv, NEW own, NEW next \in States, NEW failed \in Times,
         row' = Health(own, next, failed), Forgets
  PROVE  failed = 0 /\ next # "not_configured"
<1>1. row \in Rows
  BY DEF Inv, TypeOK
<1>2. Health(own, next, failed).failedAt = failed /\ Health(own, next, failed).state = next
  BY <1>1, HealthIs
<1>3. QED
  BY <1>2 DEF Forgets

\* Only the refresh that judged it answered removes it.
LEMMA AnsweredOnly ==
  ASSUME Inv, [Next]_vars, Forgets
  PROVE  Answered(row.session, row.failedAt, log)
<1>1. ASSUME UNCHANGED row PROVE FALSE
  BY <1>1 DEF Forgets
<1>2. ~(0 \in Readings) /\ Readings \subseteq Times /\ 0 \in Times
  BY TrackingAssumption DEF Readings, Times
<1>3. "attention" \in States /\ "awaiting" \in States /\ "not_configured" \in States
  BY DEF States, Watchable
<1>4. ASSUME NEW a \in Actors, NEW now \in Readings,
             row' = Health(actor[a].own, "attention", now)
      PROVE  FALSE
  BY <1>2, <1>3, <1>4, HealthForgets
<1>5. ASSUME NEW a \in Actors, Upsert(a) PROVE FALSE
  <2>1. row'.session = row.session + 1 /\ row.session \in Nat
    <3>1. row.session \in Nat /\ row.session + 1 \in Nat
      BY Facts DEF Rows
    <3>2. row'.session = row.session + 1
      BY <1>5 DEF Upsert, NoRow
    <3>3. QED
      BY <3>1, <3>2
  <2>2. QED
    BY <2>1 DEF Forgets
<1>6. ASSUME NEW a \in Actors, RecordRoutes(a) PROVE FALSE
  BY <1>1, <1>6, Facts, ForgetsNot DEF RecordRoutes, Bumped, Rows
<1>7. ASSUME NEW a \in Actors, RecordApplied(a) PROVE FALSE
  BY <1>1, <1>7, Facts, ForgetsNot DEF RecordApplied, Bumped, Rows
<1>8. ASSUME NEW a \in Actors, EndApply(a) PROVE FALSE
  <2>1. Current(actor[a].own) /\ actor[a].pc = "end"
    BY <1>1, <1>8 DEF EndApply, At
  <2>2. row.state = "applying"
    BY <2>1, Facts DEF Knows, ApplyPcs, Current
  <2>3. QED
    BY <2>2 DEF Forgets, Inv, RowFits, RowOK
<1>9. ASSUME NEW a \in Actors, FailWrite(a) PROVE FALSE
  BY <1>1, <1>4, <1>9 DEF FailWrite
<1>10. ASSUME NEW a \in Actors, Correct(a)
       PROVE  Answered(row.session, row.failedAt, log)
  <2> DEFINE x == actor[a]
  <2>1. Current(x.own) /\ x.pc = "correct" /\ row' = Health(x.own, x.next, Kept(x))
    BY <1>1, <1>10 DEF Correct, At
  <2>2. x.next \in States /\ Kept(x) \in Times
    BY <1>2, Facts DEF Commands, Rows, Kept
  <2>3. Kept(x) = 0
    BY <2>1, <2>2, HealthForgets
  <2>4. x.own.failedAt = row.failedAt /\ row.failedAt # 0
    BY <2>1, Facts DEF Knows, Current, Same, ReadPcs, Forgets
  <2>5. x.clears
    BY <2>3, <2>4 DEF Kept
  <2>6. QED
    BY <2>1, <2>4, <2>5, Facts DEF Knows, Current
<1>11. ASSUME NEW a \in Actors, WriteFirstTraffic(a) \/ WriteFirstVerified(a) PROVE FALSE
  BY <1>1, <1>11, Facts, ForgetsNot DEF WriteFirstTraffic, WriteFirstVerified, Rows
<1>12. ASSUME NEW a \in Actors, CloseUndo(a) PROVE FALSE
  <2>1. CASE row' = Bumped([row EXCEPT !.summary = NoSummary, !.appliedAt = 0,
                                       !.firstTraffic = 0])
    BY <2>1, Facts, ForgetsNot DEF Bumped, Rows
  <2>2. CASE row' = Health(actor[a].own, "not_configured", 0)
    BY <2>2, <1>2, <1>3, HealthForgets
  <2>3. QED
    BY <1>1, <1>4, <1>12, <2>1, <2>2 DEF CloseUndo
<1>13. ASSUME NEW a \in Actors, Apply(a) PROVE FALSE
  BY <1>1, <1>5, <1>6, <1>7, <1>8, <1>9, <1>13
     DEF Apply, StartApply, EnsureService, EnsureRoute, EnsureLink, PathCheckFails,
         ReadWatermark, FailRead
<1>14. ASSUME NEW a \in Actors, Refresh(a)
       PROVE  Answered(row.session, row.failedAt, log)
  BY <1>1, <1>10, <1>11, <1>14 DEF Refresh, StartRefresh, Judge
<1>15. ASSUME NEW a \in Actors, Undo(a) PROVE FALSE
  BY <1>1, <1>12, <1>15
     DEF Undo, StartUndo, CheckUndo, LinksUndone, UndoRemove, UndoLink, UndoRoute
<1>16. QED
  BY <1>1, <1>13, <1>14, <1>15 DEF Next, Die, Record, Erase, vars

\* A recorded failure goes, within a session, only for an observation that is not older:
\* a refresh that read the row before the failure was written does not erase it.
THEOREM FailureStays == Spec => FailureKept
<1>1. ASSUME Inv, [Next]_vars
      PROVE  [row.failedAt # 0 /\ row'.failedAt = 0 /\ row'.session = row.session
                /\ row'.state # "not_configured"
              => \E e \in log : e.of = row.session /\ e.at >= row.failedAt]_vars
  BY <1>1, AnsweredOnly DEF Forgets, Answered
<1>2. QED
  BY <1>1, Invariant, PTL DEF Spec, FailureKept
=============================================================================

--------------------------- MODULE RuntimeMetrics ---------------------------
(***************************************************************************)
(* Metric buckets of observed traffic (crates/core/src/runtime:            *)
(* aggregate.rs, retention.rs) and the three processes that maintain them: *)
(* the gateway's writer thread, the desktop monitor, and the launcher of   *)
(* an observed run that finalizes its session.  They share the rows of     *)
(* one database and nothing else; a statement or a transaction is a step.  *)
(*                                                                         *)
(* A bucket is the set of events it counts, which is what its 27 columns   *)
(* are sums over.  A bucket without events has no row.  Time is in ticks;  *)
(* an hour is HourLen of them, a day DayLen hours.                         *)
(***************************************************************************)
EXTENDS Integers, Sequences

CONSTANTS
  Events,      \* requests observed
  Attributed,  \* exchanges recorded with a credential
  Maintainers, \* which of "gateway" and "monitor" are running
  MaxTime,     \* bound: ticks
  HourLen, DayLen,
  EventLife,   \* event_retention_days
  BucketLife,  \* aggregate_retention_days
  Lag          \* how long an exchange may take before it is recorded

ASSUME TimeAssumption ==
  /\ MaxTime \in Nat /\ HourLen \in Nat \ {0} /\ DayLen \in Nat \ {0}
  /\ EventLife \in Nat /\ BucketLife \in Nat \ {0} /\ Lag \in Nat
ASSUME EventsAssumption ==
  /\ Attributed \subseteq Events
  /\ Maintainers \subseteq {"gateway", "monitor"}

Actors == Maintainers \cup {"run"}
Never == -1
Times == 0..MaxTime
Hours == 0..(MaxTime \div HourLen)
Days == 0..(MaxTime \div (HourLen * DayLen))

VARIABLES
  ran,       \* requests made by the child of the observed run; the others pass the gateway
  now,
  at,        \* [Events -> Times \cup {Never}]: the event's `at`
  row,       \* [Events -> ...]: the event's row in runtime_request_events
  known,     \* events whose credential_id is set
  hour, hourBy,  \* [Hours -> SUBSET Events]: all-credential, per-credential hour buckets
  day, dayBy,    \* [Days -> SUBSET Events]: the day buckets
  wm,        \* the watermark of vault_meta, an hour, or Never
  op,        \* [Actors -> ...]: an actor's place in its maintenance, and its locals
  batch,     \* times the gateway persisted since it last re-rolled (batch_min, batch_max)
  session,   \* the observed run's session row: "live", "deleted"
  erasing,   \* the tables delete_all or delete_project_data has still to delete from
  unrolled,  \* events nobody will re-roll: their writer died owing it, or they were
             \* recorded between the deletes of an erase, or its re-roll failed (history)
  late       \* events recorded behind the watermark, or one a sweep has read (history)

buckets == <<hour, hourBy, day, dayBy>>
vars == <<ran, now, at, row, known, buckets, wm, op, batch, session, erasing, unrolled, late>>

HourOf(t) == t \div HourLen
DayOf(h) == h \div DayLen
Rows == {e \in Events : row[e] = "present"}
EventHour(e) == HourOf(at[e])

Nothing == [tables |-> <<>>, asked |-> {}]
Places == {"idle", "read", "roll", "reroll", "sweep", "prune", "age", "finished"}

TypeOK ==
  /\ now \in Times /\ at \in [Events -> Times \cup {Never}]
  /\ row \in [Events -> {"none", "present", "pruned", "erased", "dropped"}]
  /\ known \subseteq Events /\ ran \subseteq Events
  /\ hour \in [Hours -> SUBSET Events] /\ hourBy \in [Hours -> SUBSET Events]
  /\ day \in [Days -> SUBSET Events] /\ dayBy \in [Days -> SUBSET Events]
  /\ wm \in Hours \cup {Never}
  /\ op \in [Actors -> [pc : Places, now : Times, wm : Hours \cup {Never}]]
  /\ batch \subseteq Times /\ session \in {"live", "deleted"} /\ erasing \in [tables : Seq({"events", "buckets", "sessions"}), asked : SUBSET Events]
  /\ unrolled \subseteq Events /\ late \subseteq Events

Init ==
  /\ ran \in SUBSET Events
  /\ now = 0 /\ at = [e \in Events |-> Never] /\ row = [e \in Events |-> "none"]
  /\ known = {} /\ wm = Never /\ batch = {} /\ unrolled = {} /\ late = {}
  /\ hour = [h \in Hours |-> {}] /\ hourBy = [h \in Hours |-> {}]
  /\ day = [d \in Days |-> {}] /\ dayBy = [d \in Days |-> {}]
  /\ op = [p \in Actors |-> [pc |-> "idle", now |-> 0, wm |-> Never]]
  /\ session = "live" /\ erasing = Nothing

At(p, pc) == op[p].pc = pc

(***************************************************************************)
(* Traffic.                                                                *)
(***************************************************************************)
Tick ==
  /\ now < MaxTime /\ now' = now + 1
  /\ UNCHANGED <<ran, at, row, known, buckets, wm, op, batch, session, erasing, unrolled, late>>

\* An exchange carries the time at which it began; it is recorded when it is over, within
\* the bound the upstream timeouts put on it.
Recorded(e, lag) ==
  /\ row[e] = "none" /\ row' = [row EXCEPT ![e] = "present"]
  /\ \E t \in Times : t <= now /\ now - t <= lag /\ at' = [at EXCEPT ![e] = t]
  /\ late' = late \cup {x \in {e} : \E w \in {wm} \cup {op[p].wm : p \in Actors} : HourOf(at'[x]) < w}

\* persist_one: the writer thread is the gateway's maintenance thread too.  The row is
\* written with its attribution, if there is one.
PersistExchange(e) ==
  /\ e \notin ran /\ At("gateway", "idle") /\ Recorded(e, Lag)
  /\ batch' = batch \cup {at'[e]} /\ known' = known \cup ({e} \cap Attributed)
  /\ UNCHANGED <<ran, now, buckets, wm, op, session, erasing, unrolled>>

\* write_event: the run's own writer stamps the event as it writes it; it is joined before
\* the session is finalized.  A session row that was deleted refuses the event (foreign key).
WriteEvent(e) ==
  /\ e \in ran /\ At("run", "idle") /\ session = "live" /\ Recorded(e, 0)
  /\ UNCHANGED <<ran, now, known, buckets, wm, op, batch, session, erasing, unrolled>>

(***************************************************************************)
(* aggregate.rs.                                                           *)
(***************************************************************************)
Goto(p, pc) == op' = [op EXCEPT ![p] = [pc |-> pc, now |-> 0, wm |-> Never]]

\* Variant: the day's sums start at the hour that was rolled.
DaySumsFromHour(f, from) ==
  [d \in Days |-> UNION {f[h] : h \in {x \in Hours : DayOf(x) = d /\ x >= from}}]

\* The sum of a day's hour buckets.
DaySums(f, from) == [d \in Days |-> UNION {f[h] : h \in {x \in Hours : DayOf(x) = d}}]

\* recompute_hour_buckets over [from, to), then recompute_day_buckets from that day on.
Recompute(from, to) ==
  LET counted(S, f) ==
        [h \in Hours |-> IF from <= h /\ h < to THEN {e \in S : EventHour(e) = h} ELSE f[h]]
      summed(f, g) == [d \in Days |-> IF d >= DayOf(from) THEN DaySums(f, from)[d] ELSE g[d]]
  IN /\ hour' = counted(Rows, hour) /\ hourBy' = counted(Rows \cap known, hourBy)
     /\ day' = summed(hour', day) /\ dayBy' = summed(hourBy', dayBy)

AfterRoll(p) == IF p = "gateway" THEN "reroll" ELSE "sweep"

\* maintenance (gateway timer, flush, stop), run_monitor and run_monitored call roll_up with
\* their clock; it reads its watermark before its transaction.
RollRead(p) ==
  /\ IF p = "run" THEN At(p, "read") ELSE At(p, "idle")
  /\ IF HourOf(now) <= wm THEN Goto(p, AfterRoll(p))
     ELSE op' = [op EXCEPT ![p] = [pc |-> "roll", now |-> now, wm |-> wm]]
  /\ UNCHANGED <<ran, now, at, row, known, buckets, wm, batch, session, erasing, unrolled, late>>

\* Variant: the watermark counts the current, unfinished hour as rolled.
RollUpCurrent(p) ==
  /\ At(p, "roll")
  /\ LET from == IF op[p].wm = Never THEN 0 ELSE op[p].wm
     IN Recompute(from, HourOf(op[p].now))
  /\ wm' = HourOf(op[p].now) + 1 /\ Goto(p, AfterRoll(p))
  /\ UNCHANGED <<ran, now, at, row, known, batch, session, erasing, unrolled, late>>

RollUp(p) ==
  /\ At(p, "roll")
  /\ LET from == IF op[p].wm = Never THEN 0 ELSE op[p].wm
     IN Recompute(from, HourOf(op[p].now))
  /\ wm' = HourOf(op[p].now) /\ Goto(p, AfterRoll(p))
  /\ UNCHANGED <<ran, now, at, row, known, batch, session, erasing, unrolled, late>>

\* Its error is ignored and nothing is written.
RollFails(p) ==
  /\ At(p, "roll") /\ Goto(p, AfterRoll(p))
  /\ UNCHANGED <<ran, now, at, row, known, buckets, wm, batch, session, erasing, unrolled, late>>

Span(T) == {t \in Times : \E a, b \in T : a <= t /\ t <= b}

\* Variant: the last hour of the span is left out.
RerollExclusive(T) ==
  IF T = {} THEN UNCHANGED buckets
  ELSE LET hs == {HourOf(t) : t \in T}
           from == CHOOSE h \in hs : \A x \in hs : h <= x
           last == CHOOSE h \in hs : \A x \in hs : x <= h
       IN Recompute(from, last)

\* reroll_hours over the hours of a span of event times, the last one included.
Reroll(T) ==
  IF T = {} THEN UNCHANGED buckets
  ELSE LET hs == {HourOf(t) : t \in T}
           from == CHOOSE h \in hs : \A x \in hs : h <= x
           last == CHOOSE h \in hs : \A x \in hs : x <= h
       IN Recompute(from, last + 1)

(***************************************************************************)
(* retention.rs.                                                           *)
(***************************************************************************)
\* sweep_with reads the clock and the watermark.
SweepRead(p) ==
  /\ At(p, "sweep")
  /\ op' = [op EXCEPT ![p].now = now, ![p].wm = wm, ![p].pc = "prune"]
  /\ UNCHANGED <<ran, now, at, row, known, buckets, wm, batch, session, erasing, unrolled, late>>

\* Variant: by age alone.
PrunableByAge(p, e) == at[e] < op[p].now - EventLife

\* Before the watermark as well as old: nothing at all without a watermark.
Prunable(p, e) ==
  op[p].wm # Never /\ at[e] < op[p].wm * HourLen /\ at[e] < op[p].now - EventLife

Prune(p) ==
  /\ At(p, "prune") /\ op' = [op EXCEPT ![p].pc = "age"]
  /\ row' = [e \in Events |-> IF e \in Rows /\ Prunable(p, e) THEN "pruned" ELSE row[e]]
  /\ UNCHANGED <<ran, now, at, known, buckets, wm, batch, session, erasing, unrolled, late>>

Aged(p, start) == start < op[p].now - BucketLife
DayStart(d) == d * DayLen * HourLen

AgeBuckets(p) ==
  LET hours(f) == [h \in Hours |-> IF Aged(p, h * HourLen) THEN {} ELSE f[h]]
      days(f) == [d \in Days |-> IF Aged(p, DayStart(d)) THEN {} ELSE f[d]]
  IN /\ At(p, "age") /\ Goto(p, IF p = "run" THEN "finished" ELSE "idle")
     /\ hour' = hours(hour) /\ hourBy' = hours(hourBy) /\ day' = days(day) /\ dayBy' = days(dayBy)
     /\ UNCHANGED <<ran, now, at, row, known, wm, batch, session, erasing, unrolled, late>>

(***************************************************************************)
(* Who maintains.                                                          *)
(***************************************************************************)
\* The hours of the batch, which is taken.
RerollBatch ==
  /\ At("gateway", "reroll") /\ Goto("gateway", "sweep")
  /\ Reroll(batch) /\ batch' = {}
  /\ UNCHANGED <<ran, now, at, row, known, wm, session, erasing, unrolled, late>>

\* The batch is taken before its re-roll, whose error is ignored.
Lost == {e \in Events \ ran : row[e] # "none" /\ at[e] \in Span(batch)}

RerollFails ==
  /\ At("gateway", "reroll") /\ Goto("gateway", "sweep") /\ batch # {} /\ batch' = {}
  /\ unrolled' = unrolled \cup Lost
  /\ UNCHANGED <<ran, now, at, row, known, buckets, wm, session, erasing, late>>

\* The gateway is killed: it forgets which hours it owes.
GatewayDies ==
  /\ unrolled' = unrolled \cup Lost
  /\ op' = [op EXCEPT !["gateway"] = [pc |-> "idle", now |-> 0, wm |-> Never]]
  /\ batch' = {} /\ unrolled' # unrolled
  /\ UNCHANGED <<ran, now, at, row, known, buckets, wm, session, erasing, late>>

\* The child is gone, the writer joined: any of the session's services may have one
\* credential (attribute_session).
Attribute ==
  /\ At("run", "idle") /\ Goto("run", "reroll")
  /\ \E S \in SUBSET (Rows \cap ran) : known' = known \cup S
  /\ UNCHANGED <<ran, now, at, row, buckets, wm, batch, session, erasing, unrolled, late>>

\* Variant: the hours are recomputed before the attribution is written.
RerollBefore == Reroll({})

\* The span of the session's events, read and re-rolled.
RerollSession == Reroll({at[e] : e \in Rows \cap ran})

Finalize ==
  /\ At("run", "reroll") /\ RerollSession /\ Goto("run", "read")
  /\ UNCHANGED <<ran, now, at, row, known, wm, batch, session, erasing, unrolled, late>>

FinalizeUnrolled ==
  /\ At("run", "reroll") /\ unrolled' = unrolled \cup (Rows \cap ran)
  /\ Goto("run", "read")
  /\ UNCHANGED <<ran, now, at, row, known, buckets, wm, batch, session, erasing, late>>

(***************************************************************************)
(* delete_all and delete_project_data: one statement per table and no      *)
(* transaction.  Deleting a session deletes its events (cascade).          *)
(***************************************************************************)
\* Variant: the buckets before the events.
TablesBucketsFirst == {<<"buckets", "events", "sessions">>, <<"buckets", "sessions", "events">>}

\* The order of delete_all, and that of delete_project_data.
TablesInOrder == {<<"events", "buckets", "sessions">>, <<"sessions", "events", "buckets">>}

\* An event that was there when the deletion began is erased; a later one is dropped.
EraseTable(tables, asked) ==
  /\ erasing' = IF Len(tables) = 1 THEN Nothing ELSE [tables |-> Tail(tables), asked |-> asked]
  /\ row' = IF Head(tables) = "buckets" THEN row
            ELSE [e \in Events |-> CASE row[e] = "pruned" /\ e \in asked -> "erased"
                                    [] row[e] = "present" -> IF e \in asked THEN "erased" ELSE "dropped"
                                    [] OTHER -> row[e]]
  /\ session' = IF Head(tables) = "sessions" THEN "deleted" ELSE session
  /\ IF Head(tables) = "buckets"
     THEN /\ hour' = [h \in Hours |-> {}] /\ hourBy' = hour'
          /\ day' = [d \in Days |-> {}] /\ dayBy' = day'
          /\ unrolled' = unrolled \cup Rows
     ELSE UNCHANGED <<buckets, unrolled>>
  /\ UNCHANGED <<ran, now, at, known, wm, op, batch, late>>

EraseBegins ==
  /\ erasing = Nothing /\ session = "live"
  /\ \E tables \in TablesInOrder : EraseTable(tables, {e \in Events : row[e] # "none"})

EraseNext == erasing # Nothing /\ EraseTable(erasing.tables, erasing.asked)

Maintain(p) ==
  \/ RollRead(p) \/ RollUp(p) \/ RollFails(p) \/ SweepRead(p) \/ Prune(p) \/ AgeBuckets(p)

Next ==
  \/ Tick \/ \E e \in Events : PersistExchange(e) \/ WriteEvent(e)
  \/ \E p \in Actors : Maintain(p)
  \/ RerollBatch \/ RerollFails \/ GatewayDies
  \/ Attribute \/ Finalize \/ FinalizeUnrolled
  \/ EraseBegins \/ EraseNext

Spec == Init /\ [][Next]_vars

\* The gateway's timer keeps firing; no other process is owed a step.
FairSpec == Spec /\ WF_vars(Maintain("gateway") \/ RerollBatch \/ RerollFails)

(***************************************************************************)
(* Properties.                                                             *)
(***************************************************************************)
\* The hour of the event is past the life of its bucket, which starts with the hour.
PastLife(e) == EventHour(e) * HourLen < now - BucketLife

\* Somebody still owes the event's hour a re-roll: the gateway's batch, or the run's
\* finalization; or its writer died with the debt.
Owed(e) ==
  \/ at[e] \in Span(batch)
  \/ e \in ran /\ op["run"].pc \in {"idle", "reroll"}
  \/ e \in unrolled

\* An event behind the watermark is in its hour's bucket, however roll-ups with old
\* watermarks, sweeps and re-rolls of other processes are interleaved (roll_up).  A bucket
\* past its life, and buckets that are being deleted, have no row.
BehindWatermarkCounted ==
  \A e \in Rows :
    EventHour(e) < wm => e \in hour[EventHour(e)] \/ Owed(e) \/ PastLife(e)

\* retention.rs: "never delete an event that has not yet been rolled into a metric bucket".
PruneOnlyCounted ==
  [][\A e \in Events : row[e] = "present" /\ row'[e] = "pruned" =>
       e \in hour[EventHour(e)] \/ e \in late \/ e \in unrolled \/ PastLife(e)]_vars

\* A day's bucket is the sum of the hour buckets of its day, whoever recomputed which hours
\* of it and whatever was aged out (recompute_day_buckets).
DaysAddUp ==
  \A d \in Days :
    LET sums(f, g) == g[d] = DaySums(f, 0)[d]
    IN \/ sums(hour, day) /\ sums(hourBy, dayBy)
       \/ DayStart(d) < now - BucketLife /\ day[d] = {} /\ dayBy[d] = {}

\* Once a run is finalized, every event that got a credential is in that credential's
\* bucket, even if a monitor had rolled its hour up before (reroll_hours).
AttributedCounted ==
  op["run"].pc \in {"read", "roll", "sweep", "prune", "age", "finished"} =>
    \A e \in Rows \cap ran \cap known :
      e \in hourBy[EventHour(e)] \/ PastLife(e) \/ e \in unrolled

\* PRIVACY.md: deletion covers the metrics.  When it returned, no bucket counts an event
\* that was there when it began, whatever roll-ups ran between its statements (delete_all).
ErasedStaysErased ==
  erasing = Nothing => \A e \in Events : row[e] = "erased" =>
    \A h \in Hours, d \in Days : e \notin hour[h] \cup hourBy[h] \cup day[d] \cup dayBy[d]

\* A late event is counted at last: as long as the gateway runs, an exchange recorded
\* behind the watermark gets into its bucket ("re-roll the batch's own hour range").
LateEventCounted ==
  \A e \in Events :
    (e \notin ran /\ row[e] = "present" /\ EventHour(e) < wm) ~>
      (row[e] # "present" \/ e \in hour[EventHour(e)] \/ e \in unrolled
       \/ PastLife(e) \/ erasing # Nothing)
=============================================================================

--------------------------- MODULE GatewayWriter ---------------------------
(***************************************************************************)
(* The gateway's observation writer (crates/gateway/src/writer.rs).        *)
(*                                                                         *)
(* Connection threads hand records and counter bumps to a bounded channel  *)
(* with try_send: a full queue drops and counts.  The control plane sends  *)
(* matcher installs and clears through the same channel.  One worker       *)
(* thread receives messages in batches and persists them; Writer::stop     *)
(* flushes, raises the stop flag and waits, with a bound, for the worker's *)
(* tail.  Every call that crosses the channel is a message with one caller *)
(* of its own, so all interleavings of concurrent connections are covered. *)
(*                                                                         *)
(* The relaxed atomics of WriterState are updated in steps separate from   *)
(* the channel operations they count, as in the code.  `fate`, `installs`, *)
(* `seen`, `used`, `owed` and `late` are history variables: they record    *)
(* what became of a message, so that the code's counters and promises can  *)
(* be held to it.                                                          *)
(***************************************************************************)
EXTENDS Integers, Sequences, FiniteSets

CONSTANTS
  Records,       \* ExchangeRecords that connections finish with
  Counters,      \* counter bumps
  Matchers,      \* matcher messages (installs and clears) of the control plane
  FlushMsg,      \* the Flush message Writer::stop sends
  QueueCapacity, \* QUEUE_CAPACITY
  BatchMax,      \* BATCH_MAX
  TailFactor,    \* the tail drains at most BATCH_MAX * TailFactor messages
  Wrap           \* 2^64: in_flight is an AtomicU64

NoMatcher == "no matcher"

Msgs == Records \cup Counters \cup Matchers \cup {FlushMsg}

\* The messages the in_flight counter counts.
Counted == Records \cup Counters

ASSUME QueueAssumption ==
  /\ QueueCapacity \in Nat \ {0}
  /\ BatchMax \in Nat \ {0}
  /\ TailFactor \in Nat \ {0}
  /\ Wrap \in Nat \ {0} /\ QueueCapacity < Wrap

\* BATCH_MAX * 4 is no smaller than QUEUE_CAPACITY: one tail drain empties a full queue.
ASSUME TailAssumption == QueueCapacity <= BatchMax * TailFactor

ASSUME KindAssumption ==
  /\ IsFiniteSet(Records) /\ IsFiniteSet(Counters) /\ IsFiniteSet(Matchers)
  /\ Records \cap Counters = {}
  /\ Matchers \cap (Records \cup Counters) = {}
  /\ FlushMsg \notin Records \cup Counters \cup Matchers
  /\ NoMatcher \notin Matchers

VARIABLES
  queue,            \* the bounded mpsc channel
  call,             \* where the caller of each message is in its send
  fate,             \* what became of each message (history)
  queued, dropped, droppedCounters, written, persistFailures,  \* WriterState
  inFlight,         \* the sink's in_flight counter
  worker,           \* the worker thread's place in run / process_batch
  batch,            \* the batch in hand (the tail included)
  inTail,           \* TRUE once the worker left its loop for the tail drain
  matcher,          \* the worker's matcher: a message of Matchers, or none
  installs,         \* the matcher messages in the order the queue took them (history)
  seen,             \* Len(installs) when a record entered the queue (history)
  used,             \* position in installs of the matcher that resolved it (history)
  stopping, finished,  \* the two flags Writer::stop and the worker share
  stopper,          \* the thread in Writer::stop
  drained,          \* the result of stop's flush
  replied,          \* the worker answered the Flush
  owed,             \* what was unsettled when the Flush entered the queue (history)
  late              \* what entered the queue after the worker left its loop (history)

stats == <<queued, dropped, droppedCounters, written, persistFailures>>
history == <<installs, seen, used, owed>>
loopVars == <<worker, batch, inTail, matcher, finished>>
stopVars == <<stopping, stopper, drained>>
vars == <<queue, call, fate, stats, inFlight, loopVars, replied, history, late, stopVars>>

Fates == {"new", "queued", "taken", "kept", "failed", "refused", "lost"}
Settled == {"kept", "failed", "refused", "lost"}

\* Messages with a given fate.
With(f) == {m \in Msgs : fate[m] = f}
Elems(s) == {s[i] : i \in 1..Len(s)}

\* The receiver is dropped when the worker's closure returns.
Connected == worker # "exited"
HasRoom == Len(queue) < QueueCapacity

TypeOK ==
  /\ queue \in Seq(Msgs)
  /\ call \in [Msgs -> {"idle", "sent", "counted", "refused", "done"}]
  /\ fate \in [Msgs -> Fates]
  /\ queued \in Nat /\ dropped \in Nat /\ droppedCounters \in Nat
  /\ written \in Nat /\ persistFailures \in Nat
  /\ inFlight \in 0..Wrap-1
  /\ worker \in {"recv", "fill", "persist", "tail", "final", "finished", "exited"}
  /\ batch \in Seq(Msgs)
  /\ inTail \in BOOLEAN /\ replied \in BOOLEAN
  /\ matcher \in Matchers \cup {NoMatcher}
  /\ installs \in Seq(Matchers)
  /\ seen \in [Records -> Nat] /\ used \in [Records -> Nat]
  /\ stopping \in BOOLEAN /\ finished \in BOOLEAN
  /\ stopper \in {"run", "flush", "await", "flag", "join", "done"}
  /\ drained \in BOOLEAN
  /\ owed \subseteq Msgs /\ late \subseteq Msgs

\* Writer::start.  Spawning the thread may fail (`.ok()`): the receiver is then
\* dropped with the closure and the channel is disconnected from the start.
Init ==
  /\ queue = <<>> /\ batch = <<>>
  /\ call = [m \in Msgs |-> "idle"]
  /\ fate = [m \in Msgs |-> "new"]
  /\ queued = 0 /\ dropped = 0 /\ droppedCounters = 0
  /\ written = 0 /\ persistFailures = 0 /\ inFlight = 0
  /\ worker \in {"recv", "exited"}
  /\ inTail = FALSE /\ replied = FALSE
  /\ matcher = NoMatcher /\ installs = <<>>
  /\ seen = [r \in Records |-> 0] /\ used = [r \in Records |-> 0]
  /\ stopping = FALSE /\ finished = FALSE
  /\ stopper = "run" /\ drained = FALSE /\ owed = {} /\ late = {}

-----------------------------------------------------------------------------
(* The forwarding path: WriterSink::record and WriterSink::count.          *)

\* try_send succeeds.
Enqueue(m, next) ==
  /\ Connected /\ HasRoom
  /\ queue' = Append(queue, m)
  /\ fate' = [fate EXCEPT ![m] = "queued"]
  /\ call' = [call EXCEPT ![m] = next]
  /\ late' = IF inTail THEN late \cup {m} ELSE late

TrySendRecord(r) ==
  /\ r \in Records /\ call[r] = "idle"
  /\ Enqueue(r, "sent")
  /\ seen' = [seen EXCEPT ![r] = Len(installs)]
  /\ UNCHANGED <<stats, inFlight, loopVars, replied, installs, used, owed, stopVars>>

TrySendCounter(c) ==
  /\ c \in Counters /\ call[c] = "idle"
  /\ Enqueue(c, "counted")
  /\ UNCHANGED <<stats, inFlight, loopVars, replied, history, stopVars>>

\* Variant: a blocking send, which only a disconnected channel releases.
RefuseBlocking(m) ==
  /\ m \in Counted /\ call[m] = "idle" /\ ~Connected
  /\ fate' = [fate EXCEPT ![m] = "refused"]
  /\ call' = [call EXCEPT ![m] = "refused"]
  /\ UNCHANGED <<queue, stats, inFlight, loopVars, replied, history, late, stopVars>>

\* try_send fails with Full or Disconnected: the caller goes on at once.
Refuse(m) ==
  /\ m \in Counted /\ call[m] = "idle"
  /\ ~(Connected /\ HasRoom)
  /\ fate' = [fate EXCEPT ![m] = "refused"]
  /\ call' = [call EXCEPT ![m] = "refused"]
  /\ UNCHANGED <<queue, stats, inFlight, loopVars, replied, history, late, stopVars>>

\* dropped.fetch_add / dropped_counters.fetch_add.
CountRefusal(m) ==
  /\ m \in Counted /\ call[m] = "refused"
  /\ IF m \in Records
     THEN dropped' = dropped + 1 /\ UNCHANGED droppedCounters
     ELSE droppedCounters' = droppedCounters + 1 /\ UNCHANGED dropped
  /\ call' = [call EXCEPT ![m] = "done"]
  /\ UNCHANGED <<queue, fate, queued, written, persistFailures, inFlight, loopVars,
                 replied, history, late, stopVars>>

\* queued.fetch_add, after the message is already in the queue.
CountQueued(r) ==
  /\ r \in Records /\ call[r] = "sent"
  /\ queued' = queued + 1
  /\ call' = [call EXCEPT ![r] = "counted"]
  /\ UNCHANGED <<queue, fate, dropped, droppedCounters, written, persistFailures,
                 inFlight, loopVars, replied, history, late, stopVars>>

\* in_flight.fetch_add, after the message is already in the queue.
CountInFlight(m) ==
  /\ m \in Counted /\ call[m] = "counted"
  /\ inFlight' = (inFlight + 1) % Wrap
  /\ call' = [call EXCEPT ![m] = "done"]
  /\ UNCHANGED <<queue, fate, stats, loopVars, replied, history, late, stopVars>>

SinkCall(m) ==
  \/ TrySendRecord(m) \/ TrySendCounter(m) \/ Refuse(m)
  \/ CountRefusal(m) \/ CountQueued(m) \/ CountInFlight(m)

-----------------------------------------------------------------------------
(* The control plane: WriterSink::set_matcher.                             *)

SetMatcher(m) ==
  /\ m \in Matchers /\ call[m] = "idle"
  /\ Enqueue(m, "done")
  /\ installs' = Append(installs, m)
  /\ UNCHANGED <<stats, inFlight, loopVars, replied, seen, used, owed, stopVars>>

\* The retry loop's deadline passes on a full queue, or the channel is gone.
SetMatcherFails(m) ==
  /\ m \in Matchers /\ call[m] = "idle"
  /\ ~(Connected /\ HasRoom)
  /\ fate' = [fate EXCEPT ![m] = "refused"]
  /\ call' = [call EXCEPT ![m] = "done"]
  /\ UNCHANGED <<queue, stats, inFlight, loopVars, replied, history, late, stopVars>>

-----------------------------------------------------------------------------
(* The worker: WriterThread::run and process_batch.                        *)

outside == <<call, stopVars, owed, late, installs, seen>>

\* Variant: the flag is looked at only after a batch.
SeeStopNever == FALSE

\* The stop flag, seen at the head of the loop or after a receive that timed out.
SeeStop ==
  /\ worker = "recv" /\ stopping
  /\ worker' = "tail"
  /\ inTail' = TRUE
  /\ UNCHANGED <<queue, fate, stats, inFlight, batch, matcher, finished, replied, used,
                 outside>>

\* Receive the message at the head of the queue into the batch in hand.
Receive(next) ==
  /\ queue # <<>>
  /\ queue' = Tail(queue)
  /\ batch' = Append(batch, Head(queue))
  /\ fate' = [fate EXCEPT ![Head(queue)] = "taken"]
  /\ worker' = next
  /\ UNCHANGED <<stats, inFlight, inTail, matcher, finished, replied, used, outside>>

\* recv_timeout returns a message.  (A timeout processes an empty batch and runs the
\* timer's maintenance, which change nothing modelled here.)
RecvFirst == worker = "recv" /\ Receive("fill")

\* try_recv until the batch is full or the queue is empty.
Fill == worker = "fill" /\ Len(batch) < BatchMax /\ Receive("fill")
FillDone == worker = "fill" /\ (Len(batch) >= BatchMax \/ queue = <<>>)

\* The final drain, bounded by BATCH_MAX * 4.
TailDrain == worker = "tail" /\ Len(batch) < BatchMax * TailFactor /\ Receive("tail")

TailDone == worker = "tail" /\ (Len(batch) >= BatchMax * TailFactor \/ queue = <<>>)

\* process_batch returns at once when there is nothing to process.
TailEmpty ==
  /\ TailDone /\ batch = <<>>
  /\ worker' = "final"
  /\ UNCHANGED <<queue, fate, stats, inFlight, batch, inTail, matcher, finished, replied,
                 used, outside>>

\* Variant: a matcher is seen only at the head of a batch.
ApplyMatcherAtHead == matcher' = IF batch[1] \in Matchers THEN batch[1] ELSE matcher

\* The matcher in force once every Matcher message of the batch is applied.
ApplyMatchers ==
  \/ Elems(batch) \cap Matchers = {} /\ UNCHANGED matcher
  \/ \E i \in 1..Len(batch) :
       /\ batch[i] \in Matchers
       /\ \A j \in i+1..Len(batch) : batch[j] \notin Matchers
       /\ matcher' = batch[i]

\* Variant: the flush is answered before the batch is persisted.
ClassifyReplyFirst ==
  /\ batch # <<>> /\ (FillDone \/ TailDone)
  /\ ApplyMatchers
  /\ replied' = (replied \/ FlushMsg \in Elems(batch))
  /\ worker' = "persist"
  /\ UNCHANGED <<queue, inFlight, batch, inTail, finished, used, outside>>

\* process_batch sorts the batch by kind: matcher messages take effect, and flush
\* replies are collected, before any record is looked at.
Classify ==
  /\ batch # <<>> /\ (FillDone \/ TailDone)
  /\ ApplyMatchers
  /\ worker' = "persist"
  /\ UNCHANGED <<queue, inFlight, batch, inTail, finished, replied, used, outside>>

Handled == Elems(batch) \ Counted

\* open() succeeded: each counter, then each record, is persisted on its own.
ClassifyOpened ==
  /\ Classify
  /\ fate' = [m \in Msgs |-> IF m \in Handled THEN "kept" ELSE fate[m]]
  /\ UNCHANGED stats

\* Variant: bumps that a failed open discards are not counted.
ClassifyUnopenedQuiet ==
  /\ Classify
  /\ fate' = [m \in Msgs |-> IF m \in Handled THEN "kept"
                             ELSE IF m \in Elems(batch) THEN "failed" ELSE fate[m]]
  /\ persistFailures' = persistFailures + Cardinality(Elems(batch) \cap Records)
  /\ UNCHANGED <<queued, dropped, droppedCounters, written>>

\* open() failed: every record and every bump of the batch is counted as lost.
ClassifyUnopened ==
  /\ Classify
  /\ fate' = [m \in Msgs |-> IF m \in Handled THEN "kept"
                             ELSE IF m \in Elems(batch) THEN "failed" ELSE fate[m]]
  /\ persistFailures' = persistFailures + Cardinality(Elems(batch) \cap Records)
  /\ droppedCounters' = droppedCounters + Cardinality(Elems(batch) \cap Counters)
  /\ UNCHANGED <<queued, dropped, written>>

\* Variant: records are persisted in any order.
TurnAny(i) == i \in 1..Len(batch) /\ fate[batch[i]] = "taken"

\* The batch's counters go first, then its records, each kind in queue order.
Turn(i) ==
  /\ i \in 1..Len(batch) /\ fate[batch[i]] = "taken"
  /\ \A j \in 1..Len(batch) :
       fate[batch[j]] = "taken" =>
         \/ batch[i] \in Counters /\ batch[j] \in Records
         \/ (batch[i] \in Counters <=> batch[j] \in Counters) /\ i <= j

persistFrame == <<queue, inFlight, worker, batch, inTail, matcher, finished, replied,
                  outside>>

BumpCounter(i) ==
  /\ worker = "persist" /\ Turn(i) /\ batch[i] \in Counters
  /\ \E ok \in BOOLEAN :
       /\ fate' = [fate EXCEPT ![batch[i]] = IF ok THEN "kept" ELSE "failed"]
       /\ droppedCounters' = IF ok THEN droppedCounters ELSE droppedCounters + 1
  /\ UNCHANGED <<queued, dropped, written, persistFailures, used, persistFrame>>

\* The position of a matcher in the order the queue accepted them, 0 for none.
Position(m) ==
  IF \E i \in 1..Len(installs) : installs[i] = m
  THEN CHOOSE i \in 1..Len(installs) : installs[i] = m ELSE 0

\* persist_one: one transaction per record, which commits or rolls back as a whole.
PersistOne(i) ==
  /\ worker = "persist" /\ Turn(i) /\ batch[i] \in Records
  /\ \/ /\ fate' = [fate EXCEPT ![batch[i]] = "kept"]
        /\ written' = written + 1
        /\ used' = [used EXCEPT ![batch[i]] = Position(matcher)]
        /\ UNCHANGED persistFailures
     \/ /\ fate' = [fate EXCEPT ![batch[i]] = "failed"]
        /\ persistFailures' = persistFailures + 1
        /\ UNCHANGED <<written, used>>
  /\ UNCHANGED <<queued, dropped, droppedCounters, persistFrame>>

\* Variant: only records are released from in_flight.
EndBatchRecordsOnly ==
  /\ worker = "persist" /\ \A i \in 1..Len(batch) : fate[batch[i]] # "taken"
  /\ inFlight' = (inFlight - Cardinality(Elems(batch) \cap Records)) % Wrap
  /\ replied' = (replied \/ FlushMsg \in Elems(batch))
  /\ batch' = <<>>
  /\ worker' = IF inTail THEN "final" ELSE IF stopping THEN "tail" ELSE "recv"
  /\ inTail' = (inTail \/ stopping)
  /\ UNCHANGED <<queue, fate, stats, matcher, finished, used, outside>>

\* Variant: the subtraction is not an unsigned one.
EndBatchSigned ==
  /\ worker = "persist" /\ \A i \in 1..Len(batch) : fate[batch[i]] # "taken"
  /\ inFlight' = inFlight - Cardinality(Elems(batch) \cap Counted)
  /\ replied' = (replied \/ FlushMsg \in Elems(batch))
  /\ batch' = <<>>
  /\ worker' = IF inTail THEN "final" ELSE IF stopping THEN "tail" ELSE "recv"
  /\ inTail' = (inTail \/ stopping)
  /\ UNCHANGED <<queue, fate, stats, matcher, finished, used, outside>>

\* The batch is done: in_flight.fetch_sub, which wraps below zero as an AtomicU64
\* does, then maintenance and the flush replies.  The stop flag ends the loop.
EndBatch ==
  /\ worker = "persist" /\ \A i \in 1..Len(batch) : fate[batch[i]] # "taken"
  /\ inFlight' = (inFlight - Cardinality(Elems(batch) \cap Counted)) % Wrap
  /\ replied' = (replied \/ FlushMsg \in Elems(batch))
  /\ batch' = <<>>
  /\ worker' = IF inTail THEN "final" ELSE IF stopping THEN "tail" ELSE "recv"
  /\ inTail' = (inTail \/ stopping)
  /\ UNCHANGED <<queue, fate, stats, matcher, finished, used, outside>>

\* Maintenance and finish_sessions, then the finished flag as the last act of run.
Finish ==
  /\ worker = "final"
  /\ finished' = TRUE
  /\ worker' = "finished"
  /\ UNCHANGED <<queue, fate, stats, inFlight, batch, inTail, matcher, replied, used,
                 outside>>

\* run returns and drops the receiver with whatever is still in the channel.
Exit ==
  /\ worker = "finished"
  /\ worker' = "exited"
  /\ fate' = [m \in Msgs |-> IF m \in Elems(queue) THEN "lost" ELSE fate[m]]
  /\ queue' = <<>>
  /\ UNCHANGED <<stats, inFlight, batch, inTail, matcher, finished, replied, used,
                 outside>>

Persist == \E i \in 1..Len(batch) : BumpCounter(i) \/ PersistOne(i)

Work ==
  \/ SeeStop \/ RecvFirst \/ Fill \/ TailDrain \/ TailEmpty
  \/ ClassifyOpened \/ ClassifyUnopened \/ Persist \/ EndBatch \/ Finish

-----------------------------------------------------------------------------
(* Writer::stop.                                                           *)

inside == <<stats, inFlight, loopVars, replied, installs, seen, used>>

BeginStop ==
  /\ stopper = "run"
  /\ stopper' = "flush"
  /\ UNCHANGED <<queue, call, fate, inside, owed, late, stopping, drained>>

\* flush gets a slot; from here it waits for the reply.
FlushSend ==
  /\ stopper = "flush"
  /\ Enqueue(FlushMsg, "done")
  /\ owed' = With("queued") \cup With("taken")
  /\ stopper' = "await"
  /\ UNCHANGED <<inside, stopping, drained>>

\* The queue stays full to the deadline, or the channel is disconnected.
FlushUnsent ==
  /\ stopper = "flush" /\ ~(Connected /\ HasRoom)
  /\ fate' = [fate EXCEPT ![FlushMsg] = "refused"]
  /\ call' = [call EXCEPT ![FlushMsg] = "done"]
  /\ stopper' = "flag"
  /\ UNCHANGED <<queue, inside, owed, late, stopping, drained>>

FlushReplied ==
  /\ stopper = "await" /\ replied
  /\ drained' = TRUE
  /\ stopper' = "flag"
  /\ UNCHANGED <<queue, call, fate, inside, owed, late, stopping>>

\* recv_timeout runs out, or the worker dropped the reply channel.
FlushTimeout ==
  /\ stopper = "await" /\ ~replied
  /\ stopper' = "flag"
  /\ UNCHANGED <<queue, call, fate, inside, owed, late, stopping, drained>>

\* With no thread to wait for (spawn failed), stop returns at once.
RaiseFlag ==
  /\ stopper = "flag"
  /\ stopping' = TRUE
  /\ stopper' = IF Connected \/ finished THEN "join" ELSE "done"
  /\ UNCHANGED <<queue, call, fate, inside, owed, late, drained>>

Join ==
  /\ stopper = "join" /\ finished /\ worker = "exited"
  /\ stopper' = "done"
  /\ UNCHANGED <<queue, call, fate, inside, owed, late, stopping, drained>>

\* Variant: an unconditional join.
JoinTimeoutNever == FALSE

\* JOIN_TIMEOUT passes with the tail unfinished: stop returns false.
JoinTimeout ==
  /\ stopper = "join" /\ ~finished
  /\ stopper' = "done"
  /\ drained' = FALSE
  /\ UNCHANGED <<queue, call, fate, inside, owed, late, stopping>>

Stop ==
  \/ FlushSend \/ FlushUnsent \/ FlushReplied \/ FlushTimeout
  \/ RaiseFlag \/ Join \/ JoinTimeout

-----------------------------------------------------------------------------
Next ==
  \/ \E m \in Msgs : SinkCall(m) \/ SetMatcher(m) \/ SetMatcherFails(m)
  \/ Work \/ Exit
  \/ BeginStop \/ Stop

Spec == Init /\ [][Next]_vars

(* The scheduler runs connection threads and the stopping thread (whose waits are
   all bounded by deadlines), and lets the worker return once it is finished.
   Nothing is assumed of the worker's database calls. *)
FairSpec ==
  /\ Spec
  /\ \A m \in Counted : WF_vars(SinkCall(m))
  /\ WF_vars(Stop) /\ WF_vars(Exit)

-----------------------------------------------------------------------------
(* Properties *)

Pending(S) == {m \in S : call[m] = "refused"}

\* SI-12 and "a coverage gap is reported, never hidden" (WriterState): at every
\* moment the counters agree with what really became of the messages, whichever of
\* the queue, the open, the transaction or the counter write failed.  Only an
\* increment its caller has not reached yet is missing.
EveryOutcomeCounted ==
  /\ written = Cardinality(With("kept") \cap Records)
  /\ persistFailures = Cardinality(With("failed") \cap Records)
  /\ dropped + Cardinality(Pending(Records)) = Cardinality(With("refused") \cap Records)
  /\ droppedCounters + Cardinality(Pending(Counters))
       = Cardinality((With("failed") \cup With("refused")) \cap Counters)

\* Once no call is in progress and the worker holds no batch, the reported depth is
\* exactly the records and bumps in the queue: in_flight neither ratchets upward nor
\* leaks downward, whatever wrapped in between (process_batch, queue_depth).
DepthExactWhenQuiet ==
  (batch = <<>> /\ \A m \in Counted : call[m] \in {"idle", "refused", "done"})
     => inFlight = Cardinality((Elems(queue) \cap Counted) \cup (With("lost") \cap Counted))

\* A flush that returns true is a barrier: everything in the queue or in the worker's
\* hands when the Flush was queued has been settled ("block until everything queued
\* so far has been processed").
FlushIsBarrier == replied => \A m \in owed : fate[m] \in Settled \ {"lost"}

\* A record is never resolved with a matcher older than one the queue had accepted
\* before it: a revoked or replaced matcher does not reach later traffic.
NoStaleMatcher ==
  \A r \in With("kept") \cap Records : used[r] >= seen[r]

\* "The forwarding path never waits on persistence": a call into the sink ends
\* although nothing is assumed of the worker, the queue or the database.
ForwardingNeverWaits ==
  \A m \in Counted : <>(call[m] = "done")

\* "A full queue must never be able to prevent shutdown": stop returns although the
\* worker may be stuck in the database for ever.
StopReturns == stopper = "flush" ~> stopper = "done"

\* When the worker does run, everything the queue accepts is settled, and after the
\* stop flag the worker exits.
WorkerDrains ==
  WF_vars(Work) =>
    /\ \A m \in Msgs : fate[m] = "queued" ~> fate[m] \in Settled
    /\ stopping ~> worker = "exited"

\* writer.rs:429, "Drain anything still queued so a clean stop loses nothing it
\* already accepted": when stop reports success, no accepted record was discarded.
CleanStopLosesNothing ==
  (stopper = "done" /\ drained) => With("lost") \cap Records = {}

-----------------------------------------------------------------------------
(* The sink the forwarding path sees.                                      *)

Outcome(f) ==
  CASE f = "new" -> "none" [] f \in {"queued", "taken"} -> "accepted" [] f = "kept" -> "stored"
    [] OTHER -> f

Unsettled(m) == m \in Records /\ fate[m] \in {"queued", "taken"}

\* The messages in hand and in the channel, oldest first.
Line == batch \o queue

\* The unsettled records in line before an unsettled record.
AheadOf(r) ==
  {q \in Records : /\ Unsettled(q) /\ Unsettled(r)
                   /\ \E i, j \in 1..Len(Line) : i < j /\ Line[i] = q /\ Line[j] = r}

Sink == INSTANCE ObservationSink WITH
  outcome  <- [r \in Records |-> Outcome(fate[r])],
  ahead    <- [r \in Records |-> AheadOf(r)],
  closing  <- inTail,
  overtime <- late \cap Records

\* Batches, the priority of counters within a batch, failed opens, the stop flag and the
\* tail drain are invisible: the writer is an ObservationSink, which settles records in
\* the order it accepted them, and what run leaves behind in the channel entered it after
\* the worker had left its loop: the bounded tail drain takes everything accepted before.
ImplementsSink == Sink!Spec

=============================================================================

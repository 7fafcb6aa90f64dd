------------------------ MODULE GatewayWriter_proofs ------------------------
(* Proofs about GatewayWriter, for every number of messages, every queue and *)
(* batch size and every width of the in_flight counter.                      *)
EXTENDS GatewayWriter, FiniteSetTheorems, SequenceTheorems, TLAPS

USE QueueAssumption, KindAssumption

(* Where a message is and what its caller has done determine one another.  *)
Placement ==
  /\ \A m \in Msgs : call[m] = "idle" <=> fate[m] = "new"
  /\ \A m \in Msgs : call[m] = "refused" => fate[m] = "refused"
  /\ stopper = "flush" => call[FlushMsg] = "idle"
  /\ stopper = "run" => call[FlushMsg] = "idle"
  /\ \A i \in 1..Len(queue) : fate[queue[i]] = "queued"
  /\ \A i, j \in 1..Len(queue) : queue[i] = queue[j] => i = j
  /\ worker \in {"recv", "fill", "tail"} =>
       \A i \in 1..Len(batch) : fate[batch[i]] = "taken"

\* The inductive invariant behind the accounting.
IInv == TypeOK /\ Placement /\ EveryOutcomeCounted

-----------------------------------------------------------------------------
(* Lemmas on the operators.                                                *)

\* The messages of a sequence are messages, finitely many.
LEMMA ElemsOfSeq ==
  ASSUME NEW s \in Seq(Msgs)
  PROVE  Elems(s) \subseteq Msgs /\ IsFiniteSet(Msgs) /\ IsFiniteSet(Elems(s))
<1>1. Elems(s) \subseteq Msgs  BY DEF Elems
<1>2. IsFiniteSet(Records \cup Counters)  BY FS_Union
<1>3. IsFiniteSet((Records \cup Counters) \cup Matchers)  BY <1>2, FS_Union
<1>4. IsFiniteSet(((Records \cup Counters) \cup Matchers) \cup {FlushMsg})
  BY <1>3, FS_AddElement
<1>5. IsFiniteSet(Msgs)  BY <1>4 DEF Msgs
<1>6. QED  BY <1>1, <1>5, FS_Subset

\* Any set of messages has a natural number of members.
LEMMA MsgsCount ==
  ASSUME NEW S \in SUBSET Msgs
  PROVE  IsFiniteSet(S) /\ Cardinality(S) \in Nat
<1>1. <<>> \in Seq(Msgs)  OBVIOUS
<1>2. IsFiniteSet(Msgs)  BY <1>1, ElemsOfSeq
<1>3. QED  BY <1>2, FS_Subset, FS_CardinalityType

\* Disjoint sets of messages are counted separately.
LEMMA DisjointCount ==
  ASSUME NEW S \in SUBSET Msgs, NEW T \in SUBSET Msgs, S \cap T = {}
  PROVE  Cardinality(S \cup T) = Cardinality(S) + Cardinality(T)
<1>1. IsFiniteSet(S) /\ IsFiniteSet(T)  BY MsgsCount
<1>2. Cardinality(S \cap T) = 0  BY FS_EmptySet
<1>3. Cardinality(S \cup T) = Cardinality(S) + Cardinality(T) - Cardinality(S \cap T)
  BY <1>1, FS_Union
<1>4. Cardinality(S) \in Nat /\ Cardinality(T) \in Nat  BY MsgsCount
<1>5. QED  BY <1>2, <1>3, <1>4

\* One more message.
LEMMA AddOne ==
  ASSUME NEW S \in SUBSET Msgs, NEW m \in Msgs, m \notin S
  PROVE  Cardinality(S \cup {m}) = Cardinality(S) + 1
BY MsgsCount, FS_AddElement

\* One message fewer.
LEMMA DropOne ==
  ASSUME NEW S \in SUBSET Msgs, NEW m \in S
  PROVE  Cardinality(S \ {m}) = Cardinality(S) - 1
BY MsgsCount, FS_RemoveElement

-----------------------------------------------------------------------------
(* Type correctness.                                                       *)

\* The remainder of any integer is a value of the counter.
LEMMA Wrapped == ASSUME NEW x \in Int PROVE x % Wrap \in 0..Wrap-1
OBVIOUS

\* Every step of every thread keeps the types.
LEMMA TypeStep == TypeOK /\ [Next]_vars => TypeOK'
<1> SUFFICES ASSUME TypeOK, [Next]_vars PROVE TypeOK'
  OBVIOUS
<1> USE DEF TypeOK, Fates, stats, history, loopVars, stopVars
<1>1. ASSUME NEW m \in Msgs, SinkCall(m) PROVE TypeOK'
  <2>1. CASE TrySendRecord(m)
    BY <2>1 DEF TrySendRecord, Enqueue
  <2>2. CASE TrySendCounter(m)
    BY <2>2 DEF TrySendCounter, Enqueue
  <2>3. CASE Refuse(m)
    BY <2>3 DEF Refuse
  <2>4. CASE CountRefusal(m)
    BY <2>4 DEF CountRefusal
  <2>5. CASE CountQueued(m)
    BY <2>5 DEF CountQueued
  <2>6. CASE CountInFlight(m)
    <3>1. inFlight + 1 \in Int  OBVIOUS
    <3>2. (inFlight + 1) % Wrap \in 0..Wrap-1  BY <3>1, Wrapped
    <3>3. QED  BY <2>6, <3>2 DEF CountInFlight
  <2>7. QED  BY <1>1, <2>1, <2>2, <2>3, <2>4, <2>5, <2>6 DEF SinkCall
<1>2. ASSUME NEW m \in Msgs, SetMatcher(m) \/ SetMatcherFails(m) PROVE TypeOK'
  <2>1. CASE SetMatcher(m)
    <3>1. installs' \in Seq(Matchers)  BY <2>1 DEF SetMatcher
    <3>2. QED  BY <2>1, <3>1 DEF SetMatcher, Enqueue
  <2>2. CASE SetMatcherFails(m)
    BY <2>2 DEF SetMatcherFails
  <2>3. QED  BY <1>2, <2>1, <2>2
<1>3. CASE Work
  <2>0. ASSUME NEW next \in {"fill", "tail"}, Receive(next) PROVE TypeOK'
    BY <2>0 DEF Receive, outside
  <2>1. CASE SeeStop \/ TailEmpty \/ Finish
    BY <2>1 DEF SeeStop, TailEmpty, Finish, outside
  <2>2. CASE RecvFirst \/ Fill \/ TailDrain
    BY <2>2, <2>0 DEF RecvFirst, Fill, TailDrain
  <2>3. CASE ClassifyOpened
    BY <2>3 DEF ClassifyOpened, Classify, ApplyMatchers, outside
  <2>4. CASE ClassifyUnopened
    <3>1. /\ Cardinality(Elems(batch) \cap Records) \in Nat
          /\ Cardinality(Elems(batch) \cap Counters) \in Nat
      BY ElemsOfSeq, MsgsCount
    <3>2. QED
      BY <2>4, <3>1 DEF ClassifyUnopened, Classify, ApplyMatchers, outside
  <2>5. CASE Persist
    <3>1. PICK i \in 1..Len(batch) : BumpCounter(i) \/ PersistOne(i)
      BY <2>5 DEF Persist
    <3>2. CASE BumpCounter(i)
      BY <3>2 DEF BumpCounter, persistFrame, outside
    <3>3. CASE PersistOne(i)
      <4>1. Position(matcher) \in Nat
        <5>1. CASE \E k \in 1..Len(installs) : installs[k] = matcher
          <6>1. (CHOOSE k \in 1..Len(installs) : installs[k] = matcher) \in 1..Len(installs)
            BY <5>1
          <6>2. QED  BY <5>1, <6>1 DEF Position
        <5>2. CASE ~ \E k \in 1..Len(installs) : installs[k] = matcher
          BY <5>2 DEF Position
        <5>3. QED  BY <5>1, <5>2
      <4>2. QED  BY <3>3, <4>1 DEF PersistOne, persistFrame, outside
    <3>4. QED  BY <3>1, <3>2, <3>3
  <2>6. CASE EndBatch
    <3>1. Cardinality(Elems(batch) \cap Counted) \in Nat
      BY ElemsOfSeq, MsgsCount
    <3>2. inFlight - Cardinality(Elems(batch) \cap Counted) \in Int  BY <3>1
    <3>3. (inFlight - Cardinality(Elems(batch) \cap Counted)) % Wrap \in 0..Wrap-1
      BY <3>2, Wrapped
    <3>4. inFlight' \in 0..Wrap-1
      BY <2>6, <3>3 DEF EndBatch
    <3>5. QED  BY <2>6, <3>4 DEF EndBatch, outside
  <2>7. QED  BY <1>3, <2>1, <2>2, <2>3, <2>4, <2>5, <2>6 DEF Work
<1>4. CASE Exit
  BY <1>4 DEF Exit, outside
<1>5. CASE BeginStop \/ FlushReplied \/ FlushTimeout \/ RaiseFlag \/ Join \/ JoinTimeout
  BY <1>5 DEF BeginStop, FlushReplied, FlushTimeout, RaiseFlag, Join, JoinTimeout, inside
<1>6. CASE FlushSend \/ FlushUnsent
  <2>1. FlushMsg \in Msgs  BY DEF Msgs
  <2>2. CASE FlushSend
    <3>1. owed' \subseteq Msgs  BY <2>2 DEF FlushSend, With
    <3>2. QED  BY <2>1, <2>2, <3>1 DEF FlushSend, Enqueue, inside
  <2>3. CASE FlushUnsent
    BY <2>1, <2>3 DEF FlushUnsent, inside
  <2>4. QED  BY <1>6, <2>2, <2>3
<1>7. CASE UNCHANGED vars
  BY <1>7 DEF vars
<1>8. QED
  BY <1>1, <1>2, <1>3, <1>4, <1>5, <1>6, <1>7 DEF Next, Stop

\* The initial state has the declared types.
LEMMA TypeCorrectInit == Init => TypeOK
<1>1. 0 \in 0..Wrap-1  OBVIOUS
<1>2. ASSUME Init
      PROVE  /\ queue \in Seq(Msgs) /\ batch \in Seq(Msgs) /\ installs \in Seq(Matchers)
             /\ owed \subseteq Msgs /\ late \subseteq Msgs
  BY <1>2 DEF Init
<1>3. ASSUME Init
      PROVE  /\ call \in [Msgs -> {"idle", "sent", "counted", "refused", "done"}]
             /\ fate \in [Msgs -> Fates]
             /\ seen \in [Records -> Nat] /\ used \in [Records -> Nat]
  BY <1>3 DEF Init, Fates
<1>4. ASSUME Init
      PROVE  /\ queued \in Nat /\ dropped \in Nat /\ droppedCounters \in Nat
             /\ written \in Nat /\ persistFailures \in Nat /\ inFlight \in 0..Wrap-1
             /\ matcher \in Matchers \cup {NoMatcher}
  BY <1>1, <1>4 DEF Init
<1>5. ASSUME Init
      PROVE  /\ inTail \in BOOLEAN /\ replied \in BOOLEAN /\ stopping \in BOOLEAN
             /\ finished \in BOOLEAN /\ drained \in BOOLEAN
  BY <1>5 DEF Init
<1>6. QED  BY <1>2, <1>3, <1>4, <1>5 DEF Init, TypeOK

\* Every reachable state of the writer has the declared types; in particular the
\* in_flight counter stays a 64-bit value whatever order its updates land in.
THEOREM TypeCorrect == Spec => []TypeOK
BY TypeCorrectInit, TypeStep, PTL DEF Spec

-----------------------------------------------------------------------------
(* Placement is preserved.                                                 *)

\* Every step keeps messages in one place, their callers in agreement with it.
LEMMA PlacementStep == TypeOK /\ Placement /\ [Next]_vars => Placement'
<1> SUFFICES ASSUME TypeOK, Placement, [Next]_vars PROVE Placement'
  OBVIOUS
<1> USE DEF Placement, TypeOK, Fates, stats, history, loopVars, stopVars
<1>0. FlushMsg \in Msgs /\ FlushMsg \notin Counted /\ FlushMsg \notin Matchers
  BY DEF Msgs, Counted
<1>1. ASSUME NEW m \in Msgs, NEW next \in {"sent", "counted", "done"}, Enqueue(m, next),
             call[m] = "idle", UNCHANGED <<worker, batch>>,
             \/ m # FlushMsg /\ UNCHANGED stopper
             \/ stopper' = "await"
      PROVE  Placement'
  <2>1. fate[m] = "new"  BY <1>1
  <2>2. /\ Len(queue') = Len(queue) + 1
        /\ \A i \in 1..Len(queue) : queue'[i] = queue[i]
        /\ queue'[Len(queue) + 1] = m
    BY <1>1 DEF Enqueue
  <2>3. \A i \in 1..Len(queue) : queue[i] # m  BY <2>1
  <2>4. \A i \in 1..Len(queue') : fate'[queue'[i]] = "queued"
    BY <1>1, <2>2, <2>3 DEF Enqueue
  <2>5. \A i, j \in 1..Len(queue') : queue'[i] = queue'[j] => i = j
    <3>1. \A i \in 1..Len(queue') : i \in 1..Len(queue) \/ i = Len(queue) + 1
      BY <2>2
    <3>2. \A i, j \in 1..Len(queue) : queue[i] = queue[j] => i = j  OBVIOUS
    <3>3. QED
      <4> HIDE DEF Placement, TypeOK
      <4>1. QED  BY <2>2, <2>3, <3>1, <3>2
  <2>6. worker' \in {"recv", "fill", "tail"} =>
          \A i \in 1..Len(batch') : fate'[batch'[i]] = "taken"
    BY <1>1, <2>1 DEF Enqueue
  <2>7. /\ \A n \in Msgs : call'[n] = "idle" <=> fate'[n] = "new"
        /\ \A n \in Msgs : call'[n] = "refused" => fate'[n] = "refused"
    BY <1>1, <2>1 DEF Enqueue
  <2>8. /\ stopper' = "flush" => call'[FlushMsg] = "idle"
        /\ stopper' = "run" => call'[FlushMsg] = "idle"
    BY <1>0, <1>1 DEF Enqueue
  <2>9. QED  BY <2>4, <2>5, <2>6, <2>7, <2>8
<1>2. ASSUME NEW m \in Msgs, SinkCall(m) PROVE Placement'
  <2>0. CASE m = FlushMsg
    BY <1>0, <1>2, <2>0 DEF SinkCall, TrySendRecord, TrySendCounter, Refuse, CountRefusal,
       CountQueued, CountInFlight, Counted
  <2>1. CASE m # FlushMsg /\ TrySendRecord(m)
    BY <1>1, <2>1 DEF TrySendRecord
  <2>2. CASE m # FlushMsg /\ TrySendCounter(m)
    BY <1>1, <2>2 DEF TrySendCounter
  <2>3. CASE m # FlushMsg /\ Refuse(m)
    BY <2>3 DEF Refuse
  <2>4. CASE m # FlushMsg /\ CountRefusal(m)
    BY <2>4 DEF CountRefusal
  <2>5. CASE m # FlushMsg /\ CountQueued(m)
    <3>1. /\ UNCHANGED <<fate, queue, batch, worker, stopper>>
          /\ call[m] = "sent" /\ call' = [call EXCEPT ![m] = "counted"]
      BY <2>5 DEF CountQueued
    <3>2. QED  BY <2>5, <3>1
  <2>6. CASE m # FlushMsg /\ CountInFlight(m)
    BY <2>6 DEF CountInFlight
  <2>7. QED  BY <1>2, <2>0, <2>1, <2>2, <2>3, <2>4, <2>5, <2>6 DEF SinkCall
<1>3. ASSUME NEW m \in Msgs, SetMatcher(m) \/ SetMatcherFails(m) PROVE Placement'
  <2>1. m # FlushMsg  BY <1>0, <1>3 DEF SetMatcher, SetMatcherFails
  <2>2. CASE SetMatcher(m)  BY <1>1, <2>1, <2>2 DEF SetMatcher
  <2>3. CASE SetMatcherFails(m)  BY <2>1, <2>3 DEF SetMatcherFails
  <2>4. QED  BY <1>3, <2>2, <2>3
<1>4. ASSUME NEW next \in {"fill", "tail"}, Receive(next),
             worker \in {"recv", "fill", "tail"}
      PROVE  Placement'
  <2> DEFINE h == Head(queue)
  <2>1. /\ Len(queue) \in Nat /\ Len(queue) > 0 /\ h = queue[1]
        /\ Len(queue') = Len(queue) - 1
        /\ \A i \in 1..Len(queue') : queue'[i] = queue[i+1] /\ i+1 \in 1..Len(queue)
    BY <1>4 DEF Receive
  <2>2. h \in Msgs /\ fate[h] = "queued"  BY <2>1
  <2>3. \A i \in 1..Len(queue') : queue'[i] # h  BY <2>1
  <2>4. fate' = [fate EXCEPT ![h] = "taken"]  BY <1>4 DEF Receive
  <2>5. \A i \in 1..Len(queue') : fate'[queue'[i]] = "queued"
    <3>1. \A i \in 1..Len(queue') : queue'[i] \in Msgs /\ fate[queue'[i]] = "queued"
      BY <2>1
    <3>2. QED  BY <2>3, <2>4, <3>1
  <2>6. \A i, j \in 1..Len(queue') : queue'[i] = queue'[j] => i = j
    BY <2>1
  <2>7. /\ Len(batch') = Len(batch) + 1
        /\ \A i \in 1..Len(batch) : batch'[i] = batch[i]
        /\ batch'[Len(batch) + 1] = h
    BY <1>4, <2>2 DEF Receive
  <2>8. \A i \in 1..Len(batch') : fate'[batch'[i]] = "taken"
    <3>1. \A i \in 1..Len(batch') : i \in 1..Len(batch) \/ i = Len(batch) + 1
      BY <2>7
    <3>2. \A i \in 1..Len(batch) : batch[i] \in Msgs /\ fate[batch[i]] = "taken"
      BY <1>4
    <3>3. fate'[h] = "taken"  BY <2>2, <2>4
    <3>4. \A i \in 1..Len(batch) : fate'[batch[i]] = "taken"  BY <2>4, <3>2
    <3>5. QED
      <4> HIDE DEF Placement, TypeOK
      <4>1. QED  BY <2>7, <3>1, <3>3, <3>4
  <2>9. UNCHANGED <<call, stopper>>  BY <1>4 DEF Receive, outside
  <2>10. QED  BY <2>2, <2>4, <2>5, <2>6, <2>8, <2>9
<1>5. CASE Work
  <2>1. CASE SeeStop \/ TailEmpty \/ Finish
    BY <2>1 DEF SeeStop, TailEmpty, TailDone, Finish, outside
  <2>2. CASE RecvFirst \/ Fill \/ TailDrain
    BY <2>2, <1>4 DEF RecvFirst, Fill, TailDrain
  <2>3. CASE ClassifyOpened \/ ClassifyUnopened
    <3>1. worker \in {"fill", "tail"} /\ worker' = "persist"
      BY <2>3 DEF ClassifyOpened, ClassifyUnopened, Classify, FillDone, TailDone
    <3>2. \A m \in Elems(batch) : m \in Msgs /\ fate[m] = "taken"
      BY <3>1 DEF Elems
    <3>3. \A m \in Msgs : fate'[m] # fate[m] => fate[m] = "taken" /\ fate'[m] \in {"kept", "failed"}
      BY <2>3, <3>2 DEF ClassifyOpened, ClassifyUnopened, Handled
    <3>4. UNCHANGED <<call, stopper, queue, batch>>
      BY <2>3 DEF ClassifyOpened, ClassifyUnopened, Classify, outside
    <3>5. \A i \in 1..Len(queue) : queue[i] \in Msgs  OBVIOUS
    <3>6. \A i \in 1..Len(queue') : fate'[queue'[i]] = "queued"
      BY <3>3, <3>4, <3>5
    <3>7. /\ \A m \in Msgs : call'[m] = "idle" <=> fate'[m] = "new"
          /\ \A m \in Msgs : call'[m] = "refused" => fate'[m] = "refused"
      BY <3>3, <3>4
    <3>8. QED  BY <3>1, <3>4, <3>6, <3>7
  <2>4. CASE Persist
    <3>1. PICK i \in 1..Len(batch) : BumpCounter(i) \/ PersistOne(i)
      BY <2>4 DEF Persist
    <3>2. batch[i] \in Msgs /\ fate[batch[i]] = "taken" /\ worker = "persist"
      BY <3>1 DEF BumpCounter, PersistOne, Turn
    <3>3. PICK f \in {"kept", "failed"} : fate' = [fate EXCEPT ![batch[i]] = f]
      BY <3>1 DEF BumpCounter, PersistOne
    <3>4. UNCHANGED <<call, stopper, queue, batch, worker>>
      BY <3>1 DEF BumpCounter, PersistOne, persistFrame, outside
    <3>5. \A j \in 1..Len(queue) : queue[j] \in Msgs  OBVIOUS
    <3>6. QED  BY <3>2, <3>3, <3>4, <3>5
  <2>5. CASE EndBatch
    BY <2>5 DEF EndBatch, outside
  <2>6. QED  BY <1>5, <2>1, <2>2, <2>3, <2>4, <2>5 DEF Work
<1>6. CASE Exit
  <2>1. \A m \in Elems(queue) : m \in Msgs /\ fate[m] = "queued"  BY DEF Elems
  <2>2. /\ \A m \in Msgs : call'[m] = "idle" <=> fate'[m] = "new"
        /\ \A m \in Msgs : call'[m] = "refused" => fate'[m] = "refused"
    BY <1>6, <2>1 DEF Exit, outside
  <2>3. QED  BY <1>6, <2>2 DEF Exit, outside
<1>7. CASE BeginStop \/ FlushReplied \/ FlushTimeout \/ RaiseFlag \/ Join \/ JoinTimeout
  BY <1>7 DEF BeginStop, FlushReplied, FlushTimeout, RaiseFlag, Join, JoinTimeout, inside
<1>8. CASE FlushSend
  BY <1>0, <1>1, <1>8 DEF FlushSend, inside
<1>9. CASE FlushUnsent
  BY <1>0, <1>9 DEF FlushUnsent, inside
<1>10. CASE UNCHANGED vars
  BY <1>10 DEF vars
<1>11. QED
  BY <1>2, <1>3, <1>5, <1>6, <1>7, <1>8, <1>9, <1>10 DEF Next, Stop

-----------------------------------------------------------------------------
(* The accounting is preserved.                                            *)

counts == <<dropped, droppedCounters, written, persistFailures>>

keptN == Cardinality(With("kept") \cap Records)
failedN == Cardinality(With("failed") \cap Records)
refusedN == Cardinality(With("refused") \cap Records)
owedN == Cardinality(Pending(Records))
lostBumpsN == Cardinality((With("failed") \cup With("refused")) \cap Counters)
owedBumpsN == Cardinality(Pending(Counters))

Counting == {"kept", "failed", "refused"}

\* A step that settles nothing and counts nothing keeps the accounts.
LEMMA AccountsFrame ==
  ASSUME TypeOK, EveryOutcomeCounted, UNCHANGED counts,
         \A m \in Counted : fate'[m] # fate[m] =>
                              fate[m] \notin Counting /\ fate'[m] \notin Counting,
         \A m \in Counted : call[m] = "refused" <=> call'[m] = "refused"
  PROVE  EveryOutcomeCounted'
<1>1. \A m \in Counted : m \in Msgs  BY DEF Counted, Msgs
<1>2. \A f \in Counting : \A m \in Counted : fate'[m] = f <=> fate[m] = f
  OBVIOUS
<1>3. \A f \in Counting : /\ With(f)' \cap Records = With(f) \cap Records
                          /\ With(f)' \cap Counters = With(f) \cap Counters
  BY <1>2 DEF With, Counted
<1>4. /\ Pending(Records)' = Pending(Records)
      /\ Pending(Counters)' = Pending(Counters)
  BY DEF Pending, Counted
<1>5. /\ With("kept")' \cap Records = With("kept") \cap Records
      /\ With("failed")' \cap Records = With("failed") \cap Records
      /\ With("refused")' \cap Records = With("refused") \cap Records
      /\ (With("failed")' \cup With("refused")') \cap Counters
           = (With("failed") \cup With("refused")) \cap Counters
  BY <1>3 DEF Counting
<1>6. QED  BY <1>4, <1>5 DEF EveryOutcomeCounted, counts

\* The sets the accounts compare are sets of messages.
LEMMA AccountSets ==
  /\ \A f : With(f) \cap Records \in SUBSET Msgs /\ With(f) \cap Counters \in SUBSET Msgs
  /\ Pending(Records) \in SUBSET Msgs /\ Pending(Counters) \in SUBSET Msgs
  /\ (With("failed") \cup With("refused")) \cap Counters \in SUBSET Msgs
BY DEF With, Pending, Msgs

\* The accounts in terms of the six numbers, now and after a step.
LEMMA AccountsMeaning ==
  ASSUME TypeOK, EveryOutcomeCounted
  PROVE  /\ written = keptN /\ persistFailures = failedN /\ dropped + owedN = refusedN
         /\ droppedCounters + owedBumpsN = lostBumpsN
         /\ dropped \in Nat /\ droppedCounters \in Nat
BY DEF EveryOutcomeCounted, TypeOK, keptN, failedN, refusedN, owedN, lostBumpsN, owedBumpsN

LEMMA AccountsMeaningNext ==
  ASSUME written' = keptN', persistFailures' = failedN', dropped' + owedN' = refusedN',
         droppedCounters' + owedBumpsN' = lostBumpsN'
  PROVE  EveryOutcomeCounted'
BY DEF EveryOutcomeCounted, keptN, failedN, refusedN, owedN, lostBumpsN, owedBumpsN

\* try_send failed: the refusal is owed to the counter until its caller adds it.
LEMMA RefuseAccounts ==
  ASSUME TypeOK, Placement, EveryOutcomeCounted, NEW m \in Msgs, Refuse(m)
  PROVE  EveryOutcomeCounted'
<1> USE DEF With, Pending
<1>1. /\ m \in Counted /\ fate[m] = "new" /\ call[m] = "idle" /\ UNCHANGED counts
      /\ fate' = [fate EXCEPT ![m] = "refused"] /\ call' = [call EXCEPT ![m] = "refused"]
  BY DEF Refuse, Placement, stats, counts
<1>2. /\ With("kept")' \cap Records = With("kept") \cap Records
      /\ With("failed")' \cap Records = With("failed") \cap Records
  BY <1>1 DEF TypeOK
<1>3. CASE m \in Records
  <2>1. /\ Pending(Records)' = Pending(Records) \cup {m} /\ m \notin Pending(Records)
        /\ With("refused")' \cap Records = (With("refused") \cap Records) \cup {m}
        /\ m \notin With("refused") \cap Records
    BY <1>1, <1>3 DEF TypeOK, Counted, Msgs
  <2>2. /\ Cardinality(Pending(Records)') = Cardinality(Pending(Records)) + 1
        /\ Cardinality(With("refused")' \cap Records)
             = Cardinality(With("refused") \cap Records) + 1
    BY <2>1, AddOne, AccountSets
  <2>3. /\ Pending(Counters)' = Pending(Counters)
        /\ (With("failed")' \cup With("refused")') \cap Counters
             = (With("failed") \cup With("refused")) \cap Counters
    BY <1>1, <1>3, KindAssumption DEF TypeOK, Counted, Msgs
  <2>4. Cardinality(Pending(Records)) \in Nat
        /\ Cardinality(With("refused") \cap Records) \in Nat
    BY AccountSets, MsgsCount
  <2>5. /\ owedN' = owedN + 1 /\ refusedN' = refusedN + 1 /\ keptN' = keptN
        /\ failedN' = failedN /\ owedBumpsN' = owedBumpsN /\ lostBumpsN' = lostBumpsN
        /\ owedN \in Nat /\ refusedN \in Nat
    BY <1>2, <2>2, <2>3, <2>4
       DEF owedN, refusedN, keptN, failedN, owedBumpsN, lostBumpsN
  <2>6. QED  BY <1>1, <2>5, AccountsMeaning, AccountsMeaningNext DEF counts
<1>4. CASE m \in Counters
  <2>1. /\ Pending(Counters)' = Pending(Counters) \cup {m} /\ m \notin Pending(Counters)
        /\ (With("failed")' \cup With("refused")') \cap Counters
             = ((With("failed") \cup With("refused")) \cap Counters) \cup {m}
        /\ m \notin (With("failed") \cup With("refused")) \cap Counters
    BY <1>1, <1>4 DEF TypeOK, Counted, Msgs
  <2>2. /\ Cardinality(Pending(Counters)') = Cardinality(Pending(Counters)) + 1
        /\ Cardinality((With("failed")' \cup With("refused")') \cap Counters)
             = Cardinality((With("failed") \cup With("refused")) \cap Counters) + 1
    BY <2>1, AddOne, AccountSets
  <2>3. /\ Pending(Records)' = Pending(Records)
        /\ With("refused")' \cap Records = With("refused") \cap Records
    BY <1>1, <1>4, KindAssumption DEF TypeOK, Counted, Msgs
  <2>4. Cardinality(Pending(Counters)) \in Nat
        /\ Cardinality((With("failed") \cup With("refused")) \cap Counters) \in Nat
    BY AccountSets, MsgsCount
  <2>5. /\ owedBumpsN' = owedBumpsN + 1 /\ lostBumpsN' = lostBumpsN + 1 /\ keptN' = keptN
        /\ failedN' = failedN /\ owedN' = owedN /\ refusedN' = refusedN
        /\ owedBumpsN \in Nat /\ lostBumpsN \in Nat
    BY <1>2, <2>2, <2>3, <2>4
       DEF owedN, refusedN, keptN, failedN, owedBumpsN, lostBumpsN
  <2>6. QED  BY <1>1, <2>5, AccountsMeaning, AccountsMeaningNext DEF counts
<1>5. QED  BY <1>1, <1>3, <1>4 DEF Counted

\* The caller adds the refusal it owes.
LEMMA CountRefusalAccounts ==
  ASSUME TypeOK, EveryOutcomeCounted, NEW m \in Msgs, CountRefusal(m)
  PROVE  EveryOutcomeCounted'
<1>1. /\ m \in Counted /\ call[m] = "refused" /\ UNCHANGED <<fate, written, persistFailures>>
      /\ call' = [call EXCEPT ![m] = "done"]
  BY DEF CountRefusal
<1>2. \A f : With(f)' = With(f)
  BY <1>1 DEF With
<1>3. CASE m \in Records
  <2>1. dropped' = dropped + 1 /\ UNCHANGED droppedCounters
    BY <1>3 DEF CountRefusal
  <2>2. Pending(Records)' = Pending(Records) \ {m} /\ m \in Pending(Records)
    BY <1>1, <1>3 DEF Pending, TypeOK, Msgs
  <2>3. Pending(Counters)' = Pending(Counters)
    BY <1>1, <1>3, KindAssumption DEF Pending, TypeOK, Msgs
  <2>4. Cardinality(Pending(Records)') = Cardinality(Pending(Records)) - 1
    BY <2>2, DropOne, AccountSets
  <2>5. Cardinality(Pending(Records)) \in Nat  BY AccountSets, MsgsCount
  <2>6. /\ owedN' = owedN - 1 /\ refusedN' = refusedN /\ keptN' = keptN
        /\ failedN' = failedN /\ owedBumpsN' = owedBumpsN /\ lostBumpsN' = lostBumpsN
        /\ owedN \in Nat
    BY <1>2, <2>3, <2>4, <2>5
       DEF owedN, refusedN, keptN, failedN, owedBumpsN, lostBumpsN
  <2>7. QED  BY <1>1, <2>1, <2>6, AccountsMeaning, AccountsMeaningNext
<1>4. CASE m \in Counters
  <2>1. droppedCounters' = droppedCounters + 1 /\ UNCHANGED dropped
    BY <1>4, KindAssumption DEF CountRefusal
  <2>2. Pending(Counters)' = Pending(Counters) \ {m} /\ m \in Pending(Counters)
    BY <1>1, <1>4 DEF Pending, TypeOK, Msgs
  <2>3. Pending(Records)' = Pending(Records)
    BY <1>1, <1>4, KindAssumption DEF Pending, TypeOK, Msgs
  <2>4. Cardinality(Pending(Counters)') = Cardinality(Pending(Counters)) - 1
    BY <2>2, DropOne, AccountSets
  <2>5. Cardinality(Pending(Counters)) \in Nat  BY AccountSets, MsgsCount
  <2>6. /\ owedBumpsN' = owedBumpsN - 1 /\ lostBumpsN' = lostBumpsN /\ keptN' = keptN
        /\ failedN' = failedN /\ owedN' = owedN /\ refusedN' = refusedN
        /\ owedBumpsN \in Nat
    BY <1>2, <2>3, <2>4, <2>5
       DEF owedN, refusedN, keptN, failedN, owedBumpsN, lostBumpsN
  <2>7. QED  BY <1>1, <2>1, <2>6, AccountsMeaning, AccountsMeaningNext
<1>5. QED  BY <1>1, <1>3, <1>4 DEF Counted

\* The worker settles one message of its batch and counts what was lost.
LEMMA PersistAccounts ==
  ASSUME TypeOK, EveryOutcomeCounted, NEW i \in 1..Len(batch), BumpCounter(i) \/ PersistOne(i)
  PROVE  EveryOutcomeCounted'
<1> DEFINE m == batch[i]
<1>1. m \in Msgs /\ fate[m] = "taken" /\ UNCHANGED <<call, dropped>>
  BY DEF TypeOK, BumpCounter, PersistOne, Turn, persistFrame, outside
<1>2. UNCHANGED <<Pending(Records), Pending(Counters)>>
  BY <1>1 DEF Pending
<1>3. CASE BumpCounter(i)
  <2>1. m \in Counters /\ m \notin Records /\ UNCHANGED <<written, persistFailures>>
    BY <1>3, KindAssumption DEF BumpCounter
  <2>2. /\ With("kept")' \cap Records = With("kept") \cap Records
        /\ With("failed")' \cap Records = With("failed") \cap Records
        /\ With("refused")' \cap Records = With("refused") \cap Records
    BY <1>1, <1>3, <2>1 DEF BumpCounter, With, TypeOK
  <2>3. CASE fate' = [fate EXCEPT ![m] = "kept"] /\ droppedCounters' = droppedCounters
    <3>1. (With("failed")' \cup With("refused")') \cap Counters
            = (With("failed") \cup With("refused")) \cap Counters
      BY <1>1, <2>3 DEF With, TypeOK
    <3>2. /\ owedN' = owedN /\ refusedN' = refusedN /\ keptN' = keptN
          /\ failedN' = failedN /\ owedBumpsN' = owedBumpsN /\ lostBumpsN' = lostBumpsN
      BY <1>2, <2>2, <3>1 DEF owedN, refusedN, keptN, failedN, owedBumpsN, lostBumpsN
    <3>3. QED  BY <1>1, <2>1, <2>3, <3>2, AccountsMeaning, AccountsMeaningNext
  <2>4. CASE fate' = [fate EXCEPT ![m] = "failed"] /\ droppedCounters' = droppedCounters + 1
    <3>1. /\ (With("failed")' \cup With("refused")') \cap Counters
               = ((With("failed") \cup With("refused")) \cap Counters) \cup {m}
          /\ m \notin (With("failed") \cup With("refused")) \cap Counters
      BY <1>1, <2>1, <2>4 DEF With, TypeOK
    <3>2. Cardinality((With("failed")' \cup With("refused")') \cap Counters)
            = Cardinality((With("failed") \cup With("refused")) \cap Counters) + 1
      BY <1>1, <3>1, AddOne, AccountSets
    <3>3. /\ owedN' = owedN /\ refusedN' = refusedN /\ keptN' = keptN
          /\ failedN' = failedN /\ owedBumpsN' = owedBumpsN /\ lostBumpsN' = lostBumpsN + 1
          /\ owedBumpsN \in Nat
      BY <1>2, <2>2, <3>2, AccountSets, MsgsCount
         DEF owedN, refusedN, keptN, failedN, owedBumpsN, lostBumpsN
    <3>4. QED  BY <1>1, <2>1, <2>4, <3>3, AccountsMeaning, AccountsMeaningNext
  <2>5. QED  BY <1>3, <2>3, <2>4 DEF BumpCounter
<1>4. CASE PersistOne(i)
  <2>1. m \in Records /\ m \notin Counters /\ UNCHANGED droppedCounters
    BY <1>4, KindAssumption DEF PersistOne
  <2>2. /\ With("refused")' \cap Records = With("refused") \cap Records
        /\ (With("failed")' \cup With("refused")') \cap Counters
             = (With("failed") \cup With("refused")) \cap Counters
    BY <1>1, <1>4, <2>1 DEF PersistOne, With, TypeOK
  <2>3. CASE /\ fate' = [fate EXCEPT ![m] = "kept"]
             /\ written' = written + 1 /\ UNCHANGED persistFailures
    <3>1. /\ With("kept")' \cap Records = (With("kept") \cap Records) \cup {m}
          /\ m \notin With("kept") \cap Records
          /\ With("failed")' \cap Records = With("failed") \cap Records
      BY <1>1, <2>1, <2>3 DEF With, TypeOK
    <3>2. Cardinality(With("kept")' \cap Records) = Cardinality(With("kept") \cap Records) + 1
      BY <1>1, <3>1, AddOne, AccountSets
    <3>3. /\ owedN' = owedN /\ refusedN' = refusedN /\ keptN' = keptN + 1
          /\ failedN' = failedN /\ owedBumpsN' = owedBumpsN /\ lostBumpsN' = lostBumpsN
      BY <1>2, <2>2, <3>1, <3>2 DEF owedN, refusedN, keptN, failedN, owedBumpsN, lostBumpsN
    <3>4. QED  BY <1>1, <2>1, <2>3, <3>3, AccountsMeaning, AccountsMeaningNext
  <2>4. CASE /\ fate' = [fate EXCEPT ![m] = "failed"]
             /\ persistFailures' = persistFailures + 1 /\ UNCHANGED written
    <3>1. /\ With("failed")' \cap Records = (With("failed") \cap Records) \cup {m}
          /\ m \notin With("failed") \cap Records
          /\ With("kept")' \cap Records = With("kept") \cap Records
      BY <1>1, <2>1, <2>4 DEF With, TypeOK
    <3>2. Cardinality(With("failed")' \cap Records)
            = Cardinality(With("failed") \cap Records) + 1
      BY <1>1, <3>1, AddOne, AccountSets
    <3>3. /\ owedN' = owedN /\ refusedN' = refusedN /\ keptN' = keptN
          /\ failedN' = failedN + 1 /\ owedBumpsN' = owedBumpsN /\ lostBumpsN' = lostBumpsN
      BY <1>2, <2>2, <3>1, <3>2 DEF owedN, refusedN, keptN, failedN, owedBumpsN, lostBumpsN
    <3>4. QED  BY <1>1, <2>1, <2>4, <3>3, AccountsMeaning, AccountsMeaningNext
  <2>5. QED  BY <1>4, <2>3, <2>4 DEF PersistOne
<1>5. QED  BY <1>3, <1>4

\* The open failed: the whole batch is counted as lost, kind by kind.
LEMMA UnopenedAccounts ==
  ASSUME TypeOK, Placement, EveryOutcomeCounted, ClassifyUnopened
  PROVE  EveryOutcomeCounted'
<1> DEFINE R == Elems(batch) \cap Records
           C == Elems(batch) \cap Counters
<1>1. \A m \in Elems(batch) : m \in Msgs /\ fate[m] = "taken"
  BY DEF TypeOK, Placement, ClassifyUnopened, Classify, FillDone, TailDone, Elems
<1>2. /\ fate' = [m \in Msgs |-> IF m \in Handled THEN "kept"
                                ELSE IF m \in Elems(batch) THEN "failed" ELSE fate[m]]
      /\ persistFailures' = persistFailures + Cardinality(R)
      /\ droppedCounters' = droppedCounters + Cardinality(C)
      /\ UNCHANGED <<dropped, written, call>>
  BY DEF ClassifyUnopened, Classify, outside
<1>3. UNCHANGED <<Pending(Records), Pending(Counters)>>
  BY <1>2 DEF Pending
<1>4. R \in SUBSET Msgs /\ C \in SUBSET Msgs
  BY <1>1
<1>5. /\ With("kept")' \cap Records = With("kept") \cap Records
      /\ With("refused")' \cap Records = With("refused") \cap Records
  BY <1>1, <1>2 DEF With, Handled, Counted
<1>6. /\ With("failed")' \cap Records = (With("failed") \cap Records) \cup R
      /\ (With("failed") \cap Records) \cap R = {}
  BY <1>1, <1>2 DEF With, Handled, Counted, Msgs
<1>7. /\ (With("failed")' \cup With("refused")') \cap Counters
           = ((With("failed") \cup With("refused")) \cap Counters) \cup C
      /\ ((With("failed") \cup With("refused")) \cap Counters) \cap C = {}
  BY <1>1, <1>2 DEF With, Handled, Counted, Msgs
<1>8. /\ failedN' = failedN + Cardinality(R)
      /\ lostBumpsN' = lostBumpsN + Cardinality(C)
  <2>1. Cardinality(With("failed")' \cap Records)
          = Cardinality(With("failed") \cap Records) + Cardinality(R)
    <3> HIDE DEF R
    <3>1. QED  BY <1>4, <1>6, DisjointCount, AccountSets
  <2>2. Cardinality((With("failed")' \cup With("refused")') \cap Counters)
          = Cardinality((With("failed") \cup With("refused")) \cap Counters) + Cardinality(C)
    <3> HIDE DEF C
    <3>1. QED  BY <1>4, <1>7, DisjointCount, AccountSets
  <2>3. QED  BY <2>1, <2>2 DEF failedN, lostBumpsN
<1>9. /\ owedN' = owedN /\ refusedN' = refusedN /\ keptN' = keptN
      /\ owedBumpsN' = owedBumpsN /\ owedBumpsN \in Nat /\ lostBumpsN \in Nat
  BY <1>3, <1>5, AccountSets, MsgsCount
     DEF owedN, refusedN, keptN, owedBumpsN, lostBumpsN
<1>10. Cardinality(R) \in Nat /\ Cardinality(C) \in Nat
  BY <1>4, MsgsCount
<1>11. QED
  <2> HIDE DEF R, C
  <2>1. QED  BY <1>2, <1>8, <1>9, <1>10, AccountsMeaning, AccountsMeaningNext

\* Every step of every thread keeps the accounts balanced.
LEMMA AccountsStep ==
  TypeOK /\ Placement /\ EveryOutcomeCounted /\ [Next]_vars => EveryOutcomeCounted'
<1> SUFFICES ASSUME TypeOK, Placement, EveryOutcomeCounted, [Next]_vars
             PROVE  EveryOutcomeCounted'
  OBVIOUS
<1> USE DEF stats, counts, Counting, loopVars, stopVars, history
<1>0. /\ FlushMsg \notin Counted /\ Matchers \cap Counted = {} /\ Counted \subseteq Msgs
      /\ \A m \in Counted : fate[m] = "new" => fate[m] \notin Counting
  BY DEF Counted, Msgs
<1>1. ASSUME NEW m \in Msgs, SinkCall(m) PROVE EveryOutcomeCounted'
  <2>1. CASE TrySendRecord(m) \/ TrySendCounter(m)
    BY <1>0, <2>1, AccountsFrame
       DEF TrySendRecord, TrySendCounter, Enqueue, Placement, TypeOK
  <2>2. CASE CountQueued(m) \/ CountInFlight(m)
    BY <1>0, <2>2, AccountsFrame DEF CountQueued, CountInFlight, TypeOK
  <2>3. QED
    BY <1>1, <2>1, <2>2, RefuseAccounts, CountRefusalAccounts DEF SinkCall
<1>2. ASSUME NEW m \in Msgs, SetMatcher(m) \/ SetMatcherFails(m) PROVE EveryOutcomeCounted'
  BY <1>0, <1>2, AccountsFrame DEF SetMatcher, SetMatcherFails, Enqueue, TypeOK
<1>3. CASE Work
  <2>1. CASE SeeStop \/ TailEmpty \/ Finish \/ EndBatch
    BY <2>1, AccountsFrame DEF SeeStop, TailEmpty, Finish, EndBatch, outside
  <2>2. CASE RecvFirst \/ Fill \/ TailDrain
    <3>1. PICK next \in {"fill", "tail"} : Receive(next)
      BY <2>2 DEF RecvFirst, Fill, TailDrain
    <3>2. Head(queue) \in Msgs /\ fate[Head(queue)] = "queued"
      BY <3>1 DEF Receive, Placement, TypeOK
    <3>3. QED  BY <1>0, <3>1, <3>2, AccountsFrame DEF Receive, outside, TypeOK
  <2>3. CASE ClassifyOpened
    <3>1. \A m \in Counted : m \notin Handled  BY DEF Handled
    <3>2. \A m \in Counted : fate'[m] = fate[m]
      BY <1>0, <2>3, <3>1 DEF ClassifyOpened
    <3>3. QED  BY <2>3, <3>2, AccountsFrame DEF ClassifyOpened, Classify, outside
  <2>4. CASE Persist
    BY <2>4, PersistAccounts DEF Persist
  <2>5. QED
    BY <1>3, <2>1, <2>2, <2>3, <2>4, UnopenedAccounts DEF Work
<1>4. CASE Exit
  <2>1. \A m \in Elems(queue) : fate[m] = "queued"  BY DEF Elems, Placement
  <2>2. \A m \in Counted : fate'[m] # fate[m] => fate[m] = "queued" /\ fate'[m] = "lost"
    BY <1>0, <1>4, <2>1 DEF Exit
  <2>3. QED  BY <1>4, <2>2, AccountsFrame DEF Exit, outside
<1>5. CASE BeginStop \/ FlushReplied \/ FlushTimeout \/ RaiseFlag \/ Join \/ JoinTimeout
  BY <1>5, AccountsFrame
     DEF BeginStop, FlushReplied, FlushTimeout, RaiseFlag, Join, JoinTimeout, inside
<1>6. CASE FlushSend \/ FlushUnsent
  BY <1>0, <1>6, AccountsFrame DEF FlushSend, FlushUnsent, Enqueue, inside, TypeOK
<1>7. CASE UNCHANGED vars
  BY <1>7, AccountsFrame DEF vars
<1>8. QED
  BY <1>1, <1>2, <1>3, <1>4, <1>5, <1>6, <1>7 DEF Next, Stop

\* No message is lost without being counted: in every reachable state the writer's
\* counters equal the number of records and bumps that really met each end, whichever
\* of the queue, the open, the transaction or the counter write failed.
THEOREM AccountingCorrect == Spec => []EveryOutcomeCounted
<1>1. Init => IInv
  <2>1. Init => TypeOK  BY TypeCorrectInit
  <2>2. Init => Placement
    BY DEF Init, Placement, Msgs
  <2>3. ASSUME Init PROVE EveryOutcomeCounted
    <3>1. /\ With("kept") \cap Records = {} /\ With("failed") \cap Records = {}
          /\ With("refused") \cap Records = {}
          /\ (With("failed") \cup With("refused")) \cap Counters = {}
          /\ Pending(Records) = {} /\ Pending(Counters) = {}
      BY <2>3 DEF Init, With, Pending, Msgs
    <3>2. /\ keptN = 0 /\ failedN = 0 /\ refusedN = 0 /\ owedN = 0
          /\ lostBumpsN = 0 /\ owedBumpsN = 0
      BY <3>1, FS_EmptySet
         DEF keptN, failedN, refusedN, owedN, lostBumpsN, owedBumpsN
    <3>3. /\ written = keptN /\ persistFailures = failedN
          /\ dropped + owedN = refusedN /\ droppedCounters + owedBumpsN = lostBumpsN
      BY <2>3, <3>2 DEF Init
    <3>4. QED
      BY <3>3 DEF EveryOutcomeCounted, keptN, failedN, refusedN, owedN, lostBumpsN, owedBumpsN
  <2>4. QED  BY <2>1, <2>2, <2>3 DEF IInv
<1>2. IInv /\ [Next]_vars => IInv'
  BY TypeStep, PlacementStep, AccountsStep DEF IInv
<1>3. IInv => EveryOutcomeCounted
  BY DEF IInv
<1>4. QED  BY <1>1, <1>2, <1>3, PTL DEF Spec

-----------------------------------------------------------------------------
(* Order: the flush is a barrier, the tail takes what came before it.      *)

\* Every message in flight is in one place, and the batch is in hand only while the
\* worker is receiving or persisting it.
Flow ==
  /\ Len(queue) <= QueueCapacity
  /\ \A m \in Msgs : fate[m] = "queued" => m \in Elems(queue)
  /\ \A m \in Msgs : fate[m] = "taken" => m \in Elems(batch)
  /\ \A m \in Msgs : fate[m] = "lost" => worker = "exited"
  /\ \A m \in Msgs : call[m] \in {"sent", "counted"} => fate[m] # "refused"
  /\ \A i \in 1..Len(batch) : fate[batch[i]] \in {"taken", "kept", "failed"}
  /\ \A i, j \in 1..Len(batch) : batch[i] = batch[j] => i = j
  /\ worker \in {"recv", "final", "finished", "exited"} => batch = <<>>
  /\ worker = "exited" => queue = <<>>

\* What entered the channel before the tail drain began is near enough to the head for
\* the drain to reach it.
TailReach ==
  /\ worker \in {"recv", "fill"} => ~inTail
  /\ worker \in {"tail", "final", "finished"} => inTail
  /\ worker = "tail" =>
       \A i \in 1..Len(queue) : queue[i] \in late \/ i + Len(batch) <= QueueCapacity
  /\ inTail /\ worker # "tail" => Elems(queue) \subseteq late

\* What the Flush owes is ahead of it: still in the channel only while the Flush is
\* behind it there, and settled once the Flush is answered.
Barrier ==
  /\ fate[FlushMsg] \in {"new", "refused"} => owed = {}
  /\ fate[FlushMsg] # "lost" =>
       \A m \in owed : fate[m] \in {"queued", "taken", "kept", "failed"}
  /\ fate[FlushMsg] = "queued" =>
       \A i, j \in 1..Len(queue) : queue[i] = FlushMsg /\ queue[j] \in owed => j < i
  /\ fate[FlushMsg] \in {"taken", "kept", "failed"} =>
       \A m \in owed : fate[m] # "queued"
  /\ replied => /\ fate[FlushMsg] \in {"kept", "failed"}
                /\ \A m \in owed : fate[m] \in {"kept", "failed"}

\* Messages whose sender has added them to in_flight, and messages the worker has
\* subtracted from it.
Announced == {m \in Counted : call[m] = "done" /\ fate[m] # "refused"}
Released == {m \in Counted : fate[m] \in {"kept", "failed"} /\ m \notin Elems(batch)}

\* in_flight is the difference of the two, as an AtomicU64 holds it.
Depth == inFlight = (Cardinality(Announced) - Cardinality(Released)) % Wrap

-----------------------------------------------------------------------------

\* A message at a place of the channel or of the batch is one of its elements.
LEMMA ElemsPlaces ==
  ASSUME NEW s \in Seq(Msgs)
  PROVE  /\ \A i \in 1..Len(s) : s[i] \in Elems(s) /\ s[i] \in Msgs
         /\ \A m \in Elems(s) : m \in Msgs /\ \E i \in 1..Len(s) : s[i] = m
         /\ s = <<>> => Elems(s) = {}
         /\ Len(s) = 0 => s = <<>>
BY DEF Elems

\* A message is added at the end of a sequence.
LEMMA AppendPlaces ==
  ASSUME NEW s \in Seq(Msgs), NEW m \in Msgs
  PROVE  /\ Append(s, m) \in Seq(Msgs) /\ Len(Append(s, m)) = Len(s) + 1
         /\ \A i \in 1..Len(s) : Append(s, m)[i] = s[i]
         /\ Append(s, m)[Len(s) + 1] = m
         /\ \A i \in 1..Len(s) + 1 : i \in 1..Len(s) \/ i = Len(s) + 1
         /\ Elems(Append(s, m)) = Elems(s) \cup {m}
<1>1. /\ Append(s, m) \in Seq(Msgs) /\ Len(Append(s, m)) = Len(s) + 1
      /\ \A i \in 1..Len(s) : Append(s, m)[i] = s[i]
      /\ Append(s, m)[Len(s) + 1] = m
      /\ \A i \in 1..Len(s) + 1 : i \in 1..Len(s) \/ i = Len(s) + 1
  OBVIOUS
<1>2. Len(s) \in Nat  OBVIOUS
<1>3. Elems(Append(s, m)) = {Append(s, m)[i] : i \in 1..Len(s) + 1}
  BY <1>1 DEF Elems
<1>4. \A i \in 1..Len(s) : i \in 1..Len(s) + 1  BY <1>2
<1>5. Len(s) + 1 \in 1..Len(s) + 1  BY <1>2
<1>6. QED
  <2> DEFINE t == Append(s, m)
  <2>1. \A x : x \in Elems(t) => x \in Elems(s) \cup {m}
    BY <1>1, <1>3 DEF Elems
  <2>2. \A x : x \in Elems(s) \cup {m} => x \in Elems(t)
    BY <1>1, <1>3, <1>4, <1>5 DEF Elems
  <2>3. QED  BY <1>1, <2>1, <2>2

\* The head of a sequence leaves it.
LEMMA TailPlaces ==
  ASSUME NEW s \in Seq(Msgs), s # <<>>
  PROVE  /\ Tail(s) \in Seq(Msgs) /\ Len(s) \in Nat \ {0} /\ Len(Tail(s)) = Len(s) - 1
         /\ Head(s) = s[1] /\ Head(s) \in Msgs /\ Head(s) \in Elems(s)
         /\ \A i \in 1..Len(Tail(s)) : Tail(s)[i] = s[i+1] /\ i+1 \in 1..Len(s)
         /\ \A m \in Elems(s) : m = Head(s) \/ m \in Elems(Tail(s))
         /\ Elems(Tail(s)) \subseteq Elems(s)
<1>1. /\ Tail(s) \in Seq(Msgs) /\ Len(s) \in Nat \ {0} /\ Len(Tail(s)) = Len(s) - 1
      /\ Head(s) = s[1] /\ Head(s) \in Msgs
      /\ \A i \in 1..Len(Tail(s)) : Tail(s)[i] = s[i+1] /\ i+1 \in 1..Len(s)
  OBVIOUS
<1>2. \A i \in 1..Len(s) : i = 1 \/ (i-1 \in 1..Len(Tail(s)) /\ (i-1)+1 = i)  BY <1>1
<1>3. \A i \in 1..Len(s) : i # 1 => s[i] = Tail(s)[i-1]  BY <1>1, <1>2
<1>4. ASSUME NEW m \in Elems(s), m # Head(s) PROVE m \in Elems(Tail(s))
  <2>1. PICK i \in 1..Len(s) : s[i] = m  BY DEF Elems
  <2>2. i # 1 /\ i-1 \in 1..Len(Tail(s)) /\ Tail(s)[i-1] = m  BY <1>1, <1>2, <1>3, <1>4, <2>1
  <2>3. QED  BY <2>2 DEF Elems
<1>5. Elems(Tail(s)) \subseteq Elems(s)  BY <1>1 DEF Elems
<1>6. 1 \in 1..Len(s)  BY <1>1
<1>7. QED  BY <1>1, <1>4, <1>5, <1>6 DEF Elems

\* A message enters the channel: it was new, and nothing else moves.
LEMMA EnqueueFacts ==
  ASSUME TypeOK, Placement, Flow, NEW m \in Msgs,
         NEW next \in {"sent", "counted", "done"}, Enqueue(m, next), call[m] = "idle"
  PROVE  /\ fate[m] = "new" /\ m \notin Elems(queue) /\ m \notin Elems(batch)
         /\ queue' = Append(queue, m) /\ queue' \in Seq(Msgs)
         /\ fate' = [fate EXCEPT ![m] = "queued"] /\ call' = [call EXCEPT ![m] = next]
         /\ worker # "exited" /\ Len(queue') = Len(queue) + 1 /\ Len(queue') <= QueueCapacity
         /\ Elems(queue') = Elems(queue) \cup {m}
<1>1. queue \in Seq(Msgs) /\ batch \in Seq(Msgs)  BY DEF TypeOK
<1>2. fate[m] = "new"  BY DEF Placement
<1>3. m \notin Elems(queue)  BY <1>2 DEF Placement, Elems
<1>4. m \notin Elems(batch)  BY <1>2 DEF Flow, Elems
<1>5. /\ queue' = Append(queue, m) /\ fate' = [fate EXCEPT ![m] = "queued"]
      /\ call' = [call EXCEPT ![m] = next] /\ worker # "exited" /\ Len(queue) < QueueCapacity
  BY DEF Enqueue, Connected, HasRoom
<1>6. Len(queue) \in Nat /\ QueueCapacity \in Nat  BY <1>1
<1>7. QED  BY <1>1, <1>2, <1>3, <1>4, <1>5, <1>6, AppendPlaces

\* A message moves from the head of the channel to the end of the batch.
LEMMA ReceiveFacts ==
  ASSUME TypeOK, Placement, Flow, NEW next \in {"fill", "tail"}, Receive(next)
  PROVE  /\ Head(queue) \in Msgs /\ fate[Head(queue)] = "queued"
         /\ Head(queue) = queue[1] /\ Head(queue) \in Elems(queue)
         /\ Head(queue) \notin Elems(batch) /\ Head(queue) \notin Elems(queue')
         /\ queue \in Seq(Msgs) /\ batch \in Seq(Msgs) /\ queue # <<>>
         /\ queue' = Tail(queue) /\ Len(queue) \in Nat \ {0} /\ Len(queue') = Len(queue) - 1
         /\ \A i \in 1..Len(queue') : queue'[i] = queue[i+1] /\ i+1 \in 1..Len(queue)
         /\ batch' = Append(batch, Head(queue))
         /\ Elems(batch') = Elems(batch) \cup {Head(queue)}
         /\ \A m \in Elems(queue) : m = Head(queue) \/ m \in Elems(queue')
         /\ Elems(queue') \subseteq Elems(queue)
         /\ fate' = [fate EXCEPT ![Head(queue)] = "taken"] /\ worker' = next
         /\ UNCHANGED <<call, late, owed, replied, inTail, stopper, inFlight>>
<1>1. queue \in Seq(Msgs) /\ batch \in Seq(Msgs) /\ queue # <<>>  BY DEF TypeOK, Receive
<1>2. /\ queue' = Tail(queue) /\ batch' = Append(batch, Head(queue))
      /\ fate' = [fate EXCEPT ![Head(queue)] = "taken"] /\ worker' = next
      /\ UNCHANGED <<call, late, owed, replied, inTail, stopper, inFlight>>
  BY DEF Receive, outside, stopVars
<1>3. /\ Head(queue) \in Msgs /\ Head(queue) = queue[1] /\ Head(queue) \in Elems(queue)
      /\ Len(queue) \in Nat \ {0} /\ Len(queue') = Len(queue) - 1
      /\ \A i \in 1..Len(queue') : queue'[i] = queue[i+1] /\ i+1 \in 1..Len(queue)
      /\ \A m \in Elems(queue) : m = Head(queue) \/ m \in Elems(queue')
      /\ Elems(queue') \subseteq Elems(queue)
  BY <1>1, <1>2, TailPlaces
<1>4. fate[Head(queue)] = "queued"  BY <1>3 DEF Placement
<1>5. Head(queue) \notin Elems(batch)  BY <1>4 DEF Flow, Elems
<1>6. Head(queue) \notin Elems(queue')
  <2>1. 1 \in 1..Len(queue) /\ \A i \in 1..Len(queue') : i + 1 # 1  BY <1>3
  <2>2. \A i \in 1..Len(queue') : queue[i+1] # queue[1]  BY <1>3, <2>1 DEF Placement
  <2>3. QED  BY <1>3, <2>2 DEF Elems
<1>7. Elems(batch') = Elems(batch) \cup {Head(queue)}  BY <1>1, <1>2, <1>3, AppendPlaces
<1>8. QED  BY <1>1, <1>2, <1>3, <1>4, <1>5, <1>6, <1>7

\* The batch is classified: its messages, and no others, may be settled.
LEMMA ClassifyFacts ==
  ASSUME TypeOK, Placement, Flow, ClassifyOpened \/ ClassifyUnopened
  PROVE  /\ worker \in {"fill", "tail"} /\ worker' = "persist"
         /\ \A m \in Msgs : \/ fate'[m] = fate[m]
                            \/ m \in Elems(batch) /\ fate[m] = "taken" /\ fate'[m] \in {"kept", "failed"}
         /\ fate' \in [Msgs -> Fates]
         /\ UNCHANGED <<call, queue, batch, late, owed, replied, inTail, stopper, inFlight>>
<1>1. /\ worker \in {"fill", "tail"} /\ worker' = "persist"
      /\ UNCHANGED <<call, queue, batch, late, owed, replied, inTail, stopper, inFlight>>
  BY DEF ClassifyOpened, ClassifyUnopened, Classify, FillDone, TailDone, outside, stopVars
<1>2. \A m \in Elems(batch) : m \in Msgs /\ fate[m] = "taken"
  BY <1>1 DEF Elems, Placement, TypeOK
<1>3. \A m \in Msgs : \/ fate'[m] = fate[m]
                      \/ m \in Elems(batch) /\ fate[m] = "taken" /\ fate'[m] \in {"kept", "failed"}
  BY <1>2 DEF ClassifyOpened, ClassifyUnopened, Handled
<1>4. fate' \in [Msgs -> Fates]
  BY DEF ClassifyOpened, ClassifyUnopened, TypeOK, Fates
<1>5. QED  BY <1>1, <1>3, <1>4

\* One counter or one record of the batch is settled.
LEMMA PersistFacts ==
  ASSUME TypeOK, Flow, NEW i \in 1..Len(batch), BumpCounter(i) \/ PersistOne(i)
  PROVE  /\ batch[i] \in Msgs /\ fate[batch[i]] = "taken" /\ worker = "persist"
         /\ batch[i] \in Counted /\ batch[i] \in Elems(batch)
         /\ \E f \in {"kept", "failed"} : fate' = [fate EXCEPT ![batch[i]] = f]
         /\ UNCHANGED <<call, queue, batch, late, owed, replied, inTail, stopper, inFlight, worker>>
<1>1. batch[i] \in Msgs /\ batch[i] \in Elems(batch)  BY DEF TypeOK, Elems
<1>2. fate[batch[i]] = "taken" /\ worker = "persist" /\ batch[i] \in Counted
  BY DEF BumpCounter, PersistOne, Turn, Counted
<1>3. \E f \in {"kept", "failed"} : fate' = [fate EXCEPT ![batch[i]] = f]
  BY DEF BumpCounter, PersistOne
<1>4. UNCHANGED <<call, queue, batch, late, owed, replied, inTail, stopper, inFlight, worker>>
  BY DEF BumpCounter, PersistOne, persistFrame, outside, stopVars
<1>5. QED  BY <1>1, <1>2, <1>3, <1>4

\* What every other step leaves alone, but for the worker's place and a caller that moves on.
Calm ==
  /\ UNCHANGED <<queue, batch, fate, late, owed, replied>>
  /\ call' \in [Msgs -> {"idle", "sent", "counted", "refused", "done"}]
  /\ \/ /\ UNCHANGED inFlight
        /\ \A m \in Msgs : call'[m] # call[m] =>
             \/ call[m] = "refused" /\ call'[m] = "done"
             \/ call[m] = "sent" /\ call'[m] = "counted"
     \/ \E m \in Msgs : CountInFlight(m)

\* The ways a step can move a message.
Move ==
  \/ Calm /\ \/ UNCHANGED <<worker, inTail>>
             \/ SeeStop \/ TailEmpty \/ Finish
  \/ \E m \in Msgs, next \in {"sent", "counted", "done"} :
       /\ Enqueue(m, next) /\ call[m] = "idle"
       /\ m \in Counted => next # "done"
       /\ UNCHANGED <<worker, batch, inTail, replied, inFlight>>
       /\ \/ m # FlushMsg /\ UNCHANGED owed
          \/ m = FlushMsg /\ owed' = With("queued") \cup With("taken")
  \/ \E m \in Msgs, c \in {"refused", "done"} :
       /\ call[m] = "idle" /\ (m \in Counted => c = "refused")
       /\ fate' = [fate EXCEPT ![m] = "refused"] /\ call' = [call EXCEPT ![m] = c]
       /\ UNCHANGED <<queue, batch, worker, inTail, late, owed, replied, inFlight>>
  \/ RecvFirst \/ Fill \/ TailDrain
  \/ ClassifyOpened \/ ClassifyUnopened \/ Persist \/ EndBatch \/ Exit

\* Every step of every thread is one of these.
LEMMA Moves == TypeOK /\ Placement /\ [Next]_vars => Move
<1> SUFFICES ASSUME TypeOK, Placement, [Next]_vars PROVE Move
  OBVIOUS
<1> USE DEF stats, history, loopVars, stopVars
<1>0. call \in [Msgs -> {"idle", "sent", "counted", "refused", "done"}]
  BY DEF TypeOK
<1>1. ASSUME NEW m \in Msgs, SinkCall(m) PROVE Move
  <2>1. CASE TrySendRecord(m)
    <3>1. m # FlushMsg  BY <2>1 DEF TrySendRecord
    <3>2. QED  BY <2>1, <3>1 DEF TrySendRecord, Move
  <2>2. CASE TrySendCounter(m)
    <3>1. m # FlushMsg  BY <2>2 DEF TrySendCounter
    <3>2. QED  BY <2>2, <3>1 DEF TrySendCounter, Move
  <2>3. CASE Refuse(m)  BY <2>3 DEF Refuse, Move
  <2>4. CASE CountRefusal(m)
    <3>1. Calm  BY <1>0, <2>4 DEF CountRefusal, Calm
    <3>2. QED  BY <2>4, <3>1 DEF CountRefusal, Move
  <2>5. CASE CountQueued(m)
    <3>1. Calm  BY <1>0, <2>5 DEF CountQueued, Calm
    <3>2. QED  BY <2>5, <3>1 DEF CountQueued, Move
  <2>6. CASE CountInFlight(m)
    <3>1. Calm  BY <1>0, <2>6 DEF CountInFlight, Calm
    <3>2. QED  BY <2>6, <3>1 DEF CountInFlight, Move
  <2>7. QED  BY <1>1, <2>1, <2>2, <2>3, <2>4, <2>5, <2>6 DEF SinkCall
<1>2. ASSUME NEW m \in Msgs, SetMatcher(m) \/ SetMatcherFails(m) PROVE Move
  <2>1. m # FlushMsg /\ m \notin Counted
    BY <1>2 DEF SetMatcher, SetMatcherFails, Counted
  <2>2. CASE SetMatcher(m)  BY <2>1, <2>2 DEF SetMatcher, Move
  <2>3. CASE SetMatcherFails(m)  BY <2>1, <2>3 DEF SetMatcherFails, Move
  <2>4. QED  BY <1>2, <2>2, <2>3
<1>3. CASE Work
  <2>1. CASE SeeStop \/ TailEmpty \/ Finish
    <3>1. Calm  BY <1>0, <2>1 DEF SeeStop, TailEmpty, Finish, outside, Calm
    <3>2. QED  BY <2>1, <3>1 DEF Move
  <2>2. QED  BY <1>3, <2>1 DEF Work, Move
<1>4. CASE Exit  BY <1>4 DEF Move
<1>5. CASE BeginStop \/ FlushReplied \/ FlushTimeout \/ RaiseFlag \/ Join \/ JoinTimeout
  <2>1. Calm /\ UNCHANGED <<worker, inTail>>
    BY <1>0, <1>5
       DEF BeginStop, FlushReplied, FlushTimeout, RaiseFlag, Join, JoinTimeout, inside, Calm
  <2>2. QED  BY <2>1 DEF Move
<1>6. CASE FlushSend \/ FlushUnsent
  <2>1. FlushMsg \in Msgs /\ FlushMsg \notin Counted /\ call[FlushMsg] = "idle"
    BY <1>6 DEF Msgs, Counted, Placement, FlushSend, FlushUnsent
  <2>2. CASE FlushSend  BY <2>1, <2>2 DEF FlushSend, inside, Move
  <2>3. CASE FlushUnsent  BY <2>1, <2>3 DEF FlushUnsent, inside, Move
  <2>4. QED  BY <1>6, <2>2, <2>3
<1>7. CASE UNCHANGED vars
  <2>1. Calm /\ UNCHANGED <<worker, inTail>>  BY <1>0, <1>7 DEF vars, Calm
  <2>2. QED  BY <2>1 DEF Move
<1>8. QED
  BY <1>1, <1>2, <1>3, <1>4, <1>5, <1>6, <1>7 DEF Next, Stop

\* Every message in flight stays in one place.
LEMMA FlowStep == TypeOK /\ Placement /\ Flow /\ [Next]_vars => Flow'
<1> SUFFICES ASSUME TypeOK, Placement, Flow, Move PROVE Flow'
  BY Moves
<1>0. queue \in Seq(Msgs) /\ batch \in Seq(Msgs) /\ fate \in [Msgs -> Fates]
      /\ call \in [Msgs -> {"idle", "sent", "counted", "refused", "done"}]
  BY DEF TypeOK
<1>1. CASE Calm /\ \/ UNCHANGED <<worker, inTail>>
                   \/ SeeStop \/ TailEmpty \/ Finish
  <2>1. /\ UNCHANGED <<queue, batch, fate>>
        /\ \A m \in Msgs : call'[m] \in {"sent", "counted"} => call[m] \in {"sent", "counted"}
    BY <1>0, <1>1 DEF Calm, CountInFlight
  <2>2. /\ worker' \in {"recv", "final", "finished", "exited"} => batch = <<>>
        /\ (worker' = "exited") <=> (worker = "exited")
    <3>1. CASE UNCHANGED <<worker, inTail>>  BY <3>1 DEF Flow
    <3>2. CASE SeeStop  BY <3>2 DEF SeeStop
    <3>3. CASE TailEmpty  BY <3>3 DEF TailEmpty, TailDone
    <3>4. CASE Finish  BY <3>4 DEF Finish, Flow
    <3>5. QED  BY <1>1, <3>1, <3>2, <3>3, <3>4
  <2>3. QED  BY <2>1, <2>2 DEF Flow
<1>2. ASSUME NEW m \in Msgs, NEW next \in {"sent", "counted", "done"},
             Enqueue(m, next), call[m] = "idle", UNCHANGED <<worker, batch>>
      PROVE  Flow'
  <2>1. /\ fate[m] = "new" /\ m \notin Elems(batch) /\ fate' = [fate EXCEPT ![m] = "queued"]
        /\ call' = [call EXCEPT ![m] = next] /\ worker # "exited"
        /\ Len(queue') <= QueueCapacity /\ Elems(queue') = Elems(queue) \cup {m}
    BY <1>2, EnqueueFacts
  <2>2. \A i \in 1..Len(batch) : batch[i] \in Msgs /\ batch[i] # m
    BY <1>0, <2>1 DEF Elems
  <2>3. \A n \in Msgs : /\ fate'[n] = IF n = m THEN "queued" ELSE fate[n]
                        /\ call'[n] = IF n = m THEN next ELSE call[n]
    BY <1>0, <2>1
  <2>4. /\ \A n \in Msgs : fate'[n] = "queued" => n \in Elems(queue')
        /\ \A n \in Msgs : fate'[n] = "taken" => n \in Elems(batch)
        /\ \A n \in Msgs : fate'[n] = "lost" => worker = "exited"
        /\ \A n \in Msgs : call'[n] \in {"sent", "counted"} => fate'[n] # "refused"
        /\ \A i \in 1..Len(batch) : fate'[batch[i]] \in {"taken", "kept", "failed"}
    BY <2>1, <2>2, <2>3 DEF Flow
  <2>5. QED  BY <1>2, <2>1, <2>4 DEF Flow
<1>3. ASSUME NEW m \in Msgs, NEW c \in {"refused", "done"}, call[m] = "idle",
             fate' = [fate EXCEPT ![m] = "refused"], call' = [call EXCEPT ![m] = c],
             UNCHANGED <<queue, batch, worker>>
      PROVE  Flow'
  <2>1. fate[m] = "new"  BY <1>3 DEF Placement
  <2>2. \A i \in 1..Len(batch) : batch[i] \in Msgs /\ batch[i] # m
    BY <1>0, <2>1 DEF Flow
  <2>3. \A n \in Msgs : /\ fate'[n] = IF n = m THEN "refused" ELSE fate[n]
                        /\ call'[n] = IF n = m THEN c ELSE call[n]
    BY <1>0, <1>3
  <2>4. QED  BY <1>3, <2>2, <2>3 DEF Flow
<1>4. CASE RecvFirst \/ Fill \/ TailDrain
  <2>1. PICK next \in {"fill", "tail"} : Receive(next)
    BY <1>4 DEF RecvFirst, Fill, TailDrain
  <2>2. worker \in {"recv", "fill", "tail"}  BY <1>4 DEF RecvFirst, Fill, TailDrain
  <2> DEFINE h == Head(queue)
  <2>3. /\ h \in Msgs /\ fate[h] = "queued" /\ h \notin Elems(batch)
        /\ Len(queue) \in Nat \ {0} /\ Len(queue') = Len(queue) - 1
        /\ batch' = Append(batch, h) /\ Elems(batch') = Elems(batch) \cup {h}
        /\ \A m \in Elems(queue) : m = h \/ m \in Elems(queue')
        /\ fate' = [fate EXCEPT ![h] = "taken"] /\ worker' = next /\ UNCHANGED call
    BY <2>1, ReceiveFacts
  <2>4. \A n \in Msgs : fate'[n] = IF n = h THEN "taken" ELSE fate[n]
    BY <1>0, <2>3
  <2>5. /\ Len(batch') = Len(batch) + 1 /\ \A i \in 1..Len(batch) : batch'[i] = batch[i]
        /\ batch'[Len(batch) + 1] = h
        /\ \A i \in 1..Len(batch) + 1 : i \in 1..Len(batch) \/ i = Len(batch) + 1
    BY <1>0, <2>3, AppendPlaces
  <2>6. \A i \in 1..Len(batch) : batch[i] \in Msgs /\ batch[i] # h
    BY <1>0, <2>3 DEF Elems
  <2>7. \A i \in 1..Len(batch') : fate'[batch'[i]] \in {"taken", "kept", "failed"}
    BY <2>3, <2>4, <2>5, <2>6 DEF Flow
  <2>8. \A i, j \in 1..Len(batch') : batch'[i] = batch'[j] => i = j
    <3>1. \A i, j \in 1..Len(batch) : batch[i] = batch[j] => i = j  BY DEF Flow
    <3>2. QED
      <4> HIDE DEF h
      <4>1. QED  BY <2>5, <2>6, <3>1
  <2>9. Len(queue') <= QueueCapacity  BY <2>3 DEF Flow
  <2>10. /\ \A n \in Msgs : fate'[n] = "queued" => n \in Elems(queue')
         /\ \A n \in Msgs : fate'[n] = "taken" => n \in Elems(batch')
         /\ \A n \in Msgs : fate'[n] # "lost"
         /\ \A n \in Msgs : call'[n] \in {"sent", "counted"} => fate'[n] # "refused"
    BY <2>2, <2>3, <2>4 DEF Flow
  <2>11. QED  BY <2>3, <2>7, <2>8, <2>9, <2>10 DEF Flow
<1>5. CASE ClassifyOpened \/ ClassifyUnopened
  <2>1. /\ worker \in {"fill", "tail"} /\ worker' = "persist"
        /\ \A m \in Msgs : \/ fate'[m] = fate[m]
                           \/ m \in Elems(batch) /\ fate[m] = "taken" /\ fate'[m] \in {"kept", "failed"}
        /\ UNCHANGED <<call, queue, batch>>
    BY <1>5, ClassifyFacts
  <2>2. \A i \in 1..Len(batch) : batch[i] \in Msgs  BY <1>0
  <2>3. /\ \A n \in Msgs : fate'[n] = "queued" => n \in Elems(queue)
        /\ \A n \in Msgs : fate'[n] = "taken" => n \in Elems(batch)
        /\ \A n \in Msgs : fate'[n] # "lost"
        /\ \A n \in Msgs : call[n] \in {"sent", "counted"} => fate'[n] # "refused"
        /\ \A i \in 1..Len(batch) : fate'[batch[i]] \in {"taken", "kept", "failed"}
    BY <2>1, <2>2 DEF Flow
  <2>4. QED  BY <2>1, <2>3 DEF Flow
<1>6. CASE Persist
  <2>1. PICK i \in 1..Len(batch) : BumpCounter(i) \/ PersistOne(i)
    BY <1>6 DEF Persist
  <2> DEFINE m == batch[i]
  <2>2. /\ m \in Msgs /\ fate[m] = "taken" /\ worker = "persist"
        /\ UNCHANGED <<call, queue, batch, worker>>
    BY <2>1, PersistFacts
  <2>3. PICK f \in {"kept", "failed"} : fate' = [fate EXCEPT ![m] = f]
    BY <2>1, PersistFacts
  <2>4. \A n \in Msgs : fate'[n] = IF n = m THEN f ELSE fate[n]
    BY <1>0, <2>3
  <2>5. \A j \in 1..Len(batch) : batch[j] \in Msgs  BY <1>0
  <2>6. QED
    <3> HIDE DEF m
    <3>1. QED  BY <2>2, <2>4, <2>5 DEF Flow
<1>7. CASE EndBatch
  <2>1. /\ worker = "persist" /\ worker' # "exited" /\ UNCHANGED <<call, queue, fate>>
        /\ batch' = <<>> /\ \A i \in 1..Len(batch) : fate[batch[i]] # "taken"
    BY <1>7 DEF EndBatch, outside
  <2>2. \A m \in Msgs : fate[m] # "taken" /\ fate[m] # "lost"
    BY <2>1 DEF Flow, Elems
  <2>3. QED  BY <2>1, <2>2 DEF Flow
<1>8. CASE Exit
  <2>1. /\ worker' = "exited" /\ queue' = <<>> /\ UNCHANGED <<call, batch>> /\ batch = <<>>
        /\ fate' = [m \in Msgs |-> IF m \in Elems(queue) THEN "lost" ELSE fate[m]]
    BY <1>8 DEF Exit, outside, Flow
  <2>2. \A m \in Msgs : fate'[m] = IF m \in Elems(queue) THEN "lost" ELSE fate[m]
    BY <2>1
  <2>3. Len(queue') = 0 /\ Len(batch') = 0 /\ Elems(batch) = {}
    BY <2>1 DEF Elems
  <2>4. \A m \in Msgs : fate'[m] # "queued" /\ fate'[m] # "taken"
    BY <2>2, <2>3 DEF Flow
  <2>5. \A m \in Msgs : call[m] \in {"sent", "counted"} => fate'[m] # "refused"
    BY <2>2 DEF Flow
  <2>6. QED  BY <2>1, <2>3, <2>4, <2>5 DEF Flow
<1>9. QED
  BY <1>1, <1>2, <1>3, <1>4, <1>5, <1>6, <1>7, <1>8 DEF Move

\* The tail drain reaches everything that entered the channel before it began.
LEMMA TailStep == TypeOK /\ Placement /\ Flow /\ TailReach /\ [Next]_vars => TailReach'
<1> SUFFICES ASSUME TypeOK, Placement, Flow, TailReach, Move PROVE TailReach'
  BY Moves
<1>0. queue \in Seq(Msgs) /\ batch \in Seq(Msgs) /\ fate \in [Msgs -> Fates]
      /\ Len(queue) \in Nat /\ Len(batch) \in Nat /\ inTail \in BOOLEAN /\ late \subseteq Msgs
  BY DEF TypeOK
<1>1. CASE Calm /\ \/ UNCHANGED <<worker, inTail>>
                   \/ SeeStop \/ TailEmpty \/ Finish
  <2>1. UNCHANGED <<queue, batch, late>>  BY <1>1 DEF Calm
  <2>2. CASE UNCHANGED <<worker, inTail>>  BY <2>1, <2>2 DEF TailReach
  <2>3. CASE SeeStop
    <3>1. worker' = "tail" /\ inTail' /\ batch = <<>>  BY <2>3 DEF SeeStop, Flow
    <3>2. \A i \in 1..Len(queue) : i + Len(batch) <= QueueCapacity
      BY <1>0, <3>1 DEF Flow
    <3>3. QED  BY <2>1, <3>1, <3>2 DEF TailReach
  <2>4. CASE TailEmpty
    <3>1. /\ worker = "tail" /\ worker' = "final" /\ UNCHANGED inTail /\ Len(batch) = 0
          /\ Len(batch) >= BatchMax * TailFactor \/ queue = <<>>
      BY <2>4 DEF TailEmpty, TailDone
    <3>2. BatchMax * TailFactor \in Nat  OBVIOUS
    <3>3. queue = <<>>  BY <3>1, <3>2, TailAssumption
    <3>4. Elems(queue) = {}  BY <1>0, <3>3, ElemsPlaces
    <3>5. QED  BY <2>1, <3>1, <3>4 DEF TailReach
  <2>5. CASE Finish
    BY <2>1, <2>5 DEF Finish, TailReach
  <2>6. QED  BY <1>1, <2>2, <2>3, <2>4, <2>5
<1>2. ASSUME NEW m \in Msgs, NEW next \in {"sent", "counted", "done"},
             Enqueue(m, next), call[m] = "idle", UNCHANGED <<worker, batch, inTail>>
      PROVE  TailReach'
  <2>1. queue' = Append(queue, m) /\ Elems(queue') = Elems(queue) \cup {m}
    BY <1>2, EnqueueFacts
  <2>2. late' = IF inTail THEN late \cup {m} ELSE late  BY <1>2 DEF Enqueue
  <2>3. CASE worker = "tail"
    <3>1. inTail /\ late' = late \cup {m}  BY <2>2, <2>3 DEF TailReach
    <3>2. /\ Len(queue') = Len(queue) + 1 /\ \A i \in 1..Len(queue) : queue'[i] = queue[i]
          /\ queue'[Len(queue) + 1] = m
          /\ \A i \in 1..Len(queue) + 1 : i \in 1..Len(queue) \/ i = Len(queue) + 1
      BY <1>0, <2>1, AppendPlaces
    <3>3. \A i \in 1..Len(queue') : queue'[i] \in late' \/ i + Len(batch) <= QueueCapacity
      BY <2>3, <3>1, <3>2 DEF TailReach
    <3>4. QED  BY <1>2, <2>3, <3>1, <3>3 DEF TailReach
  <2>4. CASE worker # "tail"
    BY <1>2, <2>1, <2>2, <2>4 DEF TailReach
  <2>5. QED  BY <2>3, <2>4
<1>3. CASE /\ UNCHANGED <<queue, batch, worker, inTail, late>>
  BY <1>3 DEF TailReach
<1>4. CASE RecvFirst \/ Fill \/ TailDrain
  <2>1. PICK next \in {"fill", "tail"} : /\ Receive(next)
                                         /\ worker \in {"recv", "fill"} <=> next = "fill"
                                         /\ worker = "tail" <=> next = "tail"
    BY <1>4 DEF RecvFirst, Fill, TailDrain
  <2>2. /\ Len(queue') = Len(queue) - 1 /\ batch' = Append(batch, Head(queue))
        /\ Head(queue) \in Msgs /\ Elems(queue') \subseteq Elems(queue)
        /\ \A i \in 1..Len(queue') : queue'[i] = queue[i+1] /\ i+1 \in 1..Len(queue)
        /\ worker' = next /\ UNCHANGED <<inTail, late>>
    BY <2>1, ReceiveFacts
  <2>3. Len(batch') = Len(batch) + 1  BY <1>0, <2>2, AppendPlaces
  <2>4. CASE next = "tail"
    <3>1. worker = "tail" /\ inTail  BY <2>1, <2>4 DEF TailReach
    <3>2. \A i \in 1..Len(queue') : queue[i+1] \in late \/ (i+1) + Len(batch) <= QueueCapacity
      BY <2>2, <3>1 DEF TailReach
    <3>3. \A i \in 1..Len(queue') : queue'[i] \in late' \/ i + Len(batch') <= QueueCapacity
      <4>1. SUFFICES ASSUME NEW i \in 1..Len(queue')
                     PROVE  queue'[i] \in late' \/ i + Len(batch') <= QueueCapacity
        OBVIOUS
      <4>2. i \in Nat /\ Len(batch) \in Nat /\ (i+1) + Len(batch) = i + Len(batch')
        BY <1>0, <2>2, <2>3
      <4>3. QED  BY <2>2, <3>2, <4>1, <4>2
    <3>4. QED  BY <2>2, <2>4, <3>1, <3>3 DEF TailReach
  <2>5. CASE next = "fill"
    BY <2>1, <2>2, <2>5 DEF TailReach
  <2>6. QED  BY <2>4, <2>5
<1>5. CASE ClassifyOpened \/ ClassifyUnopened
  <2>1. worker' = "persist" /\ UNCHANGED <<queue, batch, late, inTail>>
    BY <1>5, ClassifyFacts
  <2>2. CASE worker = "fill"  BY <2>1, <2>2 DEF TailReach
  <2>3. CASE worker = "tail"
    <3>1. Len(batch) >= BatchMax * TailFactor \/ queue = <<>>
      BY <1>5, <2>3 DEF ClassifyOpened, ClassifyUnopened, Classify, FillDone, TailDone
    <3>2. BatchMax * TailFactor \in Nat  OBVIOUS
    <3>3. CASE queue = <<>>
      <4>1. Elems(queue) = {}  BY <1>0, <3>3, ElemsPlaces
      <4>2. QED  BY <2>1, <4>1 DEF TailReach
    <3>4. CASE Len(batch) >= BatchMax * TailFactor
      <4>1. \A i \in 1..Len(queue) : queue[i] \in late
        BY <1>0, <2>3, <3>2, <3>4, TailAssumption DEF TailReach
      <4>2. Elems(queue) \subseteq late  BY <4>1 DEF Elems
      <4>3. QED  BY <2>1, <4>2 DEF TailReach
    <3>5. QED  BY <3>1, <3>3, <3>4
  <2>4. QED  BY <1>5, <2>2, <2>3, ClassifyFacts
<1>6. CASE Persist
  <2>1. PICK i \in 1..Len(batch) : BumpCounter(i) \/ PersistOne(i)
    BY <1>6 DEF Persist
  <2>2. UNCHANGED <<queue, batch, worker, inTail, late>>
    BY <2>1, PersistFacts
  <2>3. QED  BY <1>3, <2>2
<1>7. CASE EndBatch
  <2>1. /\ worker = "persist" /\ UNCHANGED <<queue, late>> /\ batch' = <<>>
        /\ worker' = IF inTail THEN "final" ELSE IF stopping THEN "tail" ELSE "recv"
        /\ inTail' = (inTail \/ stopping)
    BY <1>7 DEF EndBatch, outside
  <2>2. CASE inTail  BY <2>1, <2>2 DEF TailReach
  <2>3. CASE ~inTail /\ stopping
    <3>1. \A i \in 1..Len(queue) : i + Len(batch') <= QueueCapacity
      BY <1>0, <2>1 DEF Flow
    <3>2. QED  BY <2>1, <2>3, <3>1 DEF TailReach
  <2>4. CASE ~inTail /\ ~stopping  BY <2>1, <2>4 DEF TailReach
  <2>5. QED  BY <2>2, <2>3, <2>4
<1>8. CASE Exit
  <2>1. worker' = "exited" /\ queue' = <<>>  BY <1>8 DEF Exit
  <2>2. Elems(queue') = {}  BY <2>1 DEF Elems
  <2>3. QED  BY <2>1, <2>2 DEF TailReach
<1>9. QED
  BY <1>1, <1>2, <1>3, <1>4, <1>5, <1>6, <1>7, <1>8 DEF Move

\* The flush stays behind what it owes.
LEMMA BarrierStep == TypeOK /\ Placement /\ Flow /\ Barrier /\ [Next]_vars => Barrier'
<1> SUFFICES ASSUME TypeOK, Placement, Flow, Barrier, Move PROVE Barrier'
  BY Moves
<1>0. /\ queue \in Seq(Msgs) /\ batch \in Seq(Msgs) /\ fate \in [Msgs -> Fates]
      /\ owed \subseteq Msgs /\ FlushMsg \in Msgs /\ Len(queue) \in Nat
  BY DEF TypeOK, Msgs
<1>1. CASE UNCHANGED <<queue, fate, owed, replied>>
  BY <1>1 DEF Barrier
<1>2. ASSUME NEW m \in Msgs, NEW next \in {"sent", "counted", "done"},
             Enqueue(m, next), call[m] = "idle", UNCHANGED replied,
             \/ m # FlushMsg /\ UNCHANGED owed
             \/ m = FlushMsg /\ owed' = With("queued") \cup With("taken")
      PROVE  Barrier'
  <2>1. /\ fate[m] = "new" /\ m \notin Elems(queue) /\ queue' = Append(queue, m)
        /\ fate' = [fate EXCEPT ![m] = "queued"] /\ worker # "exited"
    BY <1>2, EnqueueFacts
  <2>2. /\ Len(queue') = Len(queue) + 1 /\ \A i \in 1..Len(queue) : queue'[i] = queue[i]
        /\ queue'[Len(queue) + 1] = m
        /\ \A i \in 1..Len(queue) + 1 : i \in 1..Len(queue) \/ i = Len(queue) + 1
    BY <1>0, <2>1, AppendPlaces
  <2>3. \A n \in Msgs : fate'[n] = IF n = m THEN "queued" ELSE fate[n]
    BY <1>0, <2>1
  <2>4. fate[FlushMsg] # "lost"  BY <1>0, <2>1 DEF Flow
  <2>5. CASE m # FlushMsg /\ UNCHANGED owed
    <3>1. m \notin owed  BY <2>1, <2>4 DEF Barrier
    <3>2. fate'[FlushMsg] = "queued" =>
            \A i, j \in 1..Len(queue') : queue'[i] = FlushMsg /\ queue'[j] \in owed => j < i
      <4>1. fate'[FlushMsg] = fate[FlushMsg]  BY <1>0, <2>3, <2>5
      <4>2. SUFFICES ASSUME fate[FlushMsg] = "queued", NEW i \in 1..Len(queue'),
                            NEW j \in 1..Len(queue'), queue'[i] = FlushMsg, queue'[j] \in owed
                     PROVE  j < i
        BY <2>5, <4>1
      <4>3. i \in 1..Len(queue) /\ j \in 1..Len(queue)  BY <2>2, <2>5, <3>1, <4>2
      <4>4. queue[i] = FlushMsg /\ queue[j] \in owed  BY <2>2, <4>2, <4>3
      <4>5. QED  BY <4>2, <4>3, <4>4 DEF Barrier
    <3>3. \A n \in owed : n \in Msgs /\ fate'[n] = fate[n]  BY <1>0, <2>3, <3>1
    <3>4. fate'[FlushMsg] = fate[FlushMsg]  BY <1>0, <2>3, <2>5
    <3>5. QED  BY <1>2, <2>5, <3>2, <3>3, <3>4 DEF Barrier
  <2>6. CASE m = FlushMsg /\ owed' = With("queued") \cup With("taken")
    <3>1. \A n \in owed' : n \in Msgs /\ n # m /\ fate'[n] \in {"queued", "taken"}
      BY <1>0, <2>1, <2>3, <2>6 DEF With
    <3>2. fate'[FlushMsg] = "queued" /\ ~replied'
      BY <1>0, <1>2, <2>1, <2>3, <2>6 DEF Barrier
    <3>3. \A i, j \in 1..Len(queue') : queue'[i] = FlushMsg /\ queue'[j] \in owed' => j < i
      <4>1. SUFFICES ASSUME NEW i \in 1..Len(queue'), NEW j \in 1..Len(queue'),
                            queue'[i] = FlushMsg, queue'[j] \in owed'
                     PROVE  j < i
        OBVIOUS
      <4>2. \A k \in 1..Len(queue) : queue[k] # m  BY <2>1 DEF Elems
      <4>3. i = Len(queue) + 1  BY <2>2, <2>6, <4>1, <4>2
      <4>4. j \in 1..Len(queue)  BY <2>2, <3>1, <4>1
      <4>5. QED  BY <1>0, <4>3, <4>4
    <3>4. QED  BY <3>1, <3>2, <3>3 DEF Barrier
  <2>7. QED  BY <1>2, <2>5, <2>6
<1>3. ASSUME NEW m \in Msgs, call[m] = "idle", fate' = [fate EXCEPT ![m] = "refused"],
             UNCHANGED <<queue, owed, replied>>
      PROVE  Barrier'
  <2>1. fate[m] = "new"  BY <1>3 DEF Placement
  <2>2. \A n \in Msgs : fate'[n] = IF n = m THEN "refused" ELSE fate[n]
    BY <1>0, <1>3
  <2>3. fate[FlushMsg] # "lost" => m \notin owed  BY <2>1 DEF Barrier
  <2>4. QED  BY <1>0, <1>3, <2>1, <2>2, <2>3 DEF Barrier
<1>4. CASE RecvFirst \/ Fill \/ TailDrain
  <2>1. PICK next \in {"fill", "tail"} : Receive(next)
    BY <1>4 DEF RecvFirst, Fill, TailDrain
  <2> DEFINE h == Head(queue)
  <2>2. /\ h \in Msgs /\ fate[h] = "queued" /\ h = queue[1] /\ 1 \in 1..Len(queue)
        /\ \A i \in 1..Len(queue') : queue'[i] = queue[i+1] /\ i+1 \in 1..Len(queue)
        /\ fate' = [fate EXCEPT ![h] = "taken"] /\ UNCHANGED <<owed, replied>>
        /\ Len(queue') \in Nat
    BY <2>1, ReceiveFacts
  <2>3. \A n \in Msgs : fate'[n] = IF n = h THEN "taken" ELSE fate[n]
    BY <1>0, <2>2
  <2>4. CASE h = FlushMsg
    <3>1. \A j \in 1..Len(queue) : queue[j] \notin owed
      BY <2>2, <2>4 DEF Barrier
    <3>2. \A n \in owed : fate[n] # "queued"
      BY <1>0, <3>1 DEF Flow, Elems
    <3>3. fate'[FlushMsg] = "taken" /\ \A n \in owed : fate'[n] \in {"taken", "kept", "failed"}
      BY <1>0, <2>2, <2>3, <2>4, <3>2 DEF Barrier
    <3>4. ~replied  BY <2>2, <2>4 DEF Barrier
    <3>5. QED  BY <2>2, <3>3, <3>4 DEF Barrier
  <2>5. CASE h # FlushMsg
    <3>1. fate'[FlushMsg] = fate[FlushMsg]  BY <1>0, <2>3, <2>5
    <3>2. fate[FlushMsg] = "queued" =>
            \A i, j \in 1..Len(queue') : queue'[i] = FlushMsg /\ queue'[j] \in owed => j < i
      <4>1. SUFFICES ASSUME fate[FlushMsg] = "queued", NEW i \in 1..Len(queue'),
                            NEW j \in 1..Len(queue'), queue'[i] = FlushMsg, queue'[j] \in owed
                     PROVE  j < i
        OBVIOUS
      <4>2. i+1 \in 1..Len(queue) /\ j+1 \in 1..Len(queue) /\ queue[i+1] = FlushMsg
            /\ queue[j+1] \in owed
        BY <2>2, <4>1
      <4>3. j+1 < i+1  BY <4>1, <4>2 DEF Barrier
      <4>4. QED  BY <2>2, <4>3
    <3>3. \A n \in owed : n \in Msgs /\ (fate'[n] = fate[n] \/ (fate[n] = "queued" /\ fate'[n] = "taken"))
      BY <1>0, <2>2, <2>3
    <3>4. QED  BY <2>2, <3>1, <3>2, <3>3 DEF Barrier
  <2>6. QED  BY <2>4, <2>5
<1>5. CASE ClassifyOpened \/ ClassifyUnopened
  <2>1. /\ \A m \in Msgs : \/ fate'[m] = fate[m]
                           \/ m \in Elems(batch) /\ fate[m] = "taken" /\ fate'[m] \in {"kept", "failed"}
        /\ UNCHANGED <<queue, owed, replied>>
    BY <1>5, ClassifyFacts
  <2>2. QED  BY <1>0, <2>1 DEF Barrier
<1>6. CASE Persist
  <2>1. PICK i \in 1..Len(batch) : BumpCounter(i) \/ PersistOne(i)
    BY <1>6 DEF Persist
  <2>2. /\ batch[i] \in Msgs /\ fate[batch[i]] = "taken" /\ UNCHANGED <<queue, owed, replied>>
        /\ \E f \in {"kept", "failed"} : fate' = [fate EXCEPT ![batch[i]] = f]
    BY <2>1, PersistFacts
  <2>3. \A n \in Msgs : \/ fate'[n] = fate[n]
                        \/ fate[n] = "taken" /\ fate'[n] \in {"kept", "failed"}
    BY <1>0, <2>2
  <2>4. QED  BY <1>0, <2>2, <2>3 DEF Barrier
<1>7. CASE EndBatch
  <2>1. /\ worker = "persist" /\ UNCHANGED <<queue, fate, owed>>
        /\ replied' = (replied \/ FlushMsg \in Elems(batch))
        /\ \A i \in 1..Len(batch) : fate[batch[i]] # "taken"
    BY <1>7 DEF EndBatch, outside
  <2>2. \A m \in Msgs : fate[m] # "taken"
    BY <2>1 DEF Flow, Elems
  <2>3. ASSUME FlushMsg \in Elems(batch)
        PROVE  /\ fate[FlushMsg] \in {"kept", "failed"}
               /\ \A m \in owed : fate[m] \in {"kept", "failed"}
    <3>1. fate[FlushMsg] \in {"kept", "failed"}
      BY <1>0, <2>2, <2>3 DEF Flow, Elems
    <3>2. QED  BY <1>0, <2>2, <3>1 DEF Barrier
  <2>4. QED  BY <2>1, <2>3 DEF Barrier
<1>8. CASE Exit
  <2>1. /\ worker' = "exited" /\ queue' = <<>> /\ batch = <<>> /\ worker # "exited"
        /\ fate' = [m \in Msgs |-> IF m \in Elems(queue) THEN "lost" ELSE fate[m]]
        /\ UNCHANGED <<owed, replied>>
    BY <1>8 DEF Exit, outside, Flow
  <2>2. \A m \in Msgs : fate'[m] = IF fate[m] = "queued" THEN "lost" ELSE fate[m]
    BY <1>0, <2>1 DEF Flow, Placement, Elems
  <2>3. Len(queue') = 0  BY <2>1
  <2>4. fate[FlushMsg] # "lost"  BY <1>0, <2>1 DEF Flow
  <2>5. CASE fate[FlushMsg] = "queued"
    <3>1. fate'[FlushMsg] = "lost" /\ ~replied  BY <1>0, <2>2, <2>5 DEF Barrier
    <3>2. QED  BY <2>1, <3>1 DEF Barrier
  <2>6. CASE fate[FlushMsg] # "queued"
    <3>1. \A m \in owed : m \in Msgs /\ fate'[m] = fate[m]
      BY <1>0, <2>2, <2>4, <2>6 DEF Barrier, Fates
    <3>2. fate'[FlushMsg] = fate[FlushMsg]  BY <1>0, <2>2, <2>6
    <3>3. QED  BY <2>1, <2>3, <2>6, <3>1, <3>2 DEF Barrier
  <2>7. QED  BY <2>5, <2>6
<1>9. QED
  <2>1. Calm => UNCHANGED <<queue, fate, owed, replied>>  BY DEF Calm
  <2>2. QED
    BY <1>1, <1>2, <1>3, <1>4, <1>5, <1>6, <1>7, <1>8, <2>1 DEF Move

-----------------------------------------------------------------------------
(* The depth: in_flight, modulo the width of its counter.                  *)

\* Division with remainder.
LEMMA Quotient ==
  ASSUME NEW x \in Int
  PROVE  \E q \in Int : x = (q * Wrap) + (x % Wrap)
<1>1. x = ((x \div Wrap) * Wrap) + (x % Wrap) /\ x \div Wrap \in Int  OBVIOUS
<1>2. QED  BY <1>1

\* The remainder is the only one.
LEMMA UniqueRemainder ==
  ASSUME NEW q \in Int, NEW p \in Int, NEW a \in 0..Wrap-1, NEW b \in 0..Wrap-1,
         (q * Wrap) + a = (p * Wrap) + b
  PROVE  a = b
OBVIOUS

\* A number the counter can hold is its own remainder.
LEMMA SmallRemainder == ASSUME NEW x \in 0..Wrap-1 PROVE x % Wrap = x
OBVIOUS

\* Wrapping at each addition, or once at the end, is the same.
LEMMA WrappedSum ==
  ASSUME NEW x \in Int, NEW k \in Int
  PROVE  ((x % Wrap) + k) % Wrap = (x + k) % Wrap
<1> DEFINE r == x % Wrap
           u == (r + k) % Wrap
           s == (x + k) % Wrap
<1>1. r \in 0..Wrap-1  BY Wrapped
<1>2. r + k \in Int /\ x + k \in Int  BY <1>1
<1>3. u \in 0..Wrap-1 /\ s \in 0..Wrap-1  BY <1>2, Wrapped
<1>4. PICK q \in Int : x = (q * Wrap) + r  BY Quotient
<1>5. PICK t \in Int : r + k = (t * Wrap) + u  BY <1>2, Quotient
<1>6. PICK p \in Int : x + k = (p * Wrap) + s  BY <1>2, Quotient
<1> HIDE DEF r, u, s
<1>7. ((q + t) * Wrap) + u = (p * Wrap) + s
  <2>1. (q + t) * Wrap = (q * Wrap) + (t * Wrap)  OBVIOUS
  <2>2. q * Wrap \in Int /\ t * Wrap \in Int /\ p * Wrap \in Int  OBVIOUS
  <2>3. QED  BY <1>1, <1>3, <1>4, <1>5, <1>6, <2>1, <2>2
<1>8. u = s  BY <1>3, <1>7, UniqueRemainder
<1>9. QED  BY <1>8 DEF r, u, s

\* Only what the channel held when the worker went is lost.
LostFew == Cardinality(With("lost")) <= QueueCapacity

\* A sequence has no more elements than places.
LEMMA ElemsCount ==
  ASSUME NEW s \in Seq(Msgs)
  PROVE  Cardinality(Elems(s)) <= Len(s)
<1> DEFINE f == [i \in 1..Len(s) |-> s[i]]
<1>1. Len(s) \in Nat  OBVIOUS
<1>2. f \in [1..Len(s) -> Elems(s)]  BY DEF Elems
<1>3. \A m \in Elems(s) : \E i \in 1..Len(s) : f[i] = m  BY DEF Elems
<1>4. f \in Surjection(1..Len(s), Elems(s))
  BY <1>2, <1>3 DEF Surjection
<1>5. ExistsSurjection(1..Len(s), Elems(s))  BY <1>4 DEF ExistsSurjection
<1>6. QED  BY <1>1, <1>5, FS_SurjCardinalityBound

\* Sets of messages whose sizes are numbers.
LEMMA DepthSets ==
  /\ Announced \in SUBSET Msgs /\ Released \in SUBSET Msgs
  /\ Cardinality(Announced) \in Nat /\ Cardinality(Released) \in Nat
<1>1. Announced \in SUBSET Msgs /\ Released \in SUBSET Msgs
  BY DEF Announced, Released, Counted, Msgs
<1>2. QED  BY <1>1, MsgsCount

\* Every step keeps in_flight equal to what was announced less what was released.
LEMMA DepthStep == TypeOK /\ Placement /\ Flow /\ Depth /\ [Next]_vars => Depth'
<1> SUFFICES ASSUME TypeOK, Placement, Flow, Depth, Move PROVE Depth'
  BY Moves
<1>0. /\ queue \in Seq(Msgs) /\ batch \in Seq(Msgs) /\ fate \in [Msgs -> Fates]
      /\ call \in [Msgs -> {"idle", "sent", "counted", "refused", "done"}]
      /\ \A m \in Counted : m \in Msgs
  BY DEF TypeOK, Counted, Msgs
<1>1. ASSUME UNCHANGED inFlight, Announced' = Announced, Released' = Released
      PROVE  Depth'
  BY <1>1 DEF Depth
<1>2. \A m \in Msgs : call[m] \in {"idle", "refused"} => m \notin Announced
  BY DEF Announced
<1>3. CASE Calm /\ ~ \E m \in Msgs : CountInFlight(m)
  <2>1. /\ UNCHANGED <<inFlight, batch, fate>>
        /\ \A m \in Msgs : call'[m] # call[m] =>
             \/ call[m] = "refused" /\ call'[m] = "done"
             \/ call[m] = "sent" /\ call'[m] = "counted"
    BY <1>3 DEF Calm
  <2>2. \A m \in Msgs : call[m] = "refused" => fate[m] = "refused"  BY DEF Placement
  <2>3. Announced' = Announced  BY <1>0, <2>1, <2>2 DEF Announced
  <2>4. Released' = Released  BY <2>1 DEF Released
  <2>5. QED  BY <1>1, <2>1, <2>3, <2>4
<1>4. ASSUME NEW m \in Msgs, CountInFlight(m) PROVE Depth'
  <2>1. /\ m \in Counted /\ call[m] = "counted" /\ UNCHANGED <<batch, fate>>
        /\ inFlight' = (inFlight + 1) % Wrap /\ call' = [call EXCEPT ![m] = "done"]
    BY <1>4 DEF CountInFlight, loopVars
  <2>2. fate[m] # "refused"  BY <2>1 DEF Flow
  <2>3. Announced' = Announced \cup {m} /\ m \notin Announced
    BY <1>0, <2>1, <2>2 DEF Announced
  <2>4. Released' = Released  BY <2>1 DEF Released
  <2>5. Cardinality(Announced') = Cardinality(Announced) + 1
    BY <2>3, DepthSets, AddOne
  <2>6. Cardinality(Announced) - Cardinality(Released) \in Int  BY DepthSets
  <2>7. inFlight' = ((Cardinality(Announced) - Cardinality(Released)) + 1) % Wrap
    BY <2>1, <2>6, WrappedSum DEF Depth
  <2>8. (Cardinality(Announced) - Cardinality(Released)) + 1
          = (Cardinality(Announced) + 1) - Cardinality(Released)
    BY DepthSets
  <2>9. QED  BY <2>4, <2>5, <2>7, <2>8 DEF Depth
<1>5. ASSUME NEW m \in Msgs, NEW next \in {"sent", "counted", "done"},
             Enqueue(m, next), call[m] = "idle", m \in Counted => next # "done",
             UNCHANGED <<batch, inFlight>>
      PROVE  Depth'
  <2>1. /\ fate[m] = "new" /\ fate' = [fate EXCEPT ![m] = "queued"]
        /\ call' = [call EXCEPT ![m] = next]
    BY <1>5, EnqueueFacts
  <2>2. Announced' = Announced  BY <1>0, <1>5, <2>1 DEF Announced
  <2>3. Released' = Released  BY <1>0, <1>5, <2>1 DEF Released
  <2>4. QED  BY <1>1, <1>5, <2>2, <2>3
<1>6. ASSUME NEW m \in Msgs, NEW c \in {"refused", "done"}, call[m] = "idle",
             m \in Counted => c = "refused", fate' = [fate EXCEPT ![m] = "refused"],
             call' = [call EXCEPT ![m] = c], UNCHANGED <<batch, inFlight>>
      PROVE  Depth'
  <2>1. fate[m] = "new"  BY <1>6 DEF Placement
  <2>2. Announced' = Announced  BY <1>0, <1>6, <2>1 DEF Announced
  <2>3. Released' = Released  BY <1>0, <1>6, <2>1 DEF Released
  <2>4. QED  BY <1>1, <1>6, <2>2, <2>3
<1>7. CASE RecvFirst \/ Fill \/ TailDrain
  <2>1. PICK next \in {"fill", "tail"} : Receive(next)
    BY <1>7 DEF RecvFirst, Fill, TailDrain
  <2> DEFINE h == Head(queue)
  <2>2. /\ h \in Msgs /\ fate[h] = "queued" /\ Elems(batch') = Elems(batch) \cup {h}
        /\ fate' = [fate EXCEPT ![h] = "taken"] /\ UNCHANGED <<call, inFlight>>
    BY <2>1, ReceiveFacts
  <2>3. \A n \in Msgs : fate'[n] = IF n = h THEN "taken" ELSE fate[n]
    BY <1>0, <2>2
  <2>4. Announced' = Announced  BY <1>0, <2>2, <2>3 DEF Announced
  <2>5. Released' = Released  BY <1>0, <2>2, <2>3 DEF Released
  <2>6. QED  BY <1>1, <2>2, <2>4, <2>5
<1>8. ASSUME UNCHANGED <<call, batch, inFlight>>,
             \A m \in Msgs : \/ fate'[m] = fate[m]
                             \/ m \in Elems(batch) /\ fate[m] = "taken" /\ fate'[m] \in {"kept", "failed"}
      PROVE  Depth'
  <2>1. Announced' = Announced  BY <1>0, <1>8 DEF Announced
  <2>2. Released' = Released  BY <1>0, <1>8 DEF Released
  <2>3. QED  BY <1>1, <1>8, <2>1, <2>2
<1>9. CASE Persist
  <2>1. PICK i \in 1..Len(batch) : BumpCounter(i) \/ PersistOne(i)
    BY <1>9 DEF Persist
  <2>2. /\ batch[i] \in Msgs /\ fate[batch[i]] = "taken" /\ batch[i] \in Elems(batch)
        /\ UNCHANGED <<call, batch, inFlight>>
        /\ \E f \in {"kept", "failed"} : fate' = [fate EXCEPT ![batch[i]] = f]
    BY <2>1, PersistFacts
  <2>3. \A n \in Msgs : \/ fate'[n] = fate[n]
                        \/ n \in Elems(batch) /\ fate[n] = "taken" /\ fate'[n] \in {"kept", "failed"}
    BY <1>0, <2>2
  <2>4. QED  BY <1>8, <2>2, <2>3
<1>10. CASE EndBatch
  <2> DEFINE B == Elems(batch) \cap Counted
  <2>1. /\ inFlight' = (inFlight - Cardinality(B)) % Wrap
        /\ batch' = <<>> /\ UNCHANGED <<call, fate>>
        /\ \A i \in 1..Len(batch) : fate[batch[i]] # "taken"
    BY <1>10 DEF EndBatch, outside
  <2>2. \A m \in Elems(batch) : m \in Msgs /\ fate[m] \in {"kept", "failed"}
    BY <1>0, <2>1 DEF Flow, Elems
  <2>3. Elems(batch') = {}  BY <2>1 DEF Elems
  <2>4. Announced' = Announced  BY <2>1 DEF Announced
  <2>5. Released' = Released \cup B /\ Released \cap B = {}
    BY <2>1, <2>2, <2>3 DEF Released
  <2>6. B \in SUBSET Msgs /\ Cardinality(B) \in Nat  BY <2>2, MsgsCount
  <2> HIDE DEF B
  <2>7. Cardinality(Released') = Cardinality(Released) + Cardinality(B)
    BY <2>5, <2>6, DepthSets, DisjointCount
  <2>8. Cardinality(Announced) - Cardinality(Released) \in Int /\ -Cardinality(B) \in Int
    BY <2>6, DepthSets
  <2>9. inFlight' = ((Cardinality(Announced) - Cardinality(Released)) + (-Cardinality(B))) % Wrap
    <3>1. inFlight \in Int  BY DEF TypeOK
    <3>2. inFlight - Cardinality(B) = inFlight + (-Cardinality(B))  BY <2>6, <3>1
    <3>3. QED  BY <2>1, <2>8, <3>2, WrappedSum DEF Depth
  <2>10. (Cardinality(Announced) - Cardinality(Released)) + (-Cardinality(B))
           = Cardinality(Announced) - (Cardinality(Released) + Cardinality(B))
    BY <2>6, DepthSets
  <2>11. QED  BY <2>4, <2>7, <2>9, <2>10 DEF Depth
<1>11. CASE Exit
  <2>1. /\ fate' = [m \in Msgs |-> IF m \in Elems(queue) THEN "lost" ELSE fate[m]]
        /\ UNCHANGED <<call, batch, inFlight>>
    BY <1>11 DEF Exit, outside
  <2>2. \A m \in Msgs : \/ fate'[m] = fate[m]
                        \/ fate[m] = "queued" /\ fate'[m] = "lost"
    BY <1>0, <2>1 DEF Placement, Elems
  <2>3. Announced' = Announced  BY <1>0, <2>1, <2>2 DEF Announced
  <2>4. Released' = Released  BY <1>0, <2>1, <2>2 DEF Released
  <2>5. QED  BY <1>1, <2>1, <2>3, <2>4
<1>12. CASE ClassifyOpened \/ ClassifyUnopened
  BY <1>8, <1>12, ClassifyFacts
<1>13. QED
  BY <1>3, <1>4, <1>5, <1>6, <1>7, <1>9, <1>10, <1>11, <1>12 DEF Move

\* The worker loses at most a full channel, once.
LEMMA LostStep == TypeOK /\ Placement /\ Flow /\ LostFew /\ [Next]_vars => LostFew'
<1> SUFFICES ASSUME TypeOK, Placement, Flow, LostFew, Move PROVE LostFew'
  BY Moves
<1>0. /\ queue \in Seq(Msgs) /\ batch \in Seq(Msgs) /\ fate \in [Msgs -> Fates]
  BY DEF TypeOK
<1>1. ASSUME \A m \in Msgs : (fate'[m] = "lost") <=> (fate[m] = "lost") PROVE LostFew'
  <2>1. With("lost")' = With("lost")  BY <1>1 DEF With
  <2>2. QED  BY <2>1 DEF LostFew
<1>2. CASE Calm  BY <1>1, <1>2 DEF Calm
<1>3. ASSUME NEW m \in Msgs, NEW f \in {"queued", "refused"}, call[m] = "idle",
             fate' = [fate EXCEPT ![m] = f]
      PROVE  LostFew'
  BY <1>0, <1>1, <1>3 DEF Placement
<1>4. CASE RecvFirst \/ Fill \/ TailDrain
  <2>1. PICK next \in {"fill", "tail"} : Receive(next)
    BY <1>4 DEF RecvFirst, Fill, TailDrain
  <2>2. /\ Head(queue) \in Msgs /\ fate[Head(queue)] = "queued"
        /\ fate' = [fate EXCEPT ![Head(queue)] = "taken"]
    BY <2>1, ReceiveFacts
  <2>3. QED  BY <1>0, <1>1, <2>2
<1>5. CASE ClassifyOpened \/ ClassifyUnopened
  <2>1. \A m \in Msgs : \/ fate'[m] = fate[m]
                        \/ fate[m] = "taken" /\ fate'[m] \in {"kept", "failed"}
    BY <1>5, ClassifyFacts
  <2>2. QED  BY <1>1, <2>1
<1>6. CASE Persist
  <2>1. PICK i \in 1..Len(batch) : BumpCounter(i) \/ PersistOne(i)
    BY <1>6 DEF Persist
  <2>2. /\ batch[i] \in Msgs /\ fate[batch[i]] = "taken"
        /\ \E f \in {"kept", "failed"} : fate' = [fate EXCEPT ![batch[i]] = f]
    BY <2>1, PersistFacts
  <2>3. QED  BY <1>0, <1>1, <2>2
<1>7. CASE EndBatch
  BY <1>1, <1>7 DEF EndBatch
<1>8. CASE Exit
  <2>1. /\ worker # "exited" /\ Len(queue) <= QueueCapacity
        /\ fate' = [m \in Msgs |-> IF m \in Elems(queue) THEN "lost" ELSE fate[m]]
    BY <1>8 DEF Exit, Flow
  <2>2. \A m \in Msgs : fate[m] # "lost"  BY <2>1 DEF Flow
  <2>3. With("lost")' = Elems(queue)
    BY <1>0, <2>1, <2>2, ElemsOfSeq DEF With
  <2>4. Cardinality(Elems(queue)) <= Len(queue) /\ Cardinality(Elems(queue)) \in Nat
        /\ Len(queue) \in Nat
    BY <1>0, ElemsCount, ElemsOfSeq, MsgsCount
  <2>5. QED  BY <2>1, <2>3, <2>4 DEF LostFew
<1>9. QED
  <2>1. ASSUME NEW m \in Msgs, NEW next \in {"sent", "counted", "done"},
               Enqueue(m, next), call[m] = "idle"
        PROVE  LostFew'
    BY <1>3, <2>1 DEF Enqueue
  <2>2. QED
    BY <1>2, <1>3, <1>4, <1>5, <1>6, <1>7, <1>8, <2>1 DEF Move

\* When nothing is under way, what was announced and not released is what the channel
\* holds or has lost.
LEMMA QuietDepth ==
  ASSUME TypeOK, Placement, Flow, Depth, LostFew
  PROVE  DepthExactWhenQuiet
<1> SUFFICES ASSUME batch = <<>>, \A m \in Counted : call[m] \in {"idle", "refused", "done"}
             PROVE  inFlight = Cardinality((Elems(queue) \cap Counted) \cup (With("lost") \cap Counted))
  BY DEF DepthExactWhenQuiet
<1> DEFINE D == (Elems(queue) \cap Counted) \cup (With("lost") \cap Counted)
<1>0. /\ queue \in Seq(Msgs) /\ fate \in [Msgs -> Fates] /\ Elems(batch) = {}
      /\ call \in [Msgs -> {"idle", "sent", "counted", "refused", "done"}]
      /\ \A m \in Counted : m \in Msgs
  BY DEF TypeOK, Elems, Counted, Msgs
<1>1. Elems(queue) \subseteq Msgs  BY <1>0, ElemsOfSeq
<1>2. Announced = {m \in Counted : fate[m] \in {"queued", "kept", "failed", "lost"}}
  BY <1>0 DEF Announced, Placement, Flow, Fates
<1>3. Released = {m \in Counted : fate[m] \in {"kept", "failed"}}
  BY <1>0 DEF Released
<1>4. D = {m \in Counted : fate[m] \in {"queued", "lost"}}
  BY <1>0, <1>1 DEF Flow, Placement, Elems, With
<1>5. Announced = Released \cup D /\ Released \cap D = {} /\ D \in SUBSET Msgs
  <2> HIDE DEF D
  <2>1. QED  BY <1>0, <1>2, <1>3, <1>4
<1>6. Cardinality(D) \in 0..Wrap-1
  <2>1. D \subseteq Elems(queue) \/ D \subseteq With("lost")
    <3>1. CASE worker = "exited"
      BY <1>0, <3>1 DEF Flow, Elems
    <3>2. CASE worker # "exited"
      BY <1>0, <3>2 DEF Flow, With
    <3>3. QED  BY <3>1, <3>2
  <2>2. /\ Elems(queue) \in SUBSET Msgs /\ With("lost") \in SUBSET Msgs
        /\ Cardinality(Elems(queue)) <= QueueCapacity
        /\ Cardinality(With("lost")) <= QueueCapacity
    <3>1. Cardinality(Elems(queue)) <= Len(queue) /\ Len(queue) <= QueueCapacity
      BY <1>0, ElemsCount DEF Flow
    <3>2. Cardinality(Elems(queue)) \in Nat /\ Len(queue) \in Nat
      BY <1>0, <1>1, MsgsCount
    <3>3. QED  BY <1>1, <3>1, <3>2 DEF With, LostFew
  <2> HIDE DEF D
  <2>3. PICK S \in SUBSET Msgs : D \subseteq S /\ Cardinality(S) <= QueueCapacity
    BY <2>1, <2>2
  <2>4. Cardinality(D) <= Cardinality(S) /\ Cardinality(S) \in Nat /\ Cardinality(D) \in Nat
    BY <1>5, <2>3, MsgsCount, FS_Subset
  <2>5. QED  BY <2>3, <2>4
<1> HIDE DEF D
<1>7. Cardinality(Announced) = Cardinality(Released) + Cardinality(D)
  BY <1>5, DepthSets, DisjointCount
<1>8. Cardinality(Announced) - Cardinality(Released) = Cardinality(D)
  BY <1>6, <1>7, DepthSets
<1>9. inFlight = Cardinality(D) % Wrap  BY <1>8 DEF Depth
<1>10. inFlight = Cardinality(D)  BY <1>6, <1>9, SmallRemainder
<1>11. QED  BY <1>10 DEF D

-----------------------------------------------------------------------------
\* The invariant of the writer's order, its flush and its depth.
OrderInv == TypeOK /\ Placement /\ Flow /\ TailReach /\ Barrier /\ Depth /\ LostFew

\* Everything the writer is held to in one induction.
THEOREM OrderCorrect == Spec => []OrderInv
<1>1. Init => OrderInv
  <2> SUFFICES ASSUME Init PROVE OrderInv
    OBVIOUS
  <2>1. TypeOK  BY TypeCorrectInit
  <2>2. Placement  BY DEF Init, Placement, Msgs
  <2>3. /\ queue = <<>> /\ batch = <<>> /\ owed = {} /\ late = {} /\ ~inTail /\ ~replied
        /\ worker \in {"recv", "exited"} /\ inFlight = 0
        /\ \A m \in Msgs : fate[m] = "new" /\ call[m] = "idle"
    BY DEF Init
  <2>4. Len(queue) = 0 /\ Len(batch) = 0 /\ Elems(queue) = {}  BY <2>3 DEF Elems
  <2>5. Flow  BY <2>3, <2>4 DEF Flow
  <2>6. TailReach  BY <2>3, <2>4 DEF TailReach
  <2>7. FlushMsg \in Msgs  BY DEF Msgs
  <2>8. Barrier  BY <2>3, <2>4, <2>7 DEF Barrier
  <2>9. Announced = {} /\ Released = {} /\ With("lost") = {}
    BY <2>3 DEF Announced, Released, With, Counted, Msgs
  <2>10. Cardinality(Announced) = 0 /\ Cardinality(Released) = 0 /\ Cardinality(With("lost")) = 0
    BY <2>9, FS_EmptySet
  <2>11. Depth /\ LostFew
    <3>1. 0 \in 0..Wrap-1 /\ Cardinality(Announced) - Cardinality(Released) = 0
      BY <2>10
    <3>2. QED  BY <2>3, <2>10, <3>1, SmallRemainder DEF Depth, LostFew
  <2>12. QED  BY <2>1, <2>2, <2>5, <2>6, <2>8, <2>11 DEF OrderInv
<1>2. OrderInv /\ [Next]_vars => OrderInv'
  BY TypeStep, PlacementStep, FlowStep, TailStep, BarrierStep, DepthStep, LostStep DEF OrderInv
<1>3. QED  BY <1>1, <1>2, PTL DEF Spec

\* A flush that is answered has waited for everything: whatever the channel or the
\* worker held when the Flush was sent has been persisted, or counted as failed,
\* before the reply, for every queue length and batch size.
THEOREM FlushCorrect == Spec => []FlushIsBarrier
<1>1. OrderInv => FlushIsBarrier
  BY DEF OrderInv, Barrier, FlushIsBarrier, Settled
<1>2. QED  BY <1>1, OrderCorrect, PTL

\* The depth the control plane reports is exact whenever no call and no batch is under
\* way, however often the counter has wrapped in between: it needs only to be wide
\* enough for a full channel.
THEOREM DepthCorrect == Spec => []DepthExactWhenQuiet
<1>1. OrderInv => DepthExactWhenQuiet
  BY QuietDepth DEF OrderInv
<1>2. QED  BY <1>1, OrderCorrect, PTL

-----------------------------------------------------------------------------
(* The refinement of ObservationSink.                                      *)

\* The line is the batch followed by the channel.
LEMMA LineFacts ==
  ASSUME TypeOK
  PROVE  /\ Line \in Seq(Msgs) /\ Len(batch) \in Nat /\ Len(queue) \in Nat
         /\ Len(Line) = Len(batch) + Len(queue)
         /\ \A i \in 1..Len(batch) : Line[i] = batch[i]
         /\ \A i \in 1..Len(queue) : Line[Len(batch) + i] = queue[i]
         /\ \A i \in 1..Len(Line) : i \in 1..Len(batch) \/ i - Len(batch) \in 1..Len(queue)
<1>1. batch \in Seq(Msgs) /\ queue \in Seq(Msgs)  BY DEF TypeOK
<1>2. /\ batch \o queue \in Seq(Msgs) /\ Len(batch \o queue) = Len(batch) + Len(queue)
      /\ \A i \in 1..Len(batch) : (batch \o queue)[i] = batch[i]
      /\ \A i \in 1..Len(queue) : (batch \o queue)[Len(batch) + i] = queue[i]
  BY <1>1
<1>3. Len(batch) \in Nat /\ Len(queue) \in Nat  BY <1>1
<1>4. QED  BY <1>2, <1>3 DEF Line

\* A message stands once in the line; the unsettled ones all stand there, and nothing new does.
LEMMA LineOnce ==
  ASSUME TypeOK, Placement, Flow
  PROVE  /\ \A i, j \in 1..Len(Line) : Line[i] = Line[j] => i = j
         /\ \A r \in Records : Unsettled(r) => \E i \in 1..Len(Line) : Line[i] = r
         /\ \A i \in 1..Len(Line) : Line[i] \in Msgs /\ fate[Line[i]] # "new"
<1>0. batch \in Seq(Msgs) /\ queue \in Seq(Msgs)  BY DEF TypeOK
<1>1. \A i \in 1..Len(batch), j \in 1..Len(queue) : batch[i] # queue[j]
  BY DEF Placement, Flow
<1>2. \A i, j \in 1..Len(batch) : batch[i] = batch[j] => i = j  BY DEF Flow
<1>3. \A i, j \in 1..Len(queue) : queue[i] = queue[j] => i = j  BY DEF Placement
<1>4. ASSUME NEW i \in 1..Len(Line), NEW j \in 1..Len(Line), Line[i] = Line[j]
      PROVE  i = j
  <2>1. CASE i \in 1..Len(batch) /\ j \in 1..Len(batch)
    BY <1>2, <1>4, <2>1, LineFacts
  <2>2. CASE i \in 1..Len(batch) /\ j - Len(batch) \in 1..Len(queue)
    <3>1. Line[j] = queue[j - Len(batch)]
      <4>1. Len(batch) + (j - Len(batch)) = j  BY LineFacts
      <4>2. QED  BY <2>2, <4>1, LineFacts
    <3>2. QED  BY <1>1, <1>4, <2>2, <3>1, LineFacts
  <2>3. CASE j \in 1..Len(batch) /\ i - Len(batch) \in 1..Len(queue)
    <3>1. Line[i] = queue[i - Len(batch)]
      <4>1. Len(batch) + (i - Len(batch)) = i  BY LineFacts
      <4>2. QED  BY <2>3, <4>1, LineFacts
    <3>2. QED  BY <1>1, <1>4, <2>3, <3>1, LineFacts
  <2>4. CASE i - Len(batch) \in 1..Len(queue) /\ j - Len(batch) \in 1..Len(queue)
    <3>1. Line[i] = queue[i - Len(batch)] /\ Line[j] = queue[j - Len(batch)]
      <4>1. Len(batch) + (i - Len(batch)) = i /\ Len(batch) + (j - Len(batch)) = j
        BY LineFacts
      <4>2. QED  BY <2>4, <4>1, LineFacts
    <3>2. i - Len(batch) = j - Len(batch)  BY <1>3, <1>4, <2>4, <3>1
    <3>3. QED  BY <3>2, LineFacts
  <2>5. QED  BY <2>1, <2>2, <2>3, <2>4, LineFacts
<1>5. ASSUME NEW r \in Records, Unsettled(r) PROVE \E i \in 1..Len(Line) : Line[i] = r
  <2>1. r \in Msgs  BY DEF Msgs
  <2>2. CASE fate[r] = "taken"
    <3>1. PICK i \in 1..Len(batch) : batch[i] = r  BY <2>1, <2>2 DEF Flow, Elems
    <3>2. i \in 1..Len(Line)  BY LineFacts
    <3>3. QED  BY <3>1, <3>2, LineFacts
  <2>3. CASE fate[r] = "queued"
    <3>1. PICK i \in 1..Len(queue) : queue[i] = r  BY <2>1, <2>3 DEF Flow, Elems
    <3>2. Len(batch) + i \in 1..Len(Line)  BY LineFacts
    <3>3. QED  BY <3>1, <3>2, LineFacts
  <2>4. QED  BY <1>5, <2>2, <2>3 DEF Unsettled
<1>6. ASSUME NEW i \in 1..Len(Line) PROVE Line[i] \in Msgs /\ fate[Line[i]] # "new"
  <2>1. CASE i \in 1..Len(batch)
    BY <1>0, <2>1, LineFacts DEF Flow
  <2>2. CASE i - Len(batch) \in 1..Len(queue)
    <3>1. Line[i] = queue[i - Len(batch)]
      <4>1. Len(batch) + (i - Len(batch)) = i  BY LineFacts
      <4>2. QED  BY <2>2, <4>1, LineFacts
    <3>2. QED  BY <1>0, <2>2, <3>1 DEF Placement
  <2>3. QED  BY <2>1, <2>2, LineFacts
<1>7. QED  BY <1>4, <1>5, <1>6

\* A message that enters the channel joins the line at its end.
LEMMA LineGrows ==
  ASSUME TypeOK, NEW m \in Msgs, queue' = Append(queue, m), UNCHANGED batch
  PROVE  Line' = Append(Line, m)
<1>1. batch \in Seq(Msgs) /\ queue \in Seq(Msgs)  BY DEF TypeOK
<1>2. batch \o Append(queue, m) = Append(batch \o queue, m)
  BY <1>1
<1>3. QED  BY <1>2 DEF Line

\* Receiving a message moves it along the line.
LEMMA LineKept ==
  ASSUME TypeOK, queue # <<>>, queue' = Tail(queue), batch' = Append(batch, Head(queue))
  PROVE  Line' = Line
<1>1. batch \in Seq(Msgs) /\ queue \in Seq(Msgs)  BY DEF TypeOK
<1>2. Append(batch, Head(queue)) \o Tail(queue) = batch \o queue
  <2> DEFINE h == <<Head(queue)>>
  <2>1. Head(queue) \in Msgs /\ Tail(queue) \in Seq(Msgs) /\ h \in Seq(Msgs)
    BY <1>1, HeadTailProperties
  <2>2. h \o Tail(queue) \in Seq(Msgs) /\ Len(h \o Tail(queue)) = Len(queue)
        /\ \A i \in 1..Len(h \o Tail(queue)) : (h \o Tail(queue))[i] = queue[i]
    BY <1>1, <2>1
  <2>3. h \o Tail(queue) = queue  BY <1>1, <2>2, SeqEqual
  <2>4. Append(batch, Head(queue)) = batch \o h  BY <1>1, <2>1, AppendIsConcat
  <2>5. (batch \o h) \o Tail(queue) = batch \o (h \o Tail(queue))
    BY <1>1, <2>1, ConcatAssociative
  <2>6. QED  BY <2>3, <2>4, <2>5
<1>3. QED  BY <1>2 DEF Line

\* The abstract step that settles the records of S.
LEMMA SettleMaps ==
  ASSUME TypeOK, NEW S \in SUBSET Records, \A r \in S : Unsettled(r),
         NEW f \in {"kept", "failed"}, f = "kept" => \E r \in S : S = {r},
         \A m \in Msgs : m \in Records => fate'[m] = IF m \in S THEN f ELSE fate[m],
         Line' = Line, UNCHANGED <<inTail, late>>,
         \A r \in S : AheadOf(r) \subseteq S
  PROVE  \E T \in SUBSET Sink!Accepted : Sink!Settle(T)
<1>0. \A r \in Records : r \in Msgs /\ fate'[r] = IF r \in S THEN f ELSE fate[r]
  BY DEF Msgs
<1>1. \A r \in Records : Outcome(fate[r])' = IF r \in S THEN Outcome(f) ELSE Outcome(fate[r])
  BY <1>0
<1>2. \A r \in Records : Unsettled(r)' <=> (Unsettled(r) /\ r \notin S)
  BY <1>0 DEF Unsettled
<1>3. \A r \in Records : AheadOf(r)' = IF r \in S THEN {} ELSE AheadOf(r) \ S
  BY <1>2 DEF AheadOf
<1>4. S \in SUBSET Sink!Accepted
  BY DEF Sink!Accepted, Unsettled, Outcome
<1>5. Outcome(f) = IF f = "kept" THEN "stored" ELSE "failed"
  BY DEF Outcome
<1>6. Sink!Give(S, "failed") \/ (Sink!Give(S, "stored") /\ \E r \in S : S = {r})
  BY <1>1, <1>5 DEF Sink!Give
<1>7. Sink!Forget(S)  BY <1>3 DEF Sink!Forget
<1>8. Sink!Settle(S)
  BY <1>6, <1>7 DEF Sink!Settle
<1>9. QED  BY <1>4, <1>8

\* A step that changes nothing the sink shows.
LEMMA SinkStutters ==
  ASSUME \A r \in Records : Outcome(fate[r])' = Outcome(fate[r]),
         \A r \in Records : AheadOf(r)' = AheadOf(r),
         UNCHANGED inTail, (late \cap Records)' = late \cap Records
  PROVE  UNCHANGED Sink!sinkVars
BY DEF Sink!sinkVars

\* The same records stand in the same order.
LEMMA SameAhead ==
  ASSUME Line' = Line, \A r \in Records : Unsettled(r)' <=> Unsettled(r)
  PROVE  \A r \in Records : AheadOf(r)' = AheadOf(r)
BY DEF AheadOf

\* What is neither a record nor settled may join the end of the line unseen.
LEMMA AheadAppend ==
  ASSUME TypeOK, Placement, Flow, NEW m \in Msgs, fate[m] = "new", Line' = Append(Line, m),
         fate' = [fate EXCEPT ![m] = "queued"]
  PROVE  /\ \A r \in Records : r # m => AheadOf(r)' = AheadOf(r)
         /\ m \in Records => AheadOf(m)' = {q \in Records : Unsettled(q)}
<1>1. /\ Len(Line') = Len(Line) + 1 /\ \A i \in 1..Len(Line) : Line'[i] = Line[i]
      /\ Line'[Len(Line) + 1] = m
      /\ \A i \in 1..Len(Line) + 1 : i \in 1..Len(Line) \/ i = Len(Line) + 1
      /\ Len(Line) \in Nat
  BY LineFacts, AppendPlaces
<1>2. \A r \in Records : r # m => (Unsettled(r)' <=> Unsettled(r))
  BY DEF Unsettled, TypeOK, Msgs
<1>3. \A i \in 1..Len(Line) : Line[i] # m  BY LineOnce
<1>4. ASSUME NEW r \in Records, r # m PROVE AheadOf(r)' = AheadOf(r)
  <2>1. ASSUME NEW q \in Records
        PROVE  (\E i, j \in 1..Len(Line') : i < j /\ Line'[i] = q /\ Line'[j] = r)
                 <=> (\E i, j \in 1..Len(Line) : i < j /\ Line[i] = q /\ Line[j] = r)
    <3>1. ASSUME NEW i \in 1..Len(Line'), NEW j \in 1..Len(Line'),
                 i < j, Line'[i] = q, Line'[j] = r
          PROVE  \E k, l \in 1..Len(Line) : k < l /\ Line[k] = q /\ Line[l] = r
      <4>1. j \in 1..Len(Line)  BY <1>1, <1>4, <3>1
      <4>2. i \in 1..Len(Line)  BY <1>1, <3>1, <4>1
      <4>3. QED  BY <1>1, <3>1, <4>1, <4>2
    <3>2. ASSUME NEW i \in 1..Len(Line), NEW j \in 1..Len(Line),
                 i < j, Line[i] = q, Line[j] = r
          PROVE  \E k, l \in 1..Len(Line') : k < l /\ Line'[k] = q /\ Line'[l] = r
      <4>1. i \in 1..Len(Line') /\ j \in 1..Len(Line')  BY <1>1
      <4>2. QED  BY <1>1, <3>2, <4>1
    <3>3. QED  BY <3>1, <3>2
  <2>2. ASSUME NEW q \in Records, Unsettled(q)' # Unsettled(q)
        PROVE  /\ q = m
               /\ ~ \E i, j \in 1..Len(Line) : i < j /\ Line[i] = q /\ Line[j] = r
    BY <1>2, <1>3, <2>2 DEF Unsettled
  <2>3. \A q \in Records : q \in AheadOf(r)' <=> q \in AheadOf(r)
    BY <1>2, <1>4, <2>1, <2>2 DEF AheadOf
  <2>4. QED  BY <2>3 DEF AheadOf
<1>5. ASSUME m \in Records PROVE AheadOf(m)' = {q \in Records : Unsettled(q)}
  <2>1. Unsettled(m)' /\ ~Unsettled(m)  BY <1>5 DEF Unsettled, TypeOK
  <2>2. ASSUME NEW q \in Records, Unsettled(q)
        PROVE  \E i, j \in 1..Len(Line') : i < j /\ Line'[i] = q /\ Line'[j] = m
    <3>1. PICK i \in 1..Len(Line) : Line[i] = q  BY <2>2, LineOnce
    <3>2. i \in 1..Len(Line') /\ Len(Line) + 1 \in 1..Len(Line') /\ i < Len(Line) + 1
      BY <1>1
    <3>3. QED  BY <1>1, <3>1, <3>2
  <2>3. ASSUME NEW q \in Records, NEW i \in 1..Len(Line'), NEW j \in 1..Len(Line'),
               i < j, Line'[i] = q, Line'[j] = m
        PROVE  q # m
    <3>1. j = Len(Line) + 1  BY <1>1, <1>3, <2>3
    <3>2. i \in 1..Len(Line)  BY <1>1, <2>3, <3>1
    <3>3. QED  BY <1>1, <1>3, <2>3, <3>2
  <2>4. \A q \in Records : q \in AheadOf(m)' <=> Unsettled(q)
    BY <1>2, <1>5, <2>1, <2>2, <2>3 DEF AheadOf
  <2>5. QED  BY <2>4 DEF AheadOf
<1>6. QED  BY <1>4, <1>5

\* The batch is done and leaves the line: what is left is in the same order.
LEMMA AheadEndBatch ==
  ASSUME TypeOK, Placement, Flow, EndBatch
  PROVE  \A r \in Records : AheadOf(r)' = AheadOf(r)
<1>1. /\ UNCHANGED <<queue, fate>> /\ batch' = <<>>
      /\ \A i \in 1..Len(batch) : fate[batch[i]] # "taken"
  BY DEF EndBatch, outside
<1>2. batch \in Seq(Msgs) /\ queue \in Seq(Msgs)  BY DEF TypeOK
<1>3. Line' = queue
  <2>1. <<>> \o queue = queue  BY <1>2, ConcatEmptySeq
  <2>2. QED  BY <1>1, <2>1 DEF Line
<1>4. \A i \in 1..Len(batch) : ~Unsettled(Line[i])
  <2>1. \A i \in 1..Len(batch) : Line[i] = batch[i]  BY LineFacts
  <2>2. QED  BY <1>1, <2>1 DEF Unsettled, Flow
<1>5. \A r \in Records : Unsettled(r)' <=> Unsettled(r)  BY <1>1 DEF Unsettled
<1>6. ASSUME NEW q \in Records, NEW r \in Records, Unsettled(q), Unsettled(r)
      PROVE  (\E i, j \in 1..Len(queue) : i < j /\ queue[i] = q /\ queue[j] = r)
               <=> (\E i, j \in 1..Len(Line) : i < j /\ Line[i] = q /\ Line[j] = r)
  <2>1. ASSUME NEW i \in 1..Len(queue), NEW j \in 1..Len(queue),
               i < j, queue[i] = q, queue[j] = r
        PROVE  \E k, l \in 1..Len(Line) : k < l /\ Line[k] = q /\ Line[l] = r
    <3>1. /\ Len(batch) + i \in 1..Len(Line) /\ Len(batch) + j \in 1..Len(Line)
          /\ Len(batch) + i < Len(batch) + j
      BY <2>1, LineFacts
    <3>2. Line[Len(batch) + i] = q /\ Line[Len(batch) + j] = r  BY <2>1, LineFacts
    <3>3. QED  BY <3>1, <3>2
  <2>2. ASSUME NEW i \in 1..Len(Line), NEW j \in 1..Len(Line),
               i < j, Line[i] = q, Line[j] = r
        PROVE  \E k, l \in 1..Len(queue) : k < l /\ queue[k] = q /\ queue[l] = r
    <3>1. i - Len(batch) \in 1..Len(queue) /\ j - Len(batch) \in 1..Len(queue)
      BY <1>4, <1>6, <2>2, LineFacts
    <3>2. /\ Len(batch) + (i - Len(batch)) = i /\ Len(batch) + (j - Len(batch)) = j
          /\ i - Len(batch) < j - Len(batch)
      BY <2>2, LineFacts
    <3>3. queue[i - Len(batch)] = q /\ queue[j - Len(batch)] = r
      BY <2>2, <3>1, <3>2, LineFacts
    <3>4. QED  BY <3>1, <3>2, <3>3
  <2>3. QED  BY <2>1, <2>2
<1>7. QED  BY <1>3, <1>5, <1>6 DEF AheadOf

\* One record, stored or failed: none that entered before it is still unsettled.
LEMMA PersistMaps ==
  ASSUME TypeOK, Placement, Flow, NEW i \in 1..Len(batch), PersistOne(i)
  PROVE  \E T \in SUBSET Sink!Accepted : Sink!Settle(T)
<1> DEFINE m == batch[i]
<1>1. /\ m \in Records /\ fate[m] = "taken" /\ UNCHANGED <<queue, batch, inTail, late>>
      /\ \A j \in 1..Len(batch) : fate[batch[j]] = "taken" /\ batch[j] \in Records => i <= j
  BY DEF PersistOne, Turn, persistFrame, outside
<1>2. PICK f \in {"kept", "failed"} : fate' = [fate EXCEPT ![m] = f]
  BY DEF PersistOne
<1>3. Line' = Line  BY <1>1 DEF Line
<1>4. i \in 1..Len(Line) /\ Line[i] = m  BY LineFacts
<1>5. AheadOf(m) \subseteq {m}
  <2>1. ASSUME NEW q \in AheadOf(m) PROVE FALSE
    <3>1. q \in Records /\ Unsettled(q)  BY <2>1 DEF AheadOf
    <3>2. PICK k \in 1..Len(Line), l \in 1..Len(Line) : k < l /\ Line[k] = q /\ Line[l] = m
      BY <2>1 DEF AheadOf
    <3>3. l = i  BY <1>4, <3>2, LineOnce
    <3>4. k \in 1..Len(batch) /\ batch[k] = q  BY <3>2, <3>3, LineFacts
    <3>5. fate[q] = "taken"  BY <3>1, <3>4 DEF Unsettled, Flow
    <3>6. i <= k  BY <1>1, <3>1, <3>4, <3>5
    <3>7. QED  BY <3>2, <3>3, <3>6, LineFacts
  <2>2. QED  BY <2>1
<1>6. \A n \in Msgs : n \in Records => fate'[n] = IF n \in {m} THEN f ELSE fate[n]
  BY <1>2 DEF TypeOK
<1>7. Unsettled(m)  BY <1>1 DEF Unsettled
<1> HIDE DEF m
<1>8. {m} \in SUBSET Records /\ \A r \in {m} : Unsettled(r) /\ AheadOf(r) \subseteq {m}
  BY <1>1, <1>5, <1>7
<1>9. \E r \in {m} : {m} = {r}  OBVIOUS
<1>10. QED  BY <1>1, <1>3, <1>6, <1>8, <1>9, SettleMaps

\* The store is away: all the records of the batch fail, and they are the oldest.
LEMMA UnopenedMaps ==
  ASSUME TypeOK, Placement, Flow, ClassifyUnopened
  PROVE  \E T \in SUBSET Sink!Accepted : Sink!Settle(T)
<1> DEFINE S == Elems(batch) \cap Records
<1>1. worker \in {"fill", "tail"} /\ UNCHANGED <<queue, batch, late, inTail>>
  BY ClassifyFacts
<1>2. \A i \in 1..Len(batch) : fate[batch[i]] = "taken"  BY <1>1 DEF Placement
<1>3. \A r \in S : Unsettled(r)  BY <1>2 DEF Unsettled, Elems
<1>4. \A m \in Msgs : m \in Records => fate'[m] = IF m \in S THEN "failed" ELSE fate[m]
  BY DEF ClassifyUnopened, Handled, Counted
<1>5. Line' = Line  BY <1>1 DEF Line
<1>6. \A r \in S : AheadOf(r) \subseteq S
  <2>1. SUFFICES ASSUME NEW r \in S, NEW q \in AheadOf(r) PROVE q \in S
    OBVIOUS
  <2>2. PICK j \in 1..Len(batch) : batch[j] = r  BY <2>1 DEF Elems
  <2>3. q \in Records  BY <2>1 DEF AheadOf
  <2>4. PICK k \in 1..Len(Line), l \in 1..Len(Line) : k < l /\ Line[k] = q /\ Line[l] = r
    BY <2>1 DEF AheadOf
  <2>5. j \in 1..Len(Line) /\ Line[j] = r  BY <2>2, LineFacts
  <2>6. l = j  BY <2>4, <2>5, LineOnce
  <2>7. k \in 1..Len(batch) /\ batch[k] = q  BY <2>4, <2>6, LineFacts
  <2>8. QED  BY <2>3, <2>7 DEF Elems
<1> HIDE DEF S
<1>7. S \in SUBSET Records  BY DEF S
<1>8. QED  BY <1>1, <1>3, <1>4, <1>5, <1>6, <1>7, SettleMaps

\* The worker returns: everything still accepted entered after it had left its loop.
LEMMA ExitMaps ==
  ASSUME TypeOK, Placement, Flow, TailReach, Exit
  PROVE  Sink!Discard
<1>1. /\ worker = "finished" /\ queue' = <<>> /\ batch = <<>> /\ UNCHANGED <<batch, inTail, late>>
      /\ fate' = [m \in Msgs |-> IF m \in Elems(queue) THEN "lost" ELSE fate[m]]
  BY DEF Exit, outside, Flow
<1>2. inTail /\ Elems(queue) \subseteq late  BY <1>1 DEF TailReach
<1>3. \A r \in Records : r \in Msgs /\ (Unsettled(r) <=> r \in Elems(queue))
  BY <1>1, ElemsOfSeq DEF Flow, Placement, Elems, Unsettled, Msgs, TypeOK
<1>4. Sink!Accepted = Elems(queue) \cap Records
  BY <1>3 DEF Sink!Accepted, Unsettled, Outcome, TypeOK, Fates
<1>5. \A r \in Records : Outcome(fate[r])' = IF r \in Sink!Accepted THEN "lost" ELSE Outcome(fate[r])
  BY <1>1, <1>3, <1>4 DEF Outcome
<1>6. \A r \in Records : ~Unsettled(r)'
  BY <1>1, <1>3 DEF Unsettled
<1>7. \A r \in Records : AheadOf(r)' = {}  BY <1>6 DEF AheadOf
<1>8. \A r \in Records : r \notin Sink!Accepted => AheadOf(r) = {}
  BY <1>3, <1>4 DEF AheadOf
<1>9. Sink!Forget(Sink!Accepted)
  <2> DEFINE A == Sink!Accepted
  <2>1. \A r \in Records : AheadOf(r)' = IF r \in A THEN {} ELSE AheadOf(r) \ A
    BY <1>7, <1>8
  <2>2. QED  BY <2>1 DEF Sink!Forget
<1>10. Sink!Give(Sink!Accepted, "lost")
  <2> DEFINE A == Sink!Accepted
  <2>1. \A r \in Records : Outcome(fate[r])' = IF r \in A THEN "lost" ELSE Outcome(fate[r])
    BY <1>5
  <2>2. QED  BY <2>1 DEF Sink!Give
<1>11. Sink!Accepted \subseteq late \cap Records  BY <1>2, <1>4
<1>12. QED  BY <1>1, <1>2, <1>9, <1>10, <1>11 DEF Sink!Discard

\* A message enters the channel.
LEMMA EnqueueMaps ==
  ASSUME TypeOK, Placement, Flow, NEW m \in Msgs, NEW next \in {"sent", "counted", "done"},
         Enqueue(m, next), call[m] = "idle", UNCHANGED <<batch, inTail>>
  PROVE  \/ \E r \in Records : Sink!Accept(r)
         \/ UNCHANGED Sink!sinkVars
<1>1. /\ fate[m] = "new" /\ queue' = Append(queue, m) /\ fate' = [fate EXCEPT ![m] = "queued"]
  BY EnqueueFacts
<1>2. late' = IF inTail THEN late \cup {m} ELSE late  BY DEF Enqueue
<1>3. Line' = Append(Line, m)  BY <1>1, LineGrows
<1>4. \A r \in Records : r \in Msgs /\ fate'[r] = IF r = m THEN "queued" ELSE fate[r]
  BY <1>1 DEF TypeOK, Msgs
<1>5. CASE m \notin Records
  <2>1. \A r \in Records : Outcome(fate[r])' = Outcome(fate[r])  BY <1>4, <1>5
  <2>2. \A r \in Records : AheadOf(r)' = AheadOf(r)
    BY <1>1, <1>3, <1>5, AheadAppend
  <2>3. (late \cap Records)' = late \cap Records  BY <1>2, <1>5
  <2>4. QED  BY <2>1, <2>2, <2>3, SinkStutters
<1>6. CASE m \in Records
  <2>1. Sink!Accepted = {q \in Records : Unsettled(q)}
    BY DEF Sink!Accepted, Unsettled, Outcome, TypeOK, Fates, Msgs
  <2>2. \A r \in Records : AheadOf(r)' = IF r = m THEN {q \in Records : Unsettled(q)} ELSE AheadOf(r)
    BY <1>1, <1>3, <1>6, AheadAppend
  <2>3. Outcome(fate[m]) = "none"  BY <1>1 DEF Outcome
  <2>4. \A r \in Records : Outcome(fate[r])' = IF r \in {m} THEN "accepted" ELSE Outcome(fate[r])
    BY <1>4 DEF Outcome
  <2>5. Sink!Give({m}, "accepted")  BY <2>4 DEF Sink!Give
  <2>6. (late \cap Records)' = IF inTail THEN (late \cap Records) \cup {m} ELSE late \cap Records
    BY <1>2, <1>6
  <2>7. [r \in Records |-> AheadOf(r)]' = [[r \in Records |-> AheadOf(r)] EXCEPT ![m] = Sink!Accepted]
    BY <2>1, <2>2
  <2>8. Sink!Accept(m)
    BY <1>6, <2>3, <2>5, <2>6, <2>7 DEF Sink!Accept
  <2>9. QED  BY <1>6, <2>8
<1>7. QED  BY <1>5, <1>6

\* A step that moves no record and keeps the line.
LEMMA CalmMaps ==
  ASSUME UNCHANGED <<queue, batch, inTail, late>>,
         \A r \in Records : fate'[r] = fate[r]
  PROVE  UNCHANGED Sink!sinkVars
<1>1. Line' = Line  BY DEF Line
<1>2. \A r \in Records : Unsettled(r)' <=> Unsettled(r)  BY DEF Unsettled
<1>3. \A r \in Records : Outcome(fate[r])' = Outcome(fate[r])  OBVIOUS
<1>4. QED  BY <1>1, <1>2, <1>3, SameAhead, SinkStutters

\* Every step of the writer is a step of the sink, or one that it does not show.
LEMMA SinkStep ==
  ASSUME TypeOK, Placement, Flow, TailReach, [Next]_vars
  PROVE  Sink!Next \/ UNCHANGED Sink!sinkVars
<1> SUFFICES ASSUME Move PROVE Sink!Next \/ UNCHANGED Sink!sinkVars
  BY Moves
<1>0. \A r \in Records : r \in Msgs  BY DEF Msgs
<1>1. CASE Calm /\ \/ UNCHANGED <<worker, inTail>>
                   \/ SeeStop \/ TailEmpty \/ Finish
  <2>1. UNCHANGED <<queue, batch, fate, late>>  BY <1>1 DEF Calm
  <2>2. CASE UNCHANGED inTail  BY <2>1, <2>2, CalmMaps
  <2>3. CASE SeeStop
    <3>1. ~inTail /\ inTail'  BY <2>3 DEF SeeStop, TailReach
    <3>2. \A r \in Records : AheadOf(r)' = AheadOf(r)
      BY <2>1, SameAhead DEF Line, Unsettled
    <3>3. Sink!BeginClosing
      BY <2>1, <2>3, <3>1, <3>2 DEF Sink!BeginClosing, SeeStop
    <3>4. QED  BY <3>3 DEF Sink!Next
  <2>4. QED  BY <1>1, <2>2, <2>3 DEF TailEmpty, Finish
<1>2. ASSUME NEW m \in Msgs, NEW next \in {"sent", "counted", "done"},
             Enqueue(m, next), call[m] = "idle", UNCHANGED <<batch, inTail>>
      PROVE  Sink!Next \/ UNCHANGED Sink!sinkVars
  BY <1>2, EnqueueMaps DEF Sink!Next
<1>3. ASSUME NEW m \in Msgs, call[m] = "idle", fate' = [fate EXCEPT ![m] = "refused"],
             UNCHANGED <<queue, batch, inTail, late>>
      PROVE  Sink!Next \/ UNCHANGED Sink!sinkVars
  <2>1. fate[m] = "new"  BY <1>3 DEF Placement
  <2>2. \A r \in Records : fate'[r] = IF r = m THEN "refused" ELSE fate[r]
    BY <1>0, <1>3 DEF TypeOK
  <2>3. CASE m \notin Records  BY <1>3, <2>2, <2>3, CalmMaps
  <2>4. CASE m \in Records
    <3>1. Outcome(fate[m]) = "none" /\ Outcome("refused") = "refused"  BY <2>1 DEF Outcome
    <3>2. \A r \in Records : Outcome(fate[r])' = IF r \in {m} THEN "refused" ELSE Outcome(fate[r])
      BY <2>2, <3>1
    <3>3. \A r \in Records : Unsettled(r)' <=> Unsettled(r)
      BY <2>1, <2>2 DEF Unsettled
    <3>4. \A r \in Records : AheadOf(r)' = AheadOf(r)
      BY <1>3, <3>3, SameAhead DEF Line
    <3>5. Sink!Refuse(m)
      BY <1>3, <2>4, <3>1, <3>2, <3>4 DEF Sink!Refuse, Sink!Give
    <3>6. QED  BY <2>4, <3>5 DEF Sink!Next
  <2>5. QED  BY <2>3, <2>4
<1>4. CASE RecvFirst \/ Fill \/ TailDrain
  <2>1. PICK next \in {"fill", "tail"} : Receive(next)
    BY <1>4 DEF RecvFirst, Fill, TailDrain
  <2> DEFINE h == Head(queue)
  <2>2. /\ h \in Msgs /\ fate[h] = "queued" /\ fate' = [fate EXCEPT ![h] = "taken"]
        /\ queue # <<>> /\ queue' = Tail(queue) /\ batch' = Append(batch, h)
        /\ UNCHANGED <<inTail, late>>
    BY <2>1, ReceiveFacts
  <2>3. Line' = Line  BY <2>2, LineKept
  <2>4. \A r \in Records : fate'[r] = IF r = h THEN "taken" ELSE fate[r]
    BY <1>0, <2>2 DEF TypeOK
  <2>5. \A r \in Records : Unsettled(r)' <=> Unsettled(r)
    BY <2>2, <2>4 DEF Unsettled
  <2>6. \A r \in Records : Outcome(fate[r])' = Outcome(fate[r])
    BY <2>2, <2>4 DEF Outcome
  <2>7. QED  BY <2>2, <2>3, <2>5, <2>6, SameAhead, SinkStutters
<1>5. CASE ClassifyOpened
  <2>1. \A r \in Records : fate'[r] = fate[r]
    BY <1>0, <1>5 DEF ClassifyOpened, Handled, Counted
  <2>2. UNCHANGED <<queue, batch, inTail, late>>  BY <1>5, ClassifyFacts
  <2>3. QED  BY <2>1, <2>2, CalmMaps
<1>6. CASE ClassifyUnopened
  BY <1>6, UnopenedMaps DEF Sink!Next
<1>7. CASE Persist
  <2>1. PICK i \in 1..Len(batch) : BumpCounter(i) \/ PersistOne(i)
    BY <1>7 DEF Persist
  <2>2. CASE PersistOne(i)  BY <2>2, PersistMaps DEF Sink!Next
  <2>3. CASE BumpCounter(i)
    <3>1. /\ batch[i] \in Msgs /\ batch[i] \notin Records
          /\ UNCHANGED <<queue, batch, inTail, late>>
          /\ \E f \in {"kept", "failed"} : fate' = [fate EXCEPT ![batch[i]] = f]
      BY <2>3, PersistFacts DEF BumpCounter
    <3>2. \A r \in Records : fate'[r] = fate[r]  BY <1>0, <3>1 DEF TypeOK
    <3>3. QED  BY <3>1, <3>2, CalmMaps
  <2>4. QED  BY <2>1, <2>2, <2>3
<1>8. CASE EndBatch
  <2>1. UNCHANGED <<fate, late>> /\ inTail' = (inTail \/ stopping)
    BY <1>8 DEF EndBatch, outside
  <2>2. \A r \in Records : AheadOf(r)' = AheadOf(r)  BY <1>8, AheadEndBatch
  <2>3. CASE inTail' = inTail  BY <2>1, <2>2, <2>3, SinkStutters
  <2>4. CASE inTail' # inTail
    <3>1. ~inTail /\ inTail'  BY <2>1, <2>4 DEF TypeOK
    <3>2. Sink!BeginClosing  BY <2>1, <2>2, <3>1 DEF Sink!BeginClosing, TypeOK
    <3>3. QED  BY <3>2 DEF Sink!Next
  <2>5. QED  BY <2>3, <2>4
<1>9. CASE Exit
  BY <1>9, ExitMaps DEF Sink!Next
<1>10. QED
  BY <1>1, <1>2, <1>3, <1>4, <1>5, <1>6, <1>7, <1>8, <1>9 DEF Move

\* The writer is an ObservationSink for every number of records, every capacity and
\* every batch size: records are settled in the order in which the channel accepted
\* them, and the worker leaves behind only what entered after it had left its loop.
THEOREM WriterImplementsSink == Spec => ImplementsSink
<1>1. Init => Sink!Init
  <2> SUFFICES ASSUME Init PROVE Sink!Init
    OBVIOUS
  <2>1. \A r \in Records : r \in Msgs /\ fate[r] = "new"  BY DEF Init, Msgs
  <2>2. \A r \in Records : Outcome(fate[r]) = "none" /\ AheadOf(r) = {}
    BY <2>1 DEF Outcome, AheadOf, Unsettled
  <2>3. inTail = FALSE /\ late \cap Records = {}  BY DEF Init
  <2>4. QED  BY <2>2, <2>3 DEF Sink!Init
<1>2. OrderInv /\ [Next]_vars => [Sink!Next]_Sink!sinkVars
  BY SinkStep DEF OrderInv
<1>3. QED  BY <1>1, <1>2, OrderCorrect, PTL DEF Spec, ImplementsSink, Sink!Spec
=============================================================================

------------------------- MODULE ObservedRun_proofs -------------------------
(***************************************************************************)
(* Theorems about ObservedRun and the two modules it composes, for any     *)
(* number of connections, any session lifetime and any interleaving of the *)
(* launcher, its proxy, the child, other commands and the monitor.  The    *)
(* argument about the teardown is Reach: wherever stop is, every live      *)
(* worker is one it still knows of.                                        *)
(***************************************************************************)
EXTENDS ObservedRun, FiniteSetTheorems, TLAPS

(***************************************************************************)
(* The proxy.                                                              *)
(***************************************************************************)
ProxyTypes ==
  /\ listener \in {"off", "listening", "pushing", "ended"}
  /\ shutdown \in BOOLEAN
  /\ worker \in [Conns -> Phases]
  /\ pushing \subseteq Conns /\ registry \subseteq Conns
  /\ client \in [Conns -> {"none", "open", "shut"}]
  /\ upstream \in [Conns -> {"none", "open", "shut"}] /\ slot \subseteq Conns
  /\ stop \in {"no", "flagged", "joined", "taken", "stopped"}
  /\ closing \subseteq Conns /\ joining \subseteq Conns
  /\ channel \in 0..ChannelCap /\ writer \in {"off", "running", "ended"}

\* A place is held by every live worker and, once spawn has panicked, by the connection it
\* was for, which is over.
Counted ==
  \/ active = Cardinality(Live)
  \/ /\ listener = "ended" /\ active = Cardinality(Live) + 1
     /\ \E c \in Conns : worker[c] = "over"

\* Who teardown has to deal with at each of its steps.
Reach ==
  /\ pushing # {} => listener = "pushing"
  /\ stop \in {"no", "flagged"} => Live \subseteq registry \cup pushing
  /\ stop = "joined" => listener = "ended" /\ Live \subseteq registry
  /\ stop = "taken" => listener = "ended" /\ Live \subseteq joining
  /\ stop = "stopped" => listener \in {"off", "ended"} /\ Live = {}

\* Without a writer nothing is queued.
Drained == writer # "running" => channel = 0

ProxyInv == ProxyTypes /\ Counted /\ Reach /\ Drained

\* What a step of the proxy's threads does not take back.
Onward ==
  /\ listener' = "off" <=> listener = "off"
  /\ stop = "stopped" => stop' = "stopped"
  /\ writer = "ended" => writer' = "ended"

LEMMA LiveFinite ==
  Live \subseteq Conns /\ IsFiniteSet(Live) /\ Cardinality(Live) \in Nat
  /\ Cardinality(Live) <= Cardinality(Conns) /\ Cardinality(Conns) \in Nat
<1>1. Live \subseteq Conns
  BY DEF Live
<1>2. QED
  BY <1>1, ProxyAssumption, FS_Subset, FS_CardinalityType

\* The cap is never overrun by more than there are connections.
LEMMA CountedType ==
  ASSUME ProxyTypes, Counted
  PROVE  ProxyTypeOK
<1>1. CASE active = Cardinality(Live)
  BY <1>1, LiveFinite DEF ProxyTypes, ProxyTypeOK
<1>2. CASE active = Cardinality(Live) + 1 /\ \E c \in Conns : worker[c] = "over"
  <2>1. PICK c \in Conns : worker[c] = "over"
    BY <1>2
  <2>2. Live \subseteq Conns \ {c} /\ c \notin Live
    BY <2>1, LiveFinite DEF Live
  <2>3. Cardinality(Conns \ {c}) = Cardinality(Conns) - 1 /\ IsFiniteSet(Conns \ {c})
    BY FS_RemoveElement, ProxyAssumption, <2>1
  <2>4. Cardinality(Live) <= Cardinality(Conns) - 1
    BY <2>2, <2>3, FS_Subset
  <2>5. active \in 0..Cardinality(Conns)
    BY <1>2, <2>4, LiveFinite
  <2>6. QED
    BY <2>5 DEF ProxyTypes, ProxyTypeOK
<1>3. QED
  BY <1>1, <1>2 DEF Counted

\* A step that leaves the workers, the listener and what teardown knows alone.
LEMMA ProxyCalm ==
  ASSUME ProxyInv, UNCHANGED <<listener, shutdown, active, worker, pushing, registry, slot, stopping>>,
         client' \in [Conns -> {"none", "open", "shut"}],
         upstream' \in [Conns -> {"none", "open", "shut"}],
         channel' \in 0..ChannelCap, writer' \in {"off", "running", "ended"},
         writer' # "running" => channel' = 0, writer = "ended" => writer' = "ended"
  PROVE  ProxyInv' /\ Onward
<1>1. Live' = Live
  BY DEF Live
<1>2. ProxyTypes'
  BY DEF ProxyInv, ProxyTypes, stopping
<1>3. Counted' /\ Reach' /\ Drained'
  BY <1>1 DEF ProxyInv, Counted, Reach, Drained, stopping
<1>4. QED
  BY <1>2, <1>3 DEF ProxyInv, Onward, stopping

\* A worker that goes on to another place it can block at stays one of those counted and
\* known.
LEMMA StillLive ==
  ASSUME ProxyInv, NEW c \in Live, NEW next \in Phases \ {"none", "backlog", "over"},
         Goto(c, next), slot' \subseteq Conns, client' = client,
         upstream' \in [Conns -> {"none", "open", "shut"}], channel' \in 0..ChannelCap,
         writer # "running" => channel' = channel,
         UNCHANGED <<listener, shutdown, active, pushing, registry, stopping, writer>>
  PROVE  ProxyInv' /\ Onward
<1> USE DEF ProxyInv, ProxyTypes
<1>1. c \in Conns /\ worker' = [worker EXCEPT ![c] = next] /\ worker[c] # "over"
  BY DEF Live, Goto
<1>2. Live' = Live /\ worker' \in [Conns -> Phases]
  BY <1>1 DEF Live, Phases
<1>3. \A d \in Conns : worker'[d] = "over" <=> worker[d] = "over"
  BY <1>1
<1>4. ProxyTypes'
  BY <1>2 DEF stopping
<1>5. Counted'
  BY <1>2, <1>3 DEF Counted
<1>6. Reach' /\ Drained'
  BY <1>2 DEF Reach, Drained, stopping
<1>7. QED
  BY <1>4, <1>5, <1>6 DEF Onward, stopping

LEMMA WorkerEndsStep ==
  ASSUME ProxyInv, NEW c \in Conns, WorkerEnds(c)
  PROVE  ProxyInv' /\ Onward
<1> USE DEF ProxyInv, ProxyTypes
<1>1. worker' = [worker EXCEPT ![c] = "over"] /\ worker[c] = "ended" /\ active' = active - 1
  BY DEF WorkerEnds, Goto
<1>2. c \in Live /\ Live' = Live \ {c} /\ worker' \in [Conns -> Phases]
  BY <1>1 DEF Live, Phases
<1>3. Cardinality(Live') = Cardinality(Live) - 1
  BY <1>2, LiveFinite, FS_RemoveElement
<1>4. ProxyTypes'
  BY <1>2 DEF WorkerEnds, stopping
<1>5. Counted'
  <2>1. listener' = listener
    BY DEF WorkerEnds
  <2>2. CASE active = Cardinality(Live)
    BY <1>1, <1>3, <2>2 DEF Counted
  <2>3. CASE listener = "ended" /\ active = Cardinality(Live) + 1
    <3>1. active' = Cardinality(Live') + 1
      BY <1>1, <1>3, <2>3, LiveFinite
    <3>2. worker'[c] = "over"
      BY <1>1
    <3>3. QED
      BY <2>1, <2>3, <3>1, <3>2 DEF Counted
  <2>4. QED
    BY <2>2, <2>3 DEF Counted
<1>6. Reach' /\ Drained'
  BY <1>2 DEF Reach, Drained, WorkerEnds, stopping
<1>7. QED
  BY <1>4, <1>5, <1>6 DEF Onward, WorkerEnds, stopping

LEMMA WorkerStepKeeps ==
  ASSUME ProxyInv, NEW c \in Conns, WorkerStep(c)
  PROVE  ProxyInv' /\ Onward
<1> USE DEF WorkerFrame, sockets, Phases
<1>t. channel \in 0..ChannelCap /\ slot \subseteq Conns
      /\ upstream \in [Conns -> {"none", "open", "shut"}] /\ (writer # "running" => channel = 0)
  BY DEF ProxyInv, ProxyTypes, Drained
<1>1. CASE ReadHead(c)
  BY <1>1, <1>t, StillLive DEF ReadHead, Live
<1>2. CASE NoHead(c)
  BY <1>2, <1>t, StillLive DEF NoHead, Live
<1>3. CASE Denied(c)
  BY <1>3, <1>t, StillLive DEF Denied, Live
<1>4. CASE Dial(c)
  BY <1>4, <1>t, StillLive DEF Dial, Live
<1>5. CASE Register(c)
  BY <1>5, <1>t, StillLive DEF Register, Live
<1>6. CASE Handshake(c)
  BY <1>6, <1>t, StillLive DEF Handshake, Live
<1>7. CASE NextRequest(c)
  BY <1>7, <1>t, StillLive DEF NextRequest, Live
<1>8. CASE NoRequest(c)
  BY <1>8, <1>t, StillLive DEF NoRequest, Live
<1>9. CASE Answer(c)
  BY <1>9, <1>t, StillLive DEF Answer, Live
<1>10. CASE NoAnswer(c)
  BY <1>10, <1>t, StillLive DEF NoAnswer, Live
<1>11. CASE Send(c)
  <2>1. c \in Live /\ UNCHANGED <<slot, client, upstream>>
    BY <1>11 DEF Send, Live
  <2>2. channel' \in 0..ChannelCap /\ (writer # "running" => channel' = channel)
    BY <1>11, <1>t, ProxyAssumption DEF Send
  <2>3. \E next \in {"idle", "ended"} : Goto(c, next)
    BY <1>11 DEF Send
  <2>4. QED
    BY <1>11, <1>t, <2>1, <2>2, <2>3, StillLive DEF Send
<1>12. CASE WorkerEnds(c)
  BY <1>12, WorkerEndsStep
<1>13. QED
  BY <1>1, <1>2, <1>3, <1>4, <1>5, <1>6, <1>7, <1>8, <1>9, <1>10, <1>11, <1>12 DEF WorkerStep

(***************************************************************************)
(* The listener.                                                           *)
(***************************************************************************)
LEMMA ConnectStep ==
  ASSUME ProxyInv, NEW c \in Conns, ChildConnects(c)
  PROVE  ProxyInv' /\ Onward
<1> USE DEF ProxyInv, ProxyTypes
<1>1. worker' = [worker EXCEPT ![c] = "backlog"] /\ worker[c] = "none"
  BY DEF ChildConnects, Goto
<1>2. Live' = Live /\ worker' \in [Conns -> Phases]
  BY <1>1 DEF Live, Phases
<1>3. ProxyTypes'
  BY <1>2 DEF ChildConnects, stopping
<1>4. Counted' /\ Reach' /\ Drained'
  BY <1>1, <1>2 DEF Counted, Reach, Drained, ChildConnects, stopping
<1>5. QED
  BY <1>3, <1>4 DEF Onward, ChildConnects, stopping

LEMMA DropStep ==
  ASSUME ProxyInv, NEW c \in Conns, AcceptDrops(c)
  PROVE  ProxyInv' /\ Onward
<1> USE DEF ProxyInv, ProxyTypes
<1>1. worker' = [worker EXCEPT ![c] = "over"] /\ worker[c] = "backlog"
  BY DEF AcceptDrops, Goto
<1>2. Live' = Live /\ worker' \in [Conns -> Phases]
  BY <1>1 DEF Live, Phases
<1>3. ProxyTypes'
  BY <1>2 DEF AcceptDrops, stopping
<1>4. Counted' /\ Reach' /\ Drained'
  BY <1>2 DEF Counted, Reach, Drained, AcceptDrops, stopping
<1>5. QED
  BY <1>3, <1>4 DEF Onward, AcceptDrops, stopping

\* The worker that starts is the one being pushed, so teardown, which waits for the
\* listener, cannot miss it.
LEMMA AcceptStep ==
  ASSUME ProxyInv, NEW c \in Conns, Accept(c)
  PROVE  ProxyInv' /\ Onward
<1> USE DEF ProxyInv, ProxyTypes
<1>1. /\ worker' = [worker EXCEPT ![c] = "head"] /\ worker[c] = "backlog" /\ active' = active + 1
      /\ pushing' = {c} /\ listener = "listening" /\ listener' = "pushing"
  BY DEF Accept, Goto
<1>2. c \notin Live /\ Live' = Live \cup {c} /\ worker' \in [Conns -> Phases]
  BY <1>1 DEF Live, Phases
<1>3. Cardinality(Live') = Cardinality(Live) + 1
  BY <1>2, LiveFinite, FS_AddElement
<1>4. ProxyTypes'
  BY <1>1, <1>2 DEF Accept, stopping, sockets
<1>5. Counted'
  BY <1>1, <1>3 DEF Counted
<1>6. Reach'
  <2>1. pushing = {} /\ stop \in {"no", "flagged"}
    BY <1>1 DEF Reach
  <2>2. stop' = stop /\ registry' = registry
    BY DEF Accept, stopping
  <2>3. Live' \subseteq registry' \cup pushing'
    BY <1>1, <1>2, <2>1, <2>2 DEF Reach
  <2>4. QED
    BY <1>1, <2>1, <2>2, <2>3 DEF Reach
<1>7. Drained'
  BY DEF Drained, Accept
<1>8. QED
  BY <1>1, <1>4, <1>5, <1>6, <1>7 DEF Onward, Accept, stopping

LEMMA PushStep ==
  ASSUME ProxyInv, PushWorker
  PROVE  ProxyInv' /\ Onward
<1> USE DEF ProxyInv, ProxyTypes
<1>1. Live' = Live
  BY DEF PushWorker, Live
<1>2. ProxyTypes'
  BY DEF PushWorker, stopping, sockets
<1>3. Reach'
  <2>1. stop \in {"no", "flagged"} /\ stop' = stop /\ listener' = "listening" /\ pushing' = {}
    BY DEF PushWorker, Reach, stopping
  <2>2. \A c \in Live : worker[c] # "over"
    BY DEF Live
  <2>3. Live' \subseteq registry'
    BY <1>1, <2>1, <2>2 DEF PushWorker, Reach
  <2>4. QED
    BY <2>1, <2>3 DEF Reach
<1>4. Counted' /\ Drained'
  BY <1>1 DEF PushWorker, Counted, Drained
<1>5. QED
  BY <1>2, <1>3, <1>4 DEF Onward, PushWorker, stopping

\* A connection whose worker could not be spawned keeps its place in the count.
LEMMA ListenerEndsStep ==
  ASSUME ProxyInv, ListenerEnds
  PROVE  ProxyInv' /\ Onward
<1> USE DEF ProxyInv, ProxyTypes
<1>1. \A c \in Conns : worker'[c] = IF worker[c] = "backlog" THEN "over" ELSE worker[c]
  BY DEF ListenerEnds
<1>2. Live' = Live
  BY <1>1 DEF Live
<1>3. ProxyTypes'
  <2>1. worker' \in [Conns -> Phases]
    BY DEF ListenerEnds, Phases
  <2>2. client' \in [Conns -> {"none", "open", "shut"}]
    BY DEF ListenerEnds
  <2>3. QED
    BY <2>1, <2>2 DEF ListenerEnds, stopping
<1>4. Counted'
  <2>1. active = Cardinality(Live) /\ listener' = "ended"
    BY DEF Counted, ListenerEnds
  <2>2. CASE shutdown
    BY <1>2, <2>1, <2>2 DEF Counted, ListenerEnds
  <2>3. CASE ~shutdown
    <3>1. PICK c \in Conns : worker[c] = "backlog"
      BY <2>3 DEF ListenerEnds
    <3>2. worker'[c] = "over" /\ active' = active + 1
      BY <1>1, <2>3, <3>1 DEF ListenerEnds
    <3>3. QED
      BY <1>2, <2>1, <3>2 DEF Counted
  <2>4. QED
    BY <2>2, <2>3
<1>5. Reach' /\ Drained'
  BY <1>2 DEF Reach, Drained, ListenerEnds, stopping
<1>6. QED
  BY <1>3, <1>4, <1>5 DEF Onward, ListenerEnds, stopping

(***************************************************************************)
(* Teardown and the writer.                                                *)
(***************************************************************************)
LEMMA TeardownStep ==
  ASSUME ProxyInv, StopFlag \/ Teardown
  PROVE  ProxyInv' /\ Onward /\ listener' = listener /\ writer' = writer
<1> USE DEF ProxyInv, ProxyTypes, StopFrame
<1>1. UNCHANGED <<listener, active, worker, pushing, channel, writer>>
  BY DEF StopFlag, Teardown, JoinListener, TakeWorkers, JoinWorkers, CloseSockets
<1>2. Live' = Live /\ Counted' /\ Drained'
  BY <1>1 DEF Live, Counted, Drained
<1>3. CASE StopFlag
  <2>1. ProxyTypes' /\ Reach' /\ Onward
    BY <1>2, <1>3 DEF StopFlag, sockets, Reach, Onward
  <2>2. QED
    BY <1>1, <1>2, <2>1
<1>4. CASE JoinListener
  <2>1. ProxyTypes' /\ Onward
    BY <1>4 DEF JoinListener, sockets, Onward
  <2>2. pushing = {}
    BY <1>4 DEF JoinListener, Reach
  <2>3. Reach'
    BY <1>2, <1>4, <2>2 DEF JoinListener, Reach
  <2>4. QED
    BY <1>1, <1>2, <2>1, <2>3
<1>5. CASE TakeWorkers
  <2>1. ProxyTypes' /\ Reach' /\ Onward
    BY <1>2, <1>5 DEF TakeWorkers, sockets, Reach, Onward
  <2>2. QED
    BY <1>1, <1>2, <2>1
<1>6. CASE JoinWorkers
  <2>1. ProxyTypes' /\ Onward
    BY <1>6 DEF JoinWorkers, sockets, Onward
  <2>2. Live = {}
    BY <1>6 DEF JoinWorkers, Reach, Live
  <2>3. Reach'
    BY <1>2, <1>6, <2>2 DEF JoinWorkers, Reach
  <2>4. QED
    BY <1>1, <1>2, <2>1, <2>3
<1>7. ASSUME NEW c \in Conns, CloseSockets(c)
      PROVE  ProxyInv' /\ Onward
  <2>1. client' \in [Conns -> {"none", "open", "shut"}]
        /\ upstream' \in [Conns -> {"none", "open", "shut"}]
    BY <1>7 DEF CloseSockets
  <2>2. ProxyTypes' /\ Onward
    BY <1>7, <2>1 DEF CloseSockets, Onward
  <2>3. Reach'
    BY <1>2, <1>7 DEF CloseSockets, Reach
  <2>4. QED
    BY <1>1, <1>2, <2>2, <2>3
<1>8. QED
  BY <1>1, <1>3, <1>4, <1>5, <1>6, <1>7 DEF Teardown

LEMMA WriterStep ==
  ASSUME ProxyInv, NEW dropped, WriterFails \/ WriteEvent \/ WriterEnds(dropped)
  PROVE  ProxyInv' /\ Onward
<1>1. UNCHANGED <<listener, shutdown, active, worker, pushing, registry, sockets, stopping>>
  BY DEF WriterFails, WriteEvent, WriterEnds
<1>2. client' \in [Conns -> {"none", "open", "shut"}]
      /\ upstream' \in [Conns -> {"none", "open", "shut"}] /\ slot' = slot
  BY <1>1 DEF ProxyInv, ProxyTypes, sockets
<1>3. channel' \in 0..ChannelCap /\ writer' \in {"running", "ended"} /\ writer = "running"
      /\ (writer' # "running" => channel' = 0)
  BY ProxyAssumption DEF ProxyInv, ProxyTypes, WriterFails, WriteEvent, WriterEnds
<1>4. QED
  BY <1>1, <1>2, <1>3, ProxyCalm

\* Every step of the proxy's threads and of who connects to it.
LEMMA ProxyStep ==
  ASSUME ProxyInv, NEW dropped,
         ProxyNext \/ WriterEnds(dropped) \/ \E c \in Conns : ChildConnects(c)
  PROVE  ProxyInv' /\ Onward
<1>1. ASSUME NEW c \in Conns, AcceptDrops(c) \/ Accept(c) \/ WorkerStep(c) \/ ChildConnects(c)
      PROVE  ProxyInv' /\ Onward
  BY <1>1, DropStep, AcceptStep, WorkerStepKeeps, ConnectStep
<1>2. CASE PushWorker \/ ListenerEnds
  BY <1>2, PushStep, ListenerEndsStep
<1>3. CASE Teardown
  BY <1>3, TeardownStep
<1>4. CASE WriterFails \/ WriteEvent \/ WriterEnds(dropped)
  BY <1>4, WriterStep
<1>5. QED
  BY <1>1, <1>2, <1>3, <1>4 DEF ProxyNext

LEMMA StartsStep ==
  ASSUME ProxyInv, ProxyStarts,
         UNCHANGED <<shutdown, active, worker, pushing, registry, sockets, stopping, channel>>,
         stop # "stopped"
  PROVE  ProxyInv' /\ listener' = "listening"
<1> USE DEF ProxyInv, ProxyTypes, ProxyStarts
<1>1. Live' = Live
  BY DEF Live
<1>2. ProxyTypes' /\ Drained'
  BY DEF stopping, sockets, Drained
<1>3. Counted'
  BY <1>1 DEF Counted
<1>4. Reach'
  BY <1>1 DEF Reach, stopping
<1>5. QED
  BY <1>2, <1>3, <1>4

LEMMA DiesStep ==
  ASSUME ProxyInv, ProxyDies
  PROVE  ProxyInv' /\ (listener' = "off" <=> listener = "off")
<1> USE DEF ProxyInv, ProxyTypes, ProxyDies
<1>1. worker' \in [Conns -> Phases] /\ \A c \in Conns : worker'[c] \in {"none", "over"}
  BY DEF Phases
<1>2. Live' = {} /\ active' = 0
  BY <1>1 DEF Live
<1>3. ProxyTypes'
  BY <1>1, ProxyAssumption
<1>4. Counted' /\ Reach' /\ Drained'
  BY <1>2, FS_EmptySet DEF Counted, Reach, Drained
<1>5. QED
  BY <1>3, <1>4

(***************************************************************************)
(* The session file.                                                       *)
(***************************************************************************)
LEMMA SessionStep ==
  ASSUME SessionTypeOK, SessionNext
  PROVE  SessionTypeOK'
<1> USE SessionAssumption DEF SessionTypeOK
<1>1. NoFile \in Files /\ Never \in Nat
  BY DEF NoFile, Files, Never
<1>2. ExpiryFromNow \in 0..Never
  BY DEF ExpiryFromNow, Never
<1>3. CASE Tick \/ Save \/ Lock
  BY <1>1, <1>2, <1>3 DEF Tick, Save, Lock, Files, Never
<1>4. ASSUME NEW p \in Procs, LoadSession(p)
      PROVE  SessionTypeOK'
  BY <1>4 DEF LoadSession
<1>5. ASSUME NEW p \in Procs, RemoveExpired(p) \/ EndCommand(p)
      PROVE  SessionTypeOK'
  BY <1>1, <1>5 DEF RemoveExpired, EndCommand, IdleCli
<1>6. ASSUME NEW p \in Procs, Refresh(p)
      PROVE  SessionTypeOK'
  <2>1. file' \in Files
    BY <1>2, <1>6 DEF Refresh, Files
  <2>2. QED
    BY <1>1, <1>6, <2>1 DEF Refresh, IdleCli
<1>7. QED
  BY <1>3, <1>4, <1>5, <1>6 DEF SessionNext

(***************************************************************************)
(* The run.                                                                *)
(***************************************************************************)
Rows == [status : {"none", "running", "completed", "interrupted"}, reason : Reasons,
         pid : BOOLEAN]

RunTypes ==
  /\ watch \in {"file", "cap"}
  /\ row \in Rows
  /\ launcher \in {"init", "opened", "proxied", "trusted", "launched", "waiting", "checking",
                   "stopping", "terminating", "reaping", "draining", "attributing", "closing",
                   "done", "left", "dead"}
  /\ started \in 0..MaxTime /\ cause \in Reasons \cup {"exit"} /\ tries \in 0..ReapTries
  /\ child \in {"none", "running", "zombie", "gone"} /\ reused \in BOOLEAN
  /\ sweeper \in {"idle", "gone"}

\* What the place of the launcher says of its proxy, its child and its row.
Places ==
  /\ launcher \in {"init", "opened"} => listener = "off" /\ stop = "no"
  /\ listener = "off" => launcher \in {"init", "opened", "left", "dead"}
  /\ launcher \in {"terminating", "reaping", "draining", "attributing", "closing", "done"}
       => stop = "stopped" /\ listener = "ended"
  /\ launcher \in {"attributing", "closing", "done"} => writer = "ended"
  /\ launcher \in {"init", "opened", "proxied", "trusted"} => child = "none"
  /\ launcher \in {"launched", "waiting", "checking"} => child \in {"running", "zombie"}
  /\ launcher = "init" => row.status = "none"

\* The monitor acts only on a child that has gone, and the launcher never names its cause.
Swept ==
  /\ cause # "launcher_gone"
  /\ sweeper = "gone" => child = "gone"
  /\ row.reason = "launcher_gone" => child = "gone"

IInv == SessionTypeOK /\ ProxyInv /\ RunTypes /\ Places /\ Swept

LEMMA InitIInv == Init => IInv
<1> SUFFICES ASSUME Init
             PROVE  IInv
  OBVIOUS
<1> USE DEF Init, SessionInit, ProxyInit
<1>1. SessionTypeOK
  BY SessionAssumption DEF SessionTypeOK, Files, NoFile, Never, IdleCli
<1>2. Live = {}
  BY DEF Live
<1>3. ProxyTypes
  <2>1. worker \in [Conns -> Phases] /\ channel \in 0..ChannelCap
    BY ProxyAssumption DEF Phases
  <2>2. QED
    BY <2>1 DEF ProxyTypes
<1>4. Counted /\ Reach /\ Drained
  BY <1>2, FS_EmptySet DEF Counted, Reach, Drained
<1>5. RunTypes
  <2>1. 0 \in 0..MaxTime /\ 0 \in 0..ReapTries
    BY SessionAssumption, ReapAssumption
  <2>2. row \in Rows
    BY DEF Rows, NoRow, Reasons
  <2>3. QED
    BY <2>1, <2>2 DEF RunTypes, Reasons
<1>6. Places /\ Swept
  BY DEF Places, Swept, NoRow
<1>7. QED
  BY <1>1, <1>3, <1>4, <1>5, <1>6 DEF IInv, ProxyInv

\* Closing a row gives it the reason, or finds it closed.
LEMMA RowClosed ==
  ASSUME row \in Rows, NEW status \in {"completed", "interrupted"}, NEW reason \in Reasons,
         CloseRow(status, reason)
  PROVE  row' \in Rows /\ row'.reason \in {row.reason, reason}
<1>1. CASE row.status = "running"
  <2>1. row' = [row EXCEPT !.status = status, !.reason = reason]
    BY <1>1 DEF CloseRow
  <2>2. QED
    BY <2>1 DEF Rows
<1>2. CASE row.status # "running"
  BY <1>2 DEF CloseRow
<1>3. QED
  BY <1>1, <1>2

LEMMA SessionSame ==
  ASSUME SessionTypeOK, UNCHANGED sessionVars
  PROVE  SessionTypeOK'
BY DEF SessionTypeOK, sessionVars

LEMMA ProxySame ==
  ASSUME ProxyInv, UNCHANGED proxyVars
  PROVE  ProxyInv' /\ UNCHANGED <<listener, stop, writer>>
<1>1. Live' = Live
  BY DEF Live, proxyVars
<1>2. ProxyTypes' /\ Reach' /\ Drained' /\ Counted'
  BY <1>1 DEF ProxyInv, ProxyTypes, Reach, Drained, Counted, proxyVars, sockets, stopping
<1>3. QED
  BY <1>2 DEF ProxyInv, proxyVars, stopping

\* The steps of others leave the run's own state alone.
LEMMA ElsewhereStep ==
  ASSUME IInv, SessionRuns \/ ProxyRuns
  PROVE  IInv'
<1>1. RunTypes' /\ Swept'
  BY DEF IInv, RunTypes, Swept, SessionRuns, ProxyRuns, runVars
<1>2. CASE SessionRuns
  <2>1. SessionTypeOK'
    BY <1>2, SessionStep DEF IInv, SessionRuns
  <2>2. ProxyInv' /\ Places'
    BY <1>2, ProxySame DEF IInv, SessionRuns, Places, runVars
  <2>3. QED
    BY <1>1, <2>1, <2>2 DEF IInv
<1>3. CASE ProxyRuns
  <2>1. SessionTypeOK'
    BY <1>3, SessionSame DEF IInv, ProxyRuns
  <2>2. ProxyInv' /\ Onward
    BY <1>3, ProxyStep DEF IInv, ProxyRuns
  <2>3. UNCHANGED <<launcher, child, row>>
    BY <1>3 DEF ProxyRuns, runVars
  <2>4. launcher \in {"init", "opened"} => stop' = "no"
    <3>1. SUFFICES ASSUME launcher \in {"init", "opened"}
                   PROVE  UNCHANGED stop
      BY DEF IInv, Places
    <3>2. listener = "off" /\ stop = "no"
      BY <3>1 DEF IInv, Places
    <3>3. CASE Teardown
      BY <3>2, <3>3 DEF Teardown, JoinListener, TakeWorkers, JoinWorkers, CloseSockets
    <3>4. CASE WriterFails \/ WriteEvent \/ WriterEnds(SinkDropped) \/ PushWorker \/ ListenerEnds
      BY <3>4 DEF WriterFails, WriteEvent, WriterEnds, PushWorker, ListenerEnds, stopping
    <3>5. ASSUME NEW c \in Conns, AcceptDrops(c) \/ Accept(c) \/ ChildConnects(c)
          PROVE  UNCHANGED stop
      BY <3>5 DEF AcceptDrops, Accept, ChildConnects, stopping
    <3>6. ASSUME NEW c \in Conns, WorkerStep(c)
          PROVE  UNCHANGED stop
      BY <3>6 DEF WorkerStep, ReadHead, NoHead, Denied, Dial, Register, Handshake, NextRequest,
         NoRequest, Answer, NoAnswer, Send, WorkerEnds, WorkerFrame, stopping
    <3>7. QED
      BY <1>3, <3>3, <3>4, <3>5, <3>6 DEF ProxyRuns, ProxyNext
  <2>5. launcher \in {"terminating", "reaping", "draining", "attributing", "closing", "done"}
          => listener' = "ended"
    <3>1. SUFFICES ASSUME stop = "stopped", listener = "ended"
                   PROVE  listener' = "ended"
      BY DEF IInv, Places
    <3>2. stop' = "stopped" /\ listener' # "off"
      BY <2>2, <3>1 DEF Onward
    <3>3. QED
      BY <2>2, <3>2 DEF ProxyInv, Reach
  <2>6. Places'
    BY <2>2, <2>3, <2>4, <2>5 DEF IInv, Places, Onward
  <2>7. QED
    BY <1>1, <2>1, <2>2, <2>6 DEF IInv
<1>4. QED
  BY <1>2, <1>3

\* Steps of the launcher, the child and the monitor in which the proxy takes no part.
LEMMA AloneStep ==
  ASSUME IInv, UNCHANGED <<sessionVars, proxyVars>>,
         RunTypes', Swept',
         UNCHANGED <<listener, stop, writer>> => Places'
  PROVE  IInv'
BY SessionSame, ProxySame DEF IInv

LEMMA OpeningSteps ==
  ASSUME IInv, OpenSession \/ StartProxy \/ StartProxyFails
  PROVE  IInv'
<1>1. CASE OpenSession
  <2>1. RunTypes' /\ Swept'
    BY <1>1 DEF IInv, RunTypes, Rows, Swept, OpenSession, At, LauncherGoes, StartFrame
  <2>2. UNCHANGED <<listener, stop, writer>> => Places'
    BY <1>1 DEF IInv, Places, OpenSession, At, LauncherGoes
  <2>3. QED
    BY <1>1, <2>1, <2>2, AloneStep DEF OpenSession, StartFrame
<1>2. CASE StartProxyFails
  <2>1. RunTypes' /\ Swept'
    BY <1>2 DEF IInv, RunTypes, Swept, StartProxyFails, At, LauncherGoes, StartFrame
  <2>2. UNCHANGED <<listener, stop, writer>> => Places'
    BY <1>2 DEF IInv, Places, StartProxyFails, At, LauncherGoes
  <2>3. QED
    BY <1>2, <2>1, <2>2, AloneStep DEF StartProxyFails, StartFrame
<1>3. CASE StartProxy
  <2>1. stop = "no" /\ stop' = stop /\ listener' = "listening"
    BY <1>3 DEF IInv, Places, StartProxy, ProxyStarts, At, stopping
  <2>2. ProxyInv'
    BY <1>3, <2>1, StartsStep DEF IInv, StartProxy
  <2>3. RunTypes' /\ Swept' /\ Places'
    BY <1>3, <2>1 DEF IInv, RunTypes, Swept, Places, StartProxy, At, LauncherGoes, StartFrame
  <2>4. SessionTypeOK'
    BY <1>3, SessionSame DEF IInv, StartProxy, StartFrame
  <2>5. QED
    BY <2>2, <2>3, <2>4 DEF IInv
<1>4. QED
  BY <1>1, <1>2, <1>3

\* The run goes on, or it ends and its proxy is told to stop.
LEMMA EndingSteps ==
  ASSUME IInv, PrepareTrust \/ SpawnChild \/ TryWait \/ CheckLock
  PROVE  IInv'
<1> USE DEF At, LauncherGoes, StartFrame, WaitFrame
<1>1. SessionTypeOK'
  BY SessionSame DEF IInv, PrepareTrust, SpawnChild, TryWait, CheckLock
<1>2. ProxyInv' /\ listener' = listener /\ writer' = writer
  BY ProxySame, TeardownStep DEF IInv, PrepareTrust, SpawnChild, TryWait, CheckLock
<1>3. LockSignal \in {"auto_lock", "vault_locked", "none"}
  BY DEF LockSignal
<1>4. RunTypes' /\ Swept'
  <2>1. CASE PrepareTrust
    BY <2>1 DEF IInv, RunTypes, Swept, PrepareTrust, Reasons
  <2>2. CASE SpawnChild
    BY <2>2 DEF IInv, RunTypes, Swept, Places, SpawnChild, Reasons
  <2>3. CASE TryWait
    BY <2>3 DEF IInv, RunTypes, Swept, TryWait, Reasons
  <2>4. CASE CheckLock
    BY <1>3, <2>4 DEF IInv, RunTypes, Swept, CheckLock, Reasons
  <2>5. QED
    BY <2>1, <2>2, <2>3, <2>4
<1>5. Places'
  <2>1. CASE PrepareTrust
    BY <1>2, <2>1 DEF IInv, Places, PrepareTrust
  <2>2. CASE SpawnChild
    BY <1>2, <2>2 DEF IInv, Places, SpawnChild
  <2>3. CASE TryWait
    BY <1>2, <2>3 DEF IInv, Places, TryWait
  <2>4. CASE CheckLock
    BY <1>2, <2>4 DEF IInv, Places, CheckLock
  <2>5. QED
    BY <2>1, <2>2, <2>3, <2>4
<1>6. QED
  BY <1>1, <1>2, <1>4, <1>5 DEF IInv

LEMMA RecordStep ==
  ASSUME IInv, RecordChild
  PROVE  IInv'
<1> USE DEF RecordChild, At, LauncherGoes
<1>1. now \in 0..MaxTime /\ 0 \in 0..MaxTime
  BY SessionAssumption DEF IInv, SessionTypeOK
<1>2. RunTypes' /\ Swept'
  BY <1>1 DEF IInv, RunTypes, Rows, Swept
<1>3. UNCHANGED <<listener, stop, writer>> => Places'
  BY DEF IInv, Places
<1>4. QED
  BY <1>2, <1>3, AloneStep

\* From the return of shutdown to the row.
LEMMA TeardownSteps ==
  ASSUME IInv, Stopped \/ Terminate \/ Reap \/ JoinWriter \/ Attribute \/ CloseSession
  PROVE  IInv'
<1> USE DEF At, LauncherGoes, WaitFrame
<1>1. UNCHANGED <<sessionVars, proxyVars>>
  BY DEF Stopped, Terminate, Reap, JoinWriter, Attribute, CloseSession
<1>2. RunTypes' /\ Swept'
  <2>1. CASE Stopped \/ JoinWriter \/ Attribute
    BY <2>1 DEF IInv, RunTypes, Swept, Stopped, JoinWriter, Attribute
  <2>2. CASE Terminate
    BY <2>2 DEF IInv, RunTypes, Swept, Terminate
  <2>3. CASE Reap
    <3>1. tries' \in 0..ReapTries
      BY <2>3, ReapAssumption DEF IInv, RunTypes, Reap
    <3>2. QED
      BY <2>3, <3>1 DEF IInv, RunTypes, Swept, Reap
  <2>4. CASE CloseSession
    <3>1. CASE row' = row
      BY <2>4, <3>1 DEF IInv, RunTypes, Swept, CloseSession
    <3>2. CASE CloseRow("completed", "none")
      BY <2>4, <3>2, RowClosed DEF IInv, RunTypes, Swept, CloseSession, Reasons
    <3>3. CASE cause # "exit" /\ CloseRow("interrupted", cause)
      BY <2>4, <3>3, RowClosed DEF IInv, RunTypes, Swept, CloseSession
    <3>4. QED
      BY <2>4, <3>1, <3>2, <3>3 DEF CloseSession
  <2>5. QED
    BY <2>1, <2>2, <2>3, <2>4
<1>3. ASSUME UNCHANGED <<listener, stop, writer>>
      PROVE  Places'
  <2>1. CASE Stopped
    <3>1. stop = "stopped" /\ listener = "ended"
      BY <2>1 DEF IInv, Places, ProxyInv, Reach, Stopped
    <3>2. QED
      BY <1>3, <2>1, <3>1 DEF IInv, Places, Stopped
  <2>2. CASE Terminate
    BY <1>3, <2>2 DEF IInv, Places, Terminate
  <2>3. CASE Reap
    BY <1>3, <2>3 DEF IInv, Places, Reap
  <2>4. CASE JoinWriter \/ Attribute
    BY <1>3, <2>4 DEF IInv, Places, JoinWriter, Attribute
  <2>5. CASE CloseSession
    BY <1>3, <2>5 DEF IInv, Places, CloseSession
  <2>6. QED
    BY <2>1, <2>2, <2>3, <2>4, <2>5
<1>4. QED
  BY <1>1, <1>2, <1>3, AloneStep

LEMMA DeathStep ==
  ASSUME IInv, LauncherDies
  PROVE  IInv'
<1> USE DEF LauncherDies
<1>1. SessionTypeOK'
  BY SessionSame DEF IInv
<1>2. ProxyInv'
  BY DiesStep DEF IInv
<1>3. RunTypes' /\ Swept'
  BY DEF IInv, RunTypes, Swept
<1>4. Places'
  BY DEF Places
<1>5. QED
  BY <1>1, <1>2, <1>3, <1>4 DEF IInv

LEMMA OthersStep ==
  ASSUME IInv, ChildExits \/ InitReaps \/ PidReused \/ Sweep
  PROVE  IInv'
<1> USE DEF Sweep, SweepFrame, DefinitelyGone
<1>1. UNCHANGED <<sessionVars, proxyVars>>
  BY DEF ChildExits, InitReaps, PidReused, SweepProbes, SweepCloses
<1>2. RunTypes' /\ Swept'
  <2>1. CASE ChildExits \/ InitReaps \/ PidReused
    BY <2>1 DEF IInv, RunTypes, Swept, ChildExits, InitReaps, PidReused
  <2>2. CASE SweepProbes
    BY <2>2 DEF IInv, RunTypes, Swept, SweepProbes
  <2>3. CASE SweepCloses
    <3>1. CloseRow("interrupted", "launcher_gone") /\ "launcher_gone" \in Reasons
      BY <2>3 DEF SweepCloses, Reasons
    <3>2. row' \in Rows
      BY <3>1, RowClosed DEF IInv, RunTypes
    <3>3. QED
      BY <2>3, <3>2 DEF IInv, RunTypes, Swept, SweepCloses
  <2>4. QED
    BY <2>1, <2>2, <2>3
<1>3. ASSUME UNCHANGED <<listener, stop, writer>>
      PROVE  Places'
  <2>1. CASE ChildExits \/ InitReaps \/ PidReused
    BY <1>3, <2>1 DEF IInv, Places, Alive, ChildExits, InitReaps, PidReused
  <2>2. CASE Sweep
    BY <1>3, <2>2 DEF IInv, Places, SweepProbes, SweepCloses, CloseRow
  <2>3. QED
    BY <2>1, <2>2
<1>4. QED
  BY <1>1, <1>2, <1>3, AloneStep

LEMMA NextIInv == IInv /\ [Next]_vars => IInv'
<1> SUFFICES ASSUME IInv, [Next]_vars
             PROVE  IInv'
  OBVIOUS
<1>1. CASE SessionRuns \/ ProxyRuns
  BY <1>1, ElsewhereStep
<1>2. CASE OpenSession \/ StartProxyFails
  BY <1>2, OpeningSteps
<1>3. CASE Launcher
  BY <1>3, OpeningSteps, EndingSteps, RecordStep, TeardownSteps DEF Launcher
<1>4. CASE LauncherDies
  BY <1>4, DeathStep
<1>5. CASE ChildExits \/ InitReaps \/ PidReused \/ Sweep
  BY <1>5, OthersStep
<1>6. CASE UNCHANGED vars
  <2>1. UNCHANGED <<sessionVars, proxyVars>> /\ UNCHANGED runVars
    BY <1>6 DEF vars
  <2>2. RunTypes' /\ Swept' /\ (UNCHANGED <<listener, stop, writer>> => Places')
    BY <2>1 DEF IInv, RunTypes, Swept, Places, runVars
  <2>3. QED
    BY <2>1, <2>2, AloneStep
<1>7. QED
  BY <1>1, <1>2, <1>3, <1>4, <1>5, <1>6 DEF Next

THEOREM Invariance == Spec => []IInv
BY InitIInv, NextIInv, PTL DEF Spec

(***************************************************************************)
(* The theorems.                                                           *)
(***************************************************************************)
\* Whatever the threads, the commands and the monitor do, no counter, set or file of the
\* run leaves its range: the connections counted against the cap never exceed those there
\* are, and the count never goes below zero when a worker gives its place back.
THEOREM TypeCorrect == Spec => []TypeOK
<1>1. IInv => TypeOK
  BY CountedType DEF IInv, ProxyInv, RunTypes, Rows, TypeOK
<1>2. QED
  BY <1>1, Invariance, PTL

\* stop() of the proxy returns only when no worker is left and nobody accepts any more,
\* wherever each worker was when it began.
THEOREM TeardownComplete == Spec => []QuietAfterStop
<1>1. IInv => QuietAfterStop
  BY DEF IInv, ProxyInv, Reach, QuietAfterStop
<1>2. QED
  BY <1>1, Invariance, PTL

\* A launcher that gives its row a verdict has torn everything down first: no thread relays
\* and everything recorded was handed to the database.
THEOREM VerdictCorrect == Spec => []VerdictAfterTeardown
<1>1. IInv => VerdictAfterTeardown
  BY DEF IInv, ProxyInv, Reach, Drained, Places, Verdict, VerdictAfterTeardown
<1>2. QED
  BY <1>1, Invariance, PTL

\* A row the monitor closed had a child that is gone, whatever was reaped, reused or
\* restarted between its probe and its update, and no launcher waits for that child.
THEOREM OrphanCorrect == Spec => []OrphanOnly
<1>1. IInv => OrphanOnly
  BY DEF IInv, Places, Swept, OrphanOnly
<1>2. QED
  BY <1>1, Invariance, PTL

\* The first to close the row, launcher or monitor, decides what it says for good.
THEOREM VerdictFinal == Spec => TerminalFinal
<1>1. ASSUME IInv, Next, row.status \in {"completed", "interrupted"}
      PROVE  row'.status = row.status /\ row'.reason = row.reason
  <2>1. ~OpenSession
    BY <1>1 DEF IInv, Places, OpenSession, At
  <2>2. CASE Launcher
    BY <1>1, <2>2 DEF IInv, RunTypes, Rows, Launcher, StartProxy, PrepareTrust, SpawnChild, RecordChild,
       TryWait, CheckLock, Stopped, Terminate, Reap, JoinWriter, Attribute, CloseSession,
       CloseRow, StartFrame, WaitFrame
  <2>3. CASE Sweep
    BY <1>1, <2>3 DEF Sweep, SweepProbes, SweepCloses, CloseRow
  <2>4. CASE SessionRuns \/ ProxyRuns \/ StartProxyFails \/ LauncherDies \/ ChildExits
             \/ InitReaps \/ PidReused
    BY <2>4 DEF SessionRuns, ProxyRuns, runVars, StartProxyFails, LauncherDies, ChildExits,
       InitReaps, PidReused
  <2>5. QED
    BY <1>1, <2>1, <2>2, <2>3, <2>4 DEF Next
<1>2. IInv /\ [Next]_vars =>
        [row.status \in {"completed", "interrupted"} =>
           row'.status = row.status /\ row'.reason = row.reason]_vars
  BY <1>1
<1>3. QED
  BY <1>2, Invariance, PTL DEF Spec, TerminalFinal
=============================================================================

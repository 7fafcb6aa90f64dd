-------------------------- MODULE ObservationProxy --------------------------
(***************************************************************************)
(* The loopback proxy of an observed run (crates/observe/src/proxy.rs): a  *)
(* listener thread, a worker thread per connection, the bounded channel to *)
(* the writer thread, and the teardown that forces every worker to its end *)
(* by closing its sockets.  Parsing, TLS and the bytes relayed are left    *)
(* out: a worker is where it blocks, and on whom.                          *)
(***************************************************************************)
EXTENDS Integers, FiniteSets

CONSTANTS
  Conns,           \* connections of the observed child
  MaxConnections,  \* ProxyConfig::max_connections
  ChannelCap       \* WRITER_CHANNEL_CAP

ASSUME ProxyAssumption ==
  /\ IsFiniteSet(Conns) /\ MaxConnections \in Nat /\ ChannelCap \in Nat \ {0}

VARIABLES
  listener,  \* the listener thread
  shutdown,  \* the flag it and the workers read
  active,    \* connections counted against the cap
  worker,    \* [Conns -> phase]
  pushing,   \* connections spawned and not yet in the registry
  registry,  \* workers teardown knows of
  client, upstream,  \* [Conns -> ...]: the two sockets of a worker
  slot,      \* connections whose upstream socket teardown can reach
  stop,      \* where teardown is
  closing,   \* workers it has still to close, and then to join
  joining,
  channel,   \* messages queued to the writer
  writer     \* the writer thread

sockets == <<client, upstream, slot>>
stopping == <<stop, closing, joining>>
proxyVars == <<listener, shutdown, active, worker, pushing, registry, sockets, stopping,
               channel, writer>>

\* A worker waits on its client in head, idle and relaying; on the upstream in handshake,
\* waiting and relaying; on the writer in recording and noting.
Phases == {"none", "backlog", "head", "dialling", "dialled", "handshake", "idle", "waiting",
           "relaying", "recording", "noting", "ended", "over"}
Live == {c \in Conns : worker[c] \notin {"none", "backlog", "over"}}

ProxyTypeOK ==
  /\ listener \in {"off", "listening", "pushing", "ended"}
  /\ shutdown \in BOOLEAN /\ active \in 0..Cardinality(Conns)
  /\ worker \in [Conns -> Phases]
  /\ pushing \subseteq Conns /\ registry \subseteq Conns
  /\ client \in [Conns -> {"none", "open", "shut"}]
  /\ upstream \in [Conns -> {"none", "open", "shut"}] /\ slot \subseteq Conns
  /\ stop \in {"no", "flagged", "joined", "taken", "stopped"}
  /\ closing \subseteq Conns /\ joining \subseteq Conns
  /\ channel \in 0..ChannelCap /\ writer \in {"off", "running", "ended"}

ProxyInit ==
  /\ listener = "off" /\ shutdown = FALSE /\ active = 0 /\ pushing = {} /\ registry = {}
  /\ worker = [c \in Conns |-> "none"]
  /\ client = [c \in Conns |-> "none"] /\ upstream = [c \in Conns |-> "none"] /\ slot = {}
  /\ stop = "no" /\ closing = {} /\ joining = {} /\ channel = 0 /\ writer = "off"

\* RunningProxy::start and the spawn of run_writer.
ProxyStarts == listener = "off" /\ listener' = "listening" /\ writer' = "running"

Goto(c, phase) == worker' = [worker EXCEPT ![c] = phase]

(***************************************************************************)
(* The listener thread.                                                    *)
(***************************************************************************)
ChildConnects(c) ==
  /\ worker[c] = "none" /\ listener \in {"listening", "pushing"} /\ Goto(c, "backlog")
  /\ client' = [client EXCEPT ![c] = "open"]
  /\ UNCHANGED <<listener, shutdown, active, pushing, registry, upstream, slot, stopping, channel, writer>>

\* Over the cap, or when the socket cannot be cloned, the connection is dropped.
AcceptDrops(c) ==
  /\ listener = "listening" /\ worker[c] = "backlog" /\ Goto(c, "over")
  /\ client' = [client EXCEPT ![c] = "none"]
  /\ UNCHANGED <<listener, shutdown, active, pushing, registry, upstream, slot, stopping, channel, writer>>

\* Variant: the place is taken by the worker's thread, which may end first.
AcceptUncounted(c) ==
  /\ listener = "listening" /\ ~shutdown /\ worker[c] = "backlog" /\ active < MaxConnections
  /\ active' = active /\ Goto(c, "head")
  /\ pushing' = {c} /\ listener' = "pushing"
  /\ UNCHANGED <<shutdown, registry, sockets, stopping, channel, writer>>

Accept(c) ==
  /\ listener = "listening" /\ ~shutdown /\ worker[c] = "backlog" /\ active < MaxConnections
  /\ active' = active + 1 /\ Goto(c, "head")
  /\ pushing' = {c} /\ listener' = "pushing"
  /\ UNCHANGED <<shutdown, registry, sockets, stopping, channel, writer>>

\* The registry keeps the workers that have not finished.
PushWorker ==
  /\ listener = "pushing" /\ listener' = "listening" /\ pushing' = {}
  /\ registry' = {c \in registry : worker[c] # "over"} \cup pushing
  /\ UNCHANGED <<shutdown, active, worker, sockets, stopping, channel, writer>>

\* The flag is read; or the system has no thread for a worker and spawn panics.
ListenerEnds ==
  /\ listener = "listening" /\ listener' = "ended"
  /\ IF shutdown THEN active' = active
     ELSE /\ \E c \in Conns : worker[c] = "backlog"
          /\ active < MaxConnections /\ active' = active + 1
  /\ worker' = [c \in Conns |-> IF worker[c] = "backlog" THEN "over" ELSE worker[c]]
  /\ client' = [c \in Conns |-> IF worker[c] = "backlog" THEN "none" ELSE client[c]]
  /\ UNCHANGED <<shutdown, pushing, registry, upstream, slot, stopping, channel, writer>>

(***************************************************************************)
(* A worker.  Every read has a timeout, so a wait may end without cause.   *)
(***************************************************************************)
WorkerFrame ==
  UNCHANGED <<listener, shutdown, active, pushing, registry, stopping, channel, writer>>

\* The head arrives and is authenticated and dispatched; or it is not (HEAD_DEADLINE).
ReadHead(c) ==
  /\ worker[c] = "head" /\ client[c] = "open" /\ Goto(c, "dialling")
  /\ WorkerFrame /\ UNCHANGED sockets
NoHead(c) == worker[c] = "head" /\ Goto(c, "ended") /\ WorkerFrame /\ UNCHANGED sockets

\* Policy and resolution: refused, and noted; or the client is gone when it is answered.
Denied(c) ==
  /\ worker[c] = "dialling" /\ \E next \in {"noting", "ended"} :
       (next = "ended" => client[c] = "shut") /\ Goto(c, next)
  /\ WorkerFrame /\ UNCHANGED sockets

\* connect_any, each attempt within CONNECT_TIMEOUT.
Dial(c) ==
  /\ worker[c] = "dialling"
  /\ \/ upstream' = [upstream EXCEPT ![c] = "open"] /\ Goto(c, "dialled")
     \/ upstream' = upstream /\ Goto(c, "noting")
  /\ WorkerFrame /\ UNCHANGED <<client, slot>>

\* register_upstream: the socket is put where teardown finds it, if it can be cloned.  The
\* worker goes on to a tunnel, a handshake, or the one exchange of plain HTTP.
Register(c) ==
  /\ worker[c] = "dialled" /\ (slot' = slot \/ slot' = slot \cup {c})
  /\ \E next \in {"relaying", "handshake", "waiting"} : Goto(c, next)
  /\ WorkerFrame /\ UNCHANGED <<client, upstream>>

Handshake(c) ==
  /\ worker[c] = "handshake"
  /\ \E next \in {"noting", "idle"} : (next = "idle" => upstream[c] = "open") /\ Goto(c, next)
  /\ WorkerFrame /\ UNCHANGED sockets

\* Between requests: another one; or shutdown, the client's end, or its timeout.
NextRequest(c) ==
  /\ worker[c] = "idle" /\ client[c] = "open" /\ Goto(c, "waiting")
  /\ WorkerFrame /\ UNCHANGED sockets
NoRequest(c) == worker[c] = "idle" /\ Goto(c, "ended") /\ WorkerFrame /\ UNCHANGED sockets

\* The upstream answers.  Plain HTTP has one exchange, a 101 an opaque relay after it.
Answer(c) ==
  /\ worker[c] = "waiting" /\ upstream[c] = "open"
  /\ \E next \in {"recording", "noting", "relaying"} : Goto(c, next)
  /\ WorkerFrame /\ UNCHANGED sockets

\* Variant: no read timeout on the upstream socket.
NoAnswerIfShut(c) ==
  /\ worker[c] \in {"waiting", "relaying"} /\ upstream[c] = "shut" /\ Goto(c, "noting")
  /\ WorkerFrame /\ UNCHANGED sockets

\* It is closed, or IO_TIMEOUT passes.
NoAnswer(c) ==
  /\ worker[c] \in {"waiting", "relaying"} /\ Goto(c, "noting")
  /\ WorkerFrame /\ UNCHANGED sockets

\* ChannelSink blocks while the channel is full; without a writer it fails at once.
Send(c) ==
  /\ worker[c] \in {"recording", "noting"}
  /\ \/ writer # "running" /\ channel' = channel
     \/ writer = "running" /\ channel < ChannelCap /\ channel' = channel + 1
  /\ Goto(c, IF worker[c] = "recording" THEN "idle" ELSE "ended")
  /\ UNCHANGED <<listener, shutdown, active, pushing, registry, sockets, stopping, writer>>

\* The thread ends, a panic included: its sockets are dropped, CountGuard gives the place
\* back.
WorkerEnds(c) ==
  /\ worker[c] = "ended" /\ Goto(c, "over") /\ active' = active - 1
  /\ client' = [client EXCEPT ![c] = "none"] /\ upstream' = [upstream EXCEPT ![c] = "none"]
  /\ slot' = slot \ {c}
  /\ UNCHANGED <<listener, shutdown, pushing, registry, stopping, channel, writer>>

WorkerStep(c) ==
  \/ ReadHead(c) \/ NoHead(c) \/ Denied(c) \/ Dial(c) \/ Register(c) \/ Handshake(c)
  \/ NextRequest(c) \/ NoRequest(c) \/ Answer(c) \/ NoAnswer(c) \/ Send(c) \/ WorkerEnds(c)

(***************************************************************************)
(* Teardown (RunningProxy::stop) and the writer thread.                    *)
(***************************************************************************)
StopFrame == UNCHANGED <<listener, active, worker, pushing, channel, writer>>

StopFlag ==
  /\ stop = "no" /\ stop' = "flagged" /\ shutdown' = TRUE
  /\ StopFrame /\ UNCHANGED <<registry, sockets, closing, joining>>

\* Variant: without waiting for the listener, which may be accepting.
JoinListenerNot ==
  /\ stop = "flagged" /\ stop' = "joined"
  /\ StopFrame /\ UNCHANGED <<shutdown, registry, sockets, closing, joining>>

JoinListener ==
  /\ stop = "flagged" /\ listener = "ended" /\ stop' = "joined"
  /\ StopFrame /\ UNCHANGED <<shutdown, registry, sockets, closing, joining>>

TakeWorkers ==
  /\ stop = "joined" /\ stop' = "taken"
  /\ closing' = registry /\ joining' = registry /\ registry' = {}
  /\ StopFrame /\ UNCHANGED <<shutdown, sockets>>

\* Both sockets of one worker; the upstream only if it is registered by now.
CloseSockets(c) ==
  /\ stop = "taken" /\ c \in closing /\ closing' = closing \ {c} /\ stop' = stop
  /\ client' = IF client[c] = "open" THEN [client EXCEPT ![c] = "shut"] ELSE client
  /\ upstream' = IF c \in slot THEN [upstream EXCEPT ![c] = "shut"] ELSE upstream
  /\ StopFrame /\ UNCHANGED <<shutdown, registry, slot, joining>>

JoinWorkers ==
  /\ stop = "taken" /\ closing = {} /\ \A c \in joining : worker[c] = "over"
  /\ stop' = "stopped" /\ joining' = {}
  /\ StopFrame /\ UNCHANGED <<shutdown, registry, sockets, closing>>

Teardown ==
  \/ JoinListener \/ TakeWorkers \/ JoinWorkers \/ \E c \in Conns : CloseSockets(c)

\* It cannot open the database, and returns; every send fails from then on.
WriterFails ==
  /\ writer = "running" /\ writer' = "ended" /\ channel' = 0
  /\ UNCHANGED <<listener, shutdown, active, worker, pushing, registry, sockets, stopping>>

WriteEvent ==
  /\ writer = "running" /\ channel > 0 /\ channel' = channel - 1
  /\ UNCHANGED <<listener, shutdown, active, worker, pushing, registry, sockets, stopping, writer>>

\* The channel closes when the last sender is dropped: those of the workers, of the
\* listener, and the launcher's own.
WriterEnds(dropped) ==
  /\ writer = "running" /\ channel = 0 /\ dropped
  /\ Live = {} /\ listener = "ended" /\ writer' = "ended"
  /\ UNCHANGED <<listener, shutdown, active, worker, pushing, registry, sockets, stopping, channel>>

\* The process that runs all of these threads dies, and everything in it is gone.
ProxyDies ==
  /\ listener' = IF listener = "off" THEN "off" ELSE "ended"
  /\ writer' = IF writer = "off" THEN "off" ELSE "ended"
  /\ worker' = [c \in Conns |-> IF worker[c] = "none" THEN "none" ELSE "over"]
  /\ channel' = 0 /\ active' = 0 /\ pushing' = {} /\ registry' = {}
  /\ client' = [c \in Conns |-> "none"] /\ upstream' = client' /\ slot' = {}
  /\ stop' = "stopped" /\ closing' = {} /\ joining' = {} /\ shutdown' = TRUE

ProxyNext ==
  \/ \E c \in Conns : AcceptDrops(c) \/ Accept(c) \/ WorkerStep(c)
  \/ PushWorker \/ ListenerEnds \/ Teardown \/ WriterFails \/ WriteEvent

\* Every thread of the process is scheduled, and every read has a timeout.
ProxyFair ==
  /\ \A c \in Conns : WF_proxyVars(WorkerStep(c))
  /\ WF_proxyVars(PushWorker) /\ WF_proxyVars(ListenerEnds /\ shutdown)
  /\ WF_proxyVars(Teardown) /\ WF_proxyVars(WriteEvent)

(***************************************************************************)
(* Properties.                                                             *)
(***************************************************************************)
\* "NO further traffic is decrypted after this returns": no worker outlives stop, whether it
\* was being accepted, dialling, unregistered or blocked on the writer when stop began.  (A
\* process may also die before its proxy listens.)
QuietAfterStop == stop = "stopped" => Live = {} /\ listener \in {"off", "ended"}
=============================================================================

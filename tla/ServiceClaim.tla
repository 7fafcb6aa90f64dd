---------------------------- MODULE ServiceClaim ----------------------------
(***************************************************************************)
(* Start and stop of the gateway service (gateway/src/service.rs) by       *)
(* processes that share a data directory: the TCP port, the control socket *)
(* with the nonce and pid files beside it, and the retry of service mode.  *)
(*                                                                         *)
(* A socket file, a nonce and a pid are named by the process that made     *)
(* them, and "dead" once that process has ended: they outlive it.  Threads *)
(* are assumed to spawn; what the resident threads do is in the other      *)
(* modules, here only what they hold until they are joined.                *)
(***************************************************************************)
EXTENDS Naturals, FiniteSets

CONSTANTS
  Procs,         \* processes that start a gateway for the directory
  Ports,         \* ports they are told to use; normally the one persisted
  Confirmations, \* VANISHED_VAULT_CONFIRMATIONS
  MaxLaunches,   \* bound: processes started
  MaxMoves       \* bound: times the vault file goes or comes back

NoFile == "absent"
Dead == "dead"

ASSUME ClaimAssumption ==
  /\ Confirmations \in Nat \ {0} /\ MaxLaunches \in Nat /\ MaxMoves \in Nat
  /\ NoFile \notin Procs /\ Dead \notin Procs

VARIABLES
  pc,       \* [Procs -> where the process is in Service::start or Service::stop]
  mode,     \* [Procs -> "service" (retries) or "foreground"]
  port,     \* [Procs -> the port the process uses]
  bound,    \* processes that hold their port
  socket,   \* gateway.sock
  hears,    \* processes whose control socket is open: a connect to it succeeds
  nonce,    \* gateway.nonce
  pid,      \* gateway.pid
  vault,    \* whether vault.db is there
  misses,   \* [Procs -> consecutive samples that did not find it]
  launches, moves

vars == <<pc, mode, port, bound, socket, hears, nonce, pid, vault, misses, launches, moves>>

Starting == {"check", "probe", "port", "examine", "unlink", "bind", "listen", "restrict",
             "nonce", "newNonce", "pid", "newPid", "backoff"}
Stopping == {"stop", "joined", "sock", "sockAgain", "noPid", "noNonce"}
Files == Procs \cup {NoFile, Dead}

TypeOK ==
  /\ pc \in [Procs -> Starting \cup Stopping \cup {"idle", "serving"}]
  /\ mode \in [Procs -> {"service", "foreground"}] /\ port \in [Procs -> Ports]
  /\ bound \subseteq Procs /\ hears \subseteq Procs
  /\ socket \in Files /\ nonce \in Files /\ pid \in Files
  /\ vault \in BOOLEAN /\ misses \in [Procs -> 0..Confirmations]
  /\ launches \in 0..MaxLaunches /\ moves \in 0..MaxMoves

\* A crash may have left any of the files.
Init ==
  /\ pc = [p \in Procs |-> "idle"] /\ mode = [p \in Procs |-> "foreground"]
  /\ \E n \in Ports : port = [p \in Procs |-> n]
  /\ bound = {} /\ hears = {}
  /\ socket \in {NoFile, Dead} /\ nonce \in {NoFile, Dead} /\ pid = nonce
  /\ vault = TRUE /\ misses = [p \in Procs |-> 0] /\ launches = 0 /\ moves = 0

At(p, where) == pc[p] = where
Goto(p, where) == pc' = [pc EXCEPT ![p] = where]

\* What a process made does not go with it.
Left(file, p) == IF file = p THEN Dead ELSE file

\* UnixStream::connect: somebody listens on the socket file that is there now.
Connects == socket \in hears

\* Variant: a failed start cleans up by name, like stop.
FailCleans(p) ==
  /\ Goto(p, IF mode[p] = "service" THEN "backoff" ELSE "idle")
  /\ bound' = bound \ {p} /\ hears' = hears \ {p}
  /\ socket' = Left(socket, p) /\ nonce' = NoFile /\ pid' = NoFile
\* Service::start returns an error: what it held is dropped, and service mode tries again.
Fail(p) ==
  /\ Goto(p, IF mode[p] = "service" THEN "backoff" ELSE "idle")
  /\ bound' = bound \ {p} /\ hears' = hears \ {p}
  /\ socket' = Left(socket, p) /\ nonce' = Left(nonce, p) /\ pid' = Left(pid, p)

(***************************************************************************)
(* run_as_service and Service::start.                                      *)
(***************************************************************************)
Launch(p) ==
  /\ At(p, "idle") /\ launches < MaxLaunches /\ launches' = launches + 1
  /\ \E m \in {"service", "foreground"}, n \in Ports :
       /\ mode' = [mode EXCEPT ![p] = m] /\ port' = [port EXCEPT ![p] = n]
       /\ Goto(p, IF m = "service" THEN "check" ELSE "probe")
  /\ misses' = [misses EXCEPT ![p] = 0]
  /\ UNCHANGED <<bound, socket, hears, nonce, pid, vault, moves>>

\* Before each attempt service mode looks for the vault, once.
CheckVault(p) ==
  /\ At(p, "check") /\ Goto(p, IF vault THEN "probe" ELSE "idle")
  /\ UNCHANGED <<mode, port, bound, socket, hears, nonce, pid, vault, misses, launches, moves>>

Retry(p) ==
  /\ At(p, "backoff") /\ Goto(p, "check")
  /\ UNCHANGED <<mode, port, bound, socket, hears, nonce, pid, vault, misses, launches, moves>>

\* instance_is_live.
Probe(p) ==
  /\ At(p, "probe")
  /\ \/ Connects /\ Fail(p)
     \/ ~Connects /\ Goto(p, "port") /\ UNCHANGED <<bound, socket, hears, nonce, pid>>
  /\ UNCHANGED <<mode, port, vault, misses, launches, moves>>

Free(n) == \A q \in bound : port[q] # n

\* Listener::bind.
BindPort(p) ==
  /\ At(p, "port")
  /\ \/ ~Free(port[p]) /\ Fail(p)
     \/ /\ Free(port[p]) /\ bound' = bound \cup {p} /\ Goto(p, "examine")
        /\ UNCHANGED <<socket, hears, nonce, pid>>
  /\ UNCHANGED <<mode, port, vault, misses, launches, moves>>

\* Variant: any socket file means another instance.
ExamineTimid(p) ==
  /\ At(p, "examine")
  /\ \/ socket # NoFile /\ Fail(p)
     \/ socket = NoFile /\ Goto(p, "bind") /\ UNCHANGED <<bound, socket, hears, nonce, pid>>
  /\ UNCHANGED <<mode, port, vault, misses, launches, moves>>
\* bind_exclusive: a socket nobody answers on is replaced.
Examine(p) ==
  /\ At(p, "examine")
  /\ \/ Connects /\ Fail(p)
     \/ /\ ~Connects /\ Goto(p, IF socket = NoFile THEN "bind" ELSE "unlink")
        /\ UNCHANGED <<bound, socket, hears, nonce, pid>>
  /\ UNCHANGED <<mode, port, vault, misses, launches, moves>>

\* It removes what is at the path now, which need not be what did not answer.
Unlink(p) ==
  /\ At(p, "unlink") /\ socket' = NoFile /\ Goto(p, "bind")
  /\ UNCHANGED <<mode, port, bound, hears, nonce, pid, vault, misses, launches, moves>>

Bind(p) ==
  /\ At(p, "bind")
  /\ \/ socket # NoFile /\ Fail(p)
     \/ /\ socket = NoFile /\ socket' = p /\ Goto(p, "listen")
        /\ UNCHANGED <<bound, hears, nonce, pid>>
  /\ UNCHANGED <<mode, port, vault, misses, launches, moves>>

Listen(p) ==
  /\ At(p, "listen") /\ hears' = hears \cup {p} /\ Goto(p, "restrict")
  /\ UNCHANGED <<mode, port, bound, socket, nonce, pid, vault, misses, launches, moves>>

\* restrict and access_is_still_restricted need a file at the path.
Restrict(p) ==
  /\ At(p, "restrict")
  /\ \/ socket = NoFile /\ Fail(p)
     \/ socket # NoFile /\ Goto(p, "nonce") /\ UNCHANGED <<bound, socket, hears, nonce, pid>>
  /\ UNCHANGED <<mode, port, vault, misses, launches, moves>>

\* write_private removes the file, and creates it if nobody else did meanwhile.
WriteNonce(p) ==
  /\ \/ At(p, "nonce") /\ nonce' = NoFile /\ Goto(p, "newNonce") /\ UNCHANGED <<bound, hears, socket, pid>>
     \/ /\ At(p, "newNonce") /\ nonce = NoFile /\ nonce' = p /\ Goto(p, "pid")
        /\ UNCHANGED <<bound, hears, socket, pid>>
     \/ At(p, "newNonce") /\ nonce # NoFile /\ Fail(p)
  /\ UNCHANGED <<mode, port, vault, misses, launches, moves>>

WritePid(p) ==
  /\ \/ At(p, "pid") /\ pid' = NoFile /\ Goto(p, "newPid") /\ UNCHANGED <<bound, hears, socket, nonce>>
     \/ /\ At(p, "newPid") /\ pid = NoFile /\ pid' = p /\ Goto(p, "serving")
        /\ UNCHANGED <<bound, hears, socket, nonce>>
     \/ At(p, "newPid") /\ pid # NoFile /\ Fail(p)
  /\ UNCHANGED <<mode, port, vault, misses, launches, moves>>

(***************************************************************************)
(* run_until_stopped_or and Service::stop.                                 *)
(***************************************************************************)
\* The shutdown flag is set, by the control channel or a signal.
RequestStop(p) ==
  /\ At(p, "serving") /\ Goto(p, "stop")
  /\ UNCHANGED <<mode, port, bound, socket, hears, nonce, pid, vault, misses, launches, moves>>

\* Service mode samples the vault about once a second.
SampleVault(p) ==
  LET n == IF vault THEN 0 ELSE misses[p] + 1 IN
  /\ At(p, "serving") /\ mode[p] = "service"
  /\ misses' = [misses EXCEPT ![p] = n]
  /\ Goto(p, IF n = Confirmations THEN "stop" ELSE "serving")
  /\ UNCHANGED <<mode, port, bound, socket, hears, nonce, pid, vault, launches, moves>>

\* The accept thread drains and ends, its listener with it; the control thread still serves.
JoinListener(p) ==
  /\ At(p, "stop") /\ bound' = bound \ {p} /\ Goto(p, "joined")
  /\ UNCHANGED <<mode, port, socket, hears, nonce, pid, vault, misses, launches, moves>>

\* ControlServer::stop joins its thread; the listener goes, the file stays for now.
StopControl(p) ==
  /\ At(p, "joined") /\ hears' = hears \ {p} /\ Goto(p, "sock")
  /\ UNCHANGED <<mode, port, bound, socket, nonce, pid, vault, misses, launches, moves>>

\* Then the files, each by its name: the socket (stop, and again when the server is
\* dropped), the pid, the nonce.
RemoveFiles(p) ==
  /\ \/ At(p, "sock") /\ socket' = NoFile /\ Goto(p, "sockAgain") /\ UNCHANGED <<nonce, pid>>
     \/ At(p, "sockAgain") /\ socket' = NoFile /\ Goto(p, "noPid") /\ UNCHANGED <<nonce, pid>>
     \/ At(p, "noPid") /\ pid' = NoFile /\ Goto(p, "noNonce") /\ UNCHANGED <<socket, nonce>>
     \/ At(p, "noNonce") /\ nonce' = NoFile /\ Goto(p, "idle") /\ UNCHANGED <<socket, pid>>
  /\ UNCHANGED <<mode, port, bound, hears, vault, misses, launches, moves>>

(***************************************************************************)
(* Everything else.                                                        *)
(***************************************************************************)
\* The process is killed: what it made stays.
Die(p) ==
  /\ ~At(p, "idle") /\ Goto(p, "idle") /\ bound' = bound \ {p} /\ hears' = hears \ {p}
  /\ socket' = Left(socket, p) /\ nonce' = Left(nonce, p) /\ pid' = Left(pid, p)
  /\ UNCHANGED <<mode, port, vault, misses, launches, moves>>

\* backup::restore renames vault.db aside and puts another one there.
MoveVault ==
  /\ moves < MaxMoves /\ moves' = moves + 1 /\ vault' = ~vault
  /\ UNCHANGED <<pc, mode, port, bound, socket, hears, nonce, pid, misses, launches>>

Start(p) ==
  \/ CheckVault(p) \/ Retry(p) \/ Probe(p) \/ BindPort(p) \/ Examine(p) \/ Unlink(p) \/ Bind(p)
  \/ Listen(p) \/ Restrict(p) \/ WriteNonce(p) \/ WritePid(p)
Stop(p) == JoinListener(p) \/ StopControl(p) \/ RemoveFiles(p)

Next ==
  \/ \E p \in Procs : Launch(p) \/ Start(p) \/ RequestStop(p) \/ SampleVault(p) \/ Stop(p) \/ Die(p)
  \/ MoveVault

Spec == Init /\ [][Next]_vars

\* A process that runs goes on; nothing is assumed of who launches, stops or kills it.
FairSpec == Spec /\ \A p \in Procs : WF_vars(Start(p)) /\ WF_vars(Stop(p))

(***************************************************************************)
(* Properties.                                                             *)
(***************************************************************************)
\* With one port for all, the files of a gateway that serves are safe from every start, however
\* far it gets before it fails: only the tail of another gateway's stop can take them.
StartsSpareOwner ==
  [][\A p \in Procs : pc[p] = "serving" /\ pc'[p] = "serving" =>
       \/ /\ socket = p => socket' = p
          /\ nonce = p => nonce' = p
          /\ pid = p => pid' = p
       \/ \E q \in Procs : pc[q] \in Stopping /\ pc'[q] # pc[q]]_vars

\* Service mode comes up: whatever crashes left behind, a process that is alone and has its
\* vault does not retry for ever.
ServiceComesUp ==
  \A p \in Procs :
    []<>(\/ pc[p] \in {"idle", "serving"} \/ ~vault
         \/ \E q \in Procs \ {p} : pc[q] # "idle")

\* service.rs:511, a process must not delete the owner's files "out from under it".  The
\* code does not keep this (see the README).
OwnerKeepsFiles ==
  \A p \in Procs : pc[p] = "serving" => socket = p /\ nonce = p /\ pid = p

\* service.rs:578, a vault that is gone is confirmed before the service unloads for good.
\* Nor does it keep this.
UnloadConfirmed ==
  [][\A p \in Procs : pc[p] = "check" /\ pc'[p] = "idle" => misses[p] >= Confirmations]_vars
=============================================================================

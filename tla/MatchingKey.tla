---------------------------- MODULE MatchingKey ----------------------------
(***************************************************************************)
(* The life of the gateway's resident matching key                         *)
(* (crates/gateway/src/service.rs, control.rs, and the half of forward.rs  *)
(* and writer.rs that uses the key).                                       *)
(*                                                                         *)
(* One control thread serves one request at a time: push, revoke, vault    *)
(* locked, vault unlocked, shutdown.  The poller thread enforces the       *)
(* bounded keep-while-locked window.  Connection threads digest what they  *)
(* forward under the key they find; the writer resolves the digest against *)
(* the matcher it holds when it reaches the record in the channel.  The    *)
(* main thread runs Service::stop.                                         *)
(*                                                                         *)
(* A key and a matcher are the number of the push that brought them.  The  *)
(* window is what is left of it on the monotonic and on the wall clock:    *)
(* the first stands still while the machine sleeps, the second may be set. *)
(* GatewayWriter models the channel and its worker in full; here they are  *)
(* a bounded queue that is applied message by message.                     *)
(***************************************************************************)
EXTENDS Integers, Sequences

CONSTANTS
  Exchanges,   \* forwarded exchanges
  MaxPush,     \* bound: how often a key is pushed
  Ttls,        \* the ttl_minutes a locking session may send; 0 is "none" too
  Cap,         \* MATCH_WHILE_LOCKED_TTL_CAP_MINUTES
  Capacity     \* QUEUE_CAPACITY

ASSUME KeyAssumption ==
  /\ MaxPush \in Nat /\ Ttls \subseteq Nat
  /\ Cap \in Nat \ {0} /\ Capacity \in Nat \ {0}

NoKey == 0
NoWindow == [mono |-> -1, wall |-> -1]

VARIABLES
  key,        \* Gateway::matching_key
  chan,       \* the writer's channel: pushes, clears and records
  matcher,    \* the writer's matcher
  writerUp,   \* FALSE once Writer::stop returned: the channel is disconnected
  window,     \* KeyRetention::deadline
  expired,    \* KeyRetention::expired
  shutdown,   \* Gateway::shutdown
  ctl,        \* the control thread's place in dispatch
  poll,       \* the poller thread's place in its loop
  stop,       \* the main thread's place in Service::stop
  pushes,     \* how many pushes began
  ex,         \* each exchange: where it is and the key it was digested under
  resolvedBy, \* the matcher each record was resolved against (history)
  revoked,    \* the last answered request dropped the key, no push since (history)
  locked,     \* the vault reported itself locked, no unlock or push since (history)
  age         \* monotonic time since the window was first armed (history)

service == <<key, chan, matcher, writerUp, window, expired, shutdown>>
threads == <<ctl, poll, stop>>
history == <<resolvedBy, revoked, locked, age>>
vars == <<service, threads, pushes, ex, history>>

Keys == 0..MaxPush
Records == [rec : Exchanges]
Messages == [install : Keys] \cup Records

TypeOK ==
  /\ key \in Keys /\ matcher \in Keys /\ pushes \in Keys
  /\ chan \in Seq(Messages) /\ Len(chan) <= Capacity
  /\ window \in {NoWindow} \cup [mono : 0..Cap, wall : 0..Cap]
  /\ writerUp \in BOOLEAN /\ expired \in BOOLEAN /\ shutdown \in BOOLEAN
  /\ ctl \in {"idle", "send", "install", "disarm", "policy", "drop", "clear"}
  /\ poll \in {"top", "enforce", "drop", "clear", "done"}
  /\ stop \in {"run", "clear", "disarm", "listener", "poller", "writer", "control", "exited"}
  /\ ex \in [Exchanges -> [at : {"new", "open", "sent", "done"}, under : Keys]]
  /\ resolvedBy \in [Exchanges -> Keys]
  /\ revoked \in BOOLEAN /\ locked \in BOOLEAN /\ age \in Nat

\* Service::start, after which nothing of an earlier process is left.
Init ==
  /\ key = NoKey /\ matcher = NoKey /\ pushes = 0
  /\ chan = <<>> /\ writerUp = TRUE
  /\ window = NoWindow /\ expired = FALSE /\ shutdown = FALSE
  /\ ctl = "idle" /\ poll = "top" /\ stop = "run"
  /\ ex = [e \in Exchanges |-> [at |-> "new", under |-> NoKey]]
  /\ resolvedBy = [e \in Exchanges |-> NoKey]
  /\ revoked = FALSE /\ locked = FALSE /\ age = 0

(***************************************************************************)
(* KeyRetention.                                                           *)
(***************************************************************************)
Smaller(a, b) == IF a <= b THEN a ELSE b
Armed == window # NoWindow

\* A request taken for more than the cap, and granted.
Unclamped(ttl) == IF ttl = 0 THEN Cap ELSE ttl

\* effective_retention_minutes: no stated duration means the cap, not forever.
Effective(ttl) == IF ttl = 0 THEN Cap ELSE Smaller(ttl, Cap)

\* Arming that starts the window anew at every lock.
ArmAnew(t) == window' = [mono |-> t, wall |-> t]

\* arm_no_later_than: only the monotonic half of a running window is compared.
Arm(t) ==
  window' = IF Armed /\ window.mono <= t THEN window ELSE [mono |-> t, wall |-> t]

\* Waiting for both clocks.
DueOnBoth == Armed /\ window.mono = 0 /\ window.wall = 0

\* expire_if_due: either clock is enough.
Due == Armed /\ (window.mono = 0 \/ window.wall = 0)

Disarm == window' = NoWindow /\ age' = 0

(***************************************************************************)
(* WriterSink::set_matcher: waits for room with a bound, reports failure.  *)
(***************************************************************************)
Enqueue(m) == writerUp /\ Len(chan) < Capacity /\ chan' = Append(chan, m)
Unsendable == (~writerUp \/ Len(chan) = Capacity) /\ UNCHANGED chan

(***************************************************************************)
(* The control thread.                                                     *)
(***************************************************************************)
CtlAt(pc) == ctl = pc /\ UNCHANGED <<poll, stop>>
\* A request is accepted only while the control server runs.
Accept == CtlAt("idle") /\ stop \notin {"control", "exited"}

\* The key installed before its matcher is on its way.
PushKeyFirst ==
  /\ Accept /\ pushes < MaxPush
  /\ pushes' = pushes + 1 /\ ctl' = "send" /\ key' = pushes + 1
  /\ UNCHANGED <<chan, matcher, writerUp, window, expired, shutdown, ex, history>>

\* push_key: the matcher table is read first.  A failed read ends the request
\* with nothing changed.
PushKey ==
  /\ Accept /\ pushes < MaxPush
  /\ pushes' = pushes + 1 /\ ctl' = "send"
  /\ UNCHANGED <<service, ex, history>>

PushMatcher ==
  /\ CtlAt("send") /\ Enqueue([install |-> pushes]) /\ ctl' = "install"
  /\ UNCHANGED <<key, matcher, writerUp, window, expired, shutdown, pushes, ex, history>>

\* Busy: the client is told, and the key that was there stays.
PushBusy ==
  /\ CtlAt("send") /\ Unsendable /\ ctl' = "idle"
  /\ UNCHANGED <<key, matcher, writerUp, window, expired, shutdown, pushes, ex, history>>

PushInstall ==
  /\ CtlAt("install") /\ key' = pushes /\ ctl' = "disarm" /\ revoked' = FALSE
  /\ UNCHANGED <<chan, matcher, writerUp, window, expired, shutdown, pushes, ex,
                 resolvedBy, locked, age>>

\* disarm and clear_expired; the poller expires nothing between them.
PushFinish ==
  /\ CtlAt("disarm") /\ Disarm /\ expired' = FALSE /\ ctl' = "idle" /\ locked' = FALSE
  /\ UNCHANGED <<key, chan, matcher, writerUp, shutdown, pushes, ex, resolvedBy, revoked>>

\* RevokeKey: the forwarding half first and unconditionally, then the matcher,
\* whose failure is ignored, then the window.
RevokeKey ==
  /\ Accept /\ ctl' = "drop"
  /\ UNCHANGED <<service, pushes, ex, history>>

\* Dropping the key only once the matcher could be cleared.
DropKeyIfClearable ==
  /\ CtlAt("drop") /\ ctl' = "clear"
  /\ key' = IF Len(chan) < Capacity THEN NoKey ELSE key
  /\ UNCHANGED <<chan, matcher, writerUp, window, expired, shutdown, pushes, ex, history>>

DropKey ==
  /\ CtlAt("drop") /\ key' = NoKey /\ ctl' = "clear"
  /\ UNCHANGED <<chan, matcher, writerUp, window, expired, shutdown, pushes, ex, history>>

RevokeFinish ==
  /\ CtlAt("clear") /\ ctl' = "idle"
  /\ Enqueue([install |-> NoKey]) \/ Unsendable
  /\ Disarm /\ revoked' = TRUE
  /\ UNCHANGED <<key, matcher, writerUp, expired, shutdown, pushes, ex, resolvedBy, locked>>

\* VaultLocked with no resident key arms nothing.
LockNoKey ==
  /\ Accept /\ key = NoKey /\ ctl' = "idle" /\ Disarm /\ locked' = TRUE
  /\ UNCHANGED <<key, chan, matcher, writerUp, expired, shutdown, pushes, ex, resolvedBy, revoked>>

LockWithKey ==
  /\ Accept /\ key # NoKey /\ ctl' = "policy"
  /\ UNCHANGED <<service, pushes, ex, history>>

\* lock_disposition: RevokeNow when the toggle is off or cannot be read.
LockRevokes ==
  /\ CtlAt("policy") /\ ctl' = "drop" /\ locked' = TRUE
  /\ UNCHANGED <<service, pushes, ex, resolvedBy, revoked, age>>

LockRetains(ttl) ==
  /\ CtlAt("policy") /\ ctl' = "idle" /\ Arm(Effective(ttl)) /\ locked' = TRUE
  /\ UNCHANGED <<key, chan, matcher, writerUp, expired, shutdown, pushes, ex,
                 resolvedBy, revoked, age>>

VaultUnlocked ==
  /\ Accept /\ ctl' = "idle" /\ Disarm /\ locked' = FALSE
  /\ UNCHANGED <<key, chan, matcher, writerUp, expired, shutdown, pushes, ex, resolvedBy, revoked>>

Shutdown ==
  /\ Accept /\ ctl' = "idle" /\ shutdown' = TRUE
  /\ UNCHANGED <<key, chan, matcher, writerUp, window, expired, pushes, ex, history>>

CtlWorks ==
  \/ PushMatcher \/ PushBusy \/ PushInstall \/ PushFinish
  \/ DropKey \/ RevokeFinish \/ LockRevokes \/ \E ttl \in Ttls : LockRetains(ttl)

(***************************************************************************)
(* The poller thread.                                                      *)
(***************************************************************************)
PollAt(pc) == poll = pc /\ UNCHANGED <<ctl, stop, pushes, ex>>

PollWakes ==
  /\ PollAt("top") /\ poll' = IF shutdown THEN "done" ELSE "enforce"
  /\ UNCHANGED <<service, history>>

PollExpires ==
  /\ PollAt("enforce") /\ Due /\ poll' = "drop" /\ Disarm /\ expired' = TRUE
  /\ UNCHANGED <<key, chan, matcher, writerUp, shutdown, resolvedBy, revoked, locked>>

PollWaits ==
  /\ PollAt("enforce") /\ ~Due /\ poll' = "top"
  /\ UNCHANGED <<service, history>>

PollDrops ==
  /\ PollAt("drop") /\ key' = NoKey /\ poll' = "clear"
  /\ UNCHANGED <<chan, matcher, writerUp, window, expired, shutdown, history>>

PollClears ==
  /\ PollAt("clear") /\ poll' = "top"
  /\ Enqueue([install |-> NoKey]) \/ Unsendable
  /\ UNCHANGED <<key, matcher, writerUp, window, expired, shutdown, history>>

Poller == PollWakes \/ PollExpires \/ PollWaits \/ PollDrops \/ PollClears

(***************************************************************************)
(* Connection threads and the writer.                                      *)
(***************************************************************************)
\* The request head is digested under the key that is there.
Digest(e) ==
  /\ ex[e].at = "new" /\ stop \in {"run", "clear", "disarm", "listener"}
  /\ ex' = [ex EXCEPT ![e] = [at |-> "open", under |-> key]]
  /\ UNCHANGED <<service, threads, pushes, history>>

\* WriterSink::record: never waits; a full channel drops the record.
Record(e) ==
  /\ ex[e].at = "open"
  /\ \/ Enqueue([rec |-> e]) /\ ex' = [ex EXCEPT ![e].at = "sent"]
     \/ Unsendable /\ ex' = [ex EXCEPT ![e].at = "done"]
  /\ UNCHANGED <<key, matcher, writerUp, window, expired, shutdown, threads, pushes, history>>

\* The writer applies a matcher, or attributes a record with the one it has.
Apply ==
  /\ writerUp /\ chan # <<>> /\ chan' = Tail(chan)
  /\ IF Head(chan) \in Records
     THEN LET e == Head(chan).rec IN
          /\ ex' = [ex EXCEPT ![e].at = "done"]
          /\ resolvedBy' = [resolvedBy EXCEPT ![e] = IF ex[e].under = NoKey THEN NoKey ELSE matcher]
          /\ UNCHANGED matcher
     ELSE /\ matcher' = Head(chan).install
          /\ UNCHANGED <<ex, resolvedBy>>
  /\ UNCHANGED <<key, writerUp, window, expired, shutdown, threads, pushes, revoked, locked, age>>

(***************************************************************************)
(* Service::stop, by request or because the vault vanished.                *)
(***************************************************************************)
StopAt(pc) == stop = pc /\ UNCHANGED <<ctl, poll, pushes, ex>>

StopBegins ==
  /\ StopAt("run") /\ shutdown' = TRUE /\ stop' = "clear"
  /\ UNCHANGED <<key, chan, matcher, writerUp, window, expired, history>>

StopClears ==
  /\ StopAt("clear") /\ key' = NoKey /\ stop' = "disarm"
  /\ UNCHANGED <<chan, matcher, writerUp, window, expired, shutdown, history>>

StopDisarms ==
  /\ StopAt("disarm") /\ Disarm /\ stop' = "listener"
  /\ UNCHANGED <<key, chan, matcher, writerUp, expired, shutdown, resolvedBy, revoked, locked>>

\* The listener's drain is bounded: an exchange may still be open.
JoinListener ==
  /\ StopAt("listener") /\ stop' = "poller"
  /\ UNCHANGED <<service, history>>

JoinPoller ==
  /\ StopAt("poller") /\ poll = "done" /\ stop' = "writer"
  /\ UNCHANGED <<service, history>>

\* Writer::stop: the worker is gone, and what it left in the channel with it.
StopWriter ==
  /\ StopAt("writer") /\ writerUp' = FALSE /\ chan' = <<>> /\ stop' = "control"
  /\ UNCHANGED <<key, matcher, window, expired, shutdown, history>>

\* ControlServer::stop joins the thread after the request it is serving.
StopControl ==
  /\ StopAt("control") /\ ctl = "idle" /\ stop' = "exited"
  /\ UNCHANGED <<service, history>>

Stopper ==
  \/ StopClears \/ StopDisarms \/ JoinListener \/ JoinPoller \/ StopWriter \/ StopControl

(***************************************************************************)
(* Time.  Only what is left of a window is seen of the clocks.             *)
(***************************************************************************)
Less(n) == IF n = 0 THEN 0 ELSE n - 1

Tick ==
  /\ Armed /\ window.mono > 0 /\ age <= Cap
  /\ window' = [mono |-> window.mono - 1, wall |-> Less(window.wall)]
  /\ age' = age + 1
  /\ UNCHANGED <<key, chan, matcher, writerUp, expired, shutdown, threads, pushes, ex,
                 resolvedBy, revoked, locked>>

\* The machine sleeps, or the wall clock is set either way.
WallMoves(w) ==
  /\ Armed /\ w # window.wall /\ window' = [window EXCEPT !.wall = w]
  /\ UNCHANGED <<key, chan, matcher, writerUp, expired, shutdown, threads, pushes, ex, history>>

Next ==
  \/ PushKey \/ RevokeKey \/ LockNoKey \/ LockWithKey \/ VaultUnlocked \/ Shutdown
  \/ CtlWorks \/ Poller
  \/ \E e \in Exchanges : Digest(e) \/ Record(e)
  \/ Apply
  \/ StopBegins \/ Stopper
  \/ Tick \/ \E w \in 0..Cap : WallMoves(w)

Spec == Init /\ [][Next]_vars

\* The threads run, and awake time passes.  No request, no exchange and no sleep
\* is owed; a requested shutdown is noticed.
FairSpec ==
  /\ Spec
  /\ WF_vars(CtlWorks) /\ WF_vars(Poller) /\ WF_vars(Apply) /\ WF_vars(Tick)
  /\ WF_vars(shutdown /\ StopBegins) /\ WF_vars(Stopper)

(***************************************************************************)
(* Properties.                                                             *)
(***************************************************************************)
\* Once a revocation or a revoking lock has been answered, no key is resident
\* until a later push installs one, whatever the matcher message did
\* (ServiceControl::revoke_key).
RevokeIsFinal == revoked /\ ctl = "idle" => key = NoKey

\* A digest is never looked up in a matcher table older than the key it was made
\* with: the table travels the records' channel, before its key is installed
\* (ServiceControl::push_key, WriterSink::set_matcher).
MatcherNotOlder ==
  \A e \in Exchanges : resolvedBy[e] # NoKey => resolvedBy[e] >= ex[e].under

\* However often the vault reports itself locked, the window ends within the cap
\* after it was first armed (KeyRetention::arm_no_later_than).
WithinCap == Armed => age + window.mono <= Cap

\* A key that is resident while the vault is locked does not stay: it is dropped,
\* the vault is unlocked or a push renews it, or the service exits
\* (the poller's enforcement of the window, vault_locked).
LockedKeyEnds == (locked /\ key # NoKey) ~> (key = NoKey \/ ~locked \/ stop = "exited")

\* What push_key's comment says: with the key installed the matcher is there,
\* looked at when nothing is under way that could bring it.
KeyHasMatcher ==
  (ctl = "idle" /\ poll \in {"top", "enforce"} /\ chan = <<>> /\ stop = "run" /\ key # NoKey)
    => matcher # NoKey

\* What arm_no_later_than's comment says: a lock while a window runs, and is not
\* yet due, never moves the earlier of its two deadlines back.
Earliest(w) == Smaller(w.mono, w.wall)
LockOnlyTightens ==
  [][ctl = "policy" /\ ctl' = "idle" /\ Armed /\ ~Due =>
       Earliest(window') <= Earliest(window)]_vars
=============================================================================

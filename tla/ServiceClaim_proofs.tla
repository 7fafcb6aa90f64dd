------------------------ MODULE ServiceClaim_proofs ------------------------
(***************************************************************************)
(* Theorems about ServiceClaim, for any number of processes and launches,  *)
(* any crashes and any vault.  What excludes two starts from each other is *)
(* the port and not the socket: whoever touches the files holds its port   *)
(* (Holds), and nobody else has it (Excluded).                             *)
(***************************************************************************)
EXTENDS ServiceClaim, TLAPS

\* Between Listener::bind and the join of the accept thread.
Holding == {"examine", "unlink", "bind", "listen", "restrict", "nonce", "newNonce", "pid",
            "newPid", "serving", "stop"}

Holds == \A p \in Procs : p \in bound <=> pc[p] \in Holding
Excluded == \A p, q \in bound : port[p] = port[q] => p = q

\* A process that starts or serves has not yet confirmed that the vault is gone.
Unconfirmed == \A p \in Procs : pc[p] \in Starting \cup {"serving"} => misses[p] < Confirmations

Inv == TypeOK /\ Holds /\ Excluded /\ Unconfirmed
LEMMA InitInv == Init => Inv
<1> USE ClaimAssumption DEF Init
<1>1. Init => TypeOK
  BY DEF TypeOK, Files, NoFile, Dead
<1>2. Init => Holds /\ Excluded /\ Unconfirmed
  BY DEF Holds, Excluded, Holding, Unconfirmed, Starting
<1>3. QED
  BY <1>1, <1>2 DEF Inv

\* A file keeps its kind when its maker goes.
LEMMA LeftOK ==
  ASSUME NEW f \in Files, NEW p
  PROVE  Left(f, p) \in Files
BY DEF Left, Files

\* A process that ends, or fails to start, holds nothing.
LEMMA Released ==
  ASSUME Inv, NEW p \in Procs, NEW w \in {"idle", "backoff"}, Goto(p, w),
         bound' = bound \ {p}, hears' = hears \ {p},
         socket' = Left(socket, p), nonce' = Left(nonce, p), pid' = Left(pid, p),
         pc[p] # "idle", w = "backoff" => pc[p] \in Starting,
         UNCHANGED <<mode, port, vault, misses, launches, moves>>
  PROVE  Inv'
<1>1. TypeOK'
  <2>1. socket' \in Files /\ nonce' \in Files /\ pid' \in Files
    BY LeftOK DEF Inv, TypeOK
  <2>2. QED
    BY <2>1 DEF Inv, TypeOK, Goto, Starting, Stopping
<1>2. Holds'
  BY DEF Inv, TypeOK, Holds, Holding, Goto
<1>3. Excluded'
  BY DEF Inv, Excluded
<1>4. Unconfirmed'
  BY DEF Inv, TypeOK, Unconfirmed, Starting, Goto
<1>5. QED
  BY <1>1, <1>2, <1>3, <1>4 DEF Inv

LEMMA FailStep ==
  ASSUME Inv, NEW p \in Procs, Fail(p), pc[p] \in Starting,
         UNCHANGED <<mode, port, vault, misses, launches, moves>>
  PROVE  Inv'
<1>1. PICK w \in {"idle", "backoff"} : Goto(p, w)
  BY DEF Fail
<1>2. QED
  BY <1>1, Released DEF Fail, Starting

\* A step that neither takes nor gives back the port.
LEMMA Onward ==
  ASSUME Inv, NEW p \in Procs, NEW w \in Starting \cup Stopping \cup {"idle", "serving"},
         Goto(p, w), w \in Holding <=> pc[p] \in Holding,
         UNCHANGED <<port, bound>>,
         hears' \subseteq Procs, socket' \in Files, nonce' \in Files, pid' \in Files,
         w \in Starting \cup {"serving"} => pc[p] \in Starting,
         UNCHANGED <<mode, vault, misses, launches, moves>>
  PROVE  Inv'
<1>1. TypeOK'
  BY DEF Inv, TypeOK, Goto
<1>2. Holds'
  BY DEF Inv, TypeOK, Holds, Goto
<1>3. Excluded'
  BY DEF Inv, Excluded
<1>4. Unconfirmed'
  BY DEF Inv, TypeOK, Unconfirmed, Goto
<1>5. QED
  BY <1>1, <1>2, <1>3, <1>4 DEF Inv

LEMMA LaunchStep ==
  ASSUME Inv, NEW p \in Procs, Launch(p)
  PROVE  Inv'
<1>1. PICK m \in {"service", "foreground"}, n \in Ports :
        /\ mode' = [mode EXCEPT ![p] = m] /\ port' = [port EXCEPT ![p] = n]
        /\ Goto(p, IF m = "service" THEN "check" ELSE "probe")
  BY DEF Launch
<1>2. ~(p \in bound) /\ pc[p] = "idle"
  BY DEF Launch, At, Inv, Holds, Holding
<1>3. launches' \in 0..MaxLaunches /\ misses' \in [Procs -> 0..Confirmations]
  BY ClaimAssumption DEF Launch, Inv, TypeOK
<1>4. TypeOK'
  BY <1>1, <1>3 DEF Launch, Inv, TypeOK, Goto, Starting
<1>5. Holds'
  BY <1>1, <1>2 DEF Launch, Inv, TypeOK, Holds, Holding, Goto
<1>6. Excluded'
  <2>1. \A q \in bound : port'[q] = port[q]
    BY <1>1, <1>2 DEF Inv, TypeOK
  <2>2. bound' = bound
    BY DEF Launch
  <2>3. QED
    BY <2>1, <2>2 DEF Inv, Excluded
<1>7. Unconfirmed'
  BY <1>1, ClaimAssumption DEF Launch, Inv, TypeOK, Unconfirmed, Goto
<1>8. QED
  BY <1>4, <1>5, <1>6, <1>7 DEF Inv

LEMMA BindPortStep ==
  ASSUME Inv, NEW p \in Procs, BindPort(p)
  PROVE  Inv'
<1>1. CASE ~Free(port[p]) /\ Fail(p)
  BY <1>1, FailStep DEF BindPort, At, Starting
<1>2. CASE /\ Free(port[p]) /\ bound' = bound \cup {p} /\ Goto(p, "examine")
           /\ UNCHANGED <<socket, hears, nonce, pid>>
  <2>1. TypeOK'
    BY <1>2 DEF BindPort, Inv, TypeOK, Goto, Starting
  <2>2. Holds'
    BY <1>2 DEF BindPort, Inv, TypeOK, Holds, Holding, Goto
  <2>3. Excluded'
    BY <1>2 DEF BindPort, Inv, Excluded, Free
  <2>4. Unconfirmed'
    BY <1>2 DEF BindPort, Inv, TypeOK, Unconfirmed, Starting, At, Goto
  <2>5. QED
    BY <2>1, <2>2, <2>3, <2>4 DEF Inv
<1>3. QED
  BY <1>1, <1>2 DEF BindPort

LEMMA JoinStep ==
  ASSUME Inv, NEW p \in Procs, JoinListener(p)
  PROVE  Inv'
<1>1. TypeOK'
  BY DEF JoinListener, Inv, TypeOK, Goto, Stopping
<1>2. Holds'
  BY DEF JoinListener, Inv, TypeOK, Holds, Holding, Goto
<1>3. Excluded'
  BY DEF JoinListener, Inv, Excluded
<1>4. Unconfirmed'
  BY DEF JoinListener, Inv, TypeOK, Unconfirmed, Starting, Goto
<1>5. QED
  BY <1>1, <1>2, <1>3, <1>4 DEF Inv

LEMMA SampleStep ==
  ASSUME Inv, NEW p \in Procs, SampleVault(p)
  PROVE  Inv'
<1> DEFINE n == IF vault THEN 0 ELSE misses[p] + 1
<1> USE ClaimAssumption
<1>1. /\ pc[p] = "serving" /\ misses' = [misses EXCEPT ![p] = n]
      /\ Goto(p, IF n = Confirmations THEN "stop" ELSE "serving")
      /\ UNCHANGED <<mode, port, bound, socket, hears, nonce, pid, vault, launches, moves>>
  BY DEF SampleVault, At
<1>2. misses[p] \in Nat /\ misses[p] < Confirmations
  BY <1>1 DEF Inv, TypeOK, Unconfirmed
<1>3. n \in 0..Confirmations
  BY <1>2
<1> HIDE DEF n
<1>4. misses' \in [Procs -> 0..Confirmations]
  BY <1>1, <1>3 DEF Inv, TypeOK
<1>5. PICK w \in {"stop", "serving"} : Goto(p, w) /\ (w = "serving" => n # Confirmations)
  BY <1>1
<1>6. TypeOK'
  BY <1>1, <1>4, <1>5 DEF Inv, TypeOK, Goto, Stopping
<1>7. Holds'
  BY <1>1, <1>5 DEF Inv, TypeOK, Holds, Holding, Goto
<1>8. Excluded'
  BY <1>1 DEF Inv, Excluded
<1>9. Unconfirmed'
  BY <1>1, <1>3, <1>5 DEF Inv, TypeOK, Unconfirmed, Starting, Goto
<1>10. QED
  BY <1>6, <1>7, <1>8, <1>9 DEF Inv

LEMMA StartStep ==
  ASSUME Inv, NEW p \in Procs, Start(p)
  PROVE  Inv'
<1> DEFINE Same == UNCHANGED <<mode, port, vault, misses, launches, moves>>
<1> USE DEF Inv, TypeOK, At, Starting, Stopping, Holding, Files
<1>1. CASE CheckVault(p)
  <2>1. PICK w \in {"probe", "idle"} : Goto(p, w)
    BY <1>1 DEF CheckVault
  <2>2. QED
    BY <1>1, <2>1, Onward DEF CheckVault
<1>2. CASE Retry(p)
  BY <1>2, Onward DEF Retry
<1>3. CASE Probe(p)
  BY <1>3, Onward, FailStep DEF Probe
<1>4. CASE BindPort(p)
  BY <1>4, BindPortStep
<1>5. CASE Examine(p)
  <2>1. CASE Connects /\ Fail(p)
    BY <1>5, <2>1, FailStep DEF Examine
  <2>2. CASE ~Connects
    <3>1. PICK w \in {"bind", "unlink"} : Goto(p, w)
      BY <1>5, <2>2 DEF Examine
    <3>2. QED
      BY <1>5, <2>2, <3>1, Onward DEF Examine
  <2>3. QED
    BY <1>5, <2>1, <2>2 DEF Examine
<1>6. CASE Unlink(p)
  BY <1>6, Onward DEF Unlink
<1>7. CASE Bind(p)
  BY <1>7, Onward, FailStep DEF Bind
<1>8. CASE Listen(p)
  BY <1>8, Onward DEF Listen
<1>9. CASE Restrict(p)
  BY <1>9, Onward, FailStep DEF Restrict
<1>10. CASE WriteNonce(p)
  BY <1>10, Onward, FailStep DEF WriteNonce
<1>11. CASE WritePid(p)
  BY <1>11, Onward, FailStep DEF WritePid
<1>12. QED
  BY <1>1, <1>2, <1>3, <1>4, <1>5, <1>6, <1>7, <1>8, <1>9, <1>10, <1>11 DEF Start

LEMMA StopStep ==
  ASSUME Inv, NEW p \in Procs, RequestStop(p) \/ SampleVault(p) \/ Stop(p)
  PROVE  Inv'
<1> USE DEF Inv, TypeOK, At, Starting, Stopping, Holding, Files
<1>1. CASE RequestStop(p)
  BY <1>1, Onward DEF RequestStop
<1>2. CASE SampleVault(p)
  BY <1>2, SampleStep
<1>3. CASE JoinListener(p)
  BY <1>3, JoinStep
<1>4. CASE StopControl(p)
  BY <1>4, Onward DEF StopControl
<1>5. CASE RemoveFiles(p)
  BY <1>5, Onward DEF RemoveFiles
<1>6. QED
  BY <1>1, <1>2, <1>3, <1>4, <1>5 DEF Stop

LEMMA DieStep ==
  ASSUME Inv, NEW p \in Procs, Die(p)
  PROVE  Inv'
BY Released DEF Die, At

LEMMA MoveStep ==
  ASSUME Inv, MoveVault
  PROVE  Inv'
<1>1. TypeOK'
  BY ClaimAssumption DEF MoveVault, Inv, TypeOK
<1>2. Holds' /\ Excluded' /\ Unconfirmed'
  BY DEF MoveVault, Inv, Holds, Excluded, Unconfirmed
<1>3. QED
  BY <1>1, <1>2 DEF Inv

LEMMA StepInv == Inv /\ [Next]_vars => Inv'
<1> SUFFICES ASSUME Inv, [Next]_vars PROVE Inv'
  OBVIOUS
<1>1. ASSUME NEW p \in Procs, Launch(p) PROVE Inv'
  BY <1>1, LaunchStep
<1>2. ASSUME NEW p \in Procs, Start(p) PROVE Inv'
  BY <1>2, StartStep
<1>3. ASSUME NEW p \in Procs, RequestStop(p) \/ SampleVault(p) \/ Stop(p) PROVE Inv'
  BY <1>3, StopStep
<1>4. ASSUME NEW p \in Procs, Die(p) PROVE Inv'
  BY <1>4, DieStep
<1>5. CASE MoveVault
  BY <1>5, MoveStep
<1>6. CASE UNCHANGED vars
  BY <1>6 DEF vars, Inv, TypeOK, Holds, Excluded, Unconfirmed
<1>7. QED
  BY <1>1, <1>2, <1>3, <1>4, <1>5, <1>6 DEF Next

LEMMA InvAlways == Spec => []Inv
BY InitInv, StepInv, PTL DEF Spec

\* The variables keep their types: a gateway confirms at most Confirmations misses, and every
\* file is a live process's, a dead one's, or absent.
THEOREM TypeCorrect == Spec => []TypeOK
<1>1. Inv => TypeOK
  BY DEF Inv
<1>2. QED
  BY <1>1, InvAlways, PTL

(***************************************************************************)
(* The files of a gateway that serves.                                     *)
(***************************************************************************)
Kept(p) ==
  /\ socket = p => socket' = p
  /\ nonce = p => nonce' = p
  /\ pid = p => pid' = p

\* Whoever goes without removing anything takes no file of another with it.
LEMMA OthersLeft ==
  ASSUME NEW p \in Procs, NEW q \in Procs, p # q,
         socket' = Left(socket, q), nonce' = Left(nonce, q), pid' = Left(pid, q)
  PROVE  Kept(p)
BY DEF Kept, Left

\* With one port, a process that serves is the only one that holds it.
LEMMA AloneOnPort ==
  ASSUME Inv, \A m, n \in Ports : m = n,
         NEW p \in Procs, NEW q \in Procs, pc[p] = "serving", pc[q] \in Holding
  PROVE  p = q
<1>1. p \in bound /\ q \in bound
  BY DEF Inv, Holds, Holding
<1>2. port[p] = port[q]
  BY DEF Inv, TypeOK
<1>3. QED
  BY <1>1, <1>2 DEF Inv, Excluded

LEMMA StartSpares ==
  ASSUME Inv, \A m, n \in Ports : m = n,
         NEW p \in Procs, NEW q \in Procs, pc[p] = "serving", Start(q)
  PROVE  Kept(p)
<1>1. pc[q] # "serving"
  BY DEF Start, CheckVault, Retry, Probe, BindPort, Examine, Unlink, Bind, Listen, Restrict,
         WriteNonce, WritePid, At
<1>2. ~(pc[q] \in Holding) /\ p # q
  BY <1>1, AloneOnPort
<1>3. CASE Fail(q)
  BY <1>2, <1>3, OthersLeft DEF Fail
<1>4. CASE ~Fail(q) /\ (CheckVault(q) \/ Retry(q) \/ Probe(q) \/ BindPort(q))
  BY <1>4 DEF CheckVault, Retry, Probe, BindPort, Kept
<1>5. CASE Examine(q) \/ Unlink(q) \/ Bind(q) \/ Listen(q) \/ Restrict(q) \/ WriteNonce(q) \/ WritePid(q)
  BY <1>2, <1>5 DEF Examine, Unlink, Bind, Listen, Restrict, WriteNonce, WritePid, At, Holding
<1>6. QED
  BY <1>3, <1>4, <1>5 DEF Start

LEMMA StepSpares ==
  ASSUME Inv, \A m, n \in Ports : m = n, [Next]_vars,
         NEW p \in Procs, pc[p] = "serving", pc'[p] = "serving"
  PROVE  Kept(p) \/ \E q \in Procs : pc[q] \in Stopping /\ pc'[q] # pc[q]
<1>1. ASSUME NEW q \in Procs, Launch(q) PROVE Kept(p)
  BY <1>1 DEF Launch, Kept
<1>2. ASSUME NEW q \in Procs, Start(q) PROVE Kept(p)
  BY <1>2, StartSpares
<1>3. ASSUME NEW q \in Procs,
             RequestStop(q) \/ SampleVault(q) \/ JoinListener(q) \/ StopControl(q)
      PROVE  Kept(p)
  BY <1>3 DEF RequestStop, SampleVault, JoinListener, StopControl, Kept
<1>4. ASSUME NEW q \in Procs, RemoveFiles(q)
      PROVE  pc[q] \in Stopping /\ pc'[q] # pc[q]
  BY <1>4 DEF RemoveFiles, At, Goto, Stopping, Inv, TypeOK
<1>5. ASSUME NEW q \in Procs, Die(q) PROVE Kept(p)
  <2>1. p # q
    BY <1>5 DEF Die, Goto, Inv, TypeOK
  <2>2. QED
    BY <1>5, <2>1, OthersLeft DEF Die
<1>6. CASE MoveVault
  BY <1>6 DEF MoveVault, Kept
<1>7. CASE UNCHANGED vars
  BY <1>7 DEF vars, Kept
<1>8. QED
  BY <1>1, <1>2, <1>3, <1>4, <1>5, <1>6, <1>7 DEF Next, Stop

\* Where every process is told the same port, no start of another gateway, whatever it fails
\* on, touches the socket, nonce or pid of one that serves (Service::start, bind_exclusive).
THEOREM OwnerSpared ==
  ASSUME \A m, n \in Ports : m = n
  PROVE  Spec => StartsSpareOwner
<1>1. Inv /\ [Next]_vars =>
        [\A p \in Procs : pc[p] = "serving" /\ pc'[p] = "serving" =>
           \/ /\ socket = p => socket' = p
              /\ nonce = p => nonce' = p
              /\ pid = p => pid' = p
           \/ \E q \in Procs : pc[q] \in Stopping /\ pc'[q] # pc[q]]_vars
  BY StepSpares DEF Kept
<1>2. QED
  BY <1>1, InvAlways, PTL DEF Spec, StartsSpareOwner
=============================================================================

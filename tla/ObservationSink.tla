--------------------------- MODULE ObservationSink ---------------------------
(***************************************************************************)
(* What the gateway's forwarding path may expect of its observation sink,  *)
(* whatever threads, batches and databases are behind it: a record has one *)
(* outcome; accepted records are settled in the order they were accepted;  *)
(* and the sink discards none it had accepted before it began to close.    *)
(***************************************************************************)

CONSTANT Records

VARIABLES
  outcome,   \* [Records -> what became of the record]
  ahead,     \* [Records -> the unsettled records accepted before it]
  closing,   \* the sink has begun to close
  overtime   \* records accepted since

sinkVars == <<outcome, ahead, closing, overtime>>

Accepted == {r \in Records : outcome[r] = "accepted"}

Init ==
  /\ outcome = [r \in Records |-> "none"] /\ ahead = [r \in Records |-> {}]
  /\ closing = FALSE /\ overtime = {}

Give(S, o) == outcome' = [r \in Records |-> IF r \in S THEN o ELSE outcome[r]]

Accept(r) ==
  /\ outcome[r] = "none" /\ Give({r}, "accepted")
  /\ ahead' = [ahead EXCEPT ![r] = Accepted]
  /\ overtime' = IF closing THEN overtime \cup {r} ELSE overtime
  /\ UNCHANGED closing

\* At once, and for good.
Refuse(r) ==
  /\ outcome[r] = "none" /\ Give({r}, "refused")
  /\ UNCHANGED <<ahead, closing, overtime>>

\* The records of S wait no longer, and nothing waits for them.
Forget(S) == ahead' = [r \in Records |-> IF r \in S THEN {} ELSE ahead[r] \ S]

\* The oldest records are settled, one when it is stored, several when the store is away.
Settle(S) ==
  /\ \A r \in S : ahead[r] \subseteq S
  /\ Give(S, "failed") \/ (Give(S, "stored") /\ \E r \in S : S = {r})
  /\ Forget(S)
  /\ UNCHANGED <<closing, overtime>>

BeginClosing == ~closing /\ closing' = TRUE /\ UNCHANGED <<outcome, ahead, overtime>>

Discard ==
  /\ closing /\ Accepted \subseteq overtime
  /\ Give(Accepted, "lost") /\ Forget(Accepted) /\ UNCHANGED <<closing, overtime>>

Next ==
  \/ \E r \in Records : Accept(r) \/ Refuse(r)
  \/ \E S \in SUBSET Accepted : Settle(S)
  \/ BeginClosing \/ Discard

Spec == Init /\ [][Next]_sinkVars
=============================================================================

--------------------------- MODULE TransactionLog ---------------------------
(****************************************************************************)
(* What a session store promises to its callers, with nothing of files,     *)
(* memory or queues: a log that only grows by whole transactions, none of   *)
(* them twice, and an answer to each.  A transaction is in the log before   *)
(* its caller hears that it committed.  One whose caller heard of a failure,*)
(* or was gone when the process stopped, may be in the log or not.          *)
(****************************************************************************)
EXTENDS Sequences

CONSTANT Requests
VARIABLES
  log,    \* the transactions that a later process will read, in order
  answer  \* what the caller of each knows

Answers == {"new", "pending", "committed", "rejected", "lost"}
Logged(r) == \E i \in DOMAIN log : log[i] = r

Begin == log = <<>> /\ answer = [r \in Requests |-> "new"]

Submit(r) ==
  /\ answer[r] = "new"
  /\ answer' = [answer EXCEPT ![r] = "pending"]
  /\ UNCHANGED log

Persist(r) ==
  /\ answer[r] = "pending" /\ ~Logged(r)
  /\ log' = Append(log, r)
  /\ UNCHANGED answer

Acknowledge(r) ==
  /\ answer[r] = "pending" /\ Logged(r)
  /\ answer' = [answer EXCEPT ![r] = "committed"]
  /\ UNCHANGED log

\* Requests of R are refused together when their store closes.
Refuse(R) ==
  /\ \A r \in R : answer[r] \in {"new", "pending"}
  /\ answer' = [r \in Requests |-> IF r \in R THEN "rejected" ELSE answer[r]]
  /\ UNCHANGED log

\* The process stops; callers that wait never hear.
Stop ==
  /\ answer' = [r \in Requests |-> IF answer[r] = "pending" THEN "lost" ELSE answer[r]]
  /\ UNCHANGED log

Change ==
  \/ \E r \in Requests : Submit(r) \/ Persist(r) \/ Acknowledge(r)
  \/ \E R \in SUBSET Requests : Refuse(R)
  \/ Stop

Promise == Begin /\ [][Change]_<<log, answer>>
=============================================================================

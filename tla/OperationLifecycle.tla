------------------------- MODULE OperationLifecycle -------------------------
(****************************************************************************)
(* What a lane promises about its operations, with nothing of how they are  *)
(* driven: they are accepted one at a time, the open one can be cancelled,  *)
(* and each settles once.  An operation whose cancellation was acknowledged *)
(* never reports completion or failure.                                     *)
(****************************************************************************)
EXTENDS Naturals

CONSTANT MaxOps
VARIABLE status  \* status[i] of the i-th operation

Phases  == {"unaccepted", "running", "cancelling", "completed", "failed", "aborted"}
Open(i) == status[i] \in {"running", "cancelling"}

Begin == status = [i \in 1 .. MaxOps |-> "unaccepted"]

Accept(i) ==
  /\ status[i] = "unaccepted"
  /\ \A j \in 1 .. MaxOps : ~Open(j) /\ (j < i => status[j] # "unaccepted")
  /\ status' = [status EXCEPT ![i] = "running"]

Cancel(i) ==
  /\ status[i] = "running"
  /\ status' = [status EXCEPT ![i] = "cancelling"]

SettleAs(i, outcome) ==
  /\ status[i] = IF outcome = "aborted" THEN "cancelling" ELSE "running"
  /\ status' = [status EXCEPT ![i] = outcome]

Change == \E i \in 1 .. MaxOps :
            \/ Accept(i) \/ Cancel(i)
            \/ \E outcome \in {"completed", "failed", "aborted"} : SettleAs(i, outcome)

Lifecycle == Begin /\ [][Change]_status
=============================================================================

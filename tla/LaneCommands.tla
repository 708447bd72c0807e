----------------------------- MODULE LaneCommands -----------------------------
(****************************************************************************)
(* The commands a host gives to a lane: accepting an operation, submitting  *)
(* and withdrawing input, requesting an abort, driving, and the loss and    *)
(* reopening of the harness that owns the Session.                          *)
(****************************************************************************)
EXTENDS LaneState

\* Mutant: a busy lane accepts.
AcceptRunBusy(withPrompt) ==
  /\ up /\ accepted < MaxOps /\ withPrompt
  /\ accepted' = accepted + 1
  /\ op' = [NoOperation EXCEPT !.id = accepted + 1]
  /\ Deliver(SelectAccepted)
  /\ UNCHANGED <<results, batchVars, responseVars, passVars, hostVars, ran>>

\* acceptRun: the lane must be idle; the acceptance takes the eligible inbox
\* items and, with them or instead of them, the request's own messages.
AcceptRun(withPrompt) ==
  /\ up /\ Idle /\ accepted < MaxOps
  /\ withPrompt \/ \E i \in SelectAccepted : kind[i] \notin {"write", "note"}
  /\ accepted' = accepted + 1
  /\ op' = [NoOperation EXCEPT !.id = accepted + 1]
  /\ Deliver(SelectAccepted)
  /\ UNCHANGED <<results, batchVars, responseVars, passVars, hostVars, ran>>

NextItem(i) == fate[i] = "new" /\ \A j \in Items : fate[j] = "new" => i <= j

\* enqueue, at any time while the harness is open.
Enqueue(i, k) ==
  /\ up /\ NextItem(i) /\ k \in Kinds \intersect {"steer", "followUp", "nextRun"}
  /\ kind' = [kind EXCEPT ![i] = k]
  /\ fate' = [fate EXCEPT ![i] = "queued"]
  /\ payload' = payload \union {i}
  /\ UNCHANGED <<operationVars, batchVars, responseVars, passVars, hostVars, ran>>

Appended(i, k, delivered) ==
  /\ up /\ NextItem(i) /\ k \in Kinds \intersect {"write", "note"}
  /\ kind' = [kind EXCEPT ![i] = k]
  /\ IF delivered # {}
     THEN /\ fate' = [j \in Items |-> IF j \in delivered THEN "delivered" ELSE fate[j]]
          /\ payload' = payload \ delivered
     ELSE /\ fate' = [fate EXCEPT ![i] = "queued"]
          /\ payload' = payload \union {i}
  /\ UNCHANGED <<operationVars, batchVars, responseVars, passVars, hostVars, ran>>

\* Mutants: an append does not wait for a boundary; it overtakes older writes.
AppendAtOnce(i, k)    == Appended(i, k, {i} \union Writes)
AppendOvertaking(i, k) == Appended(i, k, IF Idle THEN {i} ELSE {})

\* append: queued behind a running operation; on an idle lane it flushes the
\* writes queued before it and goes straight to the transcript.
Append(i, k) == Appended(i, k, IF Idle THEN {i} \union Writes ELSE {})

\* cancelQueued: any item that is still in the inbox, whatever its kind.
CancelQueued(i) ==
  /\ up /\ i \in Queued
  /\ fate' = [fate EXCEPT ![i] = "cancelled"]
  /\ payload' = payload \ {i}
  /\ UNCHANGED <<kind, operationVars, batchVars, responseVars, passVars, hostVars, ran>>

\* Mutant: the captured pass is signalled before the request is durable.
RequestAbortSignalling(id, claimed) ==
  /\ up /\ ~abort.queued /\ id \in 1 .. accepted
  /\ LET captured == pass.pc # "off" /\ pass.op = id IN
       /\ abort' = [queued |-> TRUE, op |-> id, captured |-> captured,
                    holds |-> captured /\ ~pass.aborting, claimed |-> claimed]
       /\ pass' = IF captured THEN [pass EXCEPT !.aborting = TRUE, !.signalled = TRUE]
                  ELSE pass
  /\ UNCHANGED <<operationVars, inboxVars, batchVars, responseVars, exec,
                 placing, up, turns, stops, ran>>

\* requestOperationAbort, up to its first await: it captures the pass that is
\* installed now and closes its gate, then queues its command, perhaps behind
\* the claim of a drive.  One request is outstanding at a time.
RequestAbort(id, claimed) ==
  /\ up /\ ~abort.queued /\ id \in 1 .. accepted
  /\ LET captured == pass.pc # "off" /\ pass.op = id IN
       /\ abort' = [queued |-> TRUE, op |-> id, captured |-> captured,
                    holds |-> captured /\ ~pass.aborting, claimed |-> claimed]
       /\ pass' = IF captured THEN [pass EXCEPT !.aborting = TRUE] ELSE pass
  /\ UNCHANGED <<operationVars, inboxVars, batchVars, responseVars, exec,
                 placing, up, turns, stops, ran>>

\* Whom the committed request signals: the pass it captured, on the first
\* request and on repeats; nobody, when the lane no longer runs that operation.
SignalsNobody   == FALSE  \* mutant of SignalsCaptured
SignalsCaptured == op.id = abort.op /\ abort.captured /\ pass.aborting

\* The rest of requestOperationAbort, when its command has the mutation line.
CommitAbort ==
  LET current == op.id = abort.op
      removed == IF current /\ Running THEN QueuedAs({"steer", "followUp"}) ELSE {}
  IN
  /\ up /\ abort.queued
  /\ op' = [op EXCEPT !.cancelled = @ \/ current]
  /\ fate' = [i \in Items |-> IF i \in removed THEN "drained" ELSE fate[i]]
  /\ payload' = payload \ removed
  /\ pass' = [pass EXCEPT !.signalled = @ \/ SignalsCaptured]
  /\ abort' = NoAbort
  /\ UNCHANGED <<kind, accepted, results, batchVars, responseVars, exec, placing,
                 up, turns, stops, ran>>

\* drive: the claim installs a pass for the current operation when none is
\* installed.  A second caller joins it, which changes nothing.
InstallPass(policy) ==
  /\ up /\ ~Idle /\ pass.pc = "off"
  /\ abort.queued => abort.claimed
  /\ pass' = [NoPass EXCEPT !.op = op.id, !.pc = "begin",
                            !.permit = policy.permit, !.waits = policy.waits]
  /\ UNCHANGED <<operationVars, inboxVars, batchVars, responseVars, exec,
                 placing, hostVars, ran>>

\* The completion of driveOperation clears activeDrive.
ClearPass ==
  /\ up /\ pass.pc = "ending"
  /\ ReleasePass
  /\ UNCHANGED <<operationVars, inboxVars, batchVars, responseVars, up, turns,
                 stops, ran>>

\* The process dies, or the harness is closed or faults: everything it only
\* knew is lost.  What the Session stores is all that is left.
Stop ==
  /\ up /\ stops < MaxStops
  /\ up' = FALSE /\ stops' = stops + 1
  /\ pass' = NoPass /\ exec' = AllCalls("idle") /\ placing' = NothingRead
  /\ abort' = NoAbort
  /\ UNCHANGED <<operationVars, inboxVars, batchVars, responseVars, turns, ran>>

\* createAgentHarness and restoreLaneState: the lane state is read back.
Restart ==
  /\ ~up /\ up' = TRUE
  /\ UNCHANGED <<operationVars, inboxVars, batchVars, responseVars, passVars,
                 abort, turns, stops, ran>>

HostStep ==
  \/ \E p \in BOOLEAN : AcceptRun(p)
  \/ \E i \in Items, k \in Kinds : Enqueue(i, k) \/ Append(i, k)
  \/ \E i \in Items : CancelQueued(i)
  \/ \E id \in Ops, claimed \in BOOLEAN : RequestAbort(id, claimed)
  \/ \E policy \in Policies : InstallPass(policy)

=============================================================================

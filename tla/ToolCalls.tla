------------------------------- MODULE ToolCalls -------------------------------
(****************************************************************************)
(* runTools: execution, recovery, staging and placement of the calls of one *)
(* assistant response.  Calls start in source order and run side by side    *)
(* unless the pass is serial; each outcome is staged as it arrives, and the *)
(* staged results are moved to the transcript in source order by a chain of *)
(* placements, each of which reads in one command and commits in another.   *)
(****************************************************************************)
EXTENDS LaneState

Batch     == {c \in Calls : calls[c] # "none"}
Before(c) == {d \in Batch : d < c}

\* Mutant: results are placed as they come.
ReadyAnywhere == {c \in Batch : calls[c] \in Ready}

\* readPlacement: the ready calls that follow the completed ones directly.
ReadyPrefix ==
  IF op.at # "tools" THEN {}
  ELSE {c \in Batch : calls[c] \in Ready
                      /\ \A d \in Before(c) : calls[d] \in Ready \union Done}

KeepLane  == UNCHANGED <<operationVars, inboxVars, responseVars>>
KeepBatch == UNCHANGED <<batchVars, ran>>

\* Move one invocation on, everything else unchanged.
Move(c, state) == exec' = [exec EXCEPT ![c] = state]

\* Mutant: the arguments of a complete batch are kept.
CloseBatchOnly(terminate) ==
  /\ calls' = AllCalls("none") /\ ran' = {} /\ args' = args
  /\ op' = [op EXCEPT !.at = "checkpoint",
               !.cont = IF terminate THEN "may_finish" ELSE "need_assistant"]

\* A complete batch gives way to a checkpoint.
CloseBatch(terminate) ==
  /\ calls' = AllCalls("none") /\ ran' = {} /\ args' = {}
  /\ op' = [op EXCEPT !.at = "checkpoint",
               !.cont = IF terminate THEN "may_finish" ELSE "need_assistant"]

\* commitPlacement: the results that the reader found enter the transcript.
Placed(S) == [c \in Calls |->
  IF c \notin S THEN calls[c] ELSE IF calls[c] = "ready_term" THEN "done_term" ELSE "done"]

CommitPlacement(r) ==
  LET S         == placing[r]
      complete  == \A c \in Batch : Placed(S)[c] \in Done
      terminate == \A c \in Batch : Placed(S)[c] = "done_term"
  IN
  /\ staged' = staged \ S
  /\ IF complete THEN CloseBatch(terminate)
     ELSE /\ calls' = Placed(S) /\ UNCHANGED <<op, args, ran>>
  /\ placing' = [placing EXCEPT ![r] = {}]
  /\ UNCHANGED <<accepted, results, inboxVars, responseVars, scratch>>

----------------------------------------------------------------------------
(* Entering and leaving the batch                                           *)

\* runTools reads the batch and places what an earlier pass left ready.
EnterTools ==
  /\ up /\ LineFree /\ op.at = "tools"
  /\ \/ pass.pc = "dispatch" /\ Running
     \/ pass.pc = "reconcile"
  /\ placing' = [placing EXCEPT ![0] = ReadyPrefix]
  /\ pass' = [pass EXCEPT !.pc = "tools_place"]
  /\ exec' = exec
  /\ KeepLane /\ KeepBatch /\ UNCHANGED hostVars

\* materializeReady, then the choice between serial and parallel execution.  A
\* batch that is cancelled by now is settled one call after the other.
PlaceLeftovers ==
  /\ Pass("tools_place") /\ LineFree
  /\ IF placing[0] = {} THEN KeepLane /\ KeepBatch /\ UNCHANGED placing
     ELSE CommitPlacement(0)
  /\ pass' = [pass EXCEPT !.pc = "tools", !.serial = op.id \in Serial \/ op.cancelled]
  /\ exec' = exec /\ UNCHANGED hostVars

\* A call keeps the next one from starting until its tool runs, is refused at the
\* gate, or will not be run.
Starting   == {"idle", "hook", "intent", "replay", "invoke"}
Started(c) ==
  \/ calls[c] \in Ready \union Done
  \/ exec[c] \notin Starting
  \/ exec[c] = "invoke" /\ pass.aborting

\* Mutant: a serial pass does not wait for the placement.
CanStartEarly(c) ==
  /\ Pass("tools") /\ op.at = "tools"
  /\ exec[c] = "idle" /\ calls[c] \in {"planned"} \union Pending
  /\ \A d \in Before(c) : Started(d)

\* A call may start when the calls before it have started, or, in a serial
\* pass, when their results are placed.
CanStart(c) ==
  /\ Pass("tools") /\ op.at = "tools"
  /\ exec[c] = "idle" /\ calls[c] \in {"planned"} \union Pending
  /\ \A d \in Before(c) :
       IF pass.serial THEN calls[d] \in Done /\ exec[d] \in {"idle", "end"} ELSE Started(d)

\* Every job has ended; the last of them placed the rest of the batch.
LeaveTools ==
  /\ Pass("tools")
  /\ \A c \in Calls : exec[c] \in {"idle", "end"} /\ ~CanStart(c)
  /\ pass' = [pass EXCEPT !.pc = "dispatch", !.serial = FALSE]
  /\ exec' = AllCalls("idle") /\ UNCHANGED placing
  /\ KeepLane /\ KeepBatch /\ UNCHANGED hostVars

----------------------------------------------------------------------------
(* One invocation.  Each of these steps belongs to the pass: it needs       *)
(* Pass("tools"), which InvocationStep supplies once.                       *)

\* prepareToolInvocation: before_tool is asked at the gate.
StartPlanned(c) ==
  /\ CanStart(c) /\ calls[c] = "planned"
  /\ ~(pass.serial /\ op.cancelled) /\ ~pass.aborting
  /\ Move(c, "hook")
  /\ KeepLane /\ KeepBatch /\ UNCHANGED <<pass, placing, hostVars>>

\* A call that is never executed: truncated, unknown or invalid, refused at
\* the gate (once the cancellation is settled), or planned in a cancelled run.
RefusePlanned(c) ==
  /\ CanStart(c) /\ calls[c] = "planned"
  /\ Move(c, "outcome")
  /\ KeepLane /\ KeepBatch /\ UNCHANGED <<pass, placing, hostVars>>

\* The before_tool decision: clear the call, or block it.
ToolHookReturns(c, cleared) ==
  /\ exec[c] = "hook"
  /\ Move(c, IF cleared THEN "intent" ELSE "outcome")
  /\ KeepLane /\ KeepBatch /\ UNCHANGED <<pass, placing, hostVars>>

\* publishToolIntent: the arguments and the tool's replay class become durable
\* before the tool is invoked, unless the run was cancelled meanwhile.
PublishToolIntent(c, replay) ==
  /\ exec[c] = "intent" /\ LineFree
  /\ IF op.cancelled
     THEN Move(c, "outcome") /\ KeepBatch
     ELSE /\ Move(c, "invoke")
          /\ calls' = [calls EXCEPT ![c] = replay]
          /\ args' = args \union {c}
          /\ UNCHANGED <<scratch, staged, ran>>
  /\ KeepLane /\ UNCHANGED <<pass, placing, hostVars>>

\* Mutant: a call is run again whatever its tool allows.
RecoverByReplay(c) ==
  /\ CanStart(c) /\ calls[c] \in Pending /\ Move(c, "replay")
  /\ KeepLane /\ KeepBatch /\ UNCHANGED <<pass, placing, hostVars>>

\* recoverToolInvocation: a call that was and is replay-safe runs again while
\* the operation is running; any other call is settled as interrupted.
RecoverCall(c) ==
  /\ CanStart(c) /\ calls[c] \in Pending
  /\ \/ calls[c] = "pending_safe" /\ Running /\ Move(c, "replay")
     \/ Move(c, "outcome")
  /\ KeepLane /\ KeepBatch /\ UNCHANGED <<pass, placing, hostVars>>

ClearReplayCheckpoint(c) ==
  /\ exec[c] = "replay" /\ LineFree
  /\ Move(c, "invoke") /\ scratch' = scratch \ {c}
  /\ KeepLane /\ UNCHANGED <<calls, args, staged, ran>>
  /\ UNCHANGED <<pass, placing, hostVars>>

\* executeToolCall passes the gate; a refusal waits for the cancellation and
\* settles the call without running it.
InvokeTool(c) ==
  /\ exec[c] = "invoke"
  /\ \/ /\ ~pass.aborting
        /\ Move(c, "run") /\ ran' = ran \union {c}
     \/ /\ pass.aborting /\ CancellationSettled
        /\ Move(c, "outcome") /\ ran' = ran
  /\ KeepLane /\ UNCHANGED batchVars /\ UNCHANGED <<pass, placing, hostVars>>

\* A memo or an output checkpoint is written while the call is still pending.
WriteScratch(c) ==
  /\ exec[c] = "run" /\ LineFree
  /\ op.at = "tools" /\ calls[c] \in Pending
  /\ scratch' = scratch \union {c}
  /\ KeepLane /\ UNCHANGED <<calls, args, staged, ran>>
  /\ UNCHANGED <<passVars, hostVars>>

\* The tool returns; after_tool may patch the outcome or be refused.
ToolReturns(c, terminate) ==
  /\ exec[c] = "run"
  /\ Move(c, IF terminate THEN "outcome_term" ELSE "outcome")
  /\ KeepLane /\ KeepBatch /\ UNCHANGED <<pass, placing, hostVars>>

\* publishToolOutcome stages the result, running or not; only a running
\* operation keeps the wish to terminate.
PublishToolOutcome(c) ==
  /\ exec[c] \in {"outcome", "outcome_term"} /\ LineFree
  /\ calls' = [calls EXCEPT ![c] =
                 IF Running /\ exec[c] = "outcome_term" THEN "ready_term" ELSE "ready"]
  /\ staged' = staged \union {c} /\ scratch' = scratch \ {c}
  /\ Move(c, "staged")
  /\ KeepLane /\ UNCHANGED <<args, ran>>
  /\ UNCHANGED <<pass, placing, hostVars>>

\* scheduleMaterialization: placements of one pass follow one another, so the
\* second does not read before the first has committed.
PlacementsOverlap == TRUE  \* mutant of NoPlacement
NoPlacement == \A c \in Calls : exec[c] # "placing"
ReadPlacement(c) ==
  /\ exec[c] = "staged" /\ LineFree /\ NoPlacement
  /\ placing' = [placing EXCEPT ![c] = ReadyPrefix]
  /\ Move(c, IF ReadyPrefix = {} THEN "end" ELSE "placing")
  /\ KeepLane /\ KeepBatch /\ UNCHANGED <<pass, hostVars>>

PlaceResults(c) ==
  /\ exec[c] = "placing" /\ LineFree
  /\ CommitPlacement(c)
  /\ Move(c, "end")
  /\ UNCHANGED <<pass, hostVars>>

InvocationStep(c) ==
  /\ Pass("tools")
  /\ \/ StartPlanned(c) \/ RefusePlanned(c)
     \/ \E cleared \in BOOLEAN : ToolHookReturns(c, cleared)
     \/ \E replay \in Pending : PublishToolIntent(c, replay)
     \/ RecoverCall(c) \/ ClearReplayCheckpoint(c)
     \/ InvokeTool(c) \/ WriteScratch(c)
     \/ \E terminate \in BOOLEAN : ToolReturns(c, terminate)
     \/ PublishToolOutcome(c) \/ ReadPlacement(c) \/ PlaceResults(c)

ToolStep == EnterTools \/ PlaceLeftovers \/ LeaveTools
              \/ \E c \in Calls : InvocationStep(c)

=============================================================================

-------------------------------- MODULE LaneRun --------------------------------
(****************************************************************************)
(* One lane with its host: commands, drive passes, tool batches, and the    *)
(* properties its runs must have.                                           *)
(****************************************************************************)
EXTENDS LaneCommands, RunDrive, ToolCalls

HookStep == \/ DriveHookReturns \/ RunHookReturns
            \/ \E followUp \in BOOLEAN : EndHookReturns(followUp)
            \/ PublishGenerationIntent \/ PublishPollIntent

ProviderStep == \/ \E reply \in Replies \union {"aborted"} : ProviderAnswers(reply)
                \/ StreamFrame

ProcedureStep ==
  \/ BeforeDrive \/ CancellationArrives
  \/ DispatchCancelled \/ Reconcile
  \/ StartRun \/ Checkpoint
  \/ PrepareGeneration \/ ConfigurationFailure
  \/ PrepareDeferredPoll \/ CallProvider
  \/ RecoverGeneration \/ PublishResponse
  \/ RetryWait \/ TimerEnds \/ StartRetry

PassStep == HookStep \/ ProviderStep \/ ProcedureStep \/ ToolStep \/ ClearPass

Next == HostStep \/ CommitAbort \/ Stop \/ Restart \/ TimePasses \/ PassStep

Spec == Init /\ [][Next]_vars

\* The event loop runs every pass and every queued command; hooks, providers
\* and tools return; the clock advances; a host that lost its harness opens
\* it again and drives what it finds.  The mutation line is first in, first
\* out, so a claim gets its turn however many abort requests come and go.
Fairness ==
  /\ WF_vars(PassStep) /\ WF_vars(CommitAbort)
  /\ WF_vars(TimePasses) /\ WF_vars(Restart)
  /\ SF_vars(\E policy \in Policies : InstallPass(policy))

FairSpec == Spec /\ Fairness

----------------------------------------------------------------------------
OperationTypeOK ==
  /\ op \in OperationType /\ accepted \in 0 .. MaxOps
  /\ results \in [Ops -> Statuses \union {"none"}]
InboxTypeOK ==
  /\ kind \in [Items -> ItemKinds] /\ fate \in [Items -> Fates]
  /\ payload \subseteq Items
BatchTypeOK ==
  /\ calls \in [Calls -> CallTypes] /\ args \subseteq Calls
  /\ scratch \subseteq Calls /\ staged \subseteq Calls /\ ran \subseteq Calls
ResponseTypeOK ==
  /\ frames \subseteq {"current", "stale"}
  /\ due \in BOOLEAN /\ sent \in BOOLEAN
PassTypeOK ==
  /\ pass \in PassType /\ exec \in [Calls -> ExecType]
  /\ placing \in [Readers -> SUBSET Calls]
HostTypeOK ==
  /\ up \in BOOLEAN /\ abort \in AbortType
  /\ turns \in 0 .. MaxTurns /\ stops \in 0 .. MaxStops

\* Every variable holds a value of its kind.
TypeOK ==
  /\ OperationTypeOK /\ InboxTypeOK /\ BatchTypeOK
  /\ ResponseTypeOK /\ PassTypeOK /\ HostTypeOK

----------------------------------------------------------------------------
(* What the Session and the pass agree on.                                  *)

\* No procedure meets a state its code rejects with SessionInvariantError: the
\* pass drives the current operation (drive.ts), a queued item has its payload
\* (boundary.ts), a ready call its staged result (tool-placement.ts), a pending
\* call its arguments (tools.ts), an aborted response a cancelled operation
\* (response.ts), and a pass that waited for a cancellation finds it durable,
\* so its loop makes progress (drive.ts).
NoInvariantFault ==
  /\ Driving => op.id = pass.op
  /\ Queued \subseteq payload
  /\ \A c \in Calls : calls[c] \in Ready => c \in staged
  /\ \A c \in Calls : calls[c] \in Pending => c \in args
  /\ pass.pc = "respond" /\ pass.response = "aborted" => op.cancelled
  /\ pass.pc = "wait_cancel" /\ CancellationSettled => op.cancelled

\* Nothing is kept that nobody will read: payloads belong to queued items,
\* staged results to ready calls, memos and checkpoints to pending calls,
\* arguments to the batch, frames to the pending response.  On an idle lane
\* only the inbox is left.
NothingLeftBehind ==
  /\ payload \subseteq Queued
  /\ staged \subseteq {c \in Calls : calls[c] \in Ready}
  /\ scratch \subseteq {c \in Calls : calls[c] \in Pending}
  /\ op.at # "tools" => args = {}
  /\ frames \subseteq (IF op.at \in EffectPending THEN {"current"} ELSE {})

\* What readPlacement found in one command still holds when commitPlacement
\* runs in another: no result is placed twice or before it is staged.
PlacementIsCurrent == \A r \in Readers : \A c \in placing[r] : calls[c] \in Ready

\* The gate's signal never fires before the cancellation is durable.
SignalMeansCancelled == Driving /\ pass.signalled => op.cancelled

\* Every provider request and every tool of a cancelled operation has been
\* signalled, also in a pass that was installed while the abort was queued.
CancelledEffectsAreSignalled ==
  op.cancelled /\ (pass.pc = "effect" \/ \E c \in Calls : exec[c] = "run")
    => pass.signalled

\* docs/harness.md: requestAbort wakes a pass that waits for its retry, after
\* the durable cancellation, so that reconciliation runs.
AbortWakesRetryWait == op.cancelled /\ pass.pc = "timer" => pass.signalled

----------------------------------------------------------------------------
(* What a step may never do.                                                *)

RequestStarts == pass.pc # "effect" /\ pass'.pc = "effect"
ToolStarts(c) == exec[c] # "run" /\ exec'[c] = "run"
HookStarts ==
  \/ pass'.pc # pass.pc
     /\ pass'.pc \in {"drive_hook", "run_hook", "end_hook", "request_hook", "poll_hook"}
  \/ \E c \in Calls : exec[c] # "hook" /\ exec'[c] = "hook"

\* Once a cancellation is durable no hook, request, tool or retry timer
\* starts, whatever the pass had read before.
EffectsOnlyWhileRunning ==
  [][ RequestStarts \/ HookStarts \/ (\E c \in Calls : ToolStarts(c))
        \/ (pass.pc # "timer" /\ pass'.pc = "timer") => Running ]_vars

\* A durable response intent is sent to the provider at most once and a tool
\* call runs at most once, over any number of passes and restarts, unless the
\* call's durable record says that its tool is replay-safe.
EffectsHappenOnce ==
  [][ /\ RequestStarts => ~sent
      /\ \A c \in Calls : ToolStarts(c) /\ c \in ran => calls[c] = "pending_safe" ]_vars

\* Results of a batch enter the transcript in source order, and the batch ends
\* only when every call has its result.
ResultsInSourceOrder ==
  [][ \A c \in Calls :
        /\ calls[c] \notin Done /\ calls'[c] \in Done =>
             \A d \in 1 .. (c - 1) : calls'[d] \in Done
        /\ calls[c] # "none" /\ calls'[c] = "none" => calls[c] \in Ready \union Done ]_vars

\* Under sequential execution a tool starts only when the results of all the
\* calls before it are in the transcript.
SerialToolsFollowResults ==
  [][ pass.serial => \A c \in Calls : ToolStarts(c) =>
        \A d \in 1 .. (c - 1) : calls[d] \in Done ]_vars

Class(i) == IF kind[i] \in {"write", "note"} THEN "write" ELSE kind[i]
Enters(i) == fate[i] # "delivered" /\ fate'[i] = "delivered"

\* Input enters the transcript on an idle lane or at a checkpoint, never
\* between a request and its response or a tool call and its result; input of
\* one kind keeps its order; and what left the inbox never enters again.
InputEntersInOrder ==
  [][ \A i \in Items :
        /\ Enters(i) => /\ fate[i] \in {"new", "queued"}
                        /\ Idle \/ op.at = "checkpoint"
                        /\ \A j \in 1 .. (i - 1) :
                             fate[j] = "queued" /\ Class(j) = Class(i)' => Enters(j)
        /\ fate[i] \in {"delivered", "cancelled", "drained"} => fate'[i] = fate[i] ]_vars

\* A run that completes has taken every steering message, follow-up and write
\* there is, also the ones that came while before_run_end was asked.
CompletionTakesAllInput ==
  [][ \A i \in Ops : results[i] = "none" /\ results'[i] = "completed" =>
        \A j \in Items : fate'[j] = "queued" => kind[j] = "nextRun" ]_vars

----------------------------------------------------------------------------
(* Operations, as OperationLifecycle promises them.                         *)

StatusOf(i) ==
  IF results[i] # "none" THEN results[i]
  ELSE IF i # op.id THEN "unaccepted"
  ELSE IF op.cancelled THEN "cancelling" ELSE "running"

Promise == INSTANCE OperationLifecycle WITH status <- [i \in Ops |-> StatusOf(i)]

\* The lane keeps the promise: one open operation, one result each, and no
\* cancelled operation completes or fails.
KeepsLifecycle == Promise!Lifecycle

\* A cancelled operation settles, whatever the host's drives allow them. An
\* accepted one settles when passes that wait and poll as resume() does keep
\* being given to it, and its provider does not defer for ever.
OperationsSettle ==
  \A i \in Ops :
    /\ (op.id = i /\ op.cancelled) ~> results[i] # "none"
    /\ ([]<>(op.id = i /\ pass.op = i /\ pass.permit /\ pass.waits)
          /\ <>[](pass.response # "deferred")) => <>(results[i] # "none")

\* Every pass ends, so that drive() returns: also one that only reports a wait,
\* one whose provider defers again and again (a pass polls once), and one that an
\* abort meets at any of its awaits.
PassesEnd == pass.pc # "off" ~> pass.pc = "off"

=============================================================================

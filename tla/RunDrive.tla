------------------------------- MODULE RunDrive -------------------------------
(****************************************************************************)
(* driveOperation and the procedures of a run other than its tool batches.  *)
(* A step that commits needs the mutation line (LineFree).  A procedure     *)
(* that continues only while control is running (continueOperation) returns *)
(* to the dispatch loop when its command finds the operation cancelled.     *)
(*                                                                          *)
(* Automatic compaction is switched off, so no step enters a summary leaf.  *)
(****************************************************************************)
EXTENDS LaneState

\* continueOperation that returned cancel_requested.
CancelSeen == op.cancelled /\ Goto("dispatch")

Advance(leaf, continuation, attempt) ==
  op' = [op EXCEPT !.at = leaf, !.cont = continuation, !.attempt = attempt]

\* assistantReadyAtBoundary
ReadyForAssistant == Advance("assistant.ready", "need_assistant", 1)

KeepDurable == UNCHANGED <<operationVars, inboxVars, batchVars, responseVars, ran>>
KeepProcess == UNCHANGED <<hostVars, exec, placing>>

----------------------------------------------------------------------------
(* driveOperation                                                           *)

\* before_drive: skipped when the operation is already cancelled.  The state
\* is read here without the mutation line.
BeforeDrive ==
  /\ Pass("begin")
  /\ IF op.cancelled THEN Goto("dispatch") ELSE Admit("drive_hook")
  /\ KeepDurable /\ KeepProcess

DriveHookReturns ==
  /\ Pass("drive_hook")
  /\ Goto("dispatch")
  /\ KeepDurable /\ KeepProcess

\* A refused admission awaits the cancellation, then dispatches again.
CancellationArrives ==
  /\ Pass("wait_cancel") /\ CancellationSettled
  /\ Goto("dispatch")
  /\ KeepDurable /\ KeepProcess

\* reconcileOperation closes and signals the gate of a pass that starts on
\* an already cancelled operation.  A tool batch is entered by its own steps.
DispatchCancelled ==
  /\ Pass("dispatch") /\ op.cancelled
  /\ pass' = [pass EXCEPT !.aborting = TRUE, !.signalled = TRUE, !.pc = "reconcile"]
  /\ KeepDurable /\ KeepProcess

\* The rest of reconcileOperation for every leaf but tools.  An orphaned
\* effect is settled as interrupted; a deferred handle is cancelled at best.
Reconcile ==
  /\ Pass("reconcile") /\ LineFree /\ op.at # "tools"
  /\ IF op.at \in EffectPending
     THEN /\ pass' = [pass EXCEPT !.pc = "respond", !.response = "interrupted"]
          /\ KeepDurable
     ELSE Settle("aborted") /\ UNCHANGED inboxVars
  /\ KeepProcess

----------------------------------------------------------------------------
(* startRun and runCheckpoint                                               *)

StartRun ==
  /\ Command("dispatch", {"starting"}) /\ Running
  /\ Admit("run_hook")
  /\ KeepDurable /\ KeepProcess

RunHookReturns ==
  /\ Command("run_hook", {"starting"})
  /\ \/ CancelSeen /\ KeepDurable
     \/ /\ Running
        /\ Advance("checkpoint", "need_assistant", 0) /\ Goto("dispatch")
        /\ UNCHANGED <<accepted, results, inboxVars, batchVars, responseVars, ran>>
  /\ KeepProcess

\* The boundary delivers what it selected; new input or an unanswered tool
\* batch or prompt asks the assistant again.  Otherwise nothing is committed
\* and before_run_end is asked, with the planned items remembered.
Checkpoint ==
  LET mayFinish == op.cont = "may_finish"
      selected  == SelectAtBoundary(mayFinish)
  IN
  /\ Command("dispatch", {"checkpoint"}) /\ Running
  /\ IF Projecting(selected) # {} \/ ~mayFinish
     THEN /\ Deliver(selected) /\ ReadyForAssistant /\ Goto("dispatch")
          /\ UNCHANGED <<accepted, results, batchVars, responseVars, ran>>
     ELSE /\ IF pass.aborting THEN Goto("wait_cancel")
             ELSE pass' = [pass EXCEPT !.pc = "end_hook", !.plan = selected]
          /\ KeepDurable
  /\ KeepProcess

\* Mutant: the boundary is not planned again.
StalePlan == pass.plan
\* What finishRunBoundary delivers after before_run_end.
FinalPlan == SelectAtBoundary(TRUE)

\* finishRunBoundary: the boundary is planned again after the hook, because
\* input may have arrived; the hook's follow-up counts only if the plan that
\* the hook was asked about still stands.
EndHookReturns(followUp) ==
  /\ Command("end_hook", {"checkpoint"})
  /\ followUp => turns < MaxTurns
  /\ \/ CancelSeen /\ KeepDurable /\ UNCHANGED turns
     \/ /\ Running
        /\ Deliver(FinalPlan)
        /\ IF Projecting(FinalPlan) # {} \/ (followUp /\ FinalPlan = pass.plan)
           THEN /\ ReadyForAssistant
                /\ pass' = [pass EXCEPT !.pc = "dispatch", !.plan = {}]
                /\ UNCHANGED <<accepted, results, batchVars, responseVars, ran>>
           ELSE Settle("completed")
        /\ turns' = IF followUp THEN turns + 1 ELSE turns
  /\ UNCHANGED <<up, abort, stops, exec, placing>>

----------------------------------------------------------------------------
(* runGeneration and runDeferred                                            *)

\* prepareGeneration: the before_request hook of one attempt.
PrepareGeneration ==
  /\ Command("dispatch", {"assistant.ready"}) /\ Running
  /\ Admit("request_hook")
  /\ KeepDurable /\ KeepProcess

\* Mutant: the failure is settled without looking at the control status.
ConfigurationFailureAnyway ==
  /\ Command("dispatch", {"assistant.ready"})
  /\ "fatal" \in Replies
  /\ Settle("failed") /\ UNCHANGED inboxVars
  /\ KeepProcess

\* publishConfigurationFailure: the model or a tool is not available.
ConfigurationFailure ==
  /\ Command("dispatch", {"assistant.ready", "deferred.suspended", "deferred.effect_pending"})
  /\ Running /\ (op.at # "assistant.ready" => pass.permit)
  /\ "fatal" \in Replies
  /\ Settle("failed") /\ UNCHANGED inboxVars
  /\ KeepProcess

\* publishGenerationIntent reserves a new response entry.
PublishGenerationIntent ==
  /\ Command("request_hook", {"assistant.ready"})
  /\ \/ CancelSeen /\ KeepDurable
     \/ /\ Running
        /\ Advance("assistant.effect_pending", op.cont, op.attempt) /\ Goto("call")
        /\ ReserveResponse({})
        /\ UNCHANGED <<accepted, results, inboxVars, batchVars, due, ran>>
  /\ KeepProcess

\* Mutant: a pass polls without a permit.
PrepareAnyPoll ==
  /\ Command("dispatch", {"deferred.suspended", "deferred.effect_pending"}) /\ Running
  /\ Admit("poll_hook") /\ KeepProcess /\ KeepDurable

\* prepareDeferredPoll: without a permit the pass reports the wait and ends.
PrepareDeferredPoll ==
  /\ Command("dispatch", {"deferred.suspended", "deferred.effect_pending"}) /\ Running
  /\ IF pass.permit
     THEN Admit("poll_hook") /\ KeepProcess
     ELSE ReleasePass /\ UNCHANGED <<up, turns, stops>>
  /\ KeepDurable

\* publishPollIntent reserves a new response entry and drops the frames of
\* the poll it replaces.
PublishPollIntent ==
  /\ Command("poll_hook", {"deferred.suspended", "deferred.effect_pending"})
  /\ \/ CancelSeen /\ KeepDurable
     \/ /\ Running
        /\ op' = [op EXCEPT !.at = "deferred.effect_pending"]
        /\ pass' = [pass EXCEPT !.pc = "call", !.permit = FALSE]
        /\ ReserveResponse({"current"})
        /\ UNCHANGED <<accepted, results, inboxVars, batchVars, due, ran>>
  /\ KeepProcess

\* performGeneration, performDeferredPoll: the request passes the gate.
CallProvider ==
  /\ Pass("call")
  /\ Admit("effect")
  /\ sent' = (sent \/ ~pass.aborting)
  /\ UNCHANGED <<operationVars, inboxVars, batchVars, frames, due, ran>> /\ KeepProcess

\* openFrameProgress: a frame is kept while the response is still pending.
StreamFrame ==
  /\ Command("effect", EffectPending)
  /\ frames' = frames \union {"current"}
  /\ UNCHANGED <<operationVars, inboxVars, batchVars, due, sent, pass, ran>> /\ KeepProcess

\* consumeAssistantStream: after_response is gate-admitted; when it is
\* refused the settled message waits for the cancellation.  A provider
\* reports "aborted" only when its signal fired.  MaxTurns bounds the responses
\* that make a run longer; a poll may be deferred again any number of times.
ProviderAnswers(reply) ==
  LET longer == reply = "tools" \/ (reply = "deferred" /\ op.at = "assistant.effect_pending") IN
  /\ Pass("effect")
  /\ reply \in Replies \union {"aborted"}
  /\ reply = "aborted" => pass.signalled
  /\ pass.aborting => CancellationSettled
  /\ longer => turns < MaxTurns
  /\ turns' = IF longer THEN turns + 1 ELSE turns
  /\ pass' = [pass EXCEPT !.pc = "respond", !.response = reply]
  /\ KeepDurable /\ UNCHANGED <<up, abort, stops, exec, placing>>

\* Mutant: the request is sent again.
ResendGeneration ==
  /\ Command("dispatch", {"assistant.effect_pending"}) /\ Running
  /\ Goto("call")
  /\ KeepDurable /\ KeepProcess

\* recoverAssistantGeneration: a request whose outcome is unknown is settled
\* from its frames, never sent again under the same intent.
RecoverGeneration ==
  /\ Command("dispatch", {"assistant.effect_pending"}) /\ Running
  /\ pass' = [pass EXCEPT !.pc = "respond", !.response = "interrupted"]
  /\ KeepDurable /\ KeepProcess

\* Mutant: every failed attempt is retried.
RetriesForever ==
  op.at = "assistant.effect_pending" /\ pass.response \in {"error", "interrupted"}

\* publishResponse: the retry that an error response still has.
Retries ==
  /\ op.at = "assistant.effect_pending"
  /\ pass.response \in {"error", "interrupted"}
  /\ op.attempt < MaxAttempts

PlanBatch(n) == calls' = [c \in Calls |-> IF c <= n THEN "planned" ELSE "none"]

\* publishResponse: any response to a cancelled operation is an aborted one;
\* an aborted response to a running one would be an invariant fault.
PublishResponse ==
  /\ Command("respond", EffectPending)
  /\ pass.response = "aborted" => op.cancelled
  /\ UNCHANGED inboxVars /\ KeepProcess
  /\ IF Running /\ ~Retries /\ pass.response \in {"error", "interrupted", "fatal"}
     THEN Settle("failed")
     ELSE /\ pass' = [pass EXCEPT !.pc = "dispatch", !.response = "none"]
          /\ frames' = frames \ {"current"} /\ due' = FALSE /\ sent' = FALSE
          /\ IF Running /\ pass.response = "tools"
             THEN (\E n \in Calls : PlanBatch(n)) ELSE calls' = calls
          /\ CASE op.cancelled \/ pass.response = "stop" ->
                    Advance("checkpoint", "may_finish", 0)
               [] OTHER ->
                  IF Retries THEN Advance("assistant.retry_wait", op.cont, op.attempt + 1)
                  ELSE Advance(IF pass.response = "tools" THEN "tools"
                               ELSE "deferred.suspended", op.cont, 0)
          /\ UNCHANGED <<accepted, results, args, scratch, staged, ran>>

----------------------------------------------------------------------------
(* runRetryWait                                                             *)

\* The leaf, the clock and the gate are looked at without the mutation line.
RetryWait ==
  /\ Pass("dispatch") /\ op.at = "assistant.retry_wait" /\ Running
  /\ IF due THEN Goto("retry") /\ KeepProcess
     ELSE IF pass.waits THEN Admit("timer") /\ KeepProcess
     ELSE ReleasePass /\ UNCHANGED <<up, turns, stops>>
  /\ KeepDurable

\* Mutant: the timer only listens to the signal.
TimerSleeps ==
  /\ Pass("timer") /\ pass.signalled
  /\ Goto("wait_cancel")
  /\ KeepDurable /\ KeepProcess

\* waitUntil ends when the time has come or the gate's signal fires.
TimerEnds ==
  /\ Pass("timer") /\ (due \/ pass.signalled)
  /\ Goto(IF pass.signalled THEN "wait_cancel" ELSE "retry")
  /\ KeepDurable /\ KeepProcess

StartRetry ==
  /\ Command("retry", {"assistant.retry_wait"})
  /\ \/ CancelSeen /\ KeepDurable
     \/ /\ Running
        /\ Advance("assistant.ready", op.cont, op.attempt) /\ Goto("dispatch")
        /\ UNCHANGED <<accepted, results, inboxVars, batchVars, responseVars, ran>>
  /\ KeepProcess

\* The clock passes notBefore, whether or not a pass is there to see it.
TimePasses ==
  /\ op.at = "assistant.retry_wait" /\ ~due
  /\ due' = TRUE
  /\ UNCHANGED <<operationVars, inboxVars, batchVars, frames, sent, passVars, hostVars, ran>>

=============================================================================

--------------------------- MODULE StructuralDrive ---------------------------
(****************************************************************************)
(* Compaction and navigation on one lane (drive/structural.ts,              *)
(* drive/checkpoint.ts, drive/boundary.ts, drive/response.ts, lane.ts).     *)
(*                                                                          *)
(* A summary is prepared from the transcript in one command, decided and    *)
(* generated between others, and placed in a last one: at the end of an     *)
(* operation of its own, at the checkpoint of a run, or for a navigation.   *)
(* Of a run there is what meets a summary: checkpoint, request, response.   *)
(* The leaves of tools, retries and polls are in RunDrive and ToolCalls, the *)
(* gate in LaneCommands; here an abort is one step, which all that is in    *)
(* flight may answer before or after.                                       *)
(****************************************************************************)
EXTENDS Transcript

CONSTANTS
  Stored,        \* transcripts that the Session may be opened with
  MaxOps,        \* operations the lane accepts
  MaxAttempts,   \* retryPolicy.maxAttempts
  MaxSummaries,  \* summaries in the tree
  Targets,       \* entries that are navigated to, 0 the root
  MaxTurns,      \* responses after which a run asks again
  MaxIncidents   \* entries the host appends, crashes, and drives that do not wait

ASSUME StructuralBounds ==
  /\ \A s \in Stored : s \in Seq(EntryType)
  /\ MaxOps \in Nat \ {0} /\ MaxAttempts \in Nat \ {0}
  /\ MaxSummaries \in Nat /\ Targets \subseteq Nat
  /\ MaxTurns \in Nat /\ MaxIncidents \in Nat

\* What is stored of an entry refers to older entries: session/commit.ts:107 refuses
\* an entry whose parent is not there, and a summary is made from the path it is
\* appended to or leaves.
ASSUME StoredEntriesLookBack ==
  \A s \in Stored : \A e \in 1 .. Len(s) :
    /\ s[e].branch \union s[e].told \union s[e].tail \subseteq 1 .. (e - 1)
    /\ s[e].from \in 0 .. (e - 1)

VARIABLES
  tip,      \* the tip of the lane
  op,       \* the current operation
  settled,  \* operations that have a result
  inbox,    \* kinds of the queued writes
  pass,     \* the installed Drive: procedure, what it has read, what came back
  nav,      \* an acceptance of a navigation that has read its preparation
  causes,   \* observes automatic compactions: reason and trigger
  turns, incidents

laneVars == <<tree, tip, inbox>>
budgets  == <<turns, incidents>>
vars     == <<laneVars, op, settled, pass, nav, causes, budgets>>

Leaves  == {"none", "checkpoint", "ready", "pending", "summary.deciding",
            "summary.ready", "summary.effect_pending", "summary.retry_wait",
            "navigation.ready_to_commit"}
Summing == {"summary.deciding", "summary.ready", "summary.effect_pending",
            "summary.retry_wait"}

\* boundary is the reason of a compaction, and where its result goes.
NoOp == [at |-> "none", boundary |-> "none", cancelled |-> FALSE, source |-> 0,
         trigger |-> 0, cont |-> "need_assistant", used |-> FALSE, attempt |-> 0,
         target |-> 0, prep |-> NoPreparation]
NoPass == [pc |-> "off", prep |-> NoPreparation, back |-> "none"]
NoNav  == [asked |-> FALSE, target |-> 0, summarize |-> FALSE, prep |-> NoPreparation]

Init ==
  /\ tree \in Stored /\ tip = Len(tree) /\ inbox = <<>> /\ op = NoOp /\ settled = 0
  /\ pass = NoPass /\ nav = NoNav /\ causes = {}
  /\ turns = 0 /\ incidents = 0

Idle     == op.at = "none"
Accepted == settled + (IF Idle THEN 0 ELSE 1)
InRun    == op.boundary \in {"none", "threshold", "overflow"}
At(pc)   == pass.pc = pc

----------------------------------------------------------------------------
(* Writes that several commands share.                                      *)

\* Entries of these kinds, numbered after n, chained to the end of a branch.
Chain(kinds, n, branch) ==
  [i \in 1 .. Len(kinds) |-> Entry(kinds[i], branch \union (n + 1) .. (n + i - 1))]

\* planBoundaryInbox: every queued write enters, in order, after what this
\* commit inserts first.
Grow(first, kinds) ==
  LET n      == Len(tree) + Len(first)
      branch == IF first = <<>> THEN Path(tip) ELSE first[1].branch \union {n}
  IN /\ tree' = tree \o first \o Chain(kinds, n, branch)
     /\ tip' = Max(branch \union (n + 1) .. (n + Len(kinds)) \union {0})
Place(first) == Grow(first, inbox) /\ inbox' = <<>>

\* The last queued write that projects a message is the trigger of a request.
Projecting == {i \in 1 .. Len(inbox) : inbox[i] = "user"}
Trigger(first) == Len(tree) + Len(first) + Max(Projecting)

Settle(status) ==
  /\ op' = NoOp /\ settled' = settled + 1
  /\ pass' = NoPass /\ causes' = {}

Again == pass' = [NoPass EXCEPT !.pc = "dispatch"]
Goto(leaf) == op' = [op EXCEPT !.at = leaf]

\* assistantReadyAtBoundary.
AskAssistant(trigger, used) ==
  op' = [op EXCEPT !.at = "ready", !.boundary = "none", !.trigger = trigger,
                   !.used = used, !.attempt = 0, !.prep = NoPreparation]

\* The task of a summary inside a run; it resumes as resumeAfter says.
Compact(reason, p, cont, used) ==
  /\ op' = [op EXCEPT !.at = "summary.deciding", !.boundary = reason, !.prep = p,
                      !.cont = cont, !.used = used, !.attempt = 0]
  /\ causes' = causes \union {<<reason, op.trigger>>}

MaySummarize ==
  Cardinality({e \in Ids : Kind(e) \in {"compaction", "branch"}}) < MaxSummaries

Incident == incidents < MaxIncidents /\ incidents' = incidents + 1

KeepHost == UNCHANGED <<nav, incidents>>
KeepTree == UNCHANGED <<tree, tip, inbox>>

----------------------------------------------------------------------------
(* The host.                                                                *)

\* append: on an idle lane an entry, with all that was queued before it.
AppendEntry(kind) ==
  /\ Incident
  /\ IF Idle
     THEN Grow(<<>>, Append(inbox, kind)) /\ inbox' = <<>>
     ELSE inbox' = Append(inbox, kind) /\ UNCHANGED <<tree, tip>>
  /\ UNCHANGED <<op, settled, pass, nav, causes, turns>>

\* acceptRun: queued writes and the prompt, which its checkpoint follows.
AcceptRun ==
  /\ Idle /\ Accepted < MaxOps
  /\ Grow(<<>>, Append(inbox, "user")) /\ inbox' = <<>>
  /\ op' = [NoOp EXCEPT !.at = "checkpoint", !.source = tip, !.trigger = tip']
  /\ UNCHANGED <<settled, pass, nav, causes, budgets>>

\* acceptCompaction: prepared and accepted in one command.
AcceptCompaction ==
  /\ MaySummarize /\ Idle /\ Accepted < MaxOps
  /\ \E p \in Preparations(tip) :
       op' = [NoOp EXCEPT !.at = "summary.deciding", !.boundary = "manual", !.source = tip,
                          !.prep = p]
  /\ KeepTree /\ UNCHANGED <<settled, pass, nav, causes, budgets>>

\* acceptNavigation: the preparation is read without the mutation line.
ObserveTip(target, summarize) ==
  /\ ~nav.asked /\ Accepted < MaxOps
  /\ summarize => MaySummarize /\ tip # 0 /\ target # 0
  /\ nav' = [asked |-> TRUE, target |-> target, summarize |-> summarize,
             prep |-> BranchPreparation(tip, target)]
  /\ KeepTree /\ UNCHANGED <<op, settled, pass, causes, budgets>>

\* Mutant: the tip is not compared with the one that was observed.
TrustObserved == TRUE

TipIsObserved == nav.prep.from = tip

\* The command of acceptNavigation: busy lanes and the current tip are refused, a
\* tip that moved since is observed again.
AcceptNavigation ==
  /\ nav.asked
  /\ IF ~Idle \/ nav.target = tip \/ Accepted = MaxOps THEN nav' = NoNav /\ op' = op
     ELSE IF ~TipIsObserved
     THEN nav' = [nav EXCEPT !.prep = BranchPreparation(tip, nav.target)] /\ op' = op
     ELSE /\ nav' = NoNav
          /\ op' = [NoOp EXCEPT !.source = tip, !.target = nav.target,
                                !.boundary = "navigation",
                                !.at = IF nav.summarize THEN "summary.deciding"
                                       ELSE "navigation.ready_to_commit",
                                !.prep = IF nav.summarize THEN nav.prep ELSE NoPreparation]
  /\ KeepTree /\ UNCHANGED <<settled, pass, causes, budgets>>

RequestAbort ==
  /\ ~Idle /\ ~op.cancelled
  /\ op' = [op EXCEPT !.cancelled = TRUE]
  /\ KeepTree /\ UNCHANGED <<settled, pass, nav, causes, budgets>>

InstallPass ==
  /\ ~Idle /\ At("off") /\ Again
  /\ KeepTree /\ UNCHANGED <<op, settled, nav, causes, budgets>>

\* The process is lost and the Session is opened again.
Crash ==
  /\ Incident
  /\ pass' = NoPass /\ nav' = NoNav
  /\ KeepTree /\ UNCHANGED <<op, settled, causes, turns>>

----------------------------------------------------------------------------
(* The run around a summary.                                                *)

Dispatch(leaf) == At("dispatch") /\ ~op.cancelled /\ op.at = leaf

\* reconcileOperation: a response that was cancelled is settled as aborted,
\* any other leaf ends the operation, and nothing is placed.
ReconcileRuns ==
  /\ At("dispatch") /\ op.cancelled /\ op.at \notin Summing
  /\ Settle("aborted") /\ KeepTree /\ turns' = turns /\ KeepHost
Reconcile ==
  /\ At("dispatch") /\ op.cancelled
  /\ IF op.at = "pending"
     THEN /\ Grow(<<Entry("error", Path(tip))>>, <<>>) /\ inbox' = inbox
          /\ Goto("checkpoint") /\ UNCHANGED <<pass, settled, causes>>
     ELSE Settle("aborted") /\ KeepTree
  /\ turns' = turns /\ KeepHost

\* prepareCompactionThreshold: a trigger that a compaction has passed is not
\* asked for again.  Whether the context is large enough is left open.
ReadThreshold ==
  /\ Dispatch("checkpoint")
  /\ \E p \in {NoPreparation} \union
              IF Newest(tip) > op.trigger \/ ~MaySummarize THEN {} ELSE Preparations(tip) :
       pass' = [pass EXCEPT !.pc = "checkpoint", !.prep = p]
  /\ KeepTree /\ UNCHANGED <<op, settled, causes, turns>> /\ KeepHost

CancelSeen ==
  /\ pass.pc \in {"checkpoint", "end_hook", "deciding", "summarized", "timer"}
  /\ op.cancelled /\ Again
  /\ KeepTree /\ UNCHANGED <<op, settled, causes, turns>> /\ KeepHost

\* runCheckpoint: queued input comes first, then the summary, then the request.
RunCheckpoint ==
  /\ At("checkpoint") /\ ~op.cancelled
  /\ \/ /\ Projecting # {}
        /\ Place(<<>>) /\ AskAssistant(Trigger(<<>>), FALSE) /\ causes' = causes /\ Again
     \/ /\ Projecting = {} /\ pass.prep # NoPreparation
        /\ Place(<<>>) /\ Compact("threshold", pass.prep, op.cont, op.used) /\ Again
     \/ /\ Projecting = {} /\ pass.prep = NoPreparation /\ op.cont = "need_assistant"
        /\ Place(<<>>) /\ AskAssistant(op.trigger, op.used) /\ causes' = causes /\ Again
     \/ /\ Projecting = {} /\ pass.prep = NoPreparation /\ op.cont = "may_finish"
        /\ pass' = [NoPass EXCEPT !.pc = "end_hook"]
        /\ KeepTree /\ UNCHANGED <<op, causes>>
  /\ UNCHANGED turns /\ KeepHost
  /\ settled' = settled

\* finishRunBoundary, after before_run_end was asked.
FinishRun ==
  /\ At("end_hook") /\ ~op.cancelled
  /\ Place(<<>>)
  /\ IF Projecting # {}
     THEN AskAssistant(Trigger(<<>>), FALSE) /\ Again /\ UNCHANGED <<settled, causes>>
     ELSE Settle("completed")
  /\ turns' = turns /\ KeepHost

\* publishGenerationIntent and the request.
CallProvider ==
  /\ Dispatch("ready") /\ Goto("pending")
  /\ pass' = [pass EXCEPT !.pc = "answer"]
  /\ KeepTree /\ UNCHANGED <<settled, causes, turns>> /\ KeepHost

\* Mutant: a second overflow is recovered like the first.
RecoverAlways == ~op.cancelled

\* overflowRecoveryUsed, as prepareOverflowCompaction asks for it.
MayRecover == ~op.used /\ ~op.cancelled

\* The response, and what an overflow reads before it is settled.
ProviderAnswers ==
  /\ At("answer")
  /\ \E r \in {"stop", "tools", "retry", "fatal", "overflow"} :
       /\ r \in {"tools", "retry"} => turns < MaxTurns
       /\ \E p \in IF r = "overflow" /\ MayRecover /\ MaySummarize /\ Preparations(tip) # {}
                   THEN Preparations(tip) ELSE {NoPreparation} :
            pass' = [pc |-> "respond", prep |-> p, back |-> r]
  /\ KeepTree /\ UNCHANGED <<op, settled, causes, turns>> /\ KeepHost

\* publishResponse, as far as it matters to a summary.
PublishResponse ==
  /\ At("respond")
  /\ LET good  == ~op.cancelled /\ pass.back \in {"stop", "tools"}
         entry == Len(tree) + 1
     IN /\ Grow(<<Entry(IF good THEN "assistant" ELSE "error", Path(tip))>>, <<>>)
        /\ inbox' = inbox
        /\ \/ /\ op.cancelled \/ good
              /\ op' = [op EXCEPT !.at = "checkpoint", !.trigger = entry, !.used = FALSE,
                          !.cont = IF good /\ pass.back = "tools" THEN "need_assistant"
                                   ELSE "may_finish"]
              /\ Again /\ UNCHANGED <<settled, causes>>
           \/ /\ ~op.cancelled /\ pass.back = "retry"
              /\ Goto("ready") /\ Again /\ UNCHANGED <<settled, causes>>
           \/ /\ ~op.cancelled /\ pass.back = "overflow" /\ pass.prep # NoPreparation
              /\ Compact("overflow", pass.prep, "need_assistant", TRUE)
              /\ Again /\ settled' = settled
           \/ /\ ~op.cancelled /\ pass.back \in {"fatal", "overflow"}
              /\ pass.prep = NoPreparation
              /\ Settle("failed")
        /\ turns' = IF pass.back \in {"tools", "retry"} THEN turns + 1 ELSE turns
  /\ KeepHost

\* recoverAssistantGeneration: the outcome of the request is unknown.
RecoverAssistant ==
  /\ Dispatch("pending")
  /\ Grow(<<Entry("error", Path(tip))>>, <<>>) /\ inbox' = inbox
  /\ \/ turns < MaxTurns /\ turns' = turns + 1 /\ Goto("ready") /\ Again
        /\ UNCHANGED <<settled, causes>>
     \/ Settle("failed") /\ turns' = turns
  /\ KeepHost

----------------------------------------------------------------------------
(* The summary.                                                             *)

SummaryEntry(carries) ==
  IF op.boundary = "navigation" THEN BranchSummary(op.prep, op.source, op.target)
  ELSE Compaction(op.prep, tip, carries)

\* The run goes on as resumeAfter says, or with the queued input.
Resumes(first) ==
  IF Projecting # {} THEN AskAssistant(Trigger(first), FALSE)
  ELSE IF op.cont = "need_assistant" THEN AskAssistant(op.trigger, op.used)
  ELSE op' = [op EXCEPT !.at = "checkpoint", !.boundary = "none", !.prep = NoPreparation]

\* publishStructuralOutcome with a summary: its entry, and then the input.
PublishSummary(carries) ==
  LET first == <<SummaryEntry(carries)>>
  IN IF InRun
     THEN Place(first) /\ Resumes(first) /\ Again /\ UNCHANGED <<settled, causes>>
     ELSE Grow(first, <<>>) /\ inbox' = inbox /\ Settle("completed")

\* Without one: a threshold that is declined resumes the run, which may have to
\* ask before_run_end now; an overflow has failed; the others are settled.
PublishDeclined ==
  \/ /\ op.boundary = "threshold"
     /\ Projecting # {} \/ op.cont = "need_assistant"
     /\ Place(<<>>) /\ Resumes(<<>>) /\ Again /\ UNCHANGED <<settled, causes>>
  \/ /\ op.boundary = "threshold"
     /\ Projecting = {} /\ op.cont = "may_finish"
     /\ pass' = [NoPass EXCEPT !.pc = "end_hook"]
     /\ KeepTree /\ UNCHANGED <<op, settled, causes>>
  \/ op.boundary = "overflow" /\ KeepTree /\ Settle("failed")
  \/ ~InRun /\ KeepTree /\ Settle("declined")

PublishFailed == KeepTree /\ Settle("failed")

\* runStructuralDecision: the preparation is read and the hook is asked.
Decide ==
  /\ Dispatch("summary.deciding") /\ pass' = [pass EXCEPT !.pc = "deciding"]
  /\ KeepTree /\ UNCHANGED <<op, settled, causes, turns>> /\ KeepHost

\* The hook declines, gives a summary, or leaves it to a request.
HookDecides ==
  /\ At("deciding") /\ ~op.cancelled
  /\ \/ PublishDeclined
     \/ PublishSummary(TRUE)
     \/ /\ op' = [op EXCEPT !.at = "summary.ready", !.attempt = 1]
        /\ Again /\ KeepTree /\ UNCHANGED <<settled, causes>>
  /\ turns' = turns /\ KeepHost

\* runStructuralGeneration: the intent, or no such model.
Generate ==
  /\ Dispatch("summary.ready")
  /\ \/ /\ Goto("summary.effect_pending") /\ pass' = [pass EXCEPT !.pc = "request"]
        /\ KeepTree /\ UNCHANGED <<settled, causes>>
     \/ PublishFailed
  /\ turns' = turns /\ KeepHost

\* performStructuralAttempt: its one or two requests.
Summarize ==
  /\ At("request")
  /\ \E r \in {"summary", "retry", "fatal"} :
       pass' = [pass EXCEPT !.pc = "summarized", !.back = r]
  /\ KeepTree /\ UNCHANGED <<op, settled, causes, turns>> /\ KeepHost

\* Mutant: attempts are not counted.
NeverTired == TRUE

AttemptsLeft == op.attempt < MaxAttempts

WaitForRetry ==
  /\ op' = [op EXCEPT !.at = "summary.retry_wait", !.attempt = op.attempt + 1]
  /\ Again /\ KeepTree /\ UNCHANGED <<settled, causes>>

\* publishAttemptResult.
PublishAttempt ==
  /\ At("summarized") /\ ~op.cancelled
  /\ \/ pass.back = "summary" /\ PublishSummary(Carries(op.prep))
     \/ pass.back = "retry" /\ AttemptsLeft /\ WaitForRetry
     \/ pass.back = "retry" /\ ~AttemptsLeft /\ PublishFailed
     \/ pass.back = "fatal" /\ PublishFailed
  /\ turns' = turns /\ KeepHost

\* recoverStructuralGeneration: the attempt is lost, with what it had received.
RecoverSummary ==
  /\ Dispatch("summary.effect_pending")
  /\ IF AttemptsLeft THEN WaitForRetry ELSE PublishFailed
  /\ turns' = turns /\ KeepHost

\* runStructuralRetryWait.
StartTimer ==
  /\ Dispatch("summary.retry_wait") /\ pass' = [pass EXCEPT !.pc = "timer"]
  /\ KeepTree /\ UNCHANGED <<op, settled, causes, turns>> /\ KeepHost
TimerEnds ==
  /\ At("timer") /\ ~op.cancelled
  /\ Goto("summary.ready") /\ Again
  /\ KeepTree /\ UNCHANGED <<settled, causes, turns>> /\ KeepHost

\* A pass whose host does not wait for retries reports the time, and ends.
ReportRetry ==
  /\ Dispatch("summary.retry_wait") /\ Incident /\ pass' = NoPass
  /\ KeepTree /\ UNCHANGED <<op, settled, nav, causes, turns>>

\* commitNavigation.
CommitNavigation ==
  /\ Dispatch("navigation.ready_to_commit")
  /\ tip' = op.target /\ UNCHANGED <<tree, inbox>>
  /\ Settle("completed") /\ turns' = turns /\ KeepHost

----------------------------------------------------------------------------
(* The specification.                                                       *)

HostStep ==
  \/ \E kind \in {"user", "note"} : AppendEntry(kind)
  \/ AcceptRun \/ AcceptCompaction
  \/ \E target \in Targets \cap (Ids \union {0}), summarize \in BOOLEAN : ObserveTip(target, summarize)
  \/ AcceptNavigation \/ RequestAbort \/ InstallPass \/ Crash \/ ReportRetry

PassStep ==
  \/ Reconcile \/ CancelSeen
  \/ ReadThreshold \/ RunCheckpoint \/ FinishRun
  \/ CallProvider \/ ProviderAnswers \/ PublishResponse \/ RecoverAssistant
  \/ Decide \/ HookDecides \/ Generate \/ Summarize \/ PublishAttempt \/ RecoverSummary
  \/ StartTimer \/ TimerEnds \/ CommitNavigation

Next == HostStep \/ PassStep
Spec == Init /\ [][Next]_vars

\* The event loop runs each pass, hooks and providers answer, and the host drives
\* the operation that it finds open.
FairSpec == Spec /\ WF_vars(PassStep) /\ WF_vars(InstallPass)

----------------------------------------------------------------------------
(* Properties.                                                              *)

OpType ==
  [at : Leaves, boundary : {"none", "manual", "threshold", "overflow", "navigation"},
   cancelled : BOOLEAN, source : 0 .. Len(tree), trigger : 0 .. Len(tree),
   cont : {"need_assistant", "may_finish"}, used : BOOLEAN,
   attempt : 0 .. MaxAttempts, target : 0 .. Len(tree),
   prep : {NoPreparation} \union [from : 0 .. Len(tree), kept : SUBSET Ids,
                                  history : SUBSET Ids, prefix : SUBSET Ids]]

\* Types; an attempt of a summary stays within the policy, every entry hangs
\* from an older one, and a summary that is due has its preparation.
TypeOK ==
  /\ \A e \in Ids : tree[e] \in EntryType /\ tree[e].branch \subseteq 1 .. (e - 1)
  /\ tip \in 0 .. Len(tree) /\ inbox \in Seq({"user", "note"})
  /\ op \in OpType /\ (op.at \in Summing <=> op.prep # NoPreparation)
  /\ settled \in 0 .. MaxOps
  /\ pass.pc \in {"off", "dispatch", "checkpoint", "end_hook", "answer", "respond",
                  "deciding", "request", "summarized", "timer"}
  /\ Idle => pass = NoPass
  /\ turns \in 0 .. MaxTurns /\ incidents \in 0 .. MaxIncidents

Spoken(s) == {x \in s : Kind(x) # "error"}

\* structural.ts:250: a summary is prepared at one tip and placed at another
\* time.  Whatever the lane did in between, with the messages it copies forward
\* a compaction stands for just the context it replaces, and the summary of a
\* branch for just what its navigation leaves behind.
SummariesFit ==
  \A e \in Ids :
    /\ Kind(e) = "compaction" =>
         Spoken(tree[e].told \union tree[e].tail) = Context(Parent(e))
    /\ Kind(e) = "branch" => tree[e].told = Abandoned(tree[e].from, Parent(e))

\* harness.md:816-818: a run compacts once for a trigger, at a threshold or after
\* an overflow, whatever is retried, declined, recovered or queued around it.
Begins(reason) == op.boundary # reason /\ op'.boundary = reason
CompactsOncePerCause ==
  [][ \A reason \in {"threshold", "overflow"} :
        Begins(reason) => <<reason, op.trigger>> \notin causes ]_vars

\* Every operation settles, also one whose summary was interrupted, declined or
\* cancelled at any leaf, when its host keeps driving it.
SummariesSettle == []<>Idle

\* coding-agent/docs/compaction.md:45: the request for a summary is given the
\* previous summary when there is one, here one that stands for messages.  The
\* field is there for it (compaction.ts:625), also when a turn is split
\* (test/harness/compaction.test.ts:410).
PreviousSummaryIsCarried ==
  \A e \in Ids :
    LET last == Newest(Parent(e))
    IN Kind(e) = "compaction" /\ last # 0 /\ tree[last].told # {} => tree[e].carries
=============================================================================

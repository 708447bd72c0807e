---------------------------- MODULE LaneCallers ----------------------------
(****************************************************************************)
(* The calls of an AgentLane that share one pass, one mutation line and one *)
(* idle owner: prompt, resume, abort, the primitives accept and drive,      *)
(* waitForIdle, runWhenIdle, and a command that only commits.  What a pass  *)
(* does is left to RunDrive; here it commits, comes to wait for a retry or  *)
(* a deferred response, or settles its operation.  A step runs from one     *)
(* await on the file system, a provider, a listener or another caller to    *)
(* the next; promise continuations in between do not interleave.            *)
(****************************************************************************)
EXTENDS Naturals, SequencesExt

CONSTANTS
  Callers,     \* each makes one call
  Mixes,       \* which calls: functions from Callers to Kinds
  MaxOps,      \* operations accepted
  MaxWaits,    \* retry and deferred waits that passes come to
  MaxFailures  \* commits that fail

Kinds == {"prompt", "resume", "abort", "accept", "drive", "idle", "callback", "write"}
ASSUME CallersAssumption ==
  /\ Mixes \subseteq [Callers -> Kinds] /\ IsFiniteSet(Callers)
  /\ {"none", "pass"} \intersect Callers = {}
  /\ MaxOps \in Nat /\ MaxWaits \in Nat /\ MaxFailures \in Nat

Ops    == 1 .. MaxOps
Passes == 1 .. Cardinality(Callers)

VARIABLES
  kind,       \* the call of each caller
  pc, stage,  \* its progress, and the command it is at
  target,     \* the operation it is about
  saw,        \* the pass it waits for
  signalled,  \* stateChange resolved since it looked
  answer,
  line,       \* callers queued on the mutation line
  busy,       \* whose commit is in flight
  op,         \* the current operation, 0 for none
  accepted, control, at,
  settled,    \* operations with a result record
  active,     \* activeDrive
  passes, pass,
  owner,      \* idleOwner
  closed,     \* closedError
  closer,     \* AgentHarness.close
  waitings, failures

callVars == <<kind, pc, stage, target, saw, signalled, answer>>
lineVars == <<line, busy>>
opVars   == <<op, accepted, control, at, settled>>
passVars == <<active, passes, pass>>
endVars  == <<closed, closer>>
boundVars == <<waitings, failures>>
vars == <<callVars, lineVars, opVars, passVars, owner, endVars, boundVars>>

NoPass == [op |-> 0, waits |-> FALSE, polls |-> FALSE, ended |-> FALSE, outcome |-> "pending"]
First(k) == CASE k \in {"prompt", "accept"} -> "accept"
              [] k \in {"resume", "abort"}  -> "inspect"
              [] k = "drive"    -> "claim"
              [] k = "idle"     -> "look"
              [] k = "callback" -> "own"
              [] k = "write"    -> "write"

Init ==
  /\ kind \in Mixes
  /\ pc = [c \in Callers |-> "new"] /\ stage = [c \in Callers |-> First(kind[c])]
  /\ target = [c \in Callers |-> 0] /\ saw = [c \in Callers |-> 0]
  /\ signalled = [c \in Callers |-> FALSE] /\ answer = [c \in Callers |-> "none"]
  /\ line = <<>> /\ busy = "none"
  /\ op = 0 /\ accepted = 0 /\ control = "running" /\ at = "working" /\ settled = {}
  /\ active = 0 /\ passes = 0 /\ pass = [p \in Passes |-> NoPass]
  /\ owner = "none" /\ closed = "no" /\ closer = "no"
  /\ waitings = 0 /\ failures = 0

(****************************************************************************)
(* Parts of steps                                                           *)
(****************************************************************************)
Goto(c, where)   == pc' = [pc EXCEPT ![c] = where]
Command(c, what) == pc' = [pc EXCEPT ![c] = "ask"] /\ stage' = [stage EXCEPT ![c] = what]
Return(c, what)  == pc' = [pc EXCEPT ![c] = "done"] /\ answer' = [answer EXCEPT ![c] = what]

SignalStateChange == signalled' = [c \in Callers |-> TRUE]

\* Lane.seal: the gate of the active pass closes, which rejects its observers.
Seal(why) ==
  /\ closed' = IF closed = "no" THEN why ELSE closed
  /\ pass' = [p \in Passes |-> IF p = active /\ pass[p].outcome = "pending"
                               THEN [pass[p] EXCEPT !.outcome = "closed"] ELSE pass[p]]
  /\ SignalStateChange

(****************************************************************************)
(* Lane.command                                                             *)
(****************************************************************************)
Call(c) ==
  /\ pc[c] = "new"
  /\ IF closed # "no" THEN Return(c, "closed") /\ UNCHANGED target
     ELSE /\ Goto(c, "ask") /\ UNCHANGED answer
          /\ target' \in {[target EXCEPT ![c] = o] : o \in IF kind[c] = "drive" THEN Ops ELSE {0}}
  /\ UNCHANGED <<kind, stage, saw, signalled, lineVars, opVars, passVars, owner, endVars, boundVars>>

\* A command waits outside the line while a callback owns the idle lane.
Ask(c) ==
  /\ pc[c] = "ask"
  /\ \/ /\ closed # "no" /\ Return(c, "closed") /\ UNCHANGED line
     \/ /\ closed = "no" /\ owner = "none"
        /\ Goto(c, "line") /\ line' = Append(line, c) /\ UNCHANGED answer
  /\ UNCHANGED <<kind, stage, target, saw, signalled, busy, opVars, passVars, owner, endVars, boundVars>>

\* The line comes to a caller; it may find the lane closed or owned by then.
Leave(c) == line # <<>> /\ Head(line) = c /\ busy = "none" /\ line' = Tail(line)
HasTurn(c, what) == Leave(c) /\ stage[c] = what /\ closed = "no" /\ owner = "none"

TurnedAway(c) ==
  /\ Leave(c)
  /\ \/ closed # "no" /\ Return(c, "closed")
     \/ closed = "no" /\ owner # "none" /\ Goto(c, "ask") /\ UNCHANGED answer
  /\ UNCHANGED <<kind, stage, target, saw, signalled, busy, opVars, passVars, owner, endVars, boundVars>>

\* Plans that commit: acceptance, a new cancellation, and any other write.
NeedsCommit(c) ==
  \/ stage[c] = "accept" /\ op = 0 /\ accepted < MaxOps
  \/ stage[c] = "cancel" /\ op = target[c] /\ control = "running"
  \/ stage[c] = "write"

TurnCommits(c) ==
  /\ HasTurn(c, stage[c]) /\ NeedsCommit(c)
  /\ busy' = c /\ Goto(c, "commit")
  /\ UNCHANGED <<kind, stage, target, saw, signalled, answer, opVars, passVars, owner, endVars, boundVars>>

\* The commit ends, and with it the turn, whether or not the harness closed.
CommitEnds(c) ==
  /\ busy = c /\ busy' = "none"
  /\ CASE stage[c] = "accept" ->
            /\ op' = accepted + 1 /\ accepted' = accepted + 1
            /\ control' = "running" /\ at' = "working"
            /\ target' = [target EXCEPT ![c] = accepted + 1]
            /\ IF kind[c] = "prompt" THEN Command(c, "claim") /\ UNCHANGED answer
               ELSE Return(c, "accepted") /\ UNCHANGED stage
       [] stage[c] = "cancel" ->
            /\ control' = "cancel_requested"
            /\ Command(c, "claim") /\ UNCHANGED <<op, accepted, at, target, answer>>
       [] stage[c] = "write" ->
            Return(c, "written") /\ UNCHANGED <<op, accepted, control, at, target, stage>>
  /\ SignalStateChange
  /\ UNCHANGED <<kind, saw, settled, line, passVars, owner, endVars, boundVars>>

\* A failed commit faults the harness, for the caller or the pass that made it.
CommitFails ==
  /\ busy # "none" /\ failures < MaxFailures
  /\ failures' = failures + 1 /\ busy' = "none"
  /\ Seal("fault")
  /\ IF busy = "pass" THEN UNCHANGED <<pc, answer>> ELSE Return(busy, "closed")
  /\ UNCHANGED <<kind, stage, target, saw, line, opVars, active, passes, owner, closer, waitings>>

(****************************************************************************)
(* Plans that return                                                        *)
(****************************************************************************)
TurnRefuses(c) ==
  /\ \/ /\ HasTurn(c, "accept") /\ op # 0 /\ Return(c, "busy")
     \/ /\ HasTurn(c, "inspect") /\ op = 0 /\ Return(c, "nothing")
     \/ /\ HasTurn(c, "cancel") /\ op # target[c] /\ Return(c, "nothing")
  /\ UNCHANGED <<kind, stage, target, saw, signalled, busy, opVars, passVars, owner, endVars, boundVars>>

\* resume and abort take the operation they find; requestAbort finds the
\* cancellation already there.
TurnInspects(c) ==
  /\ HasTurn(c, "inspect") /\ op # 0
  /\ target' = [target EXCEPT ![c] = op]
  /\ Command(c, IF kind[c] = "abort" THEN "cancel" ELSE "claim")
  /\ UNCHANGED <<kind, saw, signalled, answer, busy, opVars, passVars, owner, endVars, boundVars>>

TurnAlreadyCancelled(c) ==
  /\ HasTurn(c, "cancel") /\ op = target[c] /\ control = "cancel_requested"
  /\ Command(c, "claim")
  /\ UNCHANGED <<kind, target, saw, signalled, answer, busy, opVars, passVars, owner, endVars, boundVars>>

\* drive() of the current operation installs a pass under its own options,
\* joins the one there is, or waits for that of another operation.
TurnInstalls(c) ==
  /\ HasTurn(c, "claim") /\ op = target[c] /\ active = 0
  /\ passes' = passes + 1 /\ active' = passes + 1
  /\ pass' = [pass EXCEPT ![passes + 1] =
       [NoPass EXCEPT !.op = op, !.waits = kind[c] \in {"prompt", "resume"},
                      !.polls = kind[c] = "resume"]]
  /\ saw' = [saw EXCEPT ![c] = passes + 1] /\ Goto(c, "observe")
  /\ SignalStateChange
  /\ UNCHANGED <<kind, stage, target, answer, busy, opVars, owner, endVars, boundVars>>

\* Mutant: whichever pass there is is joined.
TurnJoinsAny(c) ==
  /\ HasTurn(c, "claim") /\ op = target[c] /\ active # 0
  /\ saw' = [saw EXCEPT ![c] = active]
  /\ Goto(c, "observe")
  /\ UNCHANGED <<kind, stage, target, signalled, answer, busy, opVars, passVars, owner, endVars, boundVars>>

TurnJoins(c) ==
  /\ HasTurn(c, "claim") /\ op = target[c] /\ active # 0
  /\ saw' = [saw EXCEPT ![c] = active]
  /\ Goto(c, IF pass[active].op = op THEN "observe" ELSE "occupied")
  /\ UNCHANGED <<kind, stage, target, signalled, answer, busy, opVars, passVars, owner, endVars, boundVars>>

\* What a call makes of the end of its drive; a convenience that cannot be
\* given what it finds faults the harness.
Ending(c, found) ==
  CASE kind[c] = "abort" -> IF found = "mismatch" THEN "fault" ELSE "aborted"
    [] kind[c] = "drive" -> found
    [] OTHER -> IF found \in {"mismatch", "retry"} THEN "fault" ELSE found

DriveEnds(c, found) ==
  IF Ending(c, found) = "fault" THEN Seal("fault") /\ Return(c, "closed")
  ELSE Return(c, Ending(c, found)) /\ UNCHANGED <<closed, pass, signalled>>

TurnFindsEnd(c) ==
  /\ HasTurn(c, "claim") /\ op # target[c]
  /\ DriveEnds(c, IF target[c] \in settled THEN "settled" ELSE "mismatch")
  /\ UNCHANGED <<kind, stage, target, saw, busy, opVars, active, passes, owner, closer, boundVars>>

Idle == op = 0 /\ active = 0

TurnWaits(c) ==
  /\ HasTurn(c, "look") \/ HasTurn(c, "own")
  /\ ~Idle
  /\ saw' = [saw EXCEPT ![c] = active] /\ Goto(c, "wait")
  /\ signalled' = [signalled EXCEPT ![c] = FALSE]
  /\ UNCHANGED <<kind, stage, target, answer, busy, opVars, passVars, owner, endVars, boundVars>>

TurnFindsIdle(c) ==
  /\ HasTurn(c, "look") /\ Idle /\ Return(c, "idle")
  /\ UNCHANGED <<kind, stage, target, saw, signalled, busy, opVars, passVars, owner, endVars, boundVars>>

\* Mutant: a pass that has settled its operation does not count.
TurnOwnsEarly(c) ==
  /\ HasTurn(c, "own") /\ op = 0
  /\ owner' = c /\ Goto(c, "claimed") /\ SignalStateChange
  /\ UNCHANGED <<kind, stage, target, saw, answer, busy, opVars, passVars, endVars, boundVars>>

TurnOwns(c) ==
  /\ HasTurn(c, "own") /\ Idle
  /\ owner' = c /\ Goto(c, "claimed") /\ SignalStateChange
  /\ UNCHANGED <<kind, stage, target, saw, answer, busy, opVars, passVars, endVars, boundVars>>

Turn(c) ==
  \/ TurnedAway(c) \/ TurnCommits(c) \/ TurnRefuses(c) \/ TurnInspects(c)
  \/ TurnAlreadyCancelled(c) \/ TurnInstalls(c) \/ TurnJoins(c) \/ TurnFindsEnd(c)
  \/ TurnWaits(c) \/ TurnFindsIdle(c) \/ TurnOwns(c)

(****************************************************************************)
(* Waiting outside the line                                                 *)
(****************************************************************************)
Outcome(c) == pass[saw[c]].outcome
Sees(c, where) == pc[c] = where /\ saw[c] # 0 /\ Outcome(c) # "pending"

Observe(c) ==
  /\ Sees(c, "observe")
  /\ IF Outcome(c) = "closed" THEN Return(c, "closed") /\ UNCHANGED <<closed, pass, signalled>>
     ELSE DriveEnds(c, Outcome(c))
  /\ UNCHANGED <<kind, stage, target, saw, lineVars, opVars, active, passes, owner, closer, boundVars>>

\* Mutant: only the end of a pass wakes a caller.
LookAfterPass(c) ==
  /\ Sees(c, "occupied") \/ Sees(c, "wait")
  /\ IF Outcome(c) = "closed" THEN Return(c, "closed")
     ELSE Goto(c, "ask") /\ UNCHANGED answer
  /\ UNCHANGED <<kind, stage, target, saw, signalled, lineVars, opVars, passVars, owner, endVars, boundVars>>

\* Another pass, or the state that kept a caller waiting, has gone: look again.
LookAgain(c) ==
  /\ \/ Sees(c, "occupied") \/ Sees(c, "wait")
     \/ pc[c] = "wait" /\ saw[c] = 0 /\ signalled[c]
  /\ IF saw[c] # 0 /\ Outcome(c) = "closed" THEN Return(c, "closed")
     ELSE Goto(c, "ask") /\ UNCHANGED answer
  /\ UNCHANGED <<kind, stage, target, saw, signalled, lineVars, opVars, passVars, owner, endVars, boundVars>>

Release == owner' = "none" /\ SignalStateChange

StartCallback(c) ==
  /\ pc[c] = "claimed"
  /\ IF closed # "no" THEN Return(c, "closed") /\ Release
     ELSE Goto(c, "running") /\ UNCHANGED <<answer, owner, signalled>>
  /\ UNCHANGED <<kind, stage, target, saw, lineVars, opVars, passVars, endVars, boundVars>>

EndCallback(c) ==
  /\ pc[c] = "running"
  /\ Return(c, "ran") /\ Release
  /\ UNCHANGED <<kind, stage, target, saw, lineVars, opVars, passVars, endVars, boundVars>>

(****************************************************************************)
(* The pass                                                                 *)
(****************************************************************************)
Running == active # 0 /\ ~pass[active].ended /\ closed = "no" /\ busy # "pass"
Stuck(p) == \/ at = "retry" /\ ~pass[p].waits
            \/ at = "deferred" /\ ~pass[p].polls

\* Its commands are subject to the same rules as those of callers.
PassCommits ==
  /\ Running /\ busy = "none" /\ owner = "none"
  /\ control = "cancel_requested" \/ ~(at = "deferred" /\ Stuck(active))
  /\ busy' = "pass"
  /\ UNCHANGED <<callVars, line, opVars, passVars, owner, endVars, boundVars>>

Settle ==
  /\ settled' = settled \union {op} /\ op' = 0
  /\ pass' = [pass EXCEPT ![active].ended = TRUE]
  /\ UNCHANGED <<at, waitings>>

Advance ==
  /\ control = "running" /\ UNCHANGED <<op, settled>>
  /\ \/ /\ at = "working" /\ waitings < MaxWaits /\ waitings' = waitings + 1
        /\ at' \in {"retry", "deferred"} /\ UNCHANGED pass
     \/ /\ at # "working" /\ at' = "working" /\ UNCHANGED waitings
        /\ pass' = IF at = "deferred" THEN [pass EXCEPT ![active].polls = FALSE] ELSE pass

PassCommitEnds ==
  /\ busy = "pass" /\ busy' = "none"
  /\ Settle \/ Advance
  /\ SignalStateChange
  /\ UNCHANGED <<kind, pc, stage, target, saw, answer, line, accepted, control,
                 active, passes, owner, endVars, failures>>

\* Mutant: a pass that does not wait reports wherever it is.
PassLeavesOff ==
  /\ closed = "no" /\ active # 0 /\ busy # "pass"
  /\ pass' = [pass EXCEPT ![active].outcome = IF pass[active].ended THEN "settled" ELSE at]
  /\ active' = 0 /\ SignalStateChange
  /\ UNCHANGED <<kind, pc, stage, target, saw, answer, lineVars, opVars, passes, owner, endVars, boundVars>>

\* driveOperation ends and its observers are told: when its operation has
\* settled and the events are delivered, or at a wait it may not outlast.
PassEnds ==
  /\ closed = "no" /\ active # 0 /\ busy # "pass"
  /\ \/ /\ pass[active].ended
        /\ pass' = [pass EXCEPT ![active].outcome = "settled"]
     \/ /\ Running /\ control = "running" /\ Stuck(active)
        /\ pass' = [pass EXCEPT ![active].outcome = at]
  /\ active' = 0 /\ SignalStateChange
  /\ UNCHANGED <<kind, pc, stage, target, saw, answer, lineVars, opVars, passes, owner, endVars, boundVars>>

\* It finds the lane closed; its observers heard from Lane.seal.
PassStops ==
  /\ closed # "no" /\ active # 0 /\ busy # "pass"
  /\ active' = 0 /\ SignalStateChange
  /\ UNCHANGED <<kind, pc, stage, target, saw, answer, lineVars, opVars, passes, pass, owner, endVars, boundVars>>

(****************************************************************************)
(* AgentHarness.close                                                       *)
(****************************************************************************)
Close ==
  /\ closer = "no" /\ closer' = "closing"
  /\ Seal("closed")
  /\ UNCHANGED <<kind, pc, stage, target, saw, answer, lineVars, opVars, active, passes, owner, boundVars>>

\* Mutant: close does not wait for the idle callback.
CloseBeside ==
  /\ closer = "closing" /\ busy = "none" /\ line = <<>>
  /\ closer' = "done"
  /\ UNCHANGED <<callVars, lineVars, opVars, passVars, owner, closed, boundVars>>

\* The Session's line is empty and the idle callback has returned.
CloseEnds ==
  /\ closer = "closing" /\ busy = "none" /\ line = <<>> /\ owner = "none"
  /\ closer' = "done"
  /\ UNCHANGED <<callVars, lineVars, opVars, passVars, owner, closed, boundVars>>

Step(c) == Ask(c) \/ Turn(c) \/ CommitEnds(c) \/ Observe(c) \/ LookAgain(c)
             \/ StartCallback(c) \/ EndCallback(c)
PassStep == PassCommits \/ PassCommitEnds \/ PassEnds \/ PassStops

Next ==
  \/ \E c \in Callers : Call(c) \/ Step(c)
  \/ PassStep \/ CommitFails \/ Close \/ CloseEnds

Spec == Init /\ [][Next]_vars

\* Commits return, callbacks return, providers answer, and a promise that has
\* settled runs its continuation.  A pass is not kept from the line forever:
\* the line is a queue.
FairSpec ==
  /\ Spec /\ SF_vars(PassCommits) /\ WF_vars(PassStep) /\ WF_vars(CloseEnds)
  /\ \A c \in Callers : WF_vars(Step(c))

(****************************************************************************)
(* Properties                                                               *)
(****************************************************************************)
Answers == {"none", "closed", "accepted", "written", "busy", "nothing", "aborted", "settled",
            "retry", "deferred", "mismatch", "idle", "ran"}

Places  == {"new", "ask", "line", "commit", "observe", "occupied", "wait", "claimed",
            "running", "done"}
Stages  == {"accept", "inspect", "cancel", "claim", "look", "own", "write"}
PassType == [op : Ops \union {0}, waits : BOOLEAN, polls : BOOLEAN, ended : BOOLEAN,
             outcome : {"pending", "settled", "retry", "deferred", "closed"}]

CallTypeOK ==
  /\ kind \in [Callers -> Kinds] /\ answer \in [Callers -> Answers]
  /\ pc \in [Callers -> Places] /\ stage \in [Callers -> Stages]
  /\ target \in [Callers -> Ops \union {0}] /\ saw \in [Callers -> Passes \union {0}]
  /\ signalled \in [Callers -> BOOLEAN]
LineTypeOK ==
  /\ line \in Seq(Callers) /\ busy \in Callers \union {"none", "pass"}
  /\ owner \in Callers \union {"none"} /\ closed \in {"no", "closed", "fault"}
  /\ closer \in {"no", "closing", "done"}
  /\ waitings \in 0 .. MaxWaits /\ failures \in 0 .. MaxFailures
OpTypeOK ==
  /\ op \in Ops \union {0} /\ accepted \in 0 .. MaxOps /\ settled \subseteq Ops
  /\ control \in {"running", "cancel_requested"} /\ at \in {"working", "retry", "deferred"}
PassTypeOK ==
  /\ active \in 0 .. passes /\ passes \in Passes \union {0} /\ pass \in [Passes -> PassType]

\* The type of every variable.
TypeOK == CallTypeOK /\ LineTypeOK /\ OpTypeOK /\ PassTypeOK

\* docs/harness.md:1067: while a callback owns the lane there is no operation,
\* no pass and no commit, whoever was queued when it claimed the lane.
CallbackIsAlone == owner # "none" => Idle /\ busy = "none"

\* A call that speaks of an operation's end speaks of its own operation, also
\* when it joined the pass of another caller, waited for the pass of another
\* operation, or came when all was over; abort returns once it has settled.
AnswersAreOwn ==
  \A c \in Callers :
    /\ answer[c] \in {"settled", "aborted"} => target[c] \in settled
    /\ pc[c] = "observe" => pass[saw[c]].op = target[c]

\* Once close has returned nothing of the lane changes, and no callback runs.
ClosedIsQuiet ==
  [][closer = "done" => /\ UNCHANGED <<op, accepted, control, at, settled, busy>>
                        /\ \A c \in Callers : pc[c] # "running"]_vars

\* Every call returns, whatever it waits behind; a call that waits for an idle
\* lane may wait as long as an operation is left where only a new call could
\* drive it.  Close returns too.
CallsReturn ==
  /\ \A c \in Callers :
       []<>(\/ pc[c] \in {"new", "done"}
            \/ kind[c] \in {"idle", "callback"} /\ op # 0)
  /\ closer = "closing" ~> closer = "done"

\* docs/harness.md:1366: a joiner gets the outcome of the pass it joined and
\* may drive again; no call faults the harness on its account.
JoinersMayDriveAgain == closed = "fault" => failures > 0
=============================================================================

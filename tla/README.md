# A TLA+ model of the agent harness and its server

This directory specifies and verifies the core of `packages/agent`, the
harness that runs an agent durably (`src/packages/agent/src/harness`), and the
routing of Sessions in `packages/server`. A host gives a *lane* its input and
asks it to run; the lane drives the run through provider requests and tool
calls and stores what it needs to go on after a crash. The documents of the
code are `agent/docs/harness.md`, `tool-durability.md`,
`assistant-durability.md`, `coding-agent/docs/compaction.md` and
`server/README.md`. Paths below are relative to `src/packages/agent/src/harness`
unless they begin with `src/`.

## 1. The system

The repository is a monorepo. Its own logic with concurrency, durability and
ordering is in the agent harness; around it are provider adapters (`ai`), a
wire protocol with server and client, a service runtime (`chord`), a SQLite
session backend, a terminal UI library and the coding-agent application.

| component | state it keeps | operations | what is hard | correctness |
|---|---|---|---|---|
| Lane commands (`runtime/lane.ts`) | durable lane state: current operation, last operation, inbox; `activeDrive` | accept, enqueue, append, cancelQueued, requestOperationAbort, drive, resume, abort | commands queue on one mutation line, but some facts are captured before they have it | one operation at a time, one result each; input once and in order |
| Drive of a run (`runtime/drive.ts`, `runtime/drive/*.ts`) | operation leaf (`OperationState.at`), control status, continuation, attempt | one procedure per leaf | hooks, requests and timers between two commands; a crash between any two | no effect twice, no effect after a cancellation, everything cleaned up, everything settles |
| Tool batches (`runtime/drive/tools.ts`, `tool-placement.ts`) | status of each call, arguments, memos, checkpoints, staged results | start, recover, stage, place | outcomes out of order, read and commit apart, recovery | results in source order; a tool runs again only if replay-safe |
| Effect gate (`execution/effect-gate.ts`, `hooks.ts`) | open, aborting, closed; abort signal | admit, beginAbort, signalAbort | closes before the cancellation is durable, signals after | a signal follows the durable cancellation and reaches every effect |
| Progress (`runtime/progress.ts`) | queued frames, memos and checkpoints | write, seal | late writes | nothing is written for an effect that was settled |
| Session and mutation line (`session/session.ts`, `mutation-line.ts`) | entries, values, lists, usage | mutate, commit | order of queued commands | a command is atomic |
| Storage (`session/jsonl/*`, `in-memory-storage-state.ts`) | the file, the log in memory, the next sequence number | open, commit, repair, upgrade, fork, close | torn lines, failed calls, a stop at a rename, two readers of one file | what was acknowledged is read back, whole and once |
| Structural drive (`runtime/drive/structural.ts`, `compaction/*`) | the entry tree, summary and navigation leaves | compaction, overflow recovery, navigation | prepared on a tip that moves; interrupted between intent and outcome | a summary stands for exactly what it replaces; no compaction for ever |
| Callers of a lane (`runtime/lane.ts`, `runtime/harness.ts`) | the installed pass, the idle owner, faults | prompt, resume, abort, accept, drive, waitForIdle, runWhenIdle, close | callers join a pass, find another one, wait for an owner; commands queued at a close | each gets its own operation's answer; no commit after a seal; all return |
| Events (`events.ts`, `runtime/reducer.ts`) | delivery tail, watches with epochs and buffers | emit, watch, start, resnapshot, close | a snapshot races the events after it | no event lost or seen twice |
| Server (`src/packages/server/src/session-router.ts`, `server.ts`) | attachments, hosted Sessions, operations of each connection | attach, detach, remove, disconnect, service calls, close | operations of one connection, removal, worker end and close work on the same attachment | one handle per Session; a release waits for its calls; nothing leaks |

They interact in five ways. A host *calls* a lane; a lane command reads the
durable state, decides and *commits* once while it holds the Session's
mutation line; a drive pass *calls back* the host (hooks, provider, tools)
between two commands, each call admitted by the pass's effect gate; a commit
goes to *storage* and then publishes its *events* to the watches there are; and
the server *routes* the calls of a connection to the Session it is attached to.
Two processes never share a Session: after a crash a new harness reads it back.

`PROJECT.json` lists all components with their status, and the hazards of this
code, each at its line.

## 2. Modules

| module | models | extends or implements |
|---|---|---|
| `LaneState` | the state of a lane, and the writes several procedures share: inbox selection and delivery, the gate, the mutation line, settlement | |
| `LaneCommands` | what a host does: accept, enqueue, append, cancelQueued, request an abort, drive; losing and reopening the harness | `LaneState` |
| `RunDrive` | `driveOperation` and the procedures of every run leaf but tools | `LaneState` |
| `ToolCalls` | `runTools`: execution, recovery, staging, placement | `LaneState` |
| `LaneRun` | the composition, fairness, and the properties | the three above |
| `OperationLifecycle` | what a lane promises of its operations | implemented by `LaneRun` |
| `LaneInvariants` | inductive invariants | `LaneRun` |
| `LaneTypeProofs`, `LaneGateProofs`, `LaneEffectProofs` | proofs | `LaneInvariants`, `TLAPS`, `WellFoundedInduction` |
| `LaneCallers` | the calls that share one pass, one mutation line and one idle owner; close and faults | |
| `LaneCallersProofs` | proofs | `LaneCallers`, `TLAPS` |
| `Transcript` | the entry tree, the context of a path, what a compaction or a branch summary is prepared from | |
| `StructuralDrive` | acceptance, decision, generation and placement of summaries; checkpoints, overflow, navigation | `Transcript` |
| `StructuralProofs` | proofs | `StructuralDrive`, `SequenceTheorems`, `WellFoundedInduction`, `TLAPS` |
| `TransactionLog` | what a session store promises | implemented by `JsonlStorage` |
| `JsonlStorage` | the file, its replay and repair, the mutation line in front of it, the upgrade, forks | |
| `JsonlStorageProofs` | proofs | `JsonlStorage`, `TLAPS` |
| `EventStream` | what a watch promises | implemented by `EventWatch` |
| `EventWatch` | the event bus and the watches on a lane | |
| `EventWatchProofs` | proofs | `EventWatch`, `TLAPS` |
| `SessionRouter` | connections, attachments and hosted Sessions of a server | |
| `SessionRouterProofs` | proofs | `SessionRouter`, `TLAPS` |
| `MCLaneRun`, `MCLaneCallers`, `MCStructuralDrive`, `MCJsonlStorage`, `MCEventWatch`, `MCSessionRouter` | values of constants for TLC | the module of that name |

The lane modules are one specification. The others have a state of their own:
they meet the lane at its commits, which they take as steps, and a joint state
space would multiply what no property relates. What each of them takes from
its neighbour is what the neighbour's properties give it: `LaneRun` takes that
a commit is atomic and durable (`KeepsPromise`), `LaneCallers` that a pass
commits, waits or settles (`OperationsSettle`), `EventWatch` that a snapshot is
read while the line is held.

### The lane: state

Durable variables are what the Session stores. `op` is the current
`OperationState` with the number of its operation: leaf, control status,
continuation and attempt. `results` are the `operationResult` records. The
inbox is the set of items with `fate` "queued", in order of their numbers (the
code orders them by the time they were put in), and `payload` the pending entry
values. `calls` is the tool batch; `args`, `scratch` and `staged` the values
stored beside it; `frames` the stored stream frames, of the pending response
or of one that it replaced; `due` says that the clock has passed `notBefore`.

Process-local variables are lost by `Stop`. `pass` is the installed `Drive`:
the procedure it is in (`pc`), the state of its gate (`aborting`, `signalled`),
its options and permits, and what a procedure remembers across an await (`plan`,
`response`, `serial`). `exec` is the progress of each tool invocation, `placing`
what each placement has read and not yet committed, `abort` the abort request
whose command is still queued. `sent` and `ran` observe effects and are written
by no guard.

### The lane: steps

*A lane command is one step.* `Lane.command` runs plan and commit while it
holds the mutation line, so nothing interleaves with it. What the model does
interleave is everything between two commands: hooks, requests, frames, tools,
timers, the captures before a command is queued, stops of the process.

*The mutation line* is first in, first out. One order matters to the properties:
that of an abort command, of the claim of a drive, and of the commands of the
pass this claim installs. `abort.claimed` says that a claim is queued ahead of
the abort command. A pass installed by that claim was not there to be captured,
and `LineFree` makes its commands wait for the abort command. A captured pass may have
commands queued on either side of the abort, so nothing is assumed of it.

*The gate.* `Admit(pc)` is `gate.admit`: with the gate closed the procedure
gets `AbortRequested`, `driveOperation` waits for the cancellation
(`wait_cancel`) and dispatches again.

*continueOperation*: a procedure whose command finds the operation cancelled
returns to the dispatch loop (`CancelSeen`).

*Stop* is a crash, `close` or a fault, at any point; *Restart* reopens. An
operation is then driven by an ordinary `InstallPass`, and the leaf it finds
(an effect pending) makes it recover.

### The lane: abstractions

- Texts, messages, usage, configuration, entries and tips are left out; a
  message is its kind (projected or not) and its place in the inbox.
- Provider responses are "stop", "tools", "error" (retryable), "fatal",
  "deferred" and "aborted". A context overflow with automatic compaction
  switched off is a "fatal" one.
- `transform_context`, `before_payload` and the request are one effect;
  `after_response` belongs to the answer and `after_tool` to the return of the
  tool, including the wait when they are refused by a closed gate. Messages
  that hooks add are left out, except the follow-up of `before_run_end`.
- The first command of a procedure and the admission of its hook are one step
  where nothing can come between that the admission would not see anyway.
- A waiting outcome releases the pass in the step that reports it. After a
  settlement the pass stays installed ("ending") until its completion runs.
- The best-effort cancellation of a deferred handle has no effect on the state.
- One abort request is outstanding at a time; it may name any accepted
  operation, also one that is settled.
- A call with invalid arguments, an unknown tool and a blocked call are
  refused alike (`RefusePlanned`, `ToolHookReturns`).
- Of the memos and output checkpoints of a call there is one flag, of the
  frames of a response another.

### The other modules

*`LaneCallers`.* Each caller makes one call (`kind`, `pc`, `answer`). `line`
is `Session.mutationLine`, with the caller or pass that holds it; `owner` is
`idleOwner`; `pass` and the outcome of each pass are what observers share. A
step runs from one await on the outside (file system, provider, callback) to
the next: promise continuations in between cannot interleave. What a pass does
is reduced to a commit, a retry or deferred wait, or a settlement.

*`Transcript` and `StructuralDrive`.* `tree` is the sequence of entries; an
entry keeps its kind, its ancestors (as a set: numbers grow along a path) and,
if it is a summary, the messages it was made from (`told`), the tail it copies
(`tail`) and whether the summary before it went into it (`carries`). `op` is
the operation with its summary task; one action per leaf and outcome. Token
counts are nondeterministic, so a cut may fall on any valid cut point. An error
projects no message. A summary that a hook gives replaces the generated text and
keeps what the preparation has. The requests of one attempt are one effect, an
abort is one step. A pass waits for a retry or, as an incident of its host,
reports it and ends (`ReportRetry`). Of a run there is what meets a summary; tools, items and follow-ups are in `LaneRun`. Of past
operations only the number is kept. A Session may be opened with a transcript
that already has summaries.

*`JsonlStorage`.* `lines` are the transactions after the header, each whole,
torn, or mixed (written behind a torn one); `temp` the staging file; `job` the
commit or repair that is at the file system; `memory` what
`InMemoryStorageState` holds. Bytes arrive in two pieces, and any call can fail
with either written. A transaction has one sequence number and no content;
legacy entries never change and are left out. `answer` is what callers know.

*`EventWatch`.* Events are numbered. `line` is the holder of the mutation line,
`bus` and the queue of each watch their delivery tails, with the epoch in which
an event was put there. A listener may ask for a resnapshot and wait for it,
which holds up its own tail. Ordinary listeners only delay the bus.

*`SessionRouter`.* Connections, the queue of operations of each
(`runForClient`), attachments with their lease and operations in flight, and
handles. A management call that the application delays is one that the router
starts late; `Scripts` fix which calls come, and in which order they were made.
Leases and opens may be refused and workers may end, within `MaxEnds`.

## 3. What TLC checks

Bounds are constants. A run takes from a few seconds to two minutes.

| run | question | bounds that matter |
|---|---|---|
| `operations` | Do effects happen once, in order, and not after a cancellation, is nothing left behind, does every pass end, and does every operation settle? | two operations, so that an abort of the first can meet the second; one with parallel and one with serial tools, two calls each; two attempts; two stops, so that a recovery is itself interrupted; all ways to drive |
| `inbox` | Does input enter once, in order, and completely? | two operations, two items of any kind, one stop; deliveries one by one and all at once |
| `storage` | Does the file keep the promise of a store, and is a fork one moment of it? | three transactions, so that one follows a failed one and one follows its repair; two failed calls, two stops, both formats |
| `server` | Are handles neither doubled nor leaked, do releases wait, does a close end? | two connections, two Sessions, three management calls in four scripts, a service call, one loss, worker end or refusal |
| `watch` | Is every event seen once, across snapshots? | two watches, two events, a resnapshot each: before, between and after the events |
| `callers` | Does each caller get its own answer, and return? | three calls in nine mixes, two operations, a wait, a failed commit, a close |
| `structural` | Do summaries stand for what they replace, and does compaction end? | one operation of any kind on three transcripts, two summaries, two attempts, an append or a crash, any abort |
| `retry_wake`, `torn_append`, `lost_connection`, `retry_join`, `split_turn` | Does the code do what its documents say? | each finds a counterexample, section 5 |

The properties stand at the end of their modules, with a comment each. In short:

- `NoInvariantFault`: no procedure meets a state that its code rejects with
  `SessionInvariantError`; it would fault the harness and all its lanes.
- `NothingLeftBehind`: every stored payload, staged result, memo, checkpoint,
  argument and frame belongs to something that will read or delete it.
- `CancelledEffectsAreSignalled`, `EffectsOnlyWhileRunning`: no effect escapes a
  cancellation, and none starts after the mark.
- `EffectsHappenOnce`: over any number of passes and stops an intent is sent
  once and a tool runs once, or its durable record allows the replay.
- `PlacementIsCurrent`, `ResultsInSourceOrder`, `SerialToolsFollowResults`: the
  order of tool results.
- `InputEntersInOrder`, `CompletionTakesAllInput`: the inbox.
- `KeepsLifecycle`: the lane implements `OperationLifecycle` under the mapping
  `StatusOf`.
- `GateInvariant`: the inductive invariant of the gate, section 4.
- `KeepsPromise`: `JsonlStorage` implements `TransactionLog`, where the log is
  what the next process would read. `MemoryIsFile`: between two commits memory
  and file agree, so that a restart changes nothing. `ForkIsSnapshot`: both
  passes of a fork read the transactions that were there when it was asked.
- `FollowsHistory`: `EventWatch` implements `EventStream`. `NothingFallsBetween`
  is the invariant behind it: what a watch has seen and what is on its way make
  up the published history.
- `AnswersAreOwn`, `CallbackIsAlone`, `ClosedIsQuiet`: callers and idle owners.
- `SummariesFit`: a compaction and the tail it copies stand for exactly the
  context it replaces, and a branch summary for exactly what its navigation
  leaves behind, whatever the lane did since they were prepared. `CompactsOncePerCause`: a run does
  not compact again for the trigger it compacted for.
- `OneHandlePerSession`, `ReleaseWaitsForCalls`, `RemovalReleasesFirst`,
  `ClosedServerHoldsNothing`: the server.

Liveness is checked under the `FairSpec` of each module.

- `LaneRun` (`OperationsSettle`, `PassesEnd`): weak fairness of `PassStep` (the event loop
  runs every pass; hooks, providers and tools return: a tool that never returns
  keeps a run open, as it does in the code), of `CommitAbort` (the mutation line
  serves every command), `TimePasses` and `Restart` (the host reopens a
  Session). Strong fairness of `InstallPass`: the host drives an operation it
  finds open, and its claim gets its turn in a first-in first-out line however
  many abort requests come and go. `MaxTurns` bounds a run, as a provider that
  always asks for another tool would extend it for ever, and `MaxStops` the
  crashes. A poll may be deferred any number of times, so `OperationsSettle`
  says only of a provider that does not defer for ever that its operation
  settles. `PassesEnd` needs no such premise: a pass polls once, reports the wait
  and ends, whatever the provider does.
- `JsonlStorage` (`CallersHear`): weak fairness of `JobStep`: file system calls
  return. Nobody has to close or reopen.
- `EventWatch` (`WatchersCatchUp`): weak fairness of the end of a commit, of
  delivery, of snapshots and of listeners, which return unless they wait for a
  resnapshot.
- `LaneCallers` (`CallsReturn`): weak fairness of every caller's continuation, of
  the pass and of the close; strong fairness of `PassCommits`, as the line is a
  queue and a pass is not kept from it for ever.
- `SessionRouter` (`CloseCompletes`): weak fairness of `Progress`, all steps that
  no host chooses: workers answer and admitted calls end.
- `StructuralDrive` (`SummariesSettle`): weak fairness of `PassStep` and of
  `InstallPass`, with crashes bounded by `MaxIncidents`.

Deadlock is checked in `operations`, `inbox`, `retry_wake`, `storage` and
`torn_append`, where something can always happen: a lane can take or withdraw something, a file can
be opened or closed. The other runs really end, and say `CHECK_DEADLOCK FALSE`:
when every call has returned (`callers`, `retry_join`), the server is closed
(`server`, `lost_connection`), the events are delivered (`watch`), or no
further operation is accepted (`structural`, `split_turn`). That nothing
stops *early* there is what their liveness properties say.

`PROJECT.json` pairs each property of a passing run with a mutant: a definition
of the model changed as a plausible bug would change the code, with which TLC
finds the property violated. The mutants stand before the definitions they
change and are marked in their comments.

## 4. What is proved

A theorem holds for every value of the constants that satisfies the named
assumptions of its component's module. None of them bounds what may happen: they
say that bounds are naturals, that settings are Booleans, that choices are
subsets of the kinds there are, which values differ, and that what is stored of an
entry refers to older entries (`StoredEntriesLookBack`: `session/commit.ts:107`
refuses an entry whose parent is not there). Each proof module begins
with its inductive invariant, as a conjunction of named parts; it then has one
lemma per action or group of actions for the types, one lemma per part for a
step, and the theorems. TLC checked each inductive invariant on the instances of
section 3 before it was proved.

**The lane.** The assumptions are those of `LaneState` (`MaxOps`, `MaxAttempts`
and `MaxCalls` are positive).

- `LaneTypeProofs!TypeCorrect`: the type invariant. One lemma per action, over
  the four groups of steps. That `attempt` stays within `MaxAttempts` is the bound
  on retries.
- `LaneGateProofs`: `GateInvariant` is inductive, and from it follow
  `SignalsFollowCancellation` (no signal is early), `CancellationReachesEffects`
  and `NoEffectAfterCancellation`. The three properties are not inductive: to know that
  an effect in flight was signalled one has to know why its gate is open. The
  strengthening is `ClosedGateHasCause` (a closed gate has been signalled, or the
  request that closed it is still queued) and `UnsignalledIsEarly` (a pass that a
  queued or committed abort has missed is still before its first command).
  The second is where the race of section 5 lives: "timer" is early.
- `LaneGateProofs!LaneKeepsLifecycle`: the refinement of
  `OperationLifecycle`, from `LedgerInvariant` (operations are numbered by
  acceptance, and exactly the accepted ones that are not open have a result).
  Each step maps to one abstract action or to a stutter.
- `LaneGateProofs` also proves `InputKeepsOrder` and `CompletionTakesAll`,
  which need no invariant beyond the types and the gate: they are about what a
  boundary selects. `SelectionsSelect` says that with an item the older ones of
  its class are taken, `EmptyPlanTakesAll` that a plan that could finish and has
  nothing to answer is all there is. That a class that is not empty has an oldest
  item (`SomeIsOldest`) rests on `<` being well-founded.
- `LaneEffectProofs`: `EffectInvariant` is inductive and gives
  `PlacementsStayCurrent`, `EffectsAreNotRepeated` and `ResultsAreOrdered`. The
  strengthening says what an invocation may find in its durable record
  (`CallOf`), that placements of a pass are chained, and that what was read for
  placement continues what is placed.
- `LaneEffectProofs!SerialToolsWait`: a pass looks at the earlier calls when it
  prepares a call, and starts the tool several commits later. `SerialMatches`
  says that meanwhile the earlier results stay placed.
- `LaneEffectProofs`: `NothingStays` and `NothingFaults`. Neither property is
  inductive: the first says that nothing too much is stored, the second that
  nothing is missing. `StoresInvariant` joins the two directions, one part per
  kind of value: payloads are those of the queued items (`PayloadsMatch`), staged
  results those of the ready calls, scratch and arguments surround the pending
  calls (`BatchMatches`), frames are those of the pending response
  (`FramesMatch`). What `NoInvariantFault` says of a pass that has waited for a
  cancellation follows from `GateInvariant`.

**Callers** (`LaneCallersProofs`, for any finite set of callers in any mix).
`CallersTypesHold`, `CallbacksAreAlone`, `AnswersAreTheirOwn` and
`ClosedStaysQuiet`. `AnswersAreOwn` and `CallbackIsAlone` are about what a caller
hears, which is decided commands earlier, when it asked, joined or claimed. So
`CallersInvariant` adds what each stage has established: the line holds each
waiting caller once (`LineIsQueue`), what the plan of a command read is still so
while it commits (`TurnsAreHeld`), a pass that is not ended is the operation's
(`PassesAreOwned`) and has an observer, or its outcome is known
(`PassesAreInstalled`), an observer's pass is of its target (`ObserversMatch`), an
abort drives only after its cancellation (`AbortsAreDurable`), and a close that
returned has emptied the line (`ClosesAreComplete`).

**Server** (`SessionRouterProofs`, for any finite sets of connections and Sessions
and any script of management calls). `RouterTypesHold`, `HandlesAreSingle`,
`ReleasesWait`, `RemovalsReleaseFirst` and `ClosedHoldsNothing`. That two attaches
do not both open a Session rests on `HostsMatch`: a Session that is being opened is
neither hosted nor has a handle, and its opener stands first in its queue
(`QueuesAreOwn`, `StepsMatch`), as no request's attachment or handle is made by
another (`RequestsAreFresh`). That a release waits for its calls rests on
`ReleasesHoldCalls`: no call joins those a release waits for, once it has begun.
That a removal releases first needs `RemovalsAreAlone`, which is the application
answering in turn; the close needs `ClosesAreFinal`, what it has waited for does
not come again.

**Storage** (`JsonlStorageProofs`, for any callers, both formats, and any number of
failed calls and stops). `StorageTypesHold` for every host. The other four have
the hypothesis `FaultsOnError`, that every write comes from a harness, which a
failed commit faults: `MemoryMatchesFile`, `ForksAreSnapshots`,
`NothingFollowsTornLine`, and `StorageKeepsPromise`, the refinement of
`TransactionLog`. Without the hypothesis the third is what `torn_append` refutes.
The argument: a reader drops exactly a torn last line, so all parts speak of the
lines before it (`Complete`). They are whole, of different callers and in
sequence (`LinesAreSound`); a torn line is the one that is being appended, or
nothing is appended until the next open (`TornMatches`); memory's next sequence
is the file's (`NextMatches`), its log the file's but for one that is written and
not yet applied (`LogMatches`); a caller that waits has no line, and one that was
told of its commit has one (`QueueIsOwn`, `JobIsOwn`, `CommittedIsRecorded`); what
lies below a fork's bound is final (`ForkMatches`). `JobMatches` says which file and
format each job is at; it holds for every host and stands with the types.

**Events** (`EventWatchProofs`, for any watches, and any number of events and
resnapshots). `WatchTypesHold`, `NothingIsMissed` and `WatchFollowsHistory`, the
refinement of `EventStream`. `NothingFallsBetween` joins three queues in one
sequence; it does not say where in it an event is, and a step that moves an
event, holds it, drops it or puts a snapshot in its place needs that. So
`OwedInOrder` cuts the history in two: there is an `m` such that the watch's own
queue (or what is held) carries what follows the snapshot up to `m`, and the bus
what follows `m`; while a resnapshot waits for its barrier the queue counts for nothing
and the events behind the barrier follow the snapshot. It rests on
`EpochsMatch` (nothing that waits is of the epoch of a resnapshot that goes on),
`BusMatches` (one barrier per resnapshot, and no event bound to a watch that was
not there), `CapturesMatch` (a capture holds the line, so it is what was
published) and `WatchMatches` (the phases of a watch).

**Compaction and navigation** (`StructuralProofs`, for any stored transcripts and
any number of operations, attempts, summaries, entries of the host and crashes).

- `StructuralTypesHold`: the type invariant, from `StructuralInvariant`. Its parts
  are that every entry refers to older ones (`EntriesLookBack`), that what an
  operation is about agrees with its leaf (`OpMatches`), that a pass is where the
  leaf it read lets it be and only a checkpoint or a response carries a
  preparation (`PassMatches`), and that a navigation whose hook is asked has one
  (`NavMatches`).
- `CompactsOnce`: `CompactsOncePerCause`. A threshold and an overflow are kept
  from coming again by different things, which `CausesMatch` names: after a
  compaction at a threshold the newest compaction is behind the trigger before a
  checkpoint asks again, and after one for an overflow the recovery is used up. A
  new trigger is newer than every one that was compacted for.
- `PreparationDivides`: wherever a cut falls, history, prefix and kept tail are
  together the context of the tip. The part between the cut and the start of its
  turn is what an error in the code would lose or count twice.
- `SummariesGoOnFitting`: `SummariesFit` is kept. What a summary replaces is read at
  one time and placed at another, several commits and perhaps a crash later, so
  `PreparationsFit` follows it on its way: the preparation of a pass, of a navigation
  hook and of the operation still divides the context of the tip
  (`PassFits`, `OpFits`), or is what its navigation leaves (`NavFits`, `OpFits`). It
  holds because meanwhile only notes of the host and errors are placed, which are no
  context (`ContextUnchanged`). The hypothesis is that the Session is opened on a
  transcript whose summaries fit, as every transcript written by this code is; the
  instances of `structural` satisfy it.

A path is kept as a set of entries, so that no proof needs induction over the tree;
that a path has a newest compaction and a cut an oldest message (`MaxIsGreatest`,
`MinIsLeast`) rests on `<` being well-founded.

Every safety property and every action property of the passing runs is stated by
one of these theorems. Only model-checked are the liveness properties
(`OperationsSettle`, `PassesEnd`, `CallersHear`, `CloseCompletes`, `WatchersCatchUp`,
`CallsReturn`, `SummariesSettle`), as TLAPS does not prove them under fairness,
and of course the five violations of section 5.

## 5. Findings

Each is a run in which TLC reaches a state that a document excludes.

- `retry_wake`: `docs/harness.md:993` says that `requestAbort` wakes a retry
  timer after the durable cancellation. It does not wake the timer of a pass that
  was installed by a claim queued ahead of the abort command:
  `requestOperationAbort` captures `activeDrive` at the call (`lane.ts:1012`) and
  signals that pass only (`lane.ts:1024`); `runRetryWait` starts its timer
  without a command (`generation.ts:251`). The run still settles
  (`operations`), late by the retry delay.
- `torn_append`: `docs/harness.md:362` says that a torn final line is truncated
  before new writes are admitted. Only an open does that. After an append that
  failed with bytes written the same Session appends behind the torn line
  (`jsonl/storage.ts:143`), acknowledges, and the next open finds a malformed
  line. A harness is safe, as a failed commit faults it (`storage`, with
  `FaultsOnError`); a host that uses the Session directly is not.
- `lost_connection`: `src/packages/server/README.md:15` says that losing a
  connection releases its attachment. An attach that was waiting in the
  application's queue reaches the router after the disconnect has ended, when
  nothing remembers that the connection is gone (`session-router.ts:161`, `:91`).
  Its attachment stays until the Session is removed or the server closes.
- `retry_join`: `docs/harness.md:1366` says that a drive which joins a pass may
  drive again after its outcome. A prompt or `resume()` that joins a pass with
  `waitForRetry: false` is given a retry wait, and faults the harness
  (`lane.ts:1194`, `:1367`).
- `split_turn`: `src/packages/coding-agent/docs/compaction.md:45` says that the
  request for a summary is given the previous summary. When the cut falls inside
  the turn that the first compaction kept, there are no history messages, the
  history text is "No prior history." (`compaction/compaction.ts:775`), and the
  request for the prefix is not given it either. What the first summary told is
  then in no context. The document is that of the application, whose copy of the
  code has the same branch (`coding-agent/src/core/compaction/compaction.ts:887`);
  the harness has no document of its own, but calls the field "Previous
  compaction summary used for iterative updates" (`compaction/compaction.ts:625`),
  and `test/harness/compaction.test.ts:410` expects it in the preparation of just
  this case. `SummariesFit` allows for it: it counts which messages a
  summary replaces, not whether its text carries them.

## 6. Not modelled, and what is next

Not modelled because they hold no protocol state or only do I/O: prompts,
skills, templates, tools, rendering, provider adapters, settings, encoding. The
implementation of SQLite transactions is external. They are the larger part of
the repository's lines: the terminal interface, the provider adapters, the
application's extensions and exports are formatting, parsing and user
interface, and a model of them would repeat the code.

Left out of modelled components: configuration commands and lookup of several
lanes, merging of hook results, decoding of legacy entries, the choice of writes
a fork keeps, the server's handshake and backpressure, `compact` and
`navigateTree` as conveniences. The legacy in-memory loop (`agent-loop.ts`) with
its steering and follow-up queues is a module that could follow.

No module declares a recursive operator.

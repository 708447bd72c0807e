----------------------------- MODULE EventWatch -----------------------------
(****************************************************************************)
(* The event bus of a harness and the watches on a lane.  A commit on the   *)
(* Session's mutation line publishes its events, bound to the watches there *)
(* are, at the end of the bus.  A watch is installed and its snapshot read  *)
(* while the line is held.  Each watch has a delivery tail of its own, an   *)
(* epoch that invalidates what waits in it, and at most one resnapshot,     *)
(* which its listener may also ask for and wait for.  Ordinary listeners    *)
(* only delay the bus.  Events that a commit does not publish (message      *)
(* updates, configuration) are left out: no snapshot includes them.         *)
(****************************************************************************)
EXTENDS Integers, SequencesExt

CONSTANTS
  Watchers,
  MaxEvents,      \* events committed
  MaxResnapshots  \* of each watch

ASSUME WatchAssumption == MaxEvents \in Nat /\ MaxResnapshots \in Nat

VARIABLES
  line,       \* who holds the mutation line
  committed,  \* events of the transactions that committed
  published,  \* those the bus took
  open,       \* neither the bus nor the lane is closed
  bus,        \* HarnessEventBus.deliveryTail
  state,      \* of each watch
  base,       \* the events its snapshot includes
  heard,      \* the events its listener was given since
  buffer,     \* events before start()
  tail,       \* its deliveryTail
  listening,  \* its listener is running: it holds the tail
  waits,      \* and it waits for a resnapshot
  epoch,
  phase,      \* resnapshotState
  held,       \* events after the boundary
  reading,    \* the resnapshot callback
  fresh       \* and the snapshot it captured

harnessVars == <<line, committed, published, open>>
streamVars  == <<base, heard, buffer, tail>>
startVars   == <<state, listening, waits, epoch>>
againVars   == <<phase, held, reading, fresh>>
vars == <<harnessVars, bus, streamVars, startVars, againVars>>

NoSnapshot == -1
Refused    == -2
Everyone(v) == [w \in Watchers |-> v]

Init ==
  /\ line = "free" /\ committed = 0 /\ published = 0 /\ open = TRUE /\ bus = <<>>
  /\ state = Everyone("none") /\ base = Everyone(NoSnapshot) /\ heard = Everyone(<<>>)
  /\ buffer = Everyone(<<>>) /\ tail = Everyone(<<>>) /\ epoch = Everyone(0)
  /\ listening = Everyone(FALSE) /\ waits = Everyone(FALSE)
  /\ phase = Everyone("none") /\ held = Everyone(<<>>)
  /\ reading = Everyone("none") /\ fresh = Everyone(0)

\* Mutant: events before start() are not for the watch.
Listening == {w \in Watchers : state[w] = "started"}
Subscribed == {w \in Watchers : state[w] \in {"buffering", "started"}}

(****************************************************************************)
(* Commits                                                                  *)
(****************************************************************************)
\* A command that finds the lane open commits and publishes even if the
\* harness closes meanwhile; a closed bus takes no events.
BeginCommit ==
  /\ line = "free" /\ open /\ committed < MaxEvents
  /\ line' = "commit"
  /\ UNCHANGED <<committed, published, open, bus, streamVars, startVars, againVars>>

\* emitBatch: the events of a transaction are bound to their recipients here.
EndCommit ==
  /\ line = "commit" /\ line' = "free"
  /\ \E n \in {m \in 1 .. 2 : committed + m <= MaxEvents} :
       /\ committed' = committed + n
       /\ IF open
          THEN /\ published' = published + n
               /\ bus' = bus \o [i \in 1 .. n |->
                            [event |-> published + i, to |-> Subscribed]]
          ELSE UNCHANGED <<published, bus>>
  /\ UNCHANGED <<open, streamVars, startVars, againVars>>

Close ==
  /\ open /\ open' = FALSE
  /\ UNCHANGED <<line, committed, published, bus, streamVars, startVars, againVars>>

(****************************************************************************)
(* A watch                                                                  *)
(****************************************************************************)
\* Lane.watch: the watch receives from here on what is published.
BeginWatch(w) ==
  /\ line = "free" /\ open /\ state[w] = "none"
  /\ line' = "watch" /\ reading' = [reading EXCEPT ![w] = "first"]
  /\ state' = [state EXCEPT ![w] = "buffering"]
  /\ fresh' = [fresh EXCEPT ![w] = committed]
  /\ UNCHANGED <<committed, published, open, bus, streamVars, listening, waits, epoch, phase, held>>

EndWatch(w) ==
  /\ reading[w] = "first"
  /\ line' = "free" /\ reading' = [reading EXCEPT ![w] = "none"]
  /\ base' = [base EXCEPT ![w] = fresh[w]]
  /\ UNCHANGED <<committed, published, open, bus, heard, buffer, tail, startVars, phase, held, fresh>>

Start(w) ==
  /\ state[w] = "buffering" /\ base[w] # NoSnapshot
  /\ state' = [state EXCEPT ![w] = "started"]
  /\ tail' = [tail EXCEPT ![w] = @ \o buffer[w]]
  /\ buffer' = [buffer EXCEPT ![w] = <<>>]
  /\ UNCHANGED <<harnessVars, bus, base, heard, listening, waits, epoch, againVars>>

Unsubscribe(w) ==
  /\ w \in Subscribed /\ base[w] # NoSnapshot
  /\ state' = [state EXCEPT ![w] = "unsubscribed"]
  /\ buffer' = [buffer EXCEPT ![w] = <<>>]
  /\ UNCHANGED <<harnessVars, bus, base, heard, tail, listening, waits, epoch, againVars>>

(****************************************************************************)
(* Delivery                                                                 *)
(****************************************************************************)
\* BufferedEventWatcher.push of several events to watches that are neither
\* dropping nor holding them.
Entries(w, events) == [i \in DOMAIN events |-> [event |-> events[i], epoch |-> epoch[w]]]
Push(W, events) ==
  /\ buffer' = [w \in Watchers |-> IF w \in W /\ state[w] = "buffering"
                                   THEN buffer[w] \o Entries(w, events[w]) ELSE buffer[w]]
  /\ tail' = [w \in Watchers |-> IF w \in W /\ state[w] = "started"
                                 THEN tail[w] \o Entries(w, events[w]) ELSE tail[w]]

Holding(w) == phase[w] = "holding" /\ w \in Subscribed

DeliverEvent ==
  /\ bus # <<>> /\ Head(bus).event # 0
  /\ bus' = Tail(bus)
  /\ LET item == Head(bus) IN
       /\ Push({w \in item.to : phase[w] = "none"}, Everyone(<<item.event>>))
       /\ held' = [w \in Watchers |-> IF w \in item.to /\ Holding(w)
                                      THEN Append(held[w], item.event) ELSE held[w]]
  /\ UNCHANGED <<harnessVars, base, heard, startVars, phase, reading, fresh>>

\* Mutant: a watch that has not started does not see its boundary.
ReachStarted ==
  /\ bus # <<>> /\ Head(bus).event = 0
  /\ bus' = Tail(bus)
  /\ phase' = [w \in Watchers |-> IF w \in Head(bus).to /\ state[w] = "started"
                                  THEN "holding" ELSE phase[w]]
  /\ UNCHANGED <<harnessVars, streamVars, startVars, held, reading, fresh>>

\* The barrier of a resnapshot: markResnapshotBoundary.
ReachBarrier ==
  /\ bus # <<>> /\ Head(bus).event = 0
  /\ bus' = Tail(bus)
  /\ phase' = [w \in Watchers |-> IF w \in Head(bus).to /\ phase[w] = "dropping"
                                  THEN "holding" ELSE phase[w]]
  /\ UNCHANGED <<harnessVars, streamVars, startVars, held, reading, fresh>>

\* The step of enqueue that runs the listener, or skips an event of an
\* earlier epoch.
TakeEvent(w) ==
  /\ tail[w] # <<>> /\ ~listening[w]
  /\ tail' = [tail EXCEPT ![w] = Tail(@)]
  /\ IF state[w] = "started" /\ Head(tail[w]).epoch = epoch[w]
     THEN /\ listening' = [listening EXCEPT ![w] = TRUE]
          /\ heard' = IF base[w] = Refused THEN heard
                      ELSE [heard EXCEPT ![w] = Append(@, Head(tail[w]).event)]
     ELSE UNCHANGED <<listening, heard>>
  /\ UNCHANGED <<harnessVars, bus, base, buffer, state, waits, epoch, againVars>>

ListenerReturns(w) ==
  /\ listening[w] /\ ~waits[w]
  /\ listening' = [listening EXCEPT ![w] = FALSE]
  /\ UNCHANGED <<harnessVars, bus, streamVars, state, waits, epoch, againVars>>

(****************************************************************************)
(* Resnapshot                                                               *)
(****************************************************************************)
\* Mutant: what waits in the tail stays valid.
ResnapshotInEpoch(w) ==
  /\ w \in Subscribed /\ base[w] # NoSnapshot
  /\ phase[w] = "none" /\ epoch[w] < MaxResnapshots
  /\ phase' = [phase EXCEPT ![w] = "dropping"]
  /\ reading' = [reading EXCEPT ![w] = "asked"]
  /\ waits' \in {waits, [waits EXCEPT ![w] = listening[w]]}
  /\ UNCHANGED <<harnessVars, bus, streamVars, state, listening, epoch, held, fresh>>

Resnapshot(w) ==
  /\ w \in Subscribed /\ base[w] # NoSnapshot
  /\ phase[w] = "none" /\ epoch[w] < MaxResnapshots
  /\ epoch' = [epoch EXCEPT ![w] = @ + 1]
  /\ phase' = [phase EXCEPT ![w] = "dropping"]
  /\ reading' = [reading EXCEPT ![w] = "asked"]
  /\ waits' \in {waits, [waits EXCEPT ![w] = listening[w]]}
  /\ UNCHANGED <<harnessVars, bus, streamVars, state, listening, held, fresh>>

\* Mutant: the capture does not hold the line.
CaptureBeside(w) ==
  /\ reading[w] = "asked" /\ open
  /\ line' = "watch"
  /\ reading' = [reading EXCEPT ![w] = "again"]
  /\ fresh' = [fresh EXCEPT ![w] = committed]
  /\ UNCHANGED <<committed, published, open, bus, streamVars, startVars, phase, held>>

BeginCapture(w) ==
  /\ reading[w] = "asked" /\ line = "free" /\ open
  /\ line' = "watch"
  /\ reading' = [reading EXCEPT ![w] = "again"]
  /\ fresh' = [fresh EXCEPT ![w] = committed]
  /\ UNCHANGED <<committed, published, open, bus, streamVars, startVars, phase, held>>

\* markBoundary while the line is held.
EndCapture(w) ==
  /\ reading[w] = "again"
  /\ line' = "free"
  /\ reading' = [reading EXCEPT ![w] = "done"]
  /\ bus' = Append(bus, [event |-> 0, to |-> {w}])
  /\ UNCHANGED <<committed, published, open, streamVars, startVars, phase, held, fresh>>

\* Mutant: the held events are forgotten.
ResumeWithout(w) ==
  /\ phase' = [phase EXCEPT ![w] = "none"] /\ reading' = [reading EXCEPT ![w] = "none"]
  /\ held' = [held EXCEPT ![w] = <<>>]
  /\ waits' = [waits EXCEPT ![w] = FALSE]
  /\ heard' = [heard EXCEPT ![w] = <<>>]
  /\ UNCHANGED <<bus, buffer, tail, state, listening, epoch, fresh>>

\* What follows the await of the boundary, and the rejection when it fails:
\* the events held so far are pushed under the new epoch.
Resume(w) ==
  /\ phase' = [phase EXCEPT ![w] = "none"] /\ reading' = [reading EXCEPT ![w] = "none"]
  /\ Push({w}, held) /\ held' = [held EXCEPT ![w] = <<>>]
  /\ waits' = [waits EXCEPT ![w] = FALSE]
  /\ heard' = [heard EXCEPT ![w] = <<>>]
  /\ UNCHANGED <<bus, state, listening, epoch, fresh>>

InstallSnapshot(w) ==
  /\ reading[w] = "done" /\ phase[w] = "holding"
  /\ base' = [base EXCEPT ![w] = IF @ = Refused THEN @ ELSE fresh[w]]
  /\ Resume(w)
  /\ UNCHANGED harnessVars

\* readLane finds the lane closed.
RefuseResnapshot(w) ==
  /\ reading[w] = "asked" /\ ~open
  /\ base' = [base EXCEPT ![w] = Refused]
  /\ Resume(w)
  /\ UNCHANGED harnessVars

\* A read that fails, in watch() or resnapshot(), faults the harness.
CaptureFails(w) ==
  /\ reading[w] \in {"first", "again"}
  /\ line' = "free" /\ open' = FALSE
  /\ state' = [state EXCEPT ![w] = IF reading[w] = "first" THEN "unsubscribed" ELSE @]
  /\ base' = [base EXCEPT ![w] = Refused]
  /\ phase' = [phase EXCEPT ![w] = "none"] /\ reading' = [reading EXCEPT ![w] = "none"]
  /\ Push(IF reading[w] = "first" THEN {} ELSE {w}, held)
  /\ held' = [held EXCEPT ![w] = <<>>]
  /\ waits' = [waits EXCEPT ![w] = FALSE]
  /\ heard' = [heard EXCEPT ![w] = <<>>]
  /\ UNCHANGED <<committed, published, bus, listening, epoch, fresh>>

Deliver == DeliverEvent \/ ReachBarrier
Answer(w) == EndWatch(w) \/ BeginCapture(w) \/ EndCapture(w) \/ InstallSnapshot(w)
               \/ RefuseResnapshot(w) \/ CaptureFails(w)

Next ==
  \/ BeginCommit \/ EndCommit \/ Close \/ Deliver
  \/ \E w \in Watchers :
       \/ BeginWatch(w) \/ Start(w) \/ Unsubscribe(w) \/ Resnapshot(w) \/ Answer(w)
       \/ TakeEvent(w) \/ ListenerReturns(w)

Spec == Init /\ [][Next]_vars

\* Continuations whose promises have settled run, reads and commits return,
\* and a listener returns unless it waits for a resnapshot.  The mutation
\* line is a queue; here commits are bounded, and weak fairness is enough.
FairSpec ==
  /\ Spec /\ WF_vars(EndCommit) /\ WF_vars(Deliver)
  /\ \A w \in Watchers :
       /\ WF_vars(Answer(w))
       /\ WF_vars(TakeEvent(w)) /\ WF_vars(ListenerReturns(w))

(****************************************************************************)
(* Properties                                                               *)
(****************************************************************************)
Waiting == [event : 1 .. MaxEvents, epoch : 0 .. MaxResnapshots]

\* The type of every variable; only a command or a capture holds the mutation
\* line (Lane.command, Lane.readLane), and one capture at a time.
TypeOK ==
  /\ line \in {"free", "commit", "watch"}
  /\ committed \in 0 .. MaxEvents /\ published \in 0 .. committed /\ open \in BOOLEAN
  /\ bus \in Seq([event : 0 .. MaxEvents, to : SUBSET Watchers])
  /\ state \in [Watchers -> {"none", "buffering", "started", "unsubscribed"}]
  /\ base \in [Watchers -> Refused .. MaxEvents]
  /\ heard \in [Watchers -> Seq(1 .. MaxEvents)]
  /\ buffer \in [Watchers -> Seq(Waiting)] /\ tail \in [Watchers -> Seq(Waiting)]
  /\ listening \in [Watchers -> BOOLEAN] /\ waits \in [Watchers -> BOOLEAN]
  /\ epoch \in [Watchers -> 0 .. MaxResnapshots]
  /\ phase \in [Watchers -> {"none", "dropping", "holding"}]
  /\ held \in [Watchers -> Seq(1 .. MaxEvents)]
  /\ reading \in [Watchers -> {"none", "first", "asked", "again", "done"}]
  /\ fresh \in [Watchers -> 0 .. MaxEvents]
  /\ \A w, v \in Watchers :
       reading[w] \in {"first", "again"} =>
         line = "watch" /\ (reading[v] \in {"first", "again"} => v = w)

\* What will still reach a listener, with 0 for what passes it by: what waits in
\* its tail or its buffer, is held, and is bound to it on the bus, from the barrier
\* on when one is there.
Queued(w, queue) ==
  [i \in DOMAIN queue |-> IF queue[i].epoch = epoch[w] THEN queue[i].event ELSE 0]
IsBarrier(w, i) == i \in DOMAIN bus /\ bus[i].event = 0 /\ w \in bus[i].to
Dropped(w, i) == phase[w] = "dropping" /\ \E j \in DOMAIN bus : j > i /\ IsBarrier(w, j)
OnBus(w) ==
  [i \in DOMAIN bus |-> IF w \in bus[i].to /\ ~Dropped(w, i) THEN bus[i].event ELSE 0]
Coming(w) == Queued(w, tail[w]) \o Queued(w, buffer[w]) \o held[w] \o OnBus(w)

\* In s are the events after one, up to another, each once and in order.
Runs(s, after, upto) ==
  /\ after <= upto /\ {s[i] : i \in DOMAIN s} \ {0} = after + 1 .. upto
  /\ \A i, j \in DOMAIN s : i < j /\ s[i] # 0 /\ s[j] # 0 => s[i] < s[j]

\* The start of what a listener will have: the snapshot of the handle, or the
\* one that a resnapshot has captured and not installed.
Known(w) == IF reading[w] \in {"first", "again", "done"} THEN fresh[w]
            ELSE base[w] + Len(heard[w])

\* A snapshot and the events still to come make up all that was published,
\* each event once and in order: none falls between Lane.watch's capture and
\* its subscription, between buffering and start(), or between the dropping
\* and the holding of a resnapshot whose boundary is marked.
NothingFallsBetween ==
  \A w \in Subscribed :
    base[w] # Refused /\ reading[w] \notin {"asked", "again"} =>
      Runs(Coming(w), Known(w), published)

\* The watches implement the stream they promise: a listener is given the
\* event after those it knows, also when a resnapshot, its own or another
\* caller's, overtakes events that wait in a tail (events.ts, epoch and held).
Promised == INSTANCE EventStream WITH history <- published, closed <- ~open
FollowsHistory == Promised!Stream

\* Every resnapshot ends, installed or refused, although its barrier waits for
\* deliveries and a listener may wait for the resnapshot; and a started listener
\* is given all that was published, unless it unsubscribes or was refused.
WatchersCatchUp ==
  \A w \in Watchers :
    /\ phase[w] # "none" ~> phase[w] = "none"
    /\ []<>(state[w] # "started" \/ base[w] = Refused \/ base[w] + Len(heard[w]) = published)
=============================================================================

---------------------------- MODULE SessionRouter ----------------------------
(****************************************************************************)
(* The server's routing of client connections to hosted Sessions: which     *)
(* Session a connection is attached to, the service calls admitted through  *)
(* that attachment, and the handle that hosts the Session.  The router runs *)
(* the operations of one connection one after the other; removal, the end   *)
(* of a worker and the close of the server work on attachments beside them. *)
(* A management call may reach the router late: an application that answers *)
(* them one after the other keeps it waiting, also past the loss of the     *)
(* connection that made it.  When it was made does not show, so the calls   *)
(* that will be made are there from the start.                              *)
(****************************************************************************)
EXTENDS Naturals, Sequences, FiniteSets

CONSTANTS
  Clients, Sessions,
  Scripts,      \* the management calls of a behaviour: one of these sequences
  Hosts,        \* whether the application answers management calls in turn
  MaxRequests,  \* their length; the number of a management call also names
                \* the attachment it makes and the handle it opens
  MaxCalls,     \* Session service calls
  MaxEnds       \* connections lost, workers that end, opens and leases refused

ASSUME RouterAssumption ==
  /\ IsFiniteSet(Clients) /\ IsFiniteSet(Sessions) /\ Hosts \subseteq BOOLEAN
  /\ "none" \notin Clients
  /\ Scripts \subseteq [1 .. MaxRequests ->
       [client : Clients, kind : {"attach", "detach", "remove"}, session : Sessions]]
  /\ MaxRequests \in Nat /\ MaxCalls \in Nat /\ MaxEnds \in Nat

Ids   == 1 .. MaxRequests
Calls == 1 .. MaxCalls

VARIABLES
  serial,   \* the application answers management calls in turn
  conn,     \* connections that are up
  gone,     \* disconnectedClients: lost and not yet released
  request,  \* management calls, in the order of the application
  waiting,  \* those the application has not started
  queue,    \* clientOperations of each connection
  step,     \* progress of the first of them
  att,      \* attachments
  current,  \* attachmentsByClient
  hosted,   \* hostedSessions: the handle of each Session
  opening,  \* openingSessions: the request that opens each Session
  handle,   \* what each handle is doing
  deleted,  \* Sessions whose durable metadata is deleted
  call,     \* service calls
  removal,  \* the removeSession of each request
  closer,   \* progress of Server.close
  ends      \* bound

connVars == <<serial, conn, gone>>
askVars  == <<request, waiting, deleted, removal>>
workVars == <<queue, step>>
vars == <<connVars, askVars, workVars, att, current, hosted, opening, handle, call, closer, ends>>

Ready        == [at |-> "ready", handle |-> 0, att |-> 0]
NoAttachment == [client |-> "none", handle |-> 0, member |-> FALSE, lease |-> "none",
                 release |-> "no", waits |-> {}, why |-> "none"]
NoCall       == [state |-> "new", client |-> "none", route |-> 0]
NoRemoval    == [at |-> "none", handle |-> 0, atts |-> {}]
NoClose      == [at |-> "no", left |-> [c \in Clients |-> 0], openings |-> {}, atts |-> {}]

Init ==
  /\ serial \in Hosts /\ conn = Clients /\ gone = {}
  /\ request \in Scripts /\ waiting = Ids /\ deleted = {} /\ removal = [i \in Ids |-> NoRemoval]
  /\ queue = [c \in Clients |-> <<>>] /\ step = [c \in Clients |-> Ready]
  /\ att = [a \in Ids |-> NoAttachment] /\ current = [c \in Clients |-> 0]
  /\ hosted = [s \in Sessions |-> 0] /\ opening = [s \in Sessions |-> 0]
  /\ handle = [h \in Ids |-> "none"] /\ call = [k \in Calls |-> NoCall]
  /\ closer = NoClose /\ ends = 0

Closing    == closer.at # "no"
Refused(c) == Closing \/ c \in gone
Running(a) == {k \in Calls : call[k].state = "running" /\ call[k].route = a}
Members(h) == {a \in Ids : att[a].member /\ att[a].handle = h}

\* Mutant: a release that failed never settles.
ReleasedWell(a) == att[a].release = "done"
Released(a)     == att[a].release \in {"done", "failed"}

\* Mutant: nobody waits for releases.
WithoutWaiting(A) == TRUE
AllReleased(A)    == \A a \in A : Released(a)

SessionOf(h) == request[h].session
Bounded(free) == IF free THEN ends' = ends ELSE ends < MaxEnds /\ ends' = ends + 1

\* releaseAttachment: once per attachment, for the calls that run now.
Releasing(A, why) ==
  [a \in Ids |->
     IF a \in A /\ att[a].release = "no"
       THEN [att[a] EXCEPT !.release = "waiting", !.waits = Running(a), !.why = why]
       ELSE att[a]]

----------------------------------------------------------------------------
(* Connections and calls.                                                   *)

\* A Session call carries the attachment its client was told of, and takes its
\* place behind the other operations of the connection.
CallService(c, k) ==
  /\ c \in conn /\ call[k].state = "new" /\ current[c] # 0
  /\ \A j \in 1 .. (k - 1) : call[j].state # "new"
  /\ call' = [call EXCEPT ![k] = [state |-> "queued", client |-> c, route |-> current[c]]]
  /\ queue' = [queue EXCEPT ![c] = Append(@, [op |-> "call", id |-> k])]
  /\ UNCHANGED <<step, connVars, askVars, att, current, hosted, opening, handle, closer, ends>>

CallEnds(k) ==
  /\ call[k].state = "running"
  /\ call' = [call EXCEPT ![k].state = "over"]
  /\ att' = [a \in Ids |-> [att[a] EXCEPT !.waits = @ \ {k}]]
  /\ UNCHANGED <<connVars, askVars, workVars, current, hosted, opening, handle, closer, ends>>

WithDisconnects(C) ==
  [c \in Clients |->
     IF c \in C THEN Append(queue[c], [op |-> "disconnect", id |-> 0]) ELSE queue[c]]

\* Mutant: the connection is not marked as disconnected.
LoseAgain(c) ==
  /\ c \in conn /\ Bounded(FALSE)
  /\ conn' = conn /\ gone' = gone \union {c} /\ queue' = WithDisconnects({c})
  /\ UNCHANGED <<serial, step, askVars, att, current, hosted, opening, handle, call, closer>>

LoseConnection(c) ==
  /\ c \in conn /\ Bounded(FALSE)
  /\ conn' = conn \ {c} /\ gone' = gone \union {c} /\ queue' = WithDisconnects({c})
  /\ UNCHANGED <<serial, step, askVars, att, current, hosted, opening, handle, call, closer>>

----------------------------------------------------------------------------
(* Management calls.                                                        *)

Busy == {i \in Ids \ waiting :
              \/ removal[i].at \in {"releasing", "closing"}
              \/ \E c \in Clients : \E j \in DOMAIN queue[c] :
                   queue[c][j].op \in {"attach", "detach"} /\ queue[c][j].id = i}
MayStart(i) == i \in waiting /\ (serial => Busy = {} /\ \A j \in waiting : i <= j)

\* attachSession and detachSession take their place among the operations of the
\* connection, whether it is still there or not.  A server that closes attaches
\* nobody.
StartRequest(i) ==
  /\ MayStart(i) /\ request[i].kind \in {"attach", "detach"}
  /\ waiting' = waiting \ {i}
  /\ queue' = IF Closing /\ request[i].kind = "attach" THEN queue
              ELSE [queue EXCEPT ![request[i].client] =
                      Append(@, [op |-> request[i].kind, id |-> i])]
  /\ UNCHANGED <<step, request, deleted, removal, connVars, att, current, hosted, opening,
                 handle, call, closer, ends>>

\* removeSession, for the application to delete the durable metadata after it.
StartRemoval(i) ==
  /\ MayStart(i) /\ request[i].kind = "remove"
  /\ waiting' = waiting \ {i}
  /\ LET s == request[i].session
         h == hosted[s]
     IN /\ removal' = IF Closing \/ h = 0 THEN removal
                      ELSE [removal EXCEPT ![i] = [at |-> "releasing", handle |-> h,
                                                   atts |-> Members(h)]]
        /\ att' = IF Closing \/ h = 0 THEN att ELSE Releasing(Members(h), "removed")
        /\ deleted' = IF ~Closing /\ h = 0 THEN deleted \union {s} ELSE deleted
  /\ UNCHANGED <<request, connVars, workVars, current, hosted, opening, handle, call, closer, ends>>

StartClosing(H) == [h \in Ids |-> IF h \in H /\ handle[h] = "open" THEN "closing" ELSE handle[h]]

RemovalCloses(i) ==
  /\ removal[i].at = "releasing" /\ AllReleased(removal[i].atts)
  /\ removal' = [removal EXCEPT ![i].at = "closing"]
  /\ handle' = StartClosing({removal[i].handle})
  /\ UNCHANGED <<request, waiting, deleted, connVars, workVars, att, current, hosted, opening,
                 call, closer, ends>>

\* The entry goes with the handle; a failed release keeps the metadata.
RemovalEnds(i) ==
  /\ removal[i].at = "closing" /\ handle[removal[i].handle] = "closed"
  /\ removal' = [removal EXCEPT ![i].at = "over"]
  /\ hosted' = [s \in Sessions |-> IF hosted[s] = removal[i].handle THEN 0 ELSE hosted[s]]
  /\ deleted' = IF \E a \in removal[i].atts : att[a].release = "failed" THEN deleted
                ELSE deleted \union {request[i].session}
  /\ UNCHANGED <<request, waiting, connVars, workVars, att, current, opening, handle, call,
                 closer, ends>>

----------------------------------------------------------------------------
(* Operations of one connection.                                            *)

At(c, op, at) == queue[c] # <<>> /\ Head(queue[c]).op = op /\ step[c].at = at
Id(c)   == Head(queue[c]).id
Pop(c)  == /\ queue' = [queue EXCEPT ![c] = Tail(@)] /\ step' = [step EXCEPT ![c] = Ready]
           /\ closer' = [closer EXCEPT !.left[c] = IF @ = 0 THEN 0 ELSE @ - 1]
Move(c, at, h, a) == /\ step' = [step EXCEPT ![c] = [at |-> at, handle |-> h, att |-> a]]
                     /\ UNCHANGED <<queue, closer>>
KeepHost == UNCHANGED <<askVars, opening, handle>>

\* requireAttachment: the route is the attachment that the connection has now.
AdmitCall(c) ==
  /\ At(c, "call", "ready") /\ Pop(c)
  /\ call' = [call EXCEPT ![Id(c)].state =
       IF Refused(c) \/ current[c] # call[Id(c)].route THEN "over" ELSE "running"]
  /\ KeepHost /\ UNCHANGED <<connVars, att, current, hosted, ends>>

\* detachClient and disconnect release what the connection is attached to.
StartLeave(c) ==
  /\ At(c, "detach", "ready") \/ At(c, "disconnect", "ready")
  /\ IF current[c] = 0
       THEN /\ Pop(c) /\ att' = att
            /\ gone' = IF Head(queue[c]).op = "disconnect" THEN gone \ {c} ELSE gone
       ELSE /\ Move(c, "leave", 0, current[c]) /\ gone' = gone
            /\ att' = Releasing({current[c]}, "left")
  /\ KeepHost /\ UNCHANGED <<serial, conn, current, hosted, call, ends>>

EndLeave(c) ==
  /\ queue[c] # <<>> /\ step[c].at = "leave" /\ Released(step[c].att)
  /\ Pop(c)
  /\ gone' = IF Head(queue[c]).op = "disconnect" THEN gone \ {c} ELSE gone
  /\ KeepHost /\ UNCHANGED <<serial, conn, att, current, hosted, call, ends>>

\* Mutant: a Session whose handle is closing is opened again.
HostedWell(s) == IF hosted[s] # 0 /\ handle[hosted[s]] = "open" THEN hosted[s] ELSE 0
Hosting(s)    == hosted[s]

\* attachClientNow: refused, or attached already, or it acquires the hosted
\* Session: the one there is, the one that is being opened, or a new one.
StartAttach(c) ==
  /\ At(c, "attach", "ready")
  /\ LET s == request[Id(c)].session
     IN IF Refused(c) \/ (current[c] # 0 /\ SessionOf(att[current[c]].handle) = s)
          THEN Pop(c) /\ UNCHANGED opening
        ELSE /\ Move(c, IF Hosting(s) # 0 THEN "acquired" ELSE "acquire", Hosting(s), 0)
             /\ opening' = IF Hosting(s) = 0 /\ opening[s] = 0
                             THEN [opening EXCEPT ![s] = Id(c)] ELSE opening
  /\ UNCHANGED <<connVars, askVars, att, current, hosted, handle, call, ends>>

\* openSession answers everyone who waits for the Session.  A handle that comes
\* while the server closes is closed at once.
Awaiting(s) == {c \in Clients : queue[c] # <<>> /\ step[c].at = "acquire"
                                /\ request[Id(c)].session = s}
OpenEnds(s, ok) ==
  /\ opening[s] # 0
  /\ IF ok THEN s \notin deleted /\ ends' = ends ELSE Bounded(s \in deleted)
  /\ opening' = [opening EXCEPT ![s] = 0]
  /\ handle' = IF ~ok THEN handle
               ELSE [handle EXCEPT ![opening[s]] = IF Closing THEN "closed" ELSE "open"]
  /\ hosted' = IF ok /\ ~Closing THEN [hosted EXCEPT ![s] = opening[s]] ELSE hosted
  /\ step' = [c \in Clients |->
       IF c \notin Awaiting(s) THEN step[c]
       ELSE IF ok /\ ~Closing THEN [at |-> "acquired", handle |-> opening[s], att |-> 0]
       ELSE [step[c] EXCEPT !.at = "failed"]]
  /\ UNCHANGED <<queue, connVars, askVars, att, current, call, closer>>

AttachFails(c) ==
  /\ queue[c] # <<>>
  /\ step[c].at = "failed" \/ (step[c].at = "acquired" /\ Refused(c))
  /\ Pop(c) /\ KeepHost /\ UNCHANGED <<connVars, att, current, hosted, call, ends>>

\* The attachment the connection had is released first.
Switch(c) ==
  /\ At(c, "attach", "acquired") /\ ~Refused(c) /\ current[c] # 0
  /\ Move(c, "switch", step[c].handle, current[c])
  /\ att' = Releasing({current[c]}, "left")
  /\ KeepHost /\ UNCHANGED <<connVars, current, hosted, call, ends>>

SwitchFails(c) ==
  /\ At(c, "attach", "switch") /\ att[step[c].att].release = "failed"
  /\ Pop(c) /\ KeepHost /\ UNCHANGED <<connVars, att, current, hosted, call, ends>>

AskLease(c) ==
  /\ \/ At(c, "attach", "acquired") /\ ~Refused(c) /\ current[c] = 0
     \/ At(c, "attach", "switch") /\ att[step[c].att].release = "done"
  /\ Move(c, "lease", step[c].handle, Id(c))
  /\ att' = [att EXCEPT ![Id(c)] = [NoAttachment EXCEPT
               !.client = c, !.handle = step[c].handle, !.member = TRUE, !.lease = "asked"]]
  /\ KeepHost /\ UNCHANGED <<connVars, current, hosted, call, ends>>

\* The handle gives the lease, perhaps after its worker has ended or begun to
\* close.  If the Session, the connection or the server is on its way out by now,
\* the lease is released again.
LeaseGranted(c) ==
  LET a == step[c].att IN
  /\ At(c, "attach", "lease") /\ att[a].lease = "asked"
  /\ LET stays == hosted[SessionOf(att[a].handle)] = att[a].handle /\ att[a].member
                    /\ ~Refused(c)
         given == [att EXCEPT ![a].lease = "held"]
     IN IF stays
          THEN Pop(c) /\ att' = given /\ current' = [current EXCEPT ![c] = a]
          ELSE /\ Move(c, "leave", 0, a) /\ current' = current
               /\ att' = [given EXCEPT ![a] = [Releasing({a}, "left")[a] EXCEPT !.lease = "held"]]
  /\ KeepHost /\ UNCHANGED <<connVars, hosted, call, ends>>

LeaseRefused(c) ==
  LET a == step[c].att IN
  /\ At(c, "attach", "lease") /\ att[a].lease = "asked"
  /\ Bounded(handle[att[a].handle] # "open")
  /\ att' = [att EXCEPT ![a].lease = "none", ![a].member = FALSE]
  /\ Pop(c) /\ KeepHost /\ UNCHANGED <<connVars, current, hosted, call>>

----------------------------------------------------------------------------
(* Releases.                                                                *)

\* Mutant: a release does not wait for the calls.
AtOnce(a)  == TRUE
Settled(a) == att[a].waits = {}

\* The admitted calls have settled: the lease, once there is one, is released.
StartRelease(a) ==
  /\ att[a].release = "waiting" /\ Settled(a) /\ att[a].lease # "asked"
  /\ att' = [att EXCEPT ![a].release = "releasing",
               ![a].lease = IF @ = "held" THEN "released" ELSE @]
  /\ UNCHANGED <<connVars, askVars, workVars, current, hosted, opening, handle, call, closer, ends>>

\* clearAttachment, whether or not the handle could still release.
EndRelease(a) ==
  /\ att[a].release = "releasing"
  /\ att' = [att EXCEPT ![a].member = FALSE, ![a].release =
               IF att[a].lease = "released" /\ handle[att[a].handle] # "closed"
                 THEN "done" ELSE "failed"]
  /\ current' = [c \in Clients |-> IF current[c] = a THEN 0 ELSE current[c]]
  /\ UNCHANGED <<connVars, askVars, workVars, hosted, opening, handle, call, closer, ends>>

\* A worker has ended, by itself or because its handle closes: invalidate.
HandleEnds(h) ==
  /\ handle[h] \in {"open", "closing"} /\ Bounded(handle[h] = "closing")
  /\ handle' = [handle EXCEPT ![h] = "closed"]
  /\ IF hosted[SessionOf(h)] = h
       THEN /\ hosted' = [hosted EXCEPT ![SessionOf(h)] = 0]
            /\ att' = Releasing(Members(h), "ended")
       ELSE UNCHANGED <<hosted, att>>
  /\ UNCHANGED <<connVars, askVars, workVars, current, opening, call, closer>>

----------------------------------------------------------------------------
(* Server.close.                                                            *)

BeginClose ==
  /\ closer.at = "no" /\ closer' = [closer EXCEPT !.at = "listeners"]
  /\ UNCHANGED <<connVars, askVars, workVars, att, current, hosted, opening, handle, call, ends>>

\* Every connection is closed; then SessionRouter.close waits for the operations
\* and the opens there are.
CloseConnections ==
  /\ closer.at = "listeners"
  /\ conn' = {} /\ gone' = gone \union conn /\ queue' = WithDisconnects(conn)
  /\ closer' = [at |-> "operations", left |-> [c \in Clients |-> Len(queue'[c])],
                openings |-> {s \in Sessions : opening[s] # 0}, atts |-> {}]
  /\ UNCHANGED <<serial, step, askVars, att, current, hosted, opening, handle, call, ends>>

\* Mutant: only handles with attachments are closed.
HandlesInUse  == {h \in {hosted[s] : s \in Sessions} \ {0} : Members(h) # {}}
HostedHandles == {hosted[s] : s \in Sessions} \ {0}

CloseReleases ==
  /\ closer.at = "operations"
  /\ \A c \in Clients : closer.left[c] = 0
  /\ \A s \in closer.openings : opening[s] = 0
  /\ LET all == UNION {Members(h) : h \in HostedHandles}
     IN closer' = [closer EXCEPT !.at = "releases", !.atts = all] /\ att' = Releasing(all, "closed")
  /\ UNCHANGED <<connVars, askVars, workVars, current, hosted, opening, handle, call, ends>>

CloseHandles ==
  /\ closer.at = "releases" /\ AllReleased(closer.atts)
  /\ closer' = [closer EXCEPT !.at = "handles", !.atts = HostedHandles]
  /\ handle' = StartClosing(HostedHandles)
  /\ UNCHANGED <<connVars, askVars, workVars, att, current, hosted, opening, call, ends>>

CloseEnds ==
  /\ closer.at = "handles" /\ \A h \in closer.atts : handle[h] = "closed"
  /\ closer' = [closer EXCEPT !.at = "closed"]
  /\ hosted' = [s \in Sessions |-> IF hosted[s] \in closer.atts THEN 0 ELSE hosted[s]]
  /\ current' = [c \in Clients |-> 0]
  /\ UNCHANGED <<connVars, askVars, workVars, att, opening, handle, call, ends>>
----------------------------------------------------------------------------

ClientStep(c) ==
  \/ AdmitCall(c) \/ StartLeave(c) \/ EndLeave(c) \/ StartAttach(c) \/ AttachFails(c)
  \/ Switch(c) \/ SwitchFails(c) \/ AskLease(c) \/ LeaseGranted(c) \/ LeaseRefused(c)
RequestStep(i) == StartRequest(i) \/ StartRemoval(i) \/ RemovalCloses(i) \/ RemovalEnds(i)
CloseStep == CloseConnections \/ CloseReleases \/ CloseHandles \/ CloseEnds
Progress ==
  \/ \E c \in Clients : ClientStep(c)
  \/ \E i \in Ids : RequestStep(i) \/ StartRelease(i) \/ EndRelease(i) \/ HandleEnds(i)
  \/ \E k \in Calls : CallEnds(k)
  \/ \E s \in Sessions, ok \in BOOLEAN : OpenEnds(s, ok)
  \/ CloseStep
Next ==
  \/ Progress \/ BeginClose
  \/ \E c \in Clients : LoseConnection(c) \/ \E k \in Calls : CallService(c, k)

Spec == Init /\ [][Next]_vars

\* The event loop runs what it can, and hosts and workers answer.
FairSpec == Spec /\ WF_vars(Progress)

----------------------------------------------------------------------------

IdOrNone == 0 .. MaxRequests

Operation  == [op : {"attach", "detach", "call", "disconnect"}, id : Nat]
Progresses == [at : {"ready", "leave", "acquire", "acquired", "failed", "switch", "lease"},
               handle : IdOrNone, att : IdOrNone]
Attachment == [client : Clients \union {"none"}, handle : IdOrNone, member : BOOLEAN,
               lease : {"none", "asked", "held", "released"},
               release : {"no", "waiting", "releasing", "done", "failed"},
               waits : SUBSET Calls, why : {"none", "left", "removed", "ended", "closed"}]
CallType == [state : {"new", "queued", "running", "over"},
             client : Clients \union {"none"}, route : IdOrNone]
Removal  == [at : {"none", "releasing", "closing", "over"}, handle : IdOrNone, atts : SUBSET Ids]
Closer   == [at : {"no", "listeners", "operations", "releases", "handles", "closed"},
             left : [Clients -> Nat], openings : SUBSET Sessions, atts : SUBSET Ids]

AskTypeOK ==
  /\ serial \in BOOLEAN /\ conn \subseteq Clients /\ gone \subseteq Clients \ conn
  /\ request \in Scripts /\ waiting \subseteq Ids /\ deleted \subseteq Sessions
  /\ ends \in 0 .. MaxEnds
WorkTypeOK ==
  /\ queue \in [Clients -> Seq(Operation)] /\ step \in [Clients -> Progresses]
  /\ call \in [Calls -> CallType] /\ removal \in [Ids -> Removal] /\ closer \in Closer
HostTypeOK ==
  /\ att \in [Ids -> Attachment] /\ current \in [Clients -> IdOrNone]
  /\ hosted \in [Sessions -> IdOrNone] /\ opening \in [Sessions -> IdOrNone]
  /\ handle \in [Ids -> {"none", "open", "closing", "closed"}]

\* The variables keep their types.
TypeOK == AskTypeOK /\ WorkTypeOK /\ HostTypeOK

\* A Session has one live handle, and so one worker that writes it, however the
\* attaches of several connections, removals and ends of workers meet.
OneHandlePerSession ==
  \A h, g \in Ids :
    h # g /\ handle[h] \in {"open", "closing"} /\ handle[g] \in {"open", "closing"}
      => SessionOf(h) # SessionOf(g)

\* server/README.md:15: an attachment is released only after the calls admitted
\* through it settle: when its connection is lost, leaves or moves, and when
\* the server closes.  Removal and the end of a worker do not stop admission.
ReleaseWaitsForCalls ==
  \A a \in Ids : att[a].lease = "released" /\ Running(a) # {} => att[a].why \in {"removed", "ended"}

\* server/types.ts:32: routed attachments and handles are released before the
\* durable metadata is deleted; for an application that answers in turn.
RemovalReleasesFirst ==
  serial => /\ \A h \in Ids : handle[h] # "none" /\ SessionOf(h) \in deleted => handle[h] = "closed"
            /\ \A a \in Ids : att[a].lease = "held" => handle[att[a].handle] # "closing"

\* Server shutdown closes every handle, also one that was being opened, and
\* leaves no attachment with a lease on a live one.
ClosedServerHoldsNothing ==
  closer.at = "closed" => /\ \A h \in Ids : handle[h] \in {"none", "closed"}
                          /\ \A s \in Sessions : hosted[s] = 0

\* server/README.md:15: losing a connection releases its attachment.
LostConnectionsHoldNothing ==
  \A c \in Clients : c \notin conn \union gone => current[c] = 0

\* Close ends: releases, removals, opens and the operations of a connection
\* never wait for each other in a circle.
CloseCompletes == Closing ~> closer.at = "closed"
=============================================================================

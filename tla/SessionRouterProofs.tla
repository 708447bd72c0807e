-------------------------- MODULE SessionRouterProofs --------------------------
(****************************************************************************)
(* The routing of connections to hosted Sessions, for any clients, Sessions *)
(* and management calls: type correctness, one live handle for a Session,   *)
(* releases that wait for the calls they cut off, removals that release     *)
(* before anything is deleted, and a closed server that holds nothing.      *)
(****************************************************************************)
EXTENDS SessionRouter, SequenceTheorems, TLAPS

USE RouterAssumption

----------------------------------------------------------------------------
(* The inductive invariant.                                                 *)

\* What waits in a connection's queue: requests the application has started and
\* calls nobody has admitted, each once, of this connection.
QueuesAreOwn ==
  \A c \in Clients : \A j \in 1 .. Len(queue[c]) :
    /\ queue[c][j].op \in {"attach", "detach"} =>
         /\ queue[c][j].id \in Ids \ waiting
         /\ request[queue[c][j].id].client = c
         /\ request[queue[c][j].id].kind = queue[c][j].op
    /\ queue[c][j].op = "call" =>
         /\ queue[c][j].id \in Calls
         /\ call[queue[c][j].id].state = "queued" /\ call[queue[c][j].id].client = c
    /\ queue[c][j].op # "disconnect" =>
         \A i \in 1 .. Len(queue[c]) : queue[c][i] = queue[c][j] => i = j

\* How far the first operation of a queue has come.
StepsMatch ==
  \A c \in Clients :
    /\ step[c].at # "ready" => queue[c] # <<>>
    /\ step[c].at \notin {"ready", "leave"} => queue[c][1].op = "attach"
    /\ step[c].at \in {"acquired", "switch"} => step[c].handle \in Ids
    /\ step[c].at \in {"leave", "switch"} =>
         /\ step[c].att \in Ids
         /\ att[step[c].att].client = c /\ att[step[c].att].release # "no"
    /\ step[c].at = "lease" =>
         /\ step[c].att = queue[c][1].id
         /\ att[step[c].att].client = c /\ att[step[c].att].lease = "asked"

\* The attachment of a request, and the handle it opens, are its own to make.
RequestsAreFresh ==
  /\ \A i \in waiting : /\ handle[i] = "none" /\ att[i].client = "none" /\ removal[i].at = "none"
                        /\ \A s \in Sessions : opening[s] # i
  /\ \A c \in Clients : \A j \in 1 .. Len(queue[c]) :
       queue[c][j].op = "attach" =>
         /\ j # 1 \/ step[c].at \notin {"lease", "leave"} => att[queue[c][j].id].client = "none"
         /\ j # 1 \/ step[c].at = "ready" =>
              /\ handle[queue[c][j].id] = "none"
              /\ \A s \in Sessions : opening[s] # queue[c][j].id

\* An attachment in its life: asked, held, released once.
AttachmentsMatch ==
  \A a \in Ids :
    /\ att[a].client = "none" => att[a] = NoAttachment
    /\ att[a].lease \in {"asked", "held"} => att[a].member
    /\ att[a].member => att[a].handle \in Ids
    /\ att[a].lease = "asked" => LET c == att[a].client IN step[c].at = "lease" /\ step[c].att = a
    /\ att[a].lease = "released" => att[a].release \notin {"no", "waiting"}
    /\ att[a].release \in {"releasing", "done", "failed"} =>
         att[a].waits = {} /\ att[a].lease \notin {"asked", "held"}
    /\ att[a].release \in {"done", "failed"} => \A c \in Clients : current[c] # a

\* The current attachment of a connection.
CurrentIsOwn ==
  \A c \in Clients : current[c] # 0 =>
    /\ att[current[c]].client = c /\ att[current[c]].lease \in {"held", "released"}

\* A release that a connection or the close began holds on to the calls there
\* are: no other is admitted.
ReleasesHoldCalls ==
  \A a \in Ids :
    /\ att[a].release = "no" <=> att[a].why = "none"
    /\ att[a].why \in {"left", "closed"} => Running(a) \subseteq att[a].waits
    /\ att[a].why = "left" /\ att[a].release \in {"waiting", "releasing"} =>
         LET c == att[a].client
         IN step[c].at \in {"leave", "switch"} /\ step[c].att = a
    /\ att[a].why = "closed" => Closing

\* A live handle is the one that hosts its Session, and a Session that is being
\* opened has none.
HostsMatch ==
  /\ \A h \in Ids : handle[h] \in {"open", "closing"} => hosted[SessionOf(h)] = h
  /\ \A s \in Sessions :
       /\ hosted[s] # 0 => SessionOf(hosted[s]) = s /\ handle[hosted[s]] # "none"
       /\ opening[s] # 0 =>
            /\ hosted[s] = 0 /\ SessionOf(opening[s]) = s /\ handle[opening[s]] = "none"
            /\ LET c == request[opening[s]].client
               IN /\ step[c].at = "acquire"
                  /\ queue[c][1].op = "attach" /\ queue[c][1].id = opening[s]

Removing(i) == removal[i].at \in {"releasing", "closing"}

\* An application that answers in turn does nothing beside a removal.
RemovalsAreAlone ==
  /\ \A i \in Ids :
       /\ removal[i].at # "none" => i \notin waiting
       /\ Removing(i) => removal[i].handle \in Ids /\ handle[removal[i].handle] # "none"
  /\ serial =>
       /\ \A i, j \in Busy : i = j
       /\ \A i \in Ids :
            /\ Removing(i) => /\ request[i].kind = "remove"
                              /\ hosted[request[i].session] \in {0, removal[i].handle}
            /\ removal[i].at = "releasing" => Members(removal[i].handle) \subseteq removal[i].atts

\* A handle that is told to close is told so by a removal or by the close.
ClosingHasCause ==
  \A h \in Ids : handle[h] = "closing" =>
    \/ closer.at \in {"handles", "closed"}
    \/ \E i \in Ids : removal[i].at = "closing" /\ removal[i].handle = h

\* What the close has waited for does not come again.
ClosesAreFinal ==
  /\ closer.at \in {"operations", "releases", "handles", "closed"} =>
       \A c \in Clients : \A j \in 1 .. Len(queue[c]) :
         queue[c][j].op = "attach" => j <= closer.left[c]
  /\ closer.at \in {"releases", "handles", "closed"} => \A c \in Clients : closer.left[c] = 0
  /\ closer.at = "releases" =>
       \A s \in Sessions : hosted[s] # 0 => Members(hosted[s]) \subseteq closer.atts
  /\ closer.at = "handles" => HostedHandles \subseteq closer.atts

RouterInvariant ==
  /\ QueuesAreOwn /\ StepsMatch /\ RequestsAreFresh /\ AttachmentsMatch /\ CurrentIsOwn
  /\ ReleasesHoldCalls /\ HostsMatch /\ RemovalsAreAlone /\ ClosingHasCause /\ ClosesAreFinal
  /\ ClosedServerHoldsNothing /\ RemovalReleasesFirst

----------------------------------------------------------------------------
(* What the operations of the model do to the variables.                    *)

\* The parts of a request.
LEMMA RequestTypes ==
  ASSUME TypeOK
  PROVE  \A i \in Ids : /\ request[i].client \in Clients /\ request[i].session \in Sessions
                        /\ request[i].kind \in {"attach", "detach", "remove"}
                        /\ SessionOf(i) \in Sessions
BY DEF TypeOK, AskTypeOK, Ids, SessionOf

\* What joins the end of a queue leaves what is in it alone.
LEMMA AppendsOne ==
  ASSUME NEW s \in Seq(Operation), NEW e \in Operation
  PROVE  /\ Append(s, e) \in Seq(Operation) /\ Append(s, e) # <<>>
         /\ Len(Append(s, e)) = Len(s) + 1 /\ Append(s, e)[Len(s) + 1] = e
         /\ \A j \in 1 .. Len(s) : Append(s, e)[j] = s[j]
BY AppendProperties, EmptySeq, LenProperties

\* What follows the first operation moves up.
LEMMA PopsOne ==
  ASSUME NEW s \in Seq(Operation), s # <<>>
  PROVE  /\ Tail(s) \in Seq(Operation) /\ Len(s) > 0 /\ Len(Tail(s)) = Len(s) - 1
         /\ Head(s) = s[1] /\ s[1] \in Operation
         /\ \A j \in 1 .. Len(Tail(s)) : Tail(s)[j] = s[j + 1]
BY HeadTailProperties, EmptySeq, LenProperties

Pops(c) ==
  /\ queue[c] # <<>> /\ Len(queue'[c]) = Len(queue[c]) - 1
  /\ \A j \in 1 .. Len(queue'[c]) : queue'[c][j] = queue[c][j + 1]
Pushes(c, e) ==
  /\ queue'[c] # <<>> /\ Len(queue'[c]) = Len(queue[c]) + 1
  /\ queue'[c][Len(queue[c]) + 1] = e
  /\ \A j \in 1 .. Len(queue[c]) : queue'[c][j] = queue[c][j]

\* The first operation of a connection is done.
LEMMA PopEffects ==
  ASSUME TypeOK, NEW c \in Clients, queue[c] # <<>>, Pop(c)
  PROVE  /\ queue' \in [Clients -> Seq(Operation)] /\ step' \in [Clients -> Progresses]
         /\ closer' \in Closer
         /\ Pops(c) /\ step'[c] = Ready
         /\ \A d \in Clients \ {c} : queue'[d] = queue[d] /\ step'[d] = step[d]
         /\ closer'.at = closer.at /\ closer'.atts = closer.atts
         /\ closer'.left[c] = (IF closer.left[c] = 0 THEN 0 ELSE closer.left[c] - 1)
         /\ \A d \in Clients \ {c} : closer'.left[d] = closer.left[d]
<1>1. queue[c] \in Seq(Operation) /\ queue \in [Clients -> Seq(Operation)]
  BY DEF TypeOK, WorkTypeOK
<1>2. Tail(queue[c]) \in Seq(Operation)
  BY <1>1, PopsOne
<1>3. queue' \in [Clients -> Seq(Operation)] /\ queue'[c] = Tail(queue[c])
  BY <1>1, <1>2 DEF Pop
<1>4. Ready \in Progresses
  BY DEF Ready, Progresses, IdOrNone
<1>5. step' \in [Clients -> Progresses] /\ step'[c] = Ready
  BY <1>4 DEF Pop, TypeOK, WorkTypeOK
<1>6. closer \in Closer /\ closer.left \in [Clients -> Nat]
  BY DEF TypeOK, WorkTypeOK, Closer
<1>7. /\ closer'.at = closer.at /\ closer'.atts = closer.atts /\ closer'.openings = closer.openings
      /\ closer'.left = [closer.left EXCEPT ![c] = IF @ = 0 THEN 0 ELSE @ - 1]
      /\ closer' = [closer EXCEPT !.left = closer'.left]
  BY <1>6 DEF Pop, Closer
<1>8. closer'.left \in [Clients -> Nat]
  BY <1>6, <1>7
<1>9. closer' \in Closer
  BY <1>6, <1>7, <1>8 DEF Closer
<1>10. Pops(c)
  BY <1>1, <1>3, PopsOne DEF Pops
<1>11. \A d \in Clients \ {c} : queue'[d] = queue[d] /\ step'[d] = step[d]
  BY <1>1 DEF Pop, TypeOK, WorkTypeOK
<1> QED
  BY <1>3, <1>5, <1>6, <1>7, <1>9, <1>10, <1>11

\* The first operation of a connection goes on.
LEMMA MoveEffects ==
  ASSUME TypeOK, NEW c \in Clients, NEW h \in IdOrNone, NEW a \in IdOrNone,
         NEW at \in {"leave", "acquire", "acquired", "switch", "lease"}, Move(c, at, h, a)
  PROVE  /\ step' \in [Clients -> Progresses] /\ UNCHANGED <<queue, closer>>
         /\ step'[c] = [at |-> at, handle |-> h, att |-> a]
         /\ \A d \in Clients \ {c} : step'[d] = step[d]
<1>1. [at |-> at, handle |-> h, att |-> a] \in Progresses
  BY DEF Progresses
<1> QED
  BY <1>1 DEF Move, TypeOK, WorkTypeOK

\* Connections are told to leave.
LEMMA DisconnectEffects ==
  ASSUME TypeOK, NEW C \in SUBSET Clients, queue' = WithDisconnects(C)
  PROVE  /\ queue' \in [Clients -> Seq(Operation)]
         /\ \A c \in Clients : IF c \in C THEN Pushes(c, [op |-> "disconnect", id |-> 0])
                                          ELSE queue'[c] = queue[c]
<1> DEFINE e == [op |-> "disconnect", id |-> 0]
<1>1. e \in Operation
  BY DEF Operation
<1>2. \A c \in Clients : queue[c] \in Seq(Operation)
  BY DEF TypeOK, WorkTypeOK
<1>3. \A c \in Clients : Append(queue[c], e) \in Seq(Operation)
  BY <1>1, <1>2, AppendsOne
<1>4. /\ queue' \in [Clients -> Seq(Operation)]
      /\ \A c \in Clients : queue'[c] = (IF c \in C THEN Append(queue[c], e) ELSE queue[c])
  BY <1>2, <1>3 DEF WithDisconnects
<1>5. ASSUME NEW c \in Clients, c \in C PROVE Pushes(c, e)
  <2> HIDE DEF e
  <2>1. queue'[c] = Append(queue[c], e) /\ queue[c] \in Seq(Operation)
    BY <1>2, <1>4, <1>5
  <2> QED
    BY <1>1, <2>1, AppendsOne DEF Pushes
<1> QED
  BY <1>4, <1>5

\* A release begins once.
LEMMA ReleasingEffects ==
  ASSUME TypeOK, NEW A \in SUBSET Ids, NEW why \in {"left", "removed", "ended", "closed"}
  PROVE  /\ Releasing(A, why) \in [Ids -> Attachment]
         /\ \A a \in Ids :
              LET b == Releasing(A, why)[a] IN
              /\ b.client = att[a].client /\ b.handle = att[a].handle
              /\ b.member = att[a].member /\ b.lease = att[a].lease
              /\ IF a \in A /\ att[a].release = "no"
                   THEN b.release = "waiting" /\ b.waits = Running(a) /\ b.why = why
                   ELSE b = att[a]
<1>1. att \in [Ids -> Attachment] /\ \A a \in Ids : Running(a) \in SUBSET Calls
  BY DEF TypeOK, HostTypeOK, Running
<1>2. ASSUME NEW a \in Ids
      PROVE  LET b == [att[a] EXCEPT !.release = "waiting", !.waits = Running(a), !.why = why]
             IN /\ b \in Attachment /\ b.client = att[a].client /\ b.handle = att[a].handle
                /\ b.member = att[a].member /\ b.lease = att[a].lease
                /\ b.release = "waiting" /\ b.waits = Running(a) /\ b.why = why
  <2>1. att[a] \in Attachment /\ Running(a) \in SUBSET Calls
    BY <1>1
  <2> QED
    BY <2>1 DEF Attachment
<1>3. \A a \in Ids : Releasing(A, why)[a] =
        IF a \in A /\ att[a].release = "no"
          THEN [att[a] EXCEPT !.release = "waiting", !.waits = Running(a), !.why = why]
          ELSE att[a]
  BY DEF Releasing
<1>4. Releasing(A, why) \in [Ids -> Attachment]
  BY <1>1, <1>2, <1>3 DEF Releasing
<1> QED
  BY <1>1, <1>2, <1>3, <1>4

\* The operation a connection works on is its own.
LEMMA HeadIsOwn ==
  ASSUME TypeOK, QueuesAreOwn, NEW c \in Clients, queue[c] # <<>>
  PROVE  /\ Head(queue[c]) = queue[c][1] /\ Id(c) = queue[c][1].id /\ 1 \in 1 .. Len(queue[c])
         /\ Len(queue[c]) \in Nat
         /\ queue[c][1].op \in {"attach", "detach"} =>
              /\ Id(c) \in Ids \ waiting
              /\ request[Id(c)].client = c /\ request[Id(c)].kind = queue[c][1].op
         /\ queue[c][1].op = "call" =>
              /\ Id(c) \in Calls
              /\ call[Id(c)].state = "queued" /\ call[Id(c)].client = c
<1>1. queue[c] \in Seq(Operation)
  BY DEF TypeOK, WorkTypeOK
<1>2. /\ Head(queue[c]) = queue[c][1] /\ Len(queue[c]) \in Nat /\ Len(queue[c]) > 0
      /\ 1 \in 1 .. Len(queue[c])
  BY <1>1, PopsOne, LenProperties
<1> QED
  BY <1>2 DEF QueuesAreOwn, Id

\* An attach that a connection works on, and the attachment it asks for.
LEMMA AttachAt ==
  ASSUME TypeOK, QueuesAreOwn, StepsMatch, NEW c \in Clients, NEW x, At(c, "attach", x)
  PROVE  /\ queue[c] # <<>> /\ queue[c][1].op = "attach" /\ step[c].at = x
         /\ Id(c) = queue[c][1].id /\ Id(c) \in Ids \ waiting
         /\ request[Id(c)].client = c /\ request[Id(c)].kind = "attach"
         /\ request[Id(c)].session \in Sessions
         /\ x = "lease" => step[c].att = Id(c)
BY HeadIsOwn, RequestTypes DEF At, StepsMatch

\* The first operation of one connection goes on or is done.
LEMMA ClientEffects ==
  ASSUME TypeOK, QueuesAreOwn, StepsMatch, NEW c \in Clients, ClientStep(c)
  PROVE  /\ queue' \in [Clients -> Seq(Operation)] /\ step' \in [Clients -> Progresses]
         /\ closer' \in Closer /\ queue[c] # <<>>
         /\ \A d \in Clients \ {c} : queue'[d] = queue[d] /\ step'[d] = step[d]
         /\ \/ Pop(c) /\ Pops(c) /\ step'[c] = Ready
            \/ UNCHANGED <<queue, closer>> /\ step'[c].at # "ready"
<1>1. /\ queue \in [Clients -> Seq(Operation)] /\ closer \in Closer /\ current[c] \in IdOrNone
      /\ step[c] \in Progresses
      /\ \A s \in Sessions : hosted[s] \in IdOrNone
  BY DEF TypeOK, WorkTypeOK, HostTypeOK
<1>2. /\ queue[c] # <<>>
      /\ \/ Pop(c)
         \/ \E h \in IdOrNone, a \in IdOrNone,
               at \in {"leave", "acquire", "acquired", "switch", "lease"} : Move(c, at, h, a)
  <2> USE <1>1
  <2>1. CASE AdmitCall(c) \/ EndLeave(c) \/ AttachFails(c) \/ SwitchFails(c)
    BY <2>1 DEF AdmitCall, EndLeave, AttachFails, SwitchFails, At
  <2>2. CASE StartLeave(c)
    BY <2>2 DEF StartLeave, At, IdOrNone
  <2>3. CASE StartAttach(c)
    <3>1. request[Id(c)].session \in Sessions /\ queue[c] # <<>>
      BY <2>3, AttachAt DEF StartAttach
    <3>2. Hosting(request[Id(c)].session) \in IdOrNone
      BY <3>1 DEF Hosting
    <3> QED
      BY <2>3, <3>1, <3>2 DEF StartAttach, IdOrNone
  <2>4. CASE Switch(c)
    BY <2>4 DEF Switch, At, Progresses
  <2>5. CASE AskLease(c)
    <3>1. Id(c) \in Ids /\ queue[c] # <<>>
      BY <2>5, AttachAt DEF AskLease
    <3> QED
      BY <2>5, <3>1 DEF AskLease, Ids, IdOrNone, Progresses
  <2>6. CASE LeaseGranted(c)
    <3>1. Id(c) \in Ids /\ queue[c] # <<>> /\ step[c].att = Id(c)
      BY <2>6, AttachAt DEF LeaseGranted
    <3> QED
      BY <2>6, <3>1 DEF LeaseGranted, Ids, IdOrNone
  <2>7. CASE LeaseRefused(c)
    BY <2>7 DEF LeaseRefused, At
  <2> QED
    BY <2>1, <2>2, <2>3, <2>4, <2>5, <2>6, <2>7 DEF ClientStep
<1>3. CASE Pop(c)
  BY <1>2, <1>3, PopEffects
<1>4. ASSUME NEW h \in IdOrNone, NEW a \in IdOrNone,
             NEW at \in {"leave", "acquire", "acquired", "switch", "lease"}, Move(c, at, h, a)
      PROVE  /\ step' \in [Clients -> Progresses] /\ UNCHANGED <<queue, closer>>
             /\ step'[c].at # "ready"
             /\ \A d \in Clients \ {c} : step'[d] = step[d]
  <2>1. /\ step' \in [Clients -> Progresses] /\ UNCHANGED <<queue, closer>>
        /\ step'[c] = [at |-> at, handle |-> h, att |-> a]
        /\ \A d \in Clients \ {c} : step'[d] = step[d]
    BY <1>4, MoveEffects DEF Move
  <2>2. [at |-> at, handle |-> h, att |-> a].at # "ready"
    OBVIOUS
  <2> QED
    BY <2>1, <2>2
<1> QED
  BY <1>1, <1>2, <1>3, <1>4

\* What a step does to the operations of one connection.
LEMMA QueueSteps ==
  ASSUME TypeOK, QueuesAreOwn, StepsMatch, Next
  PROVE  /\ queue' \in [Clients -> Seq(Operation)]
         /\ \A c \in Clients :
              \/ queue'[c] = queue[c]
              \/ Pops(c) /\ ClientStep(c) /\ Pop(c)
              \/ \E k \in Calls : CallService(c, k) /\ Pushes(c, [op |-> "call", id |-> k])
              \/ \E i \in Ids : /\ StartRequest(i) /\ request[i].client = c
                                /\ (request[i].kind = "attach" => closer.at = "no")
                                /\ Pushes(c, [op |-> request[i].kind, id |-> i])
              \/ Pushes(c, [op |-> "disconnect", id |-> 0])
<1>1. /\ queue \in [Clients -> Seq(Operation)] /\ Calls \subseteq Nat /\ Ids \subseteq Nat
      /\ conn \in SUBSET Clients
  BY DEF TypeOK, AskTypeOK, WorkTypeOK, Calls, Ids
<1>2. ASSUME NEW c \in Clients, ClientStep(c)
      PROVE  /\ queue' \in [Clients -> Seq(Operation)]
             /\ \A d \in Clients : queue'[d] = queue[d] \/ (Pops(d) /\ ClientStep(d) /\ Pop(d))
  BY <1>2, ClientEffects
<1>3. ASSUME NEW c \in Clients, NEW k \in Calls, CallService(c, k)
      PROVE  /\ queue' \in [Clients -> Seq(Operation)]
             /\ \A d \in Clients : \/ queue'[d] = queue[d]
                                   \/ /\ CallService(d, k)
                                      /\ Pushes(d, [op |-> "call", id |-> k])
  <2> DEFINE e == [op |-> "call", id |-> k]
  <2>1. e \in Operation
    BY <1>1 DEF Operation
  <2>2. queue' = [queue EXCEPT ![c] = Append(queue[c], e)]
    BY <1>3 DEF CallService
  <2> HIDE DEF e
  <2>3. Append(queue[c], e) \in Seq(Operation)
    BY <1>1, <2>1, AppendsOne
  <2>4. Pushes(c, e)
    BY <1>1, <2>1, <2>2, AppendsOne DEF Pushes
  <2>5. queue' \in [Clients -> Seq(Operation)] /\ \A d \in Clients \ {c} : queue'[d] = queue[d]
    BY <1>1, <2>2, <2>3
  <2> QED
    BY <1>3, <2>4, <2>5 DEF e
<1>4. ASSUME NEW i \in Ids, StartRequest(i)
      PROVE  /\ queue' \in [Clients -> Seq(Operation)]
             /\ \A d \in Clients : \/ queue'[d] = queue[d]
                                   \/ /\ StartRequest(i) /\ request[i].client = d
                                      /\ (request[i].kind = "attach" => closer.at = "no")
                                      /\ Pushes(d, [op |-> request[i].kind, id |-> i])
  <2> DEFINE e == [op |-> request[i].kind, id |-> i]
  <2> DEFINE c == request[i].client
  <2>1. e \in Operation /\ c \in Clients
    BY <1>1, <1>4, RequestTypes DEF Operation, StartRequest
  <2>2. \/ queue' = queue
        \/ /\ queue' = [queue EXCEPT ![c] = Append(queue[c], e)]
           /\ request[i].kind = "attach" => closer.at = "no"
    BY <1>4 DEF StartRequest, Closing
  <2> HIDE DEF e, c
  <2>3. Append(queue[c], e) \in Seq(Operation) /\ queue[c] \in Seq(Operation)
    BY <1>1, <2>1, AppendsOne
  <2>4. CASE queue' = queue
    BY <1>1, <2>4
  <2>5. CASE queue' = [queue EXCEPT ![c] = Append(queue[c], e)] /\ queue' # queue
    <3>1. Pushes(c, e)
      BY <1>1, <2>1, <2>3, <2>5, AppendsOne DEF Pushes
    <3>2. queue' \in [Clients -> Seq(Operation)] /\ \A d \in Clients \ {c} : queue'[d] = queue[d]
      BY <1>1, <2>3, <2>5
    <3>3. Pushes(c, [op |-> request[i].kind, id |-> i]) /\ c = request[i].client
      BY <3>1 DEF e, c
    <3> QED
      BY <1>4, <2>2, <2>5, <3>2, <3>3
  <2> QED
    BY <2>2, <2>4, <2>5
<1>5. CASE (\E c \in Clients : LoseConnection(c)) \/ CloseConnections
  <2>1. \E C \in SUBSET Clients : queue' = WithDisconnects(C)
    BY <1>1, <1>5 DEF LoseConnection, CloseConnections
  <2> QED
    BY <2>1, DisconnectEffects
<1>6. CASE \/ \E i \in Ids : \/ StartRemoval(i) \/ RemovalCloses(i) \/ RemovalEnds(i)
                             \/ StartRelease(i) \/ EndRelease(i) \/ HandleEnds(i)
           \/ \E k \in Calls : CallEnds(k)
           \/ \E s \in Sessions, ok \in BOOLEAN : OpenEnds(s, ok)
           \/ CloseReleases \/ CloseHandles \/ CloseEnds \/ BeginClose
  <2>1. queue' = queue
    BY <1>6 DEF StartRemoval, RemovalCloses, RemovalEnds, StartRelease, EndRelease, HandleEnds,
           CallEnds, OpenEnds, CloseReleases, CloseHandles, CloseEnds, BeginClose, workVars
  <2> QED
    BY <1>1, <2>1
<1> QED
  BY <1>2, <1>3, <1>4, <1>5, <1>6 DEF Next, Progress, RequestStep, CloseStep

----------------------------------------------------------------------------
(* The types of the variables.                                              *)

\* What was asked and what connections there are.
LEMMA AskTypes ==
  ASSUME TypeOK, QueuesAreOwn, StepsMatch, Next
  PROVE  AskTypeOK' /\ request' = request /\ serial' = serial
<1> USE DEF AskTypeOK, Bounded, connVars, askVars, KeepHost
<1>1. /\ AskTypeOK /\ (closer.at = "no" \/ closer.at # "no")
      /\ \A i \in Ids : request[i].session \in Sessions
  BY RequestTypes DEF TypeOK
<1>2. CASE \E c \in Clients : ClientStep(c)
  <2> PICK c \in Clients : ClientStep(c)
    BY <1>2
  <2>1. CASE AdmitCall(c) \/ StartAttach(c) \/ AttachFails(c) \/ Switch(c) \/ SwitchFails(c)
             \/ AskLease(c) \/ LeaseGranted(c)
    BY <1>1, <2>1 DEF AdmitCall, StartAttach, AttachFails, Switch, SwitchFails, AskLease,
                      LeaseGranted
  <2>2. CASE StartLeave(c) \/ EndLeave(c)
    BY <1>1, <2>2 DEF StartLeave, EndLeave
  <2>3. CASE LeaseRefused(c)
    BY <1>1, <2>3 DEF LeaseRefused
  <2> QED
    BY <2>1, <2>2, <2>3 DEF ClientStep
<1>3. CASE \E i \in Ids : RequestStep(i)
  BY <1>1, <1>3 DEF RequestStep, StartRequest, StartRemoval, RemovalCloses, RemovalEnds
<1>4. CASE \/ \E i \in Ids : StartRelease(i) \/ EndRelease(i) \/ HandleEnds(i)
           \/ \E k \in Calls : CallEnds(k)
           \/ \E s \in Sessions, ok \in BOOLEAN : OpenEnds(s, ok)
  <2>1. CASE \E i \in Ids : StartRelease(i) \/ EndRelease(i)
    BY <1>1, <2>1 DEF StartRelease, EndRelease
  <2>2. CASE \E i \in Ids : HandleEnds(i)
    BY <1>1, <2>2 DEF HandleEnds
  <2>3. CASE \E k \in Calls : CallEnds(k)
    BY <1>1, <2>3 DEF CallEnds
  <2>4. CASE \E s \in Sessions, ok \in BOOLEAN : OpenEnds(s, ok)
    BY <1>1, <2>4 DEF OpenEnds
  <2> QED
    BY <1>4, <2>1, <2>2, <2>3, <2>4
<1>5. CASE CloseStep \/ BeginClose
  BY <1>1, <1>5 DEF CloseStep, CloseConnections, CloseReleases, CloseHandles, CloseEnds, BeginClose
<1>6. CASE \E c \in Clients : LoseConnection(c) \/ \E k \in Calls : CallService(c, k)
  <2>1. ASSUME NEW c \in Clients, LoseConnection(c)
        PROVE  AskTypeOK' /\ request' = request /\ serial' = serial
    <3>1. conn' \subseteq Clients /\ gone' \subseteq Clients \ conn'
      BY <1>1, <2>1 DEF LoseConnection
    <3>2. ends < MaxEnds /\ ends' = ends + 1
      BY <2>1 DEF LoseConnection
    <3> QED
      BY <1>1, <2>1, <3>1, <3>2 DEF LoseConnection
  <2>2. CASE \E c \in Clients, k \in Calls : CallService(c, k)
    BY <1>1, <2>2 DEF CallService
  <2> QED
    BY <1>6, <2>1, <2>2
<1> QED
  BY <1>2, <1>3, <1>4, <1>5, <1>6 DEF Next, Progress

\* What connections work on.
LEMMA StepTypes ==
  ASSUME TypeOK, QueuesAreOwn, StepsMatch, Next
  PROVE  step' \in [Clients -> Progresses]
<1>1. step \in [Clients -> Progresses] /\ opening \in [Sessions -> IdOrNone]
  BY DEF TypeOK, WorkTypeOK, HostTypeOK
<1>2. CASE \E c \in Clients : ClientStep(c)
  BY <1>2, ClientEffects
<1>3. ASSUME NEW s \in Sessions, NEW ok \in BOOLEAN, OpenEnds(s, ok)
      PROVE  step' \in [Clients -> Progresses]
  <2>1. [at |-> "acquired", handle |-> opening[s], att |-> 0] \in Progresses
    BY <1>1 DEF Progresses, IdOrNone
  <2>2. \A c \in Clients : [step[c] EXCEPT !.at = "failed"] \in Progresses
    BY <1>1 DEF Progresses
  <2> QED
    BY <1>1, <1>3, <2>1, <2>2 DEF OpenEnds
<1>4. CASE \/ \E i \in Ids : RequestStep(i) \/ StartRelease(i) \/ EndRelease(i) \/ HandleEnds(i)
           \/ \E k \in Calls : CallEnds(k)
           \/ CloseStep \/ BeginClose
           \/ \E c \in Clients : LoseConnection(c) \/ \E k \in Calls : CallService(c, k)
  <2>1. step' = step
    BY <1>4 DEF RequestStep, StartRequest, StartRemoval, RemovalCloses, RemovalEnds, StartRelease,
           EndRelease, HandleEnds, CallEnds, CloseStep, CloseConnections, CloseReleases,
           CloseHandles, CloseEnds, BeginClose, LoseConnection, CallService, workVars
  <2> QED
    BY <1>1, <2>1
<1> QED
  BY <1>2, <1>3, <1>4 DEF Next, Progress

\* The handles that host Sessions.
LEMMA HostedTypes ==
  ASSUME TypeOK
  PROVE  /\ HostedHandles \subseteq Ids /\ \A h \in Nat : Members(h) \subseteq Ids
         /\ UNION {Members(h) : h \in HostedHandles} \subseteq Ids
BY DEF TypeOK, HostTypeOK, HostedHandles, Members, Ids, IdOrNone

\* The close.
LEMMA CloserTypes ==
  ASSUME TypeOK, QueuesAreOwn, StepsMatch, Next
  PROVE  closer' \in Closer
<1>1. /\ closer \in Closer /\ queue' \in [Clients -> Seq(Operation)]
      /\ opening \in [Sessions -> IdOrNone]
  BY QueueSteps DEF TypeOK, WorkTypeOK, HostTypeOK
<1>2. CASE \E c \in Clients : ClientStep(c)
  BY <1>2, ClientEffects
<1>3. CASE CloseConnections
  <2>1. \A c \in Clients : Len(queue'[c]) \in Nat
    BY <1>1, LenProperties
  <2> QED
    BY <1>3, <2>1 DEF CloseConnections, Closer
<1>4. CASE CloseReleases
  BY <1>1, <1>4, HostedTypes DEF CloseReleases, Closer
<1>5. CASE CloseHandles \/ CloseEnds \/ BeginClose
  BY <1>1, <1>5, HostedTypes DEF CloseHandles, CloseEnds, BeginClose, Closer
<1>6. CASE \/ \E i \in Ids : RequestStep(i) \/ StartRelease(i) \/ EndRelease(i) \/ HandleEnds(i)
           \/ \E k \in Calls : CallEnds(k)
           \/ \E s \in Sessions, ok \in BOOLEAN : OpenEnds(s, ok)
           \/ \E c \in Clients : LoseConnection(c) \/ \E k \in Calls : CallService(c, k)
  <2>1. closer' = closer
    BY <1>6 DEF RequestStep, StartRequest, StartRemoval, RemovalCloses, RemovalEnds, StartRelease,
           EndRelease, HandleEnds, CallEnds, OpenEnds, LoseConnection, CallService
  <2> QED
    BY <1>1, <2>1
<1> QED
  BY <1>2, <1>3, <1>4, <1>5, <1>6 DEF Next, Progress, CloseStep

\* The service calls.
LEMMA CallTypes ==
  ASSUME TypeOK, QueuesAreOwn, StepsMatch, Next
  PROVE  /\ call' \in [Calls -> CallType]
         /\ \A k \in Calls :
              \/ call'[k] = call[k]
              \/ /\ call[k].state = "new" /\ call'[k].state = "queued"
                 /\ \E c \in Clients : CallService(c, k) /\ call'[k].client = c
              \/ /\ call[k].state = "running" /\ call'[k].state = "over" /\ CallEnds(k)
                 /\ call'[k].client = call[k].client /\ call'[k].route = call[k].route
              \/ /\ call'[k].client = call[k].client /\ call'[k].route = call[k].route
                 /\ \E c \in Clients :
                      /\ AdmitCall(c) /\ queue[c] # <<>> /\ k = Id(c) /\ queue[c][1].op = "call"
                      /\ call'[k].state = IF Refused(c) \/ current[c] # call[k].route
                                            THEN "over" ELSE "running"
<1>1. /\ call \in [Calls -> CallType] /\ \A k \in Calls : call[k] \in CallType
      /\ current \in [Clients -> IdOrNone]
  BY DEF TypeOK, WorkTypeOK, HostTypeOK
<1>2. ASSUME NEW c \in Clients, AdmitCall(c)
      PROVE  /\ call' \in [Calls -> CallType]
             /\ queue[c] # <<>> /\ queue[c][1].op = "call" /\ Id(c) \in Calls
             /\ \A k \in Calls \ {Id(c)} : call'[k] = call[k]
             /\ call'[Id(c)].client = call[Id(c)].client /\ call'[Id(c)].route = call[Id(c)].route
             /\ call'[Id(c)].state = IF Refused(c) \/ current[c] # call[Id(c)].route
                                       THEN "over" ELSE "running"
  <2> DEFINE x == IF Refused(c) \/ current[c] # call[Id(c)].route THEN "over" ELSE "running"
  <2>1. queue[c] # <<>> /\ queue[c][1].op = "call" /\ Id(c) \in Calls
    BY <1>2, HeadIsOwn DEF AdmitCall, At
  <2>2. call' = [call EXCEPT ![Id(c)] = [call[Id(c)] EXCEPT !.state = x]]
    BY <1>2 DEF AdmitCall
  <2>3. x \in {"over", "running"}
    OBVIOUS
  <2> HIDE DEF x
  <2>4. /\ [call[Id(c)] EXCEPT !.state = x] \in CallType
        /\ [call[Id(c)] EXCEPT !.state = x].state = x
        /\ [call[Id(c)] EXCEPT !.state = x].client = call[Id(c)].client
        /\ [call[Id(c)] EXCEPT !.state = x].route = call[Id(c)].route
    BY <1>1, <2>1, <2>3 DEF CallType
  <2>5. /\ call' \in [Calls -> CallType] /\ call'[Id(c)] = [call[Id(c)] EXCEPT !.state = x]
        /\ \A k \in Calls \ {Id(c)} : call'[k] = call[k]
    BY <1>1, <2>1, <2>2, <2>4
  <2> QED
    BY <2>1, <2>4, <2>5 DEF x
<1>3. ASSUME NEW c \in Clients, NEW k \in Calls, CallService(c, k)
      PROVE  /\ call' \in [Calls -> CallType]
             /\ \A j \in Calls \ {k} : call'[j] = call[j]
             /\ call[k].state = "new" /\ call'[k].state = "queued" /\ call'[k].client = c
  BY <1>1, <1>3 DEF CallService, CallType
<1>4. ASSUME NEW k \in Calls, CallEnds(k)
      PROVE  /\ call' \in [Calls -> CallType]
             /\ \A j \in Calls \ {k} : call'[j] = call[j]
             /\ call[k].state = "running" /\ call'[k].state = "over"
             /\ call'[k].client = call[k].client /\ call'[k].route = call[k].route
  BY <1>1, <1>4 DEF CallEnds, CallType
<1>5. CASE \/ \E c \in Clients : ClientStep(c) /\ ~AdmitCall(c)
           \/ \E i \in Ids : RequestStep(i) \/ StartRelease(i) \/ EndRelease(i) \/ HandleEnds(i)
           \/ \E s \in Sessions, ok \in BOOLEAN : OpenEnds(s, ok)
           \/ CloseStep \/ BeginClose
           \/ \E c \in Clients : LoseConnection(c)
  <2>1. call' = call
    BY <1>5 DEF ClientStep, StartLeave, EndLeave, StartAttach, AttachFails, Switch, SwitchFails,
           AskLease, LeaseGranted, LeaseRefused, RequestStep, StartRequest, StartRemoval,
           RemovalCloses, RemovalEnds, StartRelease, EndRelease, HandleEnds, OpenEnds, CloseStep,
           CloseConnections, CloseReleases, CloseHandles, CloseEnds, BeginClose, LoseConnection
  <2> QED
    BY <1>1, <2>1
<1>6. CASE \E c \in Clients : AdmitCall(c)
  BY <1>2, <1>6
<1>7. CASE \E c \in Clients, k \in Calls : CallService(c, k)
  BY <1>3, <1>7
<1>8. CASE \E k \in Calls : CallEnds(k)
  BY <1>4, <1>8
<1> QED
  BY <1>5, <1>6, <1>7, <1>8 DEF Next, Progress

\* How an attachment changes: what of it stays, and how a release of it begins,
\* waits and ends.
Kept(a) == att'[a].client = att[a].client /\ att'[a].handle = att[a].handle
ReleaseKept(a) == att'[a].release = att[a].release /\ att'[a].why = att[a].why
                  /\ att'[a].waits = att[a].waits
LeaseKept(a) == att'[a].lease = att[a].lease /\ att'[a].member = att[a].member
ReleaseBegins(a, why) ==
  /\ Kept(a) /\ att[a].release = "no"
  /\ att'[a].release = "waiting" /\ att'[a].waits = Running(a) /\ att'[a].why = why

Asked(c) ==
  LET a == Id(c) IN
  /\ AskLease(c)
  /\ att'[a] = [NoAttachment EXCEPT !.client = c, !.handle = step[c].handle, !.member = TRUE,
                                    !.lease = "asked"]
  /\ step'[c] = [at |-> "lease", handle |-> step[c].handle, att |-> a]
  /\ UNCHANGED <<queue, current>>
Granted(c) ==
  LET a == step[c].att IN
  /\ LeaseGranted(c) /\ Kept(a) /\ att'[a].member = att[a].member
  /\ att[a].lease = "asked" /\ att'[a].lease = "held"
  /\ \/ Pop(c) /\ ReleaseKept(a) /\ current' = [current EXCEPT ![c] = a]
     \/ /\ step'[c] = [at |-> "leave", handle |-> 0, att |-> a] /\ UNCHANGED <<queue, current>>
        /\ att'[a].release # "no"
        /\ ReleaseBegins(a, "left") \/ (att[a].release # "no" /\ ReleaseKept(a))
Withdrawn(c) ==
  LET a == step[c].att IN
  /\ LeaseRefused(c) /\ Pop(c) /\ Kept(a) /\ ReleaseKept(a)
  /\ att[a].lease = "asked" /\ att'[a].lease = "none" /\ ~att'[a].member

\* An attachment that only a release touches.
Releases(a) ==
  /\ Kept(a)
  /\ \/ \E c \in Clients : /\ StartLeave(c) \/ Switch(c)
                           /\ current[c] = a /\ step'[c].at \in {"leave", "switch"}
                           /\ step'[c].att = a /\ step[c].at \in {"ready", "acquired"}
                           /\ ReleaseBegins(a, "left") /\ LeaseKept(a)
     \/ \E i \in Ids : StartRemoval(i) /\ att[a].member /\ ReleaseBegins(a, "removed") /\ LeaseKept(a)
     \/ \E h \in Ids : HandleEnds(h) /\ att[a].member /\ ReleaseBegins(a, "ended") /\ LeaseKept(a)
     \/ CloseReleases /\ att[a].member /\ ReleaseBegins(a, "closed") /\ LeaseKept(a)
     \/ /\ StartRelease(a) /\ att[a].release = "waiting" /\ att'[a].release = "releasing"
        /\ att[a].waits = {} /\ att'[a].waits = {} /\ att'[a].why = att[a].why
        /\ att[a].lease # "asked" /\ att'[a].member = att[a].member
        /\ att'[a].lease = IF att[a].lease = "held" THEN "released" ELSE att[a].lease
     \/ /\ EndRelease(a) /\ att[a].release = "releasing" /\ att'[a].release \in {"done", "failed"}
        /\ att'[a].waits = att[a].waits /\ att'[a].why = att[a].why
        /\ ~att'[a].member /\ att'[a].lease = att[a].lease
        /\ current' = [c \in Clients |-> IF current[c] = a THEN 0 ELSE current[c]]
     \/ \E k \in Calls : /\ CallEnds(k) /\ LeaseKept(a) /\ att'[a].waits = att[a].waits \ {k}
                         /\ att'[a].release = att[a].release /\ att'[a].why = att[a].why

\* Whatever begins a release of several attachments.
LEMMA ReleasingSteps ==
  ASSUME TypeOK, NEW A \in SUBSET Ids, NEW why \in {"left", "removed", "ended", "closed"},
         att' = Releasing(A, why)
  PROVE  /\ att' \in [Ids -> Attachment]
         /\ \A a \in Ids : \/ att'[a] = att[a] /\ (a \in A => att[a].release # "no")
                           \/ a \in A /\ ReleaseBegins(a, why) /\ LeaseKept(a)
BY ReleasingEffects DEF Kept, ReleaseBegins, LeaseKept

\* An attach asks for a lease of its handle.
LEMMA AskEffects ==
  ASSUME TypeOK, QueuesAreOwn, StepsMatch, NEW c \in Clients, AskLease(c)
  PROVE  /\ att' \in [Ids -> Attachment] /\ Asked(c) /\ At(c, "attach", step[c].at)
         /\ Id(c) \in Ids /\ \A a \in Ids \ {Id(c)} : att'[a] = att[a]
<1>1. /\ att \in [Ids -> Attachment] /\ \A a \in Ids : att[a] \in Attachment
      /\ current \in [Clients -> IdOrNone] /\ step \in [Clients -> Progresses]
      /\ \A d \in Clients : step[d].handle \in IdOrNone /\ step[d].att \in IdOrNone
  BY DEF TypeOK, HostTypeOK, WorkTypeOK, Progresses, IdOrNone
<1> DEFINE b == [NoAttachment EXCEPT !.client = c, !.handle = step[c].handle, !.member = TRUE,
                                     !.lease = "asked"]
<1>2. b \in Attachment
  BY <1>1 DEF NoAttachment, Attachment
<1>3. At(c, "attach", step[c].at) /\ Id(c) \in Ids
  BY AttachAt DEF AskLease, At
<1>4. att' = [att EXCEPT ![Id(c)] = b]
  BY DEF AskLease
<1>5. att' \in [Ids -> Attachment] /\ att'[Id(c)] = b /\ \A a \in Ids \ {Id(c)} : att'[a] = att[a]
  <2> HIDE DEF b
  <2> QED
    BY <1>1, <1>2, <1>3, <1>4
<1>6. /\ step'[c] = [at |-> "lease", handle |-> step[c].handle, att |-> Id(c)]
      /\ UNCHANGED <<queue, current>>
  BY <1>1 DEF AskLease, Move
<1> QED
  BY <1>3, <1>5, <1>6 DEF Asked

\* The lease comes: the attachment stays, or leaves at once.
LEMMA GrantEffects ==
  ASSUME TypeOK, QueuesAreOwn, StepsMatch, NEW c \in Clients, LeaseGranted(c)
  PROVE  /\ att' \in [Ids -> Attachment] /\ Granted(c) /\ At(c, "attach", "lease")
         /\ Id(c) \in Ids /\ step[c].att = Id(c)
         /\ \A a \in Ids \ {Id(c)} : att'[a] = att[a]
<1>1. /\ att \in [Ids -> Attachment] /\ \A a \in Ids : att[a] \in Attachment
      /\ current \in [Clients -> IdOrNone] /\ step \in [Clients -> Progresses]
      /\ \A d \in Clients : step[d].handle \in IdOrNone /\ step[d].att \in IdOrNone
  BY DEF TypeOK, HostTypeOK, WorkTypeOK, Progresses, IdOrNone
<1> DEFINE a == step[c].att
<1> DEFINE r == Releasing({a}, "left")[a]
<1>2. At(c, "attach", "lease") /\ a = Id(c) /\ a \in Ids /\ att[a].lease = "asked"
  BY AttachAt DEF LeaseGranted
<1>3. \/ /\ Pop(c) /\ att' = [att EXCEPT ![a] = [att[a] EXCEPT !.lease = "held"]]
         /\ current' = [current EXCEPT ![c] = a]
      \/ /\ Move(c, "leave", 0, a) /\ current' = current
         /\ att' = [[att EXCEPT ![a].lease = "held"] EXCEPT ![a] = [r EXCEPT !.lease = "held"]]
  BY DEF LeaseGranted
<1> HIDE DEF a
<1>4. [att[a] EXCEPT !.lease = "held"] \in Attachment
  BY <1>1, <1>2 DEF Attachment
<1>5. CASE /\ Pop(c) /\ att' = [att EXCEPT ![a] = [att[a] EXCEPT !.lease = "held"]]
           /\ current' = [current EXCEPT ![c] = a]
  <2>1. /\ att' \in [Ids -> Attachment] /\ att'[a] = [att[a] EXCEPT !.lease = "held"]
        /\ \A x \in Ids \ {a} : att'[x] = att[x]
    BY <1>1, <1>2, <1>4, <1>5
  <2>2. att'[a].lease = "held" /\ Kept(a) /\ ReleaseKept(a) /\ att'[a].member = att[a].member
    BY <1>1, <1>2, <2>1 DEF Attachment, Kept, ReleaseKept
  <2> QED
    BY <1>2, <1>5, <2>1, <2>2 DEF Granted, a
<1>6. CASE /\ Move(c, "leave", 0, a) /\ current' = current
           /\ att' = [[att EXCEPT ![a].lease = "held"] EXCEPT ![a] = [r EXCEPT !.lease = "held"]]
  <2>1. /\ r \in Attachment /\ r.client = att[a].client /\ r.handle = att[a].handle
        /\ r.member = att[a].member
        /\ IF att[a].release = "no"
             THEN r.release = "waiting" /\ r.waits = Running(a) /\ r.why = "left"
             ELSE r = att[a]
    BY <1>1, <1>2, ReleasingEffects
  <2> HIDE DEF r
  <2>2. /\ [r EXCEPT !.lease = "held"] \in Attachment /\ [r EXCEPT !.lease = "held"].lease = "held"
        /\ [r EXCEPT !.lease = "held"].client = r.client
        /\ [r EXCEPT !.lease = "held"].handle = r.handle
        /\ [r EXCEPT !.lease = "held"].member = r.member
        /\ [r EXCEPT !.lease = "held"].release = r.release
        /\ [r EXCEPT !.lease = "held"].waits = r.waits
        /\ [r EXCEPT !.lease = "held"].why = r.why
    BY <2>1 DEF Attachment
  <2>3. /\ att' \in [Ids -> Attachment] /\ att'[a] = [r EXCEPT !.lease = "held"]
        /\ \A x \in Ids \ {a} : att'[x] = att[x]
    BY <1>1, <1>2, <1>6, <2>2
  <2>4. step'[c] = [at |-> "leave", handle |-> 0, att |-> a] /\ queue' = queue
    BY <1>1, <1>6 DEF Move
  <2>5. /\ Kept(a) /\ att'[a].member = att[a].member /\ att'[a].lease = "held"
        /\ att'[a].release # "no"
        /\ ReleaseBegins(a, "left") \/ (att[a].release # "no" /\ ReleaseKept(a))
    BY <2>1, <2>2, <2>3 DEF Kept, ReleaseKept, ReleaseBegins
  <2> QED
    BY <1>2, <1>6, <2>3, <2>4, <2>5 DEF Granted, a
<1> QED
  BY <1>3, <1>5, <1>6

\* The lease is refused.
LEMMA RefuseEffects ==
  ASSUME TypeOK, QueuesAreOwn, StepsMatch, NEW c \in Clients, LeaseRefused(c)
  PROVE  /\ att' \in [Ids -> Attachment] /\ Withdrawn(c) /\ At(c, "attach", "lease")
         /\ Id(c) \in Ids /\ step[c].att = Id(c)
         /\ \A a \in Ids \ {Id(c)} : att'[a] = att[a]
<1>1. /\ att \in [Ids -> Attachment] /\ \A a \in Ids : att[a] \in Attachment
      /\ current \in [Clients -> IdOrNone] /\ step \in [Clients -> Progresses]
      /\ \A d \in Clients : step[d].handle \in IdOrNone /\ step[d].att \in IdOrNone
  BY DEF TypeOK, HostTypeOK, WorkTypeOK, Progresses, IdOrNone
<1> DEFINE a == step[c].att
<1>2. At(c, "attach", "lease") /\ a = Id(c) /\ a \in Ids /\ att[a].lease = "asked" /\ Pop(c)
  BY AttachAt DEF LeaseRefused
<1>3. att' = [att EXCEPT ![a].lease = "none", ![a].member = FALSE]
  BY DEF LeaseRefused
<1> HIDE DEF a
<1>4. att' = [att EXCEPT ![a] = [att[a] EXCEPT !.lease = "none", !.member = FALSE]]
  BY <1>1, <1>2, <1>3
<1>5. [att[a] EXCEPT !.lease = "none", !.member = FALSE] \in Attachment
  BY <1>1, <1>2 DEF Attachment
<1>6. /\ att' \in [Ids -> Attachment]
      /\ att'[a] = [att[a] EXCEPT !.lease = "none", !.member = FALSE]
      /\ \A x \in Ids \ {a} : att'[x] = att[x]
  BY <1>1, <1>2, <1>4, <1>5
<1>7. att'[a].lease = "none" /\ ~att'[a].member /\ Kept(a) /\ ReleaseKept(a)
  BY <1>1, <1>2, <1>6 DEF Attachment, Kept, ReleaseKept
<1> QED
  BY <1>2, <1>6, <1>7 DEF Withdrawn, a

\* How the attachments change.
LEMMA AttSteps ==
  ASSUME TypeOK, QueuesAreOwn, StepsMatch, Next
  PROVE  /\ att' \in [Ids -> Attachment]
         /\ \A a \in Ids :
              \/ att'[a] = att[a]
              \/ Releases(a)
              \/ \E c \in Clients : Asked(c) /\ At(c, "attach", step[c].at) /\ a = Id(c)
              \/ \E c \in Clients : /\ At(c, "attach", "lease") /\ a = Id(c) /\ a = step[c].att
                                    /\ Granted(c) \/ Withdrawn(c)
<1>1. /\ att \in [Ids -> Attachment] /\ \A a \in Ids : att[a] \in Attachment
      /\ current \in [Clients -> IdOrNone] /\ step \in [Clients -> Progresses]
      /\ \A c \in Clients : step[c].handle \in IdOrNone /\ step[c].att \in IdOrNone
      /\ \A c \in Clients : current[c] # 0 => current[c] \in Ids
  BY DEF TypeOK, HostTypeOK, WorkTypeOK, Progresses, IdOrNone, Ids
<1>2. ASSUME NEW c \in Clients, StartLeave(c) \/ Switch(c)
      PROVE  /\ att' \in [Ids -> Attachment]
             /\ \A a \in Ids : att'[a] = att[a] \/ Releases(a)
  <2>1. CASE att' = att
    BY <1>1, <2>1
  <2>2. CASE att' # att
    <3>1. /\ current[c] \in Ids /\ att' = Releasing({current[c]}, "left")
          /\ \/ StartLeave(c) /\ Move(c, "leave", 0, current[c]) /\ step[c].at = "ready"
             \/ Switch(c) /\ Move(c, "switch", step[c].handle, current[c]) /\ step[c].at = "acquired"
      BY <1>1, <1>2, <2>2 DEF StartLeave, Switch, At
    <3>2. step'[c].att = current[c] /\ step'[c].at \in {"leave", "switch"}
      BY <1>1, <3>1 DEF Move
    <3>3. /\ att' \in [Ids -> Attachment]
          /\ \A a \in Ids : \/ att'[a] = att[a]
                            \/ a = current[c] /\ ReleaseBegins(a, "left") /\ LeaseKept(a)
      <4>1. {current[c]} \in SUBSET Ids /\ att' = Releasing({current[c]}, "left")
        BY <3>1
      <4> QED
        BY <4>1, ReleasingSteps
    <3>4. \A a \in Ids : ReleaseBegins(a, "left") => Kept(a)
      BY DEF ReleaseBegins
    <3> QED
      BY <3>1, <3>2, <3>3, <3>4 DEF Releases
  <2> QED
    BY <2>1, <2>2
<1>3. ASSUME NEW c \in Clients, AskLease(c)
      PROVE  /\ att' \in [Ids -> Attachment] /\ Asked(c) /\ At(c, "attach", step[c].at)
             /\ Id(c) \in Ids /\ \A a \in Ids \ {Id(c)} : att'[a] = att[a]
  BY <1>3, AskEffects
<1>4. ASSUME NEW c \in Clients, LeaseGranted(c)
      PROVE  /\ att' \in [Ids -> Attachment] /\ Granted(c) /\ At(c, "attach", "lease")
             /\ Id(c) \in Ids /\ step[c].att = Id(c)
             /\ \A a \in Ids \ {Id(c)} : att'[a] = att[a]
  BY <1>4, GrantEffects
<1>5. ASSUME NEW c \in Clients, LeaseRefused(c)
      PROVE  /\ att' \in [Ids -> Attachment] /\ Withdrawn(c) /\ At(c, "attach", "lease")
             /\ Id(c) \in Ids /\ step[c].att = Id(c)
             /\ \A a \in Ids \ {Id(c)} : att'[a] = att[a]
  BY <1>5, RefuseEffects
<1>6. ASSUME NEW i \in Ids, StartRemoval(i)
      PROVE  att' \in [Ids -> Attachment] /\ \A a \in Ids : att'[a] = att[a] \/ Releases(a)
  <2>1. att' = att \/ att' = Releasing(Members(hosted[request[i].session]), "removed")
    BY <1>6 DEF StartRemoval
  <2>2. Members(hosted[request[i].session]) \in SUBSET Ids
    BY DEF Members
  <2>3. /\ att' \in [Ids -> Attachment]
        /\ \A a \in Ids : att'[a] = att[a] \/ (att[a].member /\ ReleaseBegins(a, "removed") /\ LeaseKept(a))
    BY <1>1, <2>1, <2>2, ReleasingSteps DEF Members
  <2> QED
    BY <1>6, <2>3 DEF Releases, ReleaseBegins
<1>7. ASSUME NEW h \in Ids, HandleEnds(h)
      PROVE  att' \in [Ids -> Attachment] /\ \A a \in Ids : att'[a] = att[a] \/ Releases(a)
  <2>1. att' = att \/ att' = Releasing(Members(h), "ended")
    BY <1>7 DEF HandleEnds
  <2>2. Members(h) \in SUBSET Ids
    BY DEF Members
  <2>3. /\ att' \in [Ids -> Attachment]
        /\ \A a \in Ids : att'[a] = att[a] \/ (att[a].member /\ ReleaseBegins(a, "ended") /\ LeaseKept(a))
    BY <1>1, <2>1, <2>2, ReleasingSteps DEF Members
  <2> QED
    BY <1>7, <2>3 DEF Releases, ReleaseBegins
<1>8. ASSUME CloseReleases
      PROVE  att' \in [Ids -> Attachment] /\ \A a \in Ids : att'[a] = att[a] \/ Releases(a)
  <2>1. att' = Releasing(UNION {Members(h) : h \in HostedHandles}, "closed")
    BY <1>8 DEF CloseReleases
  <2>2. /\ att' \in [Ids -> Attachment]
        /\ \A a \in Ids : att'[a] = att[a] \/ (att[a].member /\ ReleaseBegins(a, "closed") /\ LeaseKept(a))
    BY <2>1, HostedTypes, ReleasingSteps DEF Members
  <2> QED
    BY <1>8, <2>2 DEF Releases, ReleaseBegins
<1>9. ASSUME NEW i \in Ids, StartRelease(i)
      PROVE  att' \in [Ids -> Attachment] /\ \A a \in Ids : att'[a] = att[a] \/ Releases(a)
  <2> DEFINE l == IF att[i].lease = "held" THEN "released" ELSE att[i].lease
  <2>1. att[i].release = "waiting" /\ att[i].waits = {} /\ att[i].lease # "asked"
    BY <1>9 DEF StartRelease, Settled
  <2>2. att' = [att EXCEPT ![i] = [att[i] EXCEPT !.release = "releasing", !.lease = l]]
    BY <1>1, <1>9 DEF StartRelease, Attachment
  <2>3. l \in {"none", "asked", "held", "released"}
    BY <1>1 DEF Attachment
  <2> HIDE DEF l
  <2>4. [att[i] EXCEPT !.release = "releasing", !.lease = l] \in Attachment
    <3>1. att[i] \in Attachment
      BY <1>1
    <3> QED
      BY <2>3, <3>1 DEF Attachment
  <2>5. /\ att' \in [Ids -> Attachment] /\ \A a \in Ids \ {i} : att'[a] = att[a]
        /\ att'[i] = [att[i] EXCEPT !.release = "releasing", !.lease = l]
    BY <1>1, <2>2, <2>4
  <2>6. /\ Kept(i) /\ att'[i].release = "releasing" /\ att'[i].lease = l
        /\ att'[i].waits = {} /\ att'[i].why = att[i].why /\ att'[i].member = att[i].member
    BY <1>1, <2>1, <2>5 DEF Attachment, Kept
  <2>7. Releases(i)
    BY <1>9, <2>1, <2>6 DEF Releases, l
  <2> QED
    BY <2>5, <2>7
<1>10. ASSUME NEW i \in Ids, EndRelease(i)
       PROVE  att' \in [Ids -> Attachment] /\ \A a \in Ids : att'[a] = att[a] \/ Releases(a)
  <2> DEFINE r == IF att[i].lease = "released" /\ handle[att[i].handle] # "closed"
                    THEN "done" ELSE "failed"
  <2>1. r \in {"done", "failed"} /\ att[i].release = "releasing"
    BY <1>10 DEF EndRelease
  <2>2. att' = [att EXCEPT ![i] = [att[i] EXCEPT !.member = FALSE, !.release = r]]
    BY <1>1, <1>10 DEF EndRelease
  <2> HIDE DEF r
  <2>3. [att[i] EXCEPT !.member = FALSE, !.release = r] \in Attachment
    <3>1. att[i] \in Attachment
      BY <1>1
    <3> QED
      BY <2>1, <3>1 DEF Attachment
  <2>4. /\ att' \in [Ids -> Attachment] /\ \A a \in Ids \ {i} : att'[a] = att[a]
        /\ att'[i] = [att[i] EXCEPT !.member = FALSE, !.release = r]
    BY <1>1, <2>2, <2>3
  <2>5. /\ Kept(i) /\ att'[i].release = r /\ att'[i].lease = att[i].lease
        /\ att'[i].waits = att[i].waits /\ att'[i].why = att[i].why /\ ~att'[i].member
    BY <1>1, <2>4 DEF Attachment, Kept
  <2>6. Releases(i)
    BY <1>10, <2>1, <2>5 DEF Releases, EndRelease
  <2> QED
    BY <2>4, <2>6
<1>11. ASSUME NEW k \in Calls, CallEnds(k)
       PROVE  att' \in [Ids -> Attachment] /\ \A a \in Ids : Releases(a)
  <2>1. att' = [a \in Ids |-> [att[a] EXCEPT !.waits = att[a].waits \ {k}]]
    BY <1>11 DEF CallEnds
  <2>2. ASSUME NEW a \in Ids
        PROVE  LET b == [att[a] EXCEPT !.waits = att[a].waits \ {k}]
               IN /\ b \in Attachment /\ b.client = att[a].client /\ b.handle = att[a].handle
                  /\ b.member = att[a].member /\ b.lease = att[a].lease
                  /\ b.release = att[a].release /\ b.why = att[a].why
                  /\ b.waits = att[a].waits \ {k}
    BY <1>1, <2>2 DEF Attachment
  <2>3. att' \in [Ids -> Attachment] /\ \A a \in Ids : att'[a] = [att[a] EXCEPT !.waits = att[a].waits \ {k}]
    BY <2>1, <2>2
  <2>4. ASSUME NEW a \in Ids
        PROVE  /\ Kept(a) /\ LeaseKept(a) /\ att'[a].waits = att[a].waits \ {k}
               /\ att'[a].release = att[a].release /\ att'[a].why = att[a].why
    BY <2>2, <2>3 DEF Kept, LeaseKept
  <2> QED
    BY <1>11, <2>3, <2>4 DEF Releases
<1>12. CASE \/ \E c \in Clients : \/ AdmitCall(c) \/ EndLeave(c) \/ StartAttach(c) \/ AttachFails(c)
                                  \/ SwitchFails(c) \/ LoseConnection(c)
                                  \/ \E k \in Calls : CallService(c, k)
            \/ \E i \in Ids : StartRequest(i) \/ RemovalCloses(i) \/ RemovalEnds(i)
            \/ \E s \in Sessions, ok \in BOOLEAN : OpenEnds(s, ok)
            \/ CloseConnections \/ CloseHandles \/ CloseEnds \/ BeginClose
  <2>1. att' = att
    BY <1>12 DEF AdmitCall, EndLeave, StartAttach, AttachFails, SwitchFails, LoseConnection,
           CallService, StartRequest, RemovalCloses, RemovalEnds, OpenEnds, CloseConnections,
           CloseHandles, CloseEnds, BeginClose
  <2> QED
    BY <1>1, <2>1
<1>13. CASE \E c \in Clients : \/ StartLeave(c) \/ Switch(c) \/ AskLease(c) \/ LeaseGranted(c)
                               \/ LeaseRefused(c)
  BY <1>2, <1>3, <1>4, <1>5, <1>13
<1>14. CASE \/ \E i \in Ids : \/ StartRemoval(i) \/ StartRelease(i) \/ EndRelease(i) \/ HandleEnds(i)
            \/ CloseReleases \/ \E k \in Calls : CallEnds(k)
  BY <1>6, <1>7, <1>8, <1>9, <1>10, <1>11, <1>14
<1> QED
  BY <1>12, <1>13, <1>14 DEF Next, Progress, ClientStep, RequestStep, CloseStep

\* The attachment a connection has is the one whose lease it was given last.
LEMMA CurrentSteps ==
  ASSUME TypeOK, QueuesAreOwn, StepsMatch, Next
  PROVE  /\ current' \in [Clients -> IdOrNone]
         /\ \A c \in Clients :
              \/ current'[c] = current[c]
              \/ current'[c] = 0
              \/ /\ Granted(c) /\ Pop(c) /\ At(c, "attach", "lease") /\ Id(c) = step[c].att
                 /\ current'[c] = Id(c) /\ Id(c) \in Ids
<1>1. /\ current \in [Clients -> IdOrNone] /\ Ids \subseteq IdOrNone /\ 0 \in IdOrNone
  BY DEF TypeOK, HostTypeOK, Ids, IdOrNone
<1>2. ASSUME NEW c \in Clients, LeaseGranted(c), current' # current
      PROVE  /\ Granted(c) /\ Pop(c) /\ At(c, "attach", "lease") /\ Id(c) = step[c].att
             /\ current' = [current EXCEPT ![c] = Id(c)] /\ Id(c) \in Ids
  <2>1. Granted(c) /\ At(c, "attach", "lease") /\ Id(c) \in Ids /\ step[c].att = Id(c)
    BY <1>2, GrantEffects
  <2>2. Pop(c) /\ current' = [current EXCEPT ![c] = Id(c)]
    BY <1>2, <2>1 DEF LeaseGranted
  <2> QED
    BY <2>1, <2>2
<1>3. ASSUME NEW c \in Clients, LeaseGranted(c)
      PROVE  /\ current' \in [Clients -> IdOrNone]
             /\ \A d \in Clients :
                  \/ current'[d] = current[d]
                  \/ /\ Granted(d) /\ Pop(d) /\ At(d, "attach", "lease") /\ Id(d) = step[d].att
                     /\ current'[d] = Id(d) /\ Id(d) \in Ids
  BY <1>1, <1>2, <1>3
<1>4. CASE \E i \in Ids : EndRelease(i)
  BY <1>1, <1>4 DEF EndRelease
<1>5. CASE CloseEnds
  BY <1>1, <1>5 DEF CloseEnds
<1>6. CASE \/ \E c \in Clients : \/ ClientStep(c) /\ ~LeaseGranted(c)
                                 \/ LoseConnection(c) \/ \E k \in Calls : CallService(c, k)
           \/ \E i \in Ids : RequestStep(i) \/ StartRelease(i) \/ HandleEnds(i)
           \/ \E k \in Calls : CallEnds(k)
           \/ \E s \in Sessions, ok \in BOOLEAN : OpenEnds(s, ok)
           \/ CloseConnections \/ CloseReleases \/ CloseHandles \/ BeginClose
  <2>1. current' = current
    BY <1>6 DEF ClientStep, AdmitCall, StartLeave, EndLeave, StartAttach, AttachFails, Switch,
           SwitchFails, AskLease, LeaseRefused, LoseConnection, CallService, RequestStep,
           StartRequest, StartRemoval, RemovalCloses, RemovalEnds, StartRelease, HandleEnds,
           CallEnds, OpenEnds, CloseConnections, CloseReleases, CloseHandles, BeginClose
  <2> QED
    BY <1>1, <2>1
<1> QED
  BY <1>3, <1>4, <1>5, <1>6 DEF Next, Progress, CloseStep

\* A Session is opened for the first connection that finds no handle for it.
LEMMA OpeningSteps ==
  ASSUME TypeOK, QueuesAreOwn, StepsMatch, Next
  PROVE  /\ opening' \in [Sessions -> IdOrNone]
         /\ \A s \in Sessions :
              \/ opening'[s] = opening[s]
              \/ opening'[s] = 0 /\ \E ok \in BOOLEAN : OpenEnds(s, ok)
              \/ \E c \in Clients :
                   /\ StartAttach(c) /\ At(c, "attach", "ready") /\ s = request[Id(c)].session
                   /\ opening[s] = 0 /\ hosted[s] = 0 /\ opening'[s] = Id(c) /\ Id(c) \in Ids
                   /\ ~Refused(c) /\ step'[c].at = "acquire"
                   /\ \A r \in Sessions \ {s} : opening'[r] = opening[r]
<1>1. /\ opening \in [Sessions -> IdOrNone] /\ Ids \subseteq IdOrNone /\ 0 \in IdOrNone
      /\ step \in [Clients -> Progresses]
  BY DEF TypeOK, HostTypeOK, WorkTypeOK, Ids, IdOrNone
<1>2. ASSUME NEW c \in Clients, StartAttach(c), opening' # opening
      PROVE  /\ opening' \in [Sessions -> IdOrNone] /\ At(c, "attach", "ready")
             /\ LET s == request[Id(c)].session IN
                   /\ opening[s] = 0 /\ hosted[s] = 0 /\ opening'[s] = Id(c) /\ Id(c) \in Ids
                   /\ ~Refused(c) /\ step'[c].at = "acquire"
                   /\ \A r \in Sessions \ {s} : opening'[r] = opening[r]
  <2> DEFINE s == request[Id(c)].session
  <2>1. At(c, "attach", "ready") /\ Id(c) \in Ids /\ s \in Sessions
    BY <1>2, AttachAt DEF StartAttach
  <2>2. /\ ~Refused(c) /\ hosted[s] = 0 /\ opening[s] = 0
        /\ Move(c, "acquire", hosted[s], 0) /\ opening' = [opening EXCEPT ![s] = Id(c)]
    BY <1>2 DEF StartAttach, Hosting
  <2>3. step'[c].at = "acquire"
    BY <1>1, <2>2 DEF Move
  <2> QED
    BY <1>1, <2>1, <2>2, <2>3
<1>3. ASSUME NEW s \in Sessions, NEW ok \in BOOLEAN, OpenEnds(s, ok)
      PROVE  /\ opening' \in [Sessions -> IdOrNone] /\ opening'[s] = 0
             /\ \A r \in Sessions \ {s} : opening'[r] = opening[r]
  BY <1>1, <1>3 DEF OpenEnds
<1>4. CASE opening' = opening
  BY <1>1, <1>4
<1>5. \/ opening' = opening \/ (\E c \in Clients : StartAttach(c))
      \/ (\E s \in Sessions, ok \in BOOLEAN : OpenEnds(s, ok))
  BY DEF Next, Progress, ClientStep, RequestStep, CloseStep, AdmitCall, StartLeave, EndLeave,
         AttachFails, Switch, SwitchFails, AskLease, LeaseGranted, LeaseRefused, KeepHost,
         LoseConnection, CallService, StartRequest, StartRemoval, RemovalCloses, RemovalEnds,
         StartRelease, EndRelease, HandleEnds, CallEnds, CloseConnections, CloseReleases,
         CloseHandles, CloseEnds, BeginClose
<1>6. CASE (\E c \in Clients : StartAttach(c)) /\ opening' # opening
  <2> PICK c \in Clients : StartAttach(c)
    BY <1>6
  <2>1. request[Id(c)].session \in Sessions
    BY <1>2, <1>6, AttachAt
  <2> QED
    BY <1>2, <1>6, <2>1
<1>7. CASE \E s \in Sessions, ok \in BOOLEAN : OpenEnds(s, ok)
  <2> PICK s \in Sessions, ok \in BOOLEAN : OpenEnds(s, ok)
    BY <1>7
  <2> QED
    BY <1>3
<1> QED
  BY <1>4, <1>5, <1>6, <1>7

\* A handle is opened, told to close, and ends.
LEMMA HandleSteps ==
  ASSUME TypeOK, QueuesAreOwn, StepsMatch, Next
  PROVE  /\ handle' \in [Ids -> {"none", "open", "closing", "closed"}]
         /\ \A h \in Ids :
              \/ handle'[h] = handle[h]
              \/ \E s \in Sessions : /\ OpenEnds(s, TRUE) /\ opening[s] = h /\ h # 0
                                     /\ handle'[h] = IF Closing THEN "closed" ELSE "open"
              \/ /\ handle[h] = "open" /\ handle'[h] = "closing"
                 /\ \/ \E i \in Ids : RemovalCloses(i) /\ removal[i].handle = h
                    \/ CloseHandles /\ h \in HostedHandles
              \/ handle[h] \in {"open", "closing"} /\ handle'[h] = "closed" /\ HandleEnds(h)
<1> DEFINE Told(H) == \A h \in Ids : \/ handle'[h] = handle[h]
                                     \/ h \in H /\ handle[h] = "open" /\ handle'[h] = "closing"
<1>1. /\ handle \in [Ids -> {"none", "open", "closing", "closed"}]
      /\ \A s \in Sessions : opening[s] # 0 => opening[s] \in Ids
  BY DEF TypeOK, HostTypeOK, IdOrNone, Ids
<1>2. ASSUME NEW H, handle' = StartClosing(H)
      PROVE  handle' \in [Ids -> {"none", "open", "closing", "closed"}] /\ Told(H)
  BY <1>1, <1>2 DEF StartClosing
<1>3. ASSUME NEW i \in Ids, RemovalCloses(i)
      PROVE  handle' \in [Ids -> {"none", "open", "closing", "closed"}] /\ Told({removal[i].handle})
  <2> HIDE DEF Told
  <2> QED
    BY <1>2, <1>3 DEF RemovalCloses
<1>4. ASSUME CloseHandles
      PROVE  handle' \in [Ids -> {"none", "open", "closing", "closed"}] /\ Told(HostedHandles)
  <2> HIDE DEF Told
  <2> QED
    BY <1>2, <1>4 DEF CloseHandles
<1>5. ASSUME NEW h \in Ids, HandleEnds(h)
      PROVE  /\ handle' \in [Ids -> {"none", "open", "closing", "closed"}]
             /\ handle[h] \in {"open", "closing"} /\ handle'[h] = "closed"
             /\ \A g \in Ids \ {h} : handle'[g] = handle[g]
  BY <1>1, <1>5 DEF HandleEnds
<1>6. ASSUME NEW s \in Sessions, OpenEnds(s, TRUE)
      PROVE  /\ handle' \in [Ids -> {"none", "open", "closing", "closed"}] /\ opening[s] # 0
             /\ handle'[opening[s]] = IF Closing THEN "closed" ELSE "open"
             /\ \A g \in Ids \ {opening[s]} : handle'[g] = handle[g]
  BY <1>1, <1>6 DEF OpenEnds
<1>7. CASE handle' = handle
  BY <1>1, <1>7
<1>8. \/ handle' = handle \/ (\E s \in Sessions : OpenEnds(s, TRUE))
      \/ (\E i \in Ids : RemovalCloses(i) \/ HandleEnds(i)) \/ CloseHandles
  <2>1. ASSUME NEW s \in Sessions, NEW ok \in BOOLEAN, OpenEnds(s, ok)
        PROVE  handle' = handle \/ OpenEnds(s, TRUE)
    <3>1. CASE ok = TRUE
      BY <2>1, <3>1
    <3>2. CASE ok = FALSE
      BY <2>1, <3>2 DEF OpenEnds
    <3> QED
      BY <3>1, <3>2
  <2>2. ASSUME NEW c \in Clients, ClientStep(c) PROVE handle' = handle
    BY <2>2 DEF ClientStep, AdmitCall, StartLeave, EndLeave, StartAttach, AttachFails, Switch,
           SwitchFails, AskLease, LeaseGranted, LeaseRefused, KeepHost
  <2>3. ASSUME NEW c \in Clients, LoseConnection(c) \/ \E k \in Calls : CallService(c, k)
        PROVE  handle' = handle
    BY <2>3 DEF LoseConnection, CallService
  <2>4. ASSUME NEW i \in Ids,
               StartRequest(i) \/ StartRemoval(i) \/ RemovalEnds(i) \/ StartRelease(i) \/ EndRelease(i)
        PROVE  handle' = handle
    BY <2>4 DEF StartRequest, StartRemoval, RemovalEnds, StartRelease, EndRelease
  <2>5. CASE \/ CloseConnections \/ CloseReleases \/ CloseEnds \/ BeginClose
             \/ \E k \in Calls : CallEnds(k)
    BY <2>5 DEF CloseConnections, CloseReleases, CloseEnds, BeginClose, CallEnds
  <2> QED
    BY <2>1, <2>2, <2>3, <2>4, <2>5 DEF Next, Progress, RequestStep, CloseStep
<1> QED
  BY <1>1, <1>3, <1>4, <1>5, <1>6, <1>7, <1>8

\* The handle that hosts a Session comes with an open, and goes with its removal,
\* its end or the close.
LEMMA HostedSteps ==
  ASSUME TypeOK, QueuesAreOwn, StepsMatch, Next
  PROVE  /\ hosted' \in [Sessions -> IdOrNone]
         /\ \A s \in Sessions :
              \/ hosted'[s] = hosted[s]
              \/ /\ hosted'[s] = 0 /\ hosted[s] # 0
                 /\ \/ \E i \in Ids : RemovalEnds(i) /\ removal[i].handle = hosted[s]
                    \/ HandleEnds(hosted[s]) /\ hosted[s] \in Ids
                    \/ CloseEnds /\ hosted[s] \in closer.atts
              \/ OpenEnds(s, TRUE) /\ ~Closing /\ opening[s] # 0 /\ hosted'[s] = opening[s]
<1>1. /\ hosted \in [Sessions -> IdOrNone] /\ opening \in [Sessions -> IdOrNone] /\ 0 \in IdOrNone
      /\ \A h \in Ids : h # 0 /\ SessionOf(h) \in Sessions
  BY RequestTypes DEF TypeOK, HostTypeOK, IdOrNone, Ids
<1>2. ASSUME NEW i \in Ids, RemovalEnds(i)
      PROVE  /\ hosted' \in [Sessions -> IdOrNone]
             /\ \A s \in Sessions : \/ hosted'[s] = hosted[s]
                                    \/ hosted'[s] = 0 /\ removal[i].handle = hosted[s]
  BY <1>1, <1>2 DEF RemovalEnds
<1>3. ASSUME NEW h \in Ids, HandleEnds(h)
      PROVE  /\ hosted' \in [Sessions -> IdOrNone]
             /\ \A s \in Sessions : \/ hosted'[s] = hosted[s]
                                    \/ hosted'[s] = 0 /\ hosted[s] = h
  BY <1>1, <1>3 DEF HandleEnds
<1>4. ASSUME CloseEnds
      PROVE  /\ hosted' \in [Sessions -> IdOrNone]
             /\ \A s \in Sessions : \/ hosted'[s] = hosted[s]
                                    \/ hosted'[s] = 0 /\ hosted[s] \in closer.atts
  BY <1>1, <1>4 DEF CloseEnds
<1>5. ASSUME NEW s \in Sessions, OpenEnds(s, TRUE)
      PROVE  /\ hosted' \in [Sessions -> IdOrNone] /\ opening[s] # 0
             /\ hosted'[s] = hosted[s] \/ (~Closing /\ hosted'[s] = opening[s])
             /\ \A r \in Sessions \ {s} : hosted'[r] = hosted[r]
  BY <1>1, <1>5 DEF OpenEnds
<1>6. CASE hosted' = hosted
  BY <1>1, <1>6
<1>7. \/ hosted' = hosted \/ (\E s \in Sessions : OpenEnds(s, TRUE))
      \/ (\E i \in Ids : RemovalEnds(i) \/ HandleEnds(i)) \/ CloseEnds
  <2>1. ASSUME NEW s \in Sessions, NEW ok \in BOOLEAN, OpenEnds(s, ok)
        PROVE  hosted' = hosted \/ OpenEnds(s, TRUE)
    <3>1. CASE ok = TRUE
      BY <2>1, <3>1
    <3>2. CASE ok = FALSE
      BY <2>1, <3>2 DEF OpenEnds
    <3> QED
      BY <3>1, <3>2
  <2>2. ASSUME NEW c \in Clients, ClientStep(c) PROVE hosted' = hosted
    BY <2>2 DEF ClientStep, AdmitCall, StartLeave, EndLeave, StartAttach, AttachFails, Switch,
           SwitchFails, AskLease, LeaseGranted, LeaseRefused
  <2>3. ASSUME NEW c \in Clients, LoseConnection(c) \/ \E k \in Calls : CallService(c, k)
        PROVE  hosted' = hosted
    BY <2>3 DEF LoseConnection, CallService
  <2>4. ASSUME NEW i \in Ids,
               StartRequest(i) \/ StartRemoval(i) \/ RemovalCloses(i) \/ StartRelease(i) \/ EndRelease(i)
        PROVE  hosted' = hosted
    BY <2>4 DEF StartRequest, StartRemoval, RemovalCloses, StartRelease, EndRelease
  <2>5. CASE \/ CloseConnections \/ CloseReleases \/ CloseHandles \/ BeginClose
             \/ \E k \in Calls : CallEnds(k)
    BY <2>5 DEF CloseConnections, CloseReleases, CloseHandles, BeginClose, CallEnds
  <2> QED
    BY <2>1, <2>2, <2>3, <2>4, <2>5 DEF Next, Progress, RequestStep, CloseStep
<1>8. CASE \E s \in Sessions : OpenEnds(s, TRUE)
  BY <1>5, <1>8
<1>9. CASE \E h \in Ids : HandleEnds(h)
  BY <1>1, <1>3, <1>9
<1>10. CASE (\E i \in Ids : RemovalEnds(i)) \/ CloseEnds
  BY <1>2, <1>4, <1>10
<1> QED
  BY <1>6, <1>7, <1>8, <1>9, <1>10

\* A removal releases, closes the handle and ends.
LEMMA RemovalSteps ==
  ASSUME TypeOK, QueuesAreOwn, StepsMatch, Next
  PROVE  /\ removal' \in [Ids -> Removal]
         /\ \A i \in Ids :
              \/ removal'[i] = removal[i]
              \/ /\ StartRemoval(i) /\ ~Closing /\ removal'[i].at = "releasing"
                 /\ removal'[i].handle = hosted[request[i].session]
                 /\ hosted[request[i].session] # 0
                 /\ removal'[i].atts = Members(hosted[request[i].session])
              \/ /\ removal'[i].handle = removal[i].handle /\ removal'[i].atts = removal[i].atts
                 /\ \/ RemovalCloses(i) /\ removal[i].at = "releasing" /\ removal'[i].at = "closing"
                    \/ RemovalEnds(i) /\ removal[i].at = "closing" /\ removal'[i].at = "over"
<1>1. /\ removal \in [Ids -> Removal] /\ \A i \in Ids : removal[i] \in Removal
      /\ \A i \in Ids : hosted[request[i].session] \in IdOrNone
  BY RequestTypes DEF TypeOK, WorkTypeOK, HostTypeOK
<1>2. ASSUME NEW i \in Ids, StartRemoval(i)
      PROVE  /\ removal' \in [Ids -> Removal] /\ \A j \in Ids \ {i} : removal'[j] = removal[j]
             /\ \/ removal'[i] = removal[i]
                \/ /\ ~Closing /\ removal'[i].at = "releasing"
                   /\ removal'[i].handle = hosted[request[i].session]
                   /\ hosted[request[i].session] # 0
                   /\ removal'[i].atts = Members(hosted[request[i].session])
  <2> DEFINE h == hosted[request[i].session]
  <2>1. \/ removal' = removal
        \/ /\ ~Closing /\ h # 0
           /\ removal' = [removal EXCEPT ![i] = [at |-> "releasing", handle |-> h, atts |-> Members(h)]]
    BY <1>2 DEF StartRemoval
  <2>2. [at |-> "releasing", handle |-> h, atts |-> Members(h)] \in Removal
    BY <1>1 DEF Removal, Members
  <2> QED
    BY <1>1, <2>1, <2>2
<1>3. ASSUME NEW i \in Ids, RemovalCloses(i) \/ RemovalEnds(i)
      PROVE  /\ removal' \in [Ids -> Removal] /\ \A j \in Ids \ {i} : removal'[j] = removal[j]
             /\ removal'[i].handle = removal[i].handle /\ removal'[i].atts = removal[i].atts
             /\ \/ RemovalCloses(i) /\ removal[i].at = "releasing" /\ removal'[i].at = "closing"
                \/ RemovalEnds(i) /\ removal[i].at = "closing" /\ removal'[i].at = "over"
  BY <1>1, <1>3 DEF RemovalCloses, RemovalEnds, Removal
<1>4. CASE removal' = removal
  BY <1>1, <1>4
<1>5. \/ removal' = removal
      \/ (\E i \in Ids : StartRemoval(i) \/ RemovalCloses(i) \/ RemovalEnds(i))
  BY DEF Next, Progress, ClientStep, RequestStep, CloseStep, AdmitCall, StartLeave, EndLeave,
         StartAttach, AttachFails, Switch, SwitchFails, AskLease, LeaseGranted, LeaseRefused,
         KeepHost, askVars, OpenEnds, LoseConnection, CallService, StartRequest, StartRelease,
         EndRelease, HandleEnds, CallEnds, CloseConnections, CloseReleases, CloseHandles,
         CloseEnds, BeginClose
<1> QED
  BY <1>2, <1>3, <1>4, <1>5

\* The application starts a management call once.
LEMMA WaitingSteps ==
  ASSUME TypeOK, Next
  PROVE  /\ waiting' \subseteq waiting
         /\ \A i \in waiting \ waiting' : i \in Ids /\ (StartRequest(i) \/ StartRemoval(i))
         /\ \A i \in Ids : StartRequest(i) \/ StartRemoval(i) => i \in waiting /\ i \notin waiting'
<1>1. waiting' = waiting \/ (\E i \in Ids : StartRequest(i) \/ StartRemoval(i))
  BY DEF Next, Progress, ClientStep, RequestStep, CloseStep, AdmitCall, StartLeave, EndLeave,
         StartAttach, AttachFails, Switch, SwitchFails, AskLease, LeaseGranted, LeaseRefused,
         KeepHost, askVars, OpenEnds, LoseConnection, CallService, RemovalCloses, RemovalEnds,
         StartRelease, EndRelease, HandleEnds, CallEnds, CloseConnections, CloseReleases,
         CloseHandles, CloseEnds, BeginClose
<1>2. \A i \in Ids : StartRequest(i) \/ StartRemoval(i) => i \in waiting /\ waiting' = waiting \ {i}
  BY DEF StartRequest, StartRemoval, MayStart
<1> QED
  BY <1>1, <1>2

\* Who moves the first operation of a connection: the connection, or the open it
\* waits for.
LEMMA StepSteps ==
  ASSUME TypeOK, QueuesAreOwn, StepsMatch, Next, NEW c \in Clients
  PROVE  \/ step'[c] = step[c]
         \/ ClientStep(c)
         \/ \E s \in Sessions, ok \in BOOLEAN :
              /\ OpenEnds(s, ok) /\ step[c].at = "acquire" /\ queue[c] # <<>>
              /\ request[Id(c)].session = s
              /\ \/ /\ ok /\ ~Closing /\ step'[c].at = "acquired"
                    /\ step'[c].handle = opening[s] /\ opening[s] # 0
                 \/ step'[c].at = "failed" /\ (~ok \/ Closing)
<1>1. step \in [Clients -> Progresses]
  BY DEF TypeOK, WorkTypeOK
<1>2. CASE \E d \in Clients : ClientStep(d)
  BY <1>2, ClientEffects
<1>3. ASSUME NEW s \in Sessions, NEW ok \in BOOLEAN, OpenEnds(s, ok)
      PROVE  \/ step'[c] = step[c]
             \/ /\ step[c].at = "acquire" /\ queue[c] # <<>> /\ request[Id(c)].session = s
                /\ \/ /\ ok /\ ~Closing /\ step'[c].at = "acquired"
                      /\ step'[c].handle = opening[s] /\ opening[s] # 0
                   \/ step'[c].at = "failed" /\ (~ok \/ Closing)
  <2>1. [step[c] EXCEPT !.at = "failed"].at = "failed"
    BY <1>1 DEF Progresses
  <2> QED
    BY <1>1, <1>3, <2>1 DEF OpenEnds, Awaiting
<1>4. CASE \/ \E i \in Ids : RequestStep(i) \/ StartRelease(i) \/ EndRelease(i) \/ HandleEnds(i)
           \/ \E k \in Calls : CallEnds(k)
           \/ CloseStep \/ BeginClose
           \/ \E d \in Clients : LoseConnection(d) \/ \E k \in Calls : CallService(d, k)
  <2>1. step' = step
    BY <1>4 DEF RequestStep, StartRequest, StartRemoval, RemovalCloses, RemovalEnds, StartRelease,
           EndRelease, HandleEnds, CallEnds, CloseStep, CloseConnections, CloseReleases,
           CloseHandles, CloseEnds, BeginClose, LoseConnection, CallService, workVars
  <2> QED
    BY <2>1
<1> QED
  BY <1>2, <1>3, <1>4 DEF Next, Progress

\* The types are kept.
LEMMA KeepsTypes ==
  ASSUME TypeOK, QueuesAreOwn, StepsMatch, Next
  PROVE  TypeOK'
<1>1. AskTypeOK'
  BY AskTypes
<1>2. WorkTypeOK'
  BY QueueSteps, StepTypes, CallTypes, RemovalSteps, CloserTypes DEF WorkTypeOK
<1>3. HostTypeOK'
  BY AttSteps, CurrentSteps, HostedSteps, OpeningSteps, HandleSteps DEF HostTypeOK
<1> QED
  BY <1>1, <1>2, <1>3 DEF TypeOK

----------------------------------------------------------------------------
(* The steps keep the invariant.                                            *)

\* What an operation that waits in a queue stands for.
Own(c, e) ==
  /\ e.op \in {"attach", "detach"} =>
       e.id \in Ids \ waiting /\ request[e.id].client = c /\ request[e.id].kind = e.op
  /\ e.op = "call" => e.id \in Calls /\ call[e.id].state = "queued" /\ call[e.id].client = c

\* An operation keeps its request, and its call as long as it waits.
LEMMA OwnStays ==
  ASSUME TypeOK, QueuesAreOwn, StepsMatch, Next, NEW c \in Clients, NEW i \in 1 .. Len(queue[c]),
         NEW e, e = queue[c][i], i # 1 \/ ~AdmitCall(c)
  PROVE  Own(c, e) /\ Own(c, e)'
<1>1. /\ request' = request /\ waiting' \subseteq waiting
      /\ Own(c, e) /\ e \in Operation /\ queue[c] \in Seq(Operation)
  BY AskTypes, WaitingSteps, ElementOfSeq DEF QueuesAreOwn, Own, TypeOK, WorkTypeOK
<1>2. ASSUME e.op = "call"
      PROVE  call'[e.id].state = "queued" /\ call'[e.id].client = c
  <2>1. e.id \in Calls /\ call[e.id].state = "queued" /\ call[e.id].client = c
    BY <1>1, <1>2 DEF Own
  <2>2. ASSUME NEW d \in Clients, AdmitCall(d), queue[d] # <<>>, e.id = Id(d), queue[d][1].op = "call"
        PROVE  FALSE
    <3>1. d = c /\ Id(d) = queue[d][1].id /\ 1 \in 1 .. Len(queue[d])
      BY <2>1, <2>2, HeadIsOwn
    <3>2. queue[c][1] \in Operation /\ queue[c][1].op = e.op /\ queue[c][1].id = e.id
      BY <1>1, <1>2, <2>2, <3>1, ElementOfSeq
    <3>3. queue[c][1] = e
      BY <1>1, <3>2 DEF Operation
    <3>4. i = 1
      BY <1>2, <3>1, <3>3 DEF QueuesAreOwn
    <3> QED
      BY <2>2, <3>1, <3>4
  <2>3. \/ call'[e.id] = call[e.id]
        \/ \E d \in Clients : AdmitCall(d) /\ queue[d] # <<>> /\ e.id = Id(d) /\ queue[d][1].op = "call"
    BY <2>1, CallTypes
  <2> QED
    BY <2>1, <2>2, <2>3
<1> QED
  BY <1>1, <1>2 DEF Own

Owned(c) == {e \in Operation : Own(c, e)}
Once(q)  == \A i, j \in 1 .. Len(q) : q[i] = q[j] /\ q[j].op # "disconnect" => i = j

LEMMA OwnQueues ==
  ASSUME queue \in [Clients -> Seq(Operation)]
  PROVE  QueuesAreOwn <=> \A c \in Clients : /\ \A j \in 1 .. Len(queue[c]) : queue[c][j] \in Owned(c)
                                             /\ Once(queue[c])
<1>1. \A c \in Clients : \A j \in 1 .. Len(queue[c]) : queue[c][j] \in Operation
  BY ElementOfSeq
<1> QED
  BY <1>1 DEF QueuesAreOwn, Owned, Own, Once

LEMMA QueuesOwnStep ==
  ASSUME TypeOK, QueuesAreOwn, StepsMatch, Next
  PROVE  QueuesAreOwn'
<1>1. /\ queue \in [Clients -> Seq(Operation)] /\ queue' \in [Clients -> Seq(Operation)]
      /\ \A c \in Clients : Len(queue[c]) \in Nat /\ Len(queue'[c]) \in Nat
      /\ request' = request
  BY QueueSteps, AskTypes, LenProperties DEF TypeOK, WorkTypeOK
<1>2. ASSUME NEW c \in Clients
      PROVE  /\ \A j \in 1 .. Len(queue'[c]) : queue'[c][j] \in Owned(c)'
             /\ Once(queue'[c])
  <2>1. /\ Len(queue[c]) \in Nat /\ Len(queue'[c]) \in Nat /\ Once(queue[c])
        /\ \A j \in 1 .. Len(queue[c]) : queue[c][j] \in Owned(c)
        /\ \A j \in 1 .. Len(queue[c]) : queue[c][j] \in Operation
        /\ \A j \in 1 .. Len(queue'[c]) : queue'[c][j] \in Operation
    BY <1>1, OwnQueues, ElementOfSeq
  <2>2. ASSUME NEW i \in 1 .. Len(queue[c]), i # 1 \/ ~AdmitCall(c), NEW e, e = queue[c][i]
        PROVE  e \in Owned(c)'
    <3>1. Own(c, e)'
      BY <2>2, OwnStays
    <3>2. e \in Operation
      BY <2>1, <2>2
    <3> QED
      BY <3>1, <3>2 DEF Owned
  <2>3. ASSUME NEW e \in Operation, Pushes(c, e), ~AdmitCall(c), e \in Owned(c)', e \notin Owned(c) \/ e.op = "disconnect"
        PROVE  /\ \A j \in 1 .. Len(queue'[c]) : queue'[c][j] \in Owned(c)'
               /\ Once(queue'[c])
    <3>1. \A j \in 1 .. Len(queue[c]) : queue[c][j] # e \/ e.op = "disconnect"
      BY <2>1, <2>3
    <3>2. Once(queue'[c])
      <4>1. ASSUME NEW i \in 1 .. Len(queue'[c]), NEW j \in 1 .. Len(queue'[c]),
                   queue'[c][i] = queue'[c][j], queue'[c][j].op # "disconnect"
            PROVE  i = j
        <5>1. /\ i \in 1 .. Len(queue[c]) \/ (i = Len(queue[c]) + 1 /\ queue'[c][i] = e)
              /\ j \in 1 .. Len(queue[c]) \/ (j = Len(queue[c]) + 1 /\ queue'[c][j] = e)
              /\ \A m \in 1 .. Len(queue[c]) : queue'[c][m] = queue[c][m]
          BY <2>1, <2>3 DEF Pushes
        <5>2. CASE i \in 1 .. Len(queue[c]) /\ j \in 1 .. Len(queue[c])
          BY <2>1, <4>1, <5>1, <5>2 DEF Once
        <5> QED
          BY <3>1, <4>1, <5>1, <5>2
      <4> QED
        BY <4>1 DEF Once
    <3>3. \A j \in 1 .. Len(queue[c]) : queue[c][j] \in Owned(c)'
      BY <2>2, <2>3
    <3> QED
      BY <2>1, <2>3, <3>2, <3>3 DEF Pushes
  <2>4. CASE queue'[c] = queue[c]
    <3>1. ~AdmitCall(c)
      <4>1. AdmitCall(c) => Pop(c) /\ queue[c] # <<>>
        BY DEF AdmitCall, At
      <4> QED
        BY <2>1, <2>4, <4>1, PopEffects DEF Pops
    <3>2. \A j \in 1 .. Len(queue[c]) : queue[c][j] \in Owned(c)'
      BY <2>2, <3>1
    <3> QED
      BY <2>1, <2>4, <3>2
  <2>5. CASE Pops(c)
    <3>1. Once(queue'[c])
      <4>1. ASSUME NEW i \in 1 .. Len(queue'[c]), NEW j \in 1 .. Len(queue'[c]),
                   queue'[c][i] = queue'[c][j], queue'[c][j].op # "disconnect"
            PROVE  i = j
        <5>1. /\ i + 1 \in 1 .. Len(queue[c]) /\ queue'[c][i] = queue[c][i + 1]
              /\ j + 1 \in 1 .. Len(queue[c]) /\ queue'[c][j] = queue[c][j + 1]
          <6>1. Len(queue'[c]) = Len(queue[c]) - 1
            BY <2>5 DEF Pops
          <6>2. i + 1 \in 1 .. Len(queue[c]) /\ j + 1 \in 1 .. Len(queue[c])
            BY <2>1, <6>1
          <6> QED
            BY <2>5, <6>2 DEF Pops
        <5>2. i + 1 = j + 1
          BY <2>1, <4>1, <5>1 DEF Once
        <5> QED
          BY <5>2
      <4> QED
        BY <4>1 DEF Once
    <3>2. ASSUME NEW j \in 1 .. Len(queue'[c]) PROVE queue'[c][j] \in Owned(c)'
      <4>1. j + 1 \in 1 .. Len(queue[c]) /\ j + 1 # 1 /\ queue'[c][j] = queue[c][j + 1]
        BY <2>1, <2>5 DEF Pops
      <4> QED
        BY <2>2, <4>1
    <3> QED
      BY <3>1, <3>2
  <2>6. ~(AdmitCall(c) /\ \E e \in Operation : Pushes(c, e))
    <3>1. AdmitCall(c) => Pop(c) /\ queue[c] # <<>>
      BY DEF AdmitCall, At
    <3> QED
      BY <2>1, <3>1, PopEffects DEF Pops, Pushes
  <2>7. ASSUME NEW k \in Calls, CallService(c, k), Pushes(c, [op |-> "call", id |-> k])
        PROVE  /\ \A j \in 1 .. Len(queue'[c]) : queue'[c][j] \in Owned(c)'
               /\ Once(queue'[c])
    <3> DEFINE e == [op |-> "call", id |-> k]
    <3>1. e \in Operation /\ e.op = "call" /\ e.id = k
      BY DEF Operation, Calls
    <3>2. call \in [Calls -> CallType] /\ call[k].state = "new"
      BY <2>7 DEF CallService, TypeOK, WorkTypeOK
    <3>3. call'[k].state = "queued" /\ call'[k].client = c
      BY <2>7, <3>2 DEF CallService
    <3>4. Pushes(c, e)
      BY <2>7
    <3> HIDE DEF e
    <3>5. e \in Owned(c)' /\ e \notin Owned(c)
      BY <3>1, <3>2, <3>3 DEF Owned, Own
    <3> QED
      BY <2>3, <2>6, <3>1, <3>4, <3>5
  <2>8. ASSUME NEW i \in Ids, StartRequest(i), request[i].client = c,
               Pushes(c, [op |-> request[i].kind, id |-> i])
        PROVE  /\ \A j \in 1 .. Len(queue'[c]) : queue'[c][j] \in Owned(c)'
               /\ Once(queue'[c])
    <3> DEFINE e == [op |-> request[i].kind, id |-> i]
    <3>1. e \in Operation /\ e.op \in {"attach", "detach"} /\ e.id = i /\ e.op = request[i].kind
      BY <2>8 DEF Operation, Ids, StartRequest
    <3>2. i \in waiting /\ i \notin waiting'
      BY <2>8, WaitingSteps
    <3>3. Pushes(c, e)
      BY <2>8
    <3> HIDE DEF e
    <3>4. e \in Owned(c)' /\ e \notin Owned(c)
      BY <1>1, <2>8, <3>1, <3>2 DEF Owned, Own
    <3> QED
      BY <2>3, <2>6, <3>1, <3>3, <3>4
  <2>9. CASE Pushes(c, [op |-> "disconnect", id |-> 0])
    <3> DEFINE e == [op |-> "disconnect", id |-> 0]
    <3>1. e \in Operation /\ e.op = "disconnect" /\ Pushes(c, e)
      BY <2>9 DEF Operation
    <3> HIDE DEF e
    <3>2. e \in Owned(c)'
      BY <3>1 DEF Owned, Own
    <3> QED
      BY <2>3, <2>6, <3>1, <3>2
  <2> QED
    BY <2>4, <2>5, <2>7, <2>8, <2>9, QueueSteps
<1> QED
  BY <1>1, <1>2 DEF QueuesAreOwn, Owned, Own, Once

\* The attachment an attach asks for is new.
LEMMA AskIsFresh ==
  ASSUME TypeOK, QueuesAreOwn, StepsMatch, RequestsAreFresh, NEW c \in Clients, AskLease(c)
  PROVE  att[Id(c)].client = "none" /\ Id(c) \in Ids
<1>1. step[c].at \in {"acquired", "switch"} /\ At(c, "attach", step[c].at)
  BY DEF AskLease, At
<1>2. /\ queue[c][1].op = "attach" /\ Id(c) = queue[c][1].id /\ Id(c) \in Ids
      /\ 1 \in 1 .. Len(queue[c])
  BY <1>1, AttachAt, HeadIsOwn
<1> QED
  BY <1>1, <1>2 DEF RequestsAreFresh

\* Once made, an attachment keeps its connection and its handle, and its release
\* once begun; a lease that is asked for is answered to the attach that asked.
LEMMA AttStays ==
  ASSUME TypeOK, QueuesAreOwn, StepsMatch, RequestsAreFresh, Next, NEW a \in Ids,
         att[a].client # "none"
  PROVE  /\ Kept(a) /\ (att[a].release # "no" => att'[a].release # "no")
         /\ \/ att'[a].lease = att[a].lease
            \/ att[a].lease = "held" /\ att'[a].lease = "released"
            \/ \E c \in Clients : /\ At(c, "attach", "lease") /\ a = Id(c) /\ a = step[c].att
                                  /\ Granted(c) \/ Withdrawn(c)
<1>1. ASSUME NEW c \in Clients, Asked(c), a = Id(c)
      PROVE  FALSE
  BY <1>1, AskIsFresh DEF Asked
<1>2. CASE att'[a] = att[a]
  BY <1>2 DEF Kept
<1>3. CASE Releases(a)
  BY <1>3 DEF Releases, Kept, LeaseKept, ReleaseBegins
<1>4. ASSUME NEW c \in Clients, a = step[c].att, Granted(c) \/ Withdrawn(c)
      PROVE  Kept(a) /\ (att[a].release # "no" => att'[a].release # "no")
  BY <1>4 DEF Granted, Withdrawn, Kept, ReleaseKept
<1> QED
  BY <1>1, <1>2, <1>3, <1>4, AttSteps

\* The attach that waits for a lease is the only one that is given it.
LEMMA LeaseIsOwn ==
  ASSUME TypeOK, QueuesAreOwn, StepsMatch, NEW c \in Clients, NEW d \in Clients,
         step[c].at = "lease", step[d].at = "lease", step[c].att = step[d].att
  PROVE  c = d
BY DEF StepsMatch

\* The first operation of a connection stays the first until it is done.
LEMMA FirstStays ==
  ASSUME TypeOK, QueuesAreOwn, StepsMatch, Next, NEW c \in Clients, queue[c] # <<>>
  PROVE  \/ Pop(c) /\ ClientStep(c) /\ Pops(c) /\ step'[c] = Ready
         \/ queue'[c] # <<>> /\ queue'[c][1] = queue[c][1]
<1>1. 1 \in 1 .. Len(queue[c])
  BY HeadIsOwn
<1>2. CASE Pops(c) /\ ClientStep(c) /\ Pop(c)
  BY <1>2, PopEffects
<1>3. ASSUME NEW e, Pushes(c, e)
      PROVE  queue'[c] # <<>> /\ queue'[c][1] = queue[c][1]
  BY <1>1, <1>3 DEF Pushes
<1> QED
  BY <1>2, <1>3, QueueSteps

StepMatches(c) ==
  /\ step[c].at # "ready" => queue[c] # <<>>
  /\ step[c].at \notin {"ready", "leave"} => queue[c][1].op = "attach"
  /\ step[c].at \in {"acquired", "switch"} => step[c].handle \in Ids
  /\ step[c].at \in {"leave", "switch"} =>
       /\ step[c].att \in Ids
       /\ att[step[c].att].client = c /\ att[step[c].att].release # "no"
  /\ step[c].at = "lease" =>
       /\ step[c].att = queue[c][1].id
       /\ att[step[c].att].client = c /\ att[step[c].att].lease = "asked"

\* A connection that begins to leave, or to switch.
LEMMA LeaveBegins ==
  ASSUME TypeOK, QueuesAreOwn, StepsMatch, RequestsAreFresh, CurrentIsOwn,
         NEW c \in Clients, StartLeave(c) \/ Switch(c), current[c] # 0
  PROVE  /\ step'[c].att = current[c] /\ current[c] \in Ids
         /\ att'[current[c]].client = c /\ att'[current[c]].release # "no"
         /\ UNCHANGED queue /\ queue[c] # <<>> /\ step'[c].at \in {"leave", "switch"}
         /\ step'[c].at = "switch" => /\ step'[c].handle = step[c].handle /\ step[c].handle \in Ids
                                      /\ queue[c][1].op = "attach"
<1>1. current[c] \in Ids /\ step \in [Clients -> Progresses]
  BY DEF TypeOK, HostTypeOK, WorkTypeOK, Ids, IdOrNone
<1>2. /\ att' = Releasing({current[c]}, "left") /\ queue[c] # <<>>
      /\ \/ Move(c, "leave", 0, current[c])
         \/ Switch(c) /\ Move(c, "switch", step[c].handle, current[c])
  BY DEF StartLeave, Switch, At
<1>3. /\ step'[c].att = current[c] /\ queue' = queue
      /\ \/ step'[c].at = "leave"
         \/ Switch(c) /\ step'[c].at = "switch" /\ step'[c].handle = step[c].handle
  BY <1>1, <1>2 DEF Move
<1>4. {current[c]} \in SUBSET Ids
  BY <1>1
<1>5. att'[current[c]].client = att[current[c]].client /\ att'[current[c]].release # "no"
  <2>1. att' = Releasing({current[c]}, "left")
    BY <1>2
  <2>2. \A a \in Ids : \/ att'[a] = att[a] /\ (a \in {current[c]} => att[a].release # "no")
                       \/ a \in {current[c]} /\ ReleaseBegins(a, "left") /\ LeaseKept(a)
    BY <1>4, <2>1, ReleasingSteps
  <2> QED
    BY <1>1, <2>2 DEF ReleaseBegins, Kept
<1>6. att[current[c]].client = c
  BY DEF CurrentIsOwn
<1>7. Switch(c) => queue[c][1].op = "attach" /\ step[c].at = "acquired" /\ step[c].handle \in Ids
  <2>1. Switch(c) => At(c, "attach", "acquired")
    BY DEF Switch
  <2> QED
    BY <2>1, AttachAt DEF StepsMatch
<1> QED
  BY <1>1, <1>2, <1>3, <1>5, <1>6, <1>7

LEMMA StepsStep ==
  ASSUME TypeOK, QueuesAreOwn, StepsMatch, RequestsAreFresh, CurrentIsOwn, Next
  PROVE  StepsMatch'
<1>1. /\ step \in [Clients -> Progresses] /\ "none" \notin Clients
      /\ \A s \in Sessions : opening[s] \in IdOrNone
      /\ \A s \in Sessions : hosted[s] # 0 => hosted[s] \in Ids
  BY DEF TypeOK, WorkTypeOK, HostTypeOK, IdOrNone, Ids
<1>2. ASSUME NEW c \in Clients
      PROVE  StepMatches(c)'
  <2>1. StepMatches(c)
    BY DEF StepsMatch, StepMatches
  <2>2. CASE step'[c].at = "ready"
    BY <2>2 DEF StepMatches
  <2>3. CASE /\ step'[c] = step[c] /\ step'[c].at # "ready"
             /\ queue'[c] # <<>> /\ queue'[c][1] = queue[c][1]
    <3>1. CASE step[c].at \in {"acquired", "acquire", "failed"}
      BY <2>1, <2>3, <3>1 DEF StepMatches
    <3>2. CASE step[c].at \in {"leave", "switch"}
      <4>1. step[c].att \in Ids /\ att[step[c].att].client # "none"
        BY <1>1, <2>1, <3>2 DEF StepMatches
      <4>2. Kept(step[c].att) /\ (att[step[c].att].release # "no" => att'[step[c].att].release # "no")
        BY <4>1, AttStays
      <4> QED
        BY <2>1, <2>3, <3>2, <4>1, <4>2 DEF StepMatches, Kept
    <3>3. CASE step[c].at = "lease"
      <4>1. /\ At(c, "attach", "lease") /\ step[c].att = Id(c) /\ Id(c) \in Ids
            /\ queue[c] # <<>>
        BY <2>1, <2>3, <3>3, HeadIsOwn, AttachAt DEF StepMatches, At
      <4>2. att[step[c].att].client # "none" /\ att[step[c].att].lease = "asked"
        BY <1>1, <2>1, <3>3 DEF StepMatches
      <4>3. ASSUME NEW d \in Clients, At(d, "attach", "lease"), step[c].att = step[d].att,
                   Granted(d) \/ Withdrawn(d)
            PROVE  FALSE
        <5>1. d = c
          BY <3>3, <4>3, LeaseIsOwn DEF At
        <5>2. queue[d] # <<>> /\ (Pop(d) \/ step'[d].at = "leave")
          BY <4>3 DEF Granted, Withdrawn, At
        <5>3. step'[d].at # "lease"
          BY <5>2, PopEffects DEF Ready
        <5> QED
          BY <2>3, <3>3, <5>1, <5>3
      <4>4. Kept(step[c].att) /\ att'[step[c].att].lease = "asked"
        BY <4>1, <4>2, <4>3, AttStays
      <4> QED
        BY <2>1, <2>3, <3>3, <4>4 DEF StepMatches, Kept
    <3> QED
      BY <1>1, <2>3, <3>1, <3>2, <3>3 DEF Progresses
  <2>4. CASE step'[c] = step[c] /\ step'[c].at # "ready"
    <3>1. queue[c] # <<>>
      BY <2>1, <2>4 DEF StepMatches
    <3> QED
      BY <2>3, <2>4, <3>1, FirstStays DEF Ready
  <2>5. ASSUME NEW s \in Sessions, NEW ok \in BOOLEAN, OpenEnds(s, ok), step[c].at = "acquire",
               \/ step'[c].at = "acquired" /\ step'[c].handle = opening[s] /\ opening[s] # 0
               \/ step'[c].at = "failed"
        PROVE  StepMatches(c)'
    <3>1. queue' = queue /\ (opening[s] # 0 => opening[s] \in Ids)
      BY <1>1, <2>5 DEF OpenEnds, IdOrNone, Ids
    <3> QED
      BY <2>1, <2>5, <3>1 DEF StepMatches
  <2>6. ASSUME ClientStep(c), step'[c].at # "ready"
        PROVE  StepMatches(c)'
    <3>1. ~Pop(c) /\ queue' = queue /\ queue[c] # <<>>
      BY <2>6, ClientEffects, PopEffects DEF Ready
    <3>2. CASE StartLeave(c) \/ Switch(c)
      <4>1. current[c] # 0
        BY <3>1, <3>2 DEF StartLeave, Switch
      <4> QED
        BY <3>2, <4>1, LeaveBegins DEF StepMatches
    <3>3. CASE StartAttach(c)
      <4>1. /\ At(c, "attach", "ready") /\ request[Id(c)].session \in Sessions
            /\ queue[c][1].op = "attach"
        BY <3>3, AttachAt DEF StartAttach
      <4>2. LET h == hosted[request[Id(c)].session]
            IN Move(c, IF h # 0 THEN "acquired" ELSE "acquire", h, 0)
        BY <3>1, <3>3 DEF StartAttach, Hosting
      <4> QED
        BY <1>1, <3>1, <4>1, <4>2 DEF StepMatches, Move
    <3>4. CASE AskLease(c)
      <4>1. Asked(c) /\ At(c, "attach", step[c].at)
        BY <3>4, AskEffects
      <4>2. /\ step'[c].at = "lease" /\ step'[c].att = Id(c)
            /\ att'[Id(c)].client = c /\ att'[Id(c)].lease = "asked"
        BY <4>1 DEF Asked, NoAttachment
      <4>3. Id(c) = queue[c][1].id /\ queue[c][1].op = "attach"
        BY <4>1, AttachAt
      <4> QED
        BY <3>1, <4>2, <4>3 DEF StepMatches
    <3>5. CASE LeaseGranted(c)
      <4>1. At(c, "attach", "lease") /\ Granted(c)
        BY <3>5, GrantEffects
      <4>2. step[c].att = Id(c) /\ Id(c) \in Ids /\ att[Id(c)].client = c
        BY <4>1, AttachAt DEF StepsMatch, At
      <4> QED
        BY <3>1, <4>1, <4>2 DEF StepMatches, Granted, Kept
    <3>6. CASE AdmitCall(c) \/ EndLeave(c) \/ AttachFails(c) \/ SwitchFails(c) \/ LeaseRefused(c)
      BY <3>1, <3>6 DEF AdmitCall, EndLeave, AttachFails, SwitchFails, LeaseRefused
    <3> QED
      BY <2>6, <3>2, <3>3, <3>4, <3>5, <3>6 DEF ClientStep
  <2> QED
    BY <2>2, <2>4, <2>5, <2>6, StepSteps
<1> QED
  BY <1>2 DEF StepsMatch, StepMatches

\* A request waits in one place.
LEMMA OnePlace ==
  ASSUME TypeOK, QueuesAreOwn, NEW c \in Clients, NEW i \in 1 .. Len(queue[c]),
         NEW d \in Clients, NEW j \in 1 .. Len(queue[d]), queue[c][i].op \in {"attach", "detach"},
         queue[d][j].op \in {"attach", "detach"}, queue[c][i].id = queue[d][j].id
  PROVE  d = c /\ i = j
<1>1. queue[c][i] \in Operation /\ queue[d][j] \in Operation
  BY ElementOfSeq DEF TypeOK, WorkTypeOK
<1>2. d = c /\ queue[c][i].op = queue[d][j].op
  BY DEF QueuesAreOwn
<1>3. queue[c][i] = queue[d][j]
  BY <1>1, <1>2 DEF Operation
<1> QED
  BY <1>2, <1>3 DEF QueuesAreOwn

\* An attach in a queue stands for itself alone.
LEMMA AttachIsFirst ==
  ASSUME TypeOK, QueuesAreOwn, StepsMatch, NEW c \in Clients, NEW i \in 1 .. Len(queue[c]),
         queue[c][i].op = "attach", NEW d \in Clients, NEW x, At(d, "attach", x),
         Id(d) = queue[c][i].id
  PROVE  d = c /\ i = 1
<1>1. /\ queue[d][1].op = "attach" /\ Id(d) = queue[d][1].id /\ 1 \in 1 .. Len(queue[d])
  BY AttachAt, HeadIsOwn
<1> QED
  BY <1>1, OnePlace

\* What has not begun for a request.
Fresh(i)   == att[i].client = "none"
Unheard(i) == handle[i] = "none" /\ \A s \in Sessions : opening[s] # i

\* A request that has not begun begins with the attach it stands for.
LEMMA FreshStays ==
  ASSUME TypeOK, QueuesAreOwn, StepsMatch, Next, NEW i \in Ids
  PROVE  /\ Fresh(i) => \/ Fresh(i)'
                        \/ \E c \in Clients : At(c, "attach", step[c].at) /\ i = Id(c) /\ Asked(c)
                        \/ \E c \in Clients : At(c, "attach", "lease") /\ i = Id(c)
         /\ Unheard(i) => \/ Unheard(i)'
                          \/ \E c \in Clients : /\ At(c, "attach", "ready") /\ i = Id(c)
                                                /\ step'[c].at = "acquire"
<1>1. i # 0
  BY DEF Ids
<1>2. ASSUME Fresh(i)
      PROVE  \/ Fresh(i)'
             \/ \E c \in Clients : At(c, "attach", step[c].at) /\ i = Id(c) /\ Asked(c)
             \/ \E c \in Clients : At(c, "attach", "lease") /\ i = Id(c)
  <2>1. att'[i] = att[i] \/ Releases(i) => Fresh(i)'
    BY <1>2 DEF Fresh, Releases, Kept
  <2> QED
    BY <1>2, <2>1, AttSteps
<1>3. ASSUME Unheard(i)
      PROVE  \/ Unheard(i)'
             \/ \E c \in Clients : /\ At(c, "attach", "ready") /\ i = Id(c)
                                   /\ step'[c].at = "acquire"
  <2>1. handle'[i] = "none"
    BY <1>3, HandleSteps DEF Unheard
  <2>2. ASSUME NEW s \in Sessions, opening'[s] = i
        PROVE  \E c \in Clients : /\ At(c, "attach", "ready") /\ i = Id(c)
                                  /\ step'[c].at = "acquire"
    BY <1>1, <1>3, <2>2, OpeningSteps DEF Unheard
  <2> QED
    BY <2>1, <2>2 DEF Unheard
<1> QED
  BY <1>2, <1>3

LEMMA FreshStep ==
  ASSUME TypeOK, QueuesAreOwn, StepsMatch, RequestsAreFresh, Next
  PROVE  RequestsAreFresh'
<1>1. ASSUME NEW i \in waiting
      PROVE  i \in Ids /\ Fresh(i) /\ Unheard(i) /\ removal[i].at = "none"
  BY <1>1 DEF RequestsAreFresh, Fresh, Unheard, TypeOK, AskTypeOK
<1>2. \A c \in Clients : \A x : At(c, "attach", x) => Id(c) \notin waiting
  BY AttachAt
<1>3. ASSUME NEW i \in waiting
      PROVE  Fresh(i)' /\ Unheard(i)'
  BY <1>1, <1>2, FreshStays
<1>4. ASSUME NEW i \in waiting'
      PROVE  removal'[i].at = "none"
  <2>1. i \in waiting /\ i \in Ids /\ removal[i].at = "none" /\ ~StartRemoval(i)
    BY <1>1, <1>4, WaitingSteps
  <2> QED
    BY <2>1, RemovalSteps
<1>5. ASSUME NEW c \in Clients, NEW j \in 1 .. Len(queue'[c]), NEW a, a = queue'[c][j].id,
             queue'[c][j].op = "attach"
      PROVE  /\ j # 1 \/ step'[c].at \notin {"lease", "leave"} => Fresh(a)'
             /\ j # 1 \/ step'[c].at = "ready" => Unheard(a)'
  <2>1. ASSUME NEW i \in 1 .. Len(queue[c]), queue'[c][j] = queue[c][i], i # 1
        PROVE  Fresh(a)' /\ Unheard(a)'
    <3>1. Fresh(a) /\ Unheard(a) /\ a \in Ids
      BY <1>5, <2>1 DEF RequestsAreFresh, Fresh, Unheard, QueuesAreOwn
    <3>2. \A d \in Clients : \A x : At(d, "attach", x) => a # Id(d)
      BY <1>5, <2>1, AttachIsFirst
    <3> QED
      BY <3>1, <3>2, FreshStays
  <2>2. ASSUME 1 \in 1 .. Len(queue[c]), queue'[c][j] = queue[c][1], j = 1, queue'[c][1] = queue[c][1],
               ~Pop(c)
        PROVE  /\ step'[c].at \notin {"lease", "leave"} => Fresh(a)'
               /\ step'[c].at = "ready" => Unheard(a)'
    <3>1. /\ step[c].at \notin {"lease", "leave"} => Fresh(a)
          /\ step[c].at = "ready" => Unheard(a)
          /\ a \in Ids
      BY <1>5, <2>2 DEF RequestsAreFresh, Fresh, Unheard, QueuesAreOwn
    <3>2. \A d \in Clients : \A x : At(d, "attach", x) /\ a = Id(d) => d = c /\ step[c].at = x
      BY <1>5, <2>2, AttachIsFirst DEF At
    <3>3. /\ step[c].at = "leave" => step'[c] = step[c]
          /\ step[c].at = "lease" => step'[c] = step[c] \/ step'[c].at = "leave"
          /\ step'[c].at = "ready" => step[c].at = "ready"
      <4>1. CASE ClientStep(c)
        <5>1. step'[c].at # "ready"
          BY <2>2, <4>1, ClientEffects
        <5>2. step[c].at # "leave"
          BY <2>2, <4>1 DEF ClientStep, AdmitCall, StartLeave, EndLeave, StartAttach, AttachFails,
             Switch, SwitchFails, AskLease, LeaseGranted, LeaseRefused, At
        <5>3. step[c].at = "lease" => LeaseGranted(c)
          BY <2>2, <4>1 DEF ClientStep, AdmitCall, StartLeave, EndLeave, StartAttach, AttachFails,
             Switch, SwitchFails, AskLease, LeaseRefused, At
        <5>4. LeaseGranted(c) => step'[c].at = "leave"
          <6>1. LeaseGranted(c) => Granted(c)
            BY GrantEffects
          <6>2. Granted(c) /\ ~Pop(c) => step'[c].at = "leave"
            BY DEF Granted
          <6> QED
            BY <2>2, <6>1, <6>2
        <5> QED
          BY <5>1, <5>2, <5>3, <5>4
      <4> QED
        BY <4>1, StepSteps
    <3>4. ASSUME step'[c].at \notin {"lease", "leave"}
          PROVE  Fresh(a)'
      <4>1. step[c].at \notin {"lease", "leave"}
        BY <3>3, <3>4
      <4>2. \A d \in Clients : Asked(d) /\ d = c => step'[c].at = "lease"
        BY DEF Asked
      <4> QED
        BY <3>1, <3>2, <3>4, <4>1, <4>2, FreshStays
    <3>5. step'[c].at = "ready" => Unheard(a)'
      BY <3>1, <3>2, <3>3, FreshStays
    <3> QED
      BY <3>4, <3>5
  <2>3. Len(queue[c]) \in Nat /\ Len(queue'[c]) \in Nat
    BY QueueSteps, LenProperties DEF TypeOK, WorkTypeOK
  <2>4. CASE queue'[c] = queue[c]
    <3>1. ~Pop(c) \/ queue[c] = <<>>
      BY <2>3, <2>4, PopEffects DEF Pops
    <3>2. queue[c] # <<>>
      BY <1>5, <2>4, <2>3, QueueSteps, EmptySeq DEF TypeOK, WorkTypeOK
    <3>3. j \in 1 .. Len(queue[c])
      BY <1>5, <2>4
    <3> QED
      BY <1>5, <2>1, <2>2, <2>4, <3>1, <3>2, <3>3
  <2>5. CASE Pops(c)
    <3>1. j + 1 \in 1 .. Len(queue[c]) /\ j + 1 # 1 /\ queue'[c][j] = queue[c][j + 1]
      <4>1. Len(queue'[c]) = Len(queue[c]) - 1
        BY <2>5 DEF Pops
      <4> QED
        BY <1>5, <2>3, <2>5, <4>1 DEF Pops
    <3> QED
      BY <2>1, <3>1
  <2>6. ASSUME NEW e, Pushes(c, e), e.op # "attach" \/ e.id \in waiting
        PROVE  /\ j # 1 \/ step'[c].at \notin {"lease", "leave"} => Fresh(a)'
               /\ j # 1 \/ step'[c].at = "ready" => Unheard(a)'
    <3>1. CASE j \in 1 .. Len(queue[c])
      <4>1. queue'[c][j] = queue[c][j] /\ queue[c] # <<>> /\ 1 \in 1 .. Len(queue[c])
        BY <2>3, <2>6, <3>1 DEF Pushes
      <4>2. ~Pop(c)
        BY <2>3, <2>6, <4>1, PopEffects DEF Pops, Pushes
      <4>3. queue'[c][1] = queue[c][1]
        BY <2>6, <4>1 DEF Pushes
      <4> QED
        BY <2>1, <2>2, <3>1, <4>1, <4>2, <4>3
    <3>2. CASE j = Len(queue[c]) + 1
      <4>1. a \in waiting
        BY <1>5, <2>6, <3>2 DEF Pushes
      <4> QED
        BY <1>3, <4>1
    <3> QED
      BY <1>5, <2>3, <2>6, <3>1, <3>2 DEF Pushes
  <2>7. ASSUME NEW k \in Calls, Pushes(c, [op |-> "call", id |-> k])
        PROVE  /\ j # 1 \/ step'[c].at \notin {"lease", "leave"} => Fresh(a)'
               /\ j # 1 \/ step'[c].at = "ready" => Unheard(a)'
    <3>1. [op |-> "call", id |-> k].op # "attach"
      OBVIOUS
    <3> QED
      BY <2>6, <2>7, <3>1
  <2>8. ASSUME NEW i \in Ids, StartRequest(i), Pushes(c, [op |-> request[i].kind, id |-> i])
        PROVE  /\ j # 1 \/ step'[c].at \notin {"lease", "leave"} => Fresh(a)'
               /\ j # 1 \/ step'[c].at = "ready" => Unheard(a)'
    <3>1. i \in waiting /\ [op |-> request[i].kind, id |-> i].id = i
      BY <2>8, WaitingSteps
    <3> QED
      BY <2>6, <2>8, <3>1
  <2>9. ASSUME Pushes(c, [op |-> "disconnect", id |-> 0])
        PROVE  /\ j # 1 \/ step'[c].at \notin {"lease", "leave"} => Fresh(a)'
               /\ j # 1 \/ step'[c].at = "ready" => Unheard(a)'
    <3>1. [op |-> "disconnect", id |-> 0].op # "attach"
      OBVIOUS
    <3> QED
      BY <2>6, <2>9, <3>1
  <2> QED
    BY <2>4, <2>5, <2>7, <2>8, <2>9, QueueSteps
<1> QED
  BY <1>3, <1>4, <1>5, WaitingSteps DEF RequestsAreFresh, Fresh, Unheard

\* Who waits for a lease goes on when it is answered.
LEMMA AskedWaits ==
  ASSUME TypeOK, QueuesAreOwn, StepsMatch, Next, NEW c \in Clients, step[c].at = "lease",
         att'[step[c].att].lease = "asked"
  PROVE  step'[c] = step[c]
<1>1. CASE ClientStep(c)
  <2>1. LeaseGranted(c) \/ LeaseRefused(c)
    BY <1>1 DEF ClientStep, AdmitCall, StartLeave, EndLeave, StartAttach, AttachFails, Switch,
           SwitchFails, AskLease, At
  <2>2. ~LeaseGranted(c)
    BY GrantEffects DEF Granted
  <2>3. ~LeaseRefused(c)
    BY RefuseEffects DEF Withdrawn
  <2> QED
    BY <2>1, <2>2, <2>3
<1> QED
  BY <1>1, StepSteps

LEMMA AttachmentsStep ==
  ASSUME TypeOK, QueuesAreOwn, StepsMatch, RequestsAreFresh, AttachmentsMatch, CurrentIsOwn, Next
  PROVE  AttachmentsMatch'
<1>1. /\ att \in [Ids -> Attachment] /\ att' \in [Ids -> Attachment] /\ "none" \notin Clients
      /\ \A c \in Clients : step[c].handle \in IdOrNone
      /\ 0 \notin Ids
  BY AttSteps DEF TypeOK, HostTypeOK, WorkTypeOK, Progresses, Ids
<1>2. ASSUME NEW a \in Ids
      PROVE  /\ att'[a].client = "none" => att'[a] = NoAttachment
             /\ att'[a].lease \in {"asked", "held"} => att'[a].member
             /\ att'[a].member => att'[a].handle \in Ids
             /\ att'[a].lease = "released" => att'[a].release \notin {"no", "waiting"}
             /\ att'[a].release \in {"releasing", "done", "failed"} =>
                  att'[a].waits = {} /\ att'[a].lease \notin {"asked", "held"}
  <2>1. /\ att[a].client = "none" => att[a] = NoAttachment
        /\ att[a].lease \in {"asked", "held"} => att[a].member
        /\ att[a].member => att[a].handle \in Ids
        /\ att[a].lease = "released" => att[a].release \notin {"no", "waiting"}
        /\ att[a].release \in {"releasing", "done", "failed"} =>
             att[a].waits = {} /\ att[a].lease \notin {"asked", "held"}
        /\ att[a] \in Attachment /\ att'[a] \in Attachment
    BY <1>1 DEF AttachmentsMatch
  <2>2. CASE att'[a] = att[a]
    BY <2>1, <2>2
  <2>3. CASE Releases(a)
    <3>1. CASE \E k \in Calls : /\ CallEnds(k) /\ LeaseKept(a) /\ att'[a].waits = att[a].waits \ {k}
                                /\ att'[a].release = att[a].release /\ att'[a].why = att[a].why
      <4>1. Kept(a)
        BY <2>3 DEF Releases
      <4>2. att[a] = NoAttachment => att'[a] = NoAttachment
        <5> SUFFICES ASSUME att[a] = NoAttachment PROVE att'[a] = NoAttachment
          OBVIOUS
        <5>1. /\ att'[a].client = "none" /\ att'[a].handle = 0 /\ att'[a].member = FALSE
              /\ att'[a].lease = "none" /\ att'[a].release = "no" /\ att'[a].why = "none"
              /\ att'[a].waits = {}
          BY <3>1, <4>1 DEF Kept, LeaseKept, NoAttachment
        <5>2. att'[a] \in Attachment
          BY <2>1
        <5> QED
          BY <5>1, <5>2 DEF NoAttachment, Attachment
      <4> QED
        BY <2>1, <3>1, <4>1, <4>2 DEF Kept, LeaseKept
    <3>2. att[a].client = "none" => /\ ~att[a].member /\ att[a].release = "no"
                                    /\ \A c \in Clients : current[c] # a
      BY <1>1, <2>1 DEF NoAttachment, CurrentIsOwn
    <3> QED
      BY <2>1, <2>3, <3>1, <3>2 DEF Releases, Kept, LeaseKept, ReleaseBegins
  <2>4. ASSUME NEW c \in Clients, Asked(c), At(c, "attach", step[c].at), a = Id(c)
        PROVE  /\ att'[a].client # "none" /\ att'[a].member /\ att'[a].handle \in Ids
               /\ att'[a].lease = "asked" /\ att'[a].release = "no"
    <3>1. step[c].at \in {"acquired", "switch"}
      BY <2>4 DEF Asked, AskLease, At
    <3>2. step[c].handle \in Ids
      BY <3>1 DEF StepsMatch
    <3> QED
      BY <1>1, <2>4, <3>2 DEF Asked, NoAttachment
  <2>5. ASSUME NEW c \in Clients, a = step[c].att, Granted(c) \/ Withdrawn(c)
        PROVE  /\ Kept(a) /\ att[a].lease = "asked" /\ att'[a].release \in {"no", "waiting"}
               /\ \/ att'[a].lease = "held" /\ att'[a].member = att[a].member
                  \/ att'[a].lease = "none" /\ ~att'[a].member
    <3>1. att[a].lease = "asked"
      BY <2>5 DEF Granted, Withdrawn
    <3>2. att[a].release \in {"no", "waiting"}
      BY <2>1, <3>1 DEF Attachment
    <3> QED
      BY <2>5, <3>1, <3>2 DEF Granted, Withdrawn, ReleaseKept, ReleaseBegins
  <2>6. att[a].lease = "asked" => att[a].client # "none"
    BY <2>1 DEF NoAttachment
  <2> QED
    BY <2>1, <2>2, <2>3, <2>4, <2>5, <2>6, AttSteps DEF Kept
<1>3. ASSUME NEW a \in Ids, att'[a].lease = "asked"
      PROVE  LET c == att'[a].client IN step'[c].at = "lease" /\ step'[c].att = a
  <2>1. ASSUME NEW c \in Clients, Asked(c), a = Id(c)
        PROVE  att'[a].client = c /\ step'[c].at = "lease" /\ step'[c].att = a
    <3>1. /\ att'[a] = [NoAttachment EXCEPT !.client = c, !.handle = step[c].handle, !.member = TRUE,
                                              !.lease = "asked"]
          /\ step'[c] = [at |-> "lease", handle |-> step[c].handle, att |-> a]
      BY <2>1 DEF Asked
    <3> QED
      BY <3>1 DEF NoAttachment
  <2>2. ASSUME att[a].lease = "asked", Kept(a)
        PROVE  LET c == att'[a].client IN step'[c].at = "lease" /\ step'[c].att = a
    <3> DEFINE c == att[a].client
    <3>1. step[c].at = "lease" /\ step[c].att = a /\ att'[a].client = c
      BY <2>2 DEF AttachmentsMatch, Kept
    <3>2. c \in Clients
      <4>1. att[a].client # "none"
        BY <2>2 DEF AttachmentsMatch, NoAttachment
      <4> QED
        BY <1>1, <4>1 DEF Attachment
    <3>3. step'[c] = step[c]
      BY <1>3, <3>1, <3>2, AskedWaits
    <3> QED
      BY <3>1, <3>3
  <2>3. \A c \in Clients : a = step[c].att => ~Granted(c) /\ ~Withdrawn(c)
    BY <1>3 DEF Granted, Withdrawn
  <2>4. CASE att'[a] = att[a] \/ Releases(a)
    <3>1. att[a].lease = "asked" /\ Kept(a)
      BY <1>3, <2>4 DEF Releases, Kept, LeaseKept
    <3> QED
      BY <2>2, <3>1
  <2> QED
    BY <2>1, <2>3, <2>4, AttSteps
<1>4. ASSUME NEW a \in Ids, att'[a].release \in {"done", "failed"}, NEW c \in Clients, current'[c] = a
      PROVE  FALSE
  <2>1. CASE current'[c] = current[c]
    <3>1. current[c] = a /\ att[a].client = c /\ att[a].release \notin {"done", "failed"}
      BY <1>1, <1>4, <2>1 DEF CurrentIsOwn, AttachmentsMatch
    <3>2. Releases(a) => EndRelease(a) /\ current' = [d \in Clients |-> IF current[d] = a THEN 0 ELSE current[d]]
      BY <1>4, <3>1 DEF Releases, ReleaseBegins
    <3>3. ~Releases(a)
      BY <1>1, <1>4, <3>2
    <3>4. ASSUME NEW d \in Clients, Asked(d), a = Id(d)
          PROVE  FALSE
      BY <1>4, <3>4 DEF Asked, NoAttachment
    <3>5. ASSUME NEW d \in Clients, a = step[d].att, Granted(d) \/ Withdrawn(d)
          PROVE  FALSE
      BY <1>4, <3>1, <3>5 DEF Granted, Withdrawn, ReleaseKept, ReleaseBegins
    <3> QED
      BY <1>4, <3>1, <3>3, <3>4, <3>5, AttSteps
  <2>2. CASE Granted(c) /\ a = step[c].att
    <3>1. att[a].lease = "asked"
      BY <2>2 DEF Granted
    <3>2. att[a].release \notin {"done", "failed"}
      BY <3>1 DEF AttachmentsMatch
    <3> QED
      BY <1>4, <2>2, <3>2 DEF Granted, ReleaseKept, ReleaseBegins
  <2> QED
    BY <1>1, <1>4, <2>1, <2>2, CurrentSteps
<1> QED
  BY <1>2, <1>3, <1>4 DEF AttachmentsMatch

LEMMA CurrentStep ==
  ASSUME TypeOK, QueuesAreOwn, StepsMatch, RequestsAreFresh, CurrentIsOwn, Next
  PROVE  CurrentIsOwn'
<1>1. ASSUME NEW c \in Clients, NEW a, a = current'[c], a # 0
      PROVE  att'[a].client = c /\ att'[a].lease \in {"held", "released"}
  <2>1. CASE current'[c] = current[c]
    <3>1. a \in Ids /\ att[a].client = c /\ att[a].lease \in {"held", "released"} /\ c # "none"
      BY <1>1, <2>1 DEF CurrentIsOwn, TypeOK, HostTypeOK, IdOrNone, Ids
    <3>2. ASSUME NEW d \in Clients, a = step[d].att, Granted(d) \/ Withdrawn(d)
          PROVE  FALSE
      BY <3>1, <3>2 DEF Granted, Withdrawn
    <3> QED
      BY <3>1, <3>2, AttStays DEF Kept
  <2>2. CASE Granted(c) /\ At(c, "attach", "lease") /\ a = step[c].att
    BY <2>2 DEF Granted, Kept, StepsMatch, At
  <2> QED
    BY <1>1, <2>1, <2>2, CurrentSteps
<1> QED
  BY <1>1 DEF CurrentIsOwn

\* How far the close has come.
LEMMA CloserSteps ==
  ASSUME TypeOK, QueuesAreOwn, StepsMatch, Next
  PROVE  \/ closer'.at = closer.at /\ closer'.atts = closer.atts
         \/ BeginClose /\ closer.at = "no" /\ closer'.at = "listeners"
         \/ CloseConnections /\ closer.at = "listeners" /\ closer'.at = "operations"
         \/ /\ CloseReleases /\ closer.at = "operations" /\ closer'.at = "releases"
            /\ closer'.atts = UNION {Members(h) : h \in HostedHandles} /\ closer'.left = closer.left
         \/ /\ CloseHandles /\ closer.at = "releases" /\ closer'.at = "handles"
            /\ closer'.atts = HostedHandles /\ closer'.left = closer.left
         \/ /\ CloseEnds /\ closer.at = "handles" /\ closer'.at = "closed"
            /\ closer'.left = closer.left
<1>1. closer \in Closer
  BY DEF TypeOK, WorkTypeOK
<1>2. CASE \E c \in Clients : ClientStep(c)
  <2> PICK c \in Clients : ClientStep(c)
    BY <1>2
  <2>1. queue[c] # <<>>
    BY ClientEffects
  <2> QED
    BY <2>1, ClientEffects, PopEffects
<1>3. CASE CloseStep \/ BeginClose
  <2>1. CASE CloseConnections
    BY <2>1 DEF CloseConnections
  <2>2. CASE CloseReleases
    BY <1>1, <2>2 DEF CloseReleases, Closer
  <2>3. CASE CloseHandles
    BY <1>1, <2>3 DEF CloseHandles, Closer
  <2>4. CASE CloseEnds
    BY <1>1, <2>4 DEF CloseEnds, Closer
  <2>5. CASE BeginClose
    BY <1>1, <2>5 DEF BeginClose, Closer
  <2> QED
    BY <1>3, <2>1, <2>2, <2>3, <2>4, <2>5 DEF CloseStep
<1>4. CASE \/ \E i \in Ids : RequestStep(i) \/ StartRelease(i) \/ EndRelease(i) \/ HandleEnds(i)
           \/ \E k \in Calls : CallEnds(k)
           \/ \E s \in Sessions, ok \in BOOLEAN : OpenEnds(s, ok)
           \/ \E c \in Clients : LoseConnection(c) \/ \E k \in Calls : CallService(c, k)
  <2>1. closer' = closer
    BY <1>4 DEF RequestStep, StartRequest, StartRemoval, RemovalCloses, RemovalEnds, StartRelease,
           EndRelease, HandleEnds, CallEnds, OpenEnds, LoseConnection, CallService
  <2> QED
    BY <2>1
<1> QED
  BY <1>2, <1>3, <1>4 DEF Next, Progress

\* A connection that leaves waits for its release.
LEMMA LeaveWaits ==
  ASSUME TypeOK, QueuesAreOwn, StepsMatch, Next, NEW c \in Clients,
         step[c].at \in {"leave", "switch"}, att[step[c].att].release \in {"waiting", "releasing"}
  PROVE  step'[c] = step[c] /\ ~ClientStep(c)
<1>1. CASE ClientStep(c)
  BY <1>1 DEF ClientStep, AdmitCall, StartLeave, EndLeave, StartAttach, AttachFails, Switch,
         SwitchFails, AskLease, LeaseGranted, LeaseRefused, At, Released
<1> QED
  BY <1>1, StepSteps

HoldsCalls(a) ==
  /\ att[a].release = "no" <=> att[a].why = "none"
  /\ att[a].why \in {"left", "closed"} => Running(a) \subseteq att[a].waits
  /\ att[a].why = "left" /\ att[a].release \in {"waiting", "releasing"} =>
       LET c == att[a].client
       IN step[c].at \in {"leave", "switch"} /\ step[c].att = a
  /\ att[a].why = "closed" => Closing

LEMMA HoldStep ==
  ASSUME TypeOK, QueuesAreOwn, StepsMatch, RequestsAreFresh, AttachmentsMatch, CurrentIsOwn,
         ReleasesHoldCalls, Next
  PROVE  ReleasesHoldCalls'
<1>1. /\ att \in [Ids -> Attachment] /\ \A a \in Ids : att[a] \in Attachment
      /\ "none" \notin Clients /\ 0 \notin Ids /\ call' \in [Calls -> CallType]
  BY CallTypes DEF TypeOK, HostTypeOK, Ids
<1>2. ASSUME NEW a \in Ids
      PROVE  /\ att[a].release = "no" <=> att[a].why = "none"
             /\ att[a].why \in {"left", "closed"} => Running(a) \subseteq att[a].waits
             /\ att[a].why = "closed" => Closing
             /\ att[a].client = "none" => att[a].release = "no"
  BY DEF ReleasesHoldCalls, AttachmentsMatch, NoAttachment
<1>3. ASSUME NEW a \in Ids
      PROVE  \/ att'[a].release = att[a].release /\ att'[a].why = att[a].why
             \/ ReleaseBegins(a, att'[a].why) /\ att'[a].why \in {"left", "removed", "ended", "closed"}
             \/ /\ att[a].release = "waiting" /\ att'[a].release = "releasing"
                /\ att[a].waits = {} /\ att'[a].waits = {} /\ att'[a].why = att[a].why
             \/ /\ att[a].release = "releasing" /\ att'[a].release \in {"done", "failed"}
                /\ att'[a].waits = att[a].waits /\ att'[a].why = att[a].why
             \/ att'[a].release = "no" /\ att'[a].why = "none"
  <2>1. \A c \in Clients : Asked(c) /\ a = Id(c) => att'[a].release = "no" /\ att'[a].why = "none"
    BY DEF Asked, NoAttachment
  <2>2. \A c \in Clients : Granted(c) /\ a = step[c].att =>
          \/ att'[a].release = att[a].release /\ att'[a].why = att[a].why
          \/ ReleaseBegins(a, att'[a].why) /\ att'[a].why = "left"
    BY DEF Granted, ReleaseKept, ReleaseBegins
  <2>3. \A c \in Clients : Withdrawn(c) /\ a = step[c].att =>
          att'[a].release = att[a].release /\ att'[a].why = att[a].why
    BY DEF Withdrawn, ReleaseKept
  <2>4. Releases(a) =>
          \/ att'[a].release = att[a].release /\ att'[a].why = att[a].why
          \/ ReleaseBegins(a, att'[a].why) /\ att'[a].why \in {"left", "removed", "ended", "closed"}
          \/ /\ att[a].release = "waiting" /\ att'[a].release = "releasing"
             /\ att[a].waits = {} /\ att'[a].waits = {} /\ att'[a].why = att[a].why
          \/ /\ att[a].release = "releasing" /\ att'[a].release \in {"done", "failed"}
             /\ att'[a].waits = att[a].waits /\ att'[a].why = att[a].why
    BY DEF Releases, ReleaseBegins
  <2> QED
    BY <2>1, <2>2, <2>3, <2>4, AttSteps
<1>4. ASSUME NEW a \in Ids
      PROVE  att'[a].release = "no" <=> att'[a].why = "none"
  BY <1>2, <1>3 DEF ReleaseBegins
<1>5. ASSUME NEW a \in Ids, att'[a].why \in {"left", "closed"}, NEW k \in Running(a)'
      PROVE  k \in att'[a].waits
  <2>1. k \in Calls /\ call'[k].state = "running" /\ call'[k].route = a
    BY <1>5 DEF Running
  <2>2. CASE call'[k] = call[k]
    <3>1. k \in Running(a)
      BY <2>1, <2>2 DEF Running
    <3>2. ~CallEnds(k)
      <4>1. CallEnds(k) => call'[k].state = "over"
        BY <2>1 DEF CallEnds, TypeOK, WorkTypeOK, CallType
      <4> QED
        BY <2>1, <4>1
    <3>3. ReleaseBegins(a, att'[a].why) => k \in att'[a].waits
      BY <3>1 DEF ReleaseBegins
    <3>4. ASSUME att[a].why \in {"left", "closed"}
          PROVE  k \in att'[a].waits
      <4>1. k \in att[a].waits /\ att[a].release # "no"
        BY <1>2, <3>1, <3>4
      <4>2. \A c \in Clients : Asked(c) /\ a = Id(c) => att'[a].why = "none"
        BY DEF Asked, NoAttachment
      <4>3. \A c \in Clients : a = step[c].att /\ (Granted(c) \/ Withdrawn(c)) => att'[a].waits = att[a].waits
        BY <4>1 DEF Granted, Withdrawn, ReleaseKept, ReleaseBegins
      <4>4. Releases(a) => k \in att'[a].waits
        BY <3>2, <4>1 DEF Releases, ReleaseBegins
      <4> QED
        BY <1>5, <4>1, <4>2, <4>3, <4>4, AttSteps
    <3> QED
      BY <1>3, <1>5, <3>3, <3>4
  <2>3. ASSUME NEW c \in Clients, AdmitCall(c), ~Refused(c), current[c] = a
        PROVE  FALSE
    <3>1. att' = att /\ step[c].at = "ready"
      BY <2>3 DEF AdmitCall, At
    <3>2. att[a].client = c /\ att[a].release \notin {"no", "done", "failed"} /\ att[a].why # "closed"
      BY <1>1, <1>2, <1>5, <2>3, <3>1 DEF CurrentIsOwn, AttachmentsMatch, Refused
    <3>3. att[a].release \in {"waiting", "releasing"} /\ att[a].why = "left"
      BY <1>1, <1>5, <3>1, <3>2 DEF Attachment
    <3> QED
      BY <3>1, <3>2, <3>3 DEF ReleasesHoldCalls
  <2> QED
    BY <2>1, <2>2, <2>3, CallTypes
<1>6. ASSUME NEW a \in Ids, att'[a].why = "left", att'[a].release \in {"waiting", "releasing"},
             NEW c, c = att'[a].client
      PROVE  step'[c].at \in {"leave", "switch"} /\ step'[c].att = a
  <2>1. CASE att[a].why = "left" /\ att[a].release \in {"waiting", "releasing"}
    <3>1. att[a].client # "none" /\ att[a].client \in Clients
      BY <1>1, <1>2, <2>1 DEF Attachment
    <3>2. att'[a].client = att[a].client
      BY <3>1, AttStays DEF Kept
    <3>3. step[c].at \in {"leave", "switch"} /\ step[c].att = a /\ c \in Clients
      BY <1>6, <2>1, <3>1, <3>2 DEF ReleasesHoldCalls
    <3> QED
      BY <2>1, <3>3, LeaveWaits
  <2>2. CASE ReleaseBegins(a, "left")
    <3>1. ASSUME Releases(a)
          PROVE  step'[c].at \in {"leave", "switch"} /\ step'[c].att = a
      <4>1. PICK d \in Clients : /\ current[d] = a /\ step'[d].at \in {"leave", "switch"}
                                 /\ step'[d].att = a
        BY <1>6, <2>2, <3>1 DEF Releases, ReleaseBegins
      <4>2. att[a].client = d
        BY <1>1, <4>1 DEF CurrentIsOwn
      <4> QED
        BY <1>6, <2>2, <4>1, <4>2 DEF ReleaseBegins, Kept
    <3>2. ASSUME NEW d \in Clients, At(d, "attach", "lease"), a = step[d].att, Granted(d) \/ Withdrawn(d)
          PROVE  step'[c].at \in {"leave", "switch"} /\ step'[c].att = a
      <4>1. d = c
        BY <1>6, <3>2 DEF StepsMatch, At, Granted, Withdrawn, Kept
      <4>2. step'[d] = [at |-> "leave", handle |-> 0, att |-> a]
        BY <2>2, <3>2 DEF Granted, Withdrawn, ReleaseKept, ReleaseBegins
      <4> QED
        BY <4>1, <4>2
    <3>3. \A d \in Clients : Asked(d) => att'[Id(d)].why # "left"
      BY DEF Asked, NoAttachment
    <3> QED
      BY <1>6, <2>2, <3>1, <3>2, <3>3, AttSteps DEF ReleaseBegins
  <2> QED
    BY <1>3, <1>6, <2>1, <2>2
<1>7. ASSUME NEW a \in Ids, att'[a].why = "closed"
      PROVE  Closing'
  <2>1. Closing => Closing'
    BY CloserSteps DEF Closing
  <2>2. CASE att[a].why = "closed"
    BY <1>2, <2>1, <2>2
  <2>3. CASE att[a].why # "closed"
    <3>1. \A d \in Clients : Asked(d) => att'[Id(d)].why # "closed"
      BY DEF Asked, NoAttachment
    <3>2. \A d \in Clients : a = step[d].att => ~Granted(d) /\ ~Withdrawn(d)
      BY <1>7, <2>3 DEF Granted, Withdrawn, ReleaseKept, ReleaseBegins
    <3>3. Releases(a) => CloseReleases
      BY <1>7, <2>3 DEF Releases, ReleaseBegins
    <3>4. CloseReleases
      BY <1>7, <2>3, <3>1, <3>2, <3>3, AttSteps
    <3> QED
      BY <2>1, <3>4 DEF CloseReleases, Closing
  <2> QED
    BY <2>2, <2>3
<1>8. ASSUME NEW a \in Ids
      PROVE  HoldsCalls(a)'
  BY <1>4, <1>5, <1>6, <1>7 DEF HoldsCalls
<1> QED
  BY <1>8 DEF ReleasesHoldCalls, HoldsCalls

\* An attach waits for its Session to be opened.
LEMMA AcquireWaits ==
  ASSUME TypeOK, QueuesAreOwn, StepsMatch, Next, NEW c \in Clients, step[c].at = "acquire",
         \A ok \in BOOLEAN : ~OpenEnds(request[Id(c)].session, ok)
  PROVE  /\ step'[c] = step[c] /\ queue'[c] # <<>> /\ queue'[c][1] = queue[c][1]
<1>1. ~ClientStep(c)
  BY DEF ClientStep, AdmitCall, StartLeave, EndLeave, StartAttach, AttachFails, Switch,
         SwitchFails, AskLease, LeaseGranted, LeaseRefused, At
<1>2. step'[c] = step[c]
  BY <1>1, StepSteps
<1>3. queue[c] # <<>>
  BY DEF StepsMatch
<1> QED
  BY <1>1, <1>2, <1>3, FirstStays

LEMMA HostsStep ==
  ASSUME TypeOK, QueuesAreOwn, StepsMatch, RequestsAreFresh, HostsMatch, Next
  PROVE  HostsMatch'
<1>1. /\ request' = request /\ 0 \notin Ids
      /\ \A s \in Sessions : hosted[s] # 0 => hosted[s] \in Ids
      /\ \A s \in Sessions : hosted'[s] # 0 => hosted'[s] \in Ids
      /\ \A s \in Sessions : opening[s] # 0 => opening[s] \in Ids
      /\ \A h \in Ids : SessionOf(h) \in Sessions
      /\ handle \in [Ids -> {"none", "open", "closing", "closed"}]
  <2>1. request' = request /\ \A h \in Ids : SessionOf(h) \in Sessions
    BY AskTypes, RequestTypes
  <2>2. /\ hosted \in [Sessions -> IdOrNone] /\ hosted' \in [Sessions -> IdOrNone]
        /\ opening \in [Sessions -> IdOrNone]
        /\ handle \in [Ids -> {"none", "open", "closing", "closed"}]
    BY HostedSteps DEF TypeOK, HostTypeOK
  <2>3. 0 \notin Ids /\ \A i \in IdOrNone : i # 0 => i \in Ids
    BY DEF IdOrNone, Ids
  <2> QED
    BY <2>1, <2>2, <2>3
<1>2. ASSUME NEW s \in Sessions, NEW ok \in BOOLEAN, OpenEnds(s, ok)
      PROVE  opening[s] # 0 /\ opening'[s] = 0 /\ hosted[s] = 0
  BY <1>2 DEF OpenEnds, HostsMatch, TypeOK, HostTypeOK
<1>3. ASSUME NEW h \in Ids, handle[h] \in {"open", "closing"}, handle'[h] # "closed"
      PROVE  hosted'[SessionOf(h)] = h
  <2>1. hosted[SessionOf(h)] = h /\ h # 0 /\ SessionOf(h) \in Sessions
    BY <1>1, <1>3 DEF HostsMatch
  <2>2. ~(\E i \in Ids : RemovalEnds(i) /\ removal[i].handle = h)
    BY <1>3 DEF RemovalEnds
  <2>3. ~HandleEnds(h)
    BY <1>1, <1>3 DEF HandleEnds
  <2>4. ~(CloseEnds /\ h \in closer.atts)
    BY <1>3 DEF CloseEnds
  <2>5. ~OpenEnds(SessionOf(h), TRUE)
    BY <1>2, <2>1
  <2> QED
    BY <2>1, <2>2, <2>3, <2>4, <2>5, HostedSteps
<1>4. ASSUME NEW h \in Ids, handle'[h] \in {"open", "closing"}
      PROVE  hosted'[SessionOf(h)] = h
  <2>1. CASE handle[h] \in {"open", "closing"}
    BY <1>3, <1>4, <2>1
  <2>2. ASSUME NEW s \in Sessions, OpenEnds(s, TRUE), opening[s] = h, ~Closing
        PROVE  hosted'[SessionOf(h)] = h
    <3>1. SessionOf(h) = s
      BY <1>1, <2>2 DEF HostsMatch
    <3> QED
      BY <2>2, <3>1 DEF OpenEnds, TypeOK, HostTypeOK
  <2> QED
    BY <1>4, <2>1, <2>2, HandleSteps
<1>5. ASSUME NEW s \in Sessions, NEW h, h = hosted'[s], h # 0
      PROVE  SessionOf(h) = s /\ handle'[h] # "none"
  <2>1. CASE h = hosted[s]
    <3>1. h \in Ids /\ SessionOf(h) = s /\ handle[h] # "none"
      BY <1>1, <1>5, <2>1 DEF HostsMatch
    <3> QED
      BY <3>1, HandleSteps
  <2>2. CASE OpenEnds(s, TRUE) /\ ~Closing /\ h = opening[s]
    <3>1. h \in Ids /\ SessionOf(h) = s
      BY <1>1, <1>5, <2>2 DEF HostsMatch
    <3> QED
      BY <1>1, <2>2, <3>1 DEF OpenEnds
  <2> QED
    BY <1>5, <2>1, <2>2, HostedSteps
<1>6. ASSUME NEW s \in Sessions, NEW h, h = opening'[s], h # 0
      PROVE  /\ hosted'[s] = 0 /\ SessionOf(h) = s /\ handle'[h] = "none"
             /\ LET c == request[h].client
                IN step'[c].at = "acquire" /\ queue'[c][1].op = "attach" /\ queue'[c][1].id = h
  <2>1. CASE h = opening[s]
    <3> DEFINE c == request[h].client
    <3>1. /\ hosted[s] = 0 /\ SessionOf(h) = s /\ handle[h] = "none" /\ h \in Ids /\ c \in Clients
          /\ step[c].at = "acquire" /\ queue[c][1].op = "attach" /\ queue[c][1].id = h
      BY <1>1, <1>6, <2>1, RequestTypes DEF HostsMatch
    <3>2. \A ok \in BOOLEAN : ~OpenEnds(s, ok)
      BY <1>2, <1>6
    <3>3. hosted'[s] = 0
      BY <3>1, <3>2, HostedSteps
    <3>4. handle'[h] = "none"
      <4>1. ASSUME NEW r \in Sessions, OpenEnds(r, TRUE), opening[r] = h
            PROVE  FALSE
        <5>1. r = s
          BY <1>1, <3>1, <4>1 DEF HostsMatch
        <5> QED
          BY <3>2, <4>1, <5>1
      <4> QED
        BY <3>1, <4>1, HandleSteps
    <3>5. queue[c] # <<>>
      BY <3>1 DEF StepsMatch
    <3>6. request[Id(c)].session = s
      BY <3>1, <3>5, HeadIsOwn DEF SessionOf
    <3>7. step'[c].at = "acquire" /\ queue'[c][1] = queue[c][1]
      BY <3>1, <3>2, <3>6, AcquireWaits
    <3> QED
      BY <3>1, <3>3, <3>4, <3>7
  <2>2. ASSUME NEW c \in Clients, StartAttach(c), At(c, "attach", "ready"), h = Id(c), h \in Ids,
               s = request[Id(c)].session, hosted[s] = 0, step'[c].at = "acquire"
        PROVE  /\ hosted'[s] = 0 /\ SessionOf(h) = s /\ handle'[h] = "none"
               /\ LET d == request[h].client
                  IN step'[d].at = "acquire" /\ queue'[d][1].op = "attach" /\ queue'[d][1].id = h
    <3>1. /\ queue[c][1].op = "attach" /\ queue[c][1].id = h /\ request[h].client = c
          /\ queue[c] # <<>> /\ 1 \in 1 .. Len(queue[c]) /\ step[c].at = "ready"
      BY <2>2, AttachAt, HeadIsOwn
    <3>2. handle[h] = "none"
      BY <3>1 DEF RequestsAreFresh
    <3>3. ~Pop(c) /\ ClientStep(c)
      BY <2>2, <3>1, PopEffects DEF Ready, ClientStep
    <3>4. queue' = queue /\ hosted' = hosted /\ handle' = handle
      BY <2>2, <3>1, <3>3, ClientEffects DEF StartAttach
    <3> QED
      BY <2>2, <3>1, <3>2, <3>4 DEF SessionOf
  <2> QED
    BY <1>6, <2>1, <2>2, OpeningSteps
<1> QED
  BY <1>1, <1>4, <1>5, <1>6 DEF HostsMatch, SessionOf

\* Nobody is attached to a handle but by an attach that asks for it.
LEMMA MembersStep ==
  ASSUME TypeOK, QueuesAreOwn, StepsMatch, RequestsAreFresh, Next, NEW a \in Ids, att'[a].member
  PROVE  \/ att[a].member /\ Kept(a)
         \/ \E c \in Clients : AskLease(c) /\ At(c, "attach", step[c].at) /\ a = Id(c)
<1>1. CASE att'[a] = att[a]
  BY <1>1 DEF Kept
<1>2. CASE Releases(a)
  BY <1>2 DEF Releases, LeaseKept
<1>3. \A c \in Clients : a = step[c].att /\ (Granted(c) \/ Withdrawn(c)) => att[a].member /\ Kept(a)
  BY DEF Granted, Withdrawn
<1> QED
  BY <1>1, <1>2, <1>3, AttSteps DEF Asked

\* Who is busy was, or has just been started.
LEMMA BusySteps ==
  ASSUME TypeOK, QueuesAreOwn, StepsMatch, RemovalsAreAlone, Next, NEW x \in Busy'
  PROVE  /\ x \in Ids
         /\ x \in Busy \/ (x \in waiting /\ StartRequest(x)) \/ (x \in waiting /\ StartRemoval(x))
<1>1. x \in Ids \ waiting'
  BY DEF Busy
<1>2. CASE removal'[x].at \in {"releasing", "closing"}
  <2>1. removal[x].at \in {"releasing", "closing"} \/ StartRemoval(x)
    BY <1>1, <1>2, RemovalSteps
  <2> QED
    BY <1>1, <2>1, WaitingSteps DEF RemovalsAreAlone, Busy
<1>3. ASSUME NEW c \in Clients, NEW j \in DOMAIN queue'[c],
             queue'[c][j].op \in {"attach", "detach"}, queue'[c][j].id = x
      PROVE  x \in Busy \/ (x \in waiting /\ StartRequest(x))
  <2>1. /\ Len(queue[c]) \in Nat /\ Len(queue'[c]) \in Nat /\ j \in 1 .. Len(queue'[c])
        /\ DOMAIN queue[c] = 1 .. Len(queue[c])
    BY <1>3, QueueSteps, LenProperties DEF TypeOK, WorkTypeOK
  <2>2. ASSUME NEW i \in 1 .. Len(queue[c]), queue[c][i] = queue'[c][j]
        PROVE  x \in Busy
    <3>1. x \in Ids \ waiting
      BY <1>3, <2>2 DEF QueuesAreOwn
    <3> QED
      BY <1>3, <2>1, <2>2, <3>1 DEF Busy
  <2>3. CASE Pops(c)
    <3>1. Len(queue'[c]) = Len(queue[c]) - 1 /\ queue'[c][j] = queue[c][j + 1]
      BY <2>1, <2>3 DEF Pops
    <3>2. j + 1 \in 1 .. Len(queue[c])
      BY <2>1, <3>1
    <3> QED
      BY <2>2, <3>1, <3>2
  <2>4. ASSUME NEW e, Pushes(c, e), e.op \notin {"attach", "detach"} \/ e.id # x
        PROVE  x \in Busy
    <3>1. j \in 1 .. Len(queue[c])
      BY <1>3, <2>1, <2>4 DEF Pushes
    <3>2. queue'[c][j] = queue[c][j]
      BY <2>4, <3>1 DEF Pushes
    <3> QED
      BY <2>2, <3>1, <3>2
  <2>5. \A k \in Calls : [op |-> "call", id |-> k].op = "call"
    OBVIOUS
  <2>6. [op |-> "disconnect", id |-> 0].op = "disconnect"
    OBVIOUS
  <2>7. ASSUME NEW i \in Ids, StartRequest(i), Pushes(c, [op |-> request[i].kind, id |-> i])
        PROVE  x \in Busy \/ (x \in waiting /\ StartRequest(x))
    <3>1. CASE i = x
      BY <2>7, <3>1, WaitingSteps
    <3>2. CASE i # x
      <4>1. [op |-> request[i].kind, id |-> i].id # x
        BY <3>2
      <4> QED
        BY <2>4, <2>7, <4>1
    <3> QED
      BY <3>1, <3>2
  <2>8. CASE queue'[c] = queue[c]
    BY <2>1, <2>2, <2>8
  <2>9. ASSUME NEW k \in Calls, Pushes(c, [op |-> "call", id |-> k])
        PROVE  x \in Busy
    BY <2>4, <2>5, <2>9
  <2>10. CASE Pushes(c, [op |-> "disconnect", id |-> 0])
    BY <2>4, <2>6, <2>10
  <2> QED
    BY <2>3, <2>7, <2>8, <2>9, <2>10, QueueSteps
<1> QED
  BY <1>1, <1>2, <1>3 DEF Busy

\* Nothing beside a removal attaches or opens.
LEMMA RemovalIsAlone ==
  ASSUME TypeOK, QueuesAreOwn, RemovalsAreAlone, serial, NEW i \in Ids, Removing(i)
  PROVE  /\ i \in Busy
         /\ \A c \in Clients : \A j \in 1 .. Len(queue[c]) : queue[c][j].op # "attach"
<1>1. i \in Busy /\ request[i].kind = "remove"
  BY DEF RemovalsAreAlone, Removing, Busy
<1>2. ASSUME NEW c \in Clients, NEW j \in 1 .. Len(queue[c]), queue[c][j].op = "attach"
      PROVE  FALSE
  <2>1. queue[c][j].id \in Ids \ waiting /\ request[queue[c][j].id].kind = "attach"
    BY <1>2 DEF QueuesAreOwn
  <2>2. DOMAIN queue[c] = 1 .. Len(queue[c])
    BY LenProperties DEF TypeOK, WorkTypeOK
  <2>3. queue[c][j].id \in Busy
    BY <1>2, <2>1, <2>2 DEF Busy
  <2> QED
    BY <1>1, <2>1, <2>3 DEF RemovalsAreAlone
<1> QED
  BY <1>1, <1>2

LEMMA RemovalsStep ==
  ASSUME TypeOK, QueuesAreOwn, StepsMatch, RequestsAreFresh, HostsMatch, RemovalsAreAlone, Next
  PROVE  RemovalsAreAlone'
<1>1. /\ request' = request /\ serial' = serial
      /\ \A i \in Ids : request[i].session \in Sessions
      /\ \A s \in Sessions : hosted[s] # 0 => hosted[s] \in Ids
      /\ \A s \in Sessions : hosted[s] \in Nat
  BY AskTypes, RequestTypes DEF TypeOK, HostTypeOK, IdOrNone, Ids
<1>2. ASSUME NEW i \in Ids, removal'[i].at # "none"
      PROVE  i \notin waiting'
  BY <1>2, RemovalSteps, WaitingSteps DEF RemovalsAreAlone
<1>3. ASSUME NEW i \in Ids, Removing(i)'
      PROVE  removal'[i].handle \in Ids /\ handle'[removal'[i].handle] # "none"
  <2>1. removal'[i].handle \in Ids /\ handle[removal'[i].handle] # "none"
    <3>1. CASE Removing(i) /\ removal'[i].handle = removal[i].handle
      BY <3>1 DEF RemovalsAreAlone
    <3>2. CASE removal'[i].handle = hosted[request[i].session] /\ hosted[request[i].session] # 0
      BY <1>1, <3>2 DEF HostsMatch
    <3> QED
      BY <1>3, <3>1, <3>2, RemovalSteps DEF Removing
  <2> QED
    BY <2>1, HandleSteps
<1>4. ASSUME serial, NEW i \in Busy', NEW j \in Busy'
      PROVE  i = j
  <2>1. CASE i \in Busy /\ j \in Busy
    BY <1>4, <2>1 DEF RemovalsAreAlone
  <2>2. \A x \in Ids : StartRequest(x) \/ StartRemoval(x) => Busy = {} /\ waiting' = waiting \ {x}
    BY <1>4 DEF StartRequest, StartRemoval, MayStart
  <2> QED
    BY <2>1, <2>2, BusySteps
<1>5. ASSUME serial, NEW i \in Ids, Removing(i)'
      PROVE  /\ request[i].kind = "remove"
             /\ hosted'[request[i].session] \in {0, removal'[i].handle}
  <2>1. CASE Removing(i) /\ removal'[i].handle = removal[i].handle
    <3>1. request[i].kind = "remove" /\ hosted[request[i].session] \in {0, removal[i].handle}
      BY <1>5, <2>1 DEF RemovalsAreAlone
    <3>2. ASSUME OpenEnds(request[i].session, TRUE), opening[request[i].session] # 0
          PROVE  FALSE
      <4> DEFINE o == opening[request[i].session]
      <4> DEFINE c == request[o].client
      <4>1. o \in Ids
        BY <1>1, <3>2 DEF TypeOK, HostTypeOK, IdOrNone, Ids
      <4>2. c \in Clients /\ step[c].at = "acquire" /\ queue[c][1].op = "attach"
        BY <1>1, <3>2, <4>1, RequestTypes DEF HostsMatch
      <4>3. 1 \in 1 .. Len(queue[c])
        BY <4>2, HeadIsOwn DEF StepsMatch
      <4> QED
        BY <1>5, <2>1, <4>2, <4>3, RemovalIsAlone
    <3> QED
      BY <1>1, <2>1, <3>1, <3>2, HostedSteps
  <2>2. CASE StartRemoval(i) /\ removal'[i].handle = hosted[request[i].session]
    BY <2>2 DEF StartRemoval
  <2> QED
    BY <1>5, <2>1, <2>2, RemovalSteps DEF Removing
<1>6. ASSUME serial, NEW i \in Ids, removal'[i].at = "releasing", NEW h, h = removal'[i].handle,
             NEW a \in Ids, att'[a].member, att'[a].handle = h
      PROVE  a \in removal'[i].atts
  <2>1. CASE removal'[i] = removal[i]
    <3>1. Removing(i)
      BY <1>6, <2>1 DEF Removing
    <3>2. ASSUME NEW c \in Clients, At(c, "attach", step[c].at)
          PROVE  FALSE
      <4>1. queue[c][1].op = "attach" /\ 1 \in 1 .. Len(queue[c])
        BY <3>2, AttachAt, HeadIsOwn
      <4> QED
        BY <1>6, <3>1, <4>1, RemovalIsAlone
    <3>3. att[a].member /\ Kept(a)
      BY <1>6, <3>2, MembersStep
    <3>4. a \in Members(h)
      BY <1>6, <3>3 DEF Members, Kept
    <3> QED
      BY <1>6, <2>1, <3>4 DEF RemovalsAreAlone
  <2>2. CASE /\ StartRemoval(i) /\ h = hosted[request[i].session]
             /\ removal'[i].atts = Members(hosted[request[i].session])
    <3>1. \A c \in Clients : AskLease(c) => FALSE
      <4>1. StartRemoval(i) => waiting' # waiting
        BY DEF StartRemoval, MayStart
      <4>2. \A c \in Clients : AskLease(c) => waiting' = waiting
        BY DEF AskLease, KeepHost, askVars
      <4> QED
        BY <2>2, <4>1, <4>2
    <3>2. att[a].member /\ Kept(a)
      BY <1>6, <3>1, MembersStep
    <3> QED
      BY <1>6, <2>2, <3>2 DEF Members, Kept
  <2> QED
    BY <1>6, <2>1, <2>2, RemovalSteps
<1>7. ASSUME serial, NEW i \in Ids, removal'[i].at = "releasing"
      PROVE  Members(removal[i].handle)' \subseteq removal'[i].atts
  BY <1>6, <1>7 DEF Members
<1> QED
  BY <1>1, <1>2, <1>3, <1>4, <1>5, <1>7 DEF RemovalsAreAlone, Removing

\* Only a removal deletes the metadata of a Session.
LEMMA DeletedSteps ==
  ASSUME Next
  PROVE  \/ deleted' = deleted
         \/ \E i \in Ids : /\ StartRemoval(i) /\ hosted[request[i].session] = 0
                           /\ deleted' = deleted \union {request[i].session}
         \/ \E i \in Ids : RemovalEnds(i) /\ deleted' = deleted \union {request[i].session}
<1>1. deleted' = deleted \/ (\E i \in Ids : StartRemoval(i) \/ RemovalEnds(i))
  BY DEF Next, Progress, ClientStep, RequestStep, CloseStep, AdmitCall, StartLeave, EndLeave,
         StartAttach, AttachFails, Switch, SwitchFails, AskLease, LeaseGranted, LeaseRefused,
         KeepHost, askVars, OpenEnds, LoseConnection, CallService, StartRequest, RemovalCloses,
         StartRelease, EndRelease, HandleEnds, CallEnds, CloseConnections, CloseReleases,
         CloseHandles, CloseEnds, BeginClose
<1> QED
  BY <1>1 DEF StartRemoval, RemovalEnds

LEMMA CauseStep ==
  ASSUME TypeOK, QueuesAreOwn, StepsMatch, RemovalsAreAlone, ClosingHasCause, Next
  PROVE  ClosingHasCause'
<1> SUFFICES ASSUME NEW h \in Ids, handle'[h] = "closing", closer'.at \notin {"handles", "closed"}
             PROVE  \E i \in Ids : removal'[i].at = "closing" /\ removal'[i].handle = h
  BY DEF ClosingHasCause
<1>1. closer.at \notin {"handles", "closed"} /\ ~CloseHandles
  BY CloserSteps DEF CloseHandles, TypeOK, WorkTypeOK, Closer
<1>2. CASE handle[h] = "closing"
  <2>1. PICK i \in Ids : removal[i].at = "closing" /\ removal[i].handle = h
    BY <1>1, <1>2 DEF ClosingHasCause
  <2>2. ~StartRemoval(i) /\ ~RemovalEnds(i)
    BY <1>2, <2>1, WaitingSteps DEF RemovalsAreAlone, RemovalEnds
  <2> QED
    BY <2>1, <2>2, RemovalSteps
<1>3. ASSUME NEW i \in Ids, RemovalCloses(i), removal[i].handle = h
      PROVE  removal'[i].at = "closing" /\ removal'[i].handle = h
  <2>1. removal \in [Ids -> Removal]
    BY DEF TypeOK, WorkTypeOK
  <2> QED
    BY <1>3, <2>1 DEF RemovalCloses, Removal
<1>4. \A s \in Sessions : handle'[h] # IF Closing THEN "closed" ELSE "open"
  OBVIOUS
<1> QED
  BY <1>1, <1>2, <1>3, <1>4, HandleSteps

\* Beside a removal, and after what the close has waited for, no attach is left: the
\* handle a lease is asked of is not closing, if the application answers in turn.
LEMMA GrantedWhileOpen ==
  ASSUME TypeOK, QueuesAreOwn, StepsMatch, RemovalsAreAlone, ClosingHasCause, ClosesAreFinal,
         serial, NEW c \in Clients, At(c, "attach", "lease"), NEW h \in Ids
  PROVE  handle[h] # "closing"
<1> SUFFICES ASSUME handle[h] = "closing" PROVE FALSE
  OBVIOUS
<1>1. queue[c][1].op = "attach" /\ 1 \in 1 .. Len(queue[c])
  BY AttachAt, HeadIsOwn
<1>2. CASE closer.at \in {"handles", "closed"}
  <2>1. closer.left[c] = 0 /\ 1 <= closer.left[c]
    BY <1>1, <1>2 DEF ClosesAreFinal
  <2> QED
    BY <2>1
<1>3. ASSUME NEW i \in Ids, removal[i].at = "closing"
      PROVE  FALSE
  <2>1. Removing(i)
    BY <1>3 DEF Removing
  <2> QED
    BY <1>1, <2>1, RemovalIsAlone
<1> QED
  BY <1>2, <1>3 DEF ClosingHasCause

LEMMA RemovalFirstStep ==
  ASSUME TypeOK, QueuesAreOwn, StepsMatch, RequestsAreFresh, AttachmentsMatch, HostsMatch,
         RemovalsAreAlone, ClosingHasCause, ClosesAreFinal, RemovalReleasesFirst, Next
  PROVE  RemovalReleasesFirst'
<1>1. /\ request' = request /\ serial' = serial
      /\ handle \in [Ids -> {"none", "open", "closing", "closed"}]
      /\ \A h \in Ids : SessionOf(h) \in Sessions
      /\ \A i \in Ids : request[i].session \in Sessions
      /\ att \in [Ids -> Attachment]
  BY AskTypes, RequestTypes DEF TypeOK, HostTypeOK
<1>2. ASSUME serial, NEW h \in Ids, handle'[h] # "none", SessionOf(h) \in deleted'
      PROVE  handle'[h] = "closed"
  <2>1. CASE SessionOf(h) \in deleted
    <3>1. handle[h] \in {"none", "closed"}
      BY <1>1, <1>2, <2>1 DEF RemovalReleasesFirst
    <3>2. ASSUME NEW s \in Sessions, OpenEnds(s, TRUE), opening[s] = h, h # 0
          PROVE  FALSE
      <4>1. SessionOf(h) = s
        BY <3>2 DEF HostsMatch
      <4>2. s \notin deleted
        BY <3>2 DEF OpenEnds
      <4> QED
        BY <2>1, <4>1, <4>2
    <3> QED
      BY <1>2, <3>1, <3>2, HandleSteps
  <2>2. ASSUME NEW i \in Ids, StartRemoval(i), hosted[request[i].session] = 0,
               SessionOf(h) = request[i].session
        PROVE  handle'[h] = "closed"
    <3>1. handle' = handle
      BY <2>2 DEF StartRemoval
    <3>2. handle[h] \notin {"open", "closing"}
      BY <2>2 DEF HostsMatch, Ids
    <3> QED
      BY <1>1, <1>2, <3>1, <3>2
  <2>3. ASSUME NEW i \in Ids, RemovalEnds(i), SessionOf(h) = request[i].session
        PROVE  handle'[h] = "closed"
    <3>1. handle' = handle /\ removal[i].at = "closing" /\ handle[removal[i].handle] = "closed"
      BY <2>3 DEF RemovalEnds
    <3>2. hosted[request[i].session] \in {0, removal[i].handle}
      BY <1>2, <3>1 DEF RemovalsAreAlone, Removing
    <3>3. handle[h] \in {"open", "closing"} => h = removal[i].handle
      BY <2>3, <3>2 DEF HostsMatch, Ids
    <3> QED
      BY <1>1, <1>2, <3>1, <3>3
  <2> QED
    BY <1>2, <2>1, <2>2, <2>3, DeletedSteps
<1>3. ASSUME serial, NEW a \in Ids, NEW h, h = att'[a].handle, att'[a].lease = "held",
             handle'[h] = "closing"
      PROVE  FALSE
  <2>1. ASSUME NEW c \in Clients, Granted(c), a = step[c].att
        PROVE  FALSE
    <3>1. At(c, "attach", "lease") /\ att[a].lease = "asked" /\ handle' = handle
      BY <2>1 DEF Granted, LeaseGranted, KeepHost
    <3>2. att'[a].handle = att[a].handle
      BY <2>1 DEF Granted, Kept
    <3>3. h \in Ids
      BY <1>3, <3>1, <3>2 DEF AttachmentsMatch
    <3> QED
      BY <1>3, <3>1, <3>3, GrantedWhileOpen
  <2>2. \A c \in Clients : a = step[c].att => ~Withdrawn(c)
    BY <1>3 DEF Withdrawn
  <2>3. \A c \in Clients : a = Id(c) => ~Asked(c)
    BY <1>3 DEF Asked, NoAttachment
  <2>4. att[a].lease = "held" /\ att[a].handle = h
    <3>1. att'[a] = att[a] \/ Releases(a)
      BY <2>1, <2>2, <2>3, AttSteps
    <3> QED
      BY <1>3, <3>1 DEF Releases, Kept, LeaseKept
  <2>5. /\ a \in Members(h) /\ h \in Ids /\ ~Released(a) /\ handle[h] # "closing"
    BY <1>1, <1>3, <2>4 DEF AttachmentsMatch, Members, Released, RemovalReleasesFirst
  <2>6. ASSUME NEW i \in Ids, RemovalCloses(i), removal[i].handle = h
        PROVE  FALSE
    <3>1. removal[i].at = "releasing" /\ AllReleased(removal[i].atts)
      BY <2>6 DEF RemovalCloses
    <3>2. a \in removal[i].atts
      BY <1>3, <2>5, <2>6, <3>1 DEF RemovalsAreAlone
    <3> QED
      BY <2>5, <3>1, <3>2 DEF AllReleased
  <2>7. ASSUME CloseHandles, h \in HostedHandles
        PROVE  FALSE
    <3>1. closer.at = "releases" /\ AllReleased(closer.atts)
      BY <2>7 DEF CloseHandles
    <3>2. PICK s \in Sessions : hosted[s] = h /\ h # 0
      BY <2>7 DEF HostedHandles
    <3>3. a \in closer.atts
      BY <2>5, <3>1, <3>2 DEF ClosesAreFinal
    <3> QED
      BY <2>5, <3>1, <3>3 DEF AllReleased
  <2>8. \A s \in Sessions : handle'[h] # IF Closing THEN "closed" ELSE "open"
    BY <1>3
  <2> QED
    BY <1>3, <2>5, <2>6, <2>7, <2>8, HandleSteps
<1> QED
  BY <1>1, <1>2, <1>3 DEF RemovalReleasesFirst, SessionOf

\* What the close still waits for of a connection.
LEMMA LeftSteps ==
  ASSUME TypeOK, QueuesAreOwn, StepsMatch, Next, NEW c \in Clients
  PROVE  \/ closer'.left[c] = closer.left[c]
         \/ CloseConnections /\ closer'.left[c] = Len(queue'[c])
         \/ /\ Pops(c) /\ closer'.left[c] = (IF closer.left[c] = 0 THEN 0 ELSE closer.left[c] - 1)
<1>1. closer \in Closer
  BY DEF TypeOK, WorkTypeOK
<1>2. ASSUME NEW d \in Clients, ClientStep(d)
      PROVE  \/ closer'.left[c] = closer.left[c]
             \/ /\ Pops(c) /\ closer'.left[c] = (IF closer.left[c] = 0 THEN 0 ELSE closer.left[c] - 1)
  <2>1. CASE closer' = closer
    BY <2>1
  <2>2. CASE Pop(d) /\ queue[d] # <<>>
    <3>1. CASE d = c
      BY <2>2, <3>1, PopEffects
    <3>2. CASE d # c
      BY <2>2, <3>2, PopEffects
    <3> QED
      BY <3>1, <3>2
  <2> QED
    BY <1>2, <2>1, <2>2, ClientEffects
<1>3. CASE CloseConnections
  <2>1. closer'.left = [d \in Clients |-> Len(queue'[d])]
    BY <1>3 DEF CloseConnections
  <2> QED
    BY <1>3, <2>1
<1>4. CASE CloseReleases \/ CloseHandles \/ CloseEnds
  BY <1>1, <1>4 DEF CloseReleases, CloseHandles, CloseEnds, Closer
<1>5. CASE BeginClose
  BY <1>1, <1>5 DEF BeginClose, Closer
<1>6. CASE \/ \E i \in Ids : RequestStep(i) \/ StartRelease(i) \/ EndRelease(i) \/ HandleEnds(i)
           \/ \E k \in Calls : CallEnds(k)
           \/ \E s \in Sessions, ok \in BOOLEAN : OpenEnds(s, ok)
           \/ \E d \in Clients : LoseConnection(d) \/ \E k \in Calls : CallService(d, k)
  <2>1. closer' = closer
    BY <1>6 DEF RequestStep, StartRequest, StartRemoval, RemovalCloses, RemovalEnds, StartRelease,
           EndRelease, HandleEnds, CallEnds, OpenEnds, LoseConnection, CallService
  <2> QED
    BY <2>1
<1> QED
  BY <1>2, <1>3, <1>4, <1>5, <1>6 DEF Next, Progress, CloseStep

Reached == {"operations", "releases", "handles", "closed"}

LEMMA FinalStep ==
  ASSUME TypeOK, QueuesAreOwn, StepsMatch, RequestsAreFresh, ClosesAreFinal, Next
  PROVE  ClosesAreFinal'
<1>1. /\ closer \in Closer /\ closer' \in Closer
      /\ \A c \in Clients : closer.left[c] \in Nat /\ closer'.left[c] \in Nat
      /\ \A c \in Clients : Len(queue[c]) \in Nat /\ Len(queue'[c]) \in Nat
      /\ \A h \in HostedHandles : Members(h) \subseteq Ids
  <2>1. closer \in Closer /\ closer' \in Closer
    BY CloserTypes DEF TypeOK, WorkTypeOK
  <2>2. \A c \in Clients : Len(queue[c]) \in Nat /\ Len(queue'[c]) \in Nat
    BY QueueSteps, LenProperties DEF TypeOK, WorkTypeOK
  <2> QED
    BY <2>1, <2>2 DEF Closer, Members
<1>2. ASSUME closer'.at \in Reached, NEW c \in Clients, NEW j \in 1 .. Len(queue'[c]),
             queue'[c][j].op = "attach"
      PROVE  j <= closer'.left[c]
  <2>1. CASE CloseConnections
    <3>1. closer'.left = [d \in Clients |-> Len(queue'[d])]
      BY <2>1 DEF CloseConnections
    <3> QED
      BY <1>1, <1>2, <3>1
  <2>2. CASE ~CloseConnections
    <3>1. closer.at \in Reached
      BY <1>2, <2>2, CloserSteps DEF Reached
    <3>2. \A i \in 1 .. Len(queue[c]) : queue[c][i].op = "attach" => i <= closer.left[c]
      BY <3>1 DEF ClosesAreFinal, Reached
    <3>3. CASE Pops(c)
      <4>1. Len(queue'[c]) = Len(queue[c]) - 1 /\ queue'[c][j] = queue[c][j + 1]
        BY <1>2, <3>3 DEF Pops
      <4>2. j + 1 \in 1 .. Len(queue[c]) /\ j \in Nat
        BY <1>1, <4>1
      <4>3. j + 1 <= closer.left[c]
        BY <1>2, <3>2, <4>1, <4>2
      <4>4. closer'.left[c] = closer.left[c] \/ closer'.left[c] = closer.left[c] - 1
        BY <1>1, <2>2, <4>2, <4>3, LeftSteps
      <4> QED
        BY <1>1, <4>2, <4>3, <4>4
    <3>4. CASE queue'[c] = queue[c]
      <4>1. ~Pops(c)
        BY <1>1, <3>4 DEF Pops
      <4>2. closer'.left[c] = closer.left[c]
        BY <2>2, <4>1, LeftSteps
      <4> QED
        BY <1>2, <3>2, <3>4, <4>2
    <3>5. ASSUME NEW e, Pushes(c, e), e.op # "attach"
          PROVE  j <= closer'.left[c]
      <4>1. ~Pops(c)
        BY <1>1, <3>5 DEF Pops, Pushes
      <4>2. closer'.left[c] = closer.left[c]
        BY <2>2, <4>1, LeftSteps
      <4>3. j \in 1 .. Len(queue[c])
        BY <1>1, <1>2, <3>5 DEF Pushes
      <4>4. queue'[c][j] = queue[c][j]
        BY <3>5, <4>3 DEF Pushes
      <4> QED
        BY <1>2, <3>2, <4>2, <4>3, <4>4
    <3>6. ASSUME NEW k \in Calls, Pushes(c, [op |-> "call", id |-> k])
          PROVE  j <= closer'.left[c]
      <4>1. [op |-> "call", id |-> k].op # "attach"
        OBVIOUS
      <4> QED
        BY <3>5, <3>6, <4>1
    <3>7. ASSUME NEW i \in Ids, request[i].kind = "attach" => closer.at = "no",
                 Pushes(c, [op |-> request[i].kind, id |-> i])
          PROVE  j <= closer'.left[c]
      <4>1. [op |-> request[i].kind, id |-> i].op # "attach"
        BY <3>1, <3>7 DEF Reached
      <4> QED
        BY <3>5, <3>7, <4>1
    <3>8. ASSUME Pushes(c, [op |-> "disconnect", id |-> 0])
          PROVE  j <= closer'.left[c]
      <4>1. [op |-> "disconnect", id |-> 0].op # "attach"
        OBVIOUS
      <4> QED
        BY <3>5, <3>8, <4>1
    <3> QED
      BY <3>3, <3>4, <3>6, <3>7, <3>8, QueueSteps
  <2> QED
    BY <2>1, <2>2
<1>3. ASSUME closer'.at \in {"releases", "handles", "closed"}, NEW c \in Clients
      PROVE  closer'.left[c] = 0
  <2>1. closer.left[c] = 0
    <3>1. CASE CloseReleases
      BY <3>1 DEF CloseReleases
    <3>2. CASE ~CloseReleases
      <4>1. closer.at \in {"releases", "handles", "closed"}
        BY <1>3, <3>2, CloserSteps
      <4> QED
        BY <4>1 DEF ClosesAreFinal
    <3> QED
      BY <3>1, <3>2
  <2>2. ~CloseConnections
    BY <1>3 DEF CloseConnections
  <2> QED
    BY <2>1, <2>2, LeftSteps
<1>4. ASSUME closer.at \in {"operations", "releases", "handles", "closed"}, NEW s \in Sessions,
             hosted'[s] # 0
      PROVE  hosted'[s] = hosted[s]
  <2>1. Closing
    BY <1>4 DEF Closing
  <2> QED
    BY <1>4, <2>1, HostedSteps
<1>5. ASSUME closer'.at = "releases", NEW s \in Sessions, hosted'[s] # 0,
             NEW a \in Ids, att'[a].member, att'[a].handle = hosted'[s]
      PROVE  a \in closer'.atts
  <2>1. closer.at \in {"operations", "releases"} /\ hosted'[s] = hosted[s]
    <3>1. closer.at \in {"operations", "releases"}
      BY <1>5, CloserSteps
    <3> QED
      BY <1>4, <1>5, <3>1
  <2>2. ASSUME NEW c \in Clients, AskLease(c), At(c, "attach", step[c].at)
        PROVE  FALSE
    <3>1. closer' = closer
      BY <2>2 DEF AskLease, Move
    <3>2. closer.at = "releases" /\ closer.left[c] = 0
      BY <1>5, <3>1 DEF ClosesAreFinal
    <3>3. queue[c][1].op = "attach" /\ 1 \in 1 .. Len(queue[c])
      BY <2>2, AttachAt, HeadIsOwn
    <3>4. 1 <= closer.left[c]
      BY <3>2, <3>3 DEF ClosesAreFinal
    <3> QED
      BY <3>2, <3>4
  <2>3. a \in Members(hosted[s])
    BY <1>5, <2>1, <2>2, MembersStep DEF Members, Kept
  <2>4. CASE CloseReleases /\ closer'.atts = UNION {Members(h) : h \in HostedHandles}
    BY <1>5, <2>1, <2>3, <2>4 DEF HostedHandles
  <2>5. CASE closer'.at = closer.at /\ closer'.atts = closer.atts
    BY <1>5, <2>1, <2>3, <2>5 DEF ClosesAreFinal
  <2> QED
    BY <1>5, <2>4, <2>5, CloserSteps
<1>6. ASSUME closer'.at = "handles", NEW s \in Sessions, hosted'[s] # 0
      PROVE  hosted'[s] \in closer'.atts
  <2>1. closer.at \in {"releases", "handles"}
    BY <1>6, CloserSteps
  <2>2. hosted'[s] = hosted[s] /\ hosted[s] \in HostedHandles
    BY <1>4, <1>6, <2>1 DEF HostedHandles
  <2> QED
    BY <1>6, <2>2, CloserSteps DEF ClosesAreFinal
<1> QED
  BY <1>2, <1>3, <1>5, <1>6 DEF ClosesAreFinal, Reached, HostedHandles, Members

LEMMA ClosedStep ==
  ASSUME TypeOK, QueuesAreOwn, StepsMatch, HostsMatch, ClosesAreFinal, ClosedServerHoldsNothing, Next
  PROVE  ClosedServerHoldsNothing'
<1>1. /\ handle \in [Ids -> {"none", "open", "closing", "closed"}]
      /\ \A h \in Ids : SessionOf(h) \in Sessions
      /\ 0 \notin Ids
  BY RequestTypes DEF TypeOK, HostTypeOK, Ids
<1>2. CASE CloseEnds /\ closer.at = "handles"
  <2>1. \A s \in Sessions : hosted[s] # 0 => hosted[s] \in closer.atts
    BY <1>2 DEF ClosesAreFinal, HostedHandles
  <2>2. \A s \in Sessions : hosted'[s] = 0
    BY <1>2, <2>1 DEF CloseEnds
  <2>3. ASSUME NEW h \in Ids
        PROVE  handle[h] \in {"none", "closed"}
    <3>1. handle[h] \in {"open", "closing"} => h \in closer.atts
      BY <1>1, <2>1 DEF HostsMatch
    <3>2. h \in closer.atts => handle[h] = "closed"
      BY <1>2 DEF CloseEnds
    <3> QED
      BY <1>1, <3>1, <3>2
  <2>4. handle' = handle
    BY <1>2 DEF CloseEnds
  <2> QED
    BY <2>2, <2>3, <2>4 DEF ClosedServerHoldsNothing
<1>3. CASE closer.at = "closed"
  <2>1. Closing
    BY <1>3 DEF Closing
  <2>2. /\ \A h \in Ids : handle[h] \in {"none", "closed"}
        /\ \A s \in Sessions : hosted[s] = 0
    BY <1>3 DEF ClosedServerHoldsNothing
  <2>3. \A h \in Ids : handle'[h] \in {"none", "closed"}
    BY <2>1, <2>2, HandleSteps
  <2>4. \A s \in Sessions : hosted'[s] = 0
    BY <2>1, <2>2, HostedSteps
  <2> QED
    BY <2>3, <2>4 DEF ClosedServerHoldsNothing
<1>4. closer'.at = "closed" => closer.at = "closed" \/ (CloseEnds /\ closer.at = "handles")
  BY CloserSteps
<1> QED
  BY <1>2, <1>3, <1>4 DEF ClosedServerHoldsNothing

----------------------------------------------------------------------------
(* The theorems.                                                            *)

LEMMA RouterInit == Init => TypeOK /\ RouterInvariant
<1> SUFFICES ASSUME Init PROVE TypeOK /\ RouterInvariant
  OBVIOUS
<1>1. AskTypeOK
  BY DEF Init, AskTypeOK
<1>2. \A c \in Clients : queue[c] = <<>> /\ Len(queue[c]) = 0 /\ queue[c] \in Seq(Operation)
  BY EmptySeq DEF Init
<1>3. /\ Ready \in Progresses /\ NoCall \in CallType /\ NoRemoval \in Removal /\ NoClose \in Closer
      /\ NoAttachment \in Attachment
  BY DEF Ready, Progresses, NoCall, CallType, NoRemoval, Removal, NoClose, Closer, NoAttachment,
         Attachment, IdOrNone
<1>4. WorkTypeOK
  <2>1. queue \in [Clients -> Seq(Operation)]
    BY <1>2 DEF Init
  <2> QED
    BY <1>3, <2>1 DEF Init, WorkTypeOK
<1>5. HostTypeOK
  BY <1>3 DEF Init, HostTypeOK, IdOrNone
<1>6. /\ \A c \in Clients : step[c] = Ready /\ current[c] = 0
      /\ \A a \in Ids : att[a] = NoAttachment /\ handle[a] = "none" /\ removal[a] = NoRemoval
      /\ \A s \in Sessions : hosted[s] = 0 /\ opening[s] = 0
      /\ \A k \in Calls : call[k] = NoCall
      /\ closer.at = "no" /\ 0 \notin Ids /\ deleted = {} /\ waiting = Ids
  BY DEF Init, NoClose, Ids
<1>7. QueuesAreOwn
  BY <1>2 DEF QueuesAreOwn
<1>8. StepsMatch
  BY <1>6 DEF StepsMatch, Ready
<1>9. RequestsAreFresh
  BY <1>2, <1>6 DEF RequestsAreFresh, NoAttachment, NoRemoval
<1>10. AttachmentsMatch
  BY <1>6 DEF AttachmentsMatch, NoAttachment
<1>11. CurrentIsOwn
  BY <1>6 DEF CurrentIsOwn
<1>12. ReleasesHoldCalls
  BY <1>6 DEF ReleasesHoldCalls, NoAttachment
<1>13. HostsMatch
  BY <1>6 DEF HostsMatch
<1>14. RemovalsAreAlone
  <2>1. \A i \in Ids : removal[i].at = "none"
    BY <1>6 DEF NoRemoval
  <2> QED
    BY <1>6, <2>1 DEF RemovalsAreAlone, Removing, Busy
<1>15. ClosesAreFinal
  BY <1>6 DEF ClosesAreFinal
<1>16. ClosingHasCause /\ ClosedServerHoldsNothing /\ RemovalReleasesFirst
  BY <1>6 DEF ClosingHasCause, ClosedServerHoldsNothing, RemovalReleasesFirst, NoAttachment
<1> QED
  BY <1>1, <1>4, <1>5, <1>7, <1>8, <1>9, <1>10, <1>11, <1>12, <1>13, <1>14, <1>15, <1>16
     DEF TypeOK, RouterInvariant

LEMMA RouterNext == TypeOK /\ RouterInvariant /\ [Next]_vars => TypeOK' /\ RouterInvariant'
<1> SUFFICES ASSUME TypeOK, RouterInvariant, [Next]_vars PROVE TypeOK' /\ RouterInvariant'
  OBVIOUS
<1> USE DEF RouterInvariant
<1>1. CASE Next
  BY <1>1, KeepsTypes, QueuesOwnStep, StepsStep, FreshStep, AttachmentsStep, CurrentStep, HoldStep,
     HostsStep, RemovalsStep, CauseStep, RemovalFirstStep, FinalStep, ClosedStep
<1>2. CASE UNCHANGED vars
  <2> USE <1>2 DEF vars, connVars, askVars, workVars
  <2>1. TypeOK'
    BY DEF TypeOK, AskTypeOK, WorkTypeOK, HostTypeOK
  <2>2. QueuesAreOwn' /\ StepsMatch' /\ RequestsAreFresh'
    BY DEF QueuesAreOwn, StepsMatch, RequestsAreFresh
  <2>3. AttachmentsMatch' /\ CurrentIsOwn' /\ ReleasesHoldCalls'
    BY DEF AttachmentsMatch, CurrentIsOwn, ReleasesHoldCalls, Running, Closing
  <2>4. HostsMatch' /\ ClosesAreFinal'
    BY DEF HostsMatch, ClosesAreFinal, SessionOf, Members, HostedHandles
  <2>5. RemovalsAreAlone'
    BY DEF RemovalsAreAlone, Removing, Busy, Members
  <2>6. ClosingHasCause' /\ ClosedServerHoldsNothing' /\ RemovalReleasesFirst'
    BY DEF ClosingHasCause, ClosedServerHoldsNothing, RemovalReleasesFirst, SessionOf
  <2> QED
    BY <2>1, <2>2, <2>3, <2>4, <2>5, <2>6
<1> QED
  BY <1>1, <1>2

LEMMA RouterInductive == Spec => [](TypeOK /\ RouterInvariant)
BY RouterInit, RouterNext, PTL DEF Spec

\* Every variable keeps its type, through every interleaving of connections,
\* removals, ends of workers and the close (server/session-router.ts).
THEOREM RouterTypesHold == Spec => []TypeOK
BY RouterInductive, PTL

\* However attaches, removals and ends of workers meet, a Session has one live
\* handle: it is the one that hosts it.
THEOREM HandlesAreSingle == Spec => []OneHandlePerSession
<1>1. TypeOK /\ RouterInvariant => OneHandlePerSession
  BY DEF RouterInvariant, HostsMatch, OneHandlePerSession
<1> QED
  BY <1>1, RouterInductive, PTL

\* The lease of a connection that was lost, left or moved, or of a server that
\* closes, is given back after the calls that were admitted through it.
THEOREM ReleasesWait == Spec => []ReleaseWaitsForCalls
<1>1. TypeOK /\ RouterInvariant => ReleaseWaitsForCalls
  <2> SUFFICES ASSUME TypeOK, RouterInvariant, NEW a \in Ids, att[a].lease = "released",
                      Running(a) # {}
               PROVE  att[a].why \in {"removed", "ended"}
    BY DEF ReleaseWaitsForCalls
  <2>1. att[a] \in Attachment
    BY DEF TypeOK, HostTypeOK
  <2>2. att[a].release \in {"releasing", "done", "failed"} /\ att[a].waits = {}
    BY <2>1 DEF RouterInvariant, AttachmentsMatch, Attachment
  <2>3. att[a].why \notin {"none", "left", "closed"}
    BY <2>2 DEF RouterInvariant, ReleasesHoldCalls
  <2> QED
    BY <2>1, <2>3 DEF Attachment
<1> QED
  BY <1>1, RouterInductive, PTL

\* An application that answers management calls in turn deletes the metadata of a
\* Session after its attachments are released and its handle is closed.
THEOREM RemovalsReleaseFirst == Spec => []RemovalReleasesFirst
BY RouterInductive, PTL DEF RouterInvariant

\* A server that has closed hosts nothing, and no handle is live, whatever was
\* opening when it began to close.
THEOREM ClosedHoldsNothing == Spec => []ClosedServerHoldsNothing
BY RouterInductive, PTL DEF RouterInvariant
=============================================================================

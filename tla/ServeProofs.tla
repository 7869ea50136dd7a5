---------------------------- MODULE ServeProofs ----------------------------
(***************************************************************************)
(* Proofs about Serve.tla, for every number of requests, notifications,    *)
(* waiting messages, check results and files.                              *)
(***************************************************************************)
EXTENDS Serve, SequenceTheorems, TLAPS

-----------------------------------------------------------------------------
(* Type correctness.                                                        *)

\* Every initial state has its types.
LEMMA InitType == Init => TypeOK
<1>. SUFFICES ASSUME Init PROVE TypeOK
  OBVIOUS
<1>. USE ServeAssumption DEF ServeAssumption, Init, Request
<1>1. ClientTypeOK
  BY DEF ClientTypeOK
<1>2. LoopTypeOK
  BY DEF LoopTypeOK
<1>3. PassTypeOK
  BY DEF PassTypeOK
<1>4. AnswerTypeOK
  BY DEF AnswerTypeOK
<1>. QED
  BY <1>1, <1>2, <1>3, <1>4 DEF TypeOK

\* The client leaves the server's state alone.
LEMMA ClientAlone == Client => UNCHANGED serverVars
BY DEF Client, SendRequest, SendNote, SendCancel, SendResponse, SendExit, Disconnect

\* A message the client sends goes to the end of the connection.
LEMMA SendType ==
    ASSUME ClientTypeOK, NEW kind, NEW id, NEW note, Send(kind, id, note),
           [kind |-> kind, id |-> id, note |-> note, at |-> notes] \in Message
    PROVE  inbox' \in Seq(Message)
BY DEF Send, ClientTypeOK

\* The client keeps its own variables within their types.
LEMMA ClientType == ClientTypeOK /\ Client => ClientTypeOK'
<1>. SUFFICES ASSUME ClientTypeOK, Client PROVE ClientTypeOK'
  OBVIOUS
<1>. USE ServeAssumption DEF ServeAssumption, Request
<1>1. ASSUME NEW kind \in Requests, SendRequest(kind) PROVE ClientTypeOK'
  <2>0. lastId + 1 \in Request
    BY <1>1 DEF SendRequest, ClientTypeOK
  <2>1. [kind |-> kind, id |-> lastId + 1, note |-> NoNote, at |-> notes] \in Message
    BY <2>0 DEF Message, ClientTypeOK
  <2>2. inbox' \in Seq(Message)
    BY <1>1, <2>1, SendType DEF SendRequest
  <2>. QED
    BY <2>0, <1>1, <2>2 DEF SendRequest, ClientTypeOK
<1>2. ASSUME NEW note \in Note, SendNote(note) PROVE ClientTypeOK'
  <2>1. [kind |-> "note", id |-> 0, note |-> note, at |-> notes] \in Message
    BY DEF Message, ClientTypeOK
  <2>2. inbox' \in Seq(Message)
    BY <1>2, <2>1, SendType DEF SendNote
  <2>. QED
    BY <1>2, <2>2 DEF SendNote, ClientTypeOK
<1>3. ASSUME NEW r \in Request, SendCancel(r) PROVE ClientTypeOK'
  <2>1. [kind |-> "cancel", id |-> r, note |-> NoNote, at |-> notes] \in Message
    BY DEF Message, ClientTypeOK
  <2>2. inbox' \in Seq(Message)
    BY <1>3, <2>1, SendType DEF SendCancel
  <2>. QED
    BY <1>3, <2>2 DEF SendCancel, ClientTypeOK
<1>4. ASSUME SendResponse PROVE ClientTypeOK'
  <2>1. [kind |-> "response", id |-> 0, note |-> NoNote, at |-> notes] \in Message
    BY DEF Message, ClientTypeOK
  <2>2. inbox' \in Seq(Message)
    BY <1>4, <2>1, SendType DEF SendResponse
  <2>. QED
    BY <1>4, <2>2 DEF SendResponse, ClientTypeOK
<1>5. ASSUME SendExit PROVE ClientTypeOK'
  <2>1. [kind |-> "exit", id |-> 0, note |-> NoNote, at |-> notes] \in Message
    BY DEF Message, ClientTypeOK
  <2>2. inbox' \in Seq(Message)
    BY <1>5, <2>1, SendType DEF SendExit
  <2>. QED
    BY <1>5, <2>2 DEF SendExit, ClientTypeOK
<1>6. ASSUME Disconnect PROVE ClientTypeOK'
  BY <1>6 DEF Disconnect, ClientTypeOK
<1>. QED
  BY <1>1, <1>2, <1>3, <1>4, <1>5, <1>6 DEF Client

\* A request has the number of one.
LEMMA RequestId ==
    ASSUME NEW m \in Message, m.kind \in Requests
    PROVE  m.id \in Request
BY DEF Message, Requests

\* What it takes to take a message off the queue.
LEMMA PopType ==
    ASSUME TypeOK, NEW kinds, Pop(kinds)
    PROVE  /\ Head(queue) \in Message
           /\ queue' \in Seq(Message)
           /\ results' \in Seq(Checked)
           /\ ClientTypeOK' /\ PassTypeOK'
<1>. USE DEF TypeOK, Pop
<1>1. queue \in Seq(Message) /\ queue # <<>> /\ queue' = Tail(queue)
  BY DEF LoopTypeOK
<1>2. Head(queue) \in Message /\ queue' \in Seq(Message)
  BY <1>1
<1>3. results' \in Seq(Checked)
  BY DEF LoopTypeOK
<1>4. ClientTypeOK'
  BY DEF ClientTypeOK, clientVars
<1>5. PassTypeOK'
  BY DEF PassTypeOK, passVars
<1>. QED
  BY <1>2, <1>3, <1>4, <1>5

\* Answering, from the loop and from a pass.
LEMMA ReplyType ==
    ASSUME AnswerTypeOK, NEW id \in Request, Reply(id)
    PROVE  replies' \in [Request -> Nat]
BY DEF AnswerTypeOK, Reply

\* Remembering what a request saw keeps the memory within its type.
LEMMA SawType ==
    ASSUME AnswerTypeOK, LoopTypeOK, NEW id \in Request, Saw(id)
    PROVE  seen' \in [Request -> Nat \cup {Unserved}]
BY DEF AnswerTypeOK, LoopTypeOK, Saw

\* So does answering a request.
LEMMA AnswerType ==
    ASSUME AnswerTypeOK, LoopTypeOK, NEW kind, NEW id \in Request, Answer(kind, id)
    PROVE  AnswerTypeOK' /\ left' \in 0 .. Files
<1>1. seen' \in [Request -> Nat \cup {Unserved}]
  BY SawType DEF Answer
<1>2. replies' \in [Request -> Nat]
  BY ReplyType DEF Answer, AnswerTypeOK
<1>3. formatting' \subseteq Request
  BY DEF Answer, AnswerTypeOK
<1>4. left' \in 0 .. Files
  BY ServeAssumption DEF ServeAssumption, Answer, Filled, LoopTypeOK
<1>. QED
  BY <1>1, <1>2, <1>3, <1>4 DEF AnswerTypeOK

\* The loop.
LEMMA LoopType == TypeOK /\ Loop => TypeOK'
<1>. SUFFICES ASSUME TypeOK, Loop PROVE TypeOK'
  OBVIOUS
<1>. USE DEF TypeOK
<1>1. ASSUME Receive PROVE TypeOK'
  <2>1. /\ inbox \in Seq(Message) /\ queue \in Seq(Message) /\ inbox # <<>>
        /\ inbox' = Tail(inbox) /\ queue' = Append(queue, Head(inbox))
    BY <1>1 DEF Receive, ClientTypeOK, LoopTypeOK
  <2>2. inbox' \in Seq(Message) /\ queue' \in Seq(Message)
    BY <2>1
  <2>3. ClientTypeOK'
    BY <1>1, <2>2 DEF Receive, ClientTypeOK
  <2>4. LoopTypeOK'
    BY <1>1, <2>2 DEF Receive, LoopTypeOK
  <2>5. PassTypeOK'
    BY <1>1 DEF Receive, PassTypeOK, passVars
  <2>6. AnswerTypeOK'
    BY <1>1 DEF Receive, AnswerTypeOK, answerVars
  <2>. QED
    BY <2>3, <2>4, <2>5, <2>6
<1>2. ASSUME RefuseCancelled PROVE TypeOK'
  <2>1. Head(queue) \in Message /\ Head(queue).kind \in Requests
    BY <1>2, PopType DEF RefuseCancelled, Pop
  <2>2. replies' \in [Request -> Nat]
    BY <1>2, <2>1, RequestId, ReplyType DEF RefuseCancelled
  <2>3. AnswerTypeOK'
    BY <1>2, <2>2 DEF RefuseCancelled, AnswerTypeOK
  <2>4. LoopTypeOK'
    BY <1>2, PopType DEF RefuseCancelled, LoopTypeOK
  <2>. QED
    BY <1>2, <2>3, <2>4, PopType DEF RefuseCancelled
<1>3. ASSUME ServeRequest PROVE TypeOK'
  <2>1. Head(queue) \in Message /\ Head(queue).kind \in Requests
    BY <1>3, PopType DEF ServeRequest, Pop, Requests
  <2>2. AnswerTypeOK' /\ left' \in 0 .. Files
    BY <1>3, <2>1, RequestId, AnswerType DEF ServeRequest
  <2>3. LoopTypeOK'
    BY <1>3, <2>2, PopType DEF ServeRequest, LoopTypeOK
  <2>. QED
    BY <1>3, <2>2, <2>3, PopType DEF ServeRequest
<1>4. ASSUME ServeShutdown PROVE TypeOK'
  <2>1. Head(queue) \in Message /\ Head(queue).kind \in Requests
    BY <1>4, PopType DEF ServeShutdown, Pop, Requests
  <2>2. replies' \in [Request -> Nat] /\ seen' \in [Request -> Nat \cup {Unserved}]
    BY <1>4, <2>1, RequestId, ReplyType, SawType DEF ServeShutdown
  <2>3. AnswerTypeOK'
    BY <1>4, <2>2 DEF ServeShutdown, AnswerTypeOK
  <2>4. LoopTypeOK'
    BY <1>4, PopType DEF ServeShutdown, LoopTypeOK
  <2>. QED
    BY <1>4, <2>3, <2>4, PopType DEF ServeShutdown
<1>5. ASSUME LeaveAfterShutdown PROVE TypeOK'
  BY <1>5 DEF LeaveAfterShutdown, ClientTypeOK, LoopTypeOK, PassTypeOK, AnswerTypeOK,
     clientVars, passVars, answerVars
<1>6. ASSUME Notify PROVE TypeOK'
  <2>1. AnswerTypeOK'
    BY <1>6 DEF Notify, AnswerTypeOK, answerVars
  <2>2. left' \in 0 .. Files /\ applied' \in Nat
    BY <1>6, ServeAssumption DEF ServeAssumption, Notify, Dropped, LoopTypeOK
  <2>3. LoopTypeOK'
    BY <1>6, <2>2, PopType DEF Notify, LoopTypeOK
  <2>. QED
    BY <1>6, <2>1, <2>3, PopType DEF Notify
<1>7. ASSUME Ignore PROVE TypeOK'
  <2>1. AnswerTypeOK'
    BY <1>7 DEF Ignore, AnswerTypeOK, answerVars
  <2>2. LoopTypeOK'
    BY <1>7, PopType DEF Ignore, LoopTypeOK
  <2>. QED
    BY <1>7, <2>1, <2>2, PopType DEF Ignore
<1>8. ASSUME Publish PROVE TypeOK'
  <2>1. ClientTypeOK' /\ PassTypeOK' /\ AnswerTypeOK'
    BY <1>8 DEF Publish, ClientTypeOK, PassTypeOK, AnswerTypeOK, clientVars, passVars, answerVars
  <2>2. results' \in Seq(Checked)
    BY <1>8 DEF Publish, LoopTypeOK
  <2>3. left' \in 0 .. Files
    BY <1>8, ServeAssumption DEF ServeAssumption, Publish, Dropped, LoopTypeOK
  <2>4. LoopTypeOK'
    BY <1>8, <2>2, <2>3 DEF Publish, LoopTypeOK
  <2>. QED
    BY <2>1, <2>4
<1>9. ASSUME ClientGone PROVE TypeOK'
  BY <1>9 DEF ClientGone, ClientTypeOK, LoopTypeOK, PassTypeOK, AnswerTypeOK,
     clientVars, passVars, answerVars
<1>. QED
  BY <1>1, <1>2, <1>3, <1>4, <1>5, <1>6, <1>7, <1>8, <1>9 DEF Loop

\* What it takes to take a message off the connection while a pass runs.
LEMMA OverhearType ==
    ASSUME TypeOK, NEW kinds, Overhear(kinds)
    PROVE  /\ Head(inbox) \in Message
           /\ ClientTypeOK'
           /\ pc' = pc /\ projectStale' = projectStale /\ applied' = applied
           /\ results' = results /\ walk' = walk
<1>. USE DEF TypeOK, Overhear
<1>1. inbox \in Seq(Message) /\ inbox # <<>> /\ inbox' = Tail(inbox)
  BY DEF ClientTypeOK
<1>2. Head(inbox) \in Message /\ inbox' \in Seq(Message)
  BY <1>1
<1>3. ClientTypeOK'
  BY <1>2 DEF ClientTypeOK
<1>. QED
  BY <1>2, <1>3

\* The pass.
LEMMA PassType == TypeOK /\ Pass => TypeOK'
<1>. SUFFICES ASSUME TypeOK, Pass PROVE TypeOK'
  OBVIOUS
<1>. USE DEF TypeOK
<1>1. ASSUME PublishUninferred PROVE TypeOK'
  BY <1>1 DEF PublishUninferred, ClientTypeOK, LoopTypeOK, PassTypeOK, AnswerTypeOK,
     passVars, answerVars
<1>2. ASSUME BeginPass PROVE TypeOK'
  BY <1>2 DEF BeginPass, ClientTypeOK, LoopTypeOK, PassTypeOK, AnswerTypeOK,
     clientVars, answerVars
<1>3. ASSUME PickFile PROVE TypeOK'
  BY <1>3 DEF PickFile, ClientTypeOK, LoopTypeOK, PassTypeOK, AnswerTypeOK,
     clientVars, answerVars
<1>4. ASSUME ReadFile PROVE TypeOK'
  <2>1. left' \in 0 .. Files
    BY <1>4, ServeAssumption DEF ServeAssumption, ReadFile, LoopTypeOK
  <2>. QED
    BY <1>4, <2>1 DEF ReadFile, ClientTypeOK, LoopTypeOK, PassTypeOK, AnswerTypeOK,
       clientVars, answerVars
<1>5. ASSUME EndWalk PROVE TypeOK'
  BY <1>5 DEF EndWalk, ClientTypeOK, LoopTypeOK, PassTypeOK, AnswerTypeOK,
     clientVars, answerVars
<1>6. ASSUME AnswerInferring PROVE TypeOK'
  <2>1. Head(inbox) \in Message /\ Head(inbox).kind \in Requests
    BY <1>6, OverhearType DEF AnswerInferring, Overhear, Requests
  <2>2. AnswerTypeOK' /\ left' \in 0 .. Files
    BY <1>6, <2>1, RequestId, AnswerType DEF AnswerInferring
  <2>3. LoopTypeOK' /\ PassTypeOK'
    BY <1>6, <2>2, OverhearType DEF AnswerInferring, LoopTypeOK, PassTypeOK
  <2>. QED
    BY <1>6, <2>2, <2>3, OverhearType DEF AnswerInferring
<1>7. ASSUME IgnoreInferring PROVE TypeOK'
  <2>1. LoopTypeOK' /\ PassTypeOK' /\ AnswerTypeOK'
    BY <1>7, OverhearType DEF IgnoreInferring, LoopTypeOK, PassTypeOK, AnswerTypeOK, answerVars
  <2>. QED
    BY <1>7, <2>1, OverhearType DEF IgnoreInferring
<1>8. ASSUME StopForMessage PROVE TypeOK'
  <2>1. queue' \in Seq(Message)
    BY <1>8, OverhearType DEF StopForMessage, LoopTypeOK
  <2>2. LoopTypeOK' /\ PassTypeOK' /\ AnswerTypeOK'
    BY <1>8, <2>1, OverhearType DEF StopForMessage, LoopTypeOK, PassTypeOK, AnswerTypeOK,
       answerVars
  <2>. QED
    BY <1>8, <2>2, OverhearType DEF StopForMessage
<1>9. ASSUME StopForCheck PROVE TypeOK'
  BY <1>9 DEF StopForCheck, ClientTypeOK, LoopTypeOK, PassTypeOK, AnswerTypeOK,
     clientVars, answerVars
<1>10. ASSUME StopForNobody PROVE TypeOK'
  BY <1>10 DEF StopForNobody, ClientTypeOK, LoopTypeOK, PassTypeOK, AnswerTypeOK,
     clientVars, answerVars
<1>11. ASSUME EndPass PROVE TypeOK'
  BY <1>11 DEF EndPass, ClientTypeOK, LoopTypeOK, PassTypeOK, AnswerTypeOK, answerVars
<1>. QED
  BY <1>1, <1>2, <1>3, <1>4, <1>5, <1>6, <1>7, <1>8, <1>9, <1>10, <1>11 DEF Pass

\* A formatting thread, the checker, and a step that changes nothing.
LEMMA FormatDoneType ==
    ASSUME TypeOK, NEW r \in Request, FormatDone(r)
    PROVE  TypeOK'
<1>1. AnswerTypeOK'
  BY ReplyType DEF FormatDone, TypeOK, AnswerTypeOK
<1>. QED
  BY <1>1 DEF FormatDone, TypeOK, ClientTypeOK, LoopTypeOK, PassTypeOK, clientVars, passVars

\* Nor does a check that comes back.
LEMMA CheckDoneType ==
    ASSUME TypeOK, NEW checked \in Checked, CheckDone(checked)
    PROVE  TypeOK'
BY DEF CheckDone, TypeOK, ClientTypeOK, LoopTypeOK, PassTypeOK, AnswerTypeOK,
   clientVars, passVars, answerVars

\* A stuttering step disturbs no type.
LEMMA StutterType == TypeOK /\ UNCHANGED vars => TypeOK'
BY DEF TypeOK, ClientTypeOK, LoopTypeOK, PassTypeOK, AnswerTypeOK, vars

\* The steps of the system, however many checks wait to be published: nothing below
\* rests on that bound.
Unbounded == Next \/ \E checked \in Checked : CheckDone(checked)

\* The type invariant is inductive.
LEMMA NextType == TypeOK /\ [Unbounded]_vars => TypeOK'
<1>. SUFFICES ASSUME TypeOK, [Unbounded]_vars PROVE TypeOK'
  OBVIOUS
<1>1. ASSUME Client PROVE TypeOK'
  <2>1. LoopTypeOK' /\ PassTypeOK' /\ AnswerTypeOK'
    BY <1>1, ClientAlone DEF TypeOK, LoopTypeOK, PassTypeOK, AnswerTypeOK,
       serverVars, loopVars, passVars, answerVars
  <2>. QED
    BY <1>1, <2>1, ClientType DEF TypeOK
<1>2. ASSUME Terminated PROVE TypeOK'
  BY <1>2, StutterType DEF Terminated
<1>. QED
  BY <1>1, <1>2, LoopType, PassType, FormatDoneType, CheckDoneType, StutterType
     DEF Unbounded, Next, CheckReturns

\* Every variable of the loop keeps its type: the queue and the connection hold
\* messages, a request answered or formatted is one that can be asked, and the
\* number of components left to infer never leaves its range, however requests
\* and the pass infer beside each other.
THEOREM TypeCorrect == Spec => []TypeOK
<1>1. TypeOK /\ [Next]_vars => TypeOK'
  BY NextType DEF Unbounded
<1>. QED
  BY <1>1, InitType, PTL DEF Spec

-----------------------------------------------------------------------------
(* The messages on their way: what each step does to the stream.            *)

\* What is on its way is a sequence of messages.
LEMMA StreamType ==
    ASSUME TypeOK
    PROVE  /\ queue \in Seq(Message) /\ inbox \in Seq(Message) /\ Stream \in Seq(Message)
           /\ Len(Stream) = Len(queue) + Len(inbox)
           /\ \A i \in 1 .. Len(Stream) :
                 Stream[i] = IF i <= Len(queue) THEN queue[i] ELSE inbox[i - Len(queue)]
<1>1. queue \in Seq(Message) /\ inbox \in Seq(Message)
  BY DEF TypeOK, ClientTypeOK, LoopTypeOK
<1>. QED
  BY <1>1, ConcatProperties DEF Stream

\* The loop takes the first message of the stream.
LEMMA PopStream ==
    ASSUME TypeOK, NEW kinds, Pop(kinds)
    PROVE  Stream # <<>> /\ Stream' = Tail(Stream) /\ Stream[1] = Head(queue)
<1>. DEFINE s == Tail(queue) \o inbox
<1>1. queue \in Seq(Message) /\ inbox \in Seq(Message) /\ queue # <<>>
  BY StreamType DEF Pop
<1>2. /\ Tail(queue) \in Seq(Message) /\ Len(Tail(queue)) = Len(queue) - 1
      /\ \A i \in 1 .. Len(Tail(queue)) : Tail(queue)[i] = queue[i + 1]
      /\ Len(queue) \in Nat \ {0} /\ Len(inbox) \in Nat
  BY <1>1, HeadTailProperties, LenProperties, EmptySeq
<1>3. /\ s \in Seq(Message) /\ Len(s) = Len(queue) - 1 + Len(inbox)
      /\ \A i \in 1 .. Len(s) :
            s[i] = IF i <= Len(queue) - 1 THEN queue[i + 1] ELSE inbox[i - (Len(queue) - 1)]
  <2>1. /\ s \in Seq(Message) /\ Len(s) = Len(Tail(queue)) + Len(inbox)
        /\ \A i \in 1 .. Len(Tail(queue)) + Len(inbox) :
              s[i] = IF i <= Len(Tail(queue)) THEN Tail(queue)[i]
                     ELSE inbox[i - Len(Tail(queue))]
    BY <1>1, <1>2, ConcatProperties
  <2>. QED
    BY <1>2, <2>1
<1>4. /\ Stream # <<>> /\ Tail(Stream) \in Seq(Message) /\ Len(Tail(Stream)) = Len(Stream) - 1
      /\ \A i \in 1 .. Len(Tail(Stream)) : Tail(Stream)[i] = Stream[i + 1]
  BY <1>2, StreamType, HeadTailProperties, EmptySeq
<1>5. Stream' = s
  BY DEF Stream, Pop, clientVars
<1>. HIDE DEF s
<1>6. Len(s) = Len(Tail(Stream))
  <2>1. Len(Stream) = Len(queue) + Len(inbox)
    BY StreamType
  <2>2. Len(s) = Len(queue) - 1 + Len(inbox) /\ Len(Tail(Stream)) = Len(Stream) - 1
    BY <1>3, <1>4
  <2>3. Len(queue) \in Nat /\ Len(inbox) \in Nat
    BY <1>2
  <2>. QED
    BY <2>1, <2>2, <2>3
<1>7. ASSUME NEW i \in 1 .. Len(s) PROVE s[i] = Tail(Stream)[i]
  <2>1. Tail(Stream)[i] = Stream[i + 1] /\ i + 1 \in 1 .. Len(Stream)
    BY <1>2, <1>3, <1>4, <1>6, <1>7, StreamType
  <2>2. Stream[i + 1] = IF i + 1 <= Len(queue) THEN queue[i + 1] ELSE inbox[i + 1 - Len(queue)]
    BY <2>1, StreamType
  <2>. QED
    BY <1>2, <1>3, <1>7, <2>1, <2>2
<1>8. s = Tail(Stream)
  BY <1>3, <1>4, <1>6, <1>7, SeqEqual
<1>9. Stream[1] = Head(queue)
  BY <1>1, <1>2, StreamType
<1>. QED
  BY <1>4, <1>5, <1>8, <1>9

\* A pass that listens takes the first message of the stream, too.
LEMMA OverhearStream ==
    ASSUME TypeOK, NothingAhead, NEW kinds, Overhear(kinds), UNCHANGED queue
    PROVE  Stream # <<>> /\ Stream' = Tail(Stream) /\ Stream[1] = Head(inbox)
<1>1. queue = <<>> /\ inbox \in Seq(Message) /\ inbox # <<>> /\ inbox' = Tail(inbox)
  BY StreamType DEF Overhear, NothingAhead
<1>2. Tail(inbox) \in Seq(Message)
  BY <1>1, HeadTailProperties
<1>3. Stream = inbox /\ Stream' = Tail(inbox)
  BY <1>1, <1>2, ConcatEmptySeq DEF Stream
<1>. QED
  BY <1>1, <1>3

\* A message that only moves from the connection to the queue leaves the stream
\* as it is.
LEMMA MoveStream ==
    ASSUME TypeOK, inbox # <<>>, inbox' = Tail(inbox), queue' = Append(queue, Head(inbox))
    PROVE  Stream' = Stream
<1>1. queue \in Seq(Message) /\ inbox \in Seq(Message) /\ Head(inbox) \in Message
  BY StreamType, HeadTailProperties
<1>2. /\ Tail(inbox) \in Seq(Message) /\ <<Head(inbox)>> \in Seq(Message)
      /\ Append(queue, Head(inbox)) = queue \o <<Head(inbox)>>
      /\ inbox = <<Head(inbox)>> \o Tail(inbox)
  BY <1>1, HeadTailProperties, AppendIsConcat
<1>3. (queue \o <<Head(inbox)>>) \o Tail(inbox) = queue \o (<<Head(inbox)>> \o Tail(inbox))
  BY <1>1, <1>2, ConcatAssociative
<1>. QED
  BY <1>2, <1>3 DEF Stream

\* A message sent goes to the end of the stream.
LEMMA SendStream ==
    ASSUME TypeOK, NEW kind, NEW id, NEW note, Send(kind, id, note), UNCHANGED queue,
           [kind |-> kind, id |-> id, note |-> note, at |-> notes] \in Message
    PROVE  /\ Len(Stream') = Len(Stream) + 1
           /\ \A i \in 1 .. Len(Stream) : Stream'[i] = Stream[i]
           /\ Stream'[Len(Stream) + 1] = [kind |-> kind, id |-> id, note |-> note, at |-> notes]
<1>. DEFINE m == [kind |-> kind, id |-> id, note |-> note, at |-> notes]
            t == Append(inbox, m)
<1>1. queue \in Seq(Message) /\ inbox \in Seq(Message) /\ m \in Message
  BY StreamType
<1>2. Stream' = queue \o t
  BY DEF Stream, Send
<1>. HIDE DEF m
<1>3. /\ t \in Seq(Message) /\ Len(t) = Len(inbox) + 1
      /\ \A i \in 1 .. Len(inbox) : t[i] = inbox[i]
      /\ t[Len(inbox) + 1] = m
      /\ Len(inbox) \in Nat /\ Len(queue) \in Nat
  BY <1>1, AppendProperties, LenProperties
<1>. HIDE DEF t
<1>4. /\ Len(Stream') = Len(queue) + Len(t)
      /\ \A i \in 1 .. Len(queue) + Len(t) :
            Stream'[i] = IF i <= Len(queue) THEN queue[i] ELSE t[i - Len(queue)]
  BY <1>1, <1>2, <1>3, ConcatProperties
<1>5. Len(Stream) = Len(queue) + Len(inbox) /\ Len(inbox) \in Nat /\ Len(queue) \in Nat
  BY <1>3, StreamType
<1>6. Len(Stream') = Len(Stream) + 1
  <2>1. Len(t) = Len(inbox) + 1 /\ Len(Stream') = Len(queue) + Len(t)
    BY <1>3, <1>4
  <2>. QED
    BY <1>5, <2>1
<1>7. Stream'[Len(Stream) + 1] = m
  <2>1. Len(t) = Len(inbox) + 1 /\ t[Len(inbox) + 1] = m
    BY <1>3
  <2>2. Len(Stream) + 1 \in 1 .. Len(queue) + Len(t) /\ ~(Len(Stream) + 1 <= Len(queue))
    BY <1>5, <2>1
  <2>3. Stream'[Len(Stream) + 1] = t[Len(Stream) + 1 - Len(queue)]
    BY <1>4, <2>2
  <2>. QED
    BY <1>5, <2>1, <2>3
<1>8. ASSUME NEW i \in 1 .. Len(Stream) PROVE Stream'[i] = Stream[i]
  <2>1. i \in 1 .. Len(queue) + Len(t)
    <3>1. Len(t) = Len(inbox) + 1
      BY <1>3
    <3>. QED
      BY <1>5, <1>8, <3>1
  <2>2. Stream'[i] = IF i <= Len(queue) THEN queue[i] ELSE t[i - Len(queue)]
    BY <1>4, <2>1
  <2>3. Stream[i] = IF i <= Len(queue) THEN queue[i] ELSE inbox[i - Len(queue)]
    BY <1>8, StreamType
  <2>4. ~(i <= Len(queue)) => i - Len(queue) \in 1 .. Len(inbox)
    BY <1>5, <1>8
  <2>. QED
    BY <1>3, <2>2, <2>3, <2>4
<1>. QED
  BY <1>6, <1>7, <1>8 DEF m

\* `m` goes to the end of the stream.
Appended(m) ==
    /\ Len(Stream') = Len(Stream) + 1
    /\ \A i \in 1 .. Len(Stream) : Stream'[i] = Stream[i]
    /\ Stream'[Len(Stream) + 1] = m

\* A step of the client's sends a message, or leaves the stream as it is.
LEMMA ClientStream ==
    ASSUME TypeOK, Client
    PROVE  \/ Stream' = Stream
           \/ \E m \in Message : Appended(m) /\ (m.kind = "note" => SendNote(m.note))
<1>. USE ServeAssumption DEF ServeAssumption, Requests
<1>1. UNCHANGED queue
  BY ClientAlone DEF serverVars, loopVars
<1>2. ASSUME NEW kind, NEW id, NEW note, Send(kind, id, note), kind = "note" => SendNote(note),
             [kind |-> kind, id |-> id, note |-> note, at |-> notes] \in Message
      PROVE  \E m \in Message : Appended(m) /\ (m.kind = "note" => SendNote(m.note))
  BY <1>1, <1>2, SendStream DEF Appended
<1>3. ASSUME NEW kind \in Requests, SendRequest(kind)
      PROVE  \E m \in Message : Appended(m) /\ (m.kind = "note" => SendNote(m.note))
  <2>1. [kind |-> kind, id |-> lastId + 1, note |-> NoNote, at |-> notes] \in Message
    BY <1>3 DEF SendRequest, Message, Request, TypeOK, ClientTypeOK
  <2>2. Send(kind, lastId + 1, NoNote) /\ kind # "note"
    BY <1>3 DEF SendRequest
  <2>. QED
    BY <1>2, <2>1, <2>2
<1>4. ASSUME NEW note \in Note, SendNote(note)
      PROVE  \E m \in Message : Appended(m) /\ (m.kind = "note" => SendNote(m.note))
  <2>1. [kind |-> "note", id |-> 0, note |-> note, at |-> notes] \in Message
    BY DEF Message, TypeOK, ClientTypeOK
  <2>2. Send("note", 0, note)
    BY <1>4 DEF SendNote
  <2>. QED
    BY <1>2, <1>4, <2>1, <2>2
<1>5. ASSUME NEW r \in Request, SendCancel(r)
      PROVE  \E m \in Message : Appended(m) /\ (m.kind = "note" => SendNote(m.note))
  <2>1. [kind |-> "cancel", id |-> r, note |-> NoNote, at |-> notes] \in Message
    BY DEF Message, TypeOK, ClientTypeOK
  <2>2. Send("cancel", r, NoNote)
    BY <1>5 DEF SendCancel
  <2>. QED
    BY <1>2, <2>1, <2>2
<1>6. ASSUME NEW kind \in {"response", "exit"}, Send(kind, 0, NoNote)
      PROVE  \E m \in Message : Appended(m) /\ (m.kind = "note" => SendNote(m.note))
  <2>1. [kind |-> kind, id |-> 0, note |-> NoNote, at |-> notes] \in Message
    BY DEF Message, TypeOK, ClientTypeOK
  <2>. QED
    BY <1>2, <1>6, <2>1
<1>7. CASE Disconnect
  BY <1>1, <1>7 DEF Disconnect, Stream
<1>. QED
  BY <1>3, <1>4, <1>5, <1>6, <1>7 DEF Client, SendResponse, SendExit

\* A step of the server's takes the first message of the stream, or leaves the
\* stream as it is.
LEMMA ServerStream ==
    ASSUME TypeOK, NothingAhead,
           \/ Loop \/ Pass
           \/ \E r \in Request : FormatDone(r)
           \/ \E checked \in Checked : CheckDone(checked)
    PROVE  Stream' = Stream \/ (Stream # <<>> /\ Stream' = Tail(Stream))
<1>1. CASE UNCHANGED <<queue, inbox>>
  BY <1>1 DEF Stream
<1>2. ASSUME NEW kinds, Pop(kinds) PROVE Stream # <<>> /\ Stream' = Tail(Stream)
  BY <1>2, PopStream
<1>3. CASE Loop
  <2>1. CASE Receive
    BY <2>1, MoveStream DEF Receive
  <2>2. CASE RefuseCancelled \/ ServeRequest \/ ServeShutdown \/ Notify \/ Ignore
    BY <1>2, <2>2 DEF RefuseCancelled, ServeRequest, ServeShutdown, Notify, Ignore
  <2>3. CASE LeaveAfterShutdown \/ Publish \/ ClientGone
    BY <1>1, <2>3 DEF LeaveAfterShutdown, Publish, ClientGone, clientVars
  <2>. QED
    BY <1>3, <2>1, <2>2, <2>3 DEF Loop
<1>4. CASE Pass
  <2>1. CASE AnswerInferring \/ IgnoreInferring
    BY <2>1, OverhearStream DEF AnswerInferring, IgnoreInferring
  <2>2. CASE StopForMessage
    BY <2>2, MoveStream DEF StopForMessage, Overhear
  <2>3. CASE \/ PublishUninferred \/ BeginPass \/ PickFile \/ ReadFile \/ EndWalk
             \/ StopForCheck \/ StopForNobody \/ EndPass
    BY <1>1, <2>3 DEF PublishUninferred, BeginPass, PickFile, ReadFile, EndWalk, StopForCheck,
       StopForNobody, EndPass, clientVars
  <2>. QED
    BY <1>4, <2>1, <2>2, <2>3 DEF Pass
<1>5. CASE \/ \E r \in Request : FormatDone(r)
           \/ \E checked \in Checked : CheckDone(checked)
  BY <1>1, <1>5 DEF FormatDone, CheckDone, clientVars
<1>. QED
  BY <1>3, <1>4, <1>5

-----------------------------------------------------------------------------
(* The invariant of the stream.                                             *)

historyVars == <<lastId, notes, asked, applied, formatting, seen, replies>>

StreamInv ==
    AnsweredOnce /\ SeesWhatPrecedes /\ Coming /\ NoneLost /\ NotYetSent /\ Formatting /\ Stamped

\* The first message is taken off the stream.
Advances == Stream # <<>> /\ Stream' = Tail(Stream) /\ UNCHANGED <<lastId, notes, asked>>

\* A message goes to the end of the stream.
Arrives(m) ==
    /\ Appended(m)
    /\ m \in Message /\ m.at = notes /\ notes' = After(m)
    /\ UNCHANGED <<applied, formatting, seen, replies>>

\* A step that leaves the stream and the history alone keeps the stream invariant.
LEMMA StayStep ==
    ASSUME StreamInv, Stream' = Stream, UNCHANGED historyVars
    PROVE  StreamInv'
BY DEF StreamInv, historyVars, AnsweredOnce, SeesWhatPrecedes, Coming, NoneLost, NotYetSent,
   Formatting, Stamped, Untouched, After, IsRequest

\* When the first message is taken the rest moves up by one.
LEMMA AdvanceFacts ==
    ASSUME TypeOK, Advances
    PROVE  /\ Len(Stream) \in Nat \ {0} /\ Len(Stream') = Len(Stream) - 1
           /\ Stream[1] \in Message
           /\ \A i \in 1 .. Len(Stream') : Stream'[i] = Stream[i + 1] /\ i + 1 \in 2 .. Len(Stream)
           /\ Stream' = <<>> <=> Len(Stream) = 1
<1>1. Stream \in Seq(Message) /\ Stream # <<>>
  BY StreamType DEF Advances
<1>2. Len(Stream) \in Nat \ {0} /\ Stream[1] \in Message
  BY <1>1, EmptySeq, ElementOfSeq
<1>3. /\ Tail(Stream) \in Seq(Message) /\ Len(Tail(Stream)) = Len(Stream) - 1
      /\ \A i \in 1 .. Len(Tail(Stream)) : Tail(Stream)[i] = Stream[i + 1]
  BY <1>1, HeadTailProperties
<1>4. Tail(Stream) = <<>> <=> Len(Stream) = 1
  BY <1>2, <1>3, EmptySeq
<1>. QED
  BY <1>2, <1>3, <1>4 DEF Advances

\* The stamps follow on when the first message goes, and the state with it.
LEMMA AdvanceStamped ==
    ASSUME TypeOK, Stamped, Advances, applied' = After(Stream[1])
    PROVE  Stamped'
<1>1. CASE Len(Stream) = 1
  <2>1. Stream' = <<>> /\ Len(Stream') = 0 /\ notes' = After(Stream[1])
    BY <1>1, AdvanceFacts DEF Stamped, Advances
  <2>. QED
    BY <2>1 DEF Stamped
<1>2. CASE Len(Stream) # 1
  <2>1. /\ Len(Stream) \in Nat /\ Len(Stream) > 1 /\ Len(Stream') = Len(Stream) - 1
        /\ Stream' # <<>> /\ Stream # <<>>
    BY <1>2, AdvanceFacts DEF Advances
  <2>2. \A i \in 1 .. Len(Stream') : Stream'[i] = Stream[i + 1]
    BY AdvanceFacts
  <2>3. Stream'[1].at = applied'
    <3>1. 1 \in 1 .. Len(Stream') /\ 2 \in 2 .. Len(Stream)
      BY <2>1
    <3>2. Stream'[1] = Stream[2] /\ Stream[2].at = After(Stream[1])
      BY <2>2, <3>1 DEF Stamped
    <3>. QED
      BY <3>2
  <2>4. notes' = After(Stream'[Len(Stream')])
    <3>1. Len(Stream') \in 1 .. Len(Stream') /\ Len(Stream') + 1 = Len(Stream)
      BY <2>1
    <3>2. Stream'[Len(Stream')] = Stream[Len(Stream)]
      BY <2>2, <3>1
    <3>. QED
      BY <2>1, <3>2 DEF Stamped, Advances, After
  <2>5. ASSUME NEW i \in 2 .. Len(Stream') PROVE Stream'[i].at = After(Stream'[i - 1])
    <3>1. /\ i \in 1 .. Len(Stream') /\ i - 1 \in 1 .. Len(Stream') /\ (i - 1) + 1 = i
          /\ i + 1 \in 2 .. Len(Stream) /\ (i + 1) - 1 = i
      BY <2>1, <2>5
    <3>2. Stream'[i] = Stream[i + 1] /\ Stream'[i - 1] = Stream[i]
      BY <2>2, <3>1
    <3>3. Stream[i + 1].at = After(Stream[i])
      BY <3>1 DEF Stamped
    <3>. QED
      BY <3>2, <3>3 DEF After
  <2>. QED
    BY <2>1, <2>3, <2>4, <2>5 DEF Stamped, After
<1>. QED
  BY <1>1, <1>2

\* The rest of the invariant, when the message that goes is no request.
LEMMA AdvanceOther ==
    ASSUME TypeOK, StreamInv, Advances, ~IsRequest(Stream[1]), UNCHANGED answerVars,
           applied' = After(Stream[1])
    PROVE  StreamInv'
<1>1. AnsweredOnce' /\ SeesWhatPrecedes' /\ NotYetSent' /\ Formatting'
  BY DEF StreamInv, AnsweredOnce, SeesWhatPrecedes, NotYetSent, Formatting, Untouched,
     answerVars, Advances
<1>2. Coming'
  <2>. SUFFICES ASSUME NEW i \in 1 .. Len(Stream'), IsRequest(Stream'[i])
                PROVE  /\ Stream'[i].id \in 1 .. lastId'
                       /\ asked'[Stream'[i].id] = Stream'[i].at
                       /\ \A r \in Request : r >= Stream'[i].id => Untouched(r)'
                       /\ \A j \in 1 .. i - 1 : IsRequest(Stream'[j]) => Stream'[j].id < Stream'[i].id
    BY DEF Coming, IsRequest
  <2>1. Stream'[i] = Stream[i + 1] /\ i + 1 \in 1 .. Len(Stream)
    BY AdvanceFacts
  <2>2. /\ Stream[i + 1].id \in 1 .. lastId
        /\ asked[Stream[i + 1].id] = Stream[i + 1].at
        /\ \A r \in Request : r >= Stream[i + 1].id => Untouched(r)
        /\ \A j \in 1 .. i : IsRequest(Stream[j]) => Stream[j].id < Stream[i + 1].id
    BY <2>1 DEF StreamInv, Coming, IsRequest
  <2>3. \A j \in 1 .. i - 1 : IsRequest(Stream'[j]) => Stream'[j].id < Stream'[i].id
    <3>1. \A j \in 1 .. i - 1 : Stream'[j] = Stream[j + 1] /\ j + 1 \in 1 .. i
      BY AdvanceFacts
    <3>. QED
      BY <2>1, <2>2, <3>1
  <2>. QED
    BY <2>1, <2>2, <2>3 DEF Advances, Untouched, answerVars
<1>3. NoneLost'
  <2>. SUFFICES ASSUME NEW r \in 1 .. lastId, ~(replies[r] > 0), r \notin formatting
                PROVE  \E i \in 1 .. Len(Stream') : IsRequest(Stream'[i]) /\ Stream'[i].id = r
    BY DEF NoneLost, Advances, answerVars, IsRequest
  <2>1. PICK i \in 1 .. Len(Stream) : IsRequest(Stream[i]) /\ Stream[i].id = r
    BY DEF StreamInv, NoneLost
  <2>2. i # 1 /\ i - 1 \in 1 .. Len(Stream') /\ (i - 1) + 1 = i
    BY <2>1, AdvanceFacts
  <2>. QED
    BY <2>1, <2>2, AdvanceFacts
<1>4. Stamped'
  BY AdvanceStamped DEF StreamInv
<1>. QED
  BY <1>1, <1>2, <1>3, <1>4 DEF StreamInv

\* What is done about a request: it is answered, or left to a formatting thread;
\* unless it is refused, the state it is answered from is this one.
Handles(id) ==
    /\ Saw(id) \/ UNCHANGED seen
    /\ \/ Reply(id) /\ UNCHANGED formatting
       \/ formatting' = formatting \cup {id} /\ UNCHANGED replies
    /\ UNCHANGED applied

\* Handling a request touches that request only, and answers it once or leaves it
\* to a formatting thread.
LEMMA HandlesOne ==
    ASSUME TypeOK, NEW id \in Request, Untouched(id), Handles(id)
    PROVE  /\ replies'[id] \in {0, 1} /\ (replies'[id] = 1 \/ id \in formatting')
           /\ replies'[id] = 1 => id \notin formatting'
           /\ \A r \in Request \ {id} :
                 /\ replies'[r] = replies[r] /\ seen'[r] = seen[r]
                 /\ r \in formatting' <=> r \in formatting
           /\ seen'[id] \in {applied, Unserved}
           /\ formatting' \subseteq Request
BY DEF Handles, Untouched, Saw, Reply, TypeOK, AnswerTypeOK

\* And when it is a request.
LEMMA AdvanceRequest ==
    ASSUME TypeOK, StreamInv, Advances, IsRequest(Stream[1]), Handles(Stream[1].id)
    PROVE  StreamInv'
<1>. DEFINE id == Stream[1].id
<1>1. /\ Stream[1] \in Message /\ 1 \in 1 .. Len(Stream) /\ id \in Request
      /\ id \in 1 .. lastId /\ asked[id] = Stream[1].at
      /\ \A r \in Request : r >= id => Untouched(r)
  BY AdvanceFacts, RequestId DEF StreamInv, Coming, IsRequest
<1>2. Untouched(id) /\ id \in Nat
  BY <1>1, ServeAssumption DEF ServeAssumption, Request
<1>3. /\ replies'[id] \in {0, 1} /\ (replies'[id] = 1 \/ id \in formatting')
      /\ replies'[id] = 1 => id \notin formatting'
      /\ \A r \in Request \ {id} :
            /\ replies'[r] = replies[r] /\ seen'[r] = seen[r]
            /\ r \in formatting' <=> r \in formatting
      /\ seen'[id] \in {applied, Unserved}
      /\ formatting' \subseteq Request
  BY <1>1, <1>2, HandlesOne
<1>4. applied = Stream[1].at /\ applied' = applied
  BY AdvanceFacts DEF StreamInv, Stamped, Advances, Handles
<1>. HIDE DEF id
<1>5. AnsweredOnce'
  BY <1>3 DEF StreamInv, AnsweredOnce
<1>6. SeesWhatPrecedes'
  BY <1>1, <1>3, <1>4 DEF StreamInv, SeesWhatPrecedes, Advances
<1>7. Formatting'
  BY <1>3 DEF StreamInv, Formatting
<1>8. NotYetSent'
  BY <1>1, <1>3, ServeAssumption DEF ServeAssumption, StreamInv, NotYetSent, Untouched, Advances, Request,
     TypeOK, ClientTypeOK
<1>9. Coming'
  <2>. SUFFICES ASSUME NEW i \in 1 .. Len(Stream'), IsRequest(Stream'[i])
                PROVE  /\ Stream'[i].id \in 1 .. lastId'
                       /\ asked'[Stream'[i].id] = Stream'[i].at
                       /\ \A r \in Request : r >= Stream'[i].id => Untouched(r)'
                       /\ \A j \in 1 .. i - 1 : IsRequest(Stream'[j]) => Stream'[j].id < Stream'[i].id
    BY DEF Coming, IsRequest
  <2>1. Stream'[i] = Stream[i + 1] /\ i + 1 \in 1 .. Len(Stream) /\ 1 \in 1 .. i
    BY AdvanceFacts
  <2>2. /\ Stream[i + 1].id \in 1 .. lastId
        /\ asked[Stream[i + 1].id] = Stream[i + 1].at
        /\ \A r \in Request : r >= Stream[i + 1].id => Untouched(r)
        /\ \A j \in 1 .. i : IsRequest(Stream[j]) => Stream[j].id < Stream[i + 1].id
    BY <2>1 DEF StreamInv, Coming, IsRequest
  <2>3. \A j \in 1 .. i - 1 : IsRequest(Stream'[j]) => Stream'[j].id < Stream'[i].id
    <3>1. \A j \in 1 .. i - 1 : Stream'[j] = Stream[j + 1] /\ j + 1 \in 1 .. i
      BY AdvanceFacts
    <3>. QED
      BY <2>1, <2>2, <3>1
  <2>4. id < Stream[i + 1].id
    BY <2>1, <2>2 DEF id
  <2>5. ASSUME NEW r \in Request, r >= Stream[i + 1].id PROVE Untouched(r)'
    <3>1. r # id /\ Untouched(r)
      BY <1>2, <2>2, <2>4, <2>5 DEF Request
    <3>. QED
      BY <1>3, <3>1 DEF Untouched
  <2>. QED
    BY <2>1, <2>2, <2>3, <2>5 DEF Advances
<1>10. NoneLost'
  <2>. SUFFICES ASSUME NEW r \in 1 .. lastId, ~(replies'[r] > 0), r \notin formatting'
                PROVE  \E i \in 1 .. Len(Stream') : IsRequest(Stream'[i]) /\ Stream'[i].id = r
    BY DEF NoneLost, Advances, IsRequest
  <2>1. r # id /\ r \in Request
    BY <1>3, ServeAssumption DEF ServeAssumption, Request, TypeOK, ClientTypeOK
  <2>2. ~(replies[r] > 0) /\ r \notin formatting
    BY <1>3, <2>1
  <2>3. PICK i \in 1 .. Len(Stream) : IsRequest(Stream[i]) /\ Stream[i].id = r
    BY <2>2 DEF StreamInv, NoneLost
  <2>4. i # 1
    BY <2>1, <2>3 DEF id
  <2>5. i - 1 \in 1 .. Len(Stream') /\ (i - 1) + 1 = i
    BY <2>4, AdvanceFacts
  <2>. QED
    BY <2>3, <2>5, AdvanceFacts
<1>11. Stamped'
  BY <1>4, AdvanceStamped DEF StreamInv, After, IsRequest, Requests
<1>. QED
  BY <1>5, <1>6, <1>7, <1>8, <1>9, <1>10, <1>11 DEF StreamInv

\* When a message is sent it comes last and the rest stays in place.
LEMMA ArriveFacts ==
    ASSUME TypeOK, NEW m, Arrives(m)
    PROVE  /\ Len(Stream) \in Nat /\ Len(Stream') = Len(Stream) + 1
           /\ Stream = <<>> <=> Len(Stream) = 0
           /\ Stream' # <<>>
           /\ \A i \in 1 .. Len(Stream) : Stream'[i] = Stream[i]
           /\ Stream'[Len(Stream) + 1] = m
<1>1. Len(Stream) \in Nat /\ (Stream = <<>> <=> Len(Stream) = 0)
  BY StreamType, EmptySeq, LenProperties
<1>2. Len(Stream') = Len(Stream) + 1
  BY DEF Arrives, Appended
<1>3. Stream' # <<>>
  BY <1>1, <1>2, EmptySeq
<1>. QED
  BY <1>1, <1>2, <1>3 DEF Arrives, Appended

\* The stamps follow on when a message is sent.
LEMMA ArriveStamped ==
    ASSUME TypeOK, Stamped, NEW m, Arrives(m)
    PROVE  Stamped'
<1>1. Stream'[1].at = applied'
  <2>1. CASE Stream = <<>>
    BY <2>1, ArriveFacts DEF Stamped, Arrives
  <2>2. CASE Stream # <<>>
    <3>1. 1 \in 1 .. Len(Stream)
      BY <2>2, ArriveFacts
    <3>. QED
      BY <2>2, <3>1, ArriveFacts DEF Stamped, Arrives
  <2>. QED
    BY <2>1, <2>2
<1>2. notes' = After(Stream'[Len(Stream')])
  BY ArriveFacts DEF Arrives, After
<1>3. ASSUME NEW i \in 2 .. Len(Stream') PROVE Stream'[i].at = After(Stream'[i - 1])
  <2>1. CASE i = Len(Stream')
    <3>1. Stream # <<>> /\ i - 1 = Len(Stream) /\ i = Len(Stream) + 1 /\ Len(Stream) \in 1 .. Len(Stream)
      BY <1>3, <2>1, ArriveFacts
    <3>2. Stream'[i] = m /\ Stream'[i - 1] = Stream[Len(Stream)]
      BY <3>1, ArriveFacts
    <3>. QED
      BY <3>1, <3>2 DEF Stamped, Arrives, After
  <2>2. CASE i # Len(Stream')
    <3>1. i \in 2 .. Len(Stream) /\ i - 1 \in 1 .. Len(Stream) /\ i \in 1 .. Len(Stream)
      BY <1>3, <2>2, ArriveFacts
    <3>2. Stream'[i] = Stream[i] /\ Stream'[i - 1] = Stream[i - 1]
      BY <3>1, ArriveFacts
    <3>. QED
      BY <3>1, <3>2 DEF Stamped, After
  <2>. QED
    BY <2>1, <2>2
<1>. QED
  BY <1>1, <1>2, <1>3, ArriveFacts DEF Stamped, After

\* The rest, when it is no request.
LEMMA ArriveOther ==
    ASSUME TypeOK, StreamInv, NEW m, Arrives(m), ~IsRequest(m), UNCHANGED <<lastId, asked>>
    PROVE  StreamInv'
<1>1. AnsweredOnce' /\ SeesWhatPrecedes' /\ NotYetSent' /\ Formatting'
  BY DEF StreamInv, AnsweredOnce, SeesWhatPrecedes, NotYetSent, Formatting, Untouched, Arrives
<1>2. Coming'
  <2>. SUFFICES ASSUME NEW i \in 1 .. Len(Stream'), IsRequest(Stream'[i])
                PROVE  /\ Stream'[i].id \in 1 .. lastId'
                       /\ asked'[Stream'[i].id] = Stream'[i].at
                       /\ \A r \in Request : r >= Stream'[i].id => Untouched(r)'
                       /\ \A j \in 1 .. i - 1 : IsRequest(Stream'[j]) => Stream'[j].id < Stream'[i].id
    BY DEF Coming, IsRequest
  <2>1. i \in 1 .. Len(Stream)
    BY ArriveFacts
  <2>2. Stream'[i] = Stream[i] /\ \A j \in 1 .. i - 1 : Stream'[j] = Stream[j]
    BY <2>1, ArriveFacts
  <2>. QED
    BY <2>1, <2>2 DEF StreamInv, Coming, Untouched, Arrives, IsRequest
<1>3. NoneLost'
  <2>. SUFFICES ASSUME NEW r \in 1 .. lastId, ~(replies[r] > 0), r \notin formatting
                PROVE  \E i \in 1 .. Len(Stream') : IsRequest(Stream'[i]) /\ Stream'[i].id = r
    BY DEF NoneLost, Arrives, IsRequest
  <2>1. PICK i \in 1 .. Len(Stream) : IsRequest(Stream[i]) /\ Stream[i].id = r
    BY DEF StreamInv, NoneLost
  <2>2. i \in 1 .. Len(Stream') /\ Stream'[i] = Stream[i]
    BY ArriveFacts
  <2>. QED
    BY <2>1, <2>2
<1>. QED
  BY <1>1, <1>2, <1>3, ArriveStamped DEF StreamInv

\* And when it is one, with the next number.
LEMMA ArriveRequest ==
    ASSUME TypeOK, StreamInv, NEW m, Arrives(m), IsRequest(m),
           m.id = lastId + 1, lastId < MaxRequests, lastId' = lastId + 1,
           asked' = [asked EXCEPT ![lastId + 1] = notes]
    PROVE  StreamInv'
<1>1. /\ lastId \in Nat /\ lastId + 1 \in Request /\ Request \subseteq Nat
      /\ Untouched(lastId + 1)
      /\ \A r \in Request : r > lastId => Untouched(r)
  BY ServeAssumption DEF ServeAssumption, Request, TypeOK, ClientTypeOK, StreamInv, NotYetSent
<1>2. /\ \A r \in Request \ {lastId + 1} : asked'[r] = asked[r]
      /\ asked'[lastId + 1] = notes
  BY <1>1 DEF TypeOK, ClientTypeOK
<1>3. \A r \in Request : Untouched(r)' <=> Untouched(r)
  BY DEF Untouched, Arrives
<1>4. AnsweredOnce' /\ Formatting'
  BY DEF StreamInv, AnsweredOnce, Formatting, Arrives
<1>5. SeesWhatPrecedes'
  BY <1>1, <1>2 DEF StreamInv, SeesWhatPrecedes, Arrives, Untouched
<1>6. NotYetSent'
  BY <1>1, <1>3 DEF NotYetSent
<1>7. Coming'
  <2>. SUFFICES ASSUME NEW i \in 1 .. Len(Stream'), IsRequest(Stream'[i])
                PROVE  /\ Stream'[i].id \in 1 .. lastId'
                       /\ asked'[Stream'[i].id] = Stream'[i].at
                       /\ \A r \in Request : r >= Stream'[i].id => Untouched(r)'
                       /\ \A j \in 1 .. i - 1 : IsRequest(Stream'[j]) => Stream'[j].id < Stream'[i].id
    BY DEF Coming, IsRequest
  <2>1. CASE i \in 1 .. Len(Stream)
    <3>1. Stream'[i] = Stream[i] /\ \A j \in 1 .. i - 1 : Stream'[j] = Stream[j]
      BY <2>1, ArriveFacts
    <3>2. /\ Stream[i].id \in 1 .. lastId
          /\ asked[Stream[i].id] = Stream[i].at
          /\ \A r \in Request : r >= Stream[i].id => Untouched(r)
          /\ \A j \in 1 .. i - 1 : IsRequest(Stream[j]) => Stream[j].id < Stream[i].id
      BY <2>1, <3>1 DEF StreamInv, Coming, IsRequest
    <3>3. Stream[i].id \in Request /\ Stream[i].id # lastId + 1 /\ Stream[i].id \in 1 .. lastId'
      <4>1. lastId \in Nat /\ MaxRequests \in Nat /\ Stream[i].id \in 1 .. lastId
        BY <1>1, <3>2, ServeAssumption DEF ServeAssumption
      <4>. QED
        BY <4>1 DEF Request
    <3>. QED
      BY <1>2, <1>3, <3>1, <3>2, <3>3
  <2>2. CASE i = Len(Stream) + 1
    <3>1. Stream'[i] = m
      BY <2>2, ArriveFacts
    <3>2. m.id \in 1 .. lastId' /\ asked'[m.id] = m.at
      BY <1>1, <1>2 DEF Arrives
    <3>3. \A r \in Request : r >= m.id => Untouched(r)'
      BY <1>1, <1>3
    <3>4. ASSUME NEW j \in 1 .. i - 1, IsRequest(Stream'[j]) PROVE Stream'[j].id < m.id
      <4>1. j \in 1 .. Len(Stream) /\ Stream'[j] = Stream[j]
        BY <2>2, ArriveFacts
      <4>2. Stream[j].id \in 1 .. lastId
        BY <3>4, <4>1 DEF StreamInv, Coming, IsRequest
      <4>. QED
        BY <1>1, <4>1, <4>2
    <3>. QED
      BY <3>1, <3>2, <3>3, <3>4
  <2>. QED
    BY <2>1, <2>2, ArriveFacts
<1>8. NoneLost'
  <2>. SUFFICES ASSUME NEW r \in 1 .. lastId + 1, ~(replies[r] > 0), r \notin formatting
                PROVE  \E i \in 1 .. Len(Stream') : IsRequest(Stream'[i]) /\ Stream'[i].id = r
    BY DEF NoneLost, Arrives, IsRequest
  <2>1. CASE r = lastId + 1
    <3>1. Len(Stream) + 1 \in 1 .. Len(Stream') /\ Stream'[Len(Stream) + 1] = m
      BY ArriveFacts
    <3>. QED
      BY <2>1, <3>1
  <2>2. CASE r \in 1 .. lastId
    <3>1. PICK i \in 1 .. Len(Stream) : IsRequest(Stream[i]) /\ Stream[i].id = r
      BY <2>2 DEF StreamInv, NoneLost
    <3>2. i \in 1 .. Len(Stream') /\ Stream'[i] = Stream[i]
      BY ArriveFacts
    <3>. QED
      BY <3>1, <3>2
  <2>. QED
    BY <1>1, <2>1, <2>2
<1>. QED
  BY <1>4, <1>5, <1>6, <1>7, <1>8, ArriveStamped DEF StreamInv

-----------------------------------------------------------------------------
(* The invariant holds from step to step.                                   *)

\* Nothing is on its way at first.
LEMMA InitInv == Init => ServeInv
<1>. SUFFICES ASSUME Init PROVE ServeInv
  OBVIOUS
<1>1. Stream = <<>> /\ Len(Stream) = 0
  BY DEF Init, Stream
<1>. QED
  BY <1>1, ServeAssumption DEF ServeAssumption, ServeInv, Init, AnsweredOnce, SeesWhatPrecedes,
     Coming, NoneLost, NotYetSent, Formatting, Stamped, NothingAhead, Untouched, Request

\* The client's steps.
LEMMA ClientInv ==
    ASSUME TypeOK, StreamInv, Client
    PROVE  StreamInv'
<1>. USE DEF Requests
<1>1. UNCHANGED serverVars
  BY ClientAlone
<1>2. UNCHANGED <<queue, applied, formatting, seen, replies>>
  BY <1>1 DEF serverVars, loopVars, answerVars
<1>3. ASSUME NEW kind \in Requests, SendRequest(kind) PROVE StreamInv'
  <2>. DEFINE m == [kind |-> kind, id |-> lastId + 1, note |-> NoNote, at |-> notes]
  <2>1. m \in Message
    BY <1>3, ServeAssumption DEF ServeAssumption, SendRequest, Message, Request, TypeOK, ClientTypeOK
  <2>2. notes' = After(m) /\ IsRequest(m) /\ m.id = lastId + 1 /\ m.at = notes
    BY <1>3 DEF SendRequest, After, IsRequest
  <2>3. Arrives(m)
    BY <1>2, <1>3, <2>1, <2>2, SendStream DEF SendRequest, Arrives, Appended
  <2>. QED
    BY <1>3, <2>2, <2>3, ArriveRequest DEF SendRequest
<1>4. ASSUME NEW note \in Note, SendNote(note) PROVE StreamInv'
  <2>. DEFINE m == [kind |-> "note", id |-> 0, note |-> note, at |-> notes]
  <2>1. m \in Message
    BY DEF Message, TypeOK, ClientTypeOK
  <2>2. notes' = After(m) /\ ~IsRequest(m) /\ m.at = notes
    BY <1>4 DEF SendNote, After, IsRequest
  <2>3. Arrives(m)
    BY <1>2, <1>4, <2>1, <2>2, SendStream DEF SendNote, Arrives, Appended
  <2>. QED
    BY <1>4, <2>2, <2>3, ArriveOther DEF SendNote
<1>5. ASSUME NEW r \in Request, SendCancel(r) PROVE StreamInv'
  <2>. DEFINE m == [kind |-> "cancel", id |-> r, note |-> NoNote, at |-> notes]
  <2>1. m \in Message
    BY DEF Message, TypeOK, ClientTypeOK
  <2>2. notes' = After(m) /\ ~IsRequest(m) /\ m.at = notes
    BY <1>5 DEF SendCancel, After, IsRequest
  <2>3. Arrives(m)
    BY <1>2, <1>5, <2>1, <2>2, SendStream DEF SendCancel, Arrives, Appended
  <2>. QED
    BY <1>5, <2>2, <2>3, ArriveOther DEF SendCancel
<1>6. ASSUME SendResponse PROVE StreamInv'
  <2>. DEFINE m == [kind |-> "response", id |-> 0, note |-> NoNote, at |-> notes]
  <2>1. m \in Message
    BY DEF Message, TypeOK, ClientTypeOK
  <2>2. notes' = After(m) /\ ~IsRequest(m) /\ m.at = notes
    BY <1>6 DEF SendResponse, After, IsRequest
  <2>3. Arrives(m)
    BY <1>2, <1>6, <2>1, <2>2, SendStream DEF SendResponse, Arrives, Appended
  <2>. QED
    BY <1>6, <2>2, <2>3, ArriveOther DEF SendResponse
<1>7. ASSUME SendExit PROVE StreamInv'
  <2>. DEFINE m == [kind |-> "exit", id |-> 0, note |-> NoNote, at |-> notes]
  <2>1. m \in Message
    BY DEF Message, TypeOK, ClientTypeOK
  <2>2. notes' = After(m) /\ ~IsRequest(m) /\ m.at = notes
    BY <1>7 DEF SendExit, After, IsRequest
  <2>3. Arrives(m)
    BY <1>2, <1>7, <2>1, <2>2, SendStream DEF SendExit, Arrives, Appended
  <2>. QED
    BY <1>7, <2>2, <2>3, ArriveOther DEF SendExit
<1>8. ASSUME Disconnect PROVE StreamInv'
  <2>1. Stream' = Stream /\ UNCHANGED historyVars
    BY <1>2, <1>8 DEF Disconnect, Stream, historyVars
  <2>. QED
    BY <2>1, StayStep
<1>. QED
  BY <1>3, <1>4, <1>5, <1>6, <1>7, <1>8 DEF Client

\* Steps of the server that take no message and answer none.
Aside ==
    \/ LeaveAfterShutdown \/ Publish \/ ClientGone
    \/ PublishUninferred \/ BeginPass \/ PickFile \/ ReadFile \/ EndWalk
    \/ StopForCheck \/ StopForNobody \/ EndPass
    \/ \E checked \in Checked : CheckDone(checked)

\* Steps of the loop and of a pass that take no message keep the stream invariant.
LEMMA AsideInv ==
    ASSUME StreamInv, Aside
    PROVE  StreamInv'
<1>1. UNCHANGED <<inbox, queue, lastId, notes, asked, applied, formatting, seen, replies>>
  BY DEF Aside, LeaveAfterShutdown, Publish, ClientGone, PublishUninferred, BeginPass, PickFile,
     ReadFile, EndWalk, StopForCheck, StopForNobody, EndPass, CheckDone, clientVars, answerVars
<1>2. Stream' = Stream /\ UNCHANGED historyVars
  BY <1>1 DEF Stream, historyVars
<1>. QED
  BY <1>2, StayStep

\* Steps of the loop that take a message.
LEMMA TakenInv ==
    ASSUME TypeOK, StreamInv, RefuseCancelled \/ ServeRequest \/ ServeShutdown \/ Notify \/ Ignore
    PROVE  StreamInv'
<1>1. ASSUME NEW kinds, Pop(kinds)
      PROVE  /\ Advances /\ Stream[1] = Head(queue) /\ Stream[1].kind \in kinds
             /\ applied = Stream[1].at
  <2>1. Advances /\ Stream[1] = Head(queue)
    BY <1>1, PopStream DEF Advances, Pop, clientVars
  <2>. QED
    BY <1>1, <2>1 DEF Pop, Advances, StreamInv, Stamped
<1>2. ASSUME RefuseCancelled PROVE StreamInv'
  <2>1. Advances /\ IsRequest(Stream[1]) /\ Handles(Stream[1].id)
    BY <1>1, <1>2 DEF RefuseCancelled, IsRequest, Handles
  <2>. QED
    BY <2>1, AdvanceRequest
<1>3. ASSUME ServeRequest PROVE StreamInv'
  <2>1. Advances /\ IsRequest(Stream[1]) /\ Handles(Stream[1].id)
    BY <1>1, <1>3 DEF ServeRequest, Answer, IsRequest, Requests, Handles
  <2>. QED
    BY <2>1, AdvanceRequest
<1>4. ASSUME ServeShutdown PROVE StreamInv'
  <2>1. Advances /\ IsRequest(Stream[1]) /\ Handles(Stream[1].id)
    BY <1>1, <1>4 DEF ServeShutdown, IsRequest, Requests, Handles
  <2>. QED
    BY <2>1, AdvanceRequest
<1>5. ASSUME Notify PROVE StreamInv'
  <2>1. /\ Advances /\ Stream[1].kind = "note" /\ applied = Stream[1].at
        /\ applied' = applied + 1 /\ UNCHANGED answerVars
    BY <1>1, <1>5 DEF Notify
  <2>2. ~IsRequest(Stream[1]) /\ applied' = After(Stream[1])
    BY <2>1 DEF IsRequest, Requests, After
  <2>. QED
    BY <2>1, <2>2, AdvanceOther
<1>6. ASSUME Ignore PROVE StreamInv'
  <2>1. /\ Advances /\ Stream[1].kind \in {"cancel", "exit", "response"}
        /\ applied = Stream[1].at /\ applied' = applied /\ UNCHANGED answerVars
    BY <1>1, <1>6 DEF Ignore
  <2>2. ~IsRequest(Stream[1]) /\ applied' = After(Stream[1])
    BY <2>1 DEF IsRequest, Requests, After
  <2>. QED
    BY <2>1, <2>2, AdvanceOther
<1>. QED
  BY <1>2, <1>3, <1>4, <1>5, <1>6

\* Steps of a pass that take a message: nothing waits in the queue, so it is the
\* first of the stream.
LEMMA OverheardInv ==
    ASSUME TypeOK, StreamInv, NothingAhead, AnswerInferring \/ IgnoreInferring
    PROVE  StreamInv'
<1>1. ASSUME NEW kinds, Overhear(kinds), UNCHANGED queue
      PROVE  /\ Advances /\ Stream[1] = Head(inbox) /\ Stream[1].kind \in kinds
             /\ applied = Stream[1].at /\ applied' = applied
  <2>1. Advances /\ Stream[1] = Head(inbox)
    BY <1>1, OverhearStream DEF Advances, Overhear
  <2>. QED
    BY <1>1, <2>1 DEF Overhear, Advances, StreamInv, Stamped
<1>2. ASSUME AnswerInferring PROVE StreamInv'
  <2>1. Advances /\ IsRequest(Stream[1]) /\ Handles(Stream[1].id)
    BY <1>1, <1>2 DEF AnswerInferring, Answer, IsRequest, Requests, Handles
  <2>. QED
    BY <2>1, AdvanceRequest
<1>3. ASSUME IgnoreInferring PROVE StreamInv'
  <2>1. /\ Advances /\ Stream[1].kind \in {"response", "cancel"}
        /\ applied = Stream[1].at /\ applied' = applied /\ UNCHANGED answerVars
    BY <1>1, <1>3 DEF IgnoreInferring
  <2>2. ~IsRequest(Stream[1]) /\ applied' = After(Stream[1])
    BY <2>1 DEF IsRequest, Requests, After
  <2>. QED
    BY <2>1, <2>2, AdvanceOther
<1>. QED
  BY <1>2, <1>3

\* Steps that move a message from the connection to the queue.
LEMMA MovedInv ==
    ASSUME TypeOK, StreamInv, Receive \/ StopForMessage
    PROVE  StreamInv'
<1>1. /\ inbox # <<>> /\ inbox' = Tail(inbox) /\ queue' = Append(queue, Head(inbox))
      /\ UNCHANGED historyVars
  BY DEF Receive, StopForMessage, Overhear, historyVars, answerVars
<1>. QED
  BY <1>1, MoveStream, StayStep

\* A formatting thread answers what nobody else has answered.
LEMMA FormatDoneInv ==
    ASSUME TypeOK, StreamInv, NEW r \in Request, FormatDone(r)
    PROVE  StreamInv'
<1>1. /\ r \in formatting /\ replies[r] = 0 /\ formatting' = formatting \ {r}
      /\ replies' = [replies EXCEPT ![r] = @ + 1]
      /\ UNCHANGED <<inbox, queue, lastId, notes, asked, applied, seen>>
  BY DEF FormatDone, Reply, StreamInv, Formatting, clientVars
<1>2. replies'[r] = 1 /\ \A q \in Request \ {r} : replies'[q] = replies[q]
  BY <1>1 DEF TypeOK, AnswerTypeOK
<1>3. Stream' = Stream
  BY <1>1 DEF Stream
<1>4. \A q \in Request : Untouched(q) => q # r /\ Untouched(q)'
  BY <1>1, <1>2 DEF Untouched
<1>5. AnsweredOnce' /\ SeesWhatPrecedes' /\ NotYetSent'
  BY <1>1, <1>2, <1>4 DEF StreamInv, AnsweredOnce, SeesWhatPrecedes, NotYetSent
<1>6. Formatting'
  BY <1>1, <1>2 DEF StreamInv, Formatting, TypeOK, AnswerTypeOK
<1>7. NoneLost'
  <2>. SUFFICES ASSUME NEW q \in 1 .. lastId
                PROVE  \/ replies'[q] > 0
                       \/ q \in formatting'
                       \/ \E i \in 1 .. Len(Stream) : IsRequest(Stream[i]) /\ Stream[i].id = q
    BY <1>1, <1>3 DEF NoneLost, IsRequest
  <2>1. q \in Request
    BY ServeAssumption DEF ServeAssumption, Request, TypeOK, ClientTypeOK
  <2>. QED
    BY <1>1, <1>2, <2>1 DEF StreamInv, NoneLost
<1>8. Coming' /\ Stamped'
  BY <1>1, <1>3, <1>4 DEF StreamInv, Coming, Stamped, After, IsRequest
<1>. QED
  BY <1>5, <1>6, <1>7, <1>8 DEF StreamInv

\* A pass begins with an empty queue, and no longer listens once it has put a
\* message there.
LEMMA AheadInv ==
    ASSUME TypeOK, NothingAhead, [Unbounded]_vars
    PROVE  NothingAhead'
<1>. USE DEF NothingAhead
<1>1. CASE Client
  BY <1>1, ClientAlone DEF serverVars, loopVars, passVars
<1>2. CASE Loop
  BY <1>2 DEF Loop, Receive, RefuseCancelled, ServeRequest, ServeShutdown, LeaveAfterShutdown,
     Notify, Ignore, Publish, ClientGone, Pop, passVars
<1>3. CASE Pass
  BY <1>3 DEF Pass, PublishUninferred, BeginPass, PickFile, ReadFile, EndWalk, AnswerInferring,
     IgnoreInferring, StopForMessage, StopForCheck, StopForNobody, EndPass, Overhear, Quiet,
     passVars
<1>4. ASSUME NEW r \in Request, FormatDone(r) PROVE NothingAhead'
  BY <1>4 DEF FormatDone, passVars
<1>5. ASSUME NEW checked \in Checked, CheckDone(checked) PROVE NothingAhead'
  BY <1>5 DEF CheckDone, passVars
<1>6. CASE Terminated \/ UNCHANGED vars
  BY <1>6 DEF Terminated, vars
<1>. QED
  BY <1>1, <1>2, <1>3, <1>4, <1>5, <1>6 DEF Unbounded, Next, CheckReturns

\* Every step keeps the invariant, given the types.
LEMMA NextInv ==
    ASSUME TypeOK, ServeInv, [Unbounded]_vars
    PROVE  ServeInv'
<1>1. StreamInv /\ NothingAhead
  BY DEF ServeInv, StreamInv
<1>2. ASSUME Loop PROVE StreamInv'
  BY <1>1, <1>2, TakenInv, MovedInv, AsideInv DEF Loop, Aside
<1>3. ASSUME Pass PROVE StreamInv'
  BY <1>1, <1>3, OverheardInv, MovedInv, AsideInv DEF Pass, Aside
<1>4. ASSUME NEW checked \in Checked, CheckDone(checked) PROVE StreamInv'
  BY <1>1, <1>4, AsideInv DEF Aside
<1>5. ASSUME Terminated \/ UNCHANGED vars PROVE StreamInv'
  <2>1. Stream' = Stream /\ UNCHANGED historyVars
    BY <1>5 DEF Terminated, vars, Stream, historyVars
  <2>. QED
    BY <1>1, <2>1, StayStep
<1>6. StreamInv'
  BY <1>1, <1>2, <1>3, <1>4, <1>5, ClientInv, FormatDoneInv DEF Unbounded, Next, CheckReturns
<1>. QED
  BY <1>1, <1>6, AheadInv DEF ServeInv, StreamInv

\* The invariant of the stream: whichever thread takes a message, it is the first
\* one the server has not handled; requests on their way are untouched, and none
\* is lost.
THEOREM StreamCorrect == Spec => []ServeInv
<1>1. TypeOK /\ ServeInv /\ [Next]_vars => ServeInv'
  BY NextInv DEF Unbounded
<1>. QED
  BY <1>1, InitInv, TypeCorrect, PTL DEF Spec

\* No request gets two answers, from whichever of the loop, a pass and a formatting
\* thread, cancelled or not.
THEOREM AnswersOnce == Spec => []AnsweredOnce
<1>1. ServeInv => AnsweredOnce
  BY DEF ServeInv
<1>. QED
  BY <1>1, StreamCorrect, PTL

\* An answer reflects exactly the notifications sent before its request, also when
\* it is given in the middle of a pass, ahead of the queue.
THEOREM AnswersSee == Spec => []SeesWhatPrecedes
<1>1. ServeInv => SeesWhatPrecedes
  BY DEF ServeInv
<1>. QED
  BY <1>1, StreamCorrect, PTL

\* Requests are answered in the order they were sent, but for those a formatting
\* thread holds.
THEOREM AnswersInOrder == Spec => []InOrder
<1>1. TypeOK /\ ServeInv => InOrder
  <2>. SUFFICES ASSUME TypeOK, ServeInv, NEW r \in Request, replies[r] > 0 \/ r \in formatting,
                       NEW earlier \in 1 .. r - 1
                PROVE  replies[earlier] > 0 \/ earlier \in formatting
    BY DEF InOrder
  <2>1. r \in Nat /\ lastId \in Nat /\ ~Untouched(r)
    BY ServeAssumption DEF ServeAssumption, Request, TypeOK, ClientTypeOK, Untouched
  <2>2. r <= lastId
    BY <2>1 DEF ServeInv, NotYetSent, Request
  <2>3. earlier \in 1 .. lastId /\ r >= earlier
    BY <2>1, <2>2
  <2>4. ASSUME NEW i \in 1 .. Len(Stream), IsRequest(Stream[i]), Stream[i].id = earlier
        PROVE  FALSE
    BY <2>1, <2>3, <2>4 DEF ServeInv, Coming
  <2>. QED
    BY <2>3, <2>4 DEF ServeInv, NoneLost
<1>. QED
  BY <1>1, TypeCorrect, StreamCorrect, PTL
=============================================================================

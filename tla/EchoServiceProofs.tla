-------------------------- MODULE EchoServiceProofs -------------------------
(***************************************************************************)
(* echo_loop for a client without faults, whatever the others do: its      *)
(* child is never left behind as a zombie, and it gets what EchoService    *)
(* promises, so that the server implements EchoService; and if all clients *)
(* are of this kind, run() uses nothing that is gone.  All of it holds     *)
(* until a descriptor is made at an address that an event of the batch     *)
(* still names (reused), wherever the descriptors are otherwise.           *)
(*                                                                         *)
(* Course follows the text of the message: from the socket into data, into *)
(* the pipe, through the child and into merged; nothing of it is lost or   *)
(* doubled on the way (Piped).  It rests on WInv: a resumed read() or      *)
(* waitpid() finds what it waited for, so merged.at() does not throw and   *)
(* the child is dead when it is waited for.  Hung says that doneReading is *)
(* never true of a pipe that is still written to, so that the loop of      *)
(* readpipe() ends with the whole text; Replied, that what was sent is     *)
(* always the beginning of the reply, nbSend bytes of it.                  *)
(***************************************************************************)
EXTENDS EchoWakeupProofs

USE NamesAssumption, HomeAssumption, PayloadAssumption, SizesAssumption

\* What the server writes to the child, and what the child writes in all.
Text(c) == EraseLine(Payload[c])
Prefix  == IF EchoCmd THEN <<"k", "n">> ELSE <<>>
Full(c) == Prefix \o Text(c)

\* The clients whose command has an output.
Talking == {c \in Calm : Full(c) # <<>>}

Ended(c) == child[c] \in {"exiting", "zombie", "reaped"}

\* What is still on its way to the child.
ToCome(c) == IF pc[c] = "write" THEN data[c] ELSE inp[c]

\* Where the text is, from fork() until the answer was read.
Piped(c) ==
  /\ child[c] # "none"
  /\ pc[c] = "write" => inp[c] = <<>>
  /\ child[c] = "echo" => EchoCmd /\ merged[c] = <<>> /\ outp[c] = <<>> /\ ToCome(c) = Text(c)
  /\ child[c] = "cat" =>
       \/ ToCome(c) = Text(c) /\ merged[c] \o outp[c] = Prefix
       \/ pc[c] # "write" /\ inp[c] = <<>> /\ merged[c] \o outp[c] = Full(c)
  /\ Ended(c) => pc[c] = "read" /\ merged[c] \o outp[c] = Full(c)

Early == {"new", "attach", "recv", "pipe", "pipeW", "fork"}

\* The course of the handler.
Course(c) ==
  /\ ~ orphan[c]
  /\ pc[c] \notin {"throw", "throwPid", "unwound"}
  /\ inq[c] \in {<<>>, Payload[c]}
  /\ pc[c] \in Early => child[c] = "none" /\ inp[c] = <<>> /\ outp[c] = <<>>
  /\ pc[c] \in {"pipe", "pipeW", "fork", "write", "closeW", "read"} => data[c] = Text(c)
  /\ pc[c] \in {"pipe", "pipeW", "fork", "write", "closeW"} => merged[c] = <<>>
  /\ pc[c] \in {"write", "closeW", "read"} => Piped(c)
  /\ pc[c] = "closePid" => child[c] = "reaped"

\* Only the end of the child hangs up its pipe.
Hung(c) ==
  fd[c]["rd"] # Null =>
    /\ doneRecv[fd[c]["rd"]] => Ended(c)
    /\ \A e \in events : e.ptr = fd[c]["rd"] /\ "HUP" \in e.ev => Ended(c)

\* A client's message is one line, or a command line and a text; what it is to
\* get back is the line or the text.
OneLine(s) == \A i \in 1..Len(s) : s[i] # "n"

Message(c, text) ==
  \/ OneLine(text) /\ Payload[c] = text
  \/ \E line \in Seq(Byte) : OneLine(line) /\ Payload[c] = (line \o <<"n">>) \o text

\* Each client expects its own text, which is one line unless the C library
\* writes the words of the command (echo_loop always erases the first line of
\* the output); and its length is a size_t.
Expected ==
  \A c \in Polite :
    /\ Reply[c] \in Seq(Byte) /\ Message(c, Reply[c]) /\ (EchoCmd \/ OneLine(Reply[c]))
    /\ Len(Reply[c]) < SizeMod

\* The places before the first send(), and those after the last.
Before == Early \cup {"write", "closeW", "read", "closeR"}
After  == {"wait", "closePid", "closeS", "end", "done"}

\* What was sent.
Replied(c) ==
  /\ pc[c] \in Before => got[c] = <<>> /\ outq[c] = <<>>
  /\ pc[c] = "closeR" => merged[c] = Full(c)
  /\ pc[c] = "send" => merged[c] = Reply[c] /\ got[c] \o outq[c] = SubSeq(Reply[c], 1, nbSend[c])
  /\ pc[c] \in After => got[c] \o outq[c] = Reply[c]

Courses == reused \/ \A c \in Talking : Course(c) /\ Hung(c)
Replies == reused \/ \A c \in Polite : Replied(c)

-----------------------------------------------------------------------------
(***************************************************************************)
(* Steps that are none of c's business.                                    *)
(***************************************************************************)

\* The connection, its child and the buffers of its handler are as they were.
Still(c) ==
  /\ pc'[c] = pc[c] /\ inq'[c] = inq[c] /\ data'[c] = data[c] /\ merged'[c] = merged[c]
  /\ child'[c] = child[c] /\ orphan'[c] = orphan[c] /\ inp'[c] = inp[c] /\ outp'[c] = outp[c]
  /\ nbSend'[c] = nbSend[c] /\ outq'[c] = outq[c] /\ got'[c] = got[c]

\* A handler that is not concerned by a step keeps its course.
LEMMA CourseKept ==
  ASSUME NEW c \in Conn, Course(c), Still(c)
  PROVE  Course(c)'
BY DEF Still, Course, Piped, ToCome, Ended

\* What a handler does to the connections of others: nothing.
LEMMA HandlerStill ==
  ASSUME App, NEW d \in Conn, NEW c \in Conn, c # d, Handler(d), ~ Crash(d)
  PROVE  Still(c)
<1> USE DEF Still, App, TypeOK, Bytes, Goto, appVars, accVars, bufVars, envVars, netVars, cmdVars
<1>1. CASE HandlerStart(d) \/ HandlerEnd(d)
  <2>1. CASE HandlerStart(d)
    BY <2>1 DEF HandlerStart
  <2>2. CASE HandlerEnd(d)
    BY <2>2 DEF HandlerEnd
  <2> QED
    BY <1>1, <2>1, <2>2
<1>2. CASE AttachSocket(d) \/ OpenRead(d) \/ OpenWrite(d) \/ Fork(d)
  <2>1. CASE AttachSocket(d)
    BY <2>1 DEF AttachSocket
  <2>2. CASE OpenRead(d)
    BY <2>2 DEF OpenRead
  <2>3. CASE OpenWrite(d)
    BY <2>3 DEF OpenWrite
  <2>4. CASE Fork(d)
    BY <2>4 DEF Fork
  <2> QED
    BY <1>2, <2>1, <2>2, <2>3, <2>4
<1>3. CASE CloseSocket(d) \/ FinishWriting(d) \/ UnwindRead(d)
  <2>1. CASE CloseSocket(d)
    BY <2>1 DEF CloseSocket
  <2>2. CASE FinishWriting(d)
    BY <2>2 DEF FinishWriting
  <2>3. CASE UnwindRead(d)
    BY <2>3 DEF UnwindRead
  <2> QED
    BY <1>3, <2>1, <2>2, <2>3
<1>4. CASE FinishReading(d) \/ CloseCommand(d)
  <2>1. CASE FinishReading(d)
    BY <2>1 DEF FinishReading
  <2>2. CASE CloseCommand(d)
    BY <2>2 DEF CloseCommand
  <2> QED
    BY <1>4, <2>1, <2>2
<1>5. CASE UnwindPid(d) \/ UnwindFrame(d)
  <2>1. CASE UnwindPid(d)
    BY <2>1 DEF UnwindPid
  <2>2. CASE UnwindFrame(d)
    BY <2>2 DEF UnwindFrame
  <2> QED
    BY <1>5, <2>1, <2>2
<1>6. CASE Recv(d) \/ Send(d)
  <2>1. CASE Recv(d)
    BY <2>1 DEF Recv
  <2>2. CASE Send(d)
    BY <2>2 DEF Send
  <2> QED
    BY <1>6, <2>1, <2>2
<1>7. CASE ReadPipe(d) \/ WaitChild(d) \/ WritePipe(d)
  <2>1. CASE ReadPipe(d)
    BY <2>1 DEF ReadPipe
  <2>2. CASE WaitChild(d)
    BY <2>2 DEF WaitChild
  <2>3. CASE WritePipe(d)
    BY <2>3 DEF WritePipe
  <2> QED
    BY <1>7, <2>1, <2>2, <2>3
<1>8. CASE Suspend(d, "recv", "sock", "IN", TRUE) \/ Suspend(d, "read", "rd", "IN", TRUE)
           \/ Suspend(d, "send", "sock", "OUT", TRUE) \/ WaitSuspend(d)
  BY <1>8 DEF Suspend, WaitSuspend
<1> QED
  BY <1>1, <1>2, <1>3, <1>4, <1>5, <1>6, <1>7, <1>8 DEF Handler

\* Nor do the clients and the children of others, ...
LEMMA OthersStill ==
  ASSUME App, NEW d \in Conn, NEW c \in Conn, c # d, ClientStep(d) \/ Child(d)
  PROVE  Still(c)
<1> USE DEF App, TypeOK, Bytes, Still, appVars, bufVars, netVars, cmdVars
<1>1. CASE ClientStep(d)
  BY <1>1 DEF ClientStep, Connect, ClientSend, ClientReset, ClientRead
<1>2. CASE Child(d)
  BY <1>2 DEF Child, ChildEcho, ChildCopy, ChildEof, ChildExit
<1> QED
  BY <1>1, <1>2

\* ... accept() and run() change anything for c.
LEMMA MainStill ==
  ASSUME NEW c \in Conn,
         MainStart \/ MainListen \/ Accept \/ AcceptSuspend \/ Run \/ Idle \/ UNCHANGED vars
  PROVE  Still(c)
BY DEF Still, MainStart, MainListen, Accept, AcceptSuspend, Run, Idle, vars, appVars, accVars,
       bufVars, envVars, netVars, cmdVars
-----------------------------------------------------------------------------
(***************************************************************************)
(* The client and the child of c.                                          *)
(***************************************************************************)

\* What the command is to write is made of bytes.
LEMMA FullBytes ==
  ASSUME NEW c \in Conn
  PROVE  Text(c) \in Seq(Byte) /\ Prefix \in Seq(Byte) /\ Full(c) \in Seq(Byte)
<1>1. Text(c) \in Seq(Byte)
  BY PayloadBytes, EraseLineType DEF Text
<1>2. Prefix \in Seq(Byte)
  BY PayloadBytes DEF Prefix
<1> QED
  BY <1>1, <1>2, ConcatProperties DEF Full

\* A calm client sends its message into an empty socket.
LEMMA ClientCourse ==
  ASSUME App, NEW c \in Calm, Asked(c), Course(c), ClientStep(c)
  PROVE  Course(c)'
<1>0. c \in Conn /\ Faults[c] = {}
  BY DEF Calm
<1>1. UNCHANGED <<pc, data, merged, child, orphan, inp, outp>>
  BY DEF ClientStep, Connect, ClientSend, ClientReset, ClientRead, appVars, bufVars, cmdVars
<1>2. inq'[c] \in {<<>>, Payload[c]}
  <2>1. CASE ClientSend(c, Payload[c], "open", "sent")
    <3>1. inq[c] = <<>> /\ inq'[c] = inq[c] \o Payload[c]
      BY <1>0, <2>1 DEF ClientSend, Asked, App, Bytes
    <3>2. <<>> \o Payload[c] = Payload[c]
      BY <1>0, PayloadBytes, ConcatEmptySeq
    <3> QED
      BY <3>1, <3>2
  <2>2. CASE Connect(c) \/ ClientRead(c)
    BY <2>2 DEF Connect, ClientRead, Course
  <2> QED
    BY <1>0, <2>1, <2>2 DEF ClientStep
<1> QED
  BY <1>1, <1>2 DEF Course, Piped, ToCome, Ended

\* The child of c changes its pipes only; what it did and has still to do
\* remains the whole of its output.
LEMMA ChildPiped ==
  ASSUME App, Files, NEW c \in Conn, Course(c), Child(c), pc[c] \in {"write", "closeW", "read"}
  PROVE  Piped(c)'
<1>0. UNCHANGED <<pc, data, merged>> /\ Piped(c)
  BY DEF Child, ChildEcho, ChildCopy, ChildEof, ChildExit, appVars, bufVars, Course
<1>1. /\ merged[c] \in Seq(Byte) /\ outp[c] \in Seq(Byte) /\ inp[c] \in Seq(Byte)
      /\ Text(c) \in Seq(Byte) /\ Prefix \in Seq(Byte) /\ Full(c) = Prefix \o Text(c)
  BY FullBytes DEF App, Bytes, Full
<1>2. CASE ChildEcho(c)
  <2>1. /\ child[c] = "echo" /\ child'[c] = "cat" /\ outp'[c] = outp[c] \o <<"k", "n">>
        /\ inp' = inp
    BY <1>2 DEF ChildEcho, App, TypeOK, Bytes
  <2>2. /\ EchoCmd /\ merged[c] = <<>> /\ outp[c] = <<>> /\ ToCome(c) = Text(c)
    BY <1>0, <2>1 DEF Piped
  <2>3. merged[c] \o (outp[c] \o <<"k", "n">>) = Prefix
    <3>1. <<>> \o <<"k", "n">> = <<"k", "n">>
      BY PayloadBytes, ConcatEmptySeq
    <3> QED
      BY <2>2, <3>1 DEF Prefix
  <2>4. ToCome(c)' = Text(c) /\ merged'[c] \o outp'[c] = Prefix
    BY <1>0, <2>1, <2>2, <2>3 DEF ToCome
  <2> QED
    BY <1>0, <2>1, <2>2, <2>3, <2>4 DEF Piped, Ended
<1>3. CASE ChildCopy(c)
  <2>1. fd[c]["rd"] # Null
    BY DEF Files, HeldAt, Held, Kinds
  <2>2. /\ child[c] = "cat" /\ child'[c] = "cat" /\ inp[c] # <<>> /\ inp'[c] = <<>>
        /\ outp'[c] = outp[c] \o inp[c]
    BY <1>3, <2>1 DEF ChildCopy, App, TypeOK, Bytes
  <2>3. pc[c] # "write" /\ inp[c] = Text(c) /\ merged[c] \o outp[c] = Prefix
    BY <1>0, <2>2 DEF Piped, ToCome
  <2>4. (merged[c] \o outp[c]) \o inp[c] = merged[c] \o (outp[c] \o inp[c])
    <3> DEFINE m == merged[c]
               o == outp[c]
               i == inp[c]
    <3>1. m \in Seq(Byte) /\ o \in Seq(Byte) /\ i \in Seq(Byte)
      BY <1>1
    <3> HIDE DEF m, o, i
    <3>2. (m \o o) \o i = m \o (o \o i)
      BY <3>1, ConcatAssociative
    <3> QED
      BY <3>2 DEF m, o, i
  <2>5. merged'[c] \o outp'[c] = Full(c)
    BY <1>0, <1>1, <2>2, <2>3, <2>4
  <2> QED
    BY <1>0, <2>2, <2>3, <2>5 DEF Piped, Ended
<1>4. CASE ChildEof(c)
  <2>1. pc[c] = "read"
    BY <1>4 DEF ChildEof, Files, HeldAt, Held, Kinds
  <2>2. child[c] = "cat" /\ child'[c] = "exiting" /\ inp[c] = <<>> /\ UNCHANGED <<inp, outp>>
    BY <1>4 DEF ChildEof, App, TypeOK
  <2>3. merged[c] \o outp[c] = Full(c)
    <3>1. Prefix \o <<>> = Prefix
      BY <1>1, ConcatEmptySeq
    <3> QED
      BY <1>0, <1>1, <2>1, <2>2, <3>1 DEF Piped, ToCome
  <2> QED
    BY <1>0, <2>1, <2>2, <2>3 DEF Piped, ToCome, Ended
<1>5. CASE ChildExit(c)
  <2>1. child[c] = "exiting" /\ child'[c] = "zombie" /\ UNCHANGED <<inp, outp>>
    BY <1>5 DEF ChildExit, App, TypeOK
  <2> QED
    BY <1>0, <2>1 DEF Piped, ToCome, Ended
<1> QED
  BY <1>2, <1>3, <1>4, <1>5 DEF Child

\* There is no child before fork(), and none that acts when it was waited for.
LEMMA ChildCourse ==
  ASSUME App, Files, NEW c \in Conn, Course(c), Child(c)
  PROVE  Course(c)'
<1>1. UNCHANGED <<pc, data, merged, inq, orphan>>
  BY DEF Child, ChildEcho, ChildCopy, ChildEof, ChildExit, appVars, bufVars, netVars
<1>2. child[c] \in {"echo", "cat", "exiting"}
  BY DEF Child, ChildEcho, ChildCopy, ChildEof, ChildExit
<1>3. pc[c] \notin Early /\ pc[c] # "closePid"
  BY <1>2 DEF Course
<1>4. pc[c] \in {"write", "closeW", "read"} => Piped(c)'
  BY ChildPiped
<1> QED
  BY <1>1, <1>3, <1>4 DEF Course
-----------------------------------------------------------------------------
(***************************************************************************)
(* Steps of the handler itself.                                            *)
(***************************************************************************)

\* The handler starts, makes its socket and, at the end, closes it and returns.
LEMMA EndsCourse ==
  ASSUME App, Queue, NEW c \in Conn, Course(c),
         HandlerStart(c) \/ AttachSocket(c) \/ CloseSocket(c) \/ HandlerEnd(c)
  PROVE  Course(c)'
<1>1. /\ UNCHANGED <<inq, data, merged, child, orphan, inp, outp>>
      /\ \/ pc[c] \in Early /\ pc'[c] \in {"attach", "recv"}
         \/ pc'[c] \in {"end", "done"}
  <2>1. UNCHANGED <<inq, data, merged, child, orphan, inp, outp>>
    BY DEF HandlerStart, AttachSocket, CloseSocket, HandlerEnd, bufVars, envVars, netVars, cmdVars
  <2>2. CASE HandlerStart(c)
    <3>1. c # Null /\ accepted = c /\ pc' = [pc EXCEPT ![c] = "attach"]
      BY <2>2 DEF HandlerStart
    <3> QED
      BY <2>1, <3>1 DEF Queue, Early, App, TypeOK
  <2>3. CASE AttachSocket(c) \/ CloseSocket(c) \/ HandlerEnd(c)
    BY <2>1, <2>3 DEF AttachSocket, CloseSocket, HandlerEnd, At, Goto, Early, App, TypeOK
  <2> QED
    BY <2>2, <2>3
<1> QED
  BY <1>1 DEF Course, Early

\* recv() gives echo_loop the text of the message.
LEMMA RecvCourse ==
  ASSUME App, Files, Loop, NEW c \in Conn, Calmly(c), Course(c), Recv(c)
  PROVE  Course(c)'
<1>1. pc[c] = "recv" /\ inq[c] # <<>> /\ pc'[c] = "pipe" /\ inq'[c] = <<>>
  BY RecvTakes
<1>2. /\ data'[c] = EraseLine(inq[c]) /\ merged'[c] = <<>>
      /\ UNCHANGED <<child, orphan, inp, outp>>
  BY DEF Recv, cmdVars, App, Bytes
<1>3. data'[c] = Text(c)
  BY <1>1, <1>2 DEF Course, Text
<1> QED
  BY <1>1, <1>2, <1>3 DEF Course, Early

\* The pipes are made, ...
LEMMA OpenCourse ==
  ASSUME App, NEW c \in Conn, Course(c), OpenRead(c) \/ OpenWrite(c)
  PROVE  Course(c)'
<1>1. /\ pc[c] \in {"pipe", "pipeW"} /\ pc'[c] \in {"pipeW", "fork"}
      /\ UNCHANGED <<inq, data, merged, child, orphan, inp, outp>>
  BY DEF OpenRead, OpenWrite, At, Goto, App, TypeOK, bufVars, envVars, netVars, cmdVars
<1> QED
  BY <1>1 DEF Course, Early

\* ... and the child, which has nothing to read yet, ...
LEMMA ForkCourse ==
  ASSUME App, NEW c \in Conn, Course(c), Fork(c)
  PROVE  Course(c)'
<1>1. /\ pc[c] = "fork" /\ pc'[c] = "write" /\ child'[c] = IF EchoCmd THEN "echo" ELSE "cat"
      /\ UNCHANGED <<inq, data, merged, orphan, inp, outp>>
  BY DEF Fork, At, Goto, App, TypeOK, bufVars, netVars
<1>2. /\ data[c] = Text(c) /\ merged[c] = <<>> /\ inp[c] = <<>> /\ outp[c] = <<>>
  BY <1>1 DEF Course, Early
<1>3. ~ EchoCmd => merged[c] \o outp[c] = Prefix
  BY <1>2 DEF Prefix
<1>4. Piped(c)'
  BY <1>1, <1>2, <1>3 DEF Piped, ToCome, Ended
<1> QED
  BY <1>1, <1>2, <1>4 DEF Course, Early

\* ... until the text is written to it.
LEMMA WriteCourse ==
  ASSUME App, NEW c \in Conn, Course(c), WritePipe(c) \/ FinishWriting(c)
  PROVE  Course(c)'
<1>1. CASE WritePipe(c)
  <2>1. /\ pc[c] = "write" /\ pc'[c] = "closeW" /\ inp'[c] = inp[c] \o data[c]
        /\ UNCHANGED <<inq, data, merged, child, orphan, outp>>
    BY <1>1 DEF WritePipe, At, Goto, App, TypeOK, Bytes, bufVars, netVars
  <2>2. Piped(c) /\ data[c] = Text(c) /\ merged[c] = <<>> /\ inp[c] = <<>>
    BY <2>1 DEF Course, Piped
  <2>3. <<>> \o data[c] = data[c]
    BY ConcatEmptySeq DEF App, Bytes
  <2>4. ToCome(c)' = Text(c) /\ ToCome(c) = Text(c)
    BY <2>1, <2>2, <2>3 DEF ToCome
  <2>5. Piped(c)'
    BY <2>1, <2>2, <2>4 DEF Piped, Ended
  <2> QED
    BY <2>1, <2>2, <2>5 DEF Course, Early
<1>2. CASE FinishWriting(c)
  <2>1. /\ pc[c] = "closeW" /\ pc'[c] = "read"
        /\ UNCHANGED <<inq, data, merged, child, orphan, inp, outp>>
    BY <1>2 DEF FinishWriting, At, Goto, App, TypeOK, bufVars, envVars, netVars, cmdVars
  <2>2. Piped(c)'
    BY <2>1 DEF Course, Piped, ToCome, Ended
  <2> QED
    BY <2>1, <2>2 DEF Course, Early
<1> QED
  BY <1>1, <1>2
\* readpipe() does not return empty-handed before something was read, so that
\* merged.at() does not throw.
LEMMA ReadsSome ==
  ASSUME App, Files, Loop, NEW c \in Talking, Calmly(c), Course(c), ReadPipe(c)
  PROVE  merged[c] \o outp[c] # <<>>
<1>0. c \in Conn /\ Full(c) # <<>>
  BY DEF Talking, Calm
<1>1. /\ pc[c] = "read" /\ Completes(c, fd[c]["rd"], "IN")
      /\ KindAt(pc[c]) = "rd" /\ DirAt(pc[c]) = "IN"
  BY DEF ReadPipe, At, KindAt, DirAt
<1>2. co[c] = "woken" \/ "IN" \in FileReady(c, "rd") \/ "HUP" \in FileReady(c, "rd")
  BY <1>0, <1>1, OwnCompleted
<1>3. outp[c] # <<>> \/ Ended(c)
  BY <1>0, <1>1, <1>2 DEF Calmly, Woken, FileReady, Ended
<1>4. CASE outp[c] # <<>>
  <2>1. merged[c] \in Seq(Byte) /\ outp[c] \in Seq(Byte)
    BY <1>0 DEF App, Bytes
  <2> QED
    BY <1>4, <2>1, ConcatEqualIffEmpty
<1>5. CASE Ended(c)
  BY <1>0, <1>1, <1>5 DEF Course, Piped
<1> QED
  BY <1>3, <1>4, <1>5

\* What was read moves from the pipe to merged.
LEMMA ReadCourse ==
  ASSUME App, Files, Loop, NEW c \in Talking, Calmly(c), Course(c), ReadPipe(c)
  PROVE  Course(c)'
<1>0. c \in Conn
  BY DEF Talking, Calm
<1> DEFINE m == merged[c] \o outp[c]
<1>1. m # <<>> /\ m \in Seq(Byte)
  BY <1>0, ReadsSome, ConcatProperties DEF App, Bytes
<1>2. /\ pc[c] = "read" /\ pc'[c] \in {"closeR", "read"} /\ merged'[c] = m /\ outp'[c] = <<>>
      /\ UNCHANGED <<inq, data, child, orphan, inp>>
  BY <1>0, <1>1 DEF ReadPipe, At, Goto, App, TypeOK, Bytes, netVars
<1>3. merged'[c] \o outp'[c] = m
  <2> HIDE DEF m
  <2> QED
    BY <1>1, <1>2, ConcatEmptySeq
<1>4. Piped(c) /\ data[c] = Text(c)
  BY <1>2 DEF Course
<1>5. child[c] # "echo"
  <2>1. <<>> \o <<>> = <<>>
    OBVIOUS
  <2> QED
    BY <1>1, <1>4, <2>1 DEF Piped
<1>6. pc'[c] = "read" => Piped(c)'
  BY <1>2, <1>3, <1>4, <1>5 DEF Piped, ToCome, Ended
<1> QED
  BY <1>2, <1>4, <1>6 DEF Course, Early

\* The rest of echo_loop leaves a child only when it was waited for: the pidfd
\* does not wake whaitforprocesstodie() before the child is dead.
LEMMA LateCourse ==
  ASSUME App, Files, Loop, NEW c \in Conn, Calmly(c), Course(c),
         FinishReading(c) \/ Send(c) \/ WaitChild(c) \/ WaitSuspend(c) \/ CloseCommand(c)
  PROVE  Course(c)'
<1>1. CASE FinishReading(c) \/ Send(c) \/ WaitSuspend(c)
  <2>1. pc'[c] \in {"wait", "send"} /\ UNCHANGED <<inq, orphan>>
    BY <1>1 DEF FinishReading, Send, WaitSuspend, At, Goto, App, TypeOK, envVars, netVars, cmdVars,
                appVars
  <2> QED
    BY <2>1 DEF Course, Early
<1>2. CASE WaitChild(c)
  <2>1. /\ pc[c] = "wait" /\ pc'[c] = "closePid" /\ UNCHANGED <<inq, orphan>>
        /\ child'[c] = IF child[c] = "zombie" THEN "reaped" ELSE Killed(child[c])
        /\ Completes(c, fd[c]["pid"], "IN") /\ KindAt(pc[c]) = "pid" /\ DirAt(pc[c]) = "IN"
    BY <1>2 DEF WaitChild, At, Goto, App, TypeOK, netVars, KindAt, DirAt
  <2>2. co[c] = "woken" \/ "IN" \in FileReady(c, "pid") \/ "HUP" \in FileReady(c, "pid")
    BY <2>1, OwnCompleted
  <2>3. Gone(c)
    BY <2>1, <2>2, ReadyFor DEF Calmly, Woken
  <2>4. child'[c] = "reaped"
    BY <2>1, <2>3 DEF Gone, Killed
  <2> QED
    BY <2>1, <2>4 DEF Course, Early
<1>3. CASE CloseCommand(c)
  <2>1. /\ pc[c] = "closePid" /\ pc'[c] = "closeS" /\ UNCHANGED inq
        /\ orphan'[c] = (orphan[c] \/ child[c] # "reaped")
    BY <1>3 DEF CloseCommand, At, Goto, App, TypeOK, netVars
  <2> QED
    BY <2>1 DEF Course, Early
<1> QED
  BY <1>1, <1>2, <1>3

\* The process ends with all its handlers.
LEMMA CrashCourse ==
  ASSUME App, NEW d \in Conn, NEW c \in Conn, Course(c), Crash(d)
  PROVE  Course(c)'
<1>1. pc'[c] = "dead" /\ UNCHANGED <<inq, orphan>>
  BY DEF Crash, cmdVars
<1> QED
  BY <1>1 DEF Course, Early

\* In every step of the system the handler keeps its course.
LEMMA CourseInv ==
  ASSUME App, Files, Loop, WInv, ~ reused, [Next]_vars, NEW c \in Talking, Course(c)
  PROVE  Course(c)'
<1>0. c \in Conn /\ c \in Calm /\ Calmly(c) /\ Asked(c) /\ Queue
  BY DEF Talking, Calm, WInv, Calmly
<1>1. ASSUME Handler(c) PROVE Course(c)'
  <2>1. CASE HandlerStart(c) \/ AttachSocket(c) \/ CloseSocket(c) \/ HandlerEnd(c)
    BY <1>0, <2>1, EndsCourse
  <2>2. CASE Recv(c) \/ OpenRead(c) \/ OpenWrite(c) \/ Fork(c) \/ WritePipe(c) \/ FinishWriting(c)
    BY <1>0, <2>2, RecvCourse, OpenCourse, ForkCourse, WriteCourse
  <2>3. CASE ReadPipe(c)
    BY <1>0, <2>3, ReadCourse
  <2>4. CASE FinishReading(c) \/ Send(c) \/ WaitChild(c) \/ WaitSuspend(c) \/ CloseCommand(c)
    BY <1>0, <2>4, LateCourse
  <2>5. CASE \/ Suspend(c, "recv", "sock", "IN", TRUE) \/ Suspend(c, "read", "rd", "IN", TRUE)
             \/ Suspend(c, "send", "sock", "OUT", TRUE)
    <3>1. Still(c)
      BY <2>5 DEF Suspend, Still, appVars, bufVars, envVars, netVars, cmdVars
    <3> QED
      BY <1>0, <3>1, CourseKept
  <2>6. ~ UnwindRead(c) /\ ~ UnwindPid(c) /\ ~ UnwindFrame(c)
    BY DEF UnwindRead, UnwindPid, UnwindFrame, At, Course
  <2>7. CASE Crash(c)
    BY <1>0, <2>7, CrashCourse
  <2> QED
    BY <1>1, <2>1, <2>2, <2>3, <2>4, <2>5, <2>6, <2>7 DEF Handler
<1>2. ASSUME NEW d \in Conn, Handler(d) PROVE Course(c)'
  <2>1. CASE d # c /\ ~ Crash(d)
    BY <1>0, <1>2, <2>1, HandlerStill, CourseKept
  <2>2. CASE Crash(d)
    BY <1>0, <2>2, CrashCourse
  <2> QED
    BY <1>1, <1>2, <2>1, <2>2
<1>3. ASSUME NEW d \in Conn, ClientStep(d) \/ Child(d) PROVE Course(c)'
  <2>1. CASE d # c
    BY <1>0, <1>3, <2>1, OthersStill, CourseKept
  <2>2. CASE d = c
    BY <1>0, <1>3, <2>2, ClientCourse, ChildCourse
  <2> QED
    BY <2>1, <2>2
<1>4. CASE MainStart \/ MainListen \/ Accept \/ AcceptSuspend \/ Run \/ Idle \/ UNCHANGED vars
  BY <1>0, <1>4, MainStill, CourseKept
<1> QED
  BY <1>2, <1>3, <1>4 DEF Next

\* The course of every handler begins well.
LEMMA InitCourse ==
  ASSUME Init, NEW c \in Conn
  PROVE  Course(c)
BY DEF Init, Course, Early
-----------------------------------------------------------------------------
(***************************************************************************)
(* doneReading.                                                            *)
(***************************************************************************)

\* run() sets doneRecv for a hang-up that epoll_wait reported, and that was one.
Announced ==
  /\ \A a \in Desc : doneRecv'[a] => doneRecv[a] \/ \E e \in events : e.ptr = a /\ "HUP" \in e.ev
  /\ \A e \in events' : e \in events \/ e.ev \subseteq Poll[e.ptr]

\* The reactor does nothing else to doneRecv, in any step.
LEMMA ReactorAnnounced ==
  ASSUME Loop, [IO!Next]_(IO!vars)
  PROVE  Announced
<1> USE DEF Announced, Loop
<1>1. CASE UNCHANGED <<doneRecv, events>>
  BY <1>1
<1>2. ASSUME NEW k \in Conn \cup {Acceptor}, IO!CoroStep(k) PROVE Announced
  <2>1. CASE IO!Spawn(k) \/ IO!Finish(k) \/ IO!AwaitResume(k) \/ IO!EndFrame(k)
    BY <1>1, <2>1 DEF IO!Spawn, IO!Finish, IO!AwaitResume, IO!EndFrame, IO!afdVars, IO!loopVars
  <2>2. ASSUME NEW a \in Desc, IO!AwaitFail(k, a) PROVE Announced
    BY <2>2 DEF IO!AwaitFail, IO!ForAll
  <2>3. ASSUME NEW a \in Desc, IO!Destroy(k, a) PROVE Announced
    BY <2>3 DEF IO!Destroy
  <2>4. ASSUME NEW a \in Desc, NEW dir, IO!AwaitDone(k, a, dir) PROVE Announced
    BY <1>1, <2>4 DEF IO!AwaitDone
  <2>5. ASSUME NEW a \in Desc, NEW dir, NEW watch, IO!AwaitSuspend(k, a, dir, watch)
        PROVE  Announced
    BY <1>1, <2>5 DEF IO!AwaitSuspend
  <2>6. ASSUME NEW a \in Desc, NEW mask, NEW r, NEW watch, IO!Construct(k, a, mask, r, watch)
        PROVE  Announced
    BY <2>6 DEF IO!Construct
  <2> QED
    BY <1>2, <2>1, <2>2, <2>3, <2>4, <2>5, <2>6 DEF IO!CoroStep
<1>3. CASE IO!EpollWait
  BY <1>3 DEF IO!EpollWait, IO!afdVars, IO!Reported
<1>4. ASSUME NEW e \in events, IO!DispatchIn(e) PROVE Announced
  BY <1>4 DEF IO!DispatchIn
<1>5. ASSUME NEW e \in events, IO!DispatchUnmanaged(e) PROVE Announced
  BY <1>5 DEF IO!DispatchUnmanaged, IO!afdVars
<1>6. ASSUME NEW a \in half, IO!DispatchOut(a) PROVE Announced
  BY <1>1, <1>6 DEF IO!DispatchOut, IO!afdVars
<1>7. CASE IO!ApplyMod
  BY <1>7 DEF IO!ApplyMod
<1>8. CASE IO!KernelStep
  BY <1>1, <1>8 DEF IO!KernelStep, IO!Arrive, IO!afdVars, IO!loopVars
<1>9. CASE UNCHANGED IO!vars
  BY <1>1, <1>9 DEF IO!vars, IO!afdVars, IO!loopVars
<1> QED
  BY <1>2, <1>3, <1>4, <1>5, <1>6, <1>7, <1>8, <1>9 DEF IO!Next, IO!RunStep
\* A child that has closed its output does not come back.
LEMMA EndedKept ==
  ASSUME App, NEW c \in Conn, Course(c), Ended(c), [Next]_vars
  PROVE  Ended(c)'
<1> USE DEF App, TypeOK, Ended
<1>1. ASSUME Handler(c) PROVE Ended(c)'
  <2>1. CASE UNCHANGED child
    BY <2>1
  <2>2. CASE WaitChild(c) \/ WaitSuspend(c)
    BY <2>2 DEF WaitChild, WaitSuspend, Killed
  <2>3. ~ Fork(c) /\ ~ UnwindPid(c)
    BY DEF Fork, UnwindPid, At, Course, Early
  <2> QED
    BY <1>1, <2>1, <2>2, <2>3
    DEF Handler, HandlerStart, AttachSocket, CloseSocket, HandlerEnd, Recv, Suspend,
        OpenRead, OpenWrite, WritePipe, FinishWriting, ReadPipe, FinishReading, Send,
        CloseCommand, UnwindRead, UnwindFrame, Crash, envVars, cmdVars
<1>2. ASSUME NEW d \in Conn, Handler(d), d # c PROVE Ended(c)'
  <2>1. CASE Crash(d)
    BY <2>1 DEF Crash, cmdVars
  <2>2. CASE ~ Crash(d)
    BY <1>2, <2>2, HandlerStill DEF Still
  <2> QED
    BY <2>1, <2>2
<1>3. ASSUME NEW d \in Conn, ClientStep(d) \/ Child(d) PROVE Ended(c)'
  <2>1. CASE d # c
    BY <1>3, <2>1, OthersStill DEF Still
  <2>2. CASE ClientStep(c)
    BY <2>2 DEF ClientStep, Connect, ClientSend, ClientReset, ClientRead, cmdVars
  <2>3. CASE Child(c)
    BY <2>3 DEF Child, ChildEcho, ChildCopy, ChildEof, ChildExit
  <2> QED
    BY <1>3, <2>1, <2>2, <2>3
<1>4. CASE MainStart \/ MainListen \/ Accept \/ AcceptSuspend \/ Run \/ Idle \/ UNCHANGED vars
  BY <1>4, MainStill DEF Still
<1> QED
  BY <1>1, <1>2, <1>3, <1>4 DEF Next

\* The descriptor of the pipe from the child is made once and destroyed.
LEMMA ReadEnd ==
  ASSUME App, NEW c \in Conn, [Next]_vars, ~ OpenRead(c)
  PROVE  fd'[c]["rd"] \in {fd[c]["rd"], Null}
<1> USE DEF App, TypeOK
<1>0. "rd" \in Kinds /\ "sock" \in Kinds /\ "wr" \in Kinds /\ "pid" \in Kinds
  BY DEF Kinds
<1>1. ASSUME Handler(c) PROVE fd'[c]["rd"] \in {fd[c]["rd"], Null}
  <2>1. CASE UNCHANGED fd
    BY <2>1
  <2>2. CASE AttachSocket(c) \/ OpenWrite(c) \/ Fork(c)
    <3>1. \E k \in {"sock", "wr", "pid"}, a \in Desc : fd' = [fd EXCEPT ![c][k] = a]
      BY <1>0, <2>2 DEF AttachSocket, OpenWrite, Fork, Open
    <3> QED
      BY <1>0, <3>1
  <2>3. CASE CloseSocket(c) \/ FinishWriting(c) \/ FinishReading(c) \/ CloseCommand(c)
             \/ UnwindRead(c) \/ UnwindPid(c)
    <3>1. \E k \in Kinds : fd' = [fd EXCEPT ![c][k] = Null]
      BY <1>0, <2>3
      DEF CloseSocket, FinishWriting, FinishReading, CloseCommand, UnwindRead, UnwindPid, Close
    <3> QED
      BY <1>0, <3>1
  <2>4. CASE Crash(c)
    BY <1>0, <2>4 DEF Crash
  <2> QED
    BY <1>1, <2>1, <2>2, <2>3, <2>4
    DEF Handler, HandlerStart, HandlerEnd, Recv, Suspend, WritePipe, ReadPipe, Send,
        WaitChild, WaitSuspend, UnwindFrame, appVars
<1>2. ASSUME NEW d \in Conn, Handler(d), d # c PROVE fd'[c]["rd"] \in {fd[c]["rd"], Null}
  <2>1. CASE Crash(d)
    BY <1>0, <2>1 DEF Crash
  <2>2. CASE ~ Crash(d)
    BY <1>2, <2>2, HandlerFrame DEF Same
  <2> QED
    BY <2>1, <2>2
<1>3. ASSUME NEW d \in Conn, ClientStep(d) \/ Child(d) PROVE UNCHANGED fd
  BY <1>3 DEF ClientStep, Connect, ClientSend, ClientReset, ClientRead,
              Child, ChildEcho, ChildCopy, ChildEof, ChildExit, appVars
<1>4. CASE MainStart \/ MainListen \/ Accept \/ AcceptSuspend \/ Run \/ Idle \/ UNCHANGED vars
  BY <1>4 DEF MainStart, MainListen, Accept, AcceptSuspend, Run, Idle, vars, appVars
<1> QED
  BY <1>1, <1>2, <1>3, <1>4 DEF Next

\* So doneReading is said of the pipe only when the child has closed it: no
\* notification of an earlier pipe is left when it is made.
LEMMA HungInv ==
  ASSUME App, Files, Loop, ~ reused', [Next]_vars, NEW c \in Calm, Course(c), Hung(c)
  PROVE  Hung(c)'
<1>0. c \in Conn /\ "rd" \in Kinds
  BY DEF Calm, Kinds
<1>1. CASE OpenRead(c)
  <2>1. Open(c, "rd", {"IN"}, {})
    BY <1>1 DEF OpenRead
  <2>2. PICK a \in Home[<<c, "rd">>] : /\ fd' = [fd EXCEPT ![c]["rd"] = a]
                                       /\ reused' = (reused \/ Named(a))
                                       /\ IO!Construct(c, a, {"IN"}, {}, FALSE)
    BY <2>1 DEF Open
  <2>3. a \in Desc /\ ~ Named(a)
    BY <1>0, <2>2
  <2>4. fd'[c]["rd"] = a
    BY <1>0, <2>2 DEF App, TypeOK
  <2>5. ~ doneRecv'[a] /\ events' = events
    BY <2>2, <2>3 DEF IO!Construct, Loop
  <2>6. \A e \in events : e.ptr # a
    BY <2>3 DEF Named
  <2> QED
    BY <2>4, <2>5, <2>6 DEF Hung
<1>2. CASE ~ OpenRead(c)
  <2> SUFFICES ASSUME fd'[c]["rd"] # Null PROVE Hung(c)'
    BY DEF Hung
  <2> DEFINE a == fd[c]["rd"]
  <2>1. fd'[c]["rd"] = a /\ a # Null
    BY <1>0, <1>2, ReadEnd
  <2>2. a \in Desc /\ Poll[a] = FileReady(c, "rd")
    BY <1>0, <2>1, PollAt
  <2>3. Announced
    BY StepSimulation, ReactorAnnounced
  <2>4. Ended(c) => Ended(c)'
    BY <1>0, EndedKept
  <2>5. "HUP" \in Poll[a] => Ended(c)
    BY <2>2 DEF FileReady, Ended
  <2>6. /\ doneRecv[a] => Ended(c)
        /\ \A e \in events : e.ptr = a /\ "HUP" \in e.ev => Ended(c)
    BY <2>1 DEF Hung
  <2> HIDE DEF a
  <2>7. doneRecv'[a] => Ended(c)
    BY <2>2, <2>3, <2>6 DEF Announced
  <2>8. \A e \in events' : e.ptr = a /\ "HUP" \in e.ev => Ended(c)
    BY <2>3, <2>5, <2>6 DEF Announced
  <2> QED
    BY <2>1, <2>4, <2>7, <2>8 DEF Hung
<1> QED
  BY <1>1, <1>2

\* The handlers of all talking clients keep their course.
LEMMA CoursesHold == Spec => []Courses
<1>1. Init => Courses
  <2> SUFFICES ASSUME Init PROVE Courses
    OBVIOUS
  <2>1. ASSUME NEW c \in Conn PROVE Course(c) /\ Hung(c)
    <3>1. fd[c]["rd"] = Null
      BY DEF Init, Kinds
    <3> QED
      BY <3>1, InitCourse DEF Hung
  <2> QED
    BY <2>1 DEF Courses, Talking, Calm
<1>2. App /\ Files /\ Loop /\ WInv /\ Courses /\ [Next]_vars => Courses'
  <2> SUFFICES ASSUME App, Files, Loop, WInv, Courses, [Next]_vars, ~ reused' PROVE Courses'
    BY DEF Courses
  <2>0. ~ reused
    BY ReusedStays
  <2>1. ASSUME NEW c \in Talking PROVE Course(c)' /\ Hung(c)'
    <3>1. Course(c) /\ Hung(c) /\ c \in Calm
      BY <2>0 DEF Courses, Talking
    <3> QED
      BY <2>0, <3>1, CourseInv, HungInv
  <2> QED
    BY <2>1 DEF Courses, Talking, Calm, Full, Prefix, Text
<1> QED
  BY <1>1, <1>2, Invariance, LoopHolds, WakeupInv, PTL DEF Spec

\* No child of a calm client's command is left behind, whatever the other
\* clients do, if the command writes anything at all: the exception of
\* merged.at() is not thrown, and asyncecho.reset() finds the child waited for;
\* until an address is used again that the batch still names.
THEOREM CalmReaped == Spec => [](reused \/ \A c \in Talking : ~ orphan[c])
<1>1. Courses => reused \/ \A c \in Talking : ~ orphan[c]
  BY DEF Courses, Course
<1> QED
  BY <1>1, CoursesHold, PTL

\* If all clients are calm and all commands write something, no finished handler
\* leaves a zombie.
THEOREM AlwaysReaped ==
  ASSUME \A c \in Conn : Faults[c] = {} /\ Full(c) # <<>>
  PROVE  Spec => []Reaped
<1>1. (reused \/ \A c \in Talking : ~ orphan[c]) => Reaped
  BY DEF Talking, Calm, Reaped
<1> QED
  BY <1>1, CalmReaped, PTL
-----------------------------------------------------------------------------
(***************************************************************************)
(* Nothing that is gone is used.                                           *)
(***************************************************************************)

\* No handle of a frame that ended is stored; an event of the batch is for
\* reading or for writing, so that between the halves of an iteration nobody
\* runs, and nobody destroys the descriptor.
Intact ==
  /\ \A a \in Desc : coroRecv[a] # Lost /\ coroSend[a] # Lost
  /\ \A e \in events : ~ ("IN" \in e.ev /\ "OUT" \in e.ev)
  /\ half \subseteq managed_fd /\ \A a, b \in half : a = b
  /\ half # {} => \A k \in Conn \cup {Acceptor} : co[k] \notin {"run", "woken"}
  /\ phase \notin {"freedOut", "gone"}

\* A coroutine runs only between the iterations, and stores its own handle.
LEMMA ActsIntact ==
  ASSUME Files, Loop, Intact, NEW k \in Conn \cup {Acceptor}, Acts(k)
  PROVE  Intact'
<1>0. Reactor /\ k \notin {Null, Lost}
  BY DEF Files
<1>1. UNCHANGED <<events, half, phase>>
  BY <1>0, ActsKeep DEF Keeps
<1>2. half = {}
  <2>1. phase = "boot" \/ \E j \in Conn \cup {Acceptor} : co[j] \in {"run", "woken"}
    BY DEF Acts, IO!Spawn, IO!Running, IO!Finish, IO!AwaitResume, IO!Destroy, IO!Construct,
           IO!AwaitDone, IO!AwaitSuspend, IO!Runs
  <2> QED
    BY <2>1 DEF Loop, Intact
<1>3. ASSUME NEW b \in Desc
      PROVE  coroRecv'[b] \in {coroRecv[b], Null, k} /\ coroSend'[b] \in {coroSend[b], Null, k}
  <2> USE DEF Loop
  <2>1. CASE IO!Spawn(k) \/ IO!Finish(k) \/ IO!AwaitResume(k)
    BY <2>1 DEF IO!Spawn, IO!Finish, IO!AwaitResume, IO!afdVars
  <2>2. ASSUME NEW a \in Desc, IO!Destroy(k, a)
        PROVE  coroRecv'[b] \in {coroRecv[b], Null, k} /\ coroSend'[b] \in {coroSend[b], Null, k}
    BY <2>2 DEF IO!Destroy
  <2>3. ASSUME NEW a \in Desc, NEW mask, NEW r, NEW watch, IO!Construct(k, a, mask, r, watch)
        PROVE  coroRecv'[b] \in {coroRecv[b], Null, k} /\ coroSend'[b] \in {coroSend[b], Null, k}
    BY <2>3 DEF IO!Construct
  <2>4. ASSUME NEW a \in Desc, NEW dir, NEW watch,
               IO!AwaitDone(k, a, dir) \/ IO!AwaitSuspend(k, a, dir, watch)
        PROVE  coroRecv'[b] \in {coroRecv[b], Null, k} /\ coroSend'[b] \in {coroSend[b], Null, k}
    BY <2>4 DEF IO!AwaitDone, IO!AwaitSuspend
  <2> QED
    BY <2>1, <2>2, <2>3, <2>4 DEF Acts
<1>4. Null # Lost
  OBVIOUS
<1> QED
  BY <1>0, <1>1, <1>2, <1>3, <1>4 DEF Intact

\* epoll_wait never reports both directions of a descriptor at once.
LEMMA OneWay ==
  ASSUME App, Files, Loop, \A c \in Conn : Calmly(c), phase \in {"boot", "wait"},
         \A k \in Conn \cup {Acceptor} : co[k] \notin {"run", "woken"},
         NEW e, e.ptr \in ready, e.ev = IO!Reported(Poll[e.ptr], interest[e.ptr])
  PROVE  ~ ("IN" \in e.ev /\ "OUT" \in e.ev)
<1> DEFINE a == e.ptr
<1>1. a \in Desc /\ owner[a] # Null /\ e.ev \subseteq Poll[a]
  BY DEF Loop, IO!Reported
<1>2. CASE owner[a] = Acceptor
  BY <1>1, <1>2 DEF Poll
<1>3. CASE owner[a] \in Conn
  <2> DEFINE c == owner[a]
  <2>1. PICK k \in Kinds : fd[c][k] = a
    BY <1>1, <1>3 DEF Files, Accounted
  <2>2. a # Null
    BY <1>1
  <2>3. Poll[a] = FileReady(c, k)
    BY <1>3, <2>1, <2>2, PollAt
  <2>4. CASE k = "sock"
    <3> SUFFICES ASSUME "IN" \in e.ev, "OUT" \in e.ev PROVE FALSE
      OBVIOUS
    <3>1. EventTrue(c, e)
      BY <1>3, ReportTrue
    <3>2. pc[c] = "recv" /\ pc[c] = "send"
      BY <2>1, <2>4, <3>1 DEF EventTrue
    <3> QED
      BY <3>2
  <2>5. CASE k \in {"rd", "wr", "pid"}
    BY <1>1, <2>3, <2>5 DEF FileReady
  <2> QED
    BY <2>4, <2>5 DEF Kinds
<1> QED
  BY <1>1, <1>2, <1>3 DEF Files, Reactor

\* A stored handle of a live descriptor is that of a coroutine that is there.
LEMMA HandleThere ==
  ASSUME Loop, Intact, NEW a \in managed_fd
  PROVE  a \in IO!Live /\ ~ IO!Gone(coroRecv[a]) /\ ~ IO!Gone(coroSend[a])
<1>1. a \in Desc /\ owner[a] # Null /\ co[owner[a]] # "idle"
  BY DEF Loop
<1>2. coroRecv[a] \in {Null, owner[a]} /\ coroSend[a] \in {Null, owner[a]}
  BY <1>1 DEF Loop, Intact
<1>3. Null # Lost /\ Null \notin Conn \cup {Acceptor}
  OBVIOUS
<1>4. coroRecv[a] # Lost /\ coroSend[a] # Lost
  BY <1>1 DEF Intact
<1> QED
  BY <1>1, <1>2, <1>3, <1>4 DEF IO!Live, IO!Gone

\* run() finds what it uses.
LEMMA RunIntact ==
  ASSUME App, Files, Loop, Intact, \A c \in Conn : Calmly(c), Run
  PROVE  Intact'
<1>1. CASE IO!EpollWait
  <2>1. /\ UNCHANGED <<coroRecv, coroSend>> /\ half' = {} /\ phase' = "dispatch"
        /\ phase \in {"boot", "wait"}
        /\ \A k \in Conn \cup {Acceptor} : co[k] \notin {"run", "woken"}
        /\ \A e \in events' : e.ptr \in ready /\ e.ev = IO!Reported(Poll[e.ptr], interest[e.ptr])
    BY <1>1 DEF IO!EpollWait, IO!afdVars, IO!Running, Loop
  <2>2. ASSUME NEW e \in events' PROVE ~ ("IN" \in e.ev /\ "OUT" \in e.ev)
    BY <2>1, OneWay
  <2> QED
    BY <2>1, <2>2 DEF Intact
<1>2. ASSUME NEW e \in events, IO!DispatchIn(e) PROVE Intact'
  <2>1. /\ UNCHANGED <<coroRecv, coroSend, managed_fd>> /\ events' = events \ {e}
        /\ half' = (IF "OUT" \in e.ev THEN {e.ptr} ELSE {}) /\ e.ptr \in managed_fd
        /\ "IN" \notin e.ev => co' = co
        /\ \A k \in Conn \cup {Acceptor} : co[k] \notin {"run", "woken"}
        /\ phase' = IF e.ptr \notin IO!Live THEN "freed"
                    ELSE IF "IN" \in e.ev /\ IO!Gone(coroRecv[e.ptr]) THEN "gone" ELSE phase
    BY <1>2 DEF IO!DispatchIn, IO!Managed, IO!OutTest, IO!Running
  <2>2. phase' = phase
    BY <2>1, HandleThere
  <2>3. half' # {} => co' = co
    BY <1>2, <2>1 DEF Intact
  <2> QED
    BY <2>1, <2>2, <2>3 DEF Intact
<1>3. ASSUME NEW a \in half, IO!DispatchOut(a) PROVE Intact'
  <2>1. /\ UNCHANGED <<coroRecv, coroSend, managed_fd, events>> /\ half' = half \ {a}
        /\ phase' = IF a \notin IO!Live THEN "freedOut"
                    ELSE IF IO!Gone(coroSend[a]) THEN "gone" ELSE phase
    BY <1>3 DEF IO!DispatchOut, IO!afdVars
  <2>2. half' = {} /\ a \in managed_fd
    BY <2>1 DEF Intact
  <2>3. phase' = phase
    BY <2>1, <2>2, HandleThere
  <2> QED
    BY <2>1, <2>2, <2>3 DEF Intact
<1>4. ASSUME NEW e \in events, IO!DispatchUnmanaged(e) PROVE Intact'
  <2>1. /\ UNCHANGED <<coroRecv, coroSend, managed_fd, co, half, phase>> /\ events' = events \ {e}
    BY <1>4 DEF IO!DispatchUnmanaged, IO!afdVars, IO!coroVars
  <2> QED
    BY <2>1 DEF Intact
<1>5. CASE IO!ApplyMod
  <2>1. /\ UNCHANGED <<coroRecv, coroSend, managed_fd, co, half, events>> /\ phase' \in {"wait", "freed"}
    BY <1>5 DEF IO!ApplyMod, IO!coroVars
  <2> QED
    BY <2>1 DEF Intact
<1> QED
  BY <1>1, <1>2, <1>3, <1>4, <1>5 DEF Run, IO!RunStep

\* No step of the system leaves run() with anything that is gone, if all clients
\* are calm and all commands write something.
LEMMA IntactInv ==
  ASSUME \A c \in Conn : c \in Talking, App, Files, Loop, WInv, Courses, ~ reused, Intact,
         [Next]_vars
  PROVE  Intact'
<1>0. \A c \in Conn : Calmly(c) /\ Course(c)
  BY DEF Courses, WInv, Talking
<1>1. CASE UNCHANGED <<coroRecv, coroSend, managed_fd, co, half, events, phase>>
  BY <1>1 DEF Intact
<1>2. CASE MainStart \/ MainListen \/ Accept \/ AcceptSuspend
  <2>1. Acceptor \in Conn \cup {Acceptor}
    OBVIOUS
  <2> QED
    BY <1>2, <2>1, AcceptActs, ActsIntact
<1>3. ASSUME NEW d \in Conn, Handler(d) PROVE Intact'
  <2>1. CASE Crash(d)
    <3>1. IO!AwaitFail(d, fd[d]["sock"]) /\ Null # Lost
      BY <2>1 DEF Crash
    <3> QED
      BY <3>1 DEF IO!AwaitFail, IO!ForAll, Intact
  <2>2. ~ UnwindFrame(d)
    BY <1>0 DEF UnwindFrame, At, Course
  <2>3. CASE ~ Crash(d)
    <3>1. Acts(d) /\ d \in Conn \cup {Acceptor}
      BY <1>3, <2>2, <2>3, HandlerActs
    <3> QED
      BY <3>1, ActsIntact
  <2> QED
    BY <2>1, <2>3
<1>4. ASSUME NEW d \in Conn, ClientStep(d) \/ Child(d) PROVE Intact'
  <2>1. \E a, F : Signal(a, F)
    BY <1>4 DEF ClientStep, Connect, ClientSend, ClientReset, ClientRead,
                Child, ChildEcho, ChildCopy, ChildEof, ChildExit
  <2> QED
    BY <1>1, <2>1 DEF Signal, IO!Arrive, IO!afdVars, IO!loopVars, IO!coroVars, ioVars, ioRest
<1>5. CASE Idle \/ UNCHANGED vars
  BY <1>1, <1>5 DEF Idle, vars, ioVars, ioRest
<1> QED
  BY <1>0, <1>2, <1>3, <1>4, <1>5, RunIntact DEF Next

\* If all clients are calm and all commands write something, run() never resumes
\* a coroutine that is gone nor uses a freed descriptor, although it does not look
\* at managed_fd again between the halves of an iteration; until an address is
\* used again that the batch still names.
THEOREM AlwaysSound ==
  ASSUME \A c \in Conn : Faults[c] = {} /\ Full(c) # <<>>
  PROVE  Spec => [](reused \/ Sound)
<1>0. \A c \in Conn : c \in Talking
  BY DEF Talking, Calm
<1>1. Init => Intact
  <2> SUFFICES ASSUME Init PROVE Intact
    OBVIOUS
  <2>1. IO!Init /\ Null # Lost
    BY DEF Init
  <2> QED
    BY <2>1 DEF IO!Init, IO!ForAll, Intact
<1>2. App /\ Files /\ Loop /\ WInv /\ Courses /\ (reused \/ Intact) /\ [Next]_vars
        => (reused \/ Intact)'
  <2> SUFFICES ASSUME App, Files, Loop, WInv, Courses, reused \/ Intact, [Next]_vars, ~ reused'
               PROVE  Intact'
    OBVIOUS
  <2>1. ~ reused
    BY ReusedStays
  <2> QED
    BY <1>0, <2>1, IntactInv
<1>3. IO!NoDangling /\ (reused \/ Intact) => reused \/ Sound
  BY DEF IO!NoDangling, Intact, Sound, IO!Undefined
<1> QED
  BY <1>1, <1>2, <1>3, Invariance, LoopHolds, WakeupInv, CoursesHold, ReactorSafe, PTL DEF Spec
-----------------------------------------------------------------------------
(***************************************************************************)
(* The answer.                                                             *)
(***************************************************************************)

\* erase(0, find('\n') + 1) erases the first line, ...
LEMMA EraseFirst ==
  ASSUME NEW line \in Seq(Byte), NEW text \in Seq(Byte), OneLine(line)
  PROVE  EraseLine((line \o <<"n">>) \o text) = text
<1> DEFINE l == line \o <<"n">>
           s == l \o text
           m == Len(line) + 1
           nl == {i \in 1..Len(s) : s[i] = "n"}
           first == CHOOSE i \in nl : \A j \in nl : i <= j
<1>0. "n" \in Byte /\ <<"n">> \in Seq(Byte) /\ Len(line) \in Nat /\ Len(text) \in Nat
  BY PayloadBytes, LenProperties
<1>1. l \in Seq(Byte) /\ Len(l) = m /\ l[m] = "n" /\ \A i \in 1..Len(line) : l[i] = line[i]
  BY <1>0
<1> HIDE DEF l
<1>2. /\ s \in Seq(Byte) /\ Len(s) = m + Len(text)
      /\ \A i \in 1..m : s[i] = l[i]
      /\ \A i \in 1..Len(text) : s[m + i] = text[i]
  <2>1. /\ s \in Seq(Byte) /\ Len(s) = Len(l) + Len(text)
        /\ \A i \in 1..(Len(l) + Len(text)) :
             s[i] = IF i <= Len(l) THEN l[i] ELSE text[i - Len(l)]
    <3>1. l \in Seq(Byte)
      BY <1>1
    <3> QED
      BY <3>1, ConcatProperties
  <2>2. Len(l) = m /\ m \in Nat
    BY <1>0, <1>1
  <2> HIDE DEF s, m
  <2>3. ASSUME NEW i \in 1..m PROVE s[i] = l[i]
    <3>1. i \in 1..(m + Len(text)) /\ i <= m
      BY <1>0, <2>2
    <3> QED
      BY <2>1, <2>2, <3>1
  <2>4. ASSUME NEW i \in 1..Len(text) PROVE s[m + i] = text[i]
    <3>1. m + i \in 1..(m + Len(text)) /\ ~ (m + i <= m) /\ (m + i) - m = i
      BY <1>0, <2>2
    <3> QED
      BY <2>1, <2>2, <3>1
  <2> QED
    BY <2>1, <2>2, <2>3, <2>4
<1>3. m \in nl /\ \A j \in nl : m <= j
  <2> HIDE DEF s
  <2>1. m \in 1..Len(s) /\ m \in 1..m
    BY <1>0, <1>2
  <2>2. ASSUME NEW j \in 1..Len(s), s[j] = "n", j < m PROVE FALSE
    <3>1. j \in 1..m /\ j \in 1..Len(line)
      BY <1>0, <2>2
    <3> QED
      BY <1>1, <1>2, <2>2, <3>1 DEF OneLine
  <2> QED
    BY <1>0, <1>1, <1>2, <2>1, <2>2
<1>4. nl \subseteq Int /\ m \in Int
  BY <1>0
<1>5. first = m
  <2>1. first \in nl /\ \A j \in nl : first <= j
    <3> HIDE DEF nl, m
    <3> QED
      BY <1>3
  <2>2. first \in Int /\ first <= m /\ m <= first
    <3> HIDE DEF nl, first, m
    <3> QED
      BY <1>3, <1>4, <2>1
  <2> HIDE DEF first, m
  <2> QED
    BY <1>4, <2>2
<1>6. SubSeq(s, m + 1, Len(s)) = text
  <2> HIDE DEF s
  <2> QED
    BY <1>0, <1>2
<1>7. nl # {}
  BY <1>3
<1> HIDE DEF s, nl, first, m
<1>8. EraseLine(s) = SubSeq(s, first + 1, Len(s))
  BY <1>7 DEF EraseLine, nl, first
<1> QED
  BY <1>5, <1>6, <1>8 DEF s, l

\* ... and nothing of a string without a newline.
LEMMA EraseNone ==
  ASSUME NEW s, OneLine(s)
  PROVE  EraseLine(s) = s
BY DEF EraseLine, OneLine

\* What is written to the child is the client's text.
LEMMA TextIs ==
  ASSUME NEW c \in Conn, NEW text \in Seq(Byte), Message(c, text)
  PROVE  Text(c) = text
<1>1. CASE OneLine(text) /\ Payload[c] = text
  BY <1>1, EraseNone DEF Text
<1>2. ASSUME NEW line \in Seq(Byte), OneLine(line), Payload[c] = (line \o <<"n">>) \o text
      PROVE  Text(c) = text
  BY <1>2, EraseFirst DEF Text
<1> QED
  BY <1>1, <1>2 DEF Message

\* The command of a polite client has an output, and its last lines are the
\* client's text.
LEMMA PoliteTalks ==
  ASSUME Expected, NEW c \in Polite
  PROVE  /\ c \in Conn /\ c \in Talking /\ Reply[c] = EraseLine(Full(c))
         /\ Reply[c] \in Seq(Byte) /\ Reply[c] # <<>> /\ Len(Reply[c]) < SizeMod
<1>1. /\ c \in Conn /\ Faults[c] = {} /\ Reply[c] # <<>> /\ Reply[c] \in Seq(Byte)
      /\ Message(c, Reply[c]) /\ (EchoCmd \/ OneLine(Reply[c])) /\ Len(Reply[c]) < SizeMod
  BY DEF Polite, Expected
<1>2. Text(c) = Reply[c]
  BY <1>1, TextIs
<1>3. Reply[c] = EraseLine(Full(c))
  <2>1. CASE EchoCmd
    <3>1. <<"k">> \in Seq(Byte) /\ OneLine(<<"k">>)
      BY PayloadBytes DEF OneLine
    <3>2. EraseLine((<<"k">> \o <<"n">>) \o Reply[c]) = Reply[c]
      BY <1>1, <3>1, EraseFirst
    <3>3. Full(c) = (<<"k">> \o <<"n">>) \o Reply[c]
      <4>1. <<"k", "n">> = <<"k">> \o <<"n">>
        OBVIOUS
      <4>2. Prefix = <<"k">> \o <<"n">>
        BY <2>1, <4>1 DEF Prefix
      <4> QED
        BY <1>2, <4>2, Zenon DEF Full
    <3> QED
      BY <3>2, <3>3
  <2>2. CASE ~ EchoCmd
    <3>1. Full(c) = Reply[c]
      BY <1>1, <1>2, <2>2, ConcatEmptySeq DEF Full, Prefix
    <3> QED
      BY <1>1, <2>2, <3>1, EraseNone
  <2> QED
    BY <2>1, <2>2
<1>4. Full(c) # <<>>
  BY <1>1, <1>3, EraseNone DEF OneLine
<1> QED
  BY <1>1, <1>3, <1>4 DEF Talking, Calm

\* The loop of readpipe() ends with all that the child wrote: what it echoes of
\* the command ends in a newline, and the end of the pipe comes after the text.
LEMMA ReadsAll ==
  ASSUME App, Files, Loop, NEW c \in Talking, Calmly(c), Course(c), Hung(c), ReadPipe(c)
  PROVE  pc'[c] = "read" \/ (pc'[c] = "closeR" /\ merged'[c] = Full(c))
<1>0. c \in Conn
  BY DEF Talking, Calm
<1> DEFINE m == merged[c] \o outp[c]
<1>1. m # <<>>
  BY ReadsSome
<1>2. /\ pc[c] = "read" /\ merged'[c] = m /\ fd[c]["rd"] # Null
      /\ pc'[c] = IF LoopEnds(c, m) THEN "closeR" ELSE "read"
  BY <1>0, <1>1 DEF ReadPipe, At, Goto, App, TypeOK, Bytes, Files, HeldAt, Held, Kinds
<1>3. Piped(c)
  BY <1>2 DEF Course
<1>4. CASE m = Full(c)
  BY <1>2, <1>4
<1>5. CASE m # Full(c)
  <2>1. ~ Ended(c)
    BY <1>3, <1>5 DEF Piped
  <2>2. child[c] \in {"echo", "cat"}
    BY <1>0, <1>3, <2>1 DEF Piped, Ended, App, TypeOK
  <2>3. child[c] # "echo"
    <3>1. <<>> \o <<>> = <<>>
      OBVIOUS
    <3> QED
      BY <1>1, <1>3, <3>1 DEF Piped
  <2>4. m = Prefix
    BY <1>3, <1>5, <2>2, <2>3 DEF Piped
  <2>5. m[Len(m)] = "n"
    <3>1. m = <<"k", "n">>
      BY <1>1, <2>4 DEF Prefix
    <3> HIDE DEF m
    <3> QED
      BY <3>1
  <2>6. ~ PipeEnd(c) /\ ~ doneRecv[fd[c]["rd"]]
    BY <1>2, <2>1 DEF PipeEnd, Hung, Ended
  <2> HIDE DEF m
  <2> QED
    BY <1>2, <2>5, <2>6 DEF LoopEnds
<1> QED
  BY <1>4, <1>5
\* socket.send() sends what comes next of the reply, and some of it: it is not
\* tried in vain, which would set nbSend back.
LEMMA SendsNext ==
  ASSUME App, Files, Loop, Expected, NEW c \in Polite, Calmly(c), Replied(c), Send(c)
  PROVE  /\ pc[c] = "send" /\ merged'[c] = Reply[c] /\ cl'[c] = cl[c]
         /\ nbSend[c] \in Nat /\ nbSend'[c] \in (nbSend[c] + 1)..Len(Reply[c])
         /\ got'[c] \o outq'[c] = SubSeq(Reply[c], 1, nbSend'[c])
         /\ pc'[c] = IF nbSend'[c] < Len(Reply[c]) THEN "send" ELSE "wait"
<1>0. c \in Conn /\ Reply[c] \in Seq(Byte) /\ Len(Reply[c]) \in Nat /\ Len(Reply[c]) < SizeMod
  BY PoliteTalks, LenProperties
<1> DEFINE n == Taken(c)
           i == nbSend[c]
           s == SubSeq(merged[c], i + 1, i + n)
<1>1. /\ pc[c] = "send" /\ co[c] \in {"run", "woken"} /\ Completes(c, fd[c]["sock"], "OUT")
      /\ KindAt(pc[c]) = "sock" /\ DirAt(pc[c]) = "OUT"
      /\ outq'[c] = outq[c] \o s /\ cl' = Told(c)
      /\ nbSend'[c] = Advance(i, IF n = 0 THEN -1 ELSE n)
      /\ pc'[c] = IF nbSend'[c] < Len(merged[c]) THEN "send" ELSE "wait"
      /\ UNCHANGED <<merged, got>>
  BY <1>0 DEF Send, At, Goto, KindAt, DirAt, App, TypeOK, Bytes
<1>2. merged[c] = Reply[c] /\ got[c] \o outq[c] = SubSeq(Reply[c], 1, i)
  BY <1>1 DEF Replied
<1>3. i \in Nat /\ i < Len(Reply[c])
  <2>1. i \in Nat
    BY <1>0 DEF App, TypeOK
  <2>2. i < Len(merged[c])
    BY <1>0, <1>1 DEF App, Sending
  <2> QED
    BY <1>2, <2>1, <2>2
<1>4. Room(c) /\ Len(outq[c]) \in Nat
  <2>1. co[c] = "woken" \/ "OUT" \in FileReady(c, "sock") \/ "HUP" \in FileReady(c, "sock")
    BY <1>0, <1>1, OwnCompleted
  <2>2. Room(c)
    BY <1>0, <1>1, <2>1, ReadyFor DEF Calmly, Woken
  <2> QED
    BY <1>0, <2>2 DEF App, Bytes
<1>5. cl[c] # "reset"
  BY <1>0 DEF Calmly, Asked
<1>6. n \in 1..(Len(Reply[c]) - i)
  <2>1. n = Lesser(SendCap - Len(outq[c]), Len(Reply[c]) - i)
    BY <1>2, <1>5 DEF Taken
  <2>2. SendCap - Len(outq[c]) \in Nat \ {0} /\ Len(Reply[c]) - i \in Nat \ {0}
    BY <1>0, <1>3, <1>4 DEF Room
  <2> HIDE DEF n
  <2> QED
    BY <1>0, <1>3, <2>1, <2>2 DEF Lesser
<1>7. cl'[c] = cl[c]
  BY <1>0, <1>1, <1>5 DEF Told, App, TypeOK
<1>8. nbSend'[c] = i + n
  <2>1. n # 0 /\ i + n \in 0..(SizeMod - 1)
    <3> HIDE DEF n, i
    <3> QED
      BY <1>0, <1>3, <1>6
  <2>2. (i + n) % SizeMod = i + n
    <3> HIDE DEF n, i
    <3> QED
      BY <2>1
  <2> QED
    BY <1>1, <2>1, <2>2 DEF Advance
<1>9. got'[c] \o outq'[c] = SubSeq(Reply[c], 1, i + n)
  <2> DEFINE g == got[c]
             q == outq[c]
             r == Reply[c]
  <2>1. g \in Seq(Byte) /\ q \in Seq(Byte) /\ r \in Seq(Byte)
    BY <1>0 DEF App, Bytes
  <2>2. s = SubSeq(r, i + 1, i + n) /\ g \o q = SubSeq(r, 1, i)
    BY <1>2
  <2>3. got'[c] \o outq'[c] = g \o (q \o s)
    BY <1>1
  <2>4. Len(r) \in Nat /\ i \in Nat /\ i < Len(r) /\ n \in 1..(Len(r) - i)
    BY <1>0, <1>3, <1>6
  <2> HIDE DEF n, i, s, g, q, r
  <2>5. s \in Seq(Byte)
    <3>1. \A j \in (i + 1)..(i + n) : r[j] \in Byte
      <4>1. \A j \in (i + 1)..(i + n) : j \in 1..Len(r)
        BY <2>4
      <4> QED
        BY <2>1, <4>1, ElementOfSeq
    <3>2. i + 1 \in Int /\ i + n \in Int
      BY <2>4
    <3> QED
      BY <2>2, <3>1, <3>2, SubSeqProperties
  <2>6. (g \o q) \o s = g \o (q \o s)
    BY <2>1, <2>5, ConcatAssociative
  <2>7. SubSeq(r, 1, i) \o SubSeq(r, i + 1, i + n) = SubSeq(r, 1, i + n)
    <3>1. 1 \in 1..Len(r) + 1 /\ i \in (1 - 1)..Len(r) /\ i + n \in i..Len(r)
      BY <2>4
    <3> QED
      BY <2>1, <3>1, ConcatAdjacentSubSeq
  <2> QED
    BY <2>2, <2>3, <2>6, <2>7 DEF r
<1>10. i + n \in (i + 1)..Len(Reply[c])
  <2> HIDE DEF n, i
  <2> QED
    BY <1>0, <1>3, <1>6
<1> HIDE DEF n, s
<1> QED
  BY <1>1, <1>2, <1>3, <1>7, <1>8, <1>9, <1>10
\* A handler keeps what it replied while neither it nor the client moves bytes.
LEMMA RepliedKept ==
  ASSUME NEW c \in Conn, Replied(c), UNCHANGED <<got, outq>>,
         \/ pc[c] \in Before /\ pc'[c] \in Before \ {"closeR"}
         \/ pc[c] \in After /\ pc'[c] \in After
         \/ pc'[c] = pc[c] /\ merged'[c] = merged[c] /\ nbSend'[c] = nbSend[c]
  PROVE  Replied(c)'
BY DEF Replied, Before, After, Early

\* The client reads what was sent, and sends.
LEMMA ClientReplied ==
  ASSUME App, NEW c \in Conn, Replied(c), ClientStep(c), Faults[c] = {}
  PROVE  Replied(c)'
<1>0. UNCHANGED <<pc, merged, nbSend>>
  BY DEF ClientStep, Connect, ClientSend, ClientReset, ClientRead, appVars, bufVars
<1>1. CASE ClientRead(c)
  <2>1. outq[c] # <<>> /\ got'[c] = got[c] \o outq[c] /\ outq'[c] = <<>>
    BY <1>1 DEF ClientRead, App, Bytes
  <2>2. got'[c] \o outq'[c] = got[c] \o outq[c]
    <3> DEFINE g == got[c] \o outq[c]
    <3>1. g \in Seq(Byte) /\ got'[c] = g
      BY <2>1, ConcatProperties DEF App, Bytes
    <3> HIDE DEF g
    <3>2. g \o <<>> = g
      BY <3>1, ConcatEmptySeq
    <3> QED
      BY <2>1, <3>1, <3>2 DEF g
  <2> QED
    BY <1>0, <2>1, <2>2 DEF Replied
<1>2. CASE ~ ClientRead(c)
  <2>1. UNCHANGED <<got, outq>>
    BY <1>2 DEF ClientStep, Connect, ClientSend
  <2> QED
    BY <1>0, <2>1, RepliedKept
<1> QED
  BY <1>1, <1>2

\* echo_loop sends the reply, all of it, once.
LEMMA HandlerReplied ==
  ASSUME App, Files, Loop, Queue, Expected, NEW c \in Polite, Calmly(c), Course(c), Hung(c),
         Replied(c), Handler(c)
  PROVE  Replied(c)'
<1>0. c \in Conn /\ c \in Talking /\ Reply[c] = EraseLine(Full(c)) /\ Reply[c] \in Seq(Byte)
      /\ Reply[c] # <<>>
  BY PoliteTalks
<1>1. CASE HandlerStart(c) \/ AttachSocket(c) \/ OpenRead(c) \/ OpenWrite(c) \/ Fork(c)
           \/ WritePipe(c) \/ FinishWriting(c)
  <2>1. UNCHANGED <<got, outq>>
    BY <1>1 DEF HandlerStart, AttachSocket, OpenRead, OpenWrite, Fork, WritePipe, FinishWriting,
                envVars, netVars
  <2>2. CASE HandlerStart(c)
    <3>1. c # Null /\ accepted = c /\ pc' = [pc EXCEPT ![c] = "attach"]
      BY <1>0, <2>2 DEF HandlerStart
    <3>2. pc[c] = "new" /\ pc'[c] = "attach"
      BY <1>0, <3>1 DEF Queue, App, TypeOK
    <3>3. pc[c] \in Before /\ pc'[c] \in Before \ {"closeR"}
      BY <3>2 DEF Before, Early
    <3> QED
      BY <1>0, <2>1, <3>3, RepliedKept
  <2>3. CASE ~ HandlerStart(c)
    <3>1. pc[c] \in Before /\ pc'[c] \in Before \ {"closeR"}
      BY <1>0, <1>1, <2>3 DEF AttachSocket, OpenRead, OpenWrite, Fork, WritePipe, FinishWriting,
                  At, Goto, Before, Early, App, TypeOK
    <3> QED
      BY <1>0, <2>1, <3>1, RepliedKept
  <2> QED
    BY <2>2, <2>3
<1>2. CASE Recv(c)
  <2>1. pc[c] = "recv" /\ pc'[c] = "pipe"
    BY <1>0, <1>2, RecvTakes
  <2>2. UNCHANGED <<got, outq>> /\ pc[c] \in Before /\ pc'[c] \in Before \ {"closeR"}
    BY <1>2, <2>1 DEF Recv, Before, Early
  <2> QED
    BY <1>0, <2>2, RepliedKept
<1>3. CASE ReadPipe(c)
  <2>1. pc'[c] = "read" \/ (pc'[c] = "closeR" /\ merged'[c] = Full(c))
    BY <1>0, <1>3, ReadsAll
  <2>2. pc[c] = "read" /\ UNCHANGED <<got, outq>>
    BY <1>3 DEF ReadPipe, At, netVars
  <2> QED
    BY <2>1, <2>2 DEF Replied, Before, After, Early
<1>4. CASE FinishReading(c)
  <2>1. /\ pc[c] = "closeR" /\ merged'[c] = EraseLine(merged[c]) /\ UNCHANGED <<got, outq, nbSend>>
        /\ pc'[c] = IF EraseLine(merged[c]) = <<>> THEN "wait" ELSE "send"
    BY <1>0, <1>4 DEF FinishReading, At, Goto, App, TypeOK, Bytes, envVars, netVars
  <2>2. merged[c] = Full(c) /\ got[c] = <<>> /\ outq[c] = <<>> /\ nbSend[c] = 0
    BY <1>0, <2>1 DEF Replied, Before, App, Sending
  <2>3. pc'[c] = "send" /\ merged'[c] = Reply[c]
    BY <1>0, <2>1, <2>2
  <2>4. <<>> \o <<>> = SubSeq(Reply[c], 1, 0)
    BY <1>0
  <2>5. got'[c] \o outq'[c] = SubSeq(Reply[c], 1, nbSend'[c])
    BY <2>1, <2>2, <2>4
  <2> QED
    BY <2>3, <2>5 DEF Replied, Before, After, Early
<1>5. CASE Send(c)
  <2>1. /\ merged'[c] = Reply[c] /\ nbSend[c] \in Nat
        /\ nbSend'[c] \in (nbSend[c] + 1)..Len(Reply[c])
        /\ got'[c] \o outq'[c] = SubSeq(Reply[c], 1, nbSend'[c])
        /\ pc'[c] = IF nbSend'[c] < Len(Reply[c]) THEN "send" ELSE "wait"
    BY <1>5, SendsNext
  <2>2. CASE nbSend'[c] < Len(Reply[c])
    BY <2>1, <2>2 DEF Replied, Before, After, Early
  <2>3. CASE ~ (nbSend'[c] < Len(Reply[c]))
    <3>1. nbSend'[c] = Len(Reply[c])
      <4>1. Len(Reply[c]) \in Nat
        BY <1>0, LenProperties
      <4> QED
        BY <2>1, <2>3, <4>1
    <3>2. SubSeq(Reply[c], 1, Len(Reply[c])) = Reply[c]
      BY <1>0, SubSeqFull
    <3> QED
      BY <2>1, <2>3, <3>1, <3>2 DEF Replied, Before, After, Early
  <2> QED
    BY <2>2, <2>3
<1>6. CASE WaitChild(c) \/ WaitSuspend(c) \/ CloseCommand(c) \/ CloseSocket(c) \/ HandlerEnd(c)
  <2>1. UNCHANGED <<got, outq>> /\ pc[c] \in After /\ pc'[c] \in After
    BY <1>0, <1>6 DEF WaitChild, WaitSuspend, CloseCommand, CloseSocket, HandlerEnd, At, Goto,
                      After, App, TypeOK, appVars, envVars, netVars
  <2> QED
    BY <1>0, <2>1, RepliedKept
<1>7. CASE \/ Suspend(c, "recv", "sock", "IN", TRUE) \/ Suspend(c, "read", "rd", "IN", TRUE)
           \/ Suspend(c, "send", "sock", "OUT", TRUE)
  <2>1. UNCHANGED <<pc, merged, nbSend, got, outq>>
    BY <1>7 DEF Suspend, appVars, bufVars, envVars, netVars
  <2> QED
    BY <1>0, <2>1, RepliedKept
<1>8. ~ UnwindRead(c) /\ ~ UnwindPid(c) /\ ~ UnwindFrame(c)
  BY DEF UnwindRead, UnwindPid, UnwindFrame, At, Course
<1>9. CASE Crash(c)
  <2>1. pc'[c] = "dead"
    BY <1>0, <1>9 DEF Crash
  <2> QED
    BY <2>1 DEF Replied, Before, After, Early
<1> QED
  BY <1>1, <1>2, <1>3, <1>4, <1>5, <1>6, <1>7, <1>8, <1>9 DEF Handler
\* What was replied stays right in every step of the system.
LEMMA RepliedInv ==
  ASSUME App, Files, Loop, WInv, ~ reused, Expected, [Next]_vars,
         NEW c \in Polite, Course(c), Hung(c), Replied(c)
  PROVE  Replied(c)'
<1>0. c \in Conn /\ c \in Talking /\ c \in Calm /\ Faults[c] = {} /\ Calmly(c) /\ Queue
  BY PoliteTalks DEF Talking, Calm, WInv
<1>1. ASSUME Still(c) PROVE Replied(c)'
  BY <1>1 DEF Still, Replied
<1>2. ASSUME NEW d \in Conn, Handler(d) PROVE Replied(c)'
  <2>1. CASE d # c /\ ~ Crash(d)
    BY <1>0, <1>1, <1>2, <2>1, HandlerStill
  <2>2. CASE Crash(d)
    <3>1. pc'[c] = "dead"
      BY <1>0, <2>2 DEF Crash
    <3> QED
      BY <3>1 DEF Replied, Before, After, Early
  <2>3. CASE d = c
    BY <1>0, <1>2, <2>3, HandlerReplied
  <2> QED
    BY <2>1, <2>2, <2>3
<1>3. ASSUME NEW d \in Conn, ClientStep(d) \/ Child(d) PROVE Replied(c)'
  <2>1. CASE d # c
    BY <1>0, <1>1, <1>3, <2>1, OthersStill
  <2>2. CASE ClientStep(c)
    BY <1>0, <2>2, ClientReplied
  <2>3. CASE Child(c)
    <3>1. UNCHANGED <<pc, merged, nbSend, got, outq>>
      BY <2>3 DEF Child, ChildEcho, ChildCopy, ChildEof, ChildExit, appVars, bufVars, netVars
    <3> QED
      BY <1>0, <3>1, RepliedKept
  <2> QED
    BY <1>3, <2>1, <2>2, <2>3
<1>4. CASE MainStart \/ MainListen \/ Accept \/ AcceptSuspend \/ Run \/ Idle \/ UNCHANGED vars
  BY <1>0, <1>1, <1>4, MainStill
<1> QED
  BY <1>2, <1>3, <1>4 DEF Next

\* What was sent is right in every state.
LEMMA RepliesHold ==
  ASSUME Expected
  PROVE  Spec => []Replies
<1>1. Init => Replies
  BY DEF Init, Replies, Replied, Polite, After
<1>2. App /\ Files /\ Loop /\ WInv /\ Courses /\ Replies /\ [Next]_vars => Replies'
  <2> SUFFICES ASSUME App, Files, Loop, WInv, Courses, Replies, [Next]_vars, ~ reused'
               PROVE  Replies'
    BY DEF Replies
  <2>0. ~ reused
    BY ReusedStays
  <2>1. ASSUME NEW c \in Polite PROVE Replied(c)'
    <3>1. Replied(c) /\ c \in Talking
      BY <2>0, PoliteTalks DEF Replies
    <3>2. Course(c) /\ Hung(c)
      BY <2>0, <3>1 DEF Courses
    <3> QED
      BY <2>0, <3>1, <3>2, RepliedInv
  <2> QED
    BY <2>1 DEF Replies, Polite
<1> QED
  BY <1>1, <1>2, Invariance, LoopHolds, WakeupInv, CoursesHold, PTL DEF Spec
-----------------------------------------------------------------------------
(***************************************************************************)
(* The refinement.                                                         *)
(***************************************************************************)

\* What EchoService sees of a client, while the server is not excused.
Seen(c) == IF pc[c] \in {"end", "done"} THEN "closed"
           ELSE IF cl[c] = "sent" THEN "asked" ELSE "idle"
Sent(c) == got[c] \o outq[c]

Unseen(c) == Seen(c)' = Seen(c) /\ Sent(c)' = Sent(c)

\* A step of one client, or of none.
LEMMA ServiceStep ==
  ASSUME ~ Excused, ~ Excused', NEW d \in Polite,
         \A c \in Polite : c # d => Unseen(c),
         \/ Unseen(d)
         \/ Seen(d) = "idle" /\ Seen(d)' = "asked" /\ Sent(d)' = Sent(d)
         \/ /\ Seen(d) = "asked" /\ Seen(d)' = "asked"
            /\ \E n \in Len(Sent(d))..Len(Reply[d]) : Sent(d)' = SubSeq(Reply[d], 1, n)
         \/ Seen(d) = "asked" /\ Sent(d) = Reply[d] /\ Seen(d)' = "closed" /\ Sent(d)' = Sent(d)
  PROVE  [Service!Next]_(Service!vars)
<1>1. CASE Unseen(d)
  <2>1. \A c \in Polite : Unseen(c)
    BY <1>1
  <2> QED
    BY <2>1 DEF Unseen, Seen, Sent, Service!vars
<1>2. CASE Seen(d) = "idle" /\ Seen(d)' = "asked" /\ Sent(d)' = Sent(d)
  <2>1. Service!Ask(d)
    BY <1>2 DEF Unseen, Seen, Sent, Service!Ask
  <2> QED
    BY <2>1 DEF Service!Next
<1>3. CASE /\ Seen(d) = "asked" /\ Seen(d)' = "asked"
           /\ \E n \in Len(Sent(d))..Len(Reply[d]) : Sent(d)' = SubSeq(Reply[d], 1, n)
  <2>1. Service!Answer(d)
    BY <1>3 DEF Unseen, Seen, Sent, Service!Answer
  <2> QED
    BY <2>1 DEF Service!Next
<1>4. CASE Seen(d) = "asked" /\ Sent(d) = Reply[d] /\ Seen(d)' = "closed" /\ Sent(d)' = Sent(d)
  <2>1. Service!Close(d)
    BY <1>4 DEF Unseen, Seen, Sent, Service!Close
  <2> QED
    BY <2>1 DEF Service!Next
<1> QED
  BY <1>1, <1>2, <1>3, <1>4
\* Nothing is seen of a step that leaves the connection alone.
LEMMA StillUnseen ==
  ASSUME NEW c \in Conn, Still(c), cl'[c] = cl[c]
  PROVE  Unseen(c)
BY DEF Still, Unseen, Seen, Sent

\* A step of the handler of a polite client: its answers and the end of the
\* connection are seen, and nothing else.
LEMMA HandlerService ==
  ASSUME App, Files, Loop, Queue, Expected, NEW d \in Polite, Calmly(d), Course(d), Replied(d),
         Handler(d), ~ Crash(d)
  PROVE  \/ Unseen(d)
         \/ /\ Seen(d) = "asked" /\ Seen(d)' = "asked"
            /\ \E n \in Len(Sent(d))..Len(Reply[d]) : Sent(d)' = SubSeq(Reply[d], 1, n)
         \/ Seen(d) = "asked" /\ Sent(d) = Reply[d] /\ Seen(d)' = "closed" /\ Sent(d)' = Sent(d)
<1>0. d \in Conn /\ Reply[d] \in Seq(Byte)
  BY PoliteTalks
<1>1. CASE Send(d)
  <2>1. /\ pc[d] = "send" /\ cl'[d] = cl[d] /\ pc'[d] \in {"send", "wait"}
        /\ nbSend[d] \in Nat /\ nbSend'[d] \in (nbSend[d] + 1)..Len(Reply[d])
        /\ Sent(d)' = SubSeq(Reply[d], 1, nbSend'[d])
    BY <1>1, SendsNext DEF Sent
  <2>2. cl[d] = "sent"
    BY <2>1 DEF Calmly, Asked
  <2>3. Len(Sent(d)) = nbSend[d]
    <3>1. Sent(d) = SubSeq(Reply[d], 1, nbSend[d])
      BY <2>1 DEF Replied, Sent
    <3>2. nbSend[d] <= Len(Reply[d]) /\ Len(Reply[d]) \in Nat
      BY <1>0, <2>1, LenProperties
    <3> QED
      BY <1>0, <2>1, <3>1, <3>2
  <2>4. nbSend'[d] \in Len(Sent(d))..Len(Reply[d])
    BY <1>0, <2>1, <2>3, LenProperties
  <2> QED
    BY <2>1, <2>2, <2>4 DEF Seen
<1>2. CASE CloseSocket(d)
  <2>1. pc[d] = "closeS" /\ pc'[d] = "end" /\ UNCHANGED <<cl, got, outq>>
    BY <1>0, <1>2 DEF CloseSocket, At, Goto, App, TypeOK, envVars, netVars
  <2>2. cl[d] = "sent" /\ Sent(d) = Reply[d]
    BY <2>1 DEF Calmly, Asked, Replied, After, Sent
  <2> QED
    BY <2>1, <2>2 DEF Seen, Sent
<1>3. CASE Recv(d)
  <2>1. pc[d] = "recv" /\ pc'[d] = "pipe" /\ cl'[d] = cl[d]
    BY <1>0, <1>3, RecvTakes
  <2>2. UNCHANGED <<got, outq>>
    BY <1>3 DEF Recv
  <2> QED
    BY <2>1, <2>2 DEF Unseen, Seen, Sent
<1>4. CASE ~ Send(d) /\ ~ CloseSocket(d) /\ ~ Recv(d)
  <2>1. UNCHANGED <<cl, got, outq>>
    BY <1>4 DEF Handler, HandlerStart, AttachSocket, HandlerEnd, Suspend, OpenRead, OpenWrite,
       Fork, WritePipe, FinishWriting, ReadPipe, FinishReading, WaitChild, WaitSuspend,
       CloseCommand, UnwindRead, UnwindPid, UnwindFrame, envVars, netVars
  <2>2. pc'[d] \in {"end", "done"} <=> pc[d] \in {"end", "done"}
    <3>1. CASE HandlerStart(d)
      <4>1. d # Null /\ accepted = d /\ pc' = [pc EXCEPT ![d] = "attach"]
        BY <1>0, <3>1 DEF HandlerStart
      <4> QED
        BY <1>0, <4>1 DEF Queue, App, TypeOK
    <3>2. CASE AttachSocket(d) \/ OpenRead(d) \/ OpenWrite(d) \/ Fork(d) \/ WritePipe(d)
               \/ FinishWriting(d) \/ HandlerEnd(d) \/ WaitChild(d) \/ CloseCommand(d)
      BY <1>0, <3>2 DEF AttachSocket, OpenRead, OpenWrite, Fork, WritePipe, FinishWriting,
         HandlerEnd, WaitChild, CloseCommand, At, Goto, App, TypeOK
    <3>3. CASE ReadPipe(d) \/ FinishReading(d)
      BY <1>0, <3>3 DEF ReadPipe, FinishReading, At, Goto, App, TypeOK
    <3>4. CASE WaitSuspend(d) \/ Suspend(d, "recv", "sock", "IN", TRUE)
               \/ Suspend(d, "read", "rd", "IN", TRUE) \/ Suspend(d, "send", "sock", "OUT", TRUE)
      BY <3>4 DEF WaitSuspend, Suspend, appVars
    <3>5. ~ UnwindRead(d) /\ ~ UnwindPid(d) /\ ~ UnwindFrame(d)
      BY DEF UnwindRead, UnwindPid, UnwindFrame, At, Course
    <3> QED
      BY <1>4, <3>1, <3>2, <3>3, <3>4, <3>5 DEF Handler
  <2> QED
    BY <2>1, <2>2 DEF Unseen, Seen, Sent
<1> QED
  BY <1>1, <1>2, <1>3, <1>4

\* A step of a polite client: that it asks is seen.
LEMMA ClientService ==
  ASSUME App, NEW d \in Conn, Faults[d] = {}, ClientStep(d)
  PROVE  \/ Unseen(d)
         \/ Seen(d) = "idle" /\ Seen(d)' = "asked" /\ Sent(d)' = Sent(d)
<1>0. UNCHANGED pc
  BY DEF ClientStep, Connect, ClientSend, ClientReset, ClientRead, appVars
<1>1. CASE Connect(d)
  <2>1. cl[d] = "none" /\ cl'[d] = "open" /\ UNCHANGED <<got, outq>>
    BY <1>1 DEF Connect, App, TypeOK
  <2> QED
    BY <1>0, <2>1 DEF Unseen, Seen, Sent
<1>2. CASE ClientSend(d, Payload[d], "open", "sent")
  <2>1. /\ cl[d] = "open" /\ cl'[d] = "sent" /\ pc[d] \notin {"end", "done", "dead"}
        /\ UNCHANGED <<got, outq>>
    BY <1>2 DEF ClientSend, App, TypeOK
  <2> QED
    BY <1>0, <2>1 DEF Seen, Sent
<1>3. CASE ClientRead(d)
  <2>1. cl' = cl /\ got'[d] = got[d] \o outq[d] /\ outq'[d] = <<>>
    BY <1>3 DEF ClientRead, App, Bytes
  <2>2. Sent(d)' = Sent(d)
    <3> DEFINE g == got[d] \o outq[d]
    <3>1. g \in Seq(Byte) /\ got'[d] = g
      BY <2>1, ConcatProperties DEF App, Bytes
    <3> HIDE DEF g
    <3>2. g \o <<>> = g
      BY <3>1, ConcatEmptySeq
    <3> QED
      BY <2>1, <3>1, <3>2 DEF g, Sent
  <2> QED
    BY <1>0, <2>1, <2>2 DEF Unseen, Seen
<1> QED
  BY <1>1, <1>2, <1>3 DEF ClientStep

\* run() and the coroutines leave the phase as it is once it is undefined, ...
LEMMA PhaseStays ==
  ASSUME App, Files, Loop, [Next]_vars, phase \in IO!Undefined
  PROVE  apc' = "dead" \/ phase' = phase
<1>1. CASE MainStart \/ MainListen \/ Accept \/ AcceptSuspend
  BY <1>1, AcceptKeeps DEF Keeps
<1>2. ASSUME NEW d \in Conn, Handler(d) PROVE apc' = "dead" \/ phase' = phase
  BY <1>2, HandlerKeeps DEF Keeps, Crash
<1>3. ASSUME NEW d \in Conn, ClientStep(d) \/ Child(d) PROVE phase' = phase
  <2>1. \E a, F : Signal(a, F)
    BY <1>3 DEF ClientStep, Connect, ClientSend, ClientReset, ClientRead,
                Child, ChildEcho, ChildCopy, ChildEof, ChildExit
  <2> QED
    BY <2>1 DEF Signal, IO!Arrive, IO!loopVars, ioVars, ioRest
<1>4. ~ Run
  BY DEF Run, IO!RunStep, IO!EpollWait, IO!DispatchUnmanaged, IO!DispatchIn, IO!DispatchOut,
         IO!ApplyMod, IO!Undefined
<1>5. CASE Idle \/ UNCHANGED vars
  BY <1>5 DEF Idle, vars, ioVars, ioRest
<1> QED
  BY <1>1, <1>2, <1>3, <1>4, <1>5 DEF Next

\* ... and a process that ended stays so.
LEMMA ExcusedStays ==
  ASSUME App, Files, Loop, [Next]_vars, Excused
  PROVE  Excused'
<1>1. CASE reused
  BY <1>1, ReusedStays DEF Excused
<1>2. CASE phase \in IO!Undefined
  BY <1>2, PhaseStays DEF Excused, IO!Undefined
<1>3. CASE apc = "dead"
  <2>1. apc' = "dead"
    <3>1. CASE UNCHANGED apc
      BY <1>3, <3>1
    <3>2. ASSUME NEW d \in Conn, Handler(d) PROVE UNCHANGED apc \/ apc' = "dead"
      BY <3>2 DEF Handler, HandlerStart, AttachSocket, CloseSocket, HandlerEnd, Recv, Suspend,
         OpenRead, OpenWrite, Fork, WritePipe, FinishWriting, ReadPipe, FinishReading,
         Send, WaitChild, WaitSuspend, CloseCommand, UnwindRead, UnwindPid, UnwindFrame, Crash,
         appVars, accVars
    <3>3. ASSUME NEW d \in Conn, ClientStep(d) \/ Child(d) PROVE UNCHANGED apc
      BY <3>3 DEF ClientStep, Connect, ClientSend, ClientReset, ClientRead,
                  Child, ChildEcho, ChildCopy, ChildEof, ChildExit, appVars, accVars
    <3>4. CASE MainStart \/ MainListen \/ Accept \/ AcceptSuspend \/ Run \/ Idle \/ UNCHANGED vars
      BY <1>3, <3>1, <3>4 DEF MainStart, MainListen, Accept, AcceptSuspend, Run, Idle, vars,
                              appVars, accVars
    <3> QED
      BY <3>1, <3>2, <3>3, <3>4 DEF Next
  <2> QED
    BY <2>1 DEF Excused
<1> QED
  BY <1>1, <1>2, <1>3 DEF Excused

\* A step that loses the way sends nothing.
LEMMA LosesWay ==
  ASSUME App, Files, Loop, [Next]_vars, ~ Excused, Excused'
  PROVE  UNCHANGED <<got, outq>>
<1>1. ASSUME UNCHANGED <<apc, reused, phase>> PROVE FALSE
  <2>1. Excused' = Excused
    BY <1>1 DEF Excused, IO!Undefined
  <2> QED
    BY <2>1
<1>2. ASSUME NEW d \in Conn, Handler(d) PROVE UNCHANGED <<got, outq>>
  <2>1. CASE Send(d)
    <3>1. ~ Crash(d)
      <4>1. pc'[d] \in {"send", "wait"}
        BY <2>1 DEF Send, Goto, App, TypeOK
      <4> QED
        BY <4>1 DEF Crash
    <3>2. UNCHANGED <<apc, reused, phase>>
      BY <1>2, <2>1, <3>1, HandlerKeeps DEF Send, Keeps, accVars
    <3> QED
      BY <1>1, <3>2
  <2>2. CASE ~ Send(d)
    BY <1>2, <2>2 DEF Handler, HandlerStart, AttachSocket, CloseSocket, HandlerEnd, Recv, Suspend,
       OpenRead, OpenWrite, Fork, WritePipe, FinishWriting, ReadPipe, FinishReading,
       WaitChild, WaitSuspend, CloseCommand, UnwindRead, UnwindPid, UnwindFrame, Crash,
       envVars, netVars
  <2> QED
    BY <2>1, <2>2
<1>3. ASSUME NEW d \in Conn, ClientStep(d) \/ Child(d) PROVE FALSE
  <2>1. UNCHANGED <<apc, reused>> /\ \E a, F : Signal(a, F)
    BY <1>3 DEF ClientStep, Connect, ClientSend, ClientReset, ClientRead,
                Child, ChildEcho, ChildCopy, ChildEof, ChildExit, appVars, accVars
  <2>2. UNCHANGED phase
    BY <2>1 DEF Signal, IO!Arrive, IO!loopVars, ioVars, ioRest
  <2> QED
    BY <1>1, <2>1, <2>2
<1>4. CASE MainStart \/ MainListen \/ Accept \/ AcceptSuspend \/ Run \/ Idle \/ UNCHANGED vars
  BY <1>4 DEF MainStart, MainListen, Accept, AcceptSuspend, Run, Idle, vars, envVars, netVars
<1> QED
  BY <1>2, <1>3, <1>4 DEF Next

\* While the server is not excused, every step of it is one of EchoService, or
\* none; ...
LEMMA ServiceGoesOn ==
  ASSUME App, Files, Loop, WInv, Courses, Replies, Expected, [Next]_vars, ~ Excused, ~ Excused'
  PROVE  [Service!Next]_(Service!vars)
<1>0. \A c \in Polite : /\ c \in Conn /\ Faults[c] = {} /\ Calmly(c)
                        /\ Course(c) /\ Hung(c) /\ Replied(c)
  <2> TAKE c \in Polite
  <2>1. c \in Conn /\ c \in Talking /\ c \in Calm /\ Faults[c] = {}
    BY PoliteTalks DEF Talking, Calm
  <2>2. ~ reused
    BY DEF Excused
  <2> QED
    BY <2>1, <2>2 DEF Courses, Replies, WInv
<1>1. ASSUME NEW d \in Conn, \A c \in Polite : c # d => Unseen(c),
             d \in Polite => \/ Unseen(d)
                             \/ Seen(d) = "idle" /\ Seen(d)' = "asked" /\ Sent(d)' = Sent(d)
                             \/ /\ Seen(d) = "asked" /\ Seen(d)' = "asked"
                                /\ \E n \in Len(Sent(d))..Len(Reply[d]) :
                                     Sent(d)' = SubSeq(Reply[d], 1, n)
                             \/ /\ Seen(d) = "asked" /\ Sent(d) = Reply[d]
                                /\ Seen(d)' = "closed" /\ Sent(d)' = Sent(d)
      PROVE  [Service!Next]_(Service!vars)
  <2>1. CASE d \in Polite
    BY <1>1, <2>1, ServiceStep
  <2>2. CASE d \notin Polite
    <3>1. \A c \in Polite : Unseen(c)
      BY <1>1, <2>2
    <3> QED
      BY <1>1, <3>1 DEF Unseen, Seen, Sent, Service!vars
  <2> QED
    BY <2>1, <2>2
<1>2. ASSUME NEW d \in Conn, Handler(d) PROVE [Service!Next]_(Service!vars)
  <2>1. CASE Crash(d)
    BY <2>1 DEF Crash, Excused
  <2>2. CASE ~ Crash(d)
    <3>1. ASSUME NEW c \in Polite, c # d PROVE Unseen(c)
      <4>1. Still(c) /\ cl'[c] = cl[c]
        BY <1>0, <1>2, <2>2, <3>1, HandlerStill, HandlerFrame DEF Same
      <4> QED
        BY <1>0, <4>1, StillUnseen
    <3>2. Queue
      BY DEF WInv
    <3> QED
      BY <1>0, <1>1, <1>2, <2>2, <3>1, <3>2, HandlerService
  <2> QED
    BY <2>1, <2>2
<1>3. ASSUME NEW d \in Conn, ClientStep(d) \/ Child(d) PROVE [Service!Next]_(Service!vars)
  <2>1. ASSUME NEW c \in Polite, c # d PROVE Unseen(c)
    <3>1. Still(c) /\ cl'[c] = cl[c]
      BY <1>0, <1>3, <2>1, OthersStill, OthersSame DEF Same
    <3> QED
      BY <1>0, <3>1, StillUnseen
  <2>2. CASE ClientStep(d)
    BY <1>0, <1>1, <2>1, <2>2, ClientService
  <2>3. CASE Child(d)
    <3>1. Unseen(d)
      BY <2>3 DEF Child, ChildEcho, ChildCopy, ChildEof, ChildExit, appVars, netVars,
                  Unseen, Seen, Sent
    <3> QED
      BY <1>1, <2>1, <3>1
  <2> QED
    BY <1>3, <2>2, <2>3
<1>4. CASE MainStart \/ MainListen \/ Accept \/ AcceptSuspend \/ Run \/ Idle \/ UNCHANGED vars
  <2>1. UNCHANGED <<pc, got, outq, cl>>
    BY <1>4 DEF MainStart, MainListen, Accept, AcceptSuspend, Run, Idle, vars, appVars, accVars,
                envVars, netVars
  <2> QED
    BY <2>1 DEF Service!vars
<1> QED
  BY <1>2, <1>3, <1>4 DEF Next

\* ... and so is every other step.
LEMMA ServiceSimulation ==
  ASSUME App, Files, Loop, WInv, Courses, Replies, Expected, [Next]_vars
  PROVE  [Service!Next]_(Service!vars)
<1>1. CASE ~ Excused'
  BY <1>1, ExcusedStays, ServiceGoesOn
<1>2. CASE Excused /\ Excused'
  <2>1. Service!Astray
    BY <1>2 DEF Service!Astray
  <2> QED
    BY <2>1 DEF Service!Next
<1>3. CASE ~ Excused /\ Excused'
  <2>1. UNCHANGED <<got, outq>>
    BY <1>3, LosesWay
  <2>2. Service!Crash
    BY <1>3, <2>1 DEF Service!Crash
  <2> QED
    BY <2>2 DEF Service!Next
<1> QED
  BY <1>1, <1>2, <1>3

\* The server implements EchoService: every polite client gets nothing before it
\* asked, then its own text in order and once, and the connection closed after
\* all of it, whatever the other clients do, for any number of them, any messages
\* and any room in the send buffers, wherever the descriptors are; unless the
\* process ends, a descriptor is made at an address the batch still names, or
\* run() uses what is gone.
THEOREM ServiceKept ==
  ASSUME Expected
  PROVE  Spec => Answers
<1>1. Init => Service!Init
  <2> SUFFICES ASSUME Init PROVE Service!Init
    OBVIOUS
  <2>1. /\ apc = "start" /\ \A c \in Polite : /\ pc[c] = "new" /\ cl[c] = "none"
                                              /\ got[c] = <<>> /\ outq[c] = <<>>
    BY DEF Init, Polite
  <2>2. <<>> \o <<>> = <<>>
    OBVIOUS
  <2>3. ~ Excused
    BY <2>1 DEF Init, IO!Init, Excused, IO!Undefined
  <2> QED
    BY <2>1, <2>2, <2>3 DEF Service!Init
<1>2. App /\ Files /\ Loop /\ WInv /\ Courses /\ Replies /\ [Next]_vars
        => [Service!Next]_(Service!vars)
  BY ServiceSimulation
<1> QED
  BY <1>1, <1>2, Invariance, LoopHolds, WakeupInv, CoursesHold, RepliesHold, PTL
  DEF Spec, Answers, Service!Spec
=============================================================================

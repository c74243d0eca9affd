-------------------------- MODULE EchoServerProofs --------------------------
(***************************************************************************)
(* The server is one of the programs that IOContext ranges over, for any   *)
(* number of connections, any messages and faults of the clients and any   *)
(* placement of the descriptors; so what is proved of IOContext holds of   *)
(* it.                                                                     *)
(*                                                                         *)
(* App types the application (TypeOK is not inductive: that nbSend stays a *)
(* size_t needs Sending, that the queues are strings needs Bytes).  Files  *)
(* ties a handler's place in the code to the descriptors it holds (HeldAt) *)
(* and those to the reactor's owner (Owned, Accounted): with it a handler  *)
(* awaits and closes only descriptors of its own and returns with none,    *)
(* which is what IOContext asks of a program.                              *)
(***************************************************************************)
EXTENDS EchoServer, Induction, SequenceTheorems

USE NamesAssumption, HomeAssumption, PayloadAssumption, SizesAssumption

\* The bytes that the clients and the children write.
Byte ==
  {"n", "k", "x"} \cup
  UNION {{Payload[c][i] : i \in 1..Len(Payload[c])} : c \in Conn}

\* What the buffers hold: messages and replies are sequences of bytes.
Bytes ==
  /\ data \in [Conn -> Seq(Byte)] /\ merged \in [Conn -> Seq(Byte)]
  /\ inq \in [Conn -> Seq(Byte)] /\ outq \in [Conn -> Seq(Byte)]
  /\ got \in [Conn -> Seq(Byte)]
  /\ inp \in [Conn -> Seq(Byte)] /\ outp \in [Conn -> Seq(Byte)]
  /\ backlog \in Seq(Conn)

\* nbSend is 0 until the loop of socket.send() begins, and less than the length
\* of the reply while it goes on.
Sending ==
  \A c \in Conn :
    /\ pc[c] \in {"pipe", "pipeW", "fork", "write", "closeW", "read", "closeR"} => nbSend[c] = 0
    /\ pc[c] = "send" => nbSend[c] < Len(merged[c])

App == TypeOK /\ Bytes /\ Sending

\* Payloads, and what else is written, are strings of bytes.
LEMMA PayloadBytes ==
  /\ \A c \in Conn : Payload[c] \in Seq(Byte)
  /\ <<"x">> \in Seq(Byte) /\ <<"k", "n">> \in Seq(Byte) /\ <<>> \in Seq(Byte)
<1>1. ASSUME NEW c \in Conn PROVE Payload[c] \in Seq(Byte)
  <2>1. \A i \in 1..Len(Payload[c]) : Payload[c][i] \in Byte
    BY DEF Byte
  <2>2. Payload[c] \in Seq(STRING)
    OBVIOUS
  <2> QED
    BY <2>1, <2>2
<1>2. "x" \in Byte /\ "k" \in Byte /\ "n" \in Byte
  BY DEF Byte
<1> QED
  BY <1>1, <1>2

\* erase() leaves a string: find('\n') + 1 is not beyond its end.
LEMMA EraseLineType ==
  ASSUME NEW s \in Seq(Byte)
  PROVE  EraseLine(s) \in Seq(Byte)
<1> DEFINE nl == {i \in 1..Len(s) : s[i] = "n"}
           first == CHOOSE i \in nl : \A j \in nl : i <= j
<1>1. CASE nl = {}
  BY <1>1 DEF EraseLine
<1>2. CASE nl # {}
  <2>1. \E i \in nl : \A j \in nl : i <= j
    <3>1. nl \subseteq Nat
      OBVIOUS
    <3> HIDE DEF nl
    <3> QED
      BY <1>2, <3>1, LeastNat
  <2>2. first \in nl
    <3> HIDE DEF nl
    <3> QED
      BY <2>1
  <2>3. first + 1 \in Int /\ Len(s) \in Int /\ \A i \in (first + 1)..Len(s) : s[i] \in Byte
    <3>1. first \in 1..Len(s)
      BY <2>2
    <3> HIDE DEF first
    <3> QED
      BY <3>1
  <2>4. SubSeq(s, first + 1, Len(s)) \in Seq(Byte)
    <3> HIDE DEF first
    <3> QED
      BY <2>3, SubSeqProperties
  <2> QED
    BY <1>2, <2>4 DEF EraseLine
<1> QED
  BY <1>1, <1>2

\* Where the descriptors of a connection are, after one was made or destroyed.
LEMMA FdType ==
  ASSUME TypeOK, NEW c \in Conn, NEW kind \in Kinds,
         Close(c, kind) \/ \E mask, r : Open(c, kind, mask, r)
  PROVE  fd' \in [Conn -> [Kinds -> Desc \cup {Null}]] /\ reused' \in BOOLEAN
<1>1. \E a \in Desc \cup {Null} : fd' = [fd EXCEPT ![c][kind] = a]
  BY DEF Open, Close
<1>2. reused' \in BOOLEAN
  BY DEF Open, Close, TypeOK
<1> QED
  BY <1>1, <1>2 DEF TypeOK

\* main(), accept() and IOContext::run().
LEMMA LoopApp ==
  ASSUME App, MainStart \/ MainListen \/ AcceptSuspend \/ Run \/ Idle \/ UNCHANGED vars
  PROVE  App'
BY DEF App, TypeOK, Bytes, Sending, MainStart, MainListen, AcceptSuspend, Run, Idle, vars,
       appVars, envVars, netVars, cmdVars, accVars, bufVars

\* accept() changes its own variables only.
LEMMA AcceptApp ==
  ASSUME App, Accept
  PROVE  App'
<1>1. Head(backlog) \in Conn /\ Tail(backlog) \in Seq(Conn)
  BY HeadTailProperties DEF App, Bytes, Accept
<1> QED
  BY <1>1 DEF App, TypeOK, Bytes, Sending, Accept, cmdVars, bufVars

\* Steps that change no buffer: a handler starts, ends or suspends, ...
LEMMA HandlerApp ==
  ASSUME App, NEW c \in Conn,
         \/ HandlerStart(c) \/ HandlerEnd(c)
         \/ Suspend(c, "recv", "sock", "IN", TRUE)
         \/ Suspend(c, "read", "rd", "IN", TRUE)
         \/ Suspend(c, "send", "sock", "OUT", TRUE)
  PROVE  App'
<1> USE DEF App, At, Goto, appVars, accVars, bufVars, envVars, netVars, cmdVars
<1>1. CASE HandlerStart(c)
  BY <1>1 DEF TypeOK, Bytes, Sending, HandlerStart
<1>2. CASE HandlerEnd(c)
  BY <1>2 DEF TypeOK, Bytes, Sending, HandlerEnd
<1>3. CASE UNCHANGED <<appVars, envVars>>
  BY <1>3 DEF TypeOK, Bytes, Sending
<1> QED
  BY <1>1, <1>2, <1>3 DEF Suspend

\* ... makes a descriptor, ...
LEMMA OpenApp ==
  ASSUME App, NEW c \in Conn, AttachSocket(c) \/ OpenRead(c) \/ OpenWrite(c) \/ Fork(c)
  PROVE  App'
<1> USE DEF App, AttachSocket, OpenRead, OpenWrite, Fork, Goto,
            accVars, bufVars, envVars, netVars, cmdVars
<1>1. fd' \in [Conn -> [Kinds -> Desc \cup {Null}]] /\ reused' \in BOOLEAN
  BY FdType DEF Kinds
<1>2. TypeOK'
  BY <1>1 DEF TypeOK
<1>3. Bytes'
  BY DEF Bytes
<1>4. Sending'
  BY DEF Sending, TypeOK, At
<1> QED
  BY <1>2, <1>3, <1>4

\* ... or destroys one.
LEMMA CloseApp ==
  ASSUME App, NEW c \in Conn,
         CloseSocket(c) \/ FinishWriting(c) \/ CloseCommand(c) \/ UnwindRead(c) \/ UnwindPid(c)
  PROVE  App'
<1> USE DEF App, CloseSocket, FinishWriting, CloseCommand, UnwindRead, UnwindPid, Goto,
            accVars, bufVars, envVars, netVars, cmdVars
<1>1. fd' \in [Conn -> [Kinds -> Desc \cup {Null}]] /\ reused' \in BOOLEAN
  BY FdType DEF Kinds
<1>2. TypeOK'
  <2>1. CASE UnwindPid(c)
    BY <1>1, <2>1 DEF TypeOK
  <2>2. CASE CloseCommand(c)
    BY <1>1, <2>2 DEF TypeOK
  <2> QED
    BY <1>1, <2>1, <2>2 DEF TypeOK
<1>3. Bytes'
  <2>1. <<>> \in Seq(Byte)
    BY PayloadBytes
  <2>2. CASE UnwindPid(c)
    BY <2>1, <2>2 DEF Bytes
  <2> QED
    BY <2>2 DEF Bytes
<1>4. Sending'
  BY DEF Sending, TypeOK, At
<1> QED
  BY <1>2, <1>3, <1>4

\* After an exception the rounds of the handler stay within their bound.
LEMMA UnwindFrameApp ==
  ASSUME App, NEW c \in Conn, UnwindFrame(c)
  PROVE  App'
<1> USE DEF App, UnwindFrame, accVars, envVars, netVars, cmdVars
<1>1. PICK run \in BOOLEAN : /\ run => loops[c] < MaxLoops
                             /\ Goto(c, IF run THEN "recv" ELSE "closeS")
                             /\ loops' = [loops EXCEPT ![c] = IF run THEN @ + 1 ELSE @]
  OBVIOUS
<1>2. loops' \in [Conn -> 0..MaxLoops]
  BY <1>1 DEF TypeOK
<1>3. TypeOK'
  BY <1>1, <1>2 DEF TypeOK, Goto
<1>4. Bytes'
  BY DEF Bytes
<1>5. Sending'
  BY <1>1 DEF Sending, TypeOK, Goto
<1> QED
  BY <1>3, <1>4, <1>5

\* recv() fills data and resets merged and nbSend.
LEMMA RecvApp ==
  ASSUME App, NEW c \in Conn, Recv(c)
  PROVE  App'
<1> USE DEF App, Recv, Goto, accVars, cmdVars
<1>1. EraseLine(inq[c]) \in Seq(Byte)
  BY EraseLineType DEF Bytes
<1>2. TypeOK'
  BY DEF TypeOK, Told
<1>3. Bytes'
  BY <1>1 DEF Bytes
<1>4. Sending'
  BY DEF Sending, TypeOK
<1> QED
  BY <1>2, <1>3, <1>4

\* The end of the process leaves the buffers alone.
LEMMA CrashApp ==
  ASSUME App, NEW c \in Conn, Crash(c)
  PROVE  App'
<1> USE DEF App, Crash, bufVars, cmdVars
<1>1. TypeOK'
  BY DEF TypeOK
<1>2. Bytes' /\ Sending'
  BY DEF Bytes, Sending
<1> QED
  BY <1>1, <1>2

\* writepipe() and whaitforprocesstodie().
LEMMA CommandApp ==
  ASSUME App, NEW c \in Conn, WritePipe(c) \/ WaitChild(c) \/ WaitSuspend(c)
  PROVE  App'
<1> USE DEF App, WritePipe, WaitChild, WaitSuspend, At, Goto,
            appVars, accVars, bufVars, netVars
<1>1. TypeOK'
  BY DEF TypeOK, Killed
<1>2. Bytes'
  <2>1. CASE WritePipe(c)
    BY <2>1 DEF Bytes
  <2>2. CASE WaitChild(c) \/ WaitSuspend(c)
    BY <2>2 DEF Bytes
  <2> QED
    BY <2>1, <2>2
<1>3. Sending'
  BY DEF Sending, TypeOK
<1> QED
  BY <1>1, <1>2, <1>3

\* readpipe() appends to merged; nothing has been sent yet.
LEMMA ReadPipeApp ==
  ASSUME App, NEW c \in Conn, ReadPipe(c)
  PROVE  App'
<1> USE DEF App, ReadPipe, At, Goto, accVars, netVars
<1>1. TypeOK'
  BY DEF TypeOK
<1>2. Bytes'
  BY DEF Bytes
<1>3. Sending'
  BY DEF Sending, TypeOK
<1> QED
  BY <1>1, <1>2, <1>3

\* The sending loop begins with nbSend = 0 and something to send.
LEMMA FinishReadingApp ==
  ASSUME App, NEW c \in Conn, FinishReading(c)
  PROVE  App'
<1> USE DEF App, FinishReading, At, Goto, accVars, envVars, netVars, cmdVars
<1>1. EraseLine(merged[c]) \in Seq(Byte)
  BY EraseLineType DEF Bytes
<1>2. fd' \in [Conn -> [Kinds -> Desc \cup {Null}]] /\ reused' \in BOOLEAN
  BY FdType DEF Kinds
<1>3. TypeOK'
  BY <1>2 DEF TypeOK
<1>4. Bytes'
  BY <1>1 DEF Bytes
<1>5. Sending'
  BY <1>1 DEF Sending, TypeOK, Bytes
<1> QED
  BY <1>3, <1>4, <1>5

\* socket.send(): what send() takes is left of the reply, and fits.
LEMMA SendApp ==
  ASSUME App, NEW c \in Conn, Send(c)
  PROVE  App'
<1> USE DEF App
<1> DEFINE n    == Taken(c)
           s    == SubSeq(merged[c], nbSend[c] + 1, nbSend[c] + n)
           next == Advance(nbSend[c], IF n = 0 THEN -1 ELSE n)
<1>1. /\ pc[c] = "send"
      /\ outq' = [outq EXCEPT ![c] = @ \o s] /\ nbSend' = [nbSend EXCEPT ![c] = next]
      /\ pc' = [pc EXCEPT ![c] = IF next < Len(merged[c]) THEN "send" ELSE "wait"]
      /\ cl' = Told(c)
      /\ UNCHANGED <<accVars, fd, reused, data, merged, loops, backlog, inq, got, cmdVars>>
  BY DEF Send, At, Goto
<1>2. /\ nbSend[c] \in Nat /\ Len(merged[c]) \in Nat /\ Len(outq[c]) \in Nat
      /\ Len(outq[c]) <= SendCap /\ nbSend[c] < Len(merged[c])
  <2>1. merged[c] \in Seq(Byte) /\ outq[c] \in Seq(Byte)
    BY DEF Bytes
  <2>2. nbSend[c] \in Nat /\ Len(outq[c]) <= SendCap
    BY DEF TypeOK
  <2>3. nbSend[c] < Len(merged[c])
    BY <1>1 DEF Sending
  <2> QED
    BY <2>1, <2>2, <2>3, LenProperties
<1>3. n \in Int /\ n <= SendCap - Len(outq[c]) /\ n <= Len(merged[c]) - nbSend[c]
  <2>1. CASE cl[c] = "reset"
    BY <1>2, <2>1 DEF Taken
  <2>2. CASE cl[c] # "reset"
    BY <1>2, <2>2 DEF Taken, Lesser
  <2> QED
    BY <2>1, <2>2
<1>4. s \in Seq(Byte) /\ Len(s) <= SendCap - Len(outq[c])
  <2> HIDE DEF n
  <2>1. \A i \in (nbSend[c] + 1)..(nbSend[c] + n) : merged[c][i] \in Byte
    <3>1. \A i \in (nbSend[c] + 1)..(nbSend[c] + n) : i \in 1..Len(merged[c])
      BY <1>2, <1>3
    <3>2. merged[c] \in Seq(Byte)
      BY DEF Bytes
    <3> QED
      BY <3>1, <3>2, ElementOfSeq
  <2>2. /\ s \in Seq(Byte)
        /\ Len(s) = IF nbSend[c] + 1 <= nbSend[c] + n
                      THEN (nbSend[c] + n) - (nbSend[c] + 1) + 1 ELSE 0
    <3>1. nbSend[c] + 1 \in Int /\ nbSend[c] + n \in Int
      BY <1>2, <1>3
    <3> QED
      BY <2>1, <3>1, SubSeqProperties
  <2> HIDE DEF s
  <2>3. Len(s) = 0 \/ Len(s) = n
    BY <1>2, <1>3, <2>2
  <2> QED
    BY <1>2, <1>3, <2>2, <2>3
<1>5. next \in 0..SizeMod - 1
  <2> HIDE DEF n
  <2>1. nbSend[c] + (IF n = 0 THEN -1 ELSE n) \in Int
    BY <1>2, <1>3
  <2> QED
    BY <2>1 DEF Advance
<1> HIDE DEF n, s, next
<1>6. TypeOK'
  <2>1. \A d \in Conn : Len(outq'[d]) <= SendCap
    BY <1>1, <1>2, <1>4 DEF TypeOK, Bytes
  <2> QED
    BY <1>1, <1>5, <2>1 DEF TypeOK, Told, accVars, cmdVars
<1>7. Bytes'
  BY <1>1, <1>4 DEF Bytes, cmdVars
<1>8. Sending'
  BY <1>1, <1>5 DEF Sending, TypeOK
<1> QED
  BY <1>6, <1>7, <1>8

\* Clients append to and empty the queues of their socket.
LEMMA ClientApp ==
  ASSUME App, NEW c \in Conn, ClientStep(c)
  PROVE  App'
<1> USE DEF App, appVars, accVars, bufVars, cmdVars
<1>1. CASE Connect(c)
  <2>1. TypeOK'
    BY <1>1 DEF Connect, TypeOK
  <2>2. Append(backlog, c) \in Seq(Conn)
    BY AppendProperties DEF Bytes
  <2>3. Bytes'
    BY <1>1, <2>2 DEF Connect, Bytes
  <2>4. Sending'
    BY <1>1 DEF Connect, Sending
  <2> QED
    BY <2>1, <2>3, <2>4
<1>2. ASSUME NEW s \in Seq(Byte), NEW from, NEW to \in {"sent", "more", "fin"},
             ClientSend(c, s, from, to)
      PROVE  App'
  <2>1. TypeOK'
    BY <1>2 DEF ClientSend, TypeOK
  <2>2. inq[c] \o s \in Seq(Byte)
    BY ConcatProperties DEF Bytes
  <2>3. inq' \in [Conn -> Seq(Byte)]
    BY <1>2, <2>2 DEF ClientSend, Bytes
  <2>4. Bytes'
    BY <1>2, <2>3 DEF ClientSend, Bytes
  <2>5. Sending'
    BY <1>2 DEF ClientSend, Sending
  <2> QED
    BY <2>1, <2>4, <2>5
<1>3. CASE ClientReset(c)
  <2>1. <<>> \in Seq(Byte) /\ Len(<<>>) = 0
    BY PayloadBytes
  <2>2. TypeOK'
    <3>1. \A d \in Conn : Len(outq'[d]) <= SendCap
      BY <1>3, <2>1 DEF ClientReset, TypeOK, Bytes
    <3> QED
      BY <1>3, <3>1 DEF ClientReset, TypeOK
  <2>3. Bytes'
    BY <1>3, <2>1 DEF ClientReset, Bytes
  <2>4. Sending'
    BY <1>3 DEF ClientReset, Sending
  <2> QED
    BY <2>2, <2>3, <2>4
<1>4. CASE ClientRead(c)
  <2>1. <<>> \in Seq(Byte) /\ Len(<<>>) = 0
    BY PayloadBytes
  <2>2. got[c] \o outq[c] \in Seq(Byte)
    BY ConcatProperties DEF Bytes
  <2>3. TypeOK'
    <3>1. \A d \in Conn : Len(outq'[d]) <= SendCap
      BY <1>4, <2>1 DEF ClientRead, TypeOK, Bytes
    <3> QED
      BY <1>4, <3>1 DEF ClientRead, TypeOK
  <2>4. Bytes'
    BY <1>4, <2>1, <2>2 DEF ClientRead, Bytes
  <2>5. Sending'
    BY <1>4 DEF ClientRead, Sending
  <2> QED
    BY <2>3, <2>4, <2>5
<1>5. Payload[c] \in Seq(Byte) /\ <<"x">> \in Seq(Byte) /\ <<>> \in Seq(Byte)
  BY PayloadBytes
<1> QED
  BY <1>1, <1>2, <1>3, <1>4, <1>5 DEF ClientStep

\* Children do so with their pipes.
LEMMA ChildApp ==
  ASSUME App, NEW c \in Conn, Child(c)
  PROVE  App'
<1> USE DEF App, appVars, accVars, bufVars, netVars
<1>1. CASE ChildEcho(c)
  <2>1. <<"k", "n">> \in Seq(Byte)
    BY PayloadBytes
  <2>2. outp[c] \in Seq(Byte)
    BY DEF Bytes
  <2>3. outp[c] \o <<"k", "n">> \in Seq(Byte)
    BY <2>1, <2>2, ConcatProperties
  <2>4. outp' \in [Conn -> Seq(Byte)]
    BY <1>1, <2>3 DEF ChildEcho, Bytes
  <2>5. Bytes'
    BY <1>1, <2>4 DEF ChildEcho, Bytes
  <2>6. TypeOK'
    BY <1>1 DEF ChildEcho, TypeOK
  <2>7. Sending'
    BY <1>1 DEF ChildEcho, Sending
  <2> QED
    BY <2>5, <2>6, <2>7
<1>2. CASE ChildCopy(c)
  <2>1. <<>> \in Seq(Byte)
    BY PayloadBytes
  <2>2. outp[c] \o inp[c] \in Seq(Byte)
    BY ConcatProperties DEF Bytes
  <2>3. TypeOK'
    BY <1>2 DEF ChildCopy, TypeOK
  <2>4. Bytes'
    BY <1>2, <2>1, <2>2 DEF ChildCopy, Bytes
  <2>5. Sending'
    BY <1>2 DEF ChildCopy, Sending
  <2> QED
    BY <2>3, <2>4, <2>5
<1>3. CASE ChildEof(c) \/ ChildExit(c)
  BY <1>3 DEF ChildEof, ChildExit, TypeOK, Bytes, Sending
<1> QED
  BY <1>1, <1>2, <1>3 DEF Child

\* Every step keeps App.
LEMMA AppInv == App /\ [Next]_vars => App'
<1> SUFFICES ASSUME App, [Next]_vars PROVE App'
  OBVIOUS
<1>1. ASSUME NEW c \in Conn, Handler(c) PROVE App'
  BY <1>1, HandlerApp, OpenApp, CloseApp, UnwindFrameApp, RecvApp, CrashApp, CommandApp,
     ReadPipeApp, FinishReadingApp, SendApp DEF Handler
<1> QED
  BY <1>1, LoopApp, AcceptApp, ClientApp, ChildApp DEF Next

-----------------------------------------------------------------------------
(***************************************************************************)
(* The descriptors.                                                        *)
(***************************************************************************)

\* The descriptors that the handler holds at place l.
Held(l) ==
  {k \in Kinds :
     \/ k = "sock" /\ l \notin {"new", "attach", "end", "done", "dead"}
     \/ k = "rd" /\ l \in {"pipeW", "fork", "write", "closeW", "read", "closeR", "throw"}
     \/ k = "wr" /\ l \in {"fork", "write", "closeW"}
     \/ k = "pid" /\ l \in {"write", "closeW", "read", "closeR", "send", "wait", "closePid",
                            "throw", "throwPid"}}

\* What is known of the reactor's variables.
Reactor ==
  /\ owner \in [Desc -> Conn \cup {Acceptor, Null}]
  /\ co \in [Conn \cup {Acceptor} -> {"idle", "run", "wait", "woken"}]

\* A handler has the descriptors of the place where it is, ...
HeldAt == \A c \in Conn, k \in Kinds : fd[c][k] # Null <=> k \in Held(pc[c])

\* ... each of them its own, at an address of its own, ...
Owned ==
  \A c \in Conn, k \in Kinds : fd[c][k] # Null =>
    owner[fd[c][k]] = c /\ \A j \in Kinds : fd[c][j] = fd[c][k] => j = k

\* ... and no other: none is forgotten.
Accounted == \A a \in Desc : owner[a] \in Conn => \E k \in Kinds : fd[owner[a]][k] = a

\* The listening socket lives as long as accept().
Listening == apc = "loop" => owner[Listen] = Acceptor

\* A handler that has not started or has returned holds nothing.
IdleBare == \A c \in Conn : co[c] = "idle" => Held(pc[c]) = {}

Files == Reactor /\ HeldAt /\ Owned /\ Accounted /\ Listening /\ IdleBare

\* A step that opens and closes nothing, at places with the same descriptors.
LEMMA FilesKept ==
  ASSUME App, App', Files, UNCHANGED <<fd, owner>>, apc' = "loop" => apc = "loop",
         co' \in [Conn \cup {Acceptor} -> {"idle", "run", "wait", "woken"}],
         \A c \in Conn : Held(pc'[c]) = Held(pc[c]),
         \A c \in Conn : co'[c] = "idle" => co[c] = "idle" \/ Held(pc[c]) = {}
  PROVE  Files'
<1> USE DEF Files
<1>1. Reactor' /\ Listening'
  BY DEF Reactor, Listening
<1>2. HeldAt'
  BY DEF HeldAt
<1>3. Owned' /\ Accounted'
  BY DEF Owned, Accounted
<1>4. IdleBare'
  BY DEF IdleBare
<1> QED
  BY <1>1, <1>2, <1>3, <1>4

\* A handler makes one more descriptor, at a free address, ...
LEMMA FilesOpened ==
  ASSUME App, App', Files, NEW c \in Conn, NEW kind \in Kinds, NEW a \in Desc,
         owner[a] = Null, owner' = [owner EXCEPT ![a] = c],
         fd' = [fd EXCEPT ![c][kind] = a],
         UNCHANGED <<apc, co>>, co[c] = "run",
         kind \notin Held(pc[c]), Held(pc'[c]) = Held(pc[c]) \cup {kind},
         \A d \in Conn : d # c => pc'[d] = pc[d]
  PROVE  Files'
<1> USE DEF App, TypeOK, Files
<1>1. fd[c][kind] = Null /\ fd'[c][kind] = a /\ owner'[a] = c /\ a # Null /\ c # Null
  BY DEF HeldAt, Reactor
<1>2. /\ \A d \in Conn, k \in Kinds : d # c \/ k # kind => fd'[d][k] = fd[d][k]
      /\ \A b \in Desc : b # a => owner'[b] = owner[b]
  BY DEF Reactor
<1>3. Reactor' /\ Listening' /\ IdleBare'
  <2>1. Reactor'
    BY <1>1 DEF Reactor
  <2>2. Listening'
    BY <1>1, <1>2 DEF Listening
  <2>3. IdleBare'
    BY <1>1, <1>2 DEF IdleBare
  <2> QED
    BY <2>1, <2>2, <2>3
<1>4. HeldAt'
  BY <1>1, <1>2 DEF HeldAt
<1>5. Owned'
  BY <1>1, <1>2 DEF Owned, Reactor
<1>6. Accounted'
  BY <1>1, <1>2 DEF Accounted, Reactor
<1> QED
  BY <1>3, <1>4, <1>5, <1>6

\* ... or destroys one.
LEMMA FilesClosed ==
  ASSUME App, App', Files, NEW c \in Conn, NEW kind \in Kinds,
         owner' = [owner EXCEPT ![fd[c][kind]] = Null],
         fd' = [fd EXCEPT ![c][kind] = Null],
         UNCHANGED <<apc, co>>, co[c] = "run",
         kind \in Held(pc[c]), Held(pc'[c]) = Held(pc[c]) \ {kind},
         \A d \in Conn : d # c => pc'[d] = pc[d]
  PROVE  Files'
<1> USE DEF App, TypeOK, Files
<1> DEFINE a == fd[c][kind]
<1>1. a \in Desc /\ owner[a] = c /\ fd'[c][kind] = Null /\ owner'[a] = Null
  BY DEF HeldAt, Owned, Reactor
<1>2. /\ \A d \in Conn, k \in Kinds : d # c \/ k # kind => fd'[d][k] = fd[d][k]
      /\ \A b \in Desc : b # a => owner'[b] = owner[b]
  BY DEF Reactor
<1>3. \A d \in Conn, k \in Kinds : fd'[d][k] # Null => fd'[d][k] # a /\ fd'[d][k] = fd[d][k]
  BY <1>1, <1>2 DEF Owned
<1> HIDE DEF a
<1>4. Reactor' /\ IdleBare'
  BY <1>1, <1>2 DEF Reactor, IdleBare
<1>5. Listening'
  BY <1>1, <1>2 DEF Listening
<1>6. HeldAt'
  BY <1>1, <1>2 DEF HeldAt
<1>7. Owned'
  BY <1>2, <1>3 DEF Owned
<1>8. Accounted'
  BY <1>1, <1>2 DEF Accounted, a
<1> QED
  BY <1>4, <1>5, <1>6, <1>7, <1>8

\* A step of the reactor after which every object is whose it was, and nobody
\* has returned.
NothingFreed ==
  /\ UNCHANGED owner
  /\ co' \in [Conn \cup {Acceptor} -> {"idle", "run", "wait", "woken"}]
  /\ \A c \in Conn : co'[c] = "idle" => co[c] = "idle"

\* An await leaves the owners of descriptors alone, ...
LEMMA AwaitFrees ==
  ASSUME Reactor, NEW k \in Conn \cup {Acceptor}, NEW a, NEW dir, NEW watch,
         Completes(k, a, dir) \/ IO!AwaitSuspend(k, a, dir, watch)
  PROVE  NothingFreed
BY DEF Reactor, NothingFreed, Completes, IO!AwaitDone, IO!AwaitResume, IO!AwaitSuspend, IO!coroVars

\* ... run() too, and it lets no coroutine return, ...
LEMMA RunFrees ==
  ASSUME Reactor, IO!RunStep
  PROVE  NothingFreed
<1> USE DEF Reactor, NothingFreed, IO!afdVars, IO!coroVars
<1>1. CASE IO!EpollWait \/ IO!ApplyMod
  BY <1>1 DEF IO!EpollWait, IO!ApplyMod
<1>2. ASSUME NEW e, IO!DispatchUnmanaged(e) \/ IO!DispatchIn(e) PROVE NothingFreed
  BY <1>2 DEF IO!DispatchUnmanaged, IO!DispatchIn, IO!Resume
<1>3. ASSUME NEW a, IO!DispatchOut(a) PROVE NothingFreed
  BY <1>3 DEF IO!DispatchOut, IO!Resume
<1> QED
  BY <1>1, <1>2, <1>3 DEF IO!RunStep

\* ... and so does the kernel.
LEMMA SignalFrees ==
  ASSUME NEW a, NEW F, Signal(a, F)
  PROVE  UNCHANGED <<owner, co>>
BY DEF Signal, IO!Arrive, IO!afdVars, IO!coroVars, ioVars, ioRest

\* Steps of the reactor, of the clients and of the children, and awaits of
\* accept().
LEMMA LoopFiles ==
  ASSUME App, App', Files, Run \/ Accept \/ AcceptSuspend \/ Idle \/ UNCHANGED vars
  PROVE  Files'
<1>1. CASE Run \/ Accept \/ AcceptSuspend
  <2>1. NothingFreed
    BY <1>1, AwaitFrees, RunFrees DEF Files, Run, Accept, AcceptSuspend
  <2>2. UNCHANGED <<apc, pc, fd>>
    BY <1>1 DEF Run, Accept, AcceptSuspend, appVars, accVars
  <2> QED
    BY <2>1, <2>2, FilesKept DEF NothingFreed
<1>2. CASE Idle \/ UNCHANGED vars
  <2>1. UNCHANGED <<apc, pc, fd, owner, co>>
    BY <1>2 DEF Idle, vars, appVars, accVars, ioVars, ioRest
  <2> QED
    BY <2>1, FilesKept DEF Files, Reactor
<1> QED
  BY <1>1, <1>2

\* Clients and children hold none of the descriptors.
LEMMA OthersFiles ==
  ASSUME App, App', Files, NEW c \in Conn, ClientStep(c) \/ Child(c)
  PROVE  Files'
<1>1. UNCHANGED <<apc, pc, fd>>
  BY DEF ClientStep, Connect, ClientSend, ClientReset, ClientRead,
         Child, ChildEcho, ChildCopy, ChildEof, ChildExit, appVars, accVars
<1>2. \E a, F : Signal(a, F)
  BY DEF ClientStep, Connect, ClientSend, ClientReset, ClientRead,
         Child, ChildEcho, ChildCopy, ChildEof, ChildExit
<1>3. UNCHANGED <<owner, co>>
  BY <1>2, SignalFrees
<1> QED
  BY <1>1, <1>3, FilesKept DEF Files, Reactor

\* accept() starts, listens, and starts a handler; a handler returns.
LEMMA StartFiles ==
  ASSUME App, App', Files, MainStart \/ \E c \in Conn : HandlerStart(c) \/ HandlerEnd(c)
  PROVE  Files'
<1> USE DEF Files, Reactor
<1>1. CASE MainStart
  <2>1. /\ UNCHANGED <<owner, pc, fd>> /\ apc' = "bind" /\ co' = [co EXCEPT ![Acceptor] = "run"]
    BY <1>1 DEF MainStart, IO!Spawn, IO!afdVars
  <2> QED
    BY <2>1, FilesKept
<1>2. ASSUME NEW c \in Conn, HandlerStart(c) PROVE Files'
  <2>1. /\ UNCHANGED <<owner, apc, fd>> /\ co[c] = "idle" /\ co' = [co EXCEPT ![c] = "run"]
        /\ pc' = [pc EXCEPT ![c] = "attach"]
    BY <1>2 DEF HandlerStart, IO!Spawn, IO!afdVars
  <2>2. Held(pc[c]) = {} /\ Held("attach") = {}
    BY <2>1 DEF IdleBare, Held
  <2> QED
    BY <2>1, <2>2, FilesKept DEF App, TypeOK
<1>3. ASSUME NEW c \in Conn, HandlerEnd(c) PROVE Files'
  <2>1. /\ UNCHANGED <<owner, apc, fd>> /\ co' = [co EXCEPT ![c] = "idle"]
        /\ pc[c] = "end" /\ pc' = [pc EXCEPT ![c] = "done"]
    BY <1>3 DEF HandlerEnd, IO!Finish, IO!afdVars, At, Goto, accVars
  <2>2. Held("end") = {} /\ Held("done") = {}
    BY DEF Held
  <2> QED
    BY <2>1, <2>2, FilesKept DEF App, TypeOK
<1> QED
  BY <1>1, <1>2, <1>3

\* The listening socket is made once, for accept().
LEMMA ListenFiles ==
  ASSUME App, App', Files, MainListen
  PROVE  Files'
<1> USE DEF App, TypeOK, Files
<1>1. /\ UNCHANGED <<co, pc, fd>> /\ owner[Listen] = Null
      /\ owner' = [owner EXCEPT ![Listen] = Acceptor]
  BY DEF MainListen, IO!Construct, IO!coroVars
<1>2. Reactor' /\ Listening' /\ IdleBare'
  BY <1>1 DEF Reactor, Listening, IdleBare
<1>3. HeldAt'
  BY <1>1 DEF HeldAt
<1>4. Owned'
  <2>1. \A a \in Desc : a # Listen => owner'[a] = owner[a]
    BY <1>1 DEF Reactor
  <2>2. ASSUME NEW c \in Conn, NEW k \in Kinds, fd[c][k] # Null
        PROVE  fd[c][k] \in Desc /\ fd[c][k] # Listen
    BY <1>1, <2>2 DEF Owned
  <2>3. ASSUME NEW c \in Conn, NEW k \in Kinds, fd[c][k] # Null
        PROVE  owner'[fd[c][k]] = c /\ \A j \in Kinds : fd[c][j] = fd[c][k] => j = k
    <3>1. owner'[fd[c][k]] = owner[fd[c][k]]
      BY <2>1, <2>2, <2>3
    <3> QED
      BY <2>3, <3>1 DEF Owned
  <2>4. fd' = fd
    BY <1>1
  <2> HIDE DEF App, TypeOK, Files
  <2> QED
    BY <2>3, <2>4 DEF Owned
<1>5. Accounted'
  BY <1>1 DEF Accounted, Reactor
<1> QED
  BY <1>2, <1>3, <1>4, <1>5

\* The awaits of a handler, and the end of a frame of it.
LEMMA AwaitFiles ==
  ASSUME App, App', Files, NEW c \in Conn,
         \/ Recv(c) \/ Suspend(c, "recv", "sock", "IN", TRUE)
         \/ WritePipe(c)
         \/ ReadPipe(c) \/ Suspend(c, "read", "rd", "IN", TRUE)
         \/ Send(c) \/ Suspend(c, "send", "sock", "OUT", TRUE)
         \/ WaitChild(c) \/ WaitSuspend(c) \/ UnwindFrame(c)
  PROVE  Files'
<1>1. NothingFreed
  <2>1. CASE UnwindFrame(c)
    BY <2>1 DEF UnwindFrame, IO!EndFrame, IO!coroVars, ioVars, ioRest, Files, Reactor,
                NothingFreed
  <2> QED
    BY <2>1, AwaitFrees DEF Files, Recv, Suspend, WritePipe, ReadPipe, Send, WaitChild,
                            WaitSuspend, Completes
<1>2. UNCHANGED <<apc, fd>>
  BY DEF Recv, Suspend, WritePipe, ReadPipe, Send, WaitChild, WaitSuspend, UnwindFrame,
         appVars, accVars
<1>3. \A d \in Conn : Held(pc'[d]) = Held(pc[d])
  <2>0. /\ Held("recv") = Held("closeS") /\ Held("recv") = Held("pipe")
        /\ Held("write") = Held("closeW")
        /\ Held("read") = Held("closeR") /\ Held("read") = Held("throw")
        /\ Held("send") = Held("wait") /\ Held("wait") = Held("closePid")
        /\ Held("unwound") = Held("recv")
    BY DEF Held
  <2> USE DEF App, TypeOK, At, Goto
  <2>1. CASE Recv(c)
    <3>1. pc[c] = "recv" /\ pc'[c] \in {"closeS", "pipe"} /\ \A d \in Conn \ {c} : pc'[d] = pc[d]
      BY <2>1 DEF Recv
    <3> QED
      BY <2>0, <3>1
  <2>2. CASE ReadPipe(c)
    <3>1. /\ pc[c] = "read" /\ pc'[c] \in {"read", "closeR", "throw"}
          /\ \A d \in Conn \ {c} : pc'[d] = pc[d]
      BY <2>2 DEF ReadPipe
    <3> QED
      BY <2>0, <3>1
  <2>3. CASE Send(c)
    <3>1. pc[c] = "send" /\ pc'[c] \in {"send", "wait"} /\ \A d \in Conn \ {c} : pc'[d] = pc[d]
      BY <2>3 DEF Send
    <3> QED
      BY <2>0, <3>1
  <2>4. CASE WritePipe(c)
    BY <2>0, <2>4 DEF WritePipe
  <2>6. CASE WaitChild(c)
    BY <2>0, <2>6 DEF WaitChild
  <2>7. CASE UnwindFrame(c)
    <3>1. /\ pc[c] = "unwound" /\ pc'[c] \in {"recv", "closeS"}
          /\ \A d \in Conn \ {c} : pc'[d] = pc[d]
      BY <2>7 DEF UnwindFrame
    <3> QED
      BY <2>0, <3>1
  <2>5. CASE UNCHANGED pc
    BY <2>5
  <2> QED
    BY <2>1, <2>2, <2>3, <2>4, <2>5, <2>6, <2>7 DEF Suspend, WaitSuspend, appVars
<1> QED
  BY <1>1, <1>2, <1>3, FilesKept DEF NothingFreed

\* The four places where a handler makes a descriptor.
LEMMA OpenFiles ==
  ASSUME App, App', Files, NEW c \in Conn,
         AttachSocket(c) \/ OpenRead(c) \/ OpenWrite(c) \/ Fork(c)
  PROVE  Files'
<1>1. ASSUME NEW kind \in Kinds, NEW mask, NEW r, Open(c, kind, mask, r), UNCHANGED apc,
             NEW l, pc' = [pc EXCEPT ![c] = l],
             kind \notin Held(pc[c]), Held(l) = Held(pc[c]) \cup {kind}
      PROVE  Files'
  <2>1. PICK a \in Desc : /\ owner[a] = Null /\ fd' = [fd EXCEPT ![c][kind] = a]
                          /\ IO!Construct(c, a, mask, r, FALSE)
    BY <1>1 DEF Open
  <2>2. owner' = [owner EXCEPT ![a] = c] /\ UNCHANGED co /\ co[c] = "run"
    BY <2>1 DEF IO!Construct, IO!Runs, IO!coroVars
  <2>3. l = pc'[c] /\ \A d \in Conn : d # c => pc'[d] = pc[d]
    BY <1>1 DEF App, TypeOK
  <2> QED
    BY <1>1, <2>1, <2>2, <2>3, FilesOpened
<1>2. UNCHANGED apc
  BY DEF AttachSocket, OpenRead, OpenWrite, Fork, accVars
<1>3. CASE AttachSocket(c)
  BY <1>1, <1>2, <1>3 DEF AttachSocket, At, Goto, Held, Kinds
<1>4. CASE OpenRead(c)
  BY <1>1, <1>2, <1>4 DEF OpenRead, At, Goto, Held, Kinds
<1>5. CASE OpenWrite(c)
  BY <1>1, <1>2, <1>5 DEF OpenWrite, At, Goto, Held, Kinds
<1>6. CASE Fork(c)
  <2>1. /\ pc[c] = "fork" /\ pc' = [pc EXCEPT ![c] = "write"]
        /\ Open(c, "pid", {"IN"}, {})
    BY <1>6 DEF Fork, At, Goto
  <2>2. "pid" \in Kinds /\ "pid" \notin Held("fork") /\ Held("write") = Held("fork") \cup {"pid"}
    BY DEF Held, Kinds
  <2> QED
    BY <1>1, <1>2, <2>1, <2>2
<1> QED
  BY <1>3, <1>4, <1>5, <1>6

\* The six places where it destroys one.
LEMMA CloseFiles ==
  ASSUME App, App', Files, NEW c \in Conn,
         CloseSocket(c) \/ FinishWriting(c) \/ FinishReading(c) \/ CloseCommand(c)
         \/ UnwindRead(c) \/ UnwindPid(c)
  PROVE  Files'
<1>1. ASSUME NEW kind \in Kinds, Close(c, kind), UNCHANGED apc,
             NEW l, pc' = [pc EXCEPT ![c] = l],
             kind \in Held(pc[c]), Held(l) = Held(pc[c]) \ {kind}
      PROVE  Files'
  <2>1. /\ fd' = [fd EXCEPT ![c][kind] = Null]
        /\ owner' = [owner EXCEPT ![fd[c][kind]] = Null] /\ UNCHANGED co /\ co[c] = "run"
    BY <1>1 DEF Close, IO!Destroy, IO!Runs, IO!coroVars
  <2> QED
    BY <1>1, <2>1, FilesClosed DEF App, TypeOK
<1>2. UNCHANGED apc
  BY DEF CloseSocket, FinishWriting, FinishReading, CloseCommand, UnwindRead, UnwindPid, accVars
<1>3. CASE CloseSocket(c)
  BY <1>1, <1>2, <1>3 DEF CloseSocket, At, Goto, Held, Kinds
<1>4. CASE FinishWriting(c)
  BY <1>1, <1>2, <1>4 DEF FinishWriting, At, Goto, Held, Kinds
<1>5. CASE FinishReading(c)
  <2>1. PICK l \in {"wait", "send"} : pc' = [pc EXCEPT ![c] = l]
    BY <1>5 DEF FinishReading, Goto
  <2>2. pc[c] = "closeR" /\ Close(c, "rd")
    BY <1>5 DEF FinishReading, At
  <2>3. "rd" \in Held("closeR") /\ Held(l) = Held("closeR") \ {"rd"}
    BY DEF Held, Kinds
  <2> QED
    BY <1>1, <1>2, <2>1, <2>2, <2>3 DEF Kinds
<1>6. CASE CloseCommand(c)
  BY <1>1, <1>2, <1>6 DEF CloseCommand, At, Goto, Held, Kinds
<1>7. CASE UnwindRead(c)
  BY <1>1, <1>2, <1>7 DEF UnwindRead, At, Goto, Held, Kinds
<1>8. CASE UnwindPid(c)
  BY <1>1, <1>2, <1>8 DEF UnwindPid, At, Goto, Held, Kinds
<1> QED
  BY <1>3, <1>4, <1>5, <1>6, <1>7, <1>8

\* The process ends.
LEMMA CrashFiles ==
  ASSUME App, App', Files, NEW c \in Conn, Crash(c)
  PROVE  Files'
<1>1. /\ apc' = "dead" /\ pc' = [d \in Conn |-> "dead"]
      /\ fd' = [d \in Conn |-> [k \in Kinds |-> Null]]
      /\ owner' = [a \in Desc |-> Null] /\ co' = [k \in Conn \cup {Acceptor} |-> "idle"]
  BY DEF Crash, IO!AwaitFail, IO!ForAll
<1>2. Held("dead") = {}
  BY DEF Held
<1> QED
  BY <1>1, <1>2
  DEF Files, Reactor, HeldAt, Owned, Accounted, Listening, IdleBare

\* Every step keeps Files.
LEMMA FilesInv == App /\ Files /\ [Next]_vars => Files'
<1> SUFFICES ASSUME App, Files, [Next]_vars PROVE Files'
  OBVIOUS
<1>1. App'
  BY AppInv
<1>2. ASSUME NEW c \in Conn, Handler(c) PROVE Files'
  BY <1>1, <1>2, StartFiles, AwaitFiles, OpenFiles, CloseFiles, CrashFiles DEF Handler
<1> QED
  BY <1>1, <1>2, LoopFiles, OthersFiles, StartFiles, ListenFiles DEF Next

-----------------------------------------------------------------------------
(***************************************************************************)
(* The refinement of IOContext.                                            *)
(***************************************************************************)

\* The readiness of all files, and Poll as a function of it.
FilesReady == [d \in Conn |-> [k \in Kinds |-> FileReady(d, k)]]

PollOf(R, own, f, queue) ==
  [a \in Desc |->
     IF own[a] = Null THEN {}
     ELSE IF own[a] = Acceptor THEN IF queue # <<>> THEN {"IN"} ELSE {}
     ELSE UNION {R[own[a]][k] : k \in {j \in Kinds : f[own[a]][j] = a}}]

\* Poll is that function of the readiness of the files, ...
LEMMA PollIs == Files => Poll = PollOf(FilesReady, owner, fd, backlog)
<1> SUFFICES ASSUME Files, NEW a \in Desc
             PROVE  Poll[a] = PollOf(FilesReady, owner, fd, backlog)[a]
  BY DEF Poll, PollOf
<1>1. CASE owner[a] \in Conn
  <2>1. \A k \in Kinds : FilesReady[owner[a]][k] = FileReady(owner[a], k)
    BY <1>1 DEF FilesReady
  <2>2. owner[a] # Null /\ owner[a] # Acceptor
    BY <1>1
  <2> QED
    BY <1>1, <2>1, <2>2 DEF Poll, PollOf
<1>2. CASE owner[a] \in {Acceptor, Null}
  BY <1>2 DEF Poll, PollOf
<1> QED
  BY <1>1, <1>2 DEF Files, Reactor

\* ... in the next state, too.
LEMMA PollIsNext == Files' => Poll' = PollOf(FilesReady', owner', fd', backlog')
<1>1. Files' => (Poll = PollOf(FilesReady, owner, fd, backlog))'
  BY PollIs, PTL
<1> QED
  BY <1>1 DEF PollOf

\* A change of the readiness of a file that has no descriptor is nothing to the
\* reactor.
LEMMA Unheard ==
  ASSUME Files, Files', NEW c \in Conn, NEW kind \in Kinds, fd[c][kind] = Null,
         UNCHANGED <<owner, fd, backlog>>,
         \A d \in Conn, k \in Kinds : d # c \/ k # kind => FilesReady'[d][k] = FilesReady[d][k]
  PROVE  Poll' = Poll
<1>1. ASSUME NEW a \in Desc, owner[a] \in Conn
      PROVE  {FilesReady'[owner[a]][k] : k \in {j \in Kinds : fd[owner[a]][j] = a}} =
             {FilesReady[owner[a]][k] : k \in {j \in Kinds : fd[owner[a]][j] = a}}
  BY <1>1
<1>2. ASSUME NEW a \in Desc
      PROVE  PollOf(FilesReady', owner, fd, backlog)[a] = PollOf(FilesReady, owner, fd, backlog)[a]
  <2>1. CASE owner[a] \in Conn
    BY <1>1, <2>1 DEF PollOf
  <2>2. CASE owner[a] \in {Acceptor, Null}
    BY <2>2 DEF PollOf
  <2> QED
    BY <2>1, <2>2 DEF Files, Reactor
<1>3. PollOf(FilesReady', owner, fd, backlog) = PollOf(FilesReady, owner, fd, backlog)
  BY <1>2 DEF PollOf
<1> QED
  BY <1>3, PollIs, PollIsNext

\* What a client does changes the readiness of its socket only, ...
LEMMA ClientReady ==
  ASSUME App, App', NEW c \in Conn,
         ClientReset(c) \/ ClientRead(c) \/ \E s, from, to : ClientSend(c, s, from, to)
  PROVE  \A d \in Conn, k \in Kinds : d # c \/ k # "sock" => FilesReady'[d][k] = FilesReady[d][k]
<1>1. /\ \A d \in Conn \ {c} : cl'[d] = cl[d] /\ inq'[d] = inq[d] /\ outq'[d] = outq[d]
      /\ UNCHANGED <<child, outp>>
  <2> USE DEF cmdVars, App, TypeOK, Bytes
  <2>1. CASE ClientReset(c)
    BY <2>1 DEF ClientReset
  <2>2. CASE ClientRead(c)
    BY <2>2 DEF ClientRead
  <2>3. ASSUME NEW s, NEW from, NEW to, ClientSend(c, s, from, to)
        PROVE  /\ \A d \in Conn \ {c} : cl'[d] = cl[d] /\ inq'[d] = inq[d] /\ outq'[d] = outq[d]
               /\ UNCHANGED <<child, outp>>
    BY <2>3 DEF ClientSend
  <2> QED
    BY <2>1, <2>2, <2>3
<1>2. ASSUME NEW d \in Conn, NEW k \in Kinds, d # c \/ k # "sock"
      PROVE  FileReady(d, k)' = FileReady(d, k)
  <2>1. CASE k = "sock"
    BY <1>1, <1>2, <2>1 DEF FileReady
  <2>2. CASE k = "rd"
    BY <1>1, <2>2 DEF FileReady
  <2>3. CASE k = "wr"
    BY <1>1, <2>3 DEF FileReady
  <2>4. CASE k = "pid"
    BY <1>1, <2>4 DEF FileReady
  <2> QED
    BY <2>1, <2>2, <2>3, <2>4 DEF Kinds
<1> QED
  BY <1>2 DEF FilesReady

\* ... and what a child does that of the pipe from it, ...
LEMMA ChildReady ==
  ASSUME App, App', NEW c \in Conn, ChildEcho(c) \/ ChildCopy(c) \/ ChildEof(c)
  PROVE  \A d \in Conn, k \in Kinds : d # c \/ k # "rd" => FilesReady'[d][k] = FilesReady[d][k]
<1>1. /\ \A d \in Conn \ {c} : child'[d] = child[d] /\ outp'[d] = outp[d]
      /\ child[c] \notin {"zombie", "reaped"} /\ child'[c] \notin {"zombie", "reaped"}
      /\ UNCHANGED <<cl, inq, outq>>
  <2> USE DEF netVars, App, TypeOK, Bytes
  <2>1. CASE ChildEcho(c)
    BY <2>1 DEF ChildEcho
  <2>2. CASE ChildCopy(c)
    BY <2>2 DEF ChildCopy
  <2>3. CASE ChildEof(c)
    BY <2>3 DEF ChildEof
  <2> QED
    BY <2>1, <2>2, <2>3
<1>2. ASSUME NEW d \in Conn, NEW k \in Kinds, d # c \/ k # "rd"
      PROVE  FileReady(d, k)' = FileReady(d, k)
  <2>1. CASE k = "sock"
    BY <1>1, <2>1 DEF FileReady
  <2>2. CASE k = "rd"
    BY <1>1, <1>2, <2>2 DEF FileReady
  <2>3. CASE k = "wr"
    BY <1>1, <2>3 DEF FileReady
  <2>4. CASE k = "pid"
    BY <1>1, <2>4 DEF FileReady
  <2> QED
    BY <2>1, <2>2, <2>3, <2>4 DEF Kinds
<1> QED
  BY <1>2 DEF FilesReady

\* ... until it is dead, which is told by the pidfd.
LEMMA ExitReady ==
  ASSUME App, App', NEW c \in Conn, ChildExit(c)
  PROVE  \A d \in Conn, k \in Kinds : d # c \/ k # "pid" => FilesReady'[d][k] = FilesReady[d][k]
<1>1. /\ \A d \in Conn \ {c} : child'[d] = child[d]
      /\ child[c] = "exiting" /\ child'[c] = "zombie"
      /\ UNCHANGED <<cl, inq, outq, outp>>
  BY DEF ChildExit, netVars, App, TypeOK
<1>2. ASSUME NEW d \in Conn, NEW k \in Kinds, d # c \/ k # "pid"
      PROVE  FileReady(d, k)' = FileReady(d, k)
  <2>1. CASE k = "sock"
    BY <1>1, <2>1 DEF FileReady
  <2>2. CASE k = "rd"
    BY <1>1, <2>2 DEF FileReady
  <2>3. CASE k = "wr"
    BY <1>1, <2>3 DEF FileReady
  <2>4. CASE k = "pid"
    BY <1>1, <1>2, <2>4 DEF FileReady
  <2> QED
    BY <2>1, <2>2, <2>3, <2>4 DEF Kinds
<1> QED
  BY <1>2 DEF FilesReady

\* A change of one file is an Arrive of the reactor if it has a descriptor, and
\* nothing to it if not.
LEMMA SignalStep ==
  ASSUME App, Files, Files', NEW c \in Conn, NEW kind \in Kinds,
         NEW F \in SUBSET {"IN", "OUT", "HUP"}, Signal(fd[c][kind], F),
         UNCHANGED <<fd, backlog>>,
         \A d \in Conn, k \in Kinds : d # c \/ k # kind => FilesReady'[d][k] = FilesReady[d][k]
  PROVE  [IO!Next]_(IO!vars)
<1>1. CASE fd[c][kind] # Null
  <2>1. fd[c][kind] \in Desc /\ IO!Arrive(fd[c][kind], F)
    BY <1>1 DEF Signal, App, TypeOK, Files, Owned
  <2> QED
    BY <2>1 DEF IO!Next, IO!KernelStep
<1>2. CASE fd[c][kind] = Null
  <2>1. UNCHANGED ioVars
    BY <1>2 DEF Signal
  <2>2. Poll' = Poll
    BY <1>2, <2>1, Unheard DEF ioVars
  <2> QED
    BY <2>1, <2>2 DEF ioVars, ioRest, IO!vars, IO!afdVars, IO!loopVars, IO!coroVars, IO!kernelVars
<1> QED
  BY <1>1, <1>2

\* What clients and children do is a step of the kernel, or nothing to the
\* reactor.
LEMMA OthersStep ==
  ASSUME App, App', Files, Files', NEW c \in Conn, ClientStep(c) \/ Child(c)
  PROVE  [IO!Next]_(IO!vars)
<1>1. CASE Connect(c)
  <2>1. Listen \in Desc /\ IO!Arrive(Listen, {"IN"})
    BY <1>1 DEF Connect, Signal, Files, Listening
  <2> QED
    BY <2>1 DEF IO!Next, IO!KernelStep
<1>2. CASE ClientReset(c) \/ ClientRead(c) \/ \E s, from, to : ClientSend(c, s, from, to)
  <2>1. UNCHANGED <<fd, backlog>>
    BY <1>2 DEF ClientReset, ClientRead, ClientSend, appVars
  <2>2. \E F \in SUBSET {"IN", "OUT", "HUP"} : Signal(fd[c]["sock"], F)
    BY <1>2 DEF ClientReset, ClientRead, ClientSend
  <2> QED
    BY <1>2, <2>1, <2>2, ClientReady, SignalStep DEF Kinds
<1>3. CASE ChildEcho(c) \/ ChildCopy(c) \/ ChildEof(c)
  <2>1. UNCHANGED <<fd, backlog>>
    BY <1>3 DEF ChildEcho, ChildCopy, ChildEof, appVars, netVars
  <2>2. \E F \in SUBSET {"IN", "OUT", "HUP"} : Signal(fd[c]["rd"], F)
    BY <1>3 DEF ChildEcho, ChildCopy, ChildEof
  <2> QED
    BY <1>3, <2>1, <2>2, ChildReady, SignalStep DEF Kinds
<1>4. CASE ChildExit(c)
  <2>1. UNCHANGED <<fd, backlog>> /\ Signal(fd[c]["pid"], {"IN"})
    BY <1>4 DEF ChildExit, appVars, netVars
  <2> QED
    BY <1>4, <2>1, ExitReady, SignalStep DEF Kinds
<1> QED
  BY <1>1, <1>2, <1>3, <1>4 DEF ClientStep, Child

\* A step that changes nothing changes nothing in the reactor.
LEMMA StutterStep ==
  ASSUME App, UNCHANGED vars
  PROVE  UNCHANGED IO!vars
<1>1. UNCHANGED <<owner, fd, backlog, cl, inq, outq, outp, child>> /\ UNCHANGED ioVars
  BY DEF vars, appVars, envVars, netVars, cmdVars, ioVars
<1>2. Poll' = Poll
  BY <1>1 DEF Poll, FileReady
<1> QED
  BY <1>1, <1>2 DEF ioVars, ioRest, IO!vars, IO!afdVars, IO!loopVars, IO!coroVars, IO!kernelVars

\* A step of coroutine k on a descriptor.
LEMMA CoroNext ==
  ASSUME NEW k \in Conn \cup {Acceptor}, NEW a \in Desc, NEW dir \in {"IN", "OUT"},
         NEW watch \in BOOLEAN,
         Completes(k, a, dir) \/ IO!AwaitSuspend(k, a, dir, watch) \/ IO!AwaitFail(k, a)
         \/ IO!Destroy(k, a)
  PROVE  IO!Next
BY DEF Completes, IO!Next, IO!CoroStep, IO!Dir

\* accept() and run() take steps of the reactor, ...
LEMMA MainSteps ==
  ASSUME App, Files,
         MainStart \/ MainListen \/ Accept \/ AcceptSuspend \/ Run
  PROVE  IO!Next
<1>1. CASE MainStart
  BY <1>1 DEF MainStart, IO!Next, IO!CoroStep
<1>2. CASE MainListen
  <2>1. IO!Construct(Acceptor, Listen, {"IN"}, {}, TRUE)
    BY <1>2 DEF MainListen
  <2> QED
    BY <2>1 DEF IO!Next, IO!CoroStep, IO!Masks
<1>3. CASE Accept \/ AcceptSuspend
  BY <1>3, CoroNext DEF Accept, AcceptSuspend
<1>4. CASE Run
  BY <1>4 DEF Run, IO!Next
<1> QED
  BY <1>1, <1>2, <1>3, <1>4

\* ... and so do the handlers, on descriptors that they hold.
LEMMA HandlerSteps ==
  ASSUME App, Files, NEW c \in Conn, Handler(c)
  PROVE  [IO!Next]_(IO!vars)
<1> USE DEF At
<1>0. \A k \in Kinds : k \in Held(pc[c]) => fd[c][k] \in Desc
  BY DEF App, TypeOK, Files, HeldAt
<1>1. CASE HandlerStart(c) \/ HandlerEnd(c)
  BY <1>1 DEF HandlerStart, HandlerEnd, IO!Next, IO!CoroStep
<1>2. CASE AttachSocket(c) \/ OpenRead(c) \/ OpenWrite(c) \/ Fork(c)
  <2>1. FileReady(c, "sock") \in SUBSET {"IN", "OUT", "HUP"}
    BY DEF FileReady
  <2>2. \E a \in Desc, mask \in {{"IN"}, {"OUT"}}, r \in SUBSET {"IN", "OUT", "HUP"} :
          IO!Construct(c, a, mask, r, FALSE)
    BY <1>2, <2>1 DEF AttachSocket, OpenRead, OpenWrite, Fork, Open, Kinds
  <2>3. \E a \in Desc, mask \in IO!Masks, r \in SUBSET {"IN", "OUT", "HUP"}, watch \in BOOLEAN :
          IO!Construct(c, a, mask, r, watch)
    BY <2>2 DEF IO!Masks
  <2>4. IO!CoroStep(c)
    BY <2>3 DEF IO!CoroStep
  <2> QED
    BY <2>4 DEF IO!Next
<1>3. CASE CloseSocket(c) \/ FinishWriting(c) \/ FinishReading(c) \/ CloseCommand(c)
           \/ UnwindRead(c) \/ UnwindPid(c)
  <2>1. \E k \in Kinds : k \in Held(pc[c]) /\ IO!Destroy(c, fd[c][k])
    BY <1>3 DEF CloseSocket, FinishWriting, FinishReading, CloseCommand, UnwindRead, UnwindPid,
                Close, Held, Kinds
  <2> QED
    BY <1>0, <2>1, CoroNext
<1>4. CASE Recv(c) \/ ReadPipe(c) \/ Send(c) \/ WaitChild(c)
  <2>1. \E k \in Kinds, dir \in {"IN", "OUT"} :
          k \in Held(pc[c]) /\ Completes(c, fd[c][k], dir)
    BY <1>4 DEF Recv, ReadPipe, Send, WaitChild, Held, Kinds
  <2> QED
    BY <1>0, <2>1, CoroNext
<1>5. CASE WritePipe(c)
  <2>1. "wr" \in Held(pc[c]) /\ "wr" \in Kinds /\ Completes(c, fd[c]["wr"], "OUT")
    BY <1>5 DEF WritePipe, Completes, Held, Kinds
  <2> QED
    BY <1>0, <2>1, CoroNext
<1>6. CASE \/ Suspend(c, "recv", "sock", "IN", TRUE) \/ Suspend(c, "read", "rd", "IN", TRUE)
           \/ Suspend(c, "send", "sock", "OUT", TRUE) \/ WaitSuspend(c)
  <2>1. \E k \in Kinds, dir \in {"IN", "OUT"}, watch \in BOOLEAN :
          k \in Held(pc[c]) /\ IO!AwaitSuspend(c, fd[c][k], dir, watch)
    BY <1>6 DEF Suspend, WaitSuspend, Held, Kinds
  <2> QED
    BY <1>0, <2>1, CoroNext
<1>7. CASE Crash(c)
  <2>1. "sock" \in Held(pc[c]) /\ "sock" \in Kinds /\ IO!AwaitFail(c, fd[c]["sock"])
    BY <1>7 DEF Crash, Held, Kinds
  <2> QED
    BY <1>0, <2>1, CoroNext
<1>8. CASE UnwindFrame(c)
  <2>1. Poll' = Poll \/ IO!EndFrame(c)
    <3>1. UNCHANGED <<fd, backlog, cl, inq, outq, outp, child>>
      BY <1>8 DEF UnwindFrame, envVars, netVars, cmdVars
    <3>2. CASE UNCHANGED ioVars
      BY <3>1, <3>2 DEF Poll, FileReady, ioVars
    <3> QED
      BY <1>8, <3>2 DEF UnwindFrame
  <2>2. CASE IO!EndFrame(c)
    BY <2>2 DEF IO!Next, IO!CoroStep
  <2>3. CASE UNCHANGED ioVars /\ Poll' = Poll
    BY <2>3 DEF ioVars, ioRest, IO!vars, IO!afdVars, IO!loopVars, IO!coroVars, IO!kernelVars
  <2> QED
    BY <1>8, <2>1, <2>2, <2>3 DEF UnwindFrame
<1> QED
  BY <1>1, <1>2, <1>3, <1>4, <1>5, <1>6, <1>7, <1>8 DEF Handler

\* The invariants hold at the beginning, where the reactor is in its initial
\* state.
LEMMA InitSteps == Init => App /\ Files /\ IO!Init
<1> SUFFICES ASSUME Init PROVE App /\ Files /\ IO!Init
  OBVIOUS
<1>1. App
  <2>1. <<>> \in Seq(Byte) /\ <<>> \in Seq(Conn) /\ Len(<<>>) = 0
    BY PayloadBytes
  <2>2. TypeOK
    <3>1. reused = FALSE
      BY DEF Init
    <3>2. reused \in BOOLEAN
      BY <3>1, Zenon
    <3> QED
      BY <2>1, <3>2 DEF Init, TypeOK
  <2>3. Bytes /\ Sending
    BY <2>1 DEF Init, Bytes, Sending
  <2> QED
    BY <2>2, <2>3 DEF App
<1>2. owner = [a \in Desc |-> Null] /\ co = [k \in Conn \cup {Acceptor} |-> "idle"]
  BY DEF Init, IO!Init, IO!ForAll
<1>3. Held("new") = {}
  BY DEF Held
<1>4. Files
  BY <1>2, <1>3 DEF Init, Files, Reactor, HeldAt, Owned, Accounted, Listening, IdleBare
<1> QED
  BY <1>1, <1>4 DEF Init

\* App and Files hold in every state of the server: each handler holds exactly
\* the descriptors of the place where it is, and owns them.
THEOREM Invariance == Spec => [](App /\ Files)
BY InitSteps, AppInv, FilesInv, PTL DEF Spec

\* The variables of the application keep their types: nbSend stays a size_t and
\* socket.send() never puts more into the send buffer than it has room for.
THEOREM TypeCorrect == Spec => []TypeOK
<1>1. App /\ Files => TypeOK
  BY DEF App
<1> QED
  BY <1>1, Invariance, PTL

\* A step of the server is a step of the reactor or none.
LEMMA StepSimulation == App /\ Files /\ [Next]_vars => [IO!Next]_(IO!vars)
<1> SUFFICES ASSUME App, Files, [Next]_vars PROVE [IO!Next]_(IO!vars)
  OBVIOUS
<1>1. App' /\ Files'
  BY AppInv, FilesInv
<1> QED
  BY <1>1, MainSteps, HandlerSteps, OthersStep, StutterStep DEF Next, Idle

\* accept(), the handlers, clients and children implement IOContext, with Poll
\* for poll.
LEMMA Refinement == Spec => IO!Spec
BY InitSteps, Invariance, StepSimulation, PTL DEF Spec, IO!Spec

-----------------------------------------------------------------------------
(***************************************************************************)
(* What is proved of IOContext holds of the server.                        *)
(***************************************************************************)

IOP == INSTANCE IOContextProofs
         WITH Coro <- Conn \cup {Acceptor}, Flag <- {"IN", "OUT", "HUP"}, poll <- Poll

\* IOP is the module IO with its proofs.
LEMMA SameReactor == [IO!Next]_(IO!vars) => [IOP!Next]_(IOP!vars)
<1> SUFFICES ASSUME [IO!Next]_(IO!vars) PROVE [IOP!Next]_(IOP!vars)
  OBVIOUS
<1>1. ASSUME NEW k, IO!Spawn(k) PROVE IOP!Spawn(k)
  BY <1>1 DEF IO!Spawn, IOP!Spawn, IO!Running, IOP!Running, IO!afdVars, IOP!afdVars,
     IO!loopVars, IOP!loopVars, IO!kernelVars, IOP!kernelVars
<1>2. ASSUME NEW k, NEW a, NEW mask, NEW r, NEW watch, IO!Construct(k, a, mask, r, watch)
      PROVE  IOP!Construct(k, a, mask, r, watch)
  BY <1>2 DEF IO!Construct, IOP!Construct, IO!Runs, IOP!Runs, IO!Up, IOP!Up, IO!Undefined, IOP!Undefined, IO!Attach, IOP!Attach,
     IO!Reported, IOP!Reported, IO!coroVars, IOP!coroVars
<1>3. ASSUME NEW k, NEW a, NEW dir, IO!AwaitDone(k, a, dir) PROVE IOP!AwaitDone(k, a, dir)
  BY <1>3 DEF IO!AwaitDone, IOP!AwaitDone, IO!Runs, IOP!Runs, IO!Up, IOP!Up, IO!Undefined, IOP!Undefined, IO!CanComplete,
     IOP!CanComplete, IO!Unwatch, IOP!Unwatch, IO!After, IOP!After, IO!coroVars,
     IOP!coroVars
<1>4. ASSUME NEW k, NEW a, NEW dir, NEW watch, IO!AwaitSuspend(k, a, dir, watch)
      PROVE  IOP!AwaitSuspend(k, a, dir, watch)
  BY <1>4 DEF IO!AwaitSuspend, IOP!AwaitSuspend, IO!Runs, IOP!Runs, IO!Up, IOP!Up, IO!Undefined, IOP!Undefined, IO!CanComplete,
     IOP!CanComplete, IO!Watch, IOP!Watch, IO!kernelVars, IOP!kernelVars
<1>5. ASSUME NEW k, NEW a, IO!AwaitFail(k, a) PROVE IOP!AwaitFail(k, a)
  BY <1>5 DEF IO!AwaitFail, IOP!AwaitFail, IO!Up, IOP!Up, IO!Undefined, IOP!Undefined, IO!ForAll, IOP!ForAll, IO!NoOp, IOP!NoOp
<1>6. ASSUME NEW k, IO!AwaitResume(k) PROVE IOP!AwaitResume(k)
  BY <1>6 DEF IO!AwaitResume, IOP!AwaitResume, IO!Up, IOP!Up, IO!Undefined, IOP!Undefined, IO!NoOp, IOP!NoOp, IO!Unwatch,
     IOP!Unwatch, IO!After, IOP!After, IO!CanComplete, IOP!CanComplete
<1>7. ASSUME NEW k, NEW a, IO!Destroy(k, a) PROVE IOP!Destroy(k, a)
  BY <1>7 DEF IO!Destroy, IOP!Destroy, IO!Runs, IOP!Runs, IO!Up, IOP!Up, IO!Undefined, IOP!Undefined, IO!Detach, IOP!Detach,
     IO!Unlisted, IOP!Unlisted, IO!coroVars, IOP!coroVars
<1>13. ASSUME NEW k, IO!EndFrame(k) PROVE IOP!EndFrame(k)
  BY <1>13 DEF IO!EndFrame, IOP!EndFrame, IO!Runs, IOP!Runs, IO!Up, IOP!Up,
     IO!Undefined, IOP!Undefined, IO!loopVars, IOP!loopVars, IO!coroVars, IOP!coroVars,
     IO!kernelVars, IOP!kernelVars
<1>8. ASSUME NEW k, IO!Finish(k) PROVE IOP!Finish(k)
  BY <1>8 DEF IO!Finish, IOP!Finish, IO!Runs, IOP!Runs, IO!Up, IOP!Up, IO!Undefined, IOP!Undefined, IO!afdVars, IOP!afdVars,
     IO!loopVars, IOP!loopVars, IO!kernelVars, IOP!kernelVars
<1>9. ASSUME IO!RunStep PROVE IOP!RunStep
  <2>1. ASSUME IO!EpollWait PROVE IOP!EpollWait
    <3>1. \A b : IO!Cardinality(b) = IOP!Cardinality(b)
      BY DEF IO!Cardinality, IOP!Cardinality
    <3> QED
      BY <2>1, <3>1, Zenon
      DEF IO!EpollWait, IOP!EpollWait, IO!Reported, IOP!Reported, IO!Running, IOP!Running,
          IO!afdVars, IOP!afdVars, IO!coroVars, IOP!coroVars
  <2>2. ASSUME NEW e, IO!DispatchUnmanaged(e) PROVE IOP!DispatchUnmanaged(e)
    BY <2>2 DEF IO!DispatchUnmanaged, IOP!DispatchUnmanaged, IO!Managed, IOP!Managed, IO!Running, IOP!Running,
       IO!afdVars, IOP!afdVars, IO!coroVars, IOP!coroVars, IO!kernelVars, IOP!kernelVars
  <2>3. ASSUME NEW e, IO!DispatchIn(e) PROVE IOP!DispatchIn(e)
    BY <2>3 DEF IO!DispatchIn, IOP!DispatchIn, IO!Managed, IOP!Managed, IO!Gone, IOP!Gone,
       IO!Live, IOP!Live, IO!Running, IOP!Running, IO!Resume,
       IOP!Resume, IO!OutTest, IOP!OutTest, IO!kernelVars, IOP!kernelVars
  <2>4. ASSUME NEW a, IO!DispatchOut(a) PROVE IOP!DispatchOut(a)
    BY <2>4 DEF IO!DispatchOut, IOP!DispatchOut, IO!Gone, IOP!Gone, IO!Running, IOP!Running, IO!Resume,
       IOP!Resume, IO!Live, IOP!Live, IO!afdVars, IOP!afdVars, IO!kernelVars,
       IOP!kernelVars
  <2>5. ASSUME IO!ApplyMod PROVE IOP!ApplyMod
    BY <2>5 DEF IO!ApplyMod, IOP!ApplyMod, IO!Live, IOP!Live, IO!Running, IOP!Running, IO!Reported,
       IOP!Reported, IO!coroVars, IOP!coroVars
  <2> QED
    BY <1>9, <2>1, <2>2, <2>3, <2>4, <2>5 DEF IO!RunStep, IOP!RunStep
<1>10. ASSUME NEW k, IO!CoroStep(k) PROVE IOP!CoroStep(k)
  BY <1>1, <1>2, <1>3, <1>4, <1>5, <1>6, <1>7, <1>8, <1>10, <1>13
  DEF IO!CoroStep, IOP!CoroStep, IO!Dir, IOP!Dir, IO!Masks, IOP!Masks
<1>11. ASSUME IO!KernelStep PROVE IOP!KernelStep
  BY <1>11 DEF IO!KernelStep, IOP!KernelStep, IO!Arrive, IOP!Arrive, IO!Up, IOP!Up, IO!Undefined, IOP!Undefined, IO!Reported,
     IOP!Reported, IO!afdVars, IOP!afdVars, IO!loopVars, IOP!loopVars, IO!coroVars,
     IOP!coroVars
<1>12. UNCHANGED IO!vars => UNCHANGED IOP!vars
  BY DEF IO!vars, IOP!vars, IO!afdVars, IOP!afdVars, IO!loopVars, IOP!loopVars,
     IO!coroVars, IOP!coroVars, IO!kernelVars, IOP!kernelVars
<1> QED
  BY <1>9, <1>10, <1>11, <1>12 DEF IO!Next, IOP!Next

\* The constants of the server satisfy the assumptions of IOContext.
LEMMA ReactorAssumptions ==
  /\ IOP!FlagAssumption /\ IOP!NullAssumption
  /\ IOP!LostAssumption /\ IOP!MaxEventsAssumption
<1>1. IOP!FlagAssumption
  BY DEF IOP!FlagAssumption, IOP!Dir
<1>2. IOP!NullAssumption /\ IOP!LostAssumption /\ IOP!MaxEventsAssumption
  BY DEF IOP!NullAssumption, IOP!LostAssumption, IOP!MaxEventsAssumption
<1> QED
  BY <1>1, <1>2

\* What IOContext promises, of the server, whatever the placement of its
\* descriptors: no event and no entry of the list to process leads run() to an
\* object that a handler or ~PipedAsyncCommand has destroyed (the resumeSend()
\* after a resumeRecv() is another matter, see the run echo_freed), and whenever
\* it waits, every suspended handler is subscribed for what it awaits and no
\* notification of it was lost.
THEOREM ReactorSafe == Spec => [](IO!NoDangling /\ IO!Armed /\ IO!NoMissedWakeup)
<1>1. IO!Init => IOP!Init
  BY DEF IO!Init, IOP!Init, IO!ForAll, IOP!ForAll, IO!NoOp, IOP!NoOp
<1>2. Spec => IOP!Spec
  BY <1>1, Refinement, SameReactor, PTL DEF IO!Spec, IOP!Spec
<1>3. IOP!Spec => []IOP!NoDangling
  BY ReactorAssumptions, IOP!NeverDangling, PTL
<1>4. IOP!Spec => []IOP!Armed
  BY ReactorAssumptions, IOP!AlwaysArmed, PTL
<1>5. IOP!Spec => []IOP!NoMissedWakeup
  BY ReactorAssumptions, IOP!NoLostWakeup, PTL
<1>6. /\ IOP!NoDangling => IO!NoDangling
      /\ IOP!Armed => IO!Armed
      /\ IOP!NoMissedWakeup => IO!NoMissedWakeup
  BY DEF IO!NoDangling, IOP!NoDangling, IO!Live, IOP!Live,
         IO!Armed, IOP!Armed, IO!NoMissedWakeup, IOP!NoMissedWakeup
<1> QED
  BY <1>2, <1>3, <1>4, <1>5, <1>6, PTL
=============================================================================

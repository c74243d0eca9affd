----------------------------- MODULE EchoServer -----------------------------
(***************************************************************************)
(* The application: accept(), client_socket_handler() and echo_loop() of   *)
(* app/main.cc, with Socket (socket.cc), PipedAsyncCommand                 *)
(* (piped_async_command.cc) and the system calls of the operations, on top *)
(* of the reactor IOContext, of which it is one program.  Clients, pipes   *)
(* and the child process running cat are external.                         *)
(*                                                                         *)
(* Each step is one system call (or one descriptor made or destroyed)      *)
(* together with the code up to the next one, so the kernel, the clients   *)
(* and the children may act between any two system calls.  A step first    *)
(* updates the application and the files, then takes the matching step of  *)
(* the reactor; Poll, the readiness of the files, is a function of the     *)
(* former.                                                                 *)
(*                                                                         *)
(* A byte is a token; "n" is '\n' and "k" stands for the word cat.  The     *)
(* pipe to the child always has room for one message, messages and replies *)
(* fit into the buffers of BUFFSIZE bytes, and init() succeeds             *)
(* (PipedAsyncCommand.tla has its failures).                               *)
(***************************************************************************)
EXTENDS Naturals, Integers, Sequences, FiniteSets

CONSTANTS
  Conn,       (* client connections; also the coroutine handling each             *)
  Acceptor,   (* the coroutine accept()                                           *)
  Desc, Listen, Null, Lost, MaxEvents,
  Home,       (* addresses where each kind of descriptor of a connection may live *)
  Payload,    (* what each client sends, in one segment                           *)
  Reply,      (* what each client expects back                                    *)
  Faults,     (* what else each client may do, at most one of: "fin" half-closes, *)
              (* "more" sends on, "reset" resets the connection                   *)
  EchoCmd,    (* the C library writes the child's std::cout before execvp (musl)  *)
  SendCap,    (* room in the socket's send buffer                                 *)
  SizeMod,    (* size_t is modulo this                                            *)
  MaxLoops    (* bound on the rounds of client_socket_handler                     *)

VARIABLES
  owner, io_state, io_new_state, coroRecv, coroSend, doneRecv,
  managed_fd, processedSockets, phase, events, half, co, op, epset, interest, ready,
  \* the application
  apc,        (* accept(): "start", "bind", "loop"; "dead": the process ended     *)
  accepted,   (* the connection accept() returned, until its handler starts       *)
  pc,         (* where the handler of a connection is                             *)
  fd,         (* addresses of its descriptors                                     *)
  data,       (* echo_loop's data                                                 *)
  merged,     (* echo_loop's merged                                               *)
  nbSend,
  loops,      (* rounds of client_socket_handler                                  *)
  reused,     (* history: a descriptor was made at an address that an event of    *)
              (* the batch, not handled yet, still names                          *)
  \* the environment
  cl,         (* client: "none", "open", "sent", "more", "fin", "reset"; "gone":  *)
              (* reset, and the server was told                                   *)
  backlog,    (* connections waiting for accept()                                 *)
  inq, outq,  (* bytes in the socket's receive and send buffers                   *)
  got,        (* bytes the client has read                                        *)
  child,      (* "none", "echo", "cat", "exiting", "zombie", "reaped"             *)
  orphan,     (* a command object was destroyed before its child was waited for   *)
  inp, outp   (* bytes in the pipes to and from the child                         *)

accVars == <<apc, accepted>>
bufVars == <<data, merged, nbSend, loops>>
appVars == <<accVars, pc, fd, reused, bufVars>>
netVars == <<cl, backlog, inq, outq, got>>
cmdVars == <<child, orphan, inp, outp>>
envVars == <<netVars, cmdVars>>

Kinds == {"sock", "rd", "wr", "pid"}

ASSUME NamesAssumption   == /\ Acceptor \notin Conn /\ Null \notin Conn \cup {Acceptor} \cup Desc
                            /\ Lost \notin Conn \cup {Acceptor, Null}
\* The listening socket is a local of main(), the other objects are on the heap.
ASSUME HomeAssumption    == /\ Listen \in Desc
                            /\ \A c \in Conn, k \in Kinds : Home[<<c, k>>] \subseteq Desc \ {Listen}
ASSUME PayloadAssumption == Payload \in [Conn -> Seq(STRING)]
ASSUME SizesAssumption   == /\ MaxEvents \in Nat \ {0} /\ SizeMod \in Nat \ {0}
                            /\ SendCap \in Nat /\ MaxLoops \in Nat

\* The readiness of the files behind the descriptors.
FileReady(c, kind) ==
  CASE kind = "sock" -> IF cl[c] \in {"reset", "gone"} THEN {"IN", "OUT", "HUP"}
                        ELSE (IF inq[c] # <<>> \/ cl[c] = "fin" THEN {"IN"} ELSE {})
                             \cup (IF Len(outq[c]) < SendCap THEN {"OUT"} ELSE {})
    [] kind = "rd"   -> (IF outp[c] # <<>> THEN {"IN"} ELSE {})
                        \cup (IF child[c] \in {"exiting", "zombie", "reaped"}
                                THEN {"HUP"} ELSE {})
    [] kind = "wr"   -> {"OUT"}
    [] kind = "pid"  -> IF child[c] \in {"zombie", "reaped"} THEN {"IN"} ELSE {}

Poll ==
  [a \in Desc |->
     LET k == owner[a] IN
     CASE k = Null     -> {}
       [] k = Acceptor -> IF backlog # <<>> THEN {"IN"} ELSE {}
       [] OTHER        -> UNION {FileReady(k, i) : i \in {j \in Kinds : fd[k][j] = a}}]

IO == INSTANCE IOContext
        WITH Coro <- Conn \cup {Acceptor}, Flag <- {"IN", "OUT", "HUP"}, poll <- Poll

ioRest == <<io_state, io_new_state, coroRecv, coroSend, doneRecv, managed_fd,
            processedSockets, phase, events, half, co, op, epset, interest, ready>>
ioVars == <<owner, ioRest>>
vars == <<ioVars, appVars, envVars>>

\* inputString.erase(0, find('\n') + 1): find gives npos, and npos + 1 = 0, if
\* there is no newline.  extractCommand() leaves the string alone then, too.
EraseLine(s) ==
  LET nl == {i \in 1..Len(s) : s[i] = "n"} IN
  IF nl = {} THEN s ELSE SubSeq(s, (CHOOSE i \in nl : \A j \in nl : i <= j) + 1, Len(s))

Lesser(m, n) == IF m < n THEN m ELSE n

(***************************************************************************)
(* main() and accept().  accept() is on the stack below the handlers it    *)
(* started: it goes on when they have all suspended or ended.              *)
(***************************************************************************)

NoHandlerRuns == \A c \in Conn : co[c] \notin {"run", "woken"}

\* The end of co_await for an operation of k on a: at once or after a suspension.
Completes(k, a, dir) == IO!AwaitDone(k, a, dir) \/ IO!AwaitResume(k)

MainStart ==
  /\ apc = "start"
  /\ apc' = "bind"
  /\ UNCHANGED <<accepted, pc, fd, reused, bufVars, envVars>>
  /\ IO!Spawn(Acceptor)

MainListen ==
  /\ apc = "bind"
  /\ apc' = "loop"
  /\ UNCHANGED <<accepted, pc, fd, reused, bufVars, envVars>>
  /\ IO!Construct(Acceptor, Listen, {"IN"}, {}, TRUE)

\* SocketAcceptOperation: a connection is there ...
Accept ==
  /\ apc = "loop" /\ accepted = Null /\ NoHandlerRuns
  /\ backlog # <<>>
  /\ accepted' = Head(backlog)
  /\ backlog' = Tail(backlog)
  /\ UNCHANGED <<apc, pc, fd, reused, bufVars, cl, inq, outq, got, cmdVars>>
  /\ Completes(Acceptor, Listen, "IN")

\* ... or not.
AcceptSuspend ==
  /\ apc = "loop" /\ accepted = Null /\ NoHandlerRuns
  /\ UNCHANGED <<appVars, envVars>>
  /\ IO!AwaitSuspend(Acceptor, Listen, "IN", TRUE)

\* client_socket_handler(std::move(socket)).detach().
HandlerStart(c) ==
  /\ accepted = c
  /\ accepted' = Null
  /\ pc' = [pc EXCEPT ![c] = "attach"]
  /\ UNCHANGED <<apc, fd, reused, bufVars, envVars>>
  /\ IO!Spawn(c)

(***************************************************************************)
(* client_socket_handler() and echo_loop() of connection c.                *)
(***************************************************************************)

At(c, l) == pc[c] = l /\ co[c] \in {"run", "woken"}
Goto(c, l) == pc' = [pc EXCEPT ![c] = l]

\* An event of the batch, or the half of one, that run() has still to handle
\* names address a.
Named(a) == a \in half \/ \E e \in events : e.ptr = a

\* A descriptor of the given kind is made at a free address and attached.
Open(c, kind, mask, r) ==
  \E a \in Home[<<c, kind>>] :
    /\ owner[a] = Null
    /\ fd' = [fd EXCEPT ![c][kind] = a]
    /\ reused' = (reused \/ Named(a))
    /\ IO!Construct(c, a, mask, r, FALSE)

Close(c, kind) ==
  /\ fd' = [fd EXCEPT ![c][kind] = Null]
  /\ UNCHANGED reused
  /\ IO!Destroy(c, fd[c][kind])

\* Socket(fd, io_context).  Socket::accept() makes the object just before the
\* handler starts; it is the handler's from then on.
AttachSocket(c) ==
  /\ At(c, "attach") /\ Goto(c, "recv")
  /\ UNCHANGED <<accVars, bufVars, envVars>>
  /\ Open(c, "sock", {"IN"}, FileReady(c, "sock"))

\* SocketRecvOperation: recv() answers -1, for EAGAIN or for a reset.
RecvFails(c) == inq[c] = <<>> /\ cl[c] \notin {"fin", "gone"}

\* The error of a reset is answered once.
Told(c) == [cl EXCEPT ![c] = IF @ = "reset" THEN "gone" ELSE @]

\* socket.recv(), which returns the number of bytes received plus that of the
\* two terminators it writes: the end of the stream is not told from a message
\* and goes on with empty data; only -1, after a resumption, ends the loop.
Recv(c) ==
  LET nbRecv == IF RecvFails(c) THEN -1 ELSE Len(inq[c]) + 2 IN
  /\ At(c, "recv")
  /\ RecvFails(c) => co[c] = "woken"
  /\ Goto(c, IF nbRecv <= 0 THEN "closeS" ELSE "pipe")
  /\ data' = [data EXCEPT ![c] = EraseLine(inq[c])]
  /\ merged' = [merged EXCEPT ![c] = <<>>]
  /\ nbSend' = [nbSend EXCEPT ![c] = 0]
  /\ inq' = [inq EXCEPT ![c] = <<>>]
  /\ cl' = IF RecvFails(c) THEN Told(c) ELSE cl
  /\ UNCHANGED <<accVars, fd, reused, loops, backlog, outq, got, cmdVars>>
  /\ Completes(c, fd[c]["sock"], "IN")

\* The first recv() or send() of an operation meets the reset and no error
\* storage was given (rs_error_bubble_or_exit), or send() gets SIGPIPE: the
\* process ends, with all its handlers and connections.
Crash(c) ==
  /\ \/ At(c, "recv") /\ inq[c] = <<>> /\ cl[c] = "reset" /\ co[c] = "run"
     \/ At(c, "send") /\ cl[c] = "reset" /\ co[c] = "run"
     \/ At(c, "send") /\ cl[c] = "gone"
  /\ apc' = "dead" /\ accepted' = Null /\ backlog' = <<>>
  /\ pc' = [d \in Conn |-> "dead"]
  /\ fd' = [d \in Conn |-> [k \in Kinds |-> Null]]
  /\ UNCHANGED <<reused, bufVars, cl, inq, outq, got, cmdVars>>
  /\ IO!AwaitFail(c, fd[c]["sock"])

\* An operation of c on its descriptor of that kind meets EAGAIN.
Suspend(c, l, kind, dir, watch) ==
  /\ At(c, l)
  /\ UNCHANGED <<appVars, envVars>>
  /\ IO!AwaitSuspend(c, fd[c][kind], dir, watch)

\* PipedAsyncCommand::init(): both pipes, ...
OpenRead(c) ==
  /\ At(c, "pipe") /\ Goto(c, "pipeW")
  /\ UNCHANGED <<accVars, bufVars, envVars>>
  /\ Open(c, "rd", {"IN"}, {})

OpenWrite(c) ==
  /\ At(c, "pipeW") /\ Goto(c, "fork")
  /\ UNCHANGED <<accVars, bufVars, envVars>>
  /\ Open(c, "wr", {"OUT"}, {"OUT"})

\* ... fork() and pidfd_open().
Fork(c) ==
  /\ At(c, "fork") /\ Goto(c, "write")
  /\ child' = [child EXCEPT ![c] = IF EchoCmd THEN "echo" ELSE "cat"]
  /\ UNCHANGED <<accVars, bufVars, netVars, orphan, inp, outp>>
  /\ Open(c, "pid", {"IN"}, {})

\* writepipe().
WritePipe(c) ==
  /\ At(c, "write") /\ Goto(c, "closeW")
  /\ inp' = [inp EXCEPT ![c] = @ \o data[c]]
  /\ UNCHANGED <<accVars, fd, reused, bufVars, netVars, child, orphan, outp>>
  /\ IO!AwaitDone(c, fd[c]["wr"], "OUT")

FinishWriting(c) ==
  /\ At(c, "closeW") /\ Goto(c, "read")
  /\ UNCHANGED <<accVars, bufVars, envVars>>
  /\ Close(c, "wr")

\* FileReadOperation: read() answers 0.
PipeEnd(c) == outp[c] = <<>> /\ child[c] \in {"exiting", "zombie", "reaped"}

\* Mutant of LoopEnds: the loop does not end at a missing newline.
LoopEndsLate(c, m) == PipeEnd(c) \/ doneRecv[fd[c]["rd"]]

\* The loop ends when the bytes so far do not end in a newline, at the end of
\* the pipe, or when run() saw a hang-up together with input (doneReading).
LoopEnds(c, m) == m[Len(m)] # "n" \/ PipeEnd(c) \/ doneRecv[fd[c]["rd"]]

\* readpipe() and the rest of the loop's body.  Without any byte so far
\* merged.at() throws; unhandled_exception() swallows that.
ReadPipe(c) ==
  LET m == merged[c] \o outp[c] IN
  /\ At(c, "read")
  /\ Goto(c, IF m = <<>> THEN "throw" ELSE IF LoopEnds(c, m) THEN "closeR" ELSE "read")
  /\ merged' = [merged EXCEPT ![c] = m]
  /\ outp' = [outp EXCEPT ![c] = <<>>]
  /\ UNCHANGED <<accVars, fd, reused, data, nbSend, loops, netVars, child, orphan, inp>>
  /\ Completes(c, fd[c]["rd"], "IN")

\* finishReading(), and the echo of the command is erased from the reply.
FinishReading(c) ==
  /\ At(c, "closeR")
  /\ merged' = [merged EXCEPT ![c] = EraseLine(@)]
  /\ Goto(c, IF EraseLine(merged[c]) = <<>> THEN "wait" ELSE "send")
  /\ UNCHANGED <<accVars, data, nbSend, loops, envVars>>
  /\ Close(c, "rd")

\* SocketSendOperation: how much of the rest of merged send() takes; 0 is -1.
Taken(c) ==
  IF cl[c] = "reset" THEN 0
  ELSE Lesser(SendCap - Len(outq[c]), Len(merged[c]) - nbSend[c])

\* Mutant of Advance: nbSend = res.
AdvanceTo(n, res) == res % SizeMod

\* nbSend += res.
Advance(n, res) == (n + res) % SizeMod

\* socket.send(), -1 after a resumption in vain being added to nbSend, too.
Send(c) ==
  LET n    == Taken(c)
      next == Advance(nbSend[c], IF n = 0 THEN -1 ELSE n)
  IN
  /\ At(c, "send")
  /\ cl[c] # "gone" /\ (cl[c] = "reset" => co[c] = "woken")
  /\ outq' = [outq EXCEPT ![c] = @ \o SubSeq(merged[c], nbSend[c] + 1, nbSend[c] + n)]
  /\ nbSend' = [nbSend EXCEPT ![c] = next]
  /\ Goto(c, IF next < Len(merged[c]) THEN "send" ELSE "wait")
  /\ cl' = Told(c)
  /\ UNCHANGED <<accVars, fd, reused, data, merged, loops, backlog, inq, got, cmdVars>>
  /\ Completes(c, fd[c]["sock"], "OUT")

\* whaitforprocesstodie(): waitpid, and SIGKILL for a child that still runs.
Killed(s) == IF s \in {"echo", "cat"} THEN "exiting" ELSE s

WaitChild(c) ==
  /\ At(c, "wait") /\ Goto(c, "closePid")
  /\ child' = [child EXCEPT ![c] = IF @ = "zombie" THEN "reaped" ELSE Killed(@)]
  /\ UNCHANGED <<accVars, fd, reused, bufVars, netVars, orphan, inp, outp>>
  /\ Completes(c, fd[c]["pid"], "IN")

\* Mutant of WaitSuspend: it does not wait for the child it killed.
WaitNot(c) ==
  /\ At(c, "wait") /\ Goto(c, "closePid")
  /\ child' = [child EXCEPT ![c] = Killed(@)]
  /\ UNCHANGED <<accVars, fd, reused, bufVars, netVars, orphan, inp, outp, ioVars>>

WaitSuspend(c) ==
  /\ At(c, "wait")
  /\ child' = [child EXCEPT ![c] = Killed(@)]
  /\ UNCHANGED <<appVars, netVars, orphan, inp, outp>>
  /\ IO!AwaitSuspend(c, fd[c]["pid"], "IN", FALSE)

\* asyncecho.reset() at the end of echo_loop, which returns false.  Its frame
\* ends here, too, and the socket that may store its handle is closed before
\* run() goes on.
CloseCommand(c) ==
  /\ At(c, "closePid") /\ Goto(c, "closeS")
  /\ orphan' = [orphan EXCEPT ![c] = @ \/ child[c] # "reaped"]
  /\ UNCHANGED <<accVars, bufVars, netVars, child, inp, outp>>
  /\ Close(c, "pid")

\* The exception unwinds echo_loop: ~PipedAsyncCommand closes the read end ...
UnwindRead(c) ==
  /\ At(c, "throw") /\ Goto(c, "throwPid")
  /\ UNCHANGED <<accVars, bufVars, envVars>>
  /\ Close(c, "rd")

\* ... and the pidfd, and waits for nobody: the child, whatever it still does,
\* is nobody's business from then on.
UnwindPid(c) ==
  /\ At(c, "throwPid") /\ Goto(c, "unwound")
  /\ orphan' = [orphan EXCEPT ![c] = TRUE]
  /\ child' = [child EXCEPT ![c] = "none"]
  /\ inp' = [inp EXCEPT ![c] = <<>>]
  /\ outp' = [outp EXCEPT ![c] = <<>>]
  /\ UNCHANGED <<accVars, bufVars, netVars>>
  /\ Close(c, "pid")

\* The frame of echo_loop ends and client_socket_handler goes on, with a result
\* that was never set.  The socket still stores the handle of that frame, unless
\* the next call of echo_loop gets the same memory for its own.
UnwindFrame(c) ==
  /\ At(c, "unwound")
  /\ \E run \in BOOLEAN :
       /\ run => loops[c] < MaxLoops
       /\ Goto(c, IF run THEN "recv" ELSE "closeS")
       /\ loops' = [loops EXCEPT ![c] = IF run THEN @ + 1 ELSE @]
  /\ UNCHANGED <<accVars, fd, reused, data, merged, nbSend, envVars>>
  /\ IO!EndFrame(c) \/ UNCHANGED ioVars

CloseSocket(c) ==
  /\ At(c, "closeS") /\ Goto(c, "end")
  /\ UNCHANGED <<accVars, bufVars, envVars>>
  /\ Close(c, "sock")

HandlerEnd(c) ==
  /\ At(c, "end") /\ Goto(c, "done")
  /\ UNCHANGED <<accVars, fd, reused, bufVars, envVars>>
  /\ IO!Finish(c)

Handler(c) ==
  \/ HandlerStart(c) \/ AttachSocket(c) \/ CloseSocket(c) \/ HandlerEnd(c)
  \/ Recv(c) \/ Suspend(c, "recv", "sock", "IN", TRUE)
  \/ OpenRead(c) \/ OpenWrite(c) \/ Fork(c)
  \/ WritePipe(c) \/ FinishWriting(c)
  \/ ReadPipe(c) \/ Suspend(c, "read", "rd", "IN", TRUE) \/ FinishReading(c)
  \/ Send(c) \/ Suspend(c, "send", "sock", "OUT", TRUE)
  \/ WaitChild(c) \/ WaitSuspend(c) \/ CloseCommand(c)
  \/ UnwindRead(c) \/ UnwindPid(c) \/ UnwindFrame(c)
  \/ Crash(c)

\* IOContext::run().
Run ==
  /\ UNCHANGED <<appVars, envVars>>
  /\ IO!RunStep

(***************************************************************************)
(* The environment.                                                        *)
(***************************************************************************)

\* The file behind the descriptor becomes ready for F, if it is still open.
Signal(a, F) ==
  IF a # Null /\ owner[a] # Null THEN IO!Arrive(a, F) ELSE UNCHANGED ioVars

Connect(c) ==
  /\ apc = "loop"
  /\ cl[c] = "none"
  /\ cl' = [cl EXCEPT ![c] = "open"]
  /\ backlog' = Append(backlog, c)
  /\ UNCHANGED <<appVars, inq, outq, got, cmdVars>>
  /\ Signal(Listen, {"IN"})

ClientSend(c, s, from, to) ==
  /\ cl[c] = from
  /\ pc[c] \notin {"end", "done", "dead"}
  /\ cl' = [cl EXCEPT ![c] = to]
  /\ inq' = [inq EXCEPT ![c] = @ \o s]
  /\ UNCHANGED <<appVars, backlog, outq, got, cmdVars>>
  /\ Signal(fd[c]["sock"], {"IN"})

\* What was sent and not read is gone, what was received is not.
ClientReset(c) ==
  /\ cl[c] \in {"open", "sent"}
  /\ pc[c] \notin {"end", "done", "dead"}
  /\ cl' = [cl EXCEPT ![c] = "reset"]
  /\ outq' = [outq EXCEPT ![c] = <<>>]
  /\ UNCHANGED <<appVars, backlog, inq, got, cmdVars>>
  /\ Signal(fd[c]["sock"], {"IN", "OUT", "HUP"})

ClientRead(c) ==
  /\ outq[c] # <<>>
  /\ got' = [got EXCEPT ![c] = @ \o outq[c]]
  /\ outq' = [outq EXCEPT ![c] = <<>>]
  /\ UNCHANGED <<appVars, cl, backlog, inq, cmdVars>>
  /\ Signal(fd[c]["sock"], {"OUT"})

ClientStep(c) ==
  \/ Connect(c)
  \/ ClientSend(c, Payload[c], "open", "sent")
  \/ "more" \in Faults[c] /\ ClientSend(c, <<"x">>, "sent", "more")
  \/ "fin" \in Faults[c] /\ ClientSend(c, <<>>, "sent", "fin")
  \/ "reset" \in Faults[c] /\ ClientReset(c)
  \/ ClientRead(c)

\* The child before execvp, if the C library writes the words of the command.
ChildEcho(c) ==
  /\ child[c] = "echo"
  /\ child' = [child EXCEPT ![c] = "cat"]
  /\ outp' = [outp EXCEPT ![c] = @ \o <<"k", "n">>]
  /\ UNCHANGED <<appVars, netVars, orphan, inp>>
  /\ Signal(fd[c]["rd"], {"IN"})

\* cat copies what is in the pipe with one write, and dies of SIGPIPE if
\* nobody can read it any more; ...
ChildCopy(c) ==
  /\ child[c] = "cat" /\ inp[c] # <<>>
  /\ inp' = [inp EXCEPT ![c] = <<>>]
  /\ outp' = [outp EXCEPT ![c] = @ \o inp[c]]
  /\ child' = [child EXCEPT ![c] = IF fd[c]["rd"] = Null THEN "exiting" ELSE @]
  /\ UNCHANGED <<appVars, netVars, orphan>>
  /\ Signal(fd[c]["rd"], {"IN"})

\* ... at the end of its input it exits, which closes its output first.
ChildEof(c) ==
  /\ child[c] = "cat" /\ inp[c] = <<>> /\ fd[c]["wr"] = Null
  /\ child' = [child EXCEPT ![c] = "exiting"]
  /\ UNCHANGED <<appVars, netVars, orphan, inp, outp>>
  /\ Signal(fd[c]["rd"], {"HUP"})

ChildExit(c) ==
  /\ child[c] = "exiting"
  /\ child' = [child EXCEPT ![c] = "zombie"]
  /\ UNCHANGED <<appVars, netVars, orphan, inp, outp>>
  /\ Signal(fd[c]["pid"], {"IN"})

Child(c) == ChildEcho(c) \/ ChildCopy(c) \/ ChildEof(c) \/ ChildExit(c)

Init ==
  /\ apc = "start" /\ accepted = Null
  /\ pc = [c \in Conn |-> "new"]
  /\ fd = [c \in Conn |-> [k \in Kinds |-> Null]]
  /\ data = [c \in Conn |-> <<>>] /\ merged = [c \in Conn |-> <<>>]
  /\ nbSend = [c \in Conn |-> 0] /\ loops = [c \in Conn |-> 0] /\ reused = FALSE
  /\ cl = [c \in Conn |-> "none"] /\ backlog = <<>>
  /\ inq = [c \in Conn |-> <<>>] /\ outq = [c \in Conn |-> <<>>]
  /\ got = [c \in Conn |-> <<>>]
  /\ child = [c \in Conn |-> "none"] /\ orphan = [c \in Conn |-> FALSE]
  /\ inp = [c \in Conn |-> <<>>] /\ outp = [c \in Conn |-> <<>>]
  /\ IO!Init

\* Every client is done, or its handler waits for more of it, and accept() waits
\* for another.
Idle ==
  /\ \A c \in Conn : outq[c] = <<>> /\ (pc[c] = "done" \/ (pc[c] = "recv" /\ inq[c] = <<>>))
  /\ co[Acceptor] = "wait"
  /\ UNCHANGED vars

Next ==
  \/ MainStart \/ MainListen \/ Accept \/ AcceptSuspend
  \/ Run
  \/ \E c \in Conn : Handler(c) \/ ClientStep(c) \/ Child(c)
  \/ Idle

\* The thread of the server goes on as long as it can; so do the other sides of
\* the connections: the child runs, and a client that connected sends its message
\* and reads the answer.  Of all these steps one is taken while one is possible:
\* whoever is left behind has its turn when the rest has come to a stop.
Server   == MainStart \/ MainListen \/ Accept \/ AcceptSuspend \/ Run \/ \E c \in Conn : Handler(c)
Other(c) == Child(c) \/ ClientRead(c) \/ ClientSend(c, Payload[c], "open", "sent")
Fairness == WF_vars(Server \/ \E c \in Conn : Other(c))

Spec == Init /\ [][Next]_vars /\ Fairness

(***************************************************************************)
(* Properties.                                                             *)
(***************************************************************************)

\* Type invariant of the application and its environment.
TypeOK ==
  /\ apc \in {"start", "bind", "loop", "dead"}
  /\ accepted \in Conn \cup {Null}
  /\ pc \in [Conn -> {"new", "attach", "recv", "pipe", "pipeW", "fork", "write", "closeW",
                       "read", "closeR", "send", "wait", "closePid", "throw", "throwPid",
                       "unwound", "closeS", "end", "done", "dead"}]
  /\ fd \in [Conn -> [Kinds -> Desc \cup {Null}]]
  /\ nbSend \in [Conn -> 0..SizeMod - 1]
  /\ loops \in [Conn -> 0..MaxLoops]
  /\ reused \in BOOLEAN
  /\ cl \in [Conn -> {"none", "open", "sent", "more", "fin", "reset", "gone"}]
  /\ child \in [Conn -> {"none", "echo", "cat", "exiting", "zombie", "reaped"}]
  /\ orphan \in [Conn -> BOOLEAN]
  /\ \A c \in Conn : Len(outq[c]) <= SendCap

\* The clients that send text after their command line, not ending in a
\* newline, and do nothing else.
Polite ==
  {c \in Conn : Faults[c] = {} /\ Reply[c] # <<>> /\ Reply[c][Len(Reply[c])] # "n"}

\* What frees the server of its promises: the process ended, an event reached a
\* descriptor it was not meant for, or what run() did is undefined.
Excused == apc = "dead" \/ reused \/ phase \in IO!Undefined

\* echo_loop keeps, towards polite clients, the promise of EchoService: nothing
\* before the message came, then the reply in order and once, and the
\* connection closed after all of it, however pipe, send buffer and event loop
\* cut it up and whatever the other clients do; unless it is excused.
Service ==
  INSTANCE EchoService WITH
    Client <- Polite,
    up     <- ~Excused,
    conn   <- [c \in Polite |-> IF Excused \/ pc[c] \in {"end", "done"} THEN "closed"
                                ELSE IF cl[c] = "sent" THEN "asked" ELSE "idle"],
    sent   <- [c \in Polite |-> got[c] \o outq[c]]

Answers == Service!Spec

\* No zombie is left behind: the child of every finished handler was waited
\* for, although whaitforprocesstodie() resumes only once; unless an event of
\* another descriptor resumed it.
Reaped == reused \/ \A c \in Conn : pc[c] = "done" => ~orphan[c]

\* run() resumes a coroutine only when the system call it awaits can go on; a
\* notification never reaches the wrong operation, through a handle left in a
\* descriptor or an address used again.
NoSpuriousWakeup ==
  \A k \in Conn \cup {Acceptor} :
    co[k] = "woken" => IO!CanComplete(op[k].fd, op[k].dir)

\* The only way for a notification to reach the wrong operation is an address
\* used again within the round: not a handle left in a descriptor, not a mask
\* that watch and unwatch calls left wrong, nor an event of the batch that an
\* earlier one has overtaken.
OnlyReuseMisleads == reused \/ NoSpuriousWakeup

\* run() resumes no coroutine that is gone and uses no descriptor that is gone,
\* in either half of an iteration.
Sound == phase \notin IO!Undefined

\* Every client that connects is answered in full and its connection closed.
Answered(c) == pc[c] = "done" /\ got[c] = Reply[c]
Served      == \A c \in Conn : cl[c] = "open" ~> Answered(c)

\* In the end a polite client that connected has all of its answer, whatever
\* becomes of the handlers of the others: one that never ends, or that an
\* exception unwinds, holds up nobody, and more events than a batch holds starve
\* nobody; unless the server is excused.
PoliteServed == \A c \in Polite : <>[](cl[c] = "none" \/ Answered(c) \/ Excused)
=============================================================================

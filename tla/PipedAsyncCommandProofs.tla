----------------------- MODULE PipedAsyncCommandProofs -----------------------
(***************************************************************************)
(* TypeOK, InputEnds and Released of PipedAsyncCommand are invariants, for *)
(* any number of connections and rounds, and whatever fails.               *)
(*                                                                         *)
(* What another child may hold of a command is what the server held of it  *)
(* when it forked that child.  While both ends of a pipe are open in the   *)
(* server its handler executes without an await (Undisturbed), so nobody   *)
(* else forks then; afterwards the server holds only ends that read, and   *)
(* the pidfd (ServerHolds).                                                *)
(***************************************************************************)
EXTENDS PipedAsyncCommand, TLAPS

\* The ends of its command that the server may hold open at place l.
ServerEnds(l) ==
  IF l = "pipeR" THEN {"CHILD_READ", "PARENT_WRITE"}
  ELSE IF l \in {"fork", "pidfd"}
    THEN {"PARENT_READ", "CHILD_WRITE", "CHILD_READ", "PARENT_WRITE"}
  ELSE IF l = "write" THEN {"PARENT_READ", "PARENT_WRITE", "pidfd"}
  ELSE IF l \in {"read", "closeR", "throw"} THEN {"PARENT_READ", "pidfd"}
  ELSE IF l \in {"send", "wait", "reap", "release"} THEN {"pidfd"}
  ELSE {}

Closing == {"close", "done"}

\* From the first pipe() to finishwriting() no other handler executes.
Undisturbed ==
  \A c \in Conn : pc[c] \in {"pipeR", "fork", "pidfd", "write"} => cur = c

\* The child that pidfd_open() is called for was forked and not waited for.
Forked == \A c \in Conn : pc[c] = "pidfd" => proc[cmd(c)] \notin {"none", "reaped"}

\* The server holds files of current commands only, those of ServerEnds, and
\* after a failing pidfd_open() the child's two ends.
ServerHolds ==
  \A m \in Cmd : \A e \in Ends : <<m, e>> \in fds[Server] =>
    /\ m = cmd(m[1])
    /\ \/ e \in ServerEnds(pc[m[1]])
       \/ /\ pc[m[1]] \in Closing /\ e \in {"CHILD_READ", "CHILD_WRITE"}
          /\ "pidfd" \in Fails /\ proc[m] \notin {"none", "reaped"}

\* The server holds the sockets of the connections that it accepted and has
\* not closed.
SocketHeld == \A c \in Conn : <<c, "sock">> \in fds[Server] => pc[c] \notin {"new", "done"}

\* A child holds the reading end and the pidfd of another command, or files of
\* one whose connection is closing.
ChildHolds ==
  \A p, m \in Cmd : \A e \in Ends : <<m, e>> \in fds[p] =>
    p = m \/ e \in {"PARENT_READ", "pidfd"} \/ pc[m[1]] \in Closing

\* cat does not hold its own input open.
OwnInput == \A m \in Cmd : <<m, "PARENT_WRITE">> \in fds[m] => proc[m] # "cat"

PInv ==
  TypeOK /\ Undisturbed /\ Forked /\ ServerHolds /\ SocketHeld /\ ChildHolds /\ OwnInput

USE RoundsAssumption, NamesAssumption

-----------------------------------------------------------------------------

\* A command belongs to a connection.
LEMMA CmdType ==
  ASSUME NEW m \in Cmd
  PROVE  m[1] \in Conn /\ m \in Proc /\ m # Server
BY DEF Cmd, Proc

\* The current command of a connection is one, and no other connection's.
LEMMA CurrentCmd ==
  ASSUME TypeOK, NEW c \in Conn
  PROVE  cmd(c) \in Cmd /\ cmd(c)[1] = c
BY DEF TypeOK, cmd

\* A step changes what the server holds, and opens no socket.
ServerOnly ==
  /\ fds' \in [Proc -> SUBSET File]
  /\ \A p \in Cmd : fds'[p] = fds[p]
  /\ \A d \in Conn : <<d, "sock">> \in fds'[Server] => <<d, "sock">> \in fds[Server]

\* What the server holds after it closed ends of its command, ...
LEMMA Closes ==
  ASSUME TypeOK, NEW c \in Conn, NEW ends \in SUBSET Ends, ServerCloses(c, ends)
  PROVE  /\ ServerOnly
         /\ \A m \in Cmd, e \in Ends : <<m, e>> \in fds'[Server] =>
              <<m, e>> \in fds[Server] /\ ~(m = cmd(c) /\ e \in ends)
<1>1. Server \in Proc /\ \A p \in Cmd : p \in Proc /\ p # Server
  BY CmdType DEF Proc
<1>2. fds'[Server] = fds[Server] \ Of(c, ends)
  BY <1>1 DEF TypeOK, ServerCloses
<1> QED
  BY <1>1, <1>2 DEF TypeOK, ServerCloses, Of, ServerOnly

\* ... and after it opened some.
LEMMA Opens ==
  ASSUME TypeOK, NEW c \in Conn, NEW ends \in SUBSET Ends, ServerOpens(c, ends)
  PROVE  /\ ServerOnly
         /\ \A m \in Cmd, e \in Ends : <<m, e>> \in fds'[Server] =>
              <<m, e>> \in fds[Server] \/ (m = cmd(c) /\ e \in ends)
<1>1. Server \in Proc /\ \A p \in Cmd : p \in Proc /\ p # Server
  BY CmdType DEF Proc
<1>2. fds'[Server] = fds[Server] \cup Of(c, ends)
  BY <1>1 DEF TypeOK, ServerOpens
<1>3. Of(c, ends) \subseteq File
  BY CurrentCmd DEF Of, File
<1>4. \A d \in Conn : <<d, "sock">> \notin Of(c, ends)
  BY DEF Of, Ends
<1> QED
  BY <1>1, <1>2, <1>3, <1>4 DEF TypeOK, ServerOpens, Of, ServerOnly

\* A step of the executing handler that changes what the server holds of its
\* current command only, and neither a child nor the round.
LEMMA HandlerStep ==
  ASSUME PInv, NEW c \in Conn, NEW l,
         l \in {"recv", "init", "pipeR", "fork", "pidfd", "write", "read", "closeR",
                "send", "wait", "reap", "release", "throw", "close"},
         cur = c, pc[c] \notin {"new", "close", "done"}, Goto(c, l),
         cur' = c \/ (cur' = Null /\ l \notin {"pipeR", "fork", "pidfd", "write"}),
         UNCHANGED <<round, proc>>,
         l = "pidfd" => proc[cmd(c)] \notin {"none", "reaped"},
         ServerOnly,
         \A m \in Cmd, e \in Ends : <<m, e>> \in fds'[Server] =>
           \/ <<m, e>> \in fds[Server] /\ m[1] # c
           \/ m = cmd(c) /\ e \in ServerEnds(l)
           \/ /\ m = cmd(c) /\ l = "close" /\ e \in {"CHILD_READ", "CHILD_WRITE"}
              /\ "pidfd" \in Fails /\ proc[m] \notin {"none", "reaped"}
  PROVE  PInv'
<1> USE DEF PInv
<1>1. /\ pc' \in [Conn -> {"new", "recv", "init", "pipeR", "fork", "pidfd", "write", "read",
                      "closeR", "send", "wait", "reap", "release", "throw", "close", "done"}]
      /\ pc'[c] = l /\ \A d \in Conn : d # c => pc'[d] = pc[d]
  BY DEF TypeOK, Goto
<1>2. TypeOK'
  BY <1>1 DEF TypeOK, cmd, ServerOnly
<1>3. Undisturbed' /\ Forked'
  BY <1>1 DEF Undisturbed, Forked, cmd
<1>4. ServerHolds'
  <2> SUFFICES ASSUME NEW m \in Cmd, NEW e \in Ends, <<m, e>> \in fds'[Server]
               PROVE  /\ m = cmd(m[1])
                      /\ \/ e \in ServerEnds(pc'[m[1]])
                         \/ /\ pc'[m[1]] \in Closing /\ e \in {"CHILD_READ", "CHILD_WRITE"}
                            /\ "pidfd" \in Fails /\ proc[m] \notin {"none", "reaped"}
    BY DEF ServerHolds, cmd
  <2>1. m[1] \in Conn
    BY CmdType
  <2>2. CASE <<m, e>> \in fds[Server] /\ m[1] # c
    BY <1>1, <2>1, <2>2 DEF ServerHolds
  <2>3. CASE m = cmd(c) /\ e \in ServerEnds(l)
    BY <1>1, <2>3, CurrentCmd
  <2>4. CASE /\ m = cmd(c) /\ l = "close" /\ e \in {"CHILD_READ", "CHILD_WRITE"}
             /\ "pidfd" \in Fails /\ proc[m] \notin {"none", "reaped"}
    BY <1>1, <2>4, CurrentCmd DEF Closing
  <2> QED
    BY <2>2, <2>3, <2>4
<1>5. SocketHeld'
  BY <1>1 DEF SocketHeld, ServerOnly
<1>6. ChildHolds'
  BY <1>1, CmdType DEF ChildHolds, Closing, ServerOnly
<1>7. OwnInput'
  BY DEF OwnInput, ServerOnly
<1> QED
  BY <1>2, <1>3, <1>4, <1>5, <1>6, <1>7

\* A connection is accepted into a new descriptor.
LEMMA AcceptInv ==
  ASSUME PInv, NEW c \in Conn, Accept(c)
  PROVE  PInv'
<1> USE DEF PInv
<1>1. /\ pc'[c] = "recv" /\ \A d \in Conn : d # c => pc'[d] = pc[d]
      /\ UNCHANGED <<round, proc>>
  BY DEF TypeOK, Accept, Goto
<1>2. /\ fds'[Server] = fds[Server] \cup {<<c, "sock">>}
      /\ \A p \in Cmd : fds'[p] = fds[p]
      /\ \A m \in Cmd, e \in Ends : <<m, e>> \in fds'[Server] => <<m, e>> \in fds[Server]
  <2>1. Server \in Proc /\ \A p \in Cmd : p \in Proc /\ p # Server
    BY CmdType DEF Proc
  <2>2. fds'[Server] = fds[Server] \cup {<<c, "sock">>} /\ \A p \in Cmd : fds'[p] = fds[p]
    BY <2>1 DEF TypeOK, Accept
  <2> QED
    BY <2>2 DEF Ends
<1>3. TypeOK'
  BY <1>1 DEF TypeOK, Accept, Goto, File, Proc, cmd
<1>4. Undisturbed' /\ Forked'
  BY <1>1 DEF Accept, Undisturbed, Forked, cmd
<1>5. ServerHolds'
  <2> SUFFICES ASSUME NEW m \in Cmd, NEW e \in Ends, <<m, e>> \in fds[Server]
               PROVE  /\ m = cmd(m[1])
                      /\ \/ e \in ServerEnds(pc'[m[1]])
                         \/ /\ pc'[m[1]] \in Closing /\ e \in {"CHILD_READ", "CHILD_WRITE"}
                            /\ "pidfd" \in Fails /\ proc[m] \notin {"none", "reaped"}
    BY <1>1, <1>2 DEF ServerHolds, cmd
  <2>1. m[1] \in Conn
    BY CmdType
  <2>2. m[1] # c
    BY <2>1 DEF ServerHolds, ServerEnds, Closing, Accept
  <2> QED
    BY <1>1, <2>1, <2>2 DEF ServerHolds
<1>6. SocketHeld'
  BY <1>1, <1>2 DEF SocketHeld
<1>7. ChildHolds' /\ OwnInput'
  BY <1>1, <1>2, CmdType DEF ChildHolds, OwnInput, Closing, Accept
<1> QED
  BY <1>3, <1>4, <1>5, <1>6, <1>7

\* run() resumes a handler.
LEMMA WakeInv ==
  ASSUME PInv, NEW c \in Conn, Wake(c)
  PROVE  PInv'
BY DEF PInv, TypeOK, Undisturbed, Forked, ServerHolds, SocketHeld, ChildHolds, OwnInput, Wake, cmd

\* A handler suspends in an operation, or goes on after it.
LEMMA AwaitInv ==
  ASSUME PInv, NEW c \in Conn, NEW from, NEW to, Await(c, from, to),
         <<from, to>> \in {<<"recv", "init">>, <<"recv", "close">>, <<"read", "read">>,
                           <<"read", "closeR">>, <<"read", "throw">>, <<"send", "send">>,
                           <<"send", "wait">>}
  PROVE  PInv'
<1>1. \A m \in Cmd, e \in Ends : <<m, e>> \in fds[Server] =>
        m[1] # c \/ (m = cmd(c) /\ e \in ServerEnds(to))
  BY DEF PInv, ServerHolds, ServerEnds, Closing, Await, At
<1> QED
  BY <1>1, HandlerStep DEF Await, At, PInv, TypeOK, ServerOnly

\* The steps between two awaits that open and close ends of the command.
LEMMA PipeInv ==
  ASSUME PInv, NEW c \in Conn, PipeW(c) \/ PipeR(c)
  PROVE  PInv'
<1> USE DEF PInv
<1>1. pc[c] \in {"init", "pipeR"} /\ cur = c /\ cur' = c /\ UNCHANGED <<round, proc>>
  BY DEF PipeW, PipeR, InitStep, InitFails, At
<1>2. CASE pc[c] = "init" /\ Goto(c, "pipeR")
           /\ ServerOpens(c, {"CHILD_READ", "PARENT_WRITE"})
  <2>1. /\ ServerOnly
        /\ \A m \in Cmd, e \in Ends : <<m, e>> \in fds'[Server] =>
             <<m, e>> \in fds[Server] \/ (m = cmd(c) /\ e \in {"CHILD_READ", "PARENT_WRITE"})
    BY <1>2, Opens DEF Ends
  <2>2. \A m \in Cmd, e \in Ends : <<m, e>> \in fds'[Server] =>
          (<<m, e>> \in fds[Server] /\ m[1] # c) \/ (m = cmd(c) /\ e \in ServerEnds("pipeR"))
    BY <1>2, <2>1 DEF ServerHolds, ServerEnds, Closing, Ends
  <2> QED
    BY <1>1, <1>2, <2>1, <2>2, HandlerStep
<1>3. CASE pc[c] = "init" /\ Goto(c, "close") /\ UNCHANGED fds
  <2>1. \A m \in Cmd, e \in Ends : <<m, e>> \in fds[Server] => m[1] # c
    BY <1>3 DEF ServerHolds, ServerEnds, Closing
  <2> QED
    BY <1>1, <1>3, <2>1, HandlerStep DEF TypeOK, ServerOnly
<1>4. CASE pc[c] = "pipeR" /\ Goto(c, "fork")
           /\ ServerOpens(c, {"CHILD_WRITE", "PARENT_READ"})
  <2>1. /\ ServerOnly
        /\ \A m \in Cmd, e \in Ends : <<m, e>> \in fds'[Server] =>
             <<m, e>> \in fds[Server] \/ (m = cmd(c) /\ e \in {"CHILD_WRITE", "PARENT_READ"})
    BY <1>4, Opens DEF Ends
  <2>2. \A m \in Cmd, e \in Ends : <<m, e>> \in fds'[Server] =>
          (<<m, e>> \in fds[Server] /\ m[1] # c) \/ (m = cmd(c) /\ e \in ServerEnds("fork"))
    BY <1>4, <2>1 DEF ServerHolds, ServerEnds, Closing, Ends
  <2> QED
    BY <1>1, <1>4, <2>1, <2>2, HandlerStep
<1>5. CASE pc[c] = "pipeR" /\ Goto(c, "close")
           /\ ServerCloses(c, {"PARENT_WRITE", "CHILD_READ"})
  <2>1. /\ ServerOnly
        /\ \A m \in Cmd, e \in Ends : <<m, e>> \in fds'[Server] =>
             <<m, e>> \in fds[Server] /\ ~(m = cmd(c) /\ e \in {"PARENT_WRITE", "CHILD_READ"})
    BY <1>5, Closes DEF Ends
  <2>2. \A m \in Cmd, e \in Ends : <<m, e>> \in fds'[Server] =>
          <<m, e>> \in fds[Server] /\ m[1] # c
    BY <1>5, <2>1 DEF ServerHolds, ServerEnds, Closing, Ends
  <2> QED
    BY <1>1, <1>5, <2>1, <2>2, HandlerStep
<1> QED
  BY <1>2, <1>3, <1>4, <1>5 DEF PipeW, PipeR, InitStep, InitFails, At

\* finishwriting(), finishReading() and asyncecho.reset().
LEMMA FinishInv ==
  ASSUME PInv, NEW c \in Conn, FinishWriting(c) \/ FinishReading(c) \/ Release(c)
  PROVE  PInv'
<1> USE DEF PInv, At
<1>1. CASE FinishWriting(c)
  <2>1. /\ ServerOnly
        /\ \A m \in Cmd, e \in Ends : <<m, e>> \in fds'[Server] =>
             <<m, e>> \in fds[Server] /\ ~(m = cmd(c) /\ e \in {"PARENT_WRITE"})
    BY <1>1, Closes DEF FinishWriting, Ends
  <2>2. \A m \in Cmd, e \in Ends : <<m, e>> \in fds'[Server] =>
          (<<m, e>> \in fds[Server] /\ m[1] # c) \/ (m = cmd(c) /\ e \in ServerEnds("read"))
    BY <1>1, <2>1 DEF FinishWriting, ServerHolds, ServerEnds, Closing, Ends
  <2> QED
    BY <1>1, <2>1, <2>2, HandlerStep DEF FinishWriting
<1>2. CASE FinishReading(c)
  <2>1. /\ ServerOnly
        /\ \A m \in Cmd, e \in Ends : <<m, e>> \in fds'[Server] =>
             <<m, e>> \in fds[Server] /\ ~(m = cmd(c) /\ e \in {"PARENT_READ"})
    BY <1>2, Closes DEF FinishReading, Ends
  <2>2. \A m \in Cmd, e \in Ends : <<m, e>> \in fds'[Server] =>
          (<<m, e>> \in fds[Server] /\ m[1] # c) \/ (m = cmd(c) /\ e \in ServerEnds("send"))
    BY <1>2, <2>1 DEF FinishReading, ServerHolds, ServerEnds, Closing, Ends
  <2> QED
    BY <1>2, <2>1, <2>2, HandlerStep DEF FinishReading
<1>3. CASE Release(c)
  <2>1. /\ ServerOnly
        /\ \A m \in Cmd, e \in Ends : <<m, e>> \in fds'[Server] =>
             <<m, e>> \in fds[Server] /\ ~(m = cmd(c) /\ e \in {"pidfd"})
    BY <1>3, Closes DEF Release, Ends
  <2>2. \A m \in Cmd, e \in Ends : <<m, e>> \in fds'[Server] =>
          <<m, e>> \in fds[Server] /\ m[1] # c
    BY <1>3, <2>1 DEF Release, ServerHolds, ServerEnds, Closing, Ends
  <2> QED
    BY <1>3, <2>1, <2>2, HandlerStep DEF Release
<1> QED
  BY <1>1, <1>2, <1>3

\* pidfd_open(): a failing one leaves the child's ends in the server, and a
\* child that nobody waits for.
LEMMA PidfdOpenInv ==
  ASSUME PInv, NEW c \in Conn, PidfdOpen(c)
  PROVE  PInv'
<1> USE DEF PInv
<1>1. pc[c] = "pidfd" /\ cur = c /\ cur' = c /\ UNCHANGED <<round, proc>>
  BY DEF PidfdOpen, InitStep, InitFails, At
<1>2. CASE InitStep(c, "pidfd", "write")
           /\ fds' = [fds EXCEPT ![Server] =
                (@ \cup Of(c, {"pidfd"})) \ Of(c, {"CHILD_READ", "CHILD_WRITE"})]
  <2>1. Server \in Proc /\ \A p \in Cmd : p \in Proc /\ p # Server
    BY CmdType DEF Proc
  <2>2. fds'[Server] =
          (fds[Server] \cup Of(c, {"pidfd"})) \ Of(c, {"CHILD_READ", "CHILD_WRITE"})
    BY <1>2, <2>1 DEF TypeOK
  <2>3. Of(c, {"pidfd"}) \subseteq File
    BY CurrentCmd DEF Of, File, Ends
  <2>4. fds' \in [Proc -> SUBSET File] /\ \A p \in Cmd : fds'[p] = fds[p]
    BY <1>2, <2>1, <2>3 DEF TypeOK
  <2>5. ServerOnly
    BY <2>2, <2>4 DEF Of, ServerOnly
  <2>6. \A m \in Cmd, e \in Ends : <<m, e>> \in fds'[Server] =>
          \/ m = cmd(c) /\ e = "pidfd"
          \/ <<m, e>> \in fds[Server] /\ ~(m = cmd(c) /\ e \in {"CHILD_READ", "CHILD_WRITE"})
    BY <2>2 DEF Of
  <2>7. \A m \in Cmd, e \in Ends : <<m, e>> \in fds'[Server] =>
          (<<m, e>> \in fds[Server] /\ m[1] # c) \/ (m = cmd(c) /\ e \in ServerEnds("write"))
    BY <1>1, <2>6 DEF ServerHolds, ServerEnds, Closing
  <2> QED
    BY <1>1, <1>2, <2>5, <2>7, HandlerStep DEF InitStep
<1>3. CASE InitFails(c, "pidfd", "pidfd") /\ ServerCloses(c, {"PARENT_READ", "PARENT_WRITE"})
  <2>1. /\ ServerOnly
        /\ \A m \in Cmd, e \in Ends : <<m, e>> \in fds'[Server] =>
             <<m, e>> \in fds[Server] /\ ~(m = cmd(c) /\ e \in {"PARENT_READ", "PARENT_WRITE"})
    BY <1>3, Closes DEF Ends
  <2>2. proc[cmd(c)] \notin {"none", "reaped"} /\ "pidfd" \in Fails
    BY <1>1, <1>3 DEF Forked, InitFails
  <2>3. \A m \in Cmd, e \in Ends : <<m, e>> \in fds'[Server] =>
          \/ <<m, e>> \in fds[Server] /\ m[1] # c
          \/ m = cmd(c) /\ e \in {"CHILD_READ", "CHILD_WRITE"}
    BY <1>1, <1>3, <2>1 DEF ServerHolds, ServerEnds, Closing, Ends
  <2> QED
    BY <1>1, <1>3, <2>1, <2>2, <2>3, HandlerStep DEF InitFails
<1> QED
  BY <1>2, <1>3 DEF PidfdOpen

\* fork(): the child gets a copy of all the server holds, and nobody else is
\* between pipe() and finishwriting() then.
LEMMA ForkInv ==
  ASSUME PInv, NEW c \in Conn, Fork(c)
  PROVE  PInv'
<1> USE DEF PInv
<1>1. pc[c] = "fork" /\ cur = c /\ cur' = c /\ UNCHANGED round
  BY DEF Fork, InitStep, InitFails, At
<1>2. CASE InitFails(c, "fork", "fork") /\ ServerCloses(c, ForkUndo) /\ UNCHANGED proc
  <2>1. /\ ServerOnly
        /\ \A m \in Cmd, e \in Ends : <<m, e>> \in fds'[Server] =>
             <<m, e>> \in fds[Server] /\ ~(m = cmd(c) /\ e \in ForkUndo)
    BY <1>2, Closes DEF ForkUndo, Ends
  <2>2. \A m \in Cmd, e \in Ends : <<m, e>> \in fds'[Server] =>
          <<m, e>> \in fds[Server] /\ m[1] # c
    BY <1>1, <2>1 DEF ServerHolds, ServerEnds, Closing, ForkUndo
  <2> QED
    BY <1>1, <1>2, <2>1, <2>2, HandlerStep DEF InitFails
<1>3. CASE /\ InitStep(c, "fork", "pidfd")
           /\ fds' = [fds EXCEPT ![cmd(c)] = fds[Server]]
           /\ proc' = [proc EXCEPT ![cmd(c)] = "forked"]
  <2>1. cmd(c) \in Cmd /\ cmd(c) \in Proc /\ cmd(c) # Server /\ Server \in Proc
    BY CurrentCmd, CmdType DEF Proc
  <2>2. pc'[c] = "pidfd" /\ \A d \in Conn : d # c => pc'[d] = pc[d]
    BY <1>3 DEF TypeOK, InitStep, Goto
  <2>3. /\ fds'[Server] = fds[Server] /\ fds'[cmd(c)] = fds[Server]
        /\ \A p \in Cmd : p # cmd(c) => fds'[p] = fds[p]
    BY <1>3, <2>1, CmdType DEF TypeOK
  <2>4. proc'[cmd(c)] = "forked" /\ \A m \in Cmd : m # cmd(c) => proc'[m] = proc[m]
    BY <1>3, <2>1 DEF TypeOK
  <2>5. TypeOK'
    BY <1>1, <1>3, <2>1 DEF TypeOK, InitStep, Goto, cmd
  <2>6. Undisturbed'
    BY <1>1, <2>2 DEF Undisturbed
  <2>7. Forked'
    BY <1>1, <2>2, <2>4, CurrentCmd DEF Forked, cmd
  <2>8. ServerHolds'
    <3> SUFFICES ASSUME NEW m \in Cmd, NEW e \in Ends, <<m, e>> \in fds[Server]
                 PROVE  /\ m = cmd(m[1])
                        /\ \/ e \in ServerEnds(pc'[m[1]])
                           \/ /\ pc'[m[1]] \in Closing /\ e \in {"CHILD_READ", "CHILD_WRITE"}
                              /\ "pidfd" \in Fails /\ proc'[m] \notin {"none", "reaped"}
      BY <1>1, <2>3 DEF ServerHolds, cmd
    <3>1. CASE m[1] = c
      BY <1>1, <2>2, <3>1 DEF ServerHolds, ServerEnds, Closing
    <3>2. CASE m[1] # c
      BY <2>2, <2>4, <3>2, CmdType, CurrentCmd DEF ServerHolds
    <3> QED
      BY <3>1, <3>2
  <2>9. SocketHeld'
    BY <1>1, <2>2, <2>3 DEF SocketHeld
  <2>10. ChildHolds'
    <3> SUFFICES ASSUME NEW p \in Cmd, NEW m \in Cmd, NEW e \in Ends, <<m, e>> \in fds'[p]
                 PROVE  p = m \/ e \in {"PARENT_READ", "pidfd"} \/ pc'[m[1]] \in Closing
      BY DEF ChildHolds
    <3>1. m[1] \in Conn
      BY CmdType
    <3>2. CASE p # cmd(c)
      BY <1>1, <2>2, <2>3, <3>1, <3>2 DEF ChildHolds, Closing
    <3>3. CASE p = cmd(c) /\ m[1] = c
      BY <1>1, <2>3, <3>3 DEF ServerHolds
    <3>4. CASE p = cmd(c) /\ m[1] # c
      BY <1>1, <2>2, <2>3, <3>1, <3>4 DEF ServerHolds, ServerEnds, Undisturbed
    <3> QED
      BY <3>2, <3>3, <3>4
  <2>11. OwnInput'
    BY <2>3, <2>4 DEF OwnInput
  <2> QED
    BY <2>5, <2>6, <2>7, <2>8, <2>9, <2>10, <2>11
<1> QED
  BY <1>2, <1>3 DEF Fork

\* waitpid() and kill(): only the child of the handler that executes changes.
LEMMA WaitInv ==
  ASSUME PInv, NEW c \in Conn, Reap(c) \/ Kill(c)
  PROVE  PInv'
<1> USE DEF PInv
<1>1. /\ pc[c] \in {"wait", "reap"} /\ pc'[c] \in {"reap", "release"}
      /\ cur = c /\ cur' \in {c, Null}
      /\ \A d \in Conn : d # c => pc'[d] = pc[d]
      /\ UNCHANGED <<round, fds>>
  BY DEF Reap, Kill, At, Goto, TypeOK
<1>2. cmd(c) \in Cmd /\ \A d \in Conn : cmd(d)[1] = d
  BY CurrentCmd
<1>3. \A m \in Cmd : m # cmd(c) => proc'[m] = proc[m]
  BY <1>2 DEF Reap, Kill, TypeOK
<1>4. proc'[cmd(c)] # "cat" \/ proc' = proc
  BY <1>2 DEF Reap, Kill, TypeOK
<1>5. TypeOK'
  BY <1>1, <1>2 DEF TypeOK, Reap, Kill, Goto, cmd
<1>6. Undisturbed'
  BY <1>1 DEF Undisturbed
<1>7. Forked'
  BY <1>1, <1>2, <1>3, CurrentCmd DEF Forked, cmd
<1>8. ServerHolds'
  <2> SUFFICES ASSUME NEW m \in Cmd, NEW e \in Ends, <<m, e>> \in fds[Server]
               PROVE  /\ m = cmd(m[1])
                      /\ \/ e \in ServerEnds(pc'[m[1]])
                         \/ /\ pc'[m[1]] \in Closing /\ e \in {"CHILD_READ", "CHILD_WRITE"}
                            /\ "pidfd" \in Fails /\ proc'[m] \notin {"none", "reaped"}
    BY <1>1 DEF ServerHolds, cmd
  <2>1. CASE m[1] = c
    BY <1>1, <2>1 DEF ServerHolds, ServerEnds, Closing
  <2>2. CASE m[1] # c
    BY <1>1, <1>2, <1>3, <2>2, CmdType DEF ServerHolds
  <2> QED
    BY <2>1, <2>2
<1>9. SocketHeld' /\ ChildHolds'
  BY <1>1, CmdType DEF SocketHeld, ChildHolds, Closing
<1>10. OwnInput'
  BY <1>1, <1>3, <1>4 DEF OwnInput
<1> QED
  BY <1>5, <1>6, <1>7, <1>8, <1>9, <1>10

\* The exception: all of the command is closed before another round begins.
LEMMA UnwindInv ==
  ASSUME PInv, NEW c \in Conn, Unwind(c)
  PROVE  PInv'
<1> USE DEF PInv
<1>1. pc[c] = "throw" /\ cur = c /\ cur' = c /\ UNCHANGED proc
  BY DEF Unwind, At
<1>2. /\ ServerOnly
      /\ \A m \in Cmd, e \in Ends : <<m, e>> \in fds'[Server] =>
           <<m, e>> \in fds[Server] /\ ~(m = cmd(c) /\ e \in {"PARENT_READ", "pidfd"})
  BY Closes DEF Unwind, Ends
<1>3. \A m \in Cmd, e \in Ends : <<m, e>> \in fds'[Server] =>
        <<m, e>> \in fds[Server] /\ m[1] # c
  BY <1>1, <1>2 DEF ServerHolds, ServerEnds, Closing
<1>4. CASE Goto(c, "close") /\ UNCHANGED round
  BY <1>1, <1>2, <1>3, <1>4, HandlerStep
<1>5. CASE /\ round[c] < MaxRounds[c] /\ Goto(c, "recv")
           /\ round' = [round EXCEPT ![c] = @ + 1]
  <2>1. pc'[c] = "recv" /\ \A d \in Conn : d # c => pc'[d] = pc[d] /\ round'[d] = round[d]
    BY <1>5 DEF TypeOK, Goto
  <2>2. <<c, round[c] + 1>> \in Cmd
    BY <1>5 DEF TypeOK, Cmd
  <2>3. TypeOK'
    BY <1>1, <1>2, <1>5, <2>2 DEF TypeOK, ServerOnly, Goto, cmd
  <2>4. Undisturbed' /\ Forked'
    BY <1>1, <2>1 DEF Undisturbed, Forked, cmd
  <2>5. ServerHolds'
    BY <1>1, <1>3, <2>1, CmdType DEF ServerHolds, cmd
  <2>6. SocketHeld' /\ ChildHolds' /\ OwnInput'
    BY <1>1, <1>2, <2>1, CmdType DEF SocketHeld, ChildHolds, OwnInput, Closing, ServerOnly
  <2> QED
    BY <2>3, <2>4, <2>5, <2>6
<1> QED
  BY <1>4, <1>5 DEF Unwind

\* A handler closes its socket.
LEMMA CloseSocketInv ==
  ASSUME PInv, NEW c \in Conn, CloseSocket(c)
  PROVE  PInv'
<1> USE DEF PInv
<1>1. /\ pc[c] = "close" /\ pc'[c] = "done" /\ cur = c /\ cur' = Null
      /\ \A d \in Conn : d # c => pc'[d] = pc[d]
      /\ UNCHANGED <<round, proc>>
  BY DEF CloseSocket, At, Goto, TypeOK
<1>2. Server \in Proc /\ \A p \in Cmd : p \in Proc /\ p # Server
  BY CmdType DEF Proc
<1>3. fds'[Server] = fds[Server] \ {<<c, "sock">>} /\ \A p \in Cmd : fds'[p] = fds[p]
  BY <1>2 DEF CloseSocket, TypeOK
<1>4. TypeOK'
  BY <1>1 DEF TypeOK, CloseSocket, Goto, cmd
<1>5. Undisturbed' /\ Forked'
  BY <1>1 DEF Undisturbed, Forked, cmd
<1>6. ServerHolds'
  BY <1>1, <1>3, CmdType DEF ServerHolds, ServerEnds, Closing, cmd
<1>7. SocketHeld'
  BY <1>1, <1>3 DEF SocketHeld
<1>8. ChildHolds' /\ OwnInput'
  BY <1>1, <1>3, CmdType DEF ChildHolds, OwnInput, Closing
<1> QED
  BY <1>4, <1>5, <1>6, <1>7, <1>8

\* A child closes its copies of the parent's ends, or dies with all it holds.
LEMMA ChildInv ==
  ASSUME PInv, NEW m \in Cmd, Child(m)
  PROVE  PInv'
<1> USE DEF PInv
<1>1. /\ proc[m] \in {"forked", "cat", "dying"} /\ proc'[m] \in {"cat", "zombie"}
      /\ \A p \in Cmd : p # m => proc'[p] = proc[p]
      /\ UNCHANGED <<cur, pc, round>>
  BY DEF Child, Exec, Exit, TypeOK
<1>2. m \in Proc /\ m # Server /\ Server \in Proc
  BY CmdType DEF Proc
<1>3. /\ fds'[Server] = fds[Server] /\ \A p \in Cmd : p # m => fds'[p] = fds[p]
      /\ fds'[m] \subseteq fds[m] /\ <<m, "PARENT_WRITE">> \notin fds'[m]
  <2>1. CASE Exec(m)
    <3>1. fds'[m] = fds[m] \ ({m} \X ChildCloses)
      BY <1>2, <2>1 DEF Exec, TypeOK
    <3>2. fds'[Server] = fds[Server] /\ \A p \in Cmd : p # m => fds'[p] = fds[p]
      BY <1>2, <2>1, CmdType DEF Exec, TypeOK
    <3> QED
      BY <3>1, <3>2 DEF ChildCloses
  <2>2. CASE Exit(m)
    BY <1>2, <2>2, CmdType DEF Exit, TypeOK
  <2> QED
    BY <2>1, <2>2 DEF Child
<1>4. TypeOK'
  <2>1. fds' \in [Proc -> SUBSET File]
    BY <1>2 DEF Child, Exec, Exit, TypeOK
  <2> QED
    BY <1>1, <2>1 DEF Child, Exec, Exit, TypeOK, cmd
<1>5. Undisturbed'
  BY <1>1 DEF Undisturbed
<1>6. Forked'
  BY <1>1, CurrentCmd DEF Forked, cmd
<1>7. ServerHolds'
  BY <1>1, <1>3 DEF ServerHolds, cmd
<1>8. SocketHeld' /\ ChildHolds' /\ OwnInput'
  BY <1>1, <1>3 DEF SocketHeld, ChildHolds, OwnInput
<1> QED
  BY <1>4, <1>5, <1>6, <1>7, <1>8

-----------------------------------------------------------------------------

\* The invariant holds in the first state, ...
LEMMA InitInv == Init => PInv
<1> SUFFICES ASSUME Init PROVE PInv
  OBVIOUS
<1>1. TypeOK
  <2>1. \A c \in Conn : 1 \in 1..MaxRounds[c]
    OBVIOUS
  <2>2. ASSUME NEW c \in Conn PROVE <<c, 1>> \in Cmd
    <3>1. <<c, 1>> \in {c} \X (1..MaxRounds[c])
      BY <2>1
    <3> QED
      BY <3>1 DEF Cmd
  <2>3. \A c \in Conn : cmd(c) = <<c, 1>>
    BY DEF Init, cmd
  <2> QED
    BY <2>2, <2>3 DEF Init, TypeOK
<1>2. \A p \in Proc : fds[p] = {}
  BY DEF Init
<1>3. Server \in Proc /\ \A m \in Cmd : m \in Proc
  BY DEF Proc
<1> QED
  BY <1>1, <1>2, <1>3
  DEF PInv, Undisturbed, Forked, ServerHolds, SocketHeld, ChildHolds, OwnInput, Init

\* ... and every step keeps it.
LEMMA NextInv == PInv /\ [Next]_vars => PInv'
<1> SUFFICES ASSUME PInv, [Next]_vars PROVE PInv'
  OBVIOUS
<1>1. ASSUME NEW c \in Conn, Accept(c) \/ Wake(c)
      PROVE  PInv'
  BY <1>1, AcceptInv, WakeInv
<1>2. ASSUME NEW c \in Conn, Recv(c) \/ ReadPipe(c) \/ Send(c)
      PROVE  PInv'
  BY <1>2, AwaitInv DEF Recv, ReadPipe, Send
<1>3. ASSUME NEW c \in Conn, Handler(c)
      PROVE  PInv'
  BY <1>2, <1>3, PipeInv, ForkInv, PidfdOpenInv, FinishInv, WaitInv, UnwindInv, CloseSocketInv
  DEF Handler
<1>4. ASSUME NEW m \in Cmd, Child(m)
      PROVE  PInv'
  BY <1>4, ChildInv
<1>5. CASE UNCHANGED vars
  BY <1>5 DEF PInv, TypeOK, Undisturbed, Forked, ServerHolds, SocketHeld, ChildHolds, OwnInput,
              vars, cmd
<1> QED
  BY <1>1, <1>3, <1>4, <1>5 DEF Next, Idle

\* PInv is an inductive invariant of the processes and their files.
THEOREM Invariance == Spec => []PInv
BY InitInv, NextInv, PTL DEF Spec

\* Every variable keeps its type: in particular a handler that executes was
\* started and has not ended, and names a command of its own.
THEOREM TypeCorrect == Spec => []TypeOK
<1>1. PInv => TypeOK
  BY DEF PInv
<1> QED
  BY <1>1, Invariance, PTL

\* For any number of connections: while echo_loop() reads the answer, nobody
\* but the command's own child holds an end that writes to one of its pipes.
THEOREM EndOfInput == Spec => []InputEnds
<1>1. ASSUME PInv PROVE InputEnds
  <2> SUFFICES ASSUME NEW c \in Conn, pc[c] \in {"read", "closeR"}
               PROVE  /\ \A p \in Proc : <<cmd(c), "CHILD_WRITE">> \in fds[p] => p = cmd(c)
                      /\ \A p \in Proc : <<cmd(c), "PARENT_WRITE">> \in fds[p] =>
                           p = cmd(c) /\ proc[p] # "cat"
    BY DEF InputEnds, Holders
  <2>1. cmd(c) \in Cmd /\ cmd(c)[1] = c
    BY <1>1, CurrentCmd DEF PInv
  <2>2. \A e \in {"CHILD_WRITE", "PARENT_WRITE"} : <<cmd(c), e>> \notin fds[Server]
    BY <1>1, <2>1 DEF PInv, ServerHolds, ServerEnds, Closing, Ends
  <2>3. \A e \in {"CHILD_WRITE", "PARENT_WRITE"}, p \in Cmd :
          <<cmd(c), e>> \in fds[p] => p = cmd(c)
    BY <1>1, <2>1 DEF PInv, ChildHolds, Closing, Ends
  <2> QED
    BY <1>1, <2>1, <2>2, <2>3 DEF PInv, OwnInput, Proc
<1> QED
  BY <1>1, Invariance, PTL

\* Whatever fails in init() and wherever the handler was, a closed connection
\* leaves no file of its own open in the server, but the ends of a child whose
\* pidfd could not be opened.
THEOREM NothingLeaks == Spec => []Released
<1>1. ASSUME PInv PROVE Released
  <2> SUFFICES ASSUME NEW m \in Cmd, pc[m[1]] = "done"
               PROVE  fds[Server] \cap (({m} \X Ends) \cup {<<m[1], "sock">>}) \subseteq
                        IF "pidfd" \in Fails /\ proc[m] \notin {"none", "reaped"}
                          THEN {m} \X {"CHILD_READ", "CHILD_WRITE"} ELSE {}
    BY DEF Released
  <2>1. <<m[1], "sock">> \notin fds[Server]
    BY <1>1, CmdType DEF PInv, SocketHeld
  <2>2. \A e \in Ends : <<m, e>> \in fds[Server] =>
          /\ e \in {"CHILD_READ", "CHILD_WRITE"}
          /\ "pidfd" \in Fails /\ proc[m] \notin {"none", "reaped"}
    BY <1>1 DEF PInv, ServerHolds, ServerEnds
  <2> QED
    BY <2>1, <2>2
<1> QED
  BY <1>1, Invariance, PTL
==============================================================================

-------------------------- MODULE PipedAsyncCommand --------------------------
(***************************************************************************)
(* Who holds which file open: PipedAsyncCommand (piped_async_command.cc,   *)
(* .hh) as echo_loop() of app/main.cc uses it, one system call per step,   *)
(* with every call of init() that can fail, failing.                       *)
(*                                                                         *)
(* No descriptor of the program is close-on-exec: a child holds a copy of  *)
(* every file the server had open when it forked, those of the other       *)
(* connections included, until it exits.  So the end of a pipe or of a     *)
(* connection depends on processes that have nothing to do with it.        *)
(*                                                                         *)
(* What is read and written is left out (EchoServer has it): an await may  *)
(* complete at once or suspend, and end with any result.                   *)
(***************************************************************************)
EXTENDS Naturals

CONSTANTS
  Conn,        (* client connections                                        *)
  Server,      (* the server's process                                      *)
  Null,
  Fails,       (* what may go wrong: "pipe", "fork", "pidfd", "throw",      *)
               (* and "spurious", a wake-up before the child died            *)
  MaxRounds    (* bound on each connection's rounds of client_socket_handler *)

VARIABLES
  cur,         (* the connection whose handler executes, Null: event loop   *)
  pc,          (* where the handler of a connection is; if it does not      *)
               (* execute, it is suspended in the await before that place   *)
  round,       (* its round of client_socket_handler                        *)
  fds,         (* files each process holds open                             *)
  proc         (* "none", "forked", "cat", "dying", "zombie", "reaped"      *)

vars == <<cur, pc, round, fds, proc>>

\* A child process is named after the connection and the round it was made in.
Cmd  == UNION {{c} \X (1..MaxRounds[c]) : c \in Conn}
Proc == {Server} \cup Cmd

ASSUME RoundsAssumption == MaxRounds \in [Conn -> Nat \ {0}]
ASSUME NamesAssumption  == Server \notin Cmd /\ Null \notin Conn

Ends == {"PARENT_READ", "CHILD_WRITE", "CHILD_READ", "PARENT_WRITE", "pidfd"}
File == (Cmd \X Ends) \cup (Conn \X {"sock"})

cmd(c) == <<c, round[c]>>
Of(c, ends) == {cmd(c)} \X ends
Holders(f) == {p \in Proc : f \in fds[p]}

At(c, l) == cur = c /\ pc[c] = l
Goto(c, l) == pc' = [pc EXCEPT ![c] = l]

ServerOpens(c, ends)  == fds' = [fds EXCEPT ![Server] = @ \cup Of(c, ends)]
ServerCloses(c, ends) == fds' = [fds EXCEPT ![Server] = @ \ Of(c, ends)]

(***************************************************************************)
(* The server: client_socket_handler(), echo_loop().                       *)
(***************************************************************************)

Accept(c) ==
  /\ cur = Null /\ pc[c] = "new"
  /\ cur' = c /\ Goto(c, "recv")
  /\ fds' = [fds EXCEPT ![Server] = @ \cup {<<c, "sock">>}]
  /\ UNCHANGED <<round, proc>>

\* A co_await: other handlers run if it suspends.
Await(c, from, to) ==
  /\ At(c, from) /\ Goto(c, to)
  /\ cur' \in {c, Null}
  /\ UNCHANGED <<round, fds, proc>>

\* run() resumes the handler; the one that waits for its child, when it died.
Wake(c) ==
  /\ cur = Null /\ pc[c] \notin {"new", "done"}
  /\ pc[c] = "reap" => proc[cmd(c)] = "zombie" \/ "spurious" \in Fails
  /\ cur' = c
  /\ UNCHANGED <<pc, round, fds, proc>>

\* recv(): a message, or nothing after all.
Recv(c) == Await(c, "recv", "init") \/ Await(c, "recv", "close")

\* A call of init() that succeeds, ...
InitStep(c, from, to) ==
  At(c, from) /\ Goto(c, to) /\ UNCHANGED <<cur, round>>

\* ... or fails: factory() destroys the object and echo_loop() returns false.
InitFails(c, from, call) ==
  call \in Fails /\ At(c, from) /\ Goto(c, "close") /\ UNCHANGED <<cur, round>>

PipeW(c) ==
  \/ /\ InitStep(c, "init", "pipeR")
     /\ ServerOpens(c, {"CHILD_READ", "PARENT_WRITE"})
     /\ UNCHANGED proc
  \/ InitFails(c, "init", "pipe") /\ UNCHANGED <<fds, proc>>

PipeR(c) ==
  \/ /\ InitStep(c, "pipeR", "fork")
     /\ ServerOpens(c, {"CHILD_WRITE", "PARENT_READ"})
     /\ UNCHANGED proc
  \/ /\ InitFails(c, "pipeR", "pipe")
     /\ ServerCloses(c, {"PARENT_WRITE", "CHILD_READ"})
     /\ UNCHANGED proc

\* Mutant of ForkUndo: close(mFd_r[1]) is forgotten.
ForkUndoLess == {"CHILD_READ", "PARENT_READ", "PARENT_WRITE"}

\* What a failing fork() closes.
ForkUndo == {"CHILD_READ", "CHILD_WRITE", "PARENT_READ", "PARENT_WRITE"}

Fork(c) ==
  \/ /\ InitStep(c, "fork", "pidfd")
     /\ fds' = [fds EXCEPT ![cmd(c)] = fds[Server]]
     /\ proc' = [proc EXCEPT ![cmd(c)] = "forked"]
  \/ /\ InitFails(c, "fork", "fork")
     /\ ServerCloses(c, ForkUndo)
     /\ UNCHANGED proc

\* A failing pidfd_open() leaves the child's ends, and the child, as they are;
\* the parent's ends go with the object.
PidfdOpen(c) ==
  \/ /\ InitStep(c, "pidfd", "write")
     /\ fds' = [fds EXCEPT ![Server] =
                  (@ \cup Of(c, {"pidfd"})) \ Of(c, {"CHILD_READ", "CHILD_WRITE"})]
     /\ UNCHANGED proc
  \/ /\ InitFails(c, "pidfd", "pidfd")
     /\ ServerCloses(c, {"PARENT_READ", "PARENT_WRITE"})
     /\ UNCHANGED proc

\* Mutant of FinishWriting: the write end is not reset.
FinishWritingOpen(c) ==
  At(c, "write") /\ Goto(c, "read") /\ UNCHANGED <<cur, round, fds, proc>>

\* writepipe(), for which the new pipe always has room, and finishwriting().
FinishWriting(c) ==
  /\ At(c, "write") /\ Goto(c, "read")
  /\ ServerCloses(c, {"PARENT_WRITE"})
  /\ UNCHANGED <<cur, round, proc>>

\* readpipe(): the loop goes on, ends, or merged.at() throws.
ReadPipe(c) ==
  \/ Await(c, "read", "read")
  \/ Await(c, "read", "closeR")
  \/ "throw" \in Fails /\ Await(c, "read", "throw")

FinishReading(c) ==
  /\ At(c, "closeR") /\ Goto(c, "send")
  /\ ServerCloses(c, {"PARENT_READ"})
  /\ UNCHANGED <<cur, round, proc>>

Send(c) == Await(c, "send", "send") \/ Await(c, "send", "wait")

\* whaitforprocesstodie(): waitpid() finds the child dead; the second waitpid(),
\* after the resumption, is the last one whatever it finds.
Reap(c) ==
  /\ \/ At(c, "wait") /\ proc[cmd(c)] = "zombie"
     \/ At(c, "reap")
  /\ proc' = [proc EXCEPT ![cmd(c)] = IF @ = "zombie" THEN "reaped" ELSE @]
  /\ Goto(c, "release")
  /\ UNCHANGED <<cur, round, fds>>

\* The first waitpid() finds it alive: it is killed, and waited for.
Kill(c) ==
  /\ At(c, "wait") /\ Goto(c, "reap")
  /\ proc[cmd(c)] # "zombie"
  /\ proc' = [proc EXCEPT ![cmd(c)] = "dying"]
  /\ cur' = Null
  /\ UNCHANGED <<round, fds>>

\* asyncecho.reset().
Release(c) ==
  /\ At(c, "release") /\ Goto(c, "close")
  /\ ServerCloses(c, {"pidfd"})
  /\ UNCHANGED <<cur, round, proc>>

\* ~PipedAsyncCommand on the way of the exception.  The result that
\* client_socket_handler reads was never set: it goes on, or not.
Unwind(c) ==
  /\ At(c, "throw")
  /\ ServerCloses(c, {"PARENT_READ", "pidfd"})
  /\ \/ Goto(c, "close") /\ UNCHANGED round
     \/ /\ round[c] < MaxRounds[c]
        /\ Goto(c, "recv")
        /\ round' = [round EXCEPT ![c] = @ + 1]
  /\ UNCHANGED <<cur, proc>>

\* Mutant of CloseSocket: the loop of client_socket_handler goes on.
CloseSocketOn(c) ==
  /\ At(c, "close") /\ Goto(c, "done")
  /\ fds' = [fds EXCEPT ![Server] = @ \ {<<c, "sock">>}]
  /\ UNCHANGED <<cur, round, proc>>

CloseSocket(c) ==
  /\ At(c, "close") /\ Goto(c, "done")
  /\ fds' = [fds EXCEPT ![Server] = @ \ {<<c, "sock">>}]
  /\ cur' = Null
  /\ UNCHANGED <<round, proc>>

Handler(c) ==
  \/ Recv(c) \/ PipeW(c) \/ PipeR(c) \/ Fork(c) \/ PidfdOpen(c)
  \/ FinishWriting(c) \/ ReadPipe(c) \/ FinishReading(c) \/ Send(c)
  \/ Reap(c) \/ Kill(c) \/ Release(c) \/ Unwind(c) \/ CloseSocket(c)

(***************************************************************************)
(* The children.                                                           *)
(***************************************************************************)

\* Mutant of ChildCloses: the child keeps a write end of its own input.
ChildKeepsWrite == {"PARENT_READ"}

\* The ends the child closes before execvp.
ChildCloses == {"PARENT_WRITE", "PARENT_READ"}

\* The branch of init() for the child.  Its two ends become its standard input
\* and output, and everything else it inherited stays open across execvp.
Exec(m) ==
  /\ proc[m] = "forked"
  /\ proc' = [proc EXCEPT ![m] = "cat"]
  /\ fds' = [fds EXCEPT ![m] = @ \ ({m} \X ChildCloses)]
  /\ UNCHANGED <<cur, pc, round>>

\* cat exits at the end of its input, when nobody can write to it any more.
Exit(m) ==
  /\ \/ proc[m] = "dying"
     \/ proc[m] = "cat" /\ Holders(<<m, "PARENT_WRITE">>) = {}
  /\ proc' = [proc EXCEPT ![m] = "zombie"]
  /\ fds' = [fds EXCEPT ![m] = {}]
  /\ UNCHANGED <<cur, pc, round>>

Child(m) == Exec(m) \/ Exit(m)

Init ==
  /\ cur = Null
  /\ pc = [c \in Conn |-> "new"] /\ round = [c \in Conn |-> 1]
  /\ fds = [p \in Proc |-> {}]
  /\ proc = [m \in Cmd |-> "none"]

\* Every connection is closed, and the children have nothing left to do.
Idle ==
  /\ \A c \in Conn : pc[c] = "done"
  /\ \A m \in Cmd : proc[m] \in {"none", "zombie", "reaped"}
  /\ UNCHANGED vars

Next ==
  \/ \E c \in Conn : Accept(c) \/ Wake(c) \/ Handler(c)
  \/ \E m \in Cmd : Child(m)
  \/ Idle

\* A handler that executes goes on, and so do the children.  Whether a
\* suspended handler is ever resumed is left open.
Fairness ==
  /\ \A c \in Conn : WF_vars(Handler(c))
  /\ \A m \in Cmd : WF_vars(Child(m))

Spec == Init /\ [][Next]_vars /\ Fairness

(***************************************************************************)
(* Properties.                                                             *)
(***************************************************************************)

\* Type invariant of the processes and their files; the handler that executes
\* is one that was started and has not ended.
TypeOK ==
  /\ cur \in {c \in Conn : pc[c] \notin {"new", "done"}} \cup {Null}
  /\ pc \in [Conn -> {"new", "recv", "init", "pipeR", "fork", "pidfd", "write", "read",
                      "closeR", "send", "wait", "reap", "release", "throw", "close", "done"}]
  /\ round \in [Conn -> Nat] /\ \A c \in Conn : cmd(c) \in Cmd
  /\ fds \in [Proc -> SUBSET File]
  /\ proc \in [Cmd -> {"none", "forked", "cat", "dying", "zombie", "reaped"}]

\* While echo_loop reads the answer, no process but the command's own child
\* holds an end that writes to either of its pipes, and the child none to its
\* own input once it is cat: both ends of file come, although every child
\* inherits all descriptors of all connections.
InputEnds ==
  \A c \in Conn : pc[c] \in {"read", "closeR"} =>
    /\ Holders(<<cmd(c), "CHILD_WRITE">>) \subseteq {cmd(c)}
    /\ \A p \in Holders(<<cmd(c), "PARENT_WRITE">>) : p = cmd(c) /\ proc[p] # "cat"

\* When a connection is closed, the server holds none of its files and none of
\* its commands' open, on whatever path it left init() or the reading loop; but
\* the two ends of a child it never waited for, if pidfd_open() failed.
Released ==
  \A m \in Cmd : pc[m[1]] = "done" =>
    fds[Server] \cap (({m} \X Ends) \cup {<<m[1], "sock">>}) \subseteq
      IF "pidfd" \in Fails /\ proc[m] \notin {"none", "reaped"}
        THEN {m} \X {"CHILD_READ", "CHILD_WRITE"} ELSE {}

\* A client whose connection was closed sees the end of the stream, however
\* many children of other connections inherited its socket.
HungUp == \A c \in Conn : pc[c] = "done" ~> Holders(<<c, "sock">>) = {}
==============================================================================

-------------------------- MODULE EchoWakeupProofs --------------------------
(***************************************************************************)
(* run() resumes accept() and the handlers only when the system call they  *)
(* await can go on, as long as no descriptor was made at an address that   *)
(* an event of the batch still names (reused; the run echo_reuse shows     *)
(* what happens then).  For a handler this is proved if its client is      *)
(* calm, that is sends its message and waits for the answer; whatever the  *)
(* other clients do, wherever the descriptors are.                         *)
(*                                                                         *)
(* Nothing clears the handles that a descriptor stores, and an event stays *)
(* in the batch while other handlers run, so that a notification is true   *)
(* when it arrives does not follow from its being true when epoll_wait     *)
(* reported it.  WInv says why it is: an event for a socket or a pipe is   *)
(* in the batch only while the handler is suspended for just that (Batch), *)
(* a handle for EPOLLOUT is only in sockets, one in a pidfd only once the  *)
(* child is awaited (Stored), and the subscription of a socket for EPOLLOUT*)
(* ends with the send() that asked for it (Subscribed).  That the steps of *)
(* one handler do not disturb another follows from whose descriptors they  *)
(* are (Keeps), not from where they are.                                   *)
(***************************************************************************)
EXTENDS EchoServerProofs

USE NamesAssumption, HomeAssumption, PayloadAssumption, SizesAssumption

\* The clients that send their message and wait for the answer.
Calm == {c \in Conn : Faults[c] = {}}

\* What the handler awaits at place l.
KindAt(l) == IF l = "read" THEN "rd" ELSE IF l = "wait" THEN "pid" ELSE "sock"
DirAt(l)  == IF l = "send" THEN "OUT" ELSE "IN"

\* A handler is suspended at one of four places.
Await(c) ==
  /\ co[c] = "idle" => pc[c] \in {"new", "done", "dead"}
  /\ co[c] \in {"wait", "woken"} =>
       /\ pc[c] \in {"recv", "read", "send", "wait"}
       /\ op[c] = [fd |-> fd[c][KindAt(pc[c])], dir |-> DirAt(pc[c])]

\* The message comes once, and recv() takes all of it.
Asked(c) ==
  /\ cl[c] \in {"none", "open", "sent"}
  /\ cl[c] # "sent" => inq[c] = <<>>
  /\ cl[c] # "sent" \/ inq[c] # <<>> => pc[c] \in {"new", "attach", "recv", "dead"}

Room(c) == Len(outq[c]) < SendCap
Gone(c) == child[c] \in {"zombie", "reaped"}

\* What an event of the batch says of a descriptor of c is still true of it.
EventTrue(c, e) ==
  /\ e.ptr = fd[c]["sock"] =>
       /\ "IN" \in e.ev => pc[c] = "recv" /\ co[c] = "wait" /\ inq[c] # <<>>
       /\ "OUT" \in e.ev => pc[c] = "send" /\ co[c] = "wait" /\ Room(c)
  /\ e.ptr = fd[c]["rd"] =>
       pc[c] = "read" /\ co[c] = "wait" /\ ("IN" \in e.ev => outp[c] # <<>>)
  /\ e.ptr = fd[c]["pid"] => Gone(c)
  /\ e.ptr # fd[c]["wr"]

HalfTrue(c, a) == a = fd[c]["sock"] => pc[c] = "send" /\ co[c] = "wait" /\ Room(c)

Batch(c) == (\A e \in events : EventTrue(c, e)) /\ \A a \in half : HalfTrue(c, a)

\* The handles that descriptors store, never cleared, do no harm.
Stored(c) ==
  /\ \A a \in Desc : coroSend[a] = c => a = fd[c]["sock"]
  /\ fd[c]["pid"] # Null /\ coroRecv[fd[c]["pid"]] # Null => pc[c] \in {"wait", "closePid"}

\* The socket is subscribed for EPOLLOUT only while send() goes on.
Mask(a) == IF a \in processedSockets THEN io_new_state[a] ELSE io_state[a]

Subscribed(c) ==
  fd[c]["sock"] # Null =>
    /\ pc[c] \notin {"send", "wait", "closePid", "closeS"} =>
         "OUT" \notin io_state[fd[c]["sock"]] /\ "OUT" \notin io_new_state[fd[c]["sock"]]
    /\ pc[c] # "send" => "OUT" \notin Mask(fd[c]["sock"])
    /\ phase = "boot" => "OUT" \notin io_state[fd[c]["sock"]]

\* A resumed handler finds what it waited for.
Woken(c) ==
  co[c] = "woken" =>
    /\ pc[c] = "recv" => inq[c] # <<>>
    /\ pc[c] = "read" => outp[c] # <<>>
    /\ pc[c] = "send" => Room(c)
    /\ pc[c] = "wait" => Gone(c)

Calmly(c) == Await(c) /\ Asked(c) /\ Batch(c) /\ Stored(c) /\ Subscribed(c) /\ Woken(c)

\* accept() awaits connections, and no connection is accepted twice.
Accepting ==
  /\ co[Acceptor] \in {"wait", "woken"} => op[Acceptor] = [fd |-> Listen, dir |-> "IN"]
  /\ co[Acceptor] = "woken" => backlog # <<>>
  /\ \A e \in events : e.ptr = Listen /\ "IN" \in e.ev => co[Acceptor] = "wait" /\ backlog # <<>>
  /\ \A a \in Desc : coroSend[a] # Acceptor /\ (owner[a] = Acceptor => a = Listen)

Queue ==
  /\ \A c \in Conn : cl[c] = "none" => pc[c] = "new" \/ apc = "dead"
  /\ \A i \in 1..Len(backlog) :
       pc[backlog[i]] = "new" /\ cl[backlog[i]] # "none" /\ backlog[i] # accepted
  /\ \A i, j \in 1..Len(backlog) : backlog[i] = backlog[j] => i = j
  /\ accepted # Null => pc[accepted] = "new" /\ cl[accepted] # "none"

\* A batch has one event for each descriptor.
OneEach ==
  /\ \A e, f \in events : e.ptr = f.ptr => e = f
  /\ \A e \in events : e.ptr \notin half

\* The listening socket is main()'s: no descriptor of a connection is there.
Apart == \A c \in Conn, k \in Kinds : fd[c][k] # Listen

WInv ==
  /\ Apart /\ OneEach /\ Queue /\ Accepting
  /\ reused \/ \A c \in Calm : Calmly(c)

\* What is proved of the reactor, as far as it matters here.
Loop ==
  /\ io_state \in [Desc -> SUBSET {"IN", "OUT"}] /\ io_new_state \in [Desc -> SUBSET {"IN", "OUT"}]
  /\ coroRecv \in [Desc -> Conn \cup {Acceptor, Null, Lost}]
  /\ coroSend \in [Desc -> Conn \cup {Acceptor, Null, Lost}]
  /\ processedSockets \subseteq Desc /\ half \subseteq Desc /\ doneRecv \in [Desc -> BOOLEAN]
  /\ op \in [Conn \cup {Acceptor} -> [fd : Desc \cup {Null}, dir : {"IN", "OUT"}]]
  /\ managed_fd = {a \in Desc : owner[a] # Null} /\ ready \subseteq managed_fd
  /\ \A a \in managed_fd :
       /\ interest[a] = io_state[a] /\ co[owner[a]] # "idle"
       /\ coroRecv[a] \in {Null, Lost, owner[a]} /\ coroSend[a] \in {Null, Lost, owner[a]}
  /\ phase \in {"boot", "wait"} => events = {} /\ half = {}
  /\ phase = "wait" => \A a \in processedSockets : io_new_state[a] = io_state[a]
  /\ \A k \in Conn \cup {Acceptor} :
       co[k] \in {"wait", "woken"} => op[k].fd \in Desc /\ owner[op[k].fd] = k
  /\ \A e \in events : e.ptr \in Desc

-----------------------------------------------------------------------------

\* Loop holds in every state of the server.
LEMMA LoopHolds == Spec => []Loop
<1>1. IO!Init => IOP!Init
  BY DEF IO!Init, IOP!Init, IO!ForAll, IOP!ForAll, IO!NoOp, IOP!NoOp
<1>2. Spec => IOP!Spec
  BY <1>1, Refinement, SameReactor, PTL DEF IO!Spec, IOP!Spec
<1>3. IOP!Spec => []IOP!IInv
  BY ReactorAssumptions, IOP!Invariance, PTL
<1>4. IOP!IInv => Loop
  <2> SUFFICES ASSUME IOP!IInv PROVE Loop
    OBVIOUS
  <2>1. IOP!TypeOK /\ IOP!Ownership /\ IOP!Registry /\ IOP!Synced /\ IOP!Handles /\ IOP!Quiet
    BY DEF IOP!IInv
  <2>2. op \in [Conn \cup {Acceptor} -> [fd : Desc \cup {Null}, dir : {"IN", "OUT"}]]
    BY <2>1 DEF IOP!TypeOK, IOP!Op, IOP!NoOp, IOP!Dir
  <2>3. managed_fd = {a \in Desc : owner[a] # Null} /\ ready \subseteq managed_fd
    BY <2>1 DEF IOP!Registry, IOP!Live
  <2>4. \A a \in managed_fd :
          /\ interest[a] = io_state[a] /\ co[owner[a]] # "idle"
          /\ coroRecv[a] \in {Null, Lost, owner[a]} /\ coroSend[a] \in {Null, Lost, owner[a]}
    BY <2>1 DEF IOP!Registry, IOP!Synced, IOP!Handles, IOP!Ownership
  <2>5. /\ phase \in {"boot", "wait"} => events = {} /\ half = {}
        /\ phase = "wait" => \A a \in processedSockets : io_new_state[a] = io_state[a]
    BY <2>1 DEF IOP!Quiet
  <2>6. /\ io_state \in [Desc -> SUBSET {"IN", "OUT"}]
        /\ io_new_state \in [Desc -> SUBSET {"IN", "OUT"}]
        /\ coroRecv \in [Desc -> Conn \cup {Acceptor, Null, Lost}]
        /\ coroSend \in [Desc -> Conn \cup {Acceptor, Null, Lost}]
        /\ processedSockets \subseteq Desc /\ half \subseteq Desc /\ doneRecv \in [Desc -> BOOLEAN]
    <3>1. Conn \cup {Acceptor} \cup {Null, Lost} = Conn \cup {Acceptor, Null, Lost}
      OBVIOUS
    <3> QED
      BY <2>1, <3>1 DEF IOP!TypeOK, IOP!Dir
  <2>7. \A k \in Conn \cup {Acceptor} :
          co[k] \in {"wait", "woken"} => op[k].fd \in Desc /\ owner[op[k].fd] = k
    BY <2>1 DEF IOP!Ownership, IOP!Op
  <2>8. \A e \in events : e.ptr \in Desc
    BY <2>1 DEF IOP!TypeOK, IOP!Event
  <2> QED
    BY <2>2, <2>3, <2>4, <2>5, <2>6, <2>7, <2>8 DEF Loop
<1> QED
  BY <1>2, <1>3, <1>4, PTL

-----------------------------------------------------------------------------
(***************************************************************************)
(* Steps that are none of c's business.                                    *)
(***************************************************************************)

\* What concerns the descriptors of c stays as it is in the reactor.
Aside(c) ==
  /\ events' \subseteq events /\ half' \subseteq half
  /\ phase' = "boot" => phase = "boot"
  /\ \A a \in Desc : coroSend'[a] = c => coroSend[a] = c
  /\ \A k \in Kinds : fd[c][k] # Null =>
       /\ io_state'[fd[c][k]] = io_state[fd[c][k]]
       /\ io_new_state'[fd[c][k]] = io_new_state[fd[c][k]]
       /\ coroRecv'[fd[c][k]] = coroRecv[fd[c][k]]
       /\ fd[c][k] \in processedSockets' <=> fd[c][k] \in processedSockets

\* What c has, others only add to.
Grows(c) ==
  /\ inq[c] # <<>> => inq'[c] # <<>>
  /\ outp[c] # <<>> => outp'[c] # <<>>
  /\ Room(c) => Room(c)'
  /\ Gone(c) => Gone(c)'

\* A handler that is not concerned by a step stays calm.
LEMMA CalmKept ==
  ASSUME NEW c \in Conn, Calmly(c), Asked(c)', Aside(c), Grows(c),
         pc'[c] = pc[c], fd'[c] = fd[c], co'[c] = co[c], op'[c] = op[c]
  PROVE  Calmly(c)'
<1> USE DEF Calmly
<1>1. Await(c)'
  BY DEF Await
<1>2. Batch(c)'
  <2>1. ASSUME NEW e \in events', EventTrue(c, e) PROVE EventTrue(c, e)'
    BY <2>1 DEF EventTrue, Grows
  <2>2. ASSUME NEW a \in half' PROVE HalfTrue(c, a)'
    BY <2>2 DEF Batch, HalfTrue, Aside, Grows
  <2>3. \A e \in events' : EventTrue(c, e)
    BY DEF Batch, Aside
  <2> QED
    BY <2>1, <2>2, <2>3 DEF Batch
<1>3. Stored(c)'
  BY DEF Stored, Aside, Kinds
<1>4. Subscribed(c)'
  <2> DEFINE a == fd[c]["sock"]
  <2>1. a # Null => /\ io_state'[a] = io_state[a] /\ io_new_state'[a] = io_new_state[a]
                    /\ a \in processedSockets' <=> a \in processedSockets
    BY DEF Aside, Kinds
  <2>2. a # Null => Mask(a)' = Mask(a)
    BY <2>1 DEF Mask
  <2>3. phase' = "boot" => phase = "boot"
    BY DEF Aside
  <2> QED
    BY <2>1, <2>2, <2>3 DEF Subscribed, Mask
<1>5. Woken(c)'
  BY DEF Woken, Grows
<1> QED
  BY <1>1, <1>2, <1>3, <1>4, <1>5

\* What a step of coroutine k on the descriptor at a leaves alone.
Touch(k, a) ==
  /\ UNCHANGED <<events, half, phase>>
  /\ \A j \in Conn \cup {Acceptor} : j # k => co'[j] = co[j] /\ op'[j] = op[j]
  /\ \A b \in Desc : b # a =>
       /\ io_state'[b] = io_state[b] /\ io_new_state'[b] = io_new_state[b]
       /\ coroRecv'[b] = coroRecv[b] /\ coroSend'[b] = coroSend[b] /\ owner'[b] = owner[b]
       /\ b \in processedSockets' <=> b \in processedSockets
  /\ coroSend'[a] \in {coroSend[a], Null, k} /\ owner'[a] \in {owner[a], Null, k}

\* What a step of coroutine k leaves alone: all that others own.
Keeps(k) ==
  /\ UNCHANGED <<events, half, phase>>
  /\ \A j \in Conn \cup {Acceptor} : j # k => co'[j] = co[j] /\ op'[j] = op[j]
  /\ \A b \in Desc : owner[b] \notin {k, Null} =>
       /\ io_state'[b] = io_state[b] /\ io_new_state'[b] = io_new_state[b]
       /\ coroRecv'[b] = coroRecv[b]
       /\ b \in processedSockets' <=> b \in processedSockets
  /\ \A b \in Desc : /\ coroSend'[b] \in {coroSend[b], Null, Lost, k}
                     /\ owner'[b] \in {owner[b], Null, k}

\* It is none of c's business.
LEMMA KeepsAside ==
  ASSUME Files, App, NEW k \in Conn \cup {Acceptor}, Keeps(k), NEW c \in Conn, c # k
  PROVE  Aside(c) /\ co'[c] = co[c] /\ op'[c] = op[c]
<1>1. co'[c] = co[c] /\ op'[c] = op[c] /\ UNCHANGED <<events, half, phase>>
  BY DEF Keeps
<1>2. ASSUME NEW j \in Kinds, fd[c][j] # Null
      PROVE  fd[c][j] \in Desc /\ owner[fd[c][j]] \notin {k, Null}
  <2>1. fd[c][j] \in Desc \cup {Null}
    BY DEF App, TypeOK
  <2>2. owner[fd[c][j]] = c /\ c # Null
    BY <1>2 DEF Files, Owned
  <2> QED
    BY <1>2, <2>1, <2>2
<1>3. \A b \in Desc : coroSend'[b] = c => coroSend[b] = c
  <2>1. c \notin {Null, Lost, k}
    OBVIOUS
  <2> QED
    BY <2>1 DEF Keeps
<1> QED
  BY <1>1, <1>2, <1>3 DEF Keeps, Aside

\* The steps that a coroutine takes leave alone what others own.
LEMMA CoroKeeps ==
  ASSUME Loop, Reactor, NEW k \in Conn \cup {Acceptor}, NEW a \in Desc,
         NEW dir, NEW watch, NEW mask, NEW r,
         \/ IO!Spawn(k) \/ IO!Finish(k) \/ IO!EndFrame(k) \/ UNCHANGED ioVars
         \/ IO!Construct(k, a, mask, r, watch) \/ IO!Destroy(k, a)
         \/ IO!AwaitDone(k, a, dir) \/ IO!AwaitSuspend(k, a, dir, watch)
         \/ IO!AwaitResume(k)
  PROVE  Keeps(k)
<1> USE DEF Loop, Reactor, Keeps, IO!coroVars
<1>1. CASE IO!Spawn(k) \/ IO!Finish(k)
  BY <1>1 DEF IO!Spawn, IO!Finish, IO!afdVars, IO!loopVars
<1>2. CASE IO!Construct(k, a, mask, r, watch)
  BY <1>2 DEF IO!Construct, IO!Attach
<1>3. CASE IO!Destroy(k, a)
  BY <1>3 DEF IO!Destroy, IO!Detach, IO!Unlisted
<1>4. CASE IO!AwaitDone(k, a, dir)
  BY <1>4 DEF IO!AwaitDone, IO!Unwatch
<1>5. CASE IO!AwaitSuspend(k, a, dir, watch)
  BY <1>5 DEF IO!AwaitSuspend, IO!Watch
<1>6. CASE IO!AwaitResume(k)
  BY <1>6 DEF IO!AwaitResume, IO!Unwatch
<1>7. CASE IO!EndFrame(k)
  <2>1. \A b \in Desc : owner[b] \notin {k, Null} => coroRecv[b] # k
    OBVIOUS
  <2> QED
    BY <1>7, <2>1 DEF IO!EndFrame, IO!loopVars
<1>8. CASE UNCHANGED ioVars
  BY <1>8 DEF ioVars, ioRest
<1> QED
  BY <1>1, <1>2, <1>3, <1>4, <1>5, <1>6, <1>7, <1>8

\* The steps that coroutine k takes on descriptors.
Acts(k) ==
  \/ IO!Spawn(k) \/ IO!Finish(k) \/ IO!AwaitResume(k)
  \/ \E a \in Desc :
       \/ IO!Destroy(k, a)
       \/ \E mask, r, watch : IO!Construct(k, a, mask, r, watch)
       \/ \E dir : IO!AwaitDone(k, a, dir) \/ \E watch : IO!AwaitSuspend(k, a, dir, watch)

\* They leave alone what others own.
LEMMA ActsKeep ==
  ASSUME Loop, Reactor, NEW k \in Conn \cup {Acceptor}, Acts(k)
  PROVE  Keeps(k)
<1>1. Listen \in Desc
  OBVIOUS
<1>2. CASE IO!Spawn(k) \/ IO!Finish(k) \/ IO!AwaitResume(k)
  BY <1>1, <1>2, CoroKeeps
<1>3. ASSUME NEW a \in Desc, IO!Destroy(k, a) PROVE Keeps(k)
  BY <1>3, CoroKeeps
<1>4. ASSUME NEW a \in Desc, NEW mask, NEW r, NEW watch, IO!Construct(k, a, mask, r, watch)
      PROVE  Keeps(k)
  BY <1>4, CoroKeeps
<1>5. ASSUME NEW a \in Desc, NEW dir, IO!AwaitDone(k, a, dir) PROVE Keeps(k)
  BY <1>5, CoroKeeps
<1>6. ASSUME NEW a \in Desc, NEW dir, NEW watch, IO!AwaitSuspend(k, a, dir, watch) PROVE Keeps(k)
  BY <1>6, CoroKeeps
<1> QED
  BY <1>2, <1>3, <1>4, <1>5, <1>6 DEF Acts

\* What they do to the descriptor they are about.
LEMMA Touches ==
  ASSUME Loop, Reactor, NEW k \in Conn \cup {Acceptor}, NEW a \in Desc,
         NEW dir, NEW watch, NEW mask, NEW r,
         \/ IO!Construct(k, a, mask, r, watch) \/ IO!Destroy(k, a)
         \/ IO!AwaitDone(k, a, dir) \/ IO!AwaitSuspend(k, a, dir, watch)
         \/ IO!AwaitResume(k) /\ op[k].fd = a
  PROVE  Touch(k, a)
<1> USE DEF Loop, Reactor, Touch, IO!coroVars
<1>1. CASE IO!Construct(k, a, mask, r, watch)
  BY <1>1 DEF IO!Construct, IO!Attach
<1>2. CASE IO!Destroy(k, a)
  BY <1>2 DEF IO!Destroy, IO!Detach, IO!Unlisted
<1>3. CASE IO!AwaitDone(k, a, dir)
  BY <1>3 DEF IO!AwaitDone, IO!Unwatch
<1>4. CASE IO!AwaitSuspend(k, a, dir, watch)
  BY <1>4 DEF IO!AwaitSuspend, IO!Watch
<1>5. CASE IO!AwaitResume(k) /\ op[k].fd = a
  BY <1>5 DEF IO!AwaitResume, IO!Unwatch
<1> QED
  BY <1>1, <1>2, <1>3, <1>4, <1>5
-----------------------------------------------------------------------------
(***************************************************************************)
(* Steps of the handler itself.                                            *)
(***************************************************************************)

\* The reactor sees the file of the descriptor.
LEMMA PollAt ==
  ASSUME App, Files, NEW c \in Conn, NEW k \in Kinds, fd[c][k] # Null
  PROVE  fd[c][k] \in Desc /\ owner[fd[c][k]] = c /\ Poll[fd[c][k]] = FileReady(c, k)
<1> DEFINE a == fd[c][k]
<1>1. a \in Desc
  BY DEF App, TypeOK
<1>2. owner[a] = c /\ \A j \in Kinds : fd[c][j] = a => j = k
  BY DEF Files, Owned
<1>3. {j \in Kinds : fd[c][j] = a} = {k}
  BY <1>2
<1>4. c # Null /\ c # Acceptor
  OBVIOUS
<1>5. Poll[a] = UNION {FileReady(c, i) : i \in {j \in Kinds : fd[c][j] = a}}
  <2> HIDE DEF a
  <2> QED
    BY <1>1, <1>2, <1>4 DEF Poll
<1>6. {FileReady(c, i) : i \in {k}} = {FileReady(c, k)}
  OBVIOUS
<1>7. UNION {FileReady(c, k)} = FileReady(c, k)
  OBVIOUS
<1> QED
  BY <1>1, <1>2, <1>3, <1>5, <1>6, <1>7

\* The descriptors of c are those it had, but for some that are gone and some
\* that the batch does not name.
Fresh(c) == \A k \in Kinds : fd'[c][k] \in {fd[c][k], Null} \/ ~ Named(fd'[c][k])

\* A running handler is not mentioned in the batch, but for its pidfd.
LEMMA OwnStep ==
  ASSUME Loop, NEW c \in Conn, Calmly(c), co[c] # "wait", co'[c] # "woken",
         UNCHANGED <<events, half>>, Fresh(c),
         Await(c)', Asked(c)', Stored(c)', Subscribed(c)',
         fd'[c]["pid"] = fd[c]["pid"] => (Gone(c) => Gone(c)')
  PROVE  Calmly(c)'
<1>1. ASSUME NEW e \in events PROVE EventTrue(c, e)'
  <2>1. EventTrue(c, e) /\ e.ptr # Null
    BY DEF Calmly, Batch, Loop
  <2>2. ASSUME NEW k \in Kinds, e.ptr = fd'[c][k] PROVE e.ptr = fd[c][k]
    BY <2>1, <2>2 DEF Fresh, Named
  <2>3. ASSUME e.ptr = fd'[c]["sock"] PROVE "IN" \notin e.ev /\ "OUT" \notin e.ev
    <3>1. e.ptr = fd[c]["sock"]
      BY <2>2, <2>3 DEF Kinds
    <3> QED
      BY <2>1, <3>1 DEF EventTrue
  <2>4. e.ptr # fd'[c]["rd"] /\ e.ptr # fd'[c]["wr"]
    BY <2>1, <2>2 DEF EventTrue, Kinds
  <2>5. e.ptr = fd'[c]["pid"] => Gone(c)'
    <3>1. e.ptr = fd'[c]["pid"] => e.ptr = fd[c]["pid"]
      BY <2>2 DEF Kinds
    <3>2. e.ptr = fd[c]["pid"] => Gone(c)
      BY <2>1 DEF EventTrue
    <3> QED
      BY <3>1, <3>2
  <2> QED
    BY <2>3, <2>4, <2>5 DEF EventTrue
<1>2. ASSUME NEW a \in half PROVE HalfTrue(c, a)'
  <2>1. a # fd[c]["sock"] /\ a # Null
    BY DEF Calmly, Batch, HalfTrue, Loop
  <2>2. a # fd'[c]["sock"]
    BY <2>1 DEF Fresh, Named, Kinds
  <2> QED
    BY <2>2 DEF HalfTrue
<1>3. Batch(c)'
  BY <1>1, <1>2 DEF Batch
<1>4. Woken(c)'
  BY DEF Woken
<1> QED
  BY <1>3, <1>4 DEF Calmly

\* No two descriptors of a handler are at one address.
LEMMA OtherKind ==
  ASSUME Files, NEW c \in Conn, NEW j \in Kinds, NEW k \in Kinds, fd[c][k] # Null, j # k
  PROVE  fd[c][j] # fd[c][k]
BY DEF Files, Owned

\* A step on another descriptor leaves the socket's subscription.
LEMMA SockAside ==
  ASSUME App, Files, NEW c \in Conn, Subscribed(c), NEW a \in Desc, Touch(c, a), a # fd[c]["sock"],
         fd'[c]["sock"] = fd[c]["sock"],
         pc'[c] \notin {"send", "wait", "closePid", "closeS"} =>
           pc[c] \notin {"send", "wait", "closePid", "closeS"},
         pc'[c] # "send" => pc[c] # "send"
  PROVE  Subscribed(c)'
<1> DEFINE b == fd[c]["sock"]
<1> SUFFICES ASSUME b # Null PROVE Subscribed(c)'
  BY DEF Subscribed
<1>1. b \in Desc
  BY DEF App, TypeOK, Kinds
<1>2. /\ io_state'[b] = io_state[b] /\ io_new_state'[b] = io_new_state[b] /\ phase' = phase
      /\ b \in processedSockets' <=> b \in processedSockets
  BY <1>1 DEF Touch
<1>3. Mask(b)' = Mask(b)
  BY <1>2 DEF Mask
<1> QED
  BY <1>2, <1>3 DEF Subscribed, Mask

\* A step on one end of a pipe, or none.
LEMMA PipeStep ==
  ASSUME App, Files, Loop, NEW c \in Conn, Calmly(c), NEW a \in Desc, Touch(c, a),
         a # fd[c]["sock"], a # fd[c]["pid"], coroSend'[a] \in {coroSend[a], Null},
         co[c] # "wait", co'[c] # "woken", Await(c)', Asked(c)', Fresh(c),
         fd'[c]["sock"] = fd[c]["sock"], fd'[c]["pid"] = fd[c]["pid"],
         pc[c] \notin {"send", "wait", "closePid", "closeS"}, UNCHANGED child
  PROVE  Calmly(c)'
<1>2. Subscribed(c)'
  BY SockAside DEF Calmly
<1>3. Stored(c)'
  <2>1. \A b \in Desc : coroSend'[b] = c => coroSend[b] = c
    <3>1. c # Null
      OBVIOUS
    <3> QED
      BY <3>1 DEF Touch
  <2>2. fd[c]["pid"] # Null => coroRecv'[fd[c]["pid"]] = coroRecv[fd[c]["pid"]]
    BY DEF Touch, App, TypeOK, Kinds
  <2> QED
    BY <2>1, <2>2 DEF Calmly, Stored
<1>4. UNCHANGED <<events, half>> /\ (Gone(c) => Gone(c)')
  BY DEF Touch, Gone
<1> QED
  BY <1>2, <1>3, <1>4, OwnStep

\* A system call that does not answer EAGAIN, and the end of its await.
LEMMA Completed ==
  ASSUME Loop, Reactor, NEW k \in Conn \cup {Acceptor}, NEW a \in Desc, NEW dir,
         Completes(k, a, dir), co[k] = "woken" => op[k] = [fd |-> a, dir |-> dir]
  PROVE  /\ Touch(k, a) /\ co'[k] = "run"
         /\ io_state'[a] = io_state[a] /\ io_new_state'[a] = io_state[a] \ {dir}
         /\ a \in processedSockets' /\ UNCHANGED <<coroRecv, coroSend, owner>>
         /\ co[k] = "woken" \/ IO!CanComplete(a, dir)
<1>1. CASE IO!AwaitDone(k, a, dir)
  <2>1. Touch(k, a)
    BY <1>1, Touches
  <2>2. /\ co'[k] = "run"
        /\ io_state'[a] = io_state[a] /\ io_new_state'[a] = io_state[a] \ {dir}
        /\ a \in processedSockets' /\ UNCHANGED <<coroRecv, coroSend, owner>>
        /\ IO!CanComplete(a, dir)
    BY <1>1 DEF IO!AwaitDone, IO!Runs, IO!Unwatch, IO!coroVars, Loop
  <2> QED
    BY <2>1, <2>2
<1>2. CASE IO!AwaitResume(k)
  <2>0. co[k] = "woken" /\ op[k].fd = a /\ op[k].dir = dir
    BY <1>2 DEF IO!AwaitResume
  <2>1. Touch(k, a)
    BY <1>2, <2>0, Touches
  <2>2. /\ co'[k] = "run"
        /\ io_state'[a] = io_state[a] /\ io_new_state'[a] = io_state[a] \ {dir}
        /\ a \in processedSockets' /\ UNCHANGED <<coroRecv, coroSend, owner>>
    BY <1>2, <2>0 DEF IO!AwaitResume, IO!Unwatch, Loop, Reactor
  <2> QED
    BY <2>0, <2>1, <2>2
<1> QED
  BY <1>1, <1>2 DEF Completes

\* EAGAIN.
LEMMA Suspended ==
  ASSUME Loop, Reactor, NEW k \in Conn \cup {Acceptor}, NEW a \in Desc, NEW dir,
         IO!AwaitSuspend(k, a, dir, TRUE) \/ IO!AwaitSuspend(k, a, dir, FALSE)
  PROVE  /\ Touch(k, a) /\ co[k] = "run" /\ co'[k] = "wait"
         /\ io_state'[a] = io_state[a] /\ UNCHANGED owner
         /\ dir = "IN" => UNCHANGED coroSend
<1>1. Touch(k, a)
  BY Touches
<1> QED
  BY <1>1 DEF IO!AwaitSuspend, IO!Runs, Loop, Reactor

\* An operation that asks for its event.
LEMMA Watched ==
  ASSUME Loop, NEW k, NEW a \in Desc, NEW dir, IO!AwaitSuspend(k, a, dir, TRUE)
  PROVE  io_new_state'[a] = io_state[a] \cup {dir}
BY DEF IO!AwaitSuspend, IO!Watch, Loop

\* A descriptor is made, ...
OpenedAt(c, k, mask, a) ==
  /\ a \in Desc /\ Touch(c, a) /\ co[c] = "run" /\ UNCHANGED <<co, op>>
  /\ fd' = [fd EXCEPT ![c][k] = a]
  /\ io_state'[a] = mask /\ io_new_state'[a] = {}
  /\ coroRecv'[a] = Null /\ coroSend'[a] = Null
  /\ owner[a] = Null /\ ~ Named(a)

\* Open() makes a descriptor with no handle in it and the mask of its kind, at a
\* free address that the batch does not name.
LEMMA Opened ==
  ASSUME Loop, Files, NEW c \in Conn, NEW k \in Kinds, NEW mask, NEW r, Open(c, k, mask, r),
         ~ reused'
  PROVE  \E a \in Desc : OpenedAt(c, k, mask, a)
<1>1. PICK a \in Home[<<c, k>>] : /\ owner[a] = Null /\ fd' = [fd EXCEPT ![c][k] = a]
                                  /\ reused' = (reused \/ Named(a))
                                  /\ IO!Construct(c, a, mask, r, FALSE)
  BY DEF Open
<1>2. a \in Desc
  OBVIOUS
<1>3. Touch(c, a)
  BY <1>1, <1>2, Touches DEF Files
<1>4. /\ co[c] = "run" /\ UNCHANGED <<co, op>>
      /\ io_state'[a] = mask /\ io_new_state'[a] = {}
      /\ coroRecv'[a] = Null /\ coroSend'[a] = Null
  BY <1>1, <1>2 DEF IO!Construct, IO!Attach, IO!Runs, IO!coroVars, Loop
<1>5. ~ Named(a)
  BY <1>1
<1> QED
  BY <1>1, <1>2, <1>3, <1>4, <1>5 DEF OpenedAt

\* It is a new descriptor, and the others are where they were.
LEMMA OpenedFresh ==
  ASSUME App, Files, NEW c \in Conn, NEW k \in Kinds, NEW mask, NEW a \in Desc,
         OpenedAt(c, k, mask, a)
  PROVE  /\ Fresh(c) /\ fd'[c][k] = a
         /\ \A j \in Kinds : fd[c][j] # a /\ (j # k => fd'[c][j] = fd[c][j])
<1>1. \A j \in Kinds : fd'[c][j] = IF j = k THEN a ELSE fd[c][j]
  BY DEF OpenedAt, App, TypeOK
<1>2. ~ Named(a) /\ owner[a] = Null
  BY DEF OpenedAt
<1>3. ASSUME NEW j \in Kinds PROVE fd[c][j] # a
  <2>1. c # Null /\ a # Null
    OBVIOUS
  <2> QED
    BY <1>2, <2>1 DEF Files, Owned
<1> QED
  BY <1>1, <1>2, <1>3 DEF Fresh

\* ... and destroyed.
LEMMA Closed ==
  ASSUME Loop, App, Files, NEW c \in Conn, NEW k \in Kinds, Close(c, k), fd[c][k] # Null
  PROVE  /\ fd[c][k] \in Desc /\ Touch(c, fd[c][k]) /\ co[c] = "run" /\ UNCHANGED <<co, op>>
         /\ fd' = [fd EXCEPT ![c][k] = Null] /\ coroSend'[fd[c][k]] = Null /\ Fresh(c)
<1>1. fd[c][k] \in Desc
  BY DEF App, TypeOK
<1>2. IO!Destroy(c, fd[c][k]) /\ fd' = [fd EXCEPT ![c][k] = Null]
  BY DEF Close
<1>3. Touch(c, fd[c][k])
  BY <1>1, <1>2, Touches DEF Files
<1>4. /\ co[c] = "run" /\ UNCHANGED <<co, op>> /\ coroSend'[fd[c][k]] = Null
  BY <1>1, <1>2 DEF IO!Destroy, IO!Runs, IO!coroVars, Loop
<1>5. Fresh(c)
  BY <1>2 DEF Fresh, App, TypeOK
<1> QED
  BY <1>1, <1>2, <1>3, <1>4, <1>5

\* client_socket_handler() starts, ...
LEMMA StartCalm ==
  ASSUME App, Files, Loop, Queue, NEW c \in Conn, Calmly(c), HandlerStart(c)
  PROVE  Calmly(c)'
<1>1. accepted = c /\ pc[c] = "new" /\ pc'[c] = "attach" /\ UNCHANGED <<fd, envVars>>
  <2>1. accepted = c /\ pc' = [pc EXCEPT ![c] = "attach"] /\ UNCHANGED <<fd, envVars>>
    BY DEF HandlerStart
  <2>2. c # Null
    OBVIOUS
  <2> QED
    BY <2>1, <2>2 DEF Queue, App, TypeOK
<1>2. /\ co[c] = "idle" /\ co'[c] = "run" /\ UNCHANGED <<coroSend, events, half>>
  BY DEF HandlerStart, IO!Spawn, IO!afdVars, IO!loopVars, Files, Reactor
<1>3. \A k \in Kinds : fd[c][k] = Null
  BY <1>1 DEF Files, HeldAt, Held
<1>4. Await(c)' /\ Asked(c)'
  BY <1>1, <1>2 DEF Await, Asked, Calmly, envVars, netVars
<1>5. Stored(c)' /\ Subscribed(c)'
  BY <1>1, <1>2, <1>3 DEF Stored, Subscribed, Calmly, Kinds
<1>6. Fresh(c) /\ (Gone(c) => Gone(c)')
  BY <1>1 DEF Fresh, Gone, envVars, cmdVars
<1> QED
  BY <1>2, <1>4, <1>5, <1>6, OwnStep

\* ... and ends.
LEMMA EndCalm ==
  ASSUME App, Files, Loop, NEW c \in Conn, Calmly(c), HandlerEnd(c)
  PROVE  Calmly(c)'
<1>1. pc[c] = "end" /\ pc'[c] = "done" /\ UNCHANGED <<fd, envVars>>
  BY DEF HandlerEnd, At, Goto, App, TypeOK
<1>2. /\ co[c] = "run" /\ co'[c] = "idle" /\ UNCHANGED <<coroSend, events, half>>
  BY DEF HandlerEnd, IO!Finish, IO!Runs, IO!afdVars, IO!loopVars, Files, Reactor
<1>3. \A k \in Kinds : fd[c][k] = Null
  BY <1>1 DEF Files, HeldAt, Held
<1>4. Await(c)' /\ Asked(c)'
  BY <1>1, <1>2 DEF Await, Asked, Calmly, envVars, netVars
<1>5. Stored(c)' /\ Subscribed(c)'
  BY <1>1, <1>2, <1>3 DEF Stored, Subscribed, Calmly, Kinds
<1>6. Fresh(c) /\ (Gone(c) => Gone(c)')
  BY <1>1 DEF Fresh, Gone, envVars, cmdVars
<1> QED
  BY <1>2, <1>4, <1>5, <1>6, OwnStep

\* The socket is made, ...
LEMMA AttachCalm ==
  ASSUME App, Files, Loop, NEW c \in Conn, Calmly(c), AttachSocket(c), ~ reused'
  PROVE  Calmly(c)'
<1>1. pc[c] = "attach" /\ pc'[c] = "recv" /\ UNCHANGED envVars /\ "sock" \in Kinds /\ "pid" \in Kinds
  BY DEF AttachSocket, At, Goto, App, TypeOK, Kinds
<1>2. PICK a \in Desc : OpenedAt(c, "sock", {"IN"}, a)
  BY <1>1, Opened DEF AttachSocket
<1>3. fd'[c]["sock"] = a /\ fd'[c]["pid"] = fd[c]["pid"] /\ Fresh(c)
  BY <1>1, <1>2, OpenedFresh
<1>4. fd[c]["pid"] = Null /\ fd[c]["sock"] = Null
  BY <1>1 DEF Files, HeldAt, Held
<1> USE DEF OpenedAt
<1>5. Await(c)' /\ Asked(c)'
  BY <1>1, <1>2 DEF Await, Asked, Calmly, envVars, netVars
<1>6. Stored(c)'
  <2>1. \A b \in Desc : coroSend'[b] = c => coroSend[b] = c
    <3>1. c # Null
      OBVIOUS
    <3> QED
      BY <1>2, <3>1 DEF Touch
  <2>2. \A b \in Desc : coroSend[b] # c
    BY <1>4 DEF Stored, Calmly
  <2> QED
    BY <1>3, <1>4, <2>1, <2>2 DEF Stored
<1>7. Subscribed(c)'
  <2>1. "OUT" \notin io_state'[a] /\ "OUT" \notin io_new_state'[a]
    BY <1>2
  <2>2. "OUT" \notin Mask(a)'
    BY <2>1 DEF Mask
  <2> QED
    BY <1>3, <2>1, <2>2 DEF Subscribed, Mask
<1>8. Gone(c) => Gone(c)'
  BY <1>1 DEF Gone, envVars, cmdVars
<1> QED
  BY <1>2, <1>3, <1>5, <1>6, <1>7, <1>8, OwnStep DEF Touch

\* ... and destroyed.
LEMMA CloseSocketCalm ==
  ASSUME App, Files, Loop, NEW c \in Conn, Calmly(c), CloseSocket(c)
  PROVE  Calmly(c)'
<1>1. pc[c] = "closeS" /\ pc'[c] = "end" /\ UNCHANGED envVars /\ "sock" \in Kinds
  BY DEF CloseSocket, At, Goto, App, TypeOK, Kinds
<1>2. fd[c]["sock"] # Null /\ fd[c]["pid"] = Null
  BY <1>1 DEF Files, HeldAt, Held, Kinds
<1> DEFINE a == fd[c]["sock"]
<1>3. /\ a \in Desc /\ Touch(c, a) /\ co[c] = "run" /\ UNCHANGED <<co, op>> /\ Fresh(c)
      /\ fd' = [fd EXCEPT ![c]["sock"] = Null] /\ coroSend'[a] = Null
  BY <1>1, <1>2, Closed DEF CloseSocket
<1>4. fd'[c]["sock"] = Null /\ fd'[c]["pid"] = Null
  BY <1>2, <1>3 DEF App, TypeOK, Kinds
<1>5. Await(c)' /\ Asked(c)'
  BY <1>1, <1>3 DEF Await, Asked, Calmly, envVars, netVars
<1>6. Stored(c)' /\ Subscribed(c)'
  <2>1. \A b \in Desc : coroSend'[b] # c
    <3>1. c # Null /\ \A b \in Desc : coroSend[b] = c => b = a
      BY DEF Stored, Calmly
    <3> HIDE DEF a
    <3> QED
      BY <1>3, <3>1 DEF Touch
  <2> QED
    BY <1>4, <2>1 DEF Stored, Subscribed
<1>7. Gone(c) => Gone(c)'
  BY <1>1 DEF Gone, envVars, cmdVars
<1> QED
  BY <1>3, <1>5, <1>6, <1>7, OwnStep DEF Touch

\* What the files of a calm client's handler are ready for.
LEMMA ReadyFor ==
  ASSUME NEW c \in Conn, Asked(c)
  PROVE  /\ "IN" \in FileReady(c, "sock") <=> inq[c] # <<>>
         /\ "OUT" \in FileReady(c, "sock") <=> Room(c)
         /\ "HUP" \notin FileReady(c, "sock")
         /\ "IN" \in FileReady(c, "rd") <=> outp[c] # <<>>
         /\ "OUT" \notin FileReady(c, "rd")
         /\ "IN" \in FileReady(c, "pid") <=> Gone(c)
         /\ "OUT" \notin FileReady(c, "pid") /\ "HUP" \notin FileReady(c, "pid")
<1>1. FileReady(c, "sock") = (IF inq[c] # <<>> THEN {"IN"} ELSE {}) \cup
                             (IF Room(c) THEN {"OUT"} ELSE {})
  BY DEF FileReady, Asked, Room
<1>2. FileReady(c, "rd") = (IF outp[c] # <<>> THEN {"IN"} ELSE {}) \cup
                           (IF child[c] \in {"exiting", "zombie", "reaped"} THEN {"HUP"} ELSE {})
  BY DEF FileReady
<1>3. FileReady(c, "pid") = IF Gone(c) THEN {"IN"} ELSE {}
  BY DEF FileReady, Gone
<1> QED
  BY <1>1, <1>2, <1>3

\* An await of the handler at its place ends; the socket's or another's.
LEMMA OwnCompleted ==
  ASSUME App, Files, Loop, NEW c \in Conn, Calmly(c), pc[c] \in {"recv", "read", "send", "wait"},
         NEW k, k = KindAt(pc[c]), NEW dir, dir = DirAt(pc[c]), Completes(c, fd[c][k], dir)
  PROVE  /\ k \in Kinds /\ fd[c][k] \in Desc
         /\ Touch(c, fd[c][k]) /\ co'[c] = "run"
         /\ io_state'[fd[c][k]] = io_state[fd[c][k]]
         /\ io_new_state'[fd[c][k]] = io_state[fd[c][k]] \ {dir}
         /\ fd[c][k] \in processedSockets' /\ UNCHANGED <<coroRecv, coroSend>>
         /\ co[c] = "woken" \/ dir \in FileReady(c, k) \/ "HUP" \in FileReady(c, k)
<1>1. k \in Kinds /\ fd[c][k] # Null
  BY DEF KindAt, Kinds, Files, HeldAt, Held
<1>2. fd[c][k] \in Desc /\ Poll[fd[c][k]] = FileReady(c, k)
  BY <1>1, PollAt
<1>3. co[c] = "woken" => op[c] = [fd |-> fd[c][k], dir |-> dir]
  BY DEF Calmly, Await
<1>4. /\ Touch(c, fd[c][k]) /\ co'[c] = "run"
      /\ io_state'[fd[c][k]] = io_state[fd[c][k]]
      /\ io_new_state'[fd[c][k]] = io_state[fd[c][k]] \ {dir}
      /\ fd[c][k] \in processedSockets' /\ UNCHANGED <<coroRecv, coroSend>>
      /\ co[c] = "woken" \/ IO!CanComplete(fd[c][k], dir)
  BY <1>2, <1>3, Completed DEF Files
<1>5. IO!CanComplete(fd[c][k], dir) => dir \in FileReady(c, k) \/ "HUP" \in FileReady(c, k)
  BY <1>2 DEF IO!CanComplete
<1> QED
  BY <1>1, <1>2, <1>4, <1>5

\* recv() returns with the message ...
LEMMA RecvTakes ==
  ASSUME App, Files, Loop, NEW c \in Conn, Calmly(c), Recv(c)
  PROVE  /\ pc[c] = "recv" /\ inq[c] # <<>>
         /\ pc'[c] = "pipe" /\ inq'[c] = <<>> /\ cl'[c] = cl[c]
<1>1. /\ pc[c] = "recv" /\ co[c] \in {"run", "woken"}
      /\ Completes(c, fd[c]["sock"], "IN") /\ KindAt(pc[c]) = "sock" /\ DirAt(pc[c]) = "IN"
  BY DEF Recv, At, KindAt, DirAt
<1>2. co[c] = "woken" \/ "IN" \in FileReady(c, "sock") \/ "HUP" \in FileReady(c, "sock")
  BY <1>1, OwnCompleted
<1>3. inq[c] # <<>>
  BY <1>1, <1>2, ReadyFor DEF Calmly, Woken
<1>4. ~ (Len(inq[c]) + 2 <= 0)
  BY DEF App, Bytes
<1>5. pc'[c] = "pipe" /\ inq'[c] = <<>> /\ cl'[c] = cl[c]
  <2>1. ~ RecvFails(c)
    BY <1>3 DEF RecvFails
  <2>2. pc' = [pc EXCEPT ![c] = "pipe"]
    <3>1. pc' = [pc EXCEPT ![c] = IF Len(inq[c]) + 2 <= 0 THEN "closeS" ELSE "pipe"]
      BY <2>1 DEF Recv, Goto
    <3> QED
      BY <1>4, <3>1
  <2>3. inq' = [inq EXCEPT ![c] = <<>>] /\ cl' = cl
    BY <2>1 DEF Recv
  <2> QED
    BY <2>2, <2>3 DEF App, TypeOK, Bytes
<1> QED
  BY <1>1, <1>3, <1>5

\* ... and leaves the socket as it should.
LEMMA RecvCalm ==
  ASSUME App, Files, Loop, NEW c \in Conn, Calmly(c), Recv(c)
  PROVE  Calmly(c)'
<1>1. /\ pc[c] = "recv" /\ co[c] \in {"run", "woken"} /\ UNCHANGED <<fd, child>>
      /\ Completes(c, fd[c]["sock"], "IN") /\ KindAt(pc[c]) = "sock" /\ DirAt(pc[c]) = "IN"
  BY DEF Recv, At, KindAt, DirAt, cmdVars
<1> DEFINE a == fd[c]["sock"]
<1>2. /\ a \in Desc /\ Touch(c, a) /\ co'[c] = "run"
      /\ io_state'[a] = io_state[a] /\ io_new_state'[a] = io_state[a] \ {"IN"}
      /\ UNCHANGED <<coroRecv, coroSend>>
  BY <1>1, OwnCompleted
<1>3. inq[c] # <<>>
  BY RecvTakes
<1>5. pc'[c] = "pipe" /\ inq'[c] = <<>> /\ cl'[c] = cl[c]
  BY RecvTakes
<1>6. Await(c)' /\ Asked(c)'
  BY <1>2, <1>3, <1>5 DEF Await, Asked, Calmly
<1>7. Stored(c)'
  <2>1. fd[c]["pid"] = Null
    BY <1>1 DEF Files, HeldAt, Held, Kinds
  <2> QED
    BY <1>1, <1>2, <2>1 DEF Stored, Calmly
<1>8. Subscribed(c)'
  <2>1. a # Null
    BY <1>2
  <2>2. "OUT" \notin io_state[a]
    BY <1>1, <2>1 DEF Calmly, Subscribed
  <2>3. "OUT" \notin io_state'[a] /\ "OUT" \notin io_new_state'[a]
    BY <1>2, <2>2
  <2>4. "OUT" \notin Mask(a)'
    BY <1>1, <2>3 DEF Mask
  <2> QED
    BY <1>1, <2>3, <2>4 DEF Subscribed, Mask
<1>9. Fresh(c) /\ (Gone(c) => Gone(c)')
  BY <1>1 DEF Fresh, Gone
<1> QED
  BY <1>1, <1>2, <1>6, <1>7, <1>8, <1>9, OwnStep DEF Touch

\* recv() and send() suspend.
LEMMA SuspendSockCalm ==
  ASSUME App, Files, Loop, NEW c \in Conn, Calmly(c),
         NEW l \in {"recv", "send"}, Suspend(c, l, "sock", DirAt(l), TRUE)
  PROVE  Calmly(c)'
<1>1. pc[c] = l /\ UNCHANGED <<pc, fd, envVars>> /\ IO!AwaitSuspend(c, fd[c]["sock"], DirAt(l), TRUE)
  BY DEF Suspend, At, appVars
<1> DEFINE a == fd[c]["sock"]
<1>2. a # Null /\ a \in Desc
  <2>1. a # Null /\ "sock" \in Kinds
    BY <1>1 DEF Files, HeldAt, Held, Kinds
  <2> QED
    BY <2>1 DEF App, TypeOK
<1>3. /\ Touch(c, a) /\ co[c] = "run" /\ co'[c] = "wait" /\ op'[c] = [fd |-> a, dir |-> DirAt(l)]
      /\ io_state'[a] = io_state[a] /\ io_new_state'[a] = io_state[a] \cup {DirAt(l)}
  <2> HIDE DEF a
  <2>1. IO!AwaitSuspend(c, a, DirAt(l), TRUE) /\ Reactor /\ c \in Conn \cup {Acceptor}
    BY <1>1 DEF Files, a
  <2>2. io_new_state'[a] = io_state[a] \cup {DirAt(l)}
    BY <1>2, <2>1, Watched
  <2>3. Touch(c, a) /\ co[c] = "run" /\ co'[c] = "wait" /\ io_state'[a] = io_state[a]
    BY <1>2, <2>1, Suspended
  <2>4. op'[c] = [fd |-> a, dir |-> DirAt(l)]
    BY <2>1 DEF IO!AwaitSuspend, Loop
  <2> QED
    BY <2>2, <2>3, <2>4
<1>4. Await(c)' /\ Asked(c)'
  <2>1. KindAt(l) = "sock"
    BY DEF KindAt
  <2> QED
    BY <1>1, <1>3, <2>1 DEF Await, Asked, Calmly, envVars, netVars
<1>5. Stored(c)'
  <2>1. \A b \in Desc : coroSend'[b] = c => b = a \/ coroSend[b] = c
    BY <1>3 DEF Touch
  <2>2. fd[c]["pid"] # Null => coroRecv'[fd[c]["pid"]] = coroRecv[fd[c]["pid"]]
    <3>1. "pid" \in Kinds /\ "sock" \in Kinds
      BY DEF Kinds
    <3>2. fd[c]["pid"] # a /\ (fd[c]["pid"] # Null => fd[c]["pid"] \in Desc)
      BY <1>2, <3>1 DEF Files, Owned, App, TypeOK
    <3> QED
      BY <1>3, <3>2 DEF Touch
  <2> QED
    BY <1>1, <1>2, <2>1, <2>2 DEF Stored, Calmly
<1>6. Subscribed(c)'
  <2>1. l = "send" => pc'[c] = "send"
    BY <1>1
  <2>2. l = "recv" => "OUT" \notin io_state'[a] /\ "OUT" \notin io_new_state'[a]
    BY <1>1, <1>2, <1>3 DEF Calmly, Subscribed, DirAt
  <2>3. l = "recv" => "OUT" \notin Mask(a)'
    BY <1>1, <2>2 DEF Mask
  <2>4. phase' = "boot" => "OUT" \notin io_state'[a]
    BY <1>2, <1>3 DEF Calmly, Subscribed, Touch
  <2> QED
    BY <1>1, <2>1, <2>2, <2>3, <2>4 DEF Subscribed, Mask
<1>7. Fresh(c) /\ (Gone(c) => Gone(c)')
  BY <1>1 DEF Fresh, Gone, envVars, cmdVars
<1> QED
  BY <1>3, <1>4, <1>5, <1>6, <1>7, OwnStep DEF Touch
\* A running handler outside its awaits keeps what it knows of its client.
LEMMA OwnRuns ==
  ASSUME NEW c \in Conn, Asked(c), co'[c] = "run", inq'[c] = inq[c], cl'[c] = cl[c],
         pc[c] \notin {"new", "attach", "recv", "dead"}
  PROVE  Await(c)' /\ Asked(c)'
BY DEF Await, Asked

\* PipedAsyncCommand::init() makes the pipes, ...
LEMMA OpenPipeCalm ==
  ASSUME App, Files, Loop, NEW c \in Conn, Calmly(c), OpenRead(c) \/ OpenWrite(c), ~ reused'
  PROVE  Calmly(c)'
<1>1. /\ pc[c] \in {"pipe", "pipeW"} /\ UNCHANGED envVars
  BY DEF OpenRead, OpenWrite, At
<1>2. ASSUME NEW k \in {"rd", "wr"}, NEW mask, NEW r, Open(c, k, mask, r)
      PROVE  Calmly(c)'
  <2>0. k \in Kinds /\ "sock" \in Kinds /\ "pid" \in Kinds /\ k # "sock" /\ k # "pid"
    BY DEF Kinds
  <2>1. PICK a \in Desc : OpenedAt(c, k, mask, a)
    BY <1>2, <2>0, Opened
  <2>2. Touch(c, a) /\ coroSend'[a] \in {coroSend[a], Null} /\ co[c] = "run" /\ co'[c] = "run"
    BY <2>1 DEF OpenedAt
  <2>3. /\ fd'[c]["sock"] = fd[c]["sock"] /\ fd'[c]["pid"] = fd[c]["pid"] /\ Fresh(c)
        /\ a # fd[c]["sock"] /\ a # fd[c]["pid"]
    BY <2>0, <2>1, OpenedFresh
  <2>4. Await(c)' /\ Asked(c)'
    BY <1>1, <2>2, OwnRuns DEF Calmly, envVars, netVars
  <2>5. UNCHANGED child
    BY <1>1 DEF envVars, cmdVars
  <2> QED
    BY <1>1, <2>2, <2>3, <2>4, <2>5, PipeStep
<1>3. CASE OpenRead(c)
  <2>1. Open(c, "rd", {"IN"}, {})
    BY <1>3 DEF OpenRead
  <2> QED
    BY <1>2, <2>1
<1>4. CASE OpenWrite(c)
  <2>1. Open(c, "wr", {"OUT"}, {"OUT"})
    BY <1>4 DEF OpenWrite
  <2> QED
    BY <1>2, <2>1
<1> QED
  BY <1>3, <1>4

\* ... the command is written to one, ...
LEMMA WritePipeCalm ==
  ASSUME App, Files, Loop, NEW c \in Conn, Calmly(c), WritePipe(c)
  PROVE  Calmly(c)'
<1>1. pc[c] = "write" /\ UNCHANGED <<netVars, child, fd>> /\ IO!AwaitDone(c, fd[c]["wr"], "OUT")
  BY DEF WritePipe, At
<1> DEFINE a == fd[c]["wr"]
<1>2. a \in Desc /\ a # fd[c]["sock"] /\ a # fd[c]["pid"] /\ Fresh(c)
  <2>1. a # Null /\ "wr" \in Kinds /\ "sock" \in Kinds /\ "pid" \in Kinds
    BY <1>1 DEF Files, HeldAt, Held, Kinds
  <2>2. a # fd[c]["sock"] /\ a # fd[c]["pid"]
    BY <2>1, OtherKind
  <2> QED
    BY <1>1, <2>1, <2>2 DEF App, TypeOK, Fresh
<1>3. /\ Touch(c, a) /\ UNCHANGED coroSend /\ co[c] = "run" /\ co'[c] = "run"
  <2>1. Touch(c, a)
    BY <1>1, <1>2, Touches DEF Files
  <2> QED
    BY <1>1, <2>1 DEF IO!AwaitDone, IO!Runs, IO!coroVars
<1>4. Await(c)' /\ Asked(c)'
  BY <1>1, <1>3, OwnRuns DEF Calmly, netVars
<1> HIDE DEF a
<1> QED
  BY <1>1, <1>2, <1>3, <1>4, PipeStep

\* ... and the ends are closed.
LEMMA ClosePipeCalm ==
  ASSUME App, Files, Loop, NEW c \in Conn, Calmly(c),
         FinishWriting(c) \/ FinishReading(c) \/ UnwindRead(c)
  PROVE  Calmly(c)'
<1>1. /\ pc[c] \in {"closeW", "closeR", "throw"} /\ UNCHANGED envVars
  BY DEF FinishWriting, FinishReading, UnwindRead, At
<1>2. \E k \in {"rd", "wr"} : Close(c, k) /\ fd[c][k] # Null
  BY DEF FinishWriting, FinishReading, UnwindRead, At, Files, HeldAt, Held, Kinds
<1>3. PICK k \in {"rd", "wr"} : Close(c, k) /\ fd[c][k] # Null
  BY <1>2
<1> DEFINE a == fd[c][k]
<1>4. k \in Kinds /\ "sock" \in Kinds /\ "pid" \in Kinds /\ k # "sock" /\ k # "pid"
  BY <1>3 DEF Kinds
<1>5. /\ a \in Desc /\ Touch(c, a) /\ co[c] = "run" /\ UNCHANGED <<co, op>>
      /\ fd' = [fd EXCEPT ![c][k] = Null] /\ coroSend'[a] = Null /\ Fresh(c)
  BY <1>3, <1>4, Closed
<1>6. fd'[c]["sock"] = fd[c]["sock"] /\ fd'[c]["pid"] = fd[c]["pid"]
  BY <1>4, <1>5 DEF App, TypeOK
<1>7. Await(c)' /\ Asked(c)'
  BY <1>1, <1>5, OwnRuns DEF Calmly, envVars, netVars
<1>8. UNCHANGED child /\ a # fd[c]["sock"] /\ a # fd[c]["pid"]
  BY <1>1, <1>3, <1>4, OtherKind DEF envVars, cmdVars
<1> HIDE DEF a
<1> QED
  BY <1>1, <1>5, <1>6, <1>7, <1>8, PipeStep

\* fork() and pidfd_open(): the pidfd has no handle in it.
LEMMA ForkCalm ==
  ASSUME App, Files, Loop, NEW c \in Conn, Calmly(c), Fork(c), ~ reused'
  PROVE  Calmly(c)'
<1>1. /\ pc[c] = "fork" /\ pc'[c] = "write" /\ UNCHANGED netVars /\ "pid" \in Kinds /\ "sock" \in Kinds
  BY DEF Fork, At, Goto, App, TypeOK, Kinds
<1>2. PICK a \in Desc : OpenedAt(c, "pid", {"IN"}, a)
  BY <1>1, Opened DEF Fork
<1>3. fd'[c]["pid"] = a /\ fd'[c]["sock"] = fd[c]["sock"] /\ Fresh(c) /\ a # fd[c]["sock"]
      /\ a # fd[c]["pid"]
  BY <1>1, <1>2, OpenedFresh
<1>4. Touch(c, a) /\ co[c] = "run" /\ co'[c] = "run" /\ coroSend'[a] = Null /\ coroRecv'[a] = Null
  BY <1>2 DEF OpenedAt
<1>5. Await(c)' /\ Asked(c)'
  BY <1>1, <1>4, OwnRuns DEF Calmly, netVars
<1>6. Stored(c)'
  <2>1. \A b \in Desc : coroSend'[b] = c => coroSend[b] = c
    <3>1. c # Null
      OBVIOUS
    <3> QED
      BY <1>4, <3>1 DEF Touch
  <2> QED
    BY <1>3, <1>4, <2>1 DEF Stored, Calmly
<1>7. Subscribed(c)'
  BY <1>1, <1>3, <1>4, SockAside DEF Calmly
<1>8. UNCHANGED <<events, half>>
  BY <1>4 DEF Touch
<1> QED
  BY <1>3, <1>4, <1>5, <1>6, <1>7, <1>8, OwnStep

\* readpipe() returns, ...
LEMMA ReadPipeCalm ==
  ASSUME App, Files, Loop, NEW c \in Conn, Calmly(c), ReadPipe(c)
  PROVE  Calmly(c)'
<1>1. /\ pc[c] = "read" /\ pc'[c] \in {"throw", "closeR", "read"} /\ co[c] \in {"run", "woken"}
      /\ UNCHANGED <<netVars, child, fd>> /\ Completes(c, fd[c]["rd"], "IN")
      /\ KindAt(pc[c]) = "rd" /\ DirAt(pc[c]) = "IN"
  BY DEF ReadPipe, At, Goto, KindAt, DirAt, App, TypeOK
<1> DEFINE a == fd[c]["rd"]
<1>2. a \in Desc /\ a # fd[c]["sock"] /\ a # fd[c]["pid"] /\ Fresh(c)
  <2>1. a # Null /\ "rd" \in Kinds /\ "sock" \in Kinds /\ "pid" \in Kinds
    BY <1>1 DEF Files, HeldAt, Held, Kinds
  <2>2. a # fd[c]["sock"] /\ a # fd[c]["pid"]
    BY <2>1, OtherKind
  <2> QED
    BY <1>1, <2>1, <2>2 DEF App, TypeOK, Fresh
<1>3. Touch(c, a) /\ UNCHANGED coroSend /\ co'[c] = "run"
  BY <1>1, OwnCompleted
<1>4. Await(c)' /\ Asked(c)'
  BY <1>1, <1>3, OwnRuns DEF Calmly, netVars
<1> HIDE DEF a
<1> QED
  BY <1>1, <1>2, <1>3, <1>4, PipeStep

\* ... or suspends.
LEMMA SuspendReadCalm ==
  ASSUME App, Files, Loop, NEW c \in Conn, Calmly(c),
         Suspend(c, "read", "rd", "IN", TRUE)
  PROVE  Calmly(c)'
<1>1. /\ pc[c] = "read" /\ UNCHANGED <<pc, fd, envVars>>
      /\ IO!AwaitSuspend(c, fd[c]["rd"], "IN", TRUE)
  BY DEF Suspend, At, appVars
<1> DEFINE a == fd[c]["rd"]
<1>2. a \in Desc /\ a # fd[c]["sock"] /\ a # fd[c]["pid"] /\ Fresh(c)
  <2>1. a # Null /\ "rd" \in Kinds /\ "sock" \in Kinds /\ "pid" \in Kinds
    BY <1>1 DEF Files, HeldAt, Held, Kinds
  <2>2. a # fd[c]["sock"] /\ a # fd[c]["pid"]
    BY <2>1, OtherKind
  <2> QED
    BY <1>1, <2>1, <2>2 DEF App, TypeOK, Fresh
<1>3. Touch(c, a) /\ UNCHANGED coroSend /\ co[c] = "run" /\ co'[c] = "wait"
  <2> HIDE DEF a
  <2>1. IO!AwaitSuspend(c, a, "IN", TRUE) /\ Reactor /\ c \in Conn \cup {Acceptor}
    BY <1>1 DEF Files, a
  <2> QED
    BY <1>2, <2>1, Suspended
<1>4. Await(c)' /\ Asked(c)'
  <2>1. op'[c] = [fd |-> a, dir |-> "IN"]
    BY <1>1 DEF IO!AwaitSuspend, Loop
  <2>2. KindAt("read") = "rd" /\ DirAt("read") = "IN"
    BY DEF KindAt, DirAt
  <2> QED
    BY <1>1, <1>3, <2>1, <2>2 DEF Await, Asked, Calmly, envVars, netVars
<1>5. UNCHANGED child
  BY <1>1 DEF envVars, cmdVars
<1> HIDE DEF a
<1> QED
  BY <1>1, <1>2, <1>3, <1>4, <1>5, PipeStep
\* socket.send() takes some of the reply.
LEMMA SendCalm ==
  ASSUME App, Files, Loop, NEW c \in Conn, Calmly(c), Send(c)
  PROVE  Calmly(c)'
<1>1. /\ pc[c] = "send" /\ pc'[c] \in {"send", "wait"} /\ co[c] \in {"run", "woken"}
      /\ UNCHANGED <<fd, child, inq>> /\ cl' = Told(c) /\ Completes(c, fd[c]["sock"], "OUT")
      /\ KindAt(pc[c]) = "sock" /\ DirAt(pc[c]) = "OUT"
  BY DEF Send, At, Goto, KindAt, DirAt, cmdVars, App, TypeOK
<1> DEFINE a == fd[c]["sock"]
<1>2. /\ a \in Desc /\ Touch(c, a) /\ co'[c] = "run"
      /\ io_state'[a] = io_state[a] /\ io_new_state'[a] = io_state[a] \ {"OUT"}
      /\ a \in processedSockets' /\ UNCHANGED <<coroRecv, coroSend>>
  BY <1>1, OwnCompleted
<1>3. cl'[c] = cl[c]
  BY <1>1 DEF Told, Asked, Calmly, App, TypeOK
<1>4. Await(c)' /\ Asked(c)'
  BY <1>1, <1>2, <1>3, OwnRuns DEF Calmly
<1>5. Stored(c)'
  BY <1>1, <1>2 DEF Stored, Calmly
<1>6. Subscribed(c)'
  <2>1. "OUT" \notin io_new_state'[a] /\ a # Null
    BY <1>2
  <2>2. "OUT" \notin Mask(a)'
    BY <1>1, <1>2, <2>1 DEF Mask
  <2>3. phase' = "boot" => "OUT" \notin io_state'[a]
    BY <1>2, <2>1 DEF Calmly, Subscribed, Touch
  <2> QED
    BY <1>1, <2>2, <2>3 DEF Subscribed, Mask
<1>7. Fresh(c) /\ (Gone(c) => Gone(c)')
  BY <1>1 DEF Fresh, Gone
<1> QED
  BY <1>1, <1>2, <1>4, <1>5, <1>6, <1>7, OwnStep DEF Touch

\* A step of the handler on the pidfd, after the command was read.
LEMMA PidStep ==
  ASSUME App, Files, Loop, NEW c \in Conn, Calmly(c), fd[c]["pid"] # Null, Touch(c, fd[c]["pid"]),
         coroSend'[fd[c]["pid"]] \in {coroSend[fd[c]["pid"]], Null},
         co[c] # "wait", co'[c] # "woken", Await(c)', Asked(c)', Fresh(c),
         pc[c] \in {"wait", "closePid", "throwPid"}, fd'[c]["sock"] = fd[c]["sock"],
         \/ pc'[c] \in {"wait", "closePid"} /\ fd'[c]["pid"] = fd[c]["pid"] /\ (Gone(c) => Gone(c)')
         \/ pc'[c] \in {"closeS", "unwound"} /\ fd'[c]["pid"] = Null,
         pc'[c] = "unwound" => pc[c] = "throwPid"
  PROVE  Calmly(c)'
<1> DEFINE a == fd[c]["pid"]
<1>1. a \in Desc /\ a # fd[c]["sock"]
  <2>1. "pid" \in Kinds /\ "sock" \in Kinds
    BY DEF Kinds
  <2> QED
    BY <2>1 DEF Files, Owned, App, TypeOK
<1>2. Subscribed(c)'
  <2> HIDE DEF a
  <2>1. Touch(c, a)
    BY DEF a
  <2> QED
    BY <1>1, <2>1, SockAside DEF Calmly
<1>3. Stored(c)'
  <2>1. \A b \in Desc : coroSend'[b] = c => coroSend[b] = c
    <3>1. c # Null /\ Touch(c, a) /\ coroSend'[a] \in {coroSend[a], Null}
      OBVIOUS
    <3> HIDE DEF a
    <3> QED
      BY <1>1, <3>1 DEF Touch
  <2> QED
    BY <2>1 DEF Calmly, Stored
<1>4. UNCHANGED <<events, half>>
  BY DEF Touch
<1> QED
  BY <1>2, <1>3, <1>4, OwnStep

\* whaitforprocesstodie() finds the child dead, or dead at last, ...
LEMMA WaitChildCalm ==
  ASSUME App, Files, Loop, NEW c \in Conn, Calmly(c), WaitChild(c)
  PROVE  Calmly(c)'
<1>1. /\ pc[c] = "wait" /\ pc'[c] = "closePid" /\ co[c] \in {"run", "woken"}
      /\ UNCHANGED <<fd, netVars>> /\ Completes(c, fd[c]["pid"], "IN")
      /\ KindAt(pc[c]) = "pid" /\ DirAt(pc[c]) = "IN" /\ fd[c]["pid"] # Null
  BY DEF WaitChild, At, Goto, KindAt, DirAt, App, TypeOK, Files, HeldAt, Held, Kinds
<1>2. Touch(c, fd[c]["pid"]) /\ co'[c] = "run" /\ UNCHANGED coroSend
  BY <1>1, OwnCompleted
<1>3. Await(c)' /\ Asked(c)'
  BY <1>1, <1>2, OwnRuns DEF Calmly, netVars
<1>4. Fresh(c) /\ (Gone(c) => Gone(c)')
  BY <1>1 DEF Fresh, Gone, WaitChild, Killed, App, TypeOK
<1> QED
  BY <1>1, <1>2, <1>3, <1>4, PidStep

\* ... or suspends until it is.
LEMMA WaitSuspendCalm ==
  ASSUME App, Files, Loop, NEW c \in Conn, Calmly(c), WaitSuspend(c)
  PROVE  Calmly(c)'
<1>1. /\ pc[c] = "wait" /\ UNCHANGED <<pc, fd, netVars>>
      /\ IO!AwaitSuspend(c, fd[c]["pid"], "IN", FALSE) /\ fd[c]["pid"] # Null
  BY DEF WaitSuspend, At, appVars, Files, HeldAt, Held, Kinds
<1> DEFINE a == fd[c]["pid"]
<1>2. a \in Desc
  BY <1>1 DEF App, TypeOK, Kinds
<1>3. Touch(c, a) /\ UNCHANGED coroSend /\ co[c] = "run" /\ co'[c] = "wait"
  <2> HIDE DEF a
  <2>1. IO!AwaitSuspend(c, a, "IN", FALSE) /\ Reactor /\ c \in Conn \cup {Acceptor}
    BY <1>1 DEF Files, a
  <2> QED
    BY <1>2, <2>1, Suspended
<1>4. Await(c)' /\ Asked(c)'
  <2>1. op'[c] = [fd |-> a, dir |-> "IN"]
    BY <1>1 DEF IO!AwaitSuspend, Loop
  <2>2. KindAt("wait") = "pid" /\ DirAt("wait") = "IN"
    BY DEF KindAt, DirAt
  <2> QED
    BY <1>1, <1>3, <2>1, <2>2 DEF Await, Asked, Calmly, netVars
<1>5. Fresh(c) /\ (Gone(c) => Gone(c)')
  BY <1>1 DEF Fresh, Gone, WaitSuspend, Killed, App, TypeOK
<1> QED
  BY <1>1, <1>3, <1>4, <1>5, PidStep

\* The pidfd is closed, after the command or by the exception.
LEMMA ClosePidCalm ==
  ASSUME App, Files, Loop, NEW c \in Conn, Calmly(c), CloseCommand(c) \/ UnwindPid(c)
  PROVE  Calmly(c)'
<1>1. /\ pc[c] \in {"closePid", "throwPid"} /\ UNCHANGED netVars /\ Close(c, "pid")
      /\ pc'[c] \in {"closeS", "unwound"} /\ (pc'[c] = "unwound" => pc[c] = "throwPid")
      /\ fd[c]["pid"] # Null /\ "pid" \in Kinds
  <2>1. /\ pc[c] \in {"closePid", "throwPid"} /\ UNCHANGED netVars /\ Close(c, "pid")
        /\ \E l \in {"closeS", "unwound"} : Goto(c, l) /\ (l = "unwound" => pc[c] = "throwPid")
    BY DEF CloseCommand, UnwindPid, At
  <2>2. pc'[c] \in {"closeS", "unwound"} /\ (pc'[c] = "unwound" => pc[c] = "throwPid")
    BY <2>1 DEF Goto, App, TypeOK
  <2>3. "pid" \in Kinds /\ "pid" \in Held(pc[c])
    BY <2>1 DEF Held, Kinds
  <2> QED
    BY <2>1, <2>2, <2>3 DEF Files, HeldAt
<1>2. /\ Touch(c, fd[c]["pid"]) /\ co[c] = "run" /\ co'[c] = "run"
      /\ fd' = [fd EXCEPT ![c]["pid"] = Null] /\ Fresh(c)
      /\ coroSend'[fd[c]["pid"]] = Null
  BY <1>1, Closed
<1>3. fd'[c]["sock"] = fd[c]["sock"] /\ fd'[c]["pid"] = Null
  BY <1>2 DEF App, TypeOK, Kinds
<1>4. Await(c)' /\ Asked(c)'
  BY <1>1, <1>2, OwnRuns DEF Calmly, netVars
<1> QED
  BY <1>1, <1>2, <1>3, <1>4, PidStep

\* The frame of echo_loop is gone and client_socket_handler() goes on: what the
\* socket stores of that frame is for EPOLLIN only.
LEMMA UnwindFrameCalm ==
  ASSUME App, Files, Loop, NEW c \in Conn, Calmly(c), UnwindFrame(c)
  PROVE  Calmly(c)'
<1>1. /\ pc[c] = "unwound" /\ pc'[c] \in {"recv", "closeS"} /\ co[c] \in {"run", "woken"}
      /\ UNCHANGED <<fd, envVars>> /\ (IO!EndFrame(c) \/ UNCHANGED ioVars)
  <2>1. /\ pc[c] = "unwound" /\ \E l \in {"recv", "closeS"} : Goto(c, l)
        /\ co[c] \in {"run", "woken"}
        /\ UNCHANGED <<fd, envVars>> /\ (IO!EndFrame(c) \/ UNCHANGED ioVars)
    BY DEF UnwindFrame, At
  <2> QED
    BY <2>1 DEF Goto, App, TypeOK
<1>2. co[c] = "run"
  BY <1>1 DEF Calmly, Await
<1>3. /\ UNCHANGED <<co, op, events, half, phase, io_state, io_new_state, processedSockets>>
      /\ \A b \in Desc : coroSend'[b] = c => coroSend[b] = c
  <2>1. CASE IO!EndFrame(c)
    <3>1. Lost # c
      OBVIOUS
    <3> QED
      BY <2>1, <3>1 DEF IO!EndFrame, IO!coroVars, IO!loopVars
  <2>2. CASE UNCHANGED ioVars
    BY <2>2 DEF ioVars, ioRest
  <2> QED
    BY <1>1, <2>1, <2>2
<1>4. Await(c)' /\ Asked(c)'
  BY <1>1, <1>2, <1>3, OwnRuns DEF Calmly, envVars, netVars
<1>5. Stored(c)'
  <2>1. fd[c]["pid"] = Null
    BY <1>1 DEF Files, HeldAt, Held, Kinds
  <2> QED
    BY <1>1, <1>3, <2>1 DEF Stored, Calmly
<1>6. Subscribed(c)'
  BY <1>1, <1>3 DEF Subscribed, Mask, Calmly
<1>7. Fresh(c) /\ (Gone(c) => Gone(c)')
  BY <1>1 DEF Fresh, Gone, envVars, cmdVars
<1> QED
  BY <1>2, <1>3, <1>4, <1>5, <1>6, <1>7, OwnStep
-----------------------------------------------------------------------------
(***************************************************************************)
(* Steps of the other handlers and of accept().                            *)
(***************************************************************************)

\* A handler takes such steps, unless it ends the process or a frame, ...
LEMMA HandlerActs ==
  ASSUME App, Files, Loop, NEW d \in Conn, Handler(d), ~ Crash(d), ~ UnwindFrame(d)
  PROVE  Acts(d)
<1>0. /\ "sock" \in Kinds /\ "rd" \in Kinds /\ "wr" \in Kinds /\ "pid" \in Kinds
  BY DEF Kinds
<1>1. ASSUME NEW k \in Kinds, k \in Held(pc[d]) PROVE fd[d][k] \in Desc
  BY <1>1 DEF Files, HeldAt, App, TypeOK
<1>2. CASE HandlerStart(d) \/ HandlerEnd(d)
  <2>1. IO!Spawn(d) \/ IO!Finish(d)
    BY <1>2 DEF HandlerStart, HandlerEnd
  <2> QED
    BY <2>1 DEF Acts
<1>3. CASE AttachSocket(d) \/ OpenRead(d) \/ OpenWrite(d) \/ Fork(d)
  <2>1. ASSUME NEW k \in Kinds, NEW mask, NEW r, Open(d, k, mask, r) PROVE Acts(d)
    <3>1. PICK a \in Home[<<d, k>>] : IO!Construct(d, a, mask, r, FALSE)
      BY <2>1 DEF Open
    <3>2. a \in Desc
      OBVIOUS
    <3> QED
      BY <3>1, <3>2 DEF Acts
  <2>2. \/ Open(d, "sock", {"IN"}, FileReady(d, "sock")) \/ Open(d, "rd", {"IN"}, {})
        \/ Open(d, "wr", {"OUT"}, {"OUT"}) \/ Open(d, "pid", {"IN"}, {})
    BY <1>3 DEF AttachSocket, OpenRead, OpenWrite, Fork
  <2> QED
    BY <1>0, <2>1, <2>2
<1>4. CASE CloseSocket(d) \/ FinishWriting(d) \/ FinishReading(d) \/ CloseCommand(d)
           \/ UnwindRead(d) \/ UnwindPid(d)
  <2>1. \/ Close(d, "sock") /\ pc[d] = "closeS"
        \/ Close(d, "wr") /\ pc[d] = "closeW"
        \/ Close(d, "rd") /\ pc[d] \in {"closeR", "throw"}
        \/ Close(d, "pid") /\ pc[d] \in {"closePid", "throwPid"}
    BY <1>4 DEF CloseSocket, FinishWriting, FinishReading, CloseCommand, UnwindRead, UnwindPid, At
  <2>2. PICK k \in Kinds : Close(d, k) /\ k \in Held(pc[d])
    BY <2>1 DEF Held, Kinds
  <2>3. fd[d][k] \in Desc /\ IO!Destroy(d, fd[d][k])
    BY <1>1, <2>2 DEF Close
  <2> QED
    BY <2>3 DEF Acts
<1>5. ASSUME NEW k \in Kinds, k \in Held(pc[d]), NEW dir,
             \/ Completes(d, fd[d][k], dir)
             \/ IO!AwaitSuspend(d, fd[d][k], dir, TRUE) \/ IO!AwaitSuspend(d, fd[d][k], dir, FALSE)
      PROVE  Acts(d)
  <2>1. fd[d][k] \in Desc
    BY <1>1, <1>5
  <2> QED
    BY <1>5, <2>1 DEF Completes, Acts
<1>6. CASE Recv(d) \/ ReadPipe(d) \/ Send(d) \/ WaitChild(d) \/ WritePipe(d)
  <2>1. \/ Completes(d, fd[d]["sock"], "IN") /\ pc[d] = "recv"
        \/ Completes(d, fd[d]["rd"], "IN") /\ pc[d] = "read"
        \/ Completes(d, fd[d]["sock"], "OUT") /\ pc[d] = "send"
        \/ Completes(d, fd[d]["pid"], "IN") /\ pc[d] = "wait"
        \/ Completes(d, fd[d]["wr"], "OUT") /\ pc[d] = "write"
    BY <1>6 DEF Recv, ReadPipe, Send, WaitChild, WritePipe, At, Completes
  <2>2. /\ pc[d] \in {"recv", "send"} => "sock" \in Held(pc[d])
        /\ pc[d] = "read" => "rd" \in Held(pc[d])
        /\ pc[d] = "wait" => "pid" \in Held(pc[d])
        /\ pc[d] = "write" => "wr" \in Held(pc[d])
    BY DEF Held, Kinds
  <2> QED
    BY <1>0, <1>5, <2>1, <2>2
<1>7. CASE \/ Suspend(d, "recv", "sock", "IN", TRUE) \/ Suspend(d, "read", "rd", "IN", TRUE)
           \/ Suspend(d, "send", "sock", "OUT", TRUE) \/ WaitSuspend(d)
  <2>1. \/ IO!AwaitSuspend(d, fd[d]["sock"], "IN", TRUE) /\ pc[d] = "recv"
        \/ IO!AwaitSuspend(d, fd[d]["rd"], "IN", TRUE) /\ pc[d] = "read"
        \/ IO!AwaitSuspend(d, fd[d]["sock"], "OUT", TRUE) /\ pc[d] = "send"
        \/ IO!AwaitSuspend(d, fd[d]["pid"], "IN", FALSE) /\ pc[d] = "wait"
    BY <1>7 DEF Suspend, WaitSuspend, At
  <2>2. /\ pc[d] \in {"recv", "send"} => "sock" \in Held(pc[d])
        /\ pc[d] = "read" => "rd" \in Held(pc[d])
        /\ pc[d] = "wait" => "pid" \in Held(pc[d])
    BY DEF Held, Kinds
  <2> QED
    BY <1>0, <1>5, <2>1, <2>2
<1> QED
  BY <1>2, <1>3, <1>4, <1>6, <1>7 DEF Handler

\* ... so it works on descriptors of its own.
LEMMA HandlerKeeps ==
  ASSUME App, Files, Loop, NEW d \in Conn, Handler(d), ~ Crash(d)
  PROVE  Keeps(d)
<1>0. Reactor /\ d \in Conn \cup {Acceptor} /\ Listen \in Desc
  BY DEF Files
<1>1. CASE UnwindFrame(d)
  <2>1. IO!EndFrame(d) \/ UNCHANGED ioVars
    BY <1>1 DEF UnwindFrame
  <2> QED
    BY <1>0, <2>1, CoroKeeps
<1>2. CASE ~ UnwindFrame(d)
  BY <1>0, <1>2, HandlerActs, ActsKeep
<1> QED
  BY <1>1, <1>2

\* What concerns c is as it was, but for the reactor.
Same(c) ==
  /\ pc'[c] = pc[c] /\ fd'[c] = fd[c] /\ cl'[c] = cl[c] /\ inq'[c] = inq[c]
  /\ outq'[c] = outq[c] /\ outp'[c] = outp[c] /\ child'[c] = child[c]

\* What a handler does to the connections of others: nothing.
LEMMA HandlerFrame ==
  ASSUME App, NEW d \in Conn, NEW c \in Conn, c # d, Handler(d), ~ Crash(d)
  PROVE  Same(c)
<1> USE DEF Same, App, TypeOK, Bytes, Goto, appVars, accVars, bufVars, envVars, netVars, cmdVars
<1>1. CASE HandlerStart(d) \/ HandlerEnd(d)
  BY <1>1 DEF HandlerStart, HandlerEnd
<1>2. CASE AttachSocket(d) \/ OpenRead(d) \/ OpenWrite(d) \/ Fork(d)
  BY <1>2 DEF AttachSocket, OpenRead, OpenWrite, Fork, Open
<1>3. CASE CloseSocket(d) \/ FinishWriting(d) \/ FinishReading(d) \/ CloseCommand(d)
           \/ UnwindRead(d) \/ UnwindPid(d)
  <2>1. CASE CloseSocket(d) \/ FinishWriting(d) \/ UnwindRead(d)
    BY <2>1 DEF CloseSocket, FinishWriting, UnwindRead, Close
  <2>2. CASE FinishReading(d) \/ CloseCommand(d)
    BY <2>2 DEF FinishReading, CloseCommand, Close
  <2>3. CASE UnwindPid(d)
    BY <2>3 DEF UnwindPid, Close
  <2> QED
    BY <1>3, <2>1, <2>2, <2>3
<1>4. CASE Recv(d) \/ Send(d) \/ UnwindFrame(d)
  <2>1. CASE Recv(d) \/ Send(d)
    BY <2>1 DEF Recv, Send, Told
  <2>2. CASE UnwindFrame(d)
    <3>1. UNCHANGED <<fd, cl, inq, outq, outp, child>> /\ \E l : pc' = [pc EXCEPT ![d] = l]
      BY <2>2 DEF UnwindFrame
    <3> QED
      BY <3>1
  <2> QED
    BY <1>4, <2>1, <2>2
<1>5. CASE ReadPipe(d) \/ WaitChild(d) \/ WritePipe(d)
  BY <1>5 DEF ReadPipe, WaitChild, WritePipe
<1>6. CASE Suspend(d, "recv", "sock", "IN", TRUE) \/ Suspend(d, "read", "rd", "IN", TRUE)
           \/ Suspend(d, "send", "sock", "OUT", TRUE) \/ WaitSuspend(d)
  BY <1>6 DEF Suspend, WaitSuspend
<1> QED
  BY <1>1, <1>2, <1>3, <1>4, <1>5, <1>6 DEF Handler

\* A calm handler stays so, whatever another does that lets the process live.
LEMMA OtherHandlerCalm ==
  ASSUME App, Files, Loop, NEW d \in Conn, NEW c \in Conn, c # d,
         Handler(d), ~ Crash(d), Calmly(c)
  PROVE  Calmly(c)'
<1>1. Keeps(d)
  BY HandlerKeeps
<1>2. Aside(c) /\ co'[c] = co[c] /\ op'[c] = op[c]
  BY <1>1, KeepsAside
<1>3. Same(c)
  BY HandlerFrame
<1>4. Grows(c) /\ Asked(c)'
  BY <1>3 DEF Same, Grows, Room, Gone, Asked, Calmly
<1> QED
  BY <1>2, <1>3, <1>4, CalmKept DEF Same

\* So do main() and accept(), ...
LEMMA AcceptActs ==
  ASSUME MainStart \/ MainListen \/ Accept \/ AcceptSuspend
  PROVE  Acts(Acceptor)
<1>0. Listen \in Desc
  OBVIOUS
<1>1. \/ IO!Spawn(Acceptor) \/ IO!Construct(Acceptor, Listen, {"IN"}, {}, TRUE)
      \/ IO!AwaitDone(Acceptor, Listen, "IN") \/ IO!AwaitResume(Acceptor)
      \/ IO!AwaitSuspend(Acceptor, Listen, "IN", TRUE)
  BY DEF MainStart, MainListen, Accept, AcceptSuspend, Completes
<1> QED
  BY <1>0, <1>1 DEF Acts

\* ... on the listening socket, ...
LEMMA AcceptKeeps ==
  ASSUME Files, Loop, MainStart \/ MainListen \/ Accept \/ AcceptSuspend
  PROVE  Keeps(Acceptor)
<1>0. Reactor /\ Acceptor \in Conn \cup {Acceptor}
  BY DEF Files
<1> QED
  BY <1>0, AcceptActs, ActsKeep

\* ... which change nothing for a handler.
LEMMA AcceptCalm ==
  ASSUME App, Files, Loop, NEW c \in Conn, Calmly(c),
         MainStart \/ MainListen \/ Accept \/ AcceptSuspend
  PROVE  Calmly(c)'
<1>1. Keeps(Acceptor)
  BY AcceptKeeps
<1>2. Aside(c) /\ co'[c] = co[c] /\ op'[c] = op[c]
  <2>1. c # Acceptor
    OBVIOUS
  <2> QED
    BY <1>1, <2>1, KeepsAside
<1>3. Same(c)
  BY DEF Same, MainStart, MainListen, Accept, AcceptSuspend, appVars, accVars, envVars, netVars, cmdVars
<1>4. Grows(c) /\ Asked(c)'
  BY <1>3 DEF Same, Grows, Room, Gone, Asked, Calmly
<1> QED
  BY <1>2, <1>3, <1>4, CalmKept DEF Same

\* Nor does a step in which nothing happens.
LEMMA StutterCalm ==
  ASSUME NEW c \in Conn, Calmly(c), UNCHANGED vars
  PROVE  Calmly(c)'
<1>1. Same(c) /\ Aside(c) /\ co'[c] = co[c] /\ op'[c] = op[c]
  BY DEF Same, Aside, vars, ioVars, ioRest, appVars, accVars, envVars, netVars, cmdVars
<1>2. Grows(c) /\ Asked(c)'
  BY <1>1 DEF Same, Grows, Room, Gone, Asked, Calmly
<1> QED
  BY <1>1, <1>2, CalmKept DEF Same

\* After the process has ended there is nothing to resume.
LEMMA CrashCalm ==
  ASSUME App, NEW d \in Conn, NEW c \in Conn, Calmly(c), Crash(d)
  PROVE  Calmly(c)'
<1>1. /\ pc'[c] = "dead" /\ \A k \in Kinds : fd'[c][k] = Null
      /\ UNCHANGED <<cl, inq>>
  BY DEF Crash
<1>2. /\ co'[c] = "idle" /\ events' = {} /\ half' = {} /\ \A a \in Desc : coroSend'[a] = Null
  BY DEF Crash, IO!AwaitFail, IO!ForAll
<1>3. Await(c)' /\ Asked(c)' /\ Woken(c)'
  BY <1>1, <1>2 DEF Await, Asked, Woken, Calmly
<1>4. Batch(c)' /\ Subscribed(c)'
  BY <1>1, <1>2 DEF Batch, Subscribed, Kinds
<1>5. Stored(c)'
  BY <1>1, <1>2 DEF Stored, Kinds
<1> QED
  BY <1>3, <1>4, <1>5 DEF Calmly
-----------------------------------------------------------------------------
(***************************************************************************)
(* Steps of the clients and of the children.                               *)
(***************************************************************************)

\* The kernel takes note of what they do, and no more.
LEMMA SignalAside ==
  ASSUME NEW a, NEW F, Signal(a, F), UNCHANGED <<pc, fd>>, NEW c \in Conn
  PROVE  Aside(c) /\ co'[c] = co[c] /\ op'[c] = op[c] /\ pc'[c] = pc[c] /\ fd'[c] = fd[c]
BY DEF Signal, IO!Arrive, IO!afdVars, IO!loopVars, IO!coroVars, ioVars, ioRest, Aside

\* The client of c sends its message once, and reads; ...
LEMMA ClientGrows ==
  ASSUME App, NEW c \in Calm, Asked(c), ClientStep(c)
  PROVE  Asked(c)' /\ Grows(c)
<1>0. c \in Conn /\ Faults[c] = {}
  BY DEF Calm
<1> USE DEF App, TypeOK, Bytes
<1>1. CASE Connect(c)
  <2>1. cl[c] = "none" /\ cl'[c] = "open" /\ UNCHANGED <<pc, inq, outq, outp, child>>
    BY <1>0, <1>1 DEF Connect, appVars, cmdVars
  <2> QED
    BY <2>1 DEF Asked, Grows, Room, Gone
<1>2. CASE ClientSend(c, Payload[c], "open", "sent")
  <2>1. /\ cl[c] = "open" /\ cl'[c] = "sent" /\ UNCHANGED <<pc, outq, outp, child>>
    BY <1>0, <1>2 DEF ClientSend, appVars, cmdVars
  <2>2. inq[c] = <<>>
    BY <2>1 DEF Asked
  <2> QED
    BY <2>1, <2>2 DEF Asked, Grows, Room, Gone
<1>3. CASE ClientRead(c)
  <2>1. outq'[c] = <<>> /\ UNCHANGED <<pc, cl, inq, outp, child>>
    BY <1>0, <1>3 DEF ClientRead, appVars, cmdVars
  <2>2. Len(outq[c]) \in Nat
    BY <1>0
  <2>3. Room(c) => Room(c)'
    BY <2>1, <2>2 DEF Room
  <2> QED
    BY <2>1, <2>3 DEF Asked, Grows, Gone
<1> QED
  BY <1>0, <1>1, <1>2, <1>3 DEF ClientStep

\* ... its child only writes and dies.
LEMMA ChildGrows ==
  ASSUME App, NEW c \in Conn, Asked(c), Child(c)
  PROVE  Asked(c)' /\ Grows(c)
<1>1. UNCHANGED <<pc, cl, inq, outq>>
  BY DEF Child, ChildEcho, ChildCopy, ChildEof, ChildExit, appVars, netVars
<1>2. \E s \in Seq(Byte) : outp'[c] = outp[c] \o s
  <2>1. CASE ChildEcho(c)
    BY <2>1, PayloadBytes DEF ChildEcho, App, Bytes
  <2>2. CASE ChildCopy(c)
    BY <2>2 DEF ChildCopy, App, Bytes
  <2>3. CASE UNCHANGED outp
    <3>1. outp'[c] = outp[c] \o <<>> /\ <<>> \in Seq(Byte)
      BY <2>3 DEF App, Bytes
    <3> QED
      BY <3>1
  <2> QED
    BY <2>1, <2>2, <2>3 DEF Child, ChildEof, ChildExit
<1>3. outp[c] # <<>> => outp'[c] # <<>>
  <2>1. outp[c] \in Seq(Byte)
    BY DEF App, Bytes
  <2> QED
    BY <1>2, <2>1
<1>4. Gone(c) => Gone(c)'
  BY DEF Gone, Child, ChildEcho, ChildCopy, ChildEof, ChildExit, App, TypeOK
<1> QED
  BY <1>1, <1>3, <1>4 DEF Asked, Grows, Room

\* The clients and the children of others have nothing to do with c.
LEMMA OthersSame ==
  ASSUME App, NEW d \in Conn, NEW c \in Conn, c # d, ClientStep(d) \/ Child(d)
  PROVE  Same(c)
<1> USE DEF App, TypeOK, Bytes, Same, appVars, netVars, cmdVars
<1>1. CASE ClientStep(d)
  BY <1>1 DEF ClientStep, Connect, ClientSend, ClientReset, ClientRead
<1>2. CASE Child(d)
  BY <1>2 DEF Child, ChildEcho, ChildCopy, ChildEof, ChildExit
<1> QED
  BY <1>1, <1>2

\* A calm handler stays so.
LEMMA EnvironmentCalm ==
  ASSUME App, NEW d \in Conn, NEW c \in Calm, Calmly(c), ClientStep(d) \/ Child(d)
  PROVE  Calmly(c)'
<1>0. c \in Conn /\ Asked(c)
  BY DEF Calm, Calmly
<1>1. UNCHANGED <<pc, fd>> /\ \E a, F : Signal(a, F)
  BY DEF ClientStep, Connect, ClientSend, ClientReset, ClientRead,
         Child, ChildEcho, ChildCopy, ChildEof, ChildExit, appVars
<1>2. Aside(c) /\ co'[c] = co[c] /\ op'[c] = op[c] /\ pc'[c] = pc[c] /\ fd'[c] = fd[c]
  BY <1>0, <1>1, SignalAside
<1>3. Asked(c)' /\ Grows(c)
  <2>1. CASE c = d
    BY <1>0, <2>1, ClientGrows, ChildGrows
  <2>2. CASE c # d
    <3>1. Same(c)
      BY <1>0, <2>2, OthersSame
    <3> QED
      BY <1>0, <3>1 DEF Same, Grows, Room, Gone, Asked
  <2> QED
    BY <2>1, <2>2
<1> QED
  BY <1>0, <1>2, <1>3, CalmKept
-----------------------------------------------------------------------------
(***************************************************************************)
(* Steps of run().                                                         *)
(***************************************************************************)

\* A handler with a descriptor is suspended where it waits, if nobody runs.
LEMMA Settled ==
  ASSUME Files, NEW c \in Conn, Await(c), NEW k \in Kinds, fd[c][k] # Null,
         co[c] \notin {"run", "woken"}
  PROVE  co[c] = "wait" /\ pc[c] \in {"recv", "read", "send", "wait"} /\ k \in Held(pc[c])
<1>1. k \in Held(pc[c])
  BY DEF Files, HeldAt
<1>2. co[c] \in {"idle", "wait"}
  BY DEF Files, Reactor
<1> QED
  BY <1>1, <1>2 DEF Files, IdleBare, Await

\* epoll_wait reports what is true.
LEMMA ReportTrue ==
  ASSUME App, Files, Loop, NEW c \in Conn, Calmly(c),
         co[c] \notin {"run", "woken"}, phase \in {"boot", "wait"},
         NEW e, e.ptr \in ready, e.ev = IO!Reported(Poll[e.ptr], interest[e.ptr]), e.ev # {}
  PROVE  EventTrue(c, e)
<1> DEFINE a == e.ptr
<1>1. a \in Desc /\ a # Null /\ interest[a] = io_state[a]
  BY DEF Loop
<1>2. ASSUME NEW k \in Kinds, a = fd[c][k]
      PROVE  /\ Poll[a] = FileReady(c, k) /\ e.ev \subseteq FileReady(c, k)
             /\ co[c] = "wait" /\ pc[c] \in {"recv", "read", "send", "wait"} /\ k \in Held(pc[c])
  <2>1. fd[c][k] # Null
    BY <1>1, <1>2
  <2>2. Poll[a] = FileReady(c, k)
    BY <1>2, <2>1, PollAt
  <2> QED
    BY <2>1, <2>2, Settled DEF Calmly, IO!Reported
<1>3. ASSUME a = fd[c]["sock"], "IN" \in e.ev
      PROVE  pc[c] = "recv" /\ co[c] = "wait" /\ inq[c] # <<>>
  <2>1. "sock" \in Kinds
    BY DEF Kinds
  <2>2. inq[c] # <<>> /\ pc[c] \in {"recv", "read", "send", "wait"} /\ co[c] = "wait"
    BY <1>2, <1>3, <2>1, ReadyFor DEF Calmly
  <2>3. pc[c] = "recv"
    BY <2>2 DEF Calmly, Asked
  <2> QED
    BY <2>2, <2>3
<1>4. ASSUME a = fd[c]["sock"], "OUT" \in e.ev
      PROVE  pc[c] = "send" /\ co[c] = "wait" /\ Room(c)
  <2>1. "sock" \in Kinds /\ "OUT" \in io_state[a]
    BY <1>1, <1>4 DEF Kinds, IO!Reported
  <2>2. co[c] = "wait" /\ Room(c)
    BY <1>2, <1>4, <2>1, ReadyFor DEF Calmly
  <2>3. phase # "boot" => Mask(a) = io_state[a]
    BY DEF Loop, Mask
  <2>4. pc[c] = "send"
    BY <1>1, <1>4, <2>1, <2>3 DEF Calmly, Subscribed
  <2> QED
    BY <2>2, <2>4
<1>5. ASSUME a = fd[c]["rd"]
      PROVE  pc[c] = "read" /\ co[c] = "wait" /\ ("IN" \in e.ev => outp[c] # <<>>)
  <2>1. "rd" \in Kinds
    BY DEF Kinds
  <2>2. pc[c] = "read" /\ co[c] = "wait"
    BY <1>2, <1>5, <2>1 DEF Held
  <2>3. "IN" \in e.ev => outp[c] # <<>>
    BY <1>2, <1>5, <2>1, ReadyFor DEF Calmly
  <2> QED
    BY <2>2, <2>3
<1>6. ASSUME a = fd[c]["pid"]
      PROVE  Gone(c)
  <2>1. "pid" \in Kinds
    BY DEF Kinds
  <2>2. FileReady(c, "pid") # {}
    BY <1>2, <1>6, <2>1
  <2> QED
    BY <2>2 DEF FileReady, Gone
<1>7. a # fd[c]["wr"]
  <2>1. "wr" \in Kinds
    BY DEF Kinds
  <2> QED
    BY <1>2, <2>1 DEF Held
<1> QED
  BY <1>3, <1>4, <1>5, <1>6, <1>7 DEF EventTrue

\* So do the events of a new batch.
LEMMA EpollWaitCalm ==
  ASSUME App, Files, Loop, NEW c \in Conn, Calmly(c), Same(c), IO!EpollWait
  PROVE  Calmly(c)'
<1>1. /\ UNCHANGED <<half, co, op, io_state, io_new_state, coroRecv, coroSend, processedSockets>>
      /\ phase' = "dispatch" /\ phase \in {"boot", "wait"} /\ co[c] \notin {"run", "woken"}
  BY DEF IO!EpollWait, IO!afdVars, IO!coroVars, IO!Running
<1>2. ASSUME NEW e \in events'
      PROVE  e.ptr \in ready /\ e.ev = IO!Reported(Poll[e.ptr], interest[e.ptr]) /\ e.ev # {}
  BY <1>2 DEF IO!EpollWait
<1>3. Batch(c)'
  <2>1. ASSUME NEW e \in events' PROVE EventTrue(c, e)'
    <3>1. EventTrue(c, e)
      BY <1>1, <1>2, ReportTrue
    <3> QED
      BY <1>1, <3>1 DEF EventTrue, Room, Gone, Same
  <2>2. half = {}
    BY <1>1 DEF Loop
  <2> QED
    BY <1>1, <2>1, <2>2 DEF Batch
<1>4. Await(c)' /\ Asked(c)' /\ Stored(c)' /\ Woken(c)'
  BY <1>1 DEF Await, Asked, Stored, Woken, Calmly, Same
<1>5. Subscribed(c)'
  BY <1>1 DEF Subscribed, Calmly, Same, Mask
<1> QED
  BY <1>3, <1>4, <1>5 DEF Calmly

\* An event for no object is dropped.
LEMMA DispatchUnmanagedCalm ==
  ASSUME NEW c \in Conn, Calmly(c), Same(c), NEW e, IO!DispatchUnmanaged(e)
  PROVE  Calmly(c)'
<1>1. Aside(c) /\ co'[c] = co[c] /\ op'[c] = op[c]
  BY DEF IO!DispatchUnmanaged, IO!afdVars, IO!coroVars, Aside
<1>2. Grows(c) /\ Asked(c)'
  BY DEF Same, Grows, Room, Gone, Asked, Calmly
<1> QED
  BY <1>1, <1>2, CalmKept DEF Same

\* The masks that operations asked for are put in force.
LEMMA ApplyModCalm ==
  ASSUME App, Loop, NEW c \in Conn, Calmly(c), Same(c), IO!ApplyMod
  PROVE  Calmly(c)'
<1>1. /\ UNCHANGED <<half, events, co, op, io_new_state, coroRecv, coroSend, processedSockets>>
      /\ phase' # "boot" /\ events = {} /\ half = {}
  BY DEF IO!ApplyMod, IO!coroVars
<1>2. Batch(c)'
  BY <1>1 DEF Batch
<1>3. Await(c)' /\ Asked(c)' /\ Stored(c)' /\ Woken(c)'
  BY <1>1 DEF Await, Asked, Stored, Woken, Calmly, Same, Room, Gone
<1>4. Subscribed(c)'
  <2> DEFINE a == fd[c]["sock"]
  <2>1. a # Null => a \in Desc
    BY DEF App, TypeOK, Kinds
  <2>2. a \in Desc => io_state'[a] \in {io_state[a], io_new_state[a]}
                      /\ (a \notin processedSockets => io_state'[a] = io_state[a])
    BY DEF IO!ApplyMod
  <2>3. fd'[c]["sock"] = a /\ pc'[c] = pc[c]
    BY DEF Same
  <2> HIDE DEF a
  <2>4. a \in Desc => Mask(a) = IF a \in processedSockets' THEN io_new_state'[a] ELSE io_state'[a]
    BY <1>1, <2>2 DEF Mask
  <2>5. a # Null =>
          /\ pc[c] \notin {"send", "wait", "closePid", "closeS"} =>
               "OUT" \notin io_state[a] /\ "OUT" \notin io_new_state[a]
          /\ pc[c] # "send" => "OUT" \notin Mask(a)
    BY DEF Subscribed, Calmly, a
  <2> QED
    BY <1>1, <2>1, <2>2, <2>3, <2>4, <2>5 DEF Subscribed, Mask
<1> QED
  BY <1>2, <1>3, <1>4 DEF Calmly
\* run() resumes handlers and changes nothing else of what is known of them.
LEMMA ResumeCalm ==
  ASSUME NEW c \in Conn, Calmly(c), Same(c),
         UNCHANGED <<op, io_state, io_new_state, coroRecv, coroSend, processedSockets>>,
         phase' # "boot", co'[c] = co[c] \/ (co[c] = "wait" /\ co'[c] = "woken"),
         Batch(c)', Woken(c)'
  PROVE  Calmly(c)'
<1>1. Await(c)' /\ Asked(c)' /\ Stored(c)'
  BY DEF Await, Asked, Stored, Calmly, Same
<1>2. Subscribed(c)'
  BY DEF Subscribed, Calmly, Same, Mask
<1> QED
  BY <1>1, <1>2 DEF Calmly

\* resumeRecv(): the event is the handler's, and it waits for it.
LEMMA WakeIn ==
  ASSUME App, Files, Loop, OneEach, NEW c \in Conn, Calmly(c), Same(c),
         NEW e \in events, e.ptr \in managed_fd, "IN" \in e.ev, coroRecv[e.ptr] = c,
         co[c] = "wait", co'[c] = "woken", events' = events \ {e}, half' = IO!OutTest(e)
  PROVE  Batch(c)' /\ Woken(c)'
<1>1. e.ptr \in Desc /\ owner[e.ptr] = c
  <2>1. c # Null
    OBVIOUS
  <2> QED
    BY <2>1 DEF Loop
<1>2. PICK k \in Kinds : fd[c][k] = e.ptr
  BY <1>1 DEF Files, Accounted
<1>3. fd[c][k] # Null /\ e.ptr = fd[c][k]
  BY <1>1, <1>2
<1>4. EventTrue(c, e) /\ \A f \in events : EventTrue(c, f)
  BY DEF Calmly, Batch
<1>5. pc[c] \in {"recv", "read", "send", "wait"}
  BY DEF Calmly, Await
<1>6. \/ k = "sock" /\ pc[c] = "recv" /\ inq[c] # <<>>
      \/ k = "rd" /\ pc[c] = "read" /\ outp[c] # <<>>
      \/ k = "pid" /\ pc[c] = "wait" /\ Gone(c)
  <2>1. CASE k = "sock"
    BY <1>3, <1>4, <2>1 DEF EventTrue
  <2>2. CASE k = "rd"
    BY <1>3, <1>4, <2>2 DEF EventTrue
  <2>3. CASE k = "pid"
    <3>1. pc[c] \in {"wait", "closePid"}
      <4>1. fd[c]["pid"] # Null /\ coroRecv[fd[c]["pid"]] # Null
        BY <1>2, <1>3, <2>3
      <4> QED
        BY <4>1 DEF Calmly, Stored
    <3>2. Gone(c)
      BY <1>3, <1>4, <2>3 DEF EventTrue
    <3> QED
      BY <1>5, <2>3, <3>1, <3>2
  <2>4. k # "wr"
    BY <1>3, <1>4 DEF EventTrue
  <2> QED
    BY <2>1, <2>2, <2>3, <2>4 DEF Kinds
<1>7. Woken(c)'
  BY <1>6 DEF Woken, Same, Gone
<1>8. ASSUME NEW f \in events' PROVE EventTrue(c, f)'
  <2>1. f \in events /\ f.ptr # e.ptr /\ EventTrue(c, f)
    BY <1>4, <1>8 DEF OneEach
  <2>2. pc[c] = "send" => FALSE
    BY <1>6
  <2>3. pc[c] = "recv" => e.ptr = fd[c]["sock"]
    BY <1>2, <1>6
  <2>4. pc[c] = "read" => e.ptr = fd[c]["rd"]
    BY <1>2, <1>6
  <2>5. /\ f.ptr = fd[c]["sock"] => "IN" \notin f.ev /\ "OUT" \notin f.ev
        /\ f.ptr # fd[c]["rd"] /\ f.ptr # fd[c]["wr"] /\ (f.ptr = fd[c]["pid"] => Gone(c))
    BY <2>1, <2>2, <2>3, <2>4 DEF EventTrue
  <2>6. fd'[c] = fd[c] /\ (Gone(c) => Gone(c)')
    BY DEF Same, Gone
  <2> QED
    BY <2>5, <2>6 DEF EventTrue
<1>9. ASSUME NEW a \in half' PROVE HalfTrue(c, a)'
  <2>1. a = e.ptr /\ "OUT" \in e.ev
    BY <1>9 DEF IO!OutTest
  <2>2. a # fd[c]["sock"]
    BY <1>4, <1>6, <2>1 DEF EventTrue
  <2> QED
    BY <2>2 DEF HalfTrue, Same
<1> QED
  BY <1>7, <1>8, <1>9 DEF Batch

\* The EPOLLIN part of an event keeps a handler calm, resumed or not.
LEMMA DispatchInCalm ==
  ASSUME App, Files, Loop, OneEach, NEW c \in Conn, Calmly(c), Same(c),
         NEW e, IO!DispatchIn(e)
  PROVE  Calmly(c)'
<1>1. /\ UNCHANGED <<op, io_state, io_new_state, coroRecv, coroSend, processedSockets>>
      /\ phase' # "boot" /\ e \in events /\ e.ptr \in managed_fd /\ events' = events \ {e} /\ half' = IO!OutTest(e)
      /\ co' = IF "IN" \in e.ev THEN IO!Resume(coroRecv[e.ptr]) ELSE co
      /\ co[c] \notin {"run", "woken"}
  BY DEF IO!DispatchIn, IO!Running, IO!Managed
<1>2. CASE "IN" \in e.ev /\ coroRecv[e.ptr] = c /\ co[c] = "wait"
  <2>1. co'[c] = "woken"
    BY <1>1, <1>2 DEF IO!Resume, Files, Reactor
  <2>2. Batch(c)' /\ Woken(c)'
    BY <1>1, <1>2, <2>1, WakeIn
  <2> QED
    BY <1>1, <1>2, <2>1, <2>2, ResumeCalm
<1>3. CASE ~ ("IN" \in e.ev /\ coroRecv[e.ptr] = c /\ co[c] = "wait")
  <2>1. co'[c] = co[c]
    BY <1>1, <1>3 DEF IO!Resume, Files, Reactor
  <2>2. ASSUME NEW f \in events' PROVE EventTrue(c, f)'
    <3>1. EventTrue(c, f)
      BY <1>1, <2>2 DEF Calmly, Batch
    <3> QED
      BY <2>1, <3>1 DEF EventTrue, Room, Gone, Same
  <2>3. ASSUME NEW a \in half' PROVE HalfTrue(c, a)'
    <3>1. EventTrue(c, e) /\ a = e.ptr /\ "OUT" \in e.ev
      BY <1>1, <2>3 DEF Calmly, Batch, IO!OutTest
    <3> QED
      BY <2>1, <3>1 DEF EventTrue, HalfTrue, Room, Same
  <2>4. Woken(c)'
    BY <1>1, <2>1 DEF Woken
  <2> QED
    BY <1>1, <2>1, <2>2, <2>3, <2>4, ResumeCalm DEF Batch
<1> QED
  BY <1>2, <1>3

\* resumeSend(): the handle is that of a handler that sends.
LEMMA DispatchOutCalm ==
  ASSUME App, Files, Loop, OneEach, NEW c \in Conn, Calmly(c), Same(c),
         NEW a, IO!DispatchOut(a)
  PROVE  Calmly(c)'
<1>1. /\ UNCHANGED <<events, op, io_state, io_new_state, coroRecv, coroSend, processedSockets>>
      /\ phase' # "boot" /\ a \in half /\ half' = half \ {a} /\ co[c] \notin {"run", "woken"}
      /\ co' = IO!Resume(coroSend[a]) \/ co' = co
  BY DEF IO!DispatchOut, IO!Running, IO!afdVars
<1>2. CASE coroSend[a] = c /\ co[c] = "wait" /\ co' = IO!Resume(coroSend[a])
  <2>1. co'[c] = "woken" /\ a \in Desc
    BY <1>1, <1>2 DEF IO!Resume, Files, Reactor, Loop
  <2>2. a = fd[c]["sock"]
    BY <1>2, <2>1 DEF Calmly, Stored
  <2>3. a = fd[c]["sock"] /\ pc[c] = "send" /\ Room(c)
    BY <1>1, <2>2 DEF Calmly, Batch, HalfTrue
  <2>4. Woken(c)'
    BY <2>3 DEF Woken, Same, Room
  <2>5. ASSUME NEW f \in events' PROVE EventTrue(c, f)'
    <3>1. EventTrue(c, f) /\ f.ptr # a
      BY <1>1, <2>5 DEF Calmly, Batch, OneEach
    <3>2. /\ f.ptr # fd[c]["sock"] /\ f.ptr # fd[c]["rd"] /\ f.ptr # fd[c]["wr"]
          /\ f.ptr = fd[c]["pid"] => Gone(c)
      BY <2>3, <3>1 DEF EventTrue
    <3>3. fd'[c] = fd[c] /\ (Gone(c) => Gone(c)')
      BY DEF Same, Gone
    <3> QED
      BY <3>2, <3>3 DEF EventTrue
  <2>6. ASSUME NEW b \in half' PROVE HalfTrue(c, b)'
    <3>1. HalfTrue(c, b) /\ b # a
      BY <1>1, <2>6 DEF Calmly, Batch
    <3> QED
      BY <2>3, <3>1 DEF HalfTrue, Same
  <2> QED
    BY <1>1, <1>2, <2>1, <2>4, <2>5, <2>6, ResumeCalm DEF Batch
<1>3. CASE ~ (coroSend[a] = c /\ co[c] = "wait" /\ co' = IO!Resume(coroSend[a]))
  <2>1. co'[c] = co[c]
    BY <1>1, <1>3 DEF IO!Resume, Files, Reactor
  <2>2. ASSUME NEW f \in events' PROVE EventTrue(c, f)'
    <3>1. EventTrue(c, f)
      BY <1>1, <2>2 DEF Calmly, Batch
    <3> QED
      BY <2>1, <3>1 DEF EventTrue, Room, Gone, Same
  <2>3. ASSUME NEW b \in half' PROVE HalfTrue(c, b)'
    <3>1. HalfTrue(c, b)
      BY <1>1, <2>3 DEF Calmly, Batch
    <3> QED
      BY <2>1, <3>1 DEF HalfTrue, Room, Same
  <2>4. Woken(c)'
    BY <1>1, <2>1 DEF Woken
  <2> QED
    BY <1>1, <2>1, <2>2, <2>3, <2>4, ResumeCalm DEF Batch
<1> QED
  BY <1>2, <1>3

\* run() keeps a handler calm.
LEMMA RunCalm ==
  ASSUME App, Files, Loop, OneEach, NEW c \in Conn, Calmly(c), Run
  PROVE  Calmly(c)'
<1>1. Same(c)
  BY DEF Same, Run, appVars, envVars, netVars, cmdVars
<1>2. IO!RunStep
  BY DEF Run
<1>3. CASE IO!EpollWait
  BY <1>1, <1>3, EpollWaitCalm
<1>4. CASE IO!ApplyMod
  BY <1>1, <1>4, ApplyModCalm
<1>5. ASSUME NEW e \in events, IO!DispatchUnmanaged(e) \/ IO!DispatchIn(e) PROVE Calmly(c)'
  BY <1>1, <1>5, DispatchUnmanagedCalm, DispatchInCalm
<1>6. ASSUME NEW a \in half, IO!DispatchOut(a) PROVE Calmly(c)'
  BY <1>1, <1>6, DispatchOutCalm
<1> QED
  BY <1>2, <1>3, <1>4, <1>5, <1>6 DEF IO!RunStep
-----------------------------------------------------------------------------
(***************************************************************************)
(* The invariant.                                                          *)
(***************************************************************************)

\* The handler of a calm client, by its own steps.
LEMMA HandlerCalm ==
  ASSUME App, Files, Loop, Queue, NEW c \in Conn, Calmly(c), Handler(c), ~ reused'
  PROVE  Calmly(c)'
<1>1. CASE \/ Suspend(c, "recv", "sock", "IN", TRUE) \/ Suspend(c, "send", "sock", "OUT", TRUE)
  <2>1. DirAt("recv") = "IN" /\ DirAt("send") = "OUT"
    BY DEF DirAt
  <2> QED
    BY <1>1, <2>1, SuspendSockCalm
<1>2. CASE HandlerStart(c) \/ AttachSocket(c) \/ CloseSocket(c) \/ HandlerEnd(c)
  BY <1>2, StartCalm, AttachCalm, CloseSocketCalm, EndCalm
<1>3. CASE Recv(c) \/ Send(c) \/ ReadPipe(c) \/ Suspend(c, "read", "rd", "IN", TRUE)
  BY <1>3, RecvCalm, SendCalm, ReadPipeCalm, SuspendReadCalm
<1>4. CASE OpenRead(c) \/ OpenWrite(c) \/ Fork(c) \/ WritePipe(c)
  BY <1>4, OpenPipeCalm, ForkCalm, WritePipeCalm
<1>5. CASE FinishWriting(c) \/ FinishReading(c) \/ UnwindRead(c)
  BY <1>5, ClosePipeCalm
<1>6. CASE WaitChild(c) \/ WaitSuspend(c) \/ CloseCommand(c) \/ UnwindPid(c) \/ UnwindFrame(c)
  BY <1>6, WaitChildCalm, WaitSuspendCalm, ClosePidCalm, UnwindFrameCalm
<1>7. CASE Crash(c)
  BY <1>7, CrashCalm
<1> QED
  BY <1>1, <1>2, <1>3, <1>4, <1>5, <1>6, <1>7 DEF Handler

\* What was used again stays so.
LEMMA ReusedStays ==
  ASSUME [Next]_vars, ~ reused'
  PROVE  ~ reused
<1>1. CASE UNCHANGED reused
  BY <1>1, Zenon
<1>2. ASSUME NEW d \in Conn, Handler(d) PROVE ~ reused
  <2>1. UNCHANGED reused \/ \E k, mask, r : Open(d, k, mask, r)
    BY <1>2 DEF Handler, HandlerStart, AttachSocket, CloseSocket, HandlerEnd, Recv, Suspend,
                OpenRead, OpenWrite, Fork, WritePipe, FinishWriting, ReadPipe, FinishReading,
                Send, WaitChild, WaitSuspend, CloseCommand, UnwindRead, UnwindPid, UnwindFrame,
                Crash, Close, appVars, Kinds
  <2>2. ASSUME NEW k, NEW mask, NEW r, Open(d, k, mask, r) PROVE ~ reused
    BY <2>2 DEF Open
  <2> QED
    BY <1>1, <2>1, <2>2
<1>3. ASSUME NEW d \in Conn, ClientStep(d) \/ Child(d) PROVE UNCHANGED reused
  BY <1>3 DEF ClientStep, Connect, ClientSend, ClientReset, ClientRead,
              Child, ChildEcho, ChildCopy, ChildEof, ChildExit, appVars
<1>4. CASE MainStart \/ MainListen \/ Accept \/ AcceptSuspend \/ Run \/ Idle \/ UNCHANGED vars
  BY <1>1, <1>4 DEF MainStart, MainListen, Accept, AcceptSuspend, Run, Idle, vars, appVars
<1> QED
  BY <1>1, <1>2, <1>3, <1>4 DEF Next

\* It stays calm in every step of the system.
LEMMA CalmInv ==
  ASSUME App, Files, Loop, WInv, [Next]_vars, ~ reused', NEW c \in Calm
  PROVE  Calmly(c)'
<1>0. c \in Conn /\ Calmly(c) /\ OneEach /\ Queue
  BY ReusedStays DEF Calm, WInv
<1>1. CASE MainStart \/ MainListen \/ Accept \/ AcceptSuspend
  BY <1>0, <1>1, AcceptCalm
<1>2. CASE Run
  BY <1>0, <1>2, RunCalm
<1>3. ASSUME NEW d \in Conn, Handler(d) PROVE Calmly(c)'
  <2>1. CASE d = c
    BY <1>0, <1>3, <2>1, HandlerCalm
  <2>2. CASE Crash(d)
    BY <1>0, <2>2, CrashCalm
  <2>3. CASE d # c /\ ~ Crash(d)
    BY <1>0, <1>3, <2>3, OtherHandlerCalm
  <2> QED
    BY <2>1, <2>2, <2>3
<1>4. ASSUME NEW d \in Conn, ClientStep(d) \/ Child(d) PROVE Calmly(c)'
  BY <1>0, <1>4, EnvironmentCalm
<1>5. CASE Idle \/ UNCHANGED vars
  BY <1>0, <1>5, StutterCalm DEF Idle
<1> QED
  BY <1>1, <1>2, <1>3, <1>4, <1>5 DEF Next

\* The descriptors of the connections are on the heap.
LEMMA ApartInv ==
  ASSUME App, Apart, [Next]_vars
  PROVE  Apart'
<1>1. CASE UNCHANGED fd
  BY <1>1 DEF Apart
<1>2. ASSUME NEW d \in Conn, NEW k \in Kinds, NEW a, a # Listen,
             fd' = [fd EXCEPT ![d][k] = a]
      PROVE  Apart'
  <2>1. fd \in [Conn -> [Kinds -> Desc \cup {Null}]]
    BY DEF App, TypeOK
  <2>2. ASSUME NEW c \in Conn, NEW j \in Kinds PROVE fd'[c][j] = IF c = d /\ j = k THEN a ELSE fd[c][j]
    BY <1>2, <2>1
  <2> QED
    BY <1>2, <2>2 DEF Apart
<1>3. CASE fd' = [d \in Conn |-> [k \in Kinds |-> Null]]
  <2>1. Listen # Null
    OBVIOUS
  <2> QED
    BY <1>3, <2>1 DEF Apart
<1>4. ASSUME NEW d \in Conn, NEW k \in Kinds, Close(d, k) \/ \E mask, r : Open(d, k, mask, r)
      PROVE  Apart'
  <2>1. Listen # Null
    OBVIOUS
  <2> QED
    BY <1>2, <1>4, <2>1 DEF Close, Open
<1>5. ASSUME NEW d \in Conn, Handler(d) PROVE Apart'
  <2>1. \/ UNCHANGED fd
        \/ \E k \in Kinds : Close(d, k) \/ \E mask, r : Open(d, k, mask, r)
        \/ fd' = [e \in Conn |-> [k \in Kinds |-> Null]]
    BY <1>5 DEF Handler, HandlerStart, AttachSocket, CloseSocket, HandlerEnd, Recv, Suspend,
                OpenRead, OpenWrite, Fork, WritePipe, FinishWriting, ReadPipe, FinishReading,
                Send, WaitChild, WaitSuspend, CloseCommand, UnwindRead, UnwindPid, UnwindFrame, Crash,
                appVars, Kinds
  <2> QED
    BY <1>1, <1>3, <1>4, <2>1
<1>6. ASSUME NEW d \in Conn, ClientStep(d) \/ Child(d) PROVE UNCHANGED fd
  BY <1>6 DEF ClientStep, Connect, ClientSend, ClientReset, ClientRead,
              Child, ChildEcho, ChildCopy, ChildEof, ChildExit, appVars
<1>7. CASE MainStart \/ MainListen \/ Accept \/ AcceptSuspend \/ Run \/ Idle \/ UNCHANGED vars
  BY <1>1, <1>7 DEF MainStart, MainListen, Accept, AcceptSuspend, Run, Idle, vars, appVars
<1> QED
  BY <1>1, <1>5, <1>6, <1>7 DEF Next

\* Clients and children leave the batch and accept() alone.
LEMMA SignalKeeps ==
  ASSUME NEW d \in Conn, ClientStep(d) \/ Child(d)
  PROVE  UNCHANGED <<events, half, co, op, coroSend, owner, pc, apc, accepted>>
<1>1. UNCHANGED <<pc, apc, accepted>> /\ \E a, F : Signal(a, F)
  BY DEF ClientStep, Connect, ClientSend, ClientReset, ClientRead,
         Child, ChildEcho, ChildCopy, ChildEof, ChildExit, appVars, accVars
<1> QED
  BY <1>1 DEF Signal, IO!Arrive, IO!afdVars, IO!loopVars, IO!coroVars, ioVars, ioRest

\* A batch keeps one event for each descriptor.
LEMMA OneEachInv ==
  ASSUME App, Files, Loop, WInv, [Next]_vars
  PROVE  OneEach'
<1>0. OneEach
  BY DEF WInv
<1>1. CASE UNCHANGED <<events, half>>
  BY <1>0, <1>1 DEF OneEach
<1>2. CASE MainStart \/ MainListen \/ Accept \/ AcceptSuspend
  BY <1>1, <1>2, AcceptKeeps DEF Keeps
<1>3. ASSUME NEW d \in Conn, Handler(d) PROVE OneEach'
  <2>1. CASE Crash(d)
    BY <2>1 DEF Crash, IO!AwaitFail, OneEach
  <2>2. CASE ~ Crash(d)
    <3>1. Keeps(d)
      BY <1>3, <2>2, HandlerKeeps
    <3> QED
      BY <1>1, <3>1 DEF Keeps
  <2> QED
    BY <2>1, <2>2
<1>4. ASSUME NEW d \in Conn, ClientStep(d) \/ Child(d) PROVE OneEach'
  BY <1>1, <1>4, SignalKeeps
<1>5. CASE Run
  <2>1. CASE IO!EpollWait
    <3>1. half' = {}
      BY <2>1 DEF IO!EpollWait, Loop
    <3>2. \E batch : events' = {[ptr |-> a, ev |-> IO!Reported(Poll[a], interest[a])] : a \in batch}
      BY <2>1 DEF IO!EpollWait
    <3> QED
      BY <3>1, <3>2 DEF OneEach
  <2>2. ASSUME NEW e \in events, IO!DispatchUnmanaged(e) \/ IO!DispatchIn(e) PROVE OneEach'
    <3>1. events' = events \ {e} /\ half' \subseteq {e.ptr}
      BY <2>2 DEF IO!DispatchUnmanaged, IO!DispatchIn, IO!OutTest
    <3> QED
      BY <1>0, <2>2, <3>1 DEF OneEach
  <2>3. ASSUME NEW a \in half, IO!DispatchOut(a) PROVE OneEach'
    BY <1>0, <2>3 DEF IO!DispatchOut, OneEach
  <2>4. CASE IO!ApplyMod
    BY <1>1, <2>4 DEF IO!ApplyMod
  <2> QED
    BY <1>5, <2>1, <2>2, <2>3, <2>4 DEF Run, IO!RunStep
<1>6. CASE Idle \/ UNCHANGED vars
  BY <1>1, <1>6 DEF Idle, vars, ioVars, ioRest
<1> QED
  BY <1>2, <1>3, <1>4, <1>5, <1>6 DEF Next

\* A handler that has been started works on its own connection only.
LEMMA HandlerQueue ==
  ASSUME App, Queue, NEW d \in Conn, Handler(d), ~ Crash(d), ~ HandlerStart(d)
  PROVE  Queue'
<1>1. pc[d] # "new" /\ UNCHANGED <<apc, accepted, backlog>>
  BY DEF Handler, AttachSocket, CloseSocket, HandlerEnd, Recv, Suspend,
         OpenRead, OpenWrite, Fork, WritePipe, FinishWriting, ReadPipe, FinishReading,
         Send, WaitChild, WaitSuspend, CloseCommand, UnwindRead, UnwindPid, UnwindFrame, At,
         appVars, accVars, envVars, netVars
<1>2. \A c \in Conn : c # d => pc'[c] = pc[c] /\ cl'[c] = cl[c]
  BY HandlerFrame DEF Same
<1>3. cl'[d] = "none" <=> cl[d] = "none"
  BY DEF Handler, AttachSocket, CloseSocket, HandlerEnd, Recv, Suspend,
         OpenRead, OpenWrite, Fork, WritePipe, FinishWriting, ReadPipe, FinishReading,
         Send, WaitChild, WaitSuspend, CloseCommand, UnwindRead, UnwindPid, UnwindFrame, Told,
         envVars, netVars, App, TypeOK
<1>4. \A i \in 1..Len(backlog) : backlog[i] \in Conn
  BY DEF App, Bytes
<1>5. accepted \in Conn \cup {Null}
  BY DEF App, TypeOK
<1> QED
  BY <1>1, <1>2, <1>3, <1>4, <1>5 DEF Queue

\* accept() takes the first of the backlog, ...
LEMMA AcceptQueue ==
  ASSUME App, Queue, Accept
  PROVE  Queue'
<1>1. /\ accepted = Null /\ accepted' = backlog[1] /\ backlog' = Tail(backlog) /\ backlog # <<>>
      /\ UNCHANGED <<pc, cl, apc>>
  BY DEF Accept
<1>2. backlog \in Seq(Conn) /\ Len(backlog) >= 1 /\ Len(backlog) \in Nat
  <2>1. backlog \in Seq(Conn)
    BY DEF App, Bytes
  <2> QED
    BY <1>1, <2>1
<1>3. /\ Len(Tail(backlog)) = Len(backlog) - 1
      /\ \A i \in 1..Len(Tail(backlog)) :
           Tail(backlog)[i] = backlog[i + 1] /\ i + 1 \in 1..Len(backlog)
  BY <1>1, <1>2
<1>4. 1 \in 1..Len(backlog) /\ \A i \in 1..Len(Tail(backlog)) : i + 1 # 1
  BY <1>2, <1>3
<1>5. ASSUME NEW i \in 1..Len(backlog')
      PROVE  /\ pc'[backlog'[i]] = "new" /\ cl'[backlog'[i]] # "none" /\ backlog'[i] # accepted'
             /\ \A j \in 1..Len(backlog') : backlog'[i] = backlog'[j] => i = j
  BY <1>1, <1>3, <1>4, <1>5 DEF Queue
<1>6. \A c \in Conn : cl'[c] = "none" => pc'[c] = "new" \/ apc' = "dead"
  BY <1>1 DEF Queue
<1>7. pc'[accepted'] = "new" /\ cl'[accepted'] # "none"
  BY <1>1, <1>4 DEF Queue
<1> QED
  BY <1>5, <1>6, <1>7 DEF Queue

\* ... a client is added to it once.
LEMMA ConnectQueue ==
  ASSUME App, Queue, NEW d \in Conn, Connect(d)
  PROVE  Queue'
<1>1. /\ apc = "loop" /\ cl[d] = "none" /\ cl'[d] = "open" /\ backlog' = Append(backlog, d)
      /\ \A c \in Conn : c # d => cl'[c] = cl[c]
      /\ UNCHANGED <<pc, apc, accepted>>
  BY DEF Connect, appVars, accVars, App, TypeOK
<1>2. backlog \in Seq(Conn) /\ Len(backlog) \in Nat /\ accepted \in Conn \cup {Null}
  BY DEF App, Bytes, TypeOK
<1>3. /\ Len(Append(backlog, d)) = Len(backlog) + 1
      /\ Append(backlog, d)[Len(backlog) + 1] = d
      /\ \A i \in 1..Len(backlog) : Append(backlog, d)[i] = backlog[i] /\ backlog[i] \in Conn
  BY <1>2
<1>4. pc[d] = "new" /\ d # accepted /\ \A i \in 1..Len(backlog) : backlog[i] # d
  BY <1>1, <1>2 DEF Queue
<1>5. \A i \in 1..Len(backlog') : i \in 1..Len(backlog) \/ i = Len(backlog) + 1
  BY <1>1, <1>2, <1>3
<1>6. ASSUME NEW i \in 1..Len(backlog')
      PROVE  pc'[backlog'[i]] = "new" /\ cl'[backlog'[i]] # "none" /\ backlog'[i] # accepted'
  BY <1>1, <1>3, <1>4, <1>5, <1>6 DEF Queue
<1>7. ASSUME NEW i \in 1..Len(backlog'), NEW j \in 1..Len(backlog'), backlog'[i] = backlog'[j]
      PROVE  i = j
  BY <1>1, <1>3, <1>4, <1>5, <1>7 DEF Queue
<1>8. \A c \in Conn : cl'[c] = "none" => pc'[c] = "new" \/ apc' = "dead"
  BY <1>1 DEF Queue
<1>9. accepted' # Null => pc'[accepted'] = "new" /\ cl'[accepted'] # "none"
  BY <1>1, <1>2, <1>4 DEF Queue
<1> QED
  BY <1>6, <1>7, <1>8, <1>9 DEF Queue

\* No connection is accepted or served twice, in any step.
LEMMA QueueInv ==
  ASSUME App, Queue, [Next]_vars
  PROVE  Queue'
<1>1. CASE UNCHANGED <<apc, accepted, backlog, pc, cl>>
  BY <1>1 DEF Queue
<1>2. ASSUME NEW d \in Conn, Handler(d) PROVE Queue'
  <2>1. CASE Crash(d)
    BY <2>1 DEF Crash, Queue
  <2>2. CASE HandlerStart(d)
    <3>1. /\ accepted = d /\ accepted' = Null /\ pc' = [pc EXCEPT ![d] = "attach"]
          /\ UNCHANGED <<apc, backlog, cl>>
      BY <2>2 DEF HandlerStart, envVars, netVars
    <3>2. d # Null /\ \A i \in 1..Len(backlog) : backlog[i] \in Conn
      BY DEF App, Bytes
    <3> QED
      BY <3>1, <3>2 DEF Queue, App, TypeOK
  <2> QED
    BY <1>2, <2>1, <2>2, HandlerQueue
<1>3. ASSUME NEW d \in Conn, ClientStep(d), ~ Connect(d) PROVE Queue'
  <2>1. UNCHANGED <<apc, accepted, pc, backlog>>
    BY <1>3 DEF ClientStep, ClientSend, ClientReset, ClientRead, appVars, accVars
  <2>2. \A c \in Conn : cl'[c] = "none" <=> cl[c] = "none"
    <3>1. \/ UNCHANGED cl
          \/ cl[d] # "none" /\ \E s \in {"sent", "more", "fin", "reset"} : cl' = [cl EXCEPT ![d] = s]
      BY <1>3 DEF ClientStep, ClientSend, ClientReset, ClientRead
    <3> QED
      BY <3>1 DEF App, TypeOK
  <2>3. (\A i \in 1..Len(backlog) : backlog[i] \in Conn) /\ accepted \in Conn \cup {Null}
    BY DEF App, Bytes, TypeOK
  <2> QED
    BY <2>1, <2>2, <2>3 DEF Queue
<1>4. ASSUME NEW d \in Conn, Child(d) PROVE Queue'
  BY <1>1, <1>4 DEF Child, ChildEcho, ChildCopy, ChildEof, ChildExit, appVars, accVars, netVars
<1>5. CASE MainStart \/ MainListen
  BY <1>5 DEF MainStart, MainListen, envVars, netVars, Queue
<1>6. CASE AcceptSuspend \/ Run \/ Idle \/ UNCHANGED vars
  BY <1>1, <1>6 DEF AcceptSuspend, Run, Idle, vars, appVars, accVars, envVars, netVars
<1> QED
  BY <1>2, <1>3, <1>4, <1>5, <1>6, AcceptQueue, ConnectQueue DEF Next

\* Handlers, clients and children leave accept() where it is.
LEMMA AcceptingKept ==
  ASSUME Accepting, co'[Acceptor] = co[Acceptor], op'[Acceptor] = op[Acceptor],
         events' \subseteq events, backlog # <<>> => backlog' # <<>>,
         \A a \in Desc : (coroSend'[a] = Acceptor => coroSend[a] = Acceptor) /\
                         (owner'[a] = Acceptor => owner[a] = Acceptor)
  PROVE  Accepting'
BY DEF Accepting

\* accept() touches the listening socket, if any.
LEMMA AcceptorTouch ==
  ASSUME Files, Loop, Accepting, MainStart \/ MainListen \/ Accept \/ AcceptSuspend
  PROVE  Touch(Acceptor, Listen) \/ UNCHANGED <<events, coroSend, owner>>
<1>0. Reactor /\ Acceptor \in Conn \cup {Acceptor} /\ Listen \in Desc
  BY DEF Files
<1>1. CASE IO!Spawn(Acceptor)
  BY <1>1 DEF IO!Spawn, IO!afdVars, IO!loopVars
<1>2. CASE \/ IO!Construct(Acceptor, Listen, {"IN"}, {}, TRUE) \/ IO!AwaitDone(Acceptor, Listen, "IN")
           \/ IO!AwaitSuspend(Acceptor, Listen, "IN", TRUE)
  BY <1>0, <1>2, Touches
<1>3. CASE IO!AwaitResume(Acceptor)
  <2>1. op[Acceptor].fd = Listen
    BY <1>3 DEF IO!AwaitResume, Accepting
  <2> QED
    BY <1>0, <1>3, <2>1, Touches
<1> QED
  BY <1>1, <1>2, <1>3 DEF MainStart, MainListen, Accept, AcceptSuspend, Completes

\* accept() runs when nothing is reported of the listening socket.
LEMMA AcceptorSteps ==
  ASSUME App, Files, Loop, Accepting, MainStart \/ MainListen \/ Accept \/ AcceptSuspend
  PROVE  Accepting'
<1>0. co \in [Conn \cup {Acceptor} -> {"idle", "run", "wait", "woken"}] /\ Acceptor # Null
  BY DEF Files, Reactor
<1>1. co[Acceptor] # "wait" /\ co'[Acceptor] \in {"run", "wait"}
  BY <1>0 DEF MainStart, MainListen, Accept, AcceptSuspend, Completes, IO!Spawn, IO!Construct,
              IO!AwaitDone, IO!AwaitResume, IO!AwaitSuspend, IO!Runs, IO!coroVars
<1>2. co'[Acceptor] = "wait" => op'[Acceptor] = [fd |-> Listen, dir |-> "IN"]
  BY <1>0, <1>1 DEF MainStart, MainListen, Accept, AcceptSuspend, Completes, IO!Spawn, IO!Construct,
              IO!AwaitDone, IO!AwaitResume, IO!AwaitSuspend, IO!coroVars, Loop
<1>3. events' = events /\ \A a \in Desc : a # Listen => coroSend'[a] = coroSend[a] /\ owner'[a] = owner[a]
  <2>1. Touch(Acceptor, Listen) \/ UNCHANGED <<events, coroSend, owner>>
    BY AcceptorTouch
  <2> QED
    BY <2>1 DEF Touch
<1>4. coroSend'[Listen] # Acceptor
  BY <1>0 DEF MainStart, MainListen, Accept, AcceptSuspend, Completes, IO!Spawn, IO!Construct,
              IO!AwaitDone, IO!AwaitResume, IO!AwaitSuspend, IO!afdVars, Loop, Accepting
<1> QED
  BY <1>1, <1>2, <1>3, <1>4 DEF Accepting

\* epoll_wait reports the listening socket when a connection is waiting.
LEMMA ListenReported ==
  ASSUME App, Files, Loop, Apart, Listen \in ready,
         "IN" \in Poll[Listen], co[Acceptor] \notin {"run", "woken"}
  PROVE  co[Acceptor] = "wait" /\ backlog # <<>>
<1>1. owner[Listen] # Null /\ co[owner[Listen]] # "idle"
  BY DEF Loop
<1>2. owner[Listen] \notin Conn
  <2> SUFFICES ASSUME owner[Listen] \in Conn PROVE FALSE
    OBVIOUS
  <2>1. PICK j \in Kinds : fd[owner[Listen]][j] = Listen
    BY DEF Files, Accounted
  <2> QED
    BY <2>1 DEF Apart
<1>3. owner[Listen] = Acceptor
  BY <1>1, <1>2 DEF Files, Reactor
<1>4. co[Acceptor] = "wait"
  BY <1>1, <1>3 DEF Files, Reactor
<1>5. Poll[Listen] = IF backlog # <<>> THEN {"IN"} ELSE {}
  BY <1>3 DEF Poll
<1> QED
  BY <1>4, <1>5

\* run() resumes accept() for a connection.
LEMMA RunAccepting ==
  ASSUME App, Files, Loop, Apart, OneEach, Accepting, Run
  PROVE  Accepting'
<1>0. backlog' = backlog /\ Acceptor # Null
  BY DEF Run, envVars, netVars
<1>1. CASE IO!EpollWait
  <2>1. /\ UNCHANGED <<co, op, coroSend, owner>> /\ co[Acceptor] \notin {"run", "woken"}
        /\ \A e \in events' : /\ e.ptr \in ready
                              /\ e.ev = IO!Reported(Poll[e.ptr], interest[e.ptr])
    BY <1>1 DEF IO!EpollWait, IO!afdVars, IO!coroVars, IO!Running
  <2>2. ASSUME NEW e \in events', e.ptr = Listen, "IN" \in e.ev
        PROVE  co[Acceptor] = "wait" /\ backlog # <<>>
    <3>1. Listen \in ready /\ "IN" \in Poll[Listen]
      BY <2>1, <2>2 DEF IO!Reported
    <3> QED
      BY <2>1, <3>1, ListenReported
  <2> QED
    BY <1>0, <2>1, <2>2 DEF Accepting
<1>2. ASSUME NEW e \in events, IO!DispatchIn(e) PROVE Accepting'
  <2>1. /\ UNCHANGED <<op, coroSend, owner>> /\ events' = events \ {e} /\ e.ptr \in managed_fd
        /\ co' = IF "IN" \in e.ev THEN IO!Resume(coroRecv[e.ptr]) ELSE co
        /\ co[Acceptor] \notin {"run", "woken"}
    BY <1>2 DEF IO!DispatchIn, IO!Running, IO!Managed
  <2>2. CASE "IN" \in e.ev /\ coroRecv[e.ptr] = Acceptor
    <3>1. owner[e.ptr] = Acceptor /\ e.ptr \in Desc
      BY <1>0, <2>1, <2>2 DEF Loop
    <3>2. e.ptr = Listen
      BY <3>1 DEF Accepting
    <3>3. co[Acceptor] = "wait" /\ backlog # <<>>
      BY <1>2, <2>2, <3>2 DEF Accepting
    <3>4. \A f \in events' : f.ptr # Listen
      BY <1>2, <2>1, <3>2 DEF OneEach
    <3> QED
      BY <1>0, <2>1, <3>3, <3>4 DEF Accepting
  <2>3. CASE ~ ("IN" \in e.ev /\ coroRecv[e.ptr] = Acceptor)
    <3>1. co'[Acceptor] = co[Acceptor]
      BY <2>1, <2>3 DEF IO!Resume, Files, Reactor
    <3> QED
      BY <1>0, <2>1, <3>1, AcceptingKept
  <2> QED
    BY <2>2, <2>3
<1>3. ASSUME NEW a \in half, IO!DispatchOut(a) PROVE Accepting'
  <2>1. a \in Desc /\ coroSend[a] # Acceptor
    BY DEF Loop, Accepting
  <2>2. UNCHANGED <<op, coroSend, owner, events>> /\ co'[Acceptor] = co[Acceptor]
    BY <1>3, <2>1 DEF IO!DispatchOut, IO!Resume, IO!afdVars, Files, Reactor
  <2> QED
    BY <1>0, <2>2, AcceptingKept
<1>4. ASSUME NEW e \in events, IO!DispatchUnmanaged(e) PROVE Accepting'
  BY <1>0, <1>4, AcceptingKept DEF IO!DispatchUnmanaged, IO!afdVars, IO!coroVars
<1>5. CASE IO!ApplyMod
  BY <1>0, <1>5, AcceptingKept DEF IO!ApplyMod, IO!coroVars
<1> QED
  BY <1>1, <1>2, <1>3, <1>4, <1>5 DEF Run, IO!RunStep

\* What is known of accept() holds after any step.
LEMMA AcceptingInv ==
  ASSUME App, Files, Loop, WInv, [Next]_vars
  PROVE  Accepting'
<1>0. OneEach /\ Apart /\ Accepting
  BY DEF WInv
<1>1. ASSUME NEW d \in Conn, Handler(d) PROVE Accepting'
  <2>1. CASE Crash(d)
    BY <2>1 DEF Crash, IO!AwaitFail, IO!ForAll, Accepting
  <2>2. CASE ~ Crash(d)
    <3>1. Keeps(d)
      BY <1>1, <2>2, HandlerKeeps
    <3>2. Acceptor \notin {d, Null, Lost}
      OBVIOUS
    <3>3. backlog' = backlog
      BY <1>1, <2>2 DEF Handler, HandlerStart, AttachSocket, CloseSocket, HandlerEnd, Recv, Suspend,
            OpenRead, OpenWrite, Fork, WritePipe, FinishWriting, ReadPipe, FinishReading,
            Send, WaitChild, WaitSuspend, CloseCommand, UnwindRead, UnwindPid, UnwindFrame, envVars, netVars
    <3>4. /\ co'[Acceptor] = co[Acceptor] /\ op'[Acceptor] = op[Acceptor] /\ events' = events
          /\ \A b \in Desc : (coroSend'[b] = Acceptor => coroSend[b] = Acceptor) /\
                             (owner'[b] = Acceptor => owner[b] = Acceptor)
      BY <3>1, <3>2 DEF Keeps
    <3> QED
      BY <1>0, <3>3, <3>4, AcceptingKept
  <2> QED
    BY <2>1, <2>2
<1>2. ASSUME NEW d \in Conn, ClientStep(d) \/ Child(d) PROVE Accepting'
  <2>1. UNCHANGED <<events, co, op, coroSend, owner>>
    BY <1>2, SignalKeeps
  <2>2. backlog # <<>> => backlog' # <<>>
    <3>1. backlog' = backlog \/ backlog' = Append(backlog, d)
      BY <1>2 DEF ClientStep, Connect, ClientSend, ClientReset, ClientRead,
                  Child, ChildEcho, ChildCopy, ChildEof, ChildExit, netVars
    <3>2. backlog \in Seq(Conn)
      BY DEF App, Bytes
    <3> QED
      BY <3>1, <3>2
  <2> QED
    BY <1>0, <2>1, <2>2, AcceptingKept
<1>3. CASE Idle \/ UNCHANGED vars
  BY <1>0, <1>3, AcceptingKept DEF Idle, vars, ioVars, ioRest, envVars, netVars
<1> QED
  BY <1>0, <1>1, <1>2, <1>3, AcceptorSteps, RunAccepting DEF Next

\* In the first state nobody has connected.
LEMMA InitWakeup == Init => WInv
<1> SUFFICES ASSUME Init PROVE WInv
  OBVIOUS
<1>1. /\ \A k \in Conn \cup {Acceptor} : co[k] = "idle"
      /\ events = {} /\ half = {} /\ \A a \in Desc : coroSend[a] = Null /\ owner[a] = Null
  BY DEF Init, IO!Init, IO!ForAll
<1>2. /\ \A c \in Conn : /\ pc[c] = "new" /\ cl[c] = "none" /\ inq[c] = <<>>
                         /\ \A k \in Kinds : fd[c][k] = Null
      /\ backlog = <<>> /\ accepted = Null
  BY DEF Init
<1>3. Apart /\ OneEach /\ Queue
  <2>1. Listen # Null
    OBVIOUS
  <2> QED
    BY <1>1, <1>2, <2>1 DEF Apart, OneEach, Queue
<1>4. Accepting
  BY <1>1 DEF Accepting
<1>5. ASSUME NEW c \in Conn PROVE Calmly(c)
  <2>1. Await(c) /\ Asked(c) /\ Woken(c)
    BY <1>1, <1>2 DEF Await, Asked, Woken
  <2>2. Batch(c) /\ Stored(c) /\ Subscribed(c)
    BY <1>1, <1>2 DEF Batch, Stored, Subscribed, Kinds
  <2> QED
    BY <2>1, <2>2 DEF Calmly
<1> QED
  BY <1>3, <1>4, <1>5 DEF WInv, Calm

\* The operation that k awaits can go on.
Due(k) == co[k] = "woken" => IO!CanComplete(op[k].fd, op[k].dir)

\* accept() can go on when it was resumed.
LEMMA AcceptorDue ==
  ASSUME Loop, Accepting
  PROVE  Due(Acceptor)
<1> SUFFICES ASSUME co[Acceptor] = "woken" PROVE IO!CanComplete(op[Acceptor].fd, op[Acceptor].dir)
  BY DEF Due
<1>1. op[Acceptor].fd = Listen /\ op[Acceptor].dir = "IN" /\ backlog # <<>>
  BY DEF Accepting
<1>2. owner[Listen] = Acceptor
  BY <1>1 DEF Loop
<1>3. Poll[Listen] = {"IN"}
  BY <1>1, <1>2 DEF Poll
<1> QED
  BY <1>1, <1>3 DEF IO!CanComplete

\* So can a calm handler.
LEMMA CalmDue ==
  ASSUME App, Files, Loop, NEW c \in Conn, Calmly(c)
  PROVE  Due(c)
<1> SUFFICES ASSUME co[c] = "woken" PROVE IO!CanComplete(op[c].fd, op[c].dir)
  BY DEF Due
<1> DEFINE l == pc[c]
           a == fd[c][KindAt(l)]
<1>1. l \in {"recv", "read", "send", "wait"} /\ op[c].fd = a /\ op[c].dir = DirAt(l)
  BY DEF Calmly, Await
<1>2. KindAt(l) \in Kinds /\ fd[c][KindAt(l)] # Null
  BY <1>1 DEF KindAt, Files, HeldAt, Held, Kinds
<1>3. Poll[a] = FileReady(c, KindAt(l))
  BY <1>2, PollAt
<1>4. DirAt(l) \in FileReady(c, KindAt(l))
  BY <1>1, ReadyFor DEF Calmly, Woken, DirAt, KindAt
<1> QED
  BY <1>1, <1>3, <1>4 DEF IO!CanComplete

\* WInv holds in every state of the server.
LEMMA WakeupInv == Spec => []WInv
<1>1. App /\ Files /\ Loop /\ WInv /\ [Next]_vars => WInv'
  <2> SUFFICES ASSUME App, Files, Loop, WInv, [Next]_vars PROVE WInv'
    OBVIOUS
  <2>1. reused' \/ \A c \in Calm : Calmly(c)'
    BY CalmInv
  <2>2. Apart' /\ Queue'
    BY ApartInv, QueueInv DEF WInv
  <2>3. OneEach' /\ Accepting'
    BY OneEachInv, AcceptingInv
  <2> QED
    BY <2>1, <2>2, <2>3 DEF WInv, Calm
<1> QED
  BY <1>1, InitWakeup, Invariance, LoopHolds, PTL DEF Spec

\* In all behaviours accept() is resumed only when it can go on; so are the
\* handlers of the calm clients, whatever the other clients do, until a
\* descriptor is made where an event of the batch still names the one before it.
THEOREM CalmWakeups ==
  Spec => [](Due(Acceptor) /\ (reused \/ \A c \in Calm : Due(c)))
<1>1. App /\ Files /\ Loop /\ WInv => Due(Acceptor) /\ (reused \/ \A c \in Calm : Due(c))
  BY AcceptorDue, CalmDue DEF WInv, Calm
<1> QED
  BY <1>1, WakeupInv, Invariance, LoopHolds, PTL

\* So, if all clients are calm, nothing but an address used again within a round
\* misleads run(): no handle left in a descriptor, no mask, no overtaken event.
THEOREM NeverSpurious ==
  ASSUME \A c \in Conn : Faults[c] = {}
  PROVE  Spec => []OnlyReuseMisleads
<1>1. Due(Acceptor) /\ (reused \/ \A c \in Calm : Due(c)) => OnlyReuseMisleads
  BY DEF Calm, Due, OnlyReuseMisleads, NoSpuriousWakeup
<1> QED
  BY <1>1, CalmWakeups, PTL
=============================================================================

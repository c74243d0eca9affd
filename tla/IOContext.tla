------------------------------ MODULE IOContext ------------------------------
(***************************************************************************)
(* The reactor: class IOContext (io_context.hh, io_context.cc), the        *)
(* AsyncFileDescriptor objects it dispatches to (async_file_desc.hh), the  *)
(* awaitable base class BlockSyscall (block_syscall.hh) with the           *)
(* constructor, destructor and suspend() of the operations derived from    *)
(* it, and the part of Linux epoll they rely on (external).                *)
(*                                                                         *)
(* The program is single threaded: between two returns to IOContext::run() *)
(* only coroutines that run() resumed, and coroutines those started, make  *)
(* steps.  A member of Coro is one logical thread of control, that is, a   *)
(* chain of coroutine frames awaiting each other (Task.tla looks at the    *)
(* frames); Lost is the handle of a frame of such a chain that has ended.  *)
(* What a coroutine does between two awaits is left open: it may           *)
(* build descriptors, start operations on the descriptors it owns, destroy *)
(* them, start other coroutines and return.  EchoServer.tla is one such    *)
(* program.                                                                *)
(*                                                                         *)
(* Nothing is said of the program after undefined behaviour: a step of     *)
(* run() that follows a pointer to a freed object, or resumes a frame that *)
(* is gone, ends in a phase of Undefined, where nothing goes on.           *)
(*                                                                         *)
(* EPOLLET is part of every subscription and is left out of the masks.     *)
(* EPOLLERR, EPOLLRDHUP and EPOLLPRI are only logged by run(), and are     *)
(* left out too.                                                           *)
(***************************************************************************)
EXTENDS Naturals, FiniteSets

CONSTANTS
  Desc,        (* addresses an AsyncFileDescriptor may live at            *)
  Coro,        (* coroutines                                              *)
  Null,        (* the null pointer: no coroutine, no descriptor           *)
  Lost,        (* the handle of a frame that has been destroyed           *)
  Flag,        (* what a file may be ready for: Dir, with or without HUP  *)
  MaxEvents    (* IOContext::max_events                                   *)

Dir == {"IN", "OUT"}      \* EPOLLIN, EPOLLOUT

\* "HUP" is EPOLLHUP, which epoll reports whether it was asked for or not.
ASSUME FlagAssumption == Dir \subseteq Flag /\ Flag \subseteq Dir \cup {"HUP"}
ASSUME NullAssumption == Null \notin Coro \cup Desc
ASSUME LostAssumption == Lost \notin Coro \cup {Null}
ASSUME MaxEventsAssumption == MaxEvents \in Nat \ {0}

VARIABLES
  \* AsyncFileDescriptor objects
  owner,            (* the coroutine whose scope holds the object, Null: freed   *)
  io_state,         (* the subscription the program believes the kernel has      *)
  io_new_state,     (* the subscription wanted at the end of the round           *)
  coroRecv,         (* handle resumeRecv() resumes; never cleared                *)
  coroSend,         (* handle resumeSend() resumes; never cleared                *)
  doneRecv,
  \* IOContext
  managed_fd,
  processedSockets,
  phase,            (* where run() is; "boot" until its first epoll_wait returns, *)
                    (* or what it did last, see Undefined                        *)
  events,           (* events of the batch not handled yet                       *)
  half,             (* the descriptor whose EPOLLOUT test of run() comes next    *)
  \* coroutines
  co,               (* "idle", "run", "wait" (suspended), "woken" (resumed)      *)
  op,               (* the operation a suspended or woken coroutine awaits       *)
  \* kernel
  epset,            (* descriptors in the epoll interest list                    *)
  interest,         (* their event masks                                         *)
  poll,             (* readiness of the file behind each descriptor              *)
  ready             (* epoll's ready list                                        *)

afdVars    == <<owner, io_state, io_new_state, coroRecv, coroSend, doneRecv>>
loopVars   == <<managed_fd, processedSockets, phase, events, half>>
coroVars   == <<co, op>>
kernelVars == <<epset, interest, poll, ready>>
vars       == <<afdVars, loopVars, coroVars, kernelVars>>

\* run() used an object that was freed, did so in the EPOLLOUT half of an
\* iteration after the EPOLLIN half had freed it, or resumed a destroyed frame.
Undefined == {"freed", "freedOut", "gone"}
Phases    == {"boot", "wait", "dispatch", "exited"} \cup Undefined
Event     == [ptr : Desc, ev : SUBSET Flag]
Op        == [fd : Desc, dir : Dir]
NoOp      == [fd |-> Null, dir |-> "IN"]
Masks     == {{"IN"}, {"OUT"}}        \* attach, attachReadonly; attachWriteOnly

ForAll(v) == [a \in Desc |-> v]

Live    == {a \in Desc : owner[a] # Null}
Running == {k \in Coro : co[k] \in {"run", "woken"}}

\* The process is there, and what it does is defined.
Up == phase \notin {"exited"} \cup Undefined

(***************************************************************************)
(* The kernel.                                                             *)
(***************************************************************************)

\* What epoll_wait reports for a file that is ready for r, subscribed with mask m.
Reported(r, m) == r \cap (m \cup {"HUP"})

\* A read, recv, accept, write or send on a does not answer EAGAIN.
CanComplete(a, dir) == dir \in poll[a] \/ "HUP" \in poll[a]

\* The readiness of a after a system call on it: a hang-up is for good.
After(a) == {r \in SUBSET poll[a] : "HUP" \in poll[a] => "HUP" \in r}

(***************************************************************************)
(* The file behind a becomes ready for F (data, room, a hang-up).  The     *)
(* edge puts a on the ready list if the subscription asks for it.          *)
(***************************************************************************)
Arrive(a, F) ==
  /\ Up
  /\ a \in epset
  /\ UNCHANGED <<afdVars, loopVars, coroVars, epset, interest>>
  /\ ready' = IF Reported(F, interest[a]) # {} THEN ready \cup {a} ELSE ready
  /\ poll' = [poll EXCEPT ![a] = @ \cup F]

(***************************************************************************)
(* The subscription calls of IOContext, as updates of one descriptor.      *)
(***************************************************************************)

\* Mutant of Watch: the socket is not put on the list to process.
WatchNotListed(a, dir) ==
  /\ io_new_state' = [io_new_state EXCEPT ![a] = io_state[a] \cup {dir}]
  /\ UNCHANGED processedSockets

\* watchRead / watchWrite: the new mask is computed from io_state_.
Watch(a, dir) ==
  /\ io_new_state' = [io_new_state EXCEPT ![a] = io_state[a] \cup {dir}]
  /\ processedSockets' = processedSockets \cup {a}

\* Mutant of Unwatch: io_state_ | ~EPOLLIN instead of io_state_ & ~EPOLLIN.
UnwatchOr(a, dir) ==
  /\ io_new_state' = [io_new_state EXCEPT ![a] = io_state[a] \cup ({"IN", "OUT", "HUP"} \ {dir})]
  /\ processedSockets' = processedSockets \cup {a}

\* Mutant of Unwatch: the destructor of an operation leaves the subscription.
UnwatchNothing(a, dir) ==
  UNCHANGED <<io_new_state, processedSockets>>

\* unwatchRead / unwatchWrite.
Unwatch(a, dir) ==
  /\ io_new_state' = [io_new_state EXCEPT ![a] = io_state[a] \ {dir}]
  /\ processedSockets' = processedSockets \cup {a}

\* attach, attachReadonly, attachWriteOnly: EPOLL_CTL_ADD polls the file at once.
Attach(a, mask, r) ==
  /\ epset' = epset \cup {a}
  /\ interest' = [interest EXCEPT ![a] = mask]
  /\ ready' = IF Reported(r, mask) # {} THEN ready \cup {a} ELSE ready
  /\ io_state' = [io_state EXCEPT ![a] = mask]
  /\ managed_fd' = managed_fd \cup {a}

\* Mutant of Unlisted: the socket stays on the list to process.
StillListed(a) == processedSockets

\* detach: processedSockets.erase().
Unlisted(a) == processedSockets \ {a}

\* detach: EPOLL_CTL_DEL.  Events already copied into the batch stay there.
Detach(a) ==
  /\ epset' = epset \ {a}
  /\ interest' = [interest EXCEPT ![a] = {}]
  /\ poll' = [poll EXCEPT ![a] = {}]
  /\ ready' = ready \ {a}
  /\ processedSockets' = Unlisted(a)
  /\ managed_fd' = managed_fd \ {a}

(***************************************************************************)
(* Steps of coroutine k.                                                   *)
(***************************************************************************)

Runs(k) == Up /\ co[k] = "run"

\* A task is started, by main() before run(), or with detach() by another
\* coroutine (accept() in app/main.cc).
Spawn(k) ==
  /\ phase = "boot" \/ (phase = "dispatch" /\ Running # {})
  /\ co[k] = "idle"
  /\ co' = [co EXCEPT ![k] = "run"]
  /\ UNCHANGED <<afdVars, loopVars, op, kernelVars>>

\* An AsyncFileDescriptor is constructed at a free address and attached with
\* mask; watch: the constructor also calls watchRead (listening Socket only).
Construct(k, a, mask, r, watch) ==
  /\ Runs(k)
  /\ owner[a] = Null
  /\ watch => mask = {"IN"}
  /\ owner' = [owner EXCEPT ![a] = k]
  /\ Attach(a, mask, r)
  /\ poll' = [poll EXCEPT ![a] = r]
  /\ io_new_state' = [io_new_state EXCEPT ![a] = IF watch THEN mask ELSE {}]
  /\ processedSockets' = IF watch THEN processedSockets \cup {a} ELSE processedSockets
  /\ coroRecv' = [coroRecv EXCEPT ![a] = Null]
  /\ coroSend' = [coroSend EXCEPT ![a] = Null]
  /\ doneRecv' = [doneRecv EXCEPT ![a] = FALSE]
  /\ UNCHANGED <<phase, events, half, coroVars>>

\* co_await of an operation whose system call succeeds at once: constructor
\* (watch), await_suspend, await_resume, destructor (unwatch).  The unwatch
\* overwrites what the watch put into io_new_state_.
AwaitDone(k, a, dir) ==
  /\ Runs(k)
  /\ owner[a] = k
  /\ CanComplete(a, dir)
  /\ Unwatch(a, dir)
  /\ UNCHANGED <<owner, io_state, coroRecv, coroSend, doneRecv, managed_fd, phase,
                 events, half, coroVars, epset, interest, ready>>
  /\ \E r \in After(a) : poll' = [poll EXCEPT ![a] = r]

\* co_await of an operation whose system call answers EAGAIN: suspend() stores
\* the handle and control returns to the resumer.  watch is FALSE for
\* DyingProcessWaitOperation, whose constructor relies on attachReadonly.
AwaitSuspend(k, a, dir, watch) ==
  /\ Runs(k)
  /\ owner[a] = k
  /\ ~CanComplete(a, dir)
  /\ IF watch
       THEN Watch(a, dir)
       ELSE /\ a \notin processedSockets /\ dir \in io_state[a]
            /\ UNCHANGED <<io_new_state, processedSockets>>
  /\ coroRecv' = IF dir = "IN" THEN [coroRecv EXCEPT ![a] = k] ELSE coroRecv
  /\ coroSend' = IF dir = "OUT" THEN [coroSend EXCEPT ![a] = k] ELSE coroSend
  /\ co' = [co EXCEPT ![k] = "wait"]
  /\ op' = [op EXCEPT ![k] = [fd |-> a, dir |-> dir]]
  /\ UNCHANGED <<owner, io_state, doneRecv, managed_fd, phase, events, half, kernelVars>>

\* co_await of an operation whose system call fails with another error while
\* no error storage was given: rs_error_bubble_or_exit ends the process (or, in
\* await_resume too, a signal does), and with it every object, coroutine and
\* subscription.
AwaitFail(k, a) ==
  /\ Up /\ co[k] \in {"run", "woken"}
  /\ owner[a] = k
  /\ owner' = ForAll(Null) /\ coroRecv' = ForAll(Null) /\ coroSend' = ForAll(Null)
  /\ io_state' = ForAll({}) /\ io_new_state' = ForAll({}) /\ doneRecv' = ForAll(FALSE)
  /\ managed_fd' = {} /\ processedSockets' = {}
  /\ phase' = "exited" /\ events' = {} /\ half' = {}
  /\ co' = [c \in Coro |-> "idle"] /\ op' = [c \in Coro |-> NoOp]
  /\ epset' = {} /\ ready' = {} /\ interest' = ForAll({}) /\ poll' = ForAll({})

\* await_resume after a suspension: the system call is made once more and
\* whatever it answers, -1 included, is the result; then the destructor.
AwaitResume(k) ==
  LET a == op[k].fd IN
  /\ Up
  /\ co[k] = "woken"
  /\ co' = [co EXCEPT ![k] = "run"]
  /\ op' = [op EXCEPT ![k] = NoOp]
  /\ Unwatch(a, op[k].dir)
  /\ UNCHANGED <<owner, io_state, coroRecv, coroSend, doneRecv, managed_fd, phase,
                 events, half, epset, interest, ready>>
  /\ \E r \in After(a) :
       /\ CanComplete(a, op[k].dir) \/ r = poll[a]
       /\ poll' = [poll EXCEPT ![a] = r]

\* ~AsyncFileDescriptor: detach and close.  A freed object has no fields; who
\* still reads one is led to a phase of Undefined by its address.
Destroy(k, a) ==
  /\ Runs(k)
  /\ owner[a] = k
  /\ owner' = [owner EXCEPT ![a] = Null]
  /\ Detach(a)
  /\ io_state' = [io_state EXCEPT ![a] = {}]
  /\ io_new_state' = [io_new_state EXCEPT ![a] = {}]
  /\ coroRecv' = [coroRecv EXCEPT ![a] = Null]
  /\ doneRecv' = [doneRecv EXCEPT ![a] = FALSE]
  /\ coroSend' = [coroSend EXCEPT ![a] = Null]
  /\ UNCHANGED <<phase, events, half, coroVars>>

\* The frame of k that has awaited so far is destroyed, by final_awaiter, and
\* the frame that awaited it goes on.  Nobody clears the handles that suspend()
\* left in descriptors that are still there.
EndFrame(k) ==
  /\ Runs(k)
  /\ coroRecv' = [a \in Desc |-> IF coroRecv[a] = k THEN Lost ELSE coroRecv[a]]
  /\ coroSend' = [a \in Desc |-> IF coroSend[a] = k THEN Lost ELSE coroSend[a]]
  /\ UNCHANGED <<owner, io_state, io_new_state, doneRecv, loopVars, coroVars, kernelVars>>

\* The coroutine returns; the locals of its frames are gone by then.
Finish(k) ==
  /\ Runs(k)
  /\ \A a \in Desc : owner[a] # k
  /\ co' = [co EXCEPT ![k] = "idle"]
  /\ UNCHANGED <<afdVars, loopVars, op, kernelVars>>

(***************************************************************************)
(* Steps of IOContext::run().                                              *)
(***************************************************************************)

\* epoll_wait returns at most MaxEvents of the descriptors that have something
\* to report; edge triggered, so these leave the ready list.
EpollWait ==
  LET avail == {a \in ready : Reported(poll[a], interest[a]) # {}} IN
  /\ Running = {}
  /\ phase \in {"boot", "wait"}
  /\ avail # {}
  /\ \E batch \in SUBSET avail :
       /\ batch # {}
       /\ \/ batch = avail /\ Cardinality(batch) <= MaxEvents
          \/ Cardinality(batch) = MaxEvents
       /\ events' = {[ptr |-> a, ev |-> Reported(poll[a], interest[a])] : a \in batch}
       /\ ready' = avail \ batch
  /\ phase' = "dispatch"
  /\ UNCHANGED <<afdVars, managed_fd, processedSockets, half, coroVars, epset, interest, poll>>

\* A handle whose frame is gone: resuming it is undefined.
Gone(h) == h = Lost \/ (h \in Coro /\ co[h] = "idle")

\* coroutine_handle::resume() on a handle k, if k is not null: the coroutine
\* goes on from wherever it is suspended.
Resume(k) == IF k \in Coro /\ co[k] = "wait" THEN [co EXCEPT ![k] = "woken"] ELSE co

\* Mutant of Managed: the batch is not tested against managed_fd.
ManagedAlways(e) == TRUE

\* managed_fd.contains(socket).
Managed(e) == e.ptr \in managed_fd

\* An event whose pointer is no longer in managed_fd is dropped.
DispatchUnmanaged(e) ==
  /\ phase = "dispatch" /\ Running = {} /\ half = {}
  /\ e \in events
  /\ ~Managed(e)
  /\ events' = events \ {e}
  /\ UNCHANGED <<afdVars, managed_fd, processedSockets, phase, half, coroVars, kernelVars>>

\* Mutant of OutTest: EPOLLOUT is tested in an else branch of EPOLLIN.
OutTestElse(e) == IF "OUT" \in e.ev /\ "IN" \notin e.ev THEN {e.ptr} ELSE {}

\* EPOLLOUT is tested after EPOLLIN, whatever that did.
OutTest(e) == IF "OUT" \in e.ev THEN {e.ptr} ELSE {}

\* The EPOLLIN part of one iteration: a hang-up marks the descriptor as done,
\* then resumeRecv().
DispatchIn(e) ==
  /\ phase = "dispatch" /\ Running = {} /\ half = {}
  /\ e \in events
  /\ Managed(e)
  /\ events' = events \ {e}
  /\ doneRecv' = IF {"IN", "HUP"} \subseteq e.ev
                   THEN [doneRecv EXCEPT ![e.ptr] = TRUE] ELSE doneRecv
  /\ co' = IF "IN" \in e.ev THEN Resume(coroRecv[e.ptr]) ELSE co
  /\ half' = OutTest(e)
  /\ phase' = IF e.ptr \notin Live THEN "freed"
              ELSE IF "IN" \in e.ev /\ Gone(coroRecv[e.ptr]) THEN "gone" ELSE phase
  /\ UNCHANGED <<owner, io_state, io_new_state, coroRecv, coroSend, managed_fd,
                 processedSockets, op, kernelVars>>

\* The EPOLLOUT part: resumeSend(), with no second look at managed_fd.  If the
\* EPOLLIN part destroyed the object this reads freed memory.
DispatchOut(a) ==
  /\ phase = "dispatch" /\ Running = {}
  /\ a \in half
  /\ half' = half \ {a}
  /\ co' = Resume(coroSend[a])
  /\ phase' = IF a \notin Live THEN "freedOut"
              ELSE IF Gone(coroSend[a]) THEN "gone" ELSE phase
  /\ UNCHANGED <<afdVars, managed_fd, processedSockets, events, op, kernelVars>>

\* The loop over processedSockets: EPOLL_CTL_MOD where the mask changed, which
\* polls the file again; then back to epoll_wait.
ApplyMod ==
  LET changed == {a \in processedSockets : io_new_state[a] # io_state[a]} IN
  /\ phase = "dispatch" /\ Running = {} /\ half = {} /\ events = {}
  /\ interest' = [a \in Desc |-> IF a \in changed THEN io_new_state[a] ELSE interest[a]]
  /\ io_state' = [a \in Desc |-> IF a \in changed THEN io_new_state[a] ELSE io_state[a]]
  /\ ready' = ready \cup {a \in changed : Reported(poll[a], io_new_state[a]) # {}}
  /\ phase' = IF processedSockets \subseteq Live THEN "wait" ELSE "freed"
  /\ UNCHANGED <<owner, io_new_state, coroRecv, coroSend, doneRecv, managed_fd,
                 processedSockets, events, half, coroVars, epset, poll>>

Init ==
  /\ owner = ForAll(Null) /\ coroRecv = ForAll(Null) /\ coroSend = ForAll(Null)
  /\ io_state = ForAll({}) /\ io_new_state = ForAll({}) /\ doneRecv = ForAll(FALSE)
  /\ managed_fd = {} /\ processedSockets = {}
  /\ phase = "boot" /\ events = {} /\ half = {}
  /\ co = [k \in Coro |-> "idle"] /\ op = [k \in Coro |-> NoOp]
  /\ epset = {} /\ ready = {} /\ interest = ForAll({}) /\ poll = ForAll({})

CoroStep(k) ==
  \/ Spawn(k)
  \/ AwaitResume(k)
  \/ EndFrame(k)
  \/ Finish(k)
  \/ \E a \in Desc :
       \/ Destroy(k, a)
       \/ \E dir \in Dir :
            \/ AwaitDone(k, a, dir)
            \/ \E watch \in BOOLEAN : AwaitSuspend(k, a, dir, watch)
       \/ AwaitFail(k, a)
       \/ \E mask \in Masks, r \in SUBSET Flag, watch \in BOOLEAN :
            Construct(k, a, mask, r, watch)

RunStep ==
  \/ EpollWait
  \/ \E e \in events : DispatchUnmanaged(e) \/ DispatchIn(e)
  \/ \E a \in half : DispatchOut(a)
  \/ ApplyMod

KernelStep == \E a \in Desc, F \in SUBSET Flag : Arrive(a, F)

Next == RunStep \/ (\E k \in Coro : CoroStep(k)) \/ KernelStep

Spec == Init /\ [][Next]_vars

(***************************************************************************)
(* Properties.                                                             *)
(***************************************************************************)

\* Type invariant of the reactor's variables.
TypeOK ==
  /\ owner \in [Desc -> Coro \cup {Null}]
  /\ io_state \in [Desc -> SUBSET Dir]
  /\ io_new_state \in [Desc -> SUBSET Dir]
  /\ coroRecv \in [Desc -> Coro \cup {Null, Lost}]
  /\ coroSend \in [Desc -> Coro \cup {Null, Lost}]
  /\ doneRecv \in [Desc -> BOOLEAN]
  /\ managed_fd \subseteq Desc
  /\ processedSockets \subseteq Desc
  /\ phase \in Phases
  /\ events \subseteq Event
  /\ half \subseteq Desc
  /\ co \in [Coro -> {"idle", "run", "wait", "woken"}]
  /\ op \in [Coro -> Op \cup {NoOp}]
  /\ epset \subseteq Desc
  /\ interest \in [Desc -> SUBSET Dir]
  /\ poll \in [Desc -> SUBSET Flag]
  /\ ready \subseteq Desc

\* run() uses no object that was freed: not for an event copied into the batch
\* before an earlier event of it destroyed the descriptor (the race described
\* at io_context.hh:68-92), nor in the loop of EPOLL_CTL_MOD; and the descriptor
\* of every operation in progress is there.  What is not promised is the
\* resumeSend() that follows resumeRecv() in one iteration: "freedOut" is
\* reachable, and EchoServer's run echo_freed shows the program reaching it.
NoDangling ==
  /\ phase # "freed"
  /\ \A k \in Coro : co[k] \in {"wait", "woken"} => op[k].fd \in Live

\* When run() is back in epoll_wait, whoever is suspended is subscribed: the
\* kernel's mask has the direction the operation waits for, although watch and
\* unwatch calls of the round overwrote each other in io_new_state_.
Armed ==
  phase = "wait" => \A k \in Coro : co[k] = "wait" => op[k].dir \in interest[op[k].fd]

\* Edge-triggered notifications are not lost: if run() is in epoll_wait and the
\* file a coroutine is suspended on is ready in the direction awaited, the
\* descriptor is on the ready list, wherever the edge fell between the EAGAIN,
\* the suspension, the rest of the round and EPOLL_CTL_MOD.
NoMissedWakeup ==
  phase = "wait" =>
    \A k \in Coro :
      co[k] = "wait" /\ op[k].dir \in poll[op[k].fd] => op[k].fd \in ready
==============================================================================

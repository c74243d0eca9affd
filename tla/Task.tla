-------------------------------- MODULE Task --------------------------------
(***************************************************************************)
(* std::task<T> (task.hh): who resumes and who destroys a coroutine frame. *)
(*                                                                         *)
(* A frame is started through a task object in one of four ways:           *)
(*   "await"   co_await f()            (echo_loop, Socket::accept)         *)
(*   "detach"  f().detach()            (client_socket_handler)             *)
(*   "resume"  f().resume()            (offered by task.hh:128-130)        *)
(*   "hold"    auto t = f(); t.resume(), t living as long as the process   *)
(*             (accept, started by main())                                 *)
(* In the first three the task object is a temporary: its destructor runs  *)
(* as soon as control is back in the expression that made it.  resume() is *)
(* a nested call, so control returns to the body that made it when the     *)
(* resumed frame suspends or ends; `back' records that body.               *)
(*                                                                         *)
(* A descriptor keeps the handle stored in it until it is destroyed or the *)
(* handle overwritten, resumed or not; nothing ties that to the life of    *)
(* the frame, so run() may resume a frame that is gone, or one suspended   *)
(* elsewhere.  Whether the program lets it come to that is the matter of   *)
(* IOContext.tla and EchoServer.tla.                                       *)
(***************************************************************************)
CONSTANTS
  Frame,      (* coroutine frames                                        *)
  Main,       (* main() and IOContext::run(), the one that is no frame   *)
  Null,       (* the null handle                                         *)
  Modes       (* the ways in which the program starts coroutines         *)

AllModes == {"await", "detach", "resume", "hold"}

ASSUME FrameAssumption == Main \notin Frame /\ Null \notin Frame /\ Main # Null
ASSUME ModesAssumption == Modes \subseteq AllModes

VARIABLES
  st,         (* "none", "active", "awaiting" (a task), "io", "final", "destroyed" *)
  waiter,     (* promise_type_base::waiter                                         *)
  obj,        (* the frame's task object: "none", "temp", "held", "gone"           *)
  holder,     (* the body whose scope the task object is in                        *)
  mDetached,
  cur,        (* the body that is executing                                        *)
  back,       (* where control goes when an active frame suspends or ends          *)
  handles,    (* frames whose handle a descriptor stores                           *)
  fault       (* what undefined behaviour was met, "none" if none                  *)

vars == <<st, waiter, obj, holder, mDetached, cur, back, handles, fault>>

Body   == Frame \cup {Main}
States == {"none", "active", "awaiting", "io", "final", "destroyed"}
Faults == {"none", "double destroy", "resume of a destroyed frame",
           "resume of a frame suspended elsewhere"}

\* The temporaries of body g whose destructor is due.
Temps(g) == {c \in Frame : obj[c] = "temp" /\ holder[c] = g}

\* Body g executes, its last full expression is complete, and no destroyed
\* frame still has locals to destroy.
Executes(g) ==
  /\ fault = "none"
  /\ cur = g
  /\ Temps(g) = {}
  /\ \A f \in Frame : st[f] = "destroyed" => Temps(f) = {}

\* coroutine_handle::destroy() on f: undefined if the frame is gone already.
DestroyFrame(f) ==
  IF st[f] = "destroyed"
    THEN fault' = "double destroy" /\ UNCHANGED st
    ELSE st' = [st EXCEPT ![f] = "destroyed"] /\ UNCHANGED fault

\* Mutant of SetWaiter: co_await does not store the waiter.
SetNoWaiter(c, g) == UNCHANGED waiter

\* task::await_suspend: promise().waiter = waiter.
SetWaiter(c, g) == waiter' = [waiter EXCEPT ![c] = g]

\* The coroutine is called: the frame is made, suspends at once
\* (initial_suspend) and is started through its task object.
Call(g, c, mode) ==
  /\ Executes(g)
  /\ st[c] = "none"
  /\ mode \in Modes
  /\ mode = "await" => g # Main
  /\ mode = "hold" => g = Main
  /\ IF mode = "await"
       THEN /\ st' = [st EXCEPT ![c] = "active", ![g] = "awaiting"]
            /\ SetWaiter(c, g)
            /\ back' = [back EXCEPT ![c] = back[g], ![g] = Main]
       ELSE /\ st' = [st EXCEPT ![c] = "active"]
            /\ back' = [back EXCEPT ![c] = g]
            /\ UNCHANGED waiter
  /\ obj' = [obj EXCEPT ![c] = IF mode = "hold" THEN "held" ELSE "temp"]
  /\ holder' = [holder EXCEPT ![c] = g]
  /\ mDetached' = [mDetached EXCEPT ![c] = mode = "detach"]
  /\ cur' = c
  /\ UNCHANGED <<handles, fault>>

\* The frame suspends in a BlockSyscall, which stores its handle.
Suspend(f) ==
  /\ Executes(f)
  /\ st' = [st EXCEPT ![f] = "io"]
  /\ handles' = handles \cup {f}
  /\ cur' = back[f]
  /\ back' = [back EXCEPT ![f] = Main]
  /\ UNCHANGED <<waiter, obj, holder, mDetached, fault>>

\* run() resumes a stored handle, which stays stored.  Undefined if the frame
\* is gone; a frame that awaits a task goes on without its result.
Notify(f) ==
  /\ Executes(Main)
  /\ f \in handles
  /\ IF st[f] = "io"
       THEN /\ st' = [st EXCEPT ![f] = "active"]
            /\ back' = [back EXCEPT ![f] = Main]
            /\ cur' = f
            /\ UNCHANGED fault
       ELSE /\ fault' = IF st[f] = "destroyed" THEN "resume of a destroyed frame"
                                              ELSE "resume of a frame suspended elsewhere"
            /\ UNCHANGED <<st, back, cur>>
  /\ UNCHANGED <<waiter, obj, holder, mDetached, handles>>

\* The descriptor that stores the handle is destroyed, or another handle is
\* stored in its place.
Forget(f) ==
  /\ \E g \in Body : Executes(g)
  /\ f \in handles /\ st[f] # "io"
  /\ handles' = handles \ {f}
  /\ UNCHANGED <<st, waiter, obj, holder, mDetached, cur, back, fault>>

\* Mutant of FinishAwaited: final_awaiter does not test the waiter for null.
FinishUntested(f) ==
  LET w == waiter[f] IN
  /\ Executes(f)
  /\ st' = [st EXCEPT ![f] = "final"]
  /\ cur' = w
  /\ UNCHANGED <<waiter, obj, holder, mDetached, back, handles, fault>>

\* The body returns, or throws (unhandled_exception() swallows that), and
\* final_awaiter resumes the waiter from within, ...
FinishAwaited(f) ==
  LET w == waiter[f] IN
  /\ Executes(f)
  /\ w # Null
  /\ st' = [st EXCEPT ![f] = "final", ![w] = "active"]
  /\ cur' = w
  /\ back' = [back EXCEPT ![w] = back[f], ![f] = Main]
  /\ UNCHANGED <<waiter, obj, holder, mDetached, handles, fault>>

\* ... or destroys the frame when there is none.
FinishAlone(f) ==
  /\ Executes(f)
  /\ waiter[f] = Null
  /\ DestroyFrame(f)
  /\ cur' = back[f]
  /\ back' = [back EXCEPT ![f] = Main]
  /\ UNCHANGED <<waiter, obj, holder, mDetached, handles>>

\* What done() answers: of a frame that is gone, anything.
Done(c) == IF st[c] = "destroyed" THEN BOOLEAN ELSE {st[c] = "final"}

\* Mutant of Destroys: the branch for a detached task that is done is missing.
DestroysDone(done, detached) == done \/ ~detached

\* Mutant of Destroys: only tasks that are not done are destroyed.
DestroysLeaky(done, detached) == ~done /\ ~detached

\* The tests of ~task().
Destroys(done, detached) == ~(done /\ detached) /\ (done \/ ~detached)

\* ~task() of a temporary, in the body that made it or with its frame.
DropTask(c) ==
  /\ fault = "none"
  /\ obj[c] = "temp"
  /\ holder[c] \in {cur} \cup {f \in Frame : st[f] = "destroyed"}
  /\ obj' = [obj EXCEPT ![c] = "gone"]
  /\ \E done \in Done(c) :
       IF Destroys(done, mDetached[c]) THEN DestroyFrame(c) ELSE UNCHANGED <<st, fault>>
  /\ UNCHANGED <<waiter, holder, mDetached, cur, back, handles>>

Init ==
  /\ st = [f \in Frame |-> "none"]
  /\ waiter = [f \in Frame |-> Null]
  /\ obj = [f \in Frame |-> "none"]
  /\ holder = [f \in Frame |-> Main]
  /\ mDetached = [f \in Frame |-> FALSE]
  /\ cur = Main
  /\ back = [f \in Frame |-> Main]
  /\ handles = {}
  /\ fault = "none"

Step(f) ==
  \/ \E mode \in Modes : \E g \in Body : Call(g, f, mode)
  \/ Suspend(f)
  \/ Notify(f)
  \/ Forget(f)
  \/ FinishAwaited(f)
  \/ FinishAlone(f)
  \/ DropTask(f)

Next == \E f \in Frame : Step(f)

\* The thread does not stop in the middle of an expression.
Fairness == \A f \in Frame : WF_vars(DropTask(f))

Spec == Init /\ [][Next]_vars /\ Fairness

(***************************************************************************)
(* Properties.                                                             *)
(***************************************************************************)

\* Type invariant of the frames' state.
TypeOK ==
  /\ st \in [Frame -> States]
  /\ waiter \in [Frame -> Frame \cup {Null}]
  /\ obj \in [Frame -> {"none", "temp", "held", "gone"}]
  /\ holder \in [Frame -> Body]
  /\ mDetached \in [Frame -> BOOLEAN]
  /\ cur \in Body
  /\ back \in [Frame -> Body]
  /\ handles \subseteq Frame
  /\ fault \in Faults

\* ~task() and final_awaiter agree on who destroys a frame: none is destroyed
\* twice, however starts, nested resumes, suspensions and ends interleave.
NoDoubleDestroy == fault # "double destroy"

\* A frame waiting for a task is resumed by exactly one frame, which is still
\* there to do it; nobody else will name it as its waiter.
WaiterServed ==
  \A g \in Frame : st[g] = "awaiting" =>
    \E c \in Frame :
      /\ waiter[c] = g /\ st[c] \in {"active", "awaiting", "io"}
      /\ \A d \in Frame : waiter[d] = g /\ st[d] \in {"active", "awaiting", "io"} => d = c

\* A frame that ended and did not destroy itself is destroyed by the task
\* object of its waiter: no frame is leaked.
FinalReleased == \A f \in Frame : st[f] = "final" ~> st[f] = "destroyed"
=============================================================================

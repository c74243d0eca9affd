--------------------------- MODULE IOContextProofs ---------------------------
(***************************************************************************)
(* The safety invariants of IOContext, proved for any number of            *)
(* descriptors and coroutines and any batch size of epoll_wait.            *)
(***************************************************************************)
EXTENDS IOContext, TLAPS

(***************************************************************************)
(* The inductive invariant, in parts.                                      *)
(***************************************************************************)

Waiting(k) == co[k] = "wait"

\* Who owns what: an operation in progress is on a descriptor of the coroutine
\* that awaits it, and only coroutines that have not returned own descriptors.
Ownership ==
  /\ \A k \in Coro : co[k] \in {"wait", "woken"} => op[k] \in Op /\ owner[op[k].fd] = k
  /\ \A a \in Live : co[owner[a]] # "idle"

\* The sets of IOContext and of the kernel hold live objects only.
Registry ==
  /\ managed_fd = Live
  /\ epset = Live
  /\ processedSockets \subseteq Live
  /\ ready \subseteq Live

\* io_state_ is what the kernel was told last.
Synced == \A a \in Live : interest[a] = io_state[a]

\* A descriptor stores no handle but its owner's or that of a frame its owner
\* has destroyed, and a suspended coroutine has left its handle where the awaited
\* direction looks for it.
Handles ==
  /\ \A a \in Live : /\ coroRecv[a] \in {Null, Lost, owner[a]}
                      /\ coroSend[a] \in {Null, Lost, owner[a]}
  /\ \A k \in Coro : Waiting(k) =>
       IF op[k].dir = "IN" THEN coroRecv[op[k].fd] = k ELSE coroSend[op[k].fd] = k

\* The mask in force after the coming EPOLL_CTL_MOD has the awaited direction.
Pending ==
  \A k \in Coro : Waiting(k) =>
    IF op[k].fd \in processedSockets
      THEN op[k].dir \in io_new_state[op[k].fd] ELSE op[k].dir \in io_state[op[k].fd]

\* In epoll_wait nothing runs, the batch is handled and every mask is applied.
Quiet ==
  /\ phase \in {"boot", "wait"} => events = {} /\ half = {}
  /\ phase = "wait" => /\ Running = {}
                       /\ \A a \in processedSockets : io_new_state[a] = io_state[a]

\* Where a wake-up that a suspended coroutine is owed still is: on the ready
\* list, in the batch, in the second half of the current event, or in an
\* EPOLL_CTL_MOD to come, which polls the file again.
Owed(k) ==
  LET a == op[k].fd IN
  \/ a \in ready
  \/ \E e \in events : e.ptr = a /\ op[k].dir \in e.ev
  \/ op[k].dir = "OUT" /\ a \in half
  \/ phase # "wait" /\ a \in processedSockets /\ io_new_state[a] # io_state[a]

Wakeups == \A k \in Coro : Waiting(k) /\ op[k].dir \in poll[op[k].fd] => Owed(k)

\* No freed object was used, but for the resumeSend() after resumeRecv().
Kept == phase # "freed"

IInv ==
  /\ TypeOK /\ Ownership /\ Registry /\ Synced /\ Handles /\ Pending /\ Quiet /\ Wakeups
  /\ Kept

USE NullAssumption, LostAssumption, FlagAssumption

\* Starting a task keeps IInv: the new coroutine owns nothing yet.
LEMMA SpawnInv ==
  ASSUME NEW k \in Coro, IInv, Spawn(k)
  PROVE  IInv'
<1> USE DEF afdVars, loopVars, coroVars, kernelVars
<1>1. TypeOK'
  BY DEF IInv, Spawn, TypeOK
<1>2. Ownership'
  BY DEF IInv, Spawn, Ownership, Live
<1>3. Registry'
  BY DEF IInv, Spawn, Registry, Live
<1>4. Synced'
  BY DEF IInv, Spawn, Synced, Live
<1>5. Handles'
  BY DEF IInv, Spawn, Handles, Live, Waiting
<1>6. Pending'
  BY DEF IInv, Spawn, Pending, Waiting
<1>7. Quiet'
  BY DEF IInv, Spawn, Quiet
<1>8. Wakeups'
  BY DEF IInv, Spawn, Wakeups, Owed, Waiting
<1>9. Kept'
  BY DEF IInv, Kept, Spawn
<1> QED
  BY <1>1, <1>2, <1>3, <1>4, <1>5, <1>6, <1>7, <1>8, <1>9 DEF IInv

\* Making and attaching a descriptor keeps IInv: its address was free, so no
\* operation, handle or wake-up refers to it.
LEMMA ConstructInv ==
  ASSUME NEW k \in Coro, NEW a \in Desc, NEW mask \in Masks, NEW r \in SUBSET Flag,
         NEW watch \in BOOLEAN, IInv, Construct(k, a, mask, r, watch)
  PROVE  IInv'
<1> USE DEF afdVars, loopVars, coroVars, kernelVars
<1>1. TypeOK'
  BY DEF IInv, Construct, Attach, TypeOK, Masks, Dir
<1>2. Ownership'
  BY DEF IInv, Construct, Runs, Ownership, Live
<1>3. Registry'
  BY DEF IInv, Construct, Attach, TypeOK, Registry, Live
<1>4. Synced'
  BY DEF IInv, Construct, Attach, TypeOK, Synced, Live
<1>5. Handles'
  BY DEF IInv, Construct, TypeOK, Ownership, Handles, Live, Waiting
<1>6. Pending'
  BY DEF IInv, Construct, Attach, Ownership, Pending, Waiting
<1>7. Quiet'
  BY DEF IInv, Construct, Runs, Quiet, Running
<1>8. Wakeups'
  BY DEF IInv, Construct, Attach, Ownership, Wakeups, Owed, Waiting
<1>9. Kept'
  BY DEF IInv, Kept, Construct
<1> QED
  BY <1>1, <1>2, <1>3, <1>4, <1>5, <1>6, <1>7, <1>8, <1>9 DEF IInv

\* An operation that completes at once keeps IInv: its unwatch concerns a
\* descriptor whose owner runs, so nobody is suspended on it.
LEMMA AwaitDoneInv ==
  ASSUME NEW k \in Coro, NEW a \in Desc, NEW dir \in Dir, IInv, AwaitDone(k, a, dir)
  PROVE  IInv'
<1> USE DEF afdVars, loopVars, coroVars, kernelVars
<1>1. TypeOK'
  BY DEF IInv, AwaitDone, After, Unwatch, TypeOK
<1>2. Ownership'
  BY DEF IInv, AwaitDone, Ownership, Live
<1>3. Registry'
  BY DEF IInv, AwaitDone, Unwatch, Registry, Live
<1>4. Synced'
  BY DEF IInv, AwaitDone, Synced, Live
<1>5. Handles'
  BY DEF IInv, AwaitDone, Handles, Live, Waiting
<1>6. Pending'
  BY DEF IInv, AwaitDone, Unwatch, Runs, Ownership, Pending, Waiting
<1>7. Quiet'
  BY DEF IInv, AwaitDone, Runs, Quiet, Running
<1>8. Wakeups'
  BY DEF IInv, AwaitDone, Unwatch, Runs, Ownership, Wakeups, Owed, Waiting
<1>9. Kept'
  BY DEF IInv, Kept, AwaitDone
<1> QED
  BY <1>1, <1>2, <1>3, <1>4, <1>5, <1>6, <1>7, <1>8, <1>9 DEF IInv

\* Suspending keeps IInv: the handle is stored and the direction subscribed, and
\* after EAGAIN the file is not ready, so no wake-up is owed yet.
LEMMA AwaitSuspendInv ==
  ASSUME NEW k \in Coro, NEW a \in Desc, NEW dir \in Dir, NEW watch \in BOOLEAN, IInv,
         AwaitSuspend(k, a, dir, watch)
  PROVE  IInv'
<1> USE DEF afdVars, loopVars, coroVars, kernelVars
<1>1. TypeOK'
  BY DEF IInv, AwaitSuspend, Watch, TypeOK, Op
<1>2. Ownership'
  BY DEF IInv, AwaitSuspend, TypeOK, Ownership, Live, Op
<1>3. Registry'
  BY DEF IInv, AwaitSuspend, Watch, Registry, Live
<1>4. Synced'
  BY DEF IInv, AwaitSuspend, Synced, Live
<1>5. Handles'
  <2>1. co[k] = "run" /\ owner[a] = k
    BY DEF AwaitSuspend, Runs
  <2>2. ASSUME NEW b \in Live'
        PROVE  coroRecv'[b] \in {Null, Lost, owner'[b]} /\ coroSend'[b] \in {Null, Lost, owner'[b]}
    BY <2>1 DEF IInv, TypeOK, Handles, AwaitSuspend, Live
  <2>3. ASSUME NEW c \in Coro, co'[c] = "wait"
        PROVE  IF op'[c].dir = "IN" THEN coroRecv'[op'[c].fd] = c
                                    ELSE coroSend'[op'[c].fd] = c
    <3>1. CASE c = k
      BY <2>1, <3>1 DEF IInv, TypeOK, AwaitSuspend, Dir
    <3>2. CASE c # k
      <4>1. co[c] = "wait" /\ op'[c] = op[c] /\ op[c].fd # a
        BY <2>1, <2>3, <3>2 DEF IInv, TypeOK, Ownership, AwaitSuspend
      <4> QED
        BY <4>1, <3>2 DEF IInv, TypeOK, Handles, Waiting, AwaitSuspend
    <3> QED
      BY <3>1, <3>2
  <2> QED
    BY <2>2, <2>3 DEF Handles, Waiting
<1>6. Pending'
  BY DEF IInv, AwaitSuspend, Watch, TypeOK, Ownership, Pending, Waiting
<1>7. Quiet'
  BY DEF IInv, AwaitSuspend, Runs, Quiet, Running
<1>8. Wakeups'
  BY DEF IInv, AwaitSuspend, CanComplete, Watch, TypeOK, Ownership, Wakeups, Owed, Waiting
<1>9. Kept'
  BY DEF IInv, Kept, AwaitSuspend
<1> QED
  BY <1>1, <1>2, <1>3, <1>4, <1>5, <1>6, <1>7, <1>8, <1>9 DEF IInv

\* The exit of the process leaves nothing behind, and keeps IInv.
LEMMA AwaitFailInv ==
  ASSUME NEW k \in Coro, NEW a \in Desc, IInv, AwaitFail(k, a)
  PROVE  IInv'
<1> USE DEF afdVars, loopVars, coroVars, kernelVars
<1>1. TypeOK'
  BY DEF AwaitFail, ForAll, TypeOK, Phases
<1>2. Ownership'
  BY DEF AwaitFail, ForAll, Ownership, Live
<1>3. Registry'
  BY DEF AwaitFail, ForAll, Registry, Live
<1>4. Synced'
  BY DEF AwaitFail, Synced
<1>5. Handles'
  BY DEF AwaitFail, Handles, Waiting
<1>6. Pending'
  BY DEF AwaitFail, Pending, Waiting
<1>7. Quiet'
  BY DEF AwaitFail, Quiet
<1>8. Wakeups'
  BY DEF AwaitFail, Wakeups, Waiting
<1>9. Kept'
  BY DEF IInv, Kept, AwaitFail
<1> QED
  BY <1>1, <1>2, <1>3, <1>4, <1>5, <1>6, <1>7, <1>8, <1>9 DEF IInv

\* await_resume keeps IInv: the coroutine no longer waits, and it was the only
\* one suspended on that descriptor.
LEMMA AwaitResumeInv ==
  ASSUME NEW k \in Coro, IInv, AwaitResume(k)
  PROVE  IInv'
<1> USE DEF afdVars, loopVars, coroVars, kernelVars
<1>0. op[k] \in Op /\ op[k].fd \in Desc /\ owner[op[k].fd] = k
  BY DEF IInv, Ownership, AwaitResume, Op
<1>1. TypeOK'
  BY <1>0 DEF IInv, AwaitResume, After, Unwatch, TypeOK
<1>2. Ownership'
  BY DEF IInv, AwaitResume, TypeOK, Ownership, Live
<1>3. Registry'
  BY <1>0 DEF IInv, AwaitResume, Unwatch, Registry, Live
<1>4. Synced'
  BY DEF IInv, AwaitResume, Synced, Live
<1>5. Handles'
  BY DEF IInv, AwaitResume, Handles, Live, Waiting
<1>6. Pending'
  BY DEF IInv, AwaitResume, Unwatch, Ownership, Pending, Waiting
<1>7. Quiet'
  BY DEF IInv, AwaitResume, Quiet, Running
<1>8. Wakeups'
  BY DEF IInv, AwaitResume, Unwatch, Ownership, Wakeups, Owed, Waiting
<1>9. Kept'
  BY DEF IInv, Kept, AwaitResume
<1> QED
  BY <1>1, <1>2, <1>3, <1>4, <1>5, <1>6, <1>7, <1>8, <1>9 DEF IInv

\* Destroying a descriptor keeps IInv: detach() removes it from every set, and
\* its owner runs, so nobody is suspended on it.
LEMMA DestroyInv ==
  ASSUME NEW k \in Coro, NEW a \in Desc, IInv, Destroy(k, a)
  PROVE  IInv'
<1> USE DEF afdVars, loopVars, coroVars, kernelVars, Unlisted
<1>1. TypeOK'
  BY DEF IInv, Destroy, Detach, TypeOK
<1>2. Ownership'
  BY DEF IInv, Destroy, Runs, Ownership, Live
<1>3. Registry'
  BY DEF IInv, Destroy, Detach, TypeOK, Registry, Live
<1>4. Synced'
  BY DEF IInv, Destroy, Detach, TypeOK, Synced, Live
<1>5. Handles'
  BY DEF IInv, Destroy, Runs, Handles, Live, Waiting
<1>6. Pending'
  BY DEF IInv, Destroy, Detach, Runs, Ownership, Pending, Waiting
<1>7. Quiet'
  BY DEF IInv, Destroy, Detach, Quiet, Running
<1>8. Wakeups'
  BY DEF IInv, Destroy, Detach, TypeOK, Wakeups, Owed, Waiting
<1>9. Kept'
  BY DEF IInv, Kept, Destroy
<1> QED
  BY <1>1, <1>2, <1>3, <1>4, <1>5, <1>6, <1>7, <1>8, <1>9 DEF IInv

\* The end of a frame keeps IInv: the coroutine runs, so the handle of nobody
\* who waits is lost.
LEMMA EndFrameInv ==
  ASSUME NEW k \in Coro, IInv, EndFrame(k)
  PROVE  IInv'
<1> USE DEF afdVars, loopVars, coroVars, kernelVars
<1>1. TypeOK'
  BY DEF IInv, EndFrame, TypeOK
<1>2. Ownership'
  BY DEF IInv, EndFrame, Ownership, Live
<1>3. Registry'
  BY DEF IInv, EndFrame, Registry, Live
<1>4. Synced'
  BY DEF IInv, EndFrame, Synced, Live
<1>5. Handles'
  BY DEF IInv, EndFrame, Runs, TypeOK, Ownership, Handles, Live, Waiting, Op
<1>6. Pending'
  BY DEF IInv, EndFrame, Pending, Waiting
<1>7. Quiet'
  BY DEF IInv, EndFrame, Quiet, Running
<1>8. Wakeups'
  BY DEF IInv, EndFrame, Wakeups, Owed, Waiting
<1>9. Kept'
  BY DEF IInv, Kept, EndFrame
<1> QED
  BY <1>1, <1>2, <1>3, <1>4, <1>5, <1>6, <1>7, <1>8, <1>9 DEF IInv

\* A coroutine that returns keeps IInv, since it owns no descriptor any more.
LEMMA FinishInv ==
  ASSUME NEW k \in Coro, IInv, Finish(k)
  PROVE  IInv'
<1> USE DEF afdVars, loopVars, coroVars, kernelVars
<1>1. TypeOK'
  BY DEF IInv, Finish, TypeOK
<1>2. Ownership'
  BY DEF IInv, Finish, Ownership, Live
<1>3. Registry'
  BY DEF IInv, Finish, Registry, Live
<1>4. Synced'
  BY DEF IInv, Finish, Synced, Live
<1>5. Handles'
  BY DEF IInv, Finish, Handles, Live, Waiting
<1>6. Pending'
  BY DEF IInv, Finish, Pending, Waiting
<1>7. Quiet'
  BY DEF IInv, Finish, Quiet, Running
<1>8. Wakeups'
  BY DEF IInv, Finish, Wakeups, Owed, Waiting
<1>9. Kept'
  BY DEF IInv, Kept, Finish
<1> QED
  BY <1>1, <1>2, <1>3, <1>4, <1>5, <1>6, <1>7, <1>8, <1>9 DEF IInv

\* epoll_wait keeps IInv: what leaves the ready list is in the batch, with the
\* awaited direction among its events, and what is not in the batch stays.
LEMMA EpollWaitInv ==
  ASSUME IInv, EpollWait
  PROVE  IInv'
<1> USE DEF afdVars, loopVars, coroVars, kernelVars
<1>1. TypeOK'
  BY DEF IInv, EpollWait, Reported, TypeOK, Phases, Event
<1>2. Ownership'
  BY DEF IInv, EpollWait, Ownership, Live
<1>3. Registry'
  BY DEF IInv, EpollWait, Registry, Live
<1>4. Synced'
  BY DEF IInv, EpollWait, Synced, Live
<1>5. Handles'
  BY DEF IInv, EpollWait, Handles, Live, Waiting
<1>6. Pending'
  BY DEF IInv, EpollWait, Pending, Waiting
<1>7. Quiet'
  BY DEF EpollWait, Quiet
<1>8. Wakeups'
  <2> SUFFICES ASSUME NEW k \in Coro, co[k] = "wait", op[k].dir \in poll[op[k].fd]
               PROVE  Owed(k)'
    BY DEF Wakeups, Waiting, EpollWait
  <2> DEFINE a == op[k].fd
             d == op[k].dir
  <2>1. a \in Desc /\ d \in Dir /\ owner[a] = k /\ a \in Live
    BY DEF IInv, Ownership, Op, Live
  <2>2. CASE d \notin io_state[a]
    \* In boot, before the first EPOLL_CTL_MOD: the mask is still to be applied.
    BY <2>1, <2>2 DEF IInv, Pending, Waiting, EpollWait, Owed
  <2>3. CASE d \in io_state[a]
    <3>1. d \in Reported(poll[a], interest[a])
      BY <2>1, <2>3 DEF IInv, Synced, Reported
    <3>2. \/ a \in ready
          \/ phase # "wait" /\ a \in processedSockets /\ io_new_state[a] # io_state[a]
      <4>1. Owed(k)
        BY <2>1 DEF IInv, Wakeups, Waiting
      <4>2. events = {} /\ half = {}
        BY DEF IInv, Quiet, EpollWait
      <4> QED
        BY <4>1, <4>2 DEF Owed
    <3>3. CASE a \in ready
      <4>1. PICK batch \in SUBSET {b \in ready : Reported(poll[b], interest[b]) # {}} :
              /\ events' = {[ptr |-> b, ev |-> Reported(poll[b], interest[b])] : b \in batch}
              /\ ready' = {b \in ready : Reported(poll[b], interest[b]) # {}} \ batch
        BY DEF EpollWait
      <4>2. CASE a \in batch
        <5>1. [ptr |-> a, ev |-> Reported(poll[a], interest[a])] \in events'
          BY <4>1, <4>2
        <5> QED
          BY <5>1, <3>1 DEF Owed, EpollWait
      <4>3. CASE a \notin batch
        BY <3>1, <3>3, <4>1, <4>3 DEF Owed, EpollWait
      <4> QED
        BY <4>2, <4>3
    <3>4. CASE a \notin ready
      BY <3>2, <3>4 DEF Owed, EpollWait
    <3> QED
      BY <3>3, <3>4
  <2> QED
    BY <2>2, <2>3
<1>9. Kept'
  BY DEF IInv, Kept, EpollWait
<1> QED
  BY <1>1, <1>2, <1>3, <1>4, <1>5, <1>6, <1>7, <1>8, <1>9 DEF IInv

\* Dropping an event of a freed descriptor keeps IInv: nobody waits on it.
LEMMA DispatchUnmanagedInv ==
  ASSUME NEW e \in events, IInv, DispatchUnmanaged(e)
  PROVE  IInv'
<1> USE DEF afdVars, loopVars, coroVars, kernelVars
<1>1. TypeOK'
  BY DEF IInv, DispatchUnmanaged, TypeOK
<1>2. Ownership'
  BY DEF IInv, DispatchUnmanaged, Ownership, Live
<1>3. Registry'
  BY DEF IInv, DispatchUnmanaged, Registry, Live
<1>4. Synced'
  BY DEF IInv, DispatchUnmanaged, Synced, Live
<1>5. Handles'
  BY DEF IInv, DispatchUnmanaged, Handles, Live, Waiting
<1>6. Pending'
  BY DEF IInv, DispatchUnmanaged, Pending, Waiting
<1>7. Quiet'
  BY DEF DispatchUnmanaged, Quiet
<1>8. Wakeups'
  BY DEF IInv, DispatchUnmanaged, Managed, Ownership, Registry, Wakeups, Owed, Waiting, Live, Op
<1>9. Kept'
  BY DEF IInv, Kept, DispatchUnmanaged
<1> QED
  BY <1>1, <1>2, <1>3, <1>4, <1>5, <1>6, <1>7, <1>8, <1>9 DEF IInv

\* The EPOLLIN half keeps IInv: a waiting reader is resumed through coroRecv_, and
\* a waiting writer is still owed the second half.
LEMMA DispatchInInv ==
  ASSUME NEW e \in events, IInv, DispatchIn(e)
  PROVE  IInv'
<1> USE DEF afdVars, loopVars, coroVars, kernelVars, OutTest
<1>1. TypeOK'
  <2>1. phase' \in Phases
    BY DEF IInv, TypeOK, DispatchIn, Phases, Undefined
  <2>2. half' \subseteq Desc /\ e.ptr \in Desc
    BY DEF IInv, TypeOK, DispatchIn, Event
  <2>3. co' \in [Coro -> {"idle", "run", "wait", "woken"}]
    BY DEF IInv, TypeOK, DispatchIn, Resume
  <2>4. doneRecv' \in [Desc -> BOOLEAN]
    BY <2>2 DEF IInv, TypeOK, DispatchIn
  <2> QED
    BY <2>1, <2>2, <2>3, <2>4 DEF IInv, TypeOK, DispatchIn
<1>2. Ownership'
  BY DEF IInv, DispatchIn, Resume, Ownership, Live
<1>3. Registry'
  BY DEF IInv, DispatchIn, Registry, Live
<1>4. Synced'
  BY DEF IInv, DispatchIn, Synced, Live
<1>5. Handles'
  BY DEF IInv, DispatchIn, Resume, Handles, Live, Waiting
<1>6. Pending'
  BY DEF IInv, DispatchIn, Resume, Pending, Waiting
<1>7. Quiet'
  BY DEF DispatchIn, Quiet
<1>8. Wakeups'
  <2> SUFFICES ASSUME NEW k \in Coro, co'[k] = "wait", op[k].dir \in poll[op[k].fd]
               PROVE  Owed(k)'
    BY DEF Wakeups, Waiting, DispatchIn
  <2> DEFINE a == op[k].fd
             d == op[k].dir
  <2>1. co[k] = "wait" /\ a \in Desc /\ d \in Dir
    BY DEF IInv, TypeOK, Ownership, Op, DispatchIn, Resume
  <2>2. Owed(k)
    BY <2>1 DEF IInv, Wakeups, Waiting
  <2>3. CASE e.ptr = a /\ d \in e.ev
    \* Either k is resumed here, or the second half of the iteration does it.
    <3>1. d # "IN"
      <4> SUFFICES ASSUME d = "IN" PROVE FALSE
        OBVIOUS
      <4>1. coroRecv[a] = k
        BY <2>1 DEF IInv, Handles, Waiting
      <4>2. co' = [co EXCEPT ![k] = "woken"]
        BY <2>1, <2>3, <4>1 DEF DispatchIn, Resume
      <4> QED
        BY <4>2 DEF IInv, TypeOK
    <3>2. half' = {a} /\ op'[k].dir = "OUT" /\ op' = op
      BY <2>1, <2>3, <3>1 DEF DispatchIn, Dir
    <3> QED
      BY <3>2 DEF Owed
  <2>4. CASE ~(e.ptr = a /\ d \in e.ev)
    <3>1. \A x \in events : x.ptr = a /\ d \in x.ev => x \in events'
      BY <2>4 DEF DispatchIn
    <3>2. half = {}
      BY DEF DispatchIn
    <3> QED
      BY <2>2, <3>1, <3>2 DEF Owed, DispatchIn
  <2> QED
    BY <2>3, <2>4
<1>9. Kept'
  BY DEF IInv, Kept, DispatchIn, Registry, Managed
<1> QED
  BY <1>1, <1>2, <1>3, <1>4, <1>5, <1>6, <1>7, <1>8, <1>9 DEF IInv

\* The EPOLLOUT half keeps IInv: a waiting writer is resumed through coroSend_.
LEMMA DispatchOutInv ==
  ASSUME NEW a \in half, IInv, DispatchOut(a)
  PROVE  IInv'
<1> USE DEF afdVars, loopVars, coroVars, kernelVars
<1>1. TypeOK'
  BY DEF IInv, DispatchOut, Resume, TypeOK, Phases, Undefined
<1>2. Ownership'
  BY DEF IInv, DispatchOut, Resume, TypeOK, Ownership, Live
<1>3. Registry'
  BY DEF IInv, DispatchOut, Registry, Live
<1>4. Synced'
  BY DEF IInv, DispatchOut, Synced, Live
<1>5. Handles'
  BY DEF IInv, DispatchOut, Resume, TypeOK, Handles, Live, Waiting
<1>6. Pending'
  BY DEF IInv, DispatchOut, Resume, TypeOK, Pending, Waiting
<1>7. Quiet'
  BY DEF DispatchOut, Quiet
<1>8. Wakeups'
  <2> SUFFICES ASSUME NEW k \in Coro, co'[k] = "wait", op[k].dir \in poll[op[k].fd]
               PROVE  Owed(k)'
    BY DEF Wakeups, Waiting, DispatchOut
  <2>1. co[k] = "wait" /\ op[k] \in Op /\ owner[op[k].fd] = k
    BY DEF IInv, TypeOK, Ownership, DispatchOut, Resume
  <2>2. Owed(k)
    BY <2>1 DEF IInv, Wakeups, Waiting
  <2>3. CASE op[k].dir = "OUT" /\ op[k].fd = a
    \* a is live and holds the handle of k, so k is resumed.
    <3>1. coroSend[a] = k /\ a \in Live
      BY <2>1, <2>3 DEF IInv, TypeOK, Handles, Waiting, Live, Op
    <3>2. co' = [co EXCEPT ![k] = "woken"]
      BY <2>1, <3>1 DEF DispatchOut, Resume
    <3> QED
      BY <3>2 DEF IInv, TypeOK
  <2>4. CASE ~(op[k].dir = "OUT" /\ op[k].fd = a)
    BY <2>2, <2>4 DEF Owed, DispatchOut
  <2> QED
    BY <2>3, <2>4
<1>9. Kept'
  BY DEF IInv, Kept, DispatchOut
<1> QED
  BY <1>1, <1>2, <1>3, <1>4, <1>5, <1>6, <1>7, <1>8, <1>9 DEF IInv

\* The loop of EPOLL_CTL_MOD keeps IInv: each mask that changes is polled again,
\* so the wake-ups owed through it reach the ready list.
LEMMA ApplyModInv ==
  ASSUME IInv, ApplyMod
  PROVE  IInv'
<1> USE DEF afdVars, loopVars, coroVars, kernelVars
<1>1. TypeOK'
  BY DEF IInv, ApplyMod, TypeOK, Phases, Undefined
<1>2. Ownership'
  BY DEF IInv, ApplyMod, Ownership, Live
<1>3. Registry'
  BY DEF IInv, ApplyMod, Registry, Live
<1>4. Synced'
  BY DEF IInv, ApplyMod, Synced, Live
<1>5. Handles'
  BY DEF IInv, ApplyMod, Handles, Live, Waiting
<1>6. Pending'
  BY DEF IInv, ApplyMod, Ownership, Pending, Waiting, Op
<1>7. Quiet'
  BY DEF IInv, ApplyMod, TypeOK, Quiet, Running
<1>8. Wakeups'
  BY DEF IInv, ApplyMod, Reported, Pending, Wakeups, Owed, Waiting
<1>9. Kept'
  BY DEF IInv, Kept, ApplyMod, Registry
<1> QED
  BY <1>1, <1>2, <1>3, <1>4, <1>5, <1>6, <1>7, <1>8, <1>9 DEF IInv

\* An edge keeps IInv: it puts the descriptor on the ready list, or the mask that
\* would have asked for it is still to be applied.
LEMMA ArriveInv ==
  ASSUME NEW a \in Desc, NEW F \in SUBSET Flag, IInv, Arrive(a, F)
  PROVE  IInv'
<1> USE DEF afdVars, loopVars, coroVars, kernelVars
<1>1. TypeOK'
  BY DEF IInv, Arrive, TypeOK
<1>2. Ownership'
  BY DEF IInv, Arrive, Ownership, Live
<1>3. Registry'
  BY DEF IInv, Arrive, Registry, Live
<1>4. Synced'
  BY DEF IInv, Arrive, Synced, Live
<1>5. Handles'
  BY DEF IInv, Arrive, Handles, Live, Waiting
<1>6. Pending'
  BY DEF IInv, Arrive, Pending, Waiting
<1>7. Quiet'
  BY DEF IInv, Arrive, Quiet, Running
<1>8. Wakeups'
  BY DEF IInv, Arrive, Reported, Registry, Synced, Pending, Quiet, Wakeups, Owed, Waiting
<1>9. Kept'
  BY DEF IInv, Kept, Arrive
<1> QED
  BY <1>1, <1>2, <1>3, <1>4, <1>5, <1>6, <1>7, <1>8, <1>9 DEF IInv

\* IInv holds when main() starts.
LEMMA InitInv == Init => IInv
<1> SUFFICES ASSUME Init PROVE IInv
  OBVIOUS
<1> USE DEF Init, ForAll
<1>1. TypeOK
  BY DEF TypeOK, Phases, NoOp
<1>2. Live = {} /\ Running = {}
  BY DEF Live, Running
<1>3. \A k \in Coro : co[k] = "idle"
  OBVIOUS
<1> QED
  BY <1>1, <1>2, <1>3 DEF IInv, Ownership, Registry, Synced, Handles, Pending, Quiet,
                          Wakeups, Waiting, Kept

\* A step that changes nothing keeps IInv.
LEMMA StutterInv == IInv /\ UNCHANGED vars => IInv'
BY DEF IInv, TypeOK, Ownership, Registry, Synced, Handles, Pending, Quiet, Wakeups, Owed,
       Waiting, Live, Running, Kept, vars, afdVars, loopVars, coroVars, kernelVars

\* Every step of the reactor, of a coroutine or of the kernel keeps IInv.
LEMMA NextInv == IInv /\ [Next]_vars => IInv'
<1> SUFFICES ASSUME IInv, [Next]_vars PROVE IInv'
  OBVIOUS
<1>1. CASE RunStep
  BY <1>1, EpollWaitInv, DispatchUnmanagedInv, DispatchInInv, DispatchOutInv, ApplyModInv
     DEF RunStep
<1>2. CASE KernelStep
  BY <1>2, ArriveInv DEF KernelStep
<1>3. ASSUME NEW k \in Coro, CoroStep(k) PROVE IInv'
  BY <1>3, SpawnInv, AwaitResumeInv, FinishInv, ConstructInv, AwaitDoneInv,
     AwaitSuspendInv, AwaitFailInv, DestroyInv, EndFrameInv DEF CoroStep
<1>4. CASE UNCHANGED vars
  BY <1>4, StutterInv
<1> QED
  BY <1>1, <1>2, <1>3, <1>4 DEF Next

\* The inductive invariant holds in every reachable state.
THEOREM Invariance == Spec => []IInv
BY InitInv, NextInv, PTL DEF Spec

\* Type correctness of io_context.cc's state.
THEOREM TypeCorrect == Spec => []TypeOK
<1>1. IInv => TypeOK
  BY DEF IInv
<1> QED
  BY <1>1, Invariance, PTL

\* run() never uses a destroyed AsyncFileDescriptor for an event of the batch or
\* in the loop over processedSockets, however many descriptors the coroutines
\* destroy and make in a round, and no operation outlives its descriptor; the
\* resumeSend() after a resumeRecv() of the same iteration is the exception.
THEOREM NeverDangling == Spec => []NoDangling
<1>1. IInv => NoDangling
  BY DEF IInv, Kept, Ownership, NoDangling, Live, Op
<1> QED
  BY <1>1, Invariance, PTL

\* Between rounds every suspended coroutine is subscribed for what it awaits,
\* although watchRead, unwatchRead, watchWrite and unwatchWrite all start from
\* io_state_ and overwrite each other's io_new_state_.
THEOREM AlwaysArmed == Spec => []Armed
<1>1. IInv => Armed
  <2> SUFFICES ASSUME IInv, phase = "wait", NEW k \in Coro, co[k] = "wait"
               PROVE  op[k].dir \in interest[op[k].fd]
    BY DEF Armed
  <2>1. op[k].fd \in Live
    BY DEF IInv, Ownership, Op, Live
  <2>2. op[k].dir \in io_state[op[k].fd]
    BY DEF IInv, Pending, Waiting, Quiet
  <2> QED
    BY <2>1, <2>2 DEF IInv, Synced
<1> QED
  BY <1>1, Invariance, PTL

\* No edge is lost between the EAGAIN of a system call, the suspension, the
\* rest of the round and EPOLL_CTL_MOD.
THEOREM NoLostWakeup == Spec => []NoMissedWakeup
<1>1. IInv => NoMissedWakeup
  <2> SUFFICES ASSUME IInv, phase = "wait", NEW k \in Coro, co[k] = "wait",
                      op[k].dir \in poll[op[k].fd]
               PROVE  op[k].fd \in ready
    BY DEF NoMissedWakeup
  <2>1. Owed(k)
    BY DEF IInv, Wakeups, Waiting
  <2>2. events = {} /\ half = {}
    BY DEF IInv, Quiet
  <2> QED
    BY <2>1, <2>2 DEF Owed
<1> QED
  BY <1>1, Invariance, PTL
==============================================================================

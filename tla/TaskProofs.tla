----------------------------- MODULE TaskProofs -----------------------------
(***************************************************************************)
(* No frame is destroyed twice and none waits for ever for a frame that is *)
(* gone, for any number of coroutines, if the program starts them with co_await,     *)
(* with detach(), or through a task object that is never destroyed.        *)
(***************************************************************************)
EXTENDS Task, TLAPS

Alive(c) == st[c] \in {"active", "awaiting", "io"}

\* The executing frame is active and on top: control comes back from every
\* active frame to an active one, to no two from the same, and to the
\* executing one from none.
Stack ==
  /\ cur \in Frame => st[cur] = "active"
  /\ \A c \in Frame : st[c] = "active" /\ back[c] \in Frame =>
       st[back[c]] = "active" /\ back[c] # cur
  /\ \A c, d \in Frame :
       st[c] = "active" /\ st[d] = "active" /\ back[c] = back[d] /\ back[c] \in Frame => c = d

\* How a frame was started can be read off its promise and its task object.
Started ==
  \A c \in Frame :
    /\ st[c] = "none" <=> obj[c] = "none"
    /\ waiter[c] # Null => ~mDetached[c] /\ holder[c] = waiter[c] /\ st[c] # "none"
    /\ waiter[c] = Null /\ obj[c] = "temp" => mDetached[c]

\* An awaited frame that has not ended has a waiter that waits for it alone,
\* and a task object.
Awaited ==
  /\ \A c \in Frame : Alive(c) /\ waiter[c] # Null =>
       st[waiter[c]] = "awaiting" /\ obj[c] = "temp"
  /\ WaiterServed

\* A frame at its final suspension point is released next; a frame that is
\* gone is not the business of any task object.
Ended ==
  /\ \A c \in Frame : st[c] = "final" => waiter[c] # Null /\ obj[c] = "temp" /\ cur = waiter[c]
  /\ \A c \in Frame : st[c] = "destroyed" /\ obj[c] = "temp" => mDetached[c]

TInv == TypeOK /\ NoDoubleDestroy /\ Stack /\ Started /\ Awaited /\ Ended

\* The modes app/main.cc uses.
Safe == Modes \subseteq {"await", "detach", "hold"}

USE FrameAssumption

\* Calling a coroutine and starting its task keeps TInv, in the modes of Safe.
LEMMA CallInv ==
  ASSUME Safe, TInv, NEW g \in Body, NEW c \in Frame, NEW mode \in Modes, Call(g, c, mode)
  PROVE  TInv'
<1> USE DEF SetWaiter
<1>1. TypeOK'
  BY DEF TInv, Call, Executes, Temps, Body, TypeOK, States, Stack
<1>2. NoDoubleDestroy'
  BY DEF TInv, Call, Executes, Temps, Body, TypeOK, NoDoubleDestroy, Stack, Ended
<1>3. Stack'
  BY DEF TInv, Call, Executes, Temps, Body, TypeOK, Stack, Started, Awaited, Ended, Alive
<1>4. Started'
  <2>1. ASSUME NEW d \in Frame, d # c
        PROVE  /\ st'[d] = "none" <=> st[d] = "none"
               /\ obj'[d] = obj[d] /\ waiter'[d] = waiter[d] /\ holder'[d] = holder[d]
               /\ mDetached'[d] = mDetached[d]
    BY <2>1 DEF TInv, TypeOK, Stack, Call, Executes
  <2>2. /\ st'[c] = "active" /\ obj'[c] \in {"temp", "held"} /\ holder'[c] = g
        /\ mode = "await" => waiter'[c] = g
        /\ mode # "await" => waiter'[c] = Null
    BY DEF TInv, TypeOK, Started, Call, Executes
  <2>3. mDetached'[c] = (mode = "detach")
    BY DEF TInv, TypeOK, Call
  <2>4. mode \in {"await", "detach", "hold"} /\ (mode = "hold" => obj'[c] = "held")
    BY DEF TInv, TypeOK, Call, Safe
  <2> DEFINE P(d) == /\ st'[d] = "none" <=> obj'[d] = "none"
                     /\ waiter'[d] # Null =>
                          ~mDetached'[d] /\ holder'[d] = waiter'[d] /\ st'[d] # "none"
                     /\ waiter'[d] = Null /\ obj'[d] = "temp" => mDetached'[d]
  <2>5. ASSUME NEW d \in Frame, d # c PROVE P(d)
    BY <2>1, <2>5 DEF TInv, Started
  <2>6. CASE mode = "await"
    <3>1. ~mDetached'[c] /\ g # Null
      BY <2>3, <2>6 DEF Call, Body
    <3>2. P(c)
      BY <2>2, <2>6, <3>1
    <3> QED
      BY <2>5, <3>2 DEF Started
  <2>7. CASE mode # "await"
    <3>1. mode # "hold" => mDetached'[c]
      BY <2>3, <2>4, <2>7
    <3>2. P(c)
      BY <2>2, <2>4, <2>7, <3>1
    <3> QED
      BY <2>5, <3>2 DEF Started
  <2> QED
    BY <2>6, <2>7
<1>5. Awaited'
  BY DEF TInv, Call, Executes, Temps, Body, TypeOK, Stack, Started, Awaited, Ended,
         WaiterServed, Alive
<1>6. Ended'
  BY DEF TInv, Call, Executes, Temps, Body, TypeOK, Stack, Started, Ended, Awaited, Alive
<1> QED
  BY <1>1, <1>2, <1>3, <1>4, <1>5, <1>6 DEF TInv

\* Suspending in an operation keeps TInv: control goes back down the stack.
LEMMA SuspendInv ==
  ASSUME Safe, TInv, NEW f \in Frame, Suspend(f)
  PROVE  TInv'
<1>1. TypeOK'
  BY DEF TInv, Suspend, Executes, Temps, TypeOK, States, Body, Stack
<1>2. NoDoubleDestroy'
  BY DEF TInv, Suspend, Executes, Temps, TypeOK, NoDoubleDestroy, Stack, Ended
<1>3. Stack'
  BY DEF TInv, Suspend, Executes, Temps, TypeOK, Stack, Started, Awaited, Ended, Alive, Body
<1>4. Started'
  BY DEF TInv, Suspend, Executes, Temps, TypeOK, Stack, Started, Ended, Awaited, Alive, Safe
<1>5. Awaited'
  BY DEF TInv, Suspend, Executes, Temps, TypeOK, Stack, Started, Awaited, Ended,
         WaiterServed, Alive
<1>6. Ended'
  BY DEF TInv, Suspend, Executes, Temps, TypeOK, Stack, Started, Ended, Awaited, Alive
<1> QED
  BY <1>1, <1>2, <1>3, <1>4, <1>5, <1>6 DEF TInv

\* run() resuming a stored handle keeps TInv: the frame goes on from where it
\* is suspended, or what happens is not a second destruction.
LEMMA NotifyInv ==
  ASSUME Safe, TInv, NEW f \in Frame, Notify(f)
  PROVE  TInv'
<1>1. CASE st[f] = "io"
  <2>1. /\ st[f] = "io" /\ cur = Main
        /\ st' = [st EXCEPT ![f] = "active"]
        /\ back' = [back EXCEPT ![f] = Main]
        /\ cur' = f
        /\ UNCHANGED <<waiter, obj, holder, mDetached, handles, fault>>
    BY <1>1 DEF Notify, Executes
  <2>2. TypeOK'
    BY <2>1 DEF TInv, TypeOK, States, Body
  <2>3. NoDoubleDestroy'
    BY <2>1 DEF TInv, NoDoubleDestroy
  <2>4. Stack'
    BY <2>1 DEF TInv, TypeOK, Stack
  <2>5. Started'
    BY <2>1 DEF TInv, TypeOK, Started
  <2>6. Awaited'
    BY <2>1 DEF TInv, TypeOK, Awaited, WaiterServed, Alive
  <2>7. Ended'
    BY <2>1 DEF TInv, TypeOK, Ended, Started
  <2> QED
    BY <2>2, <2>3, <2>4, <2>5, <2>6, <2>7 DEF TInv
<1>2. CASE st[f] # "io"
  <2>1. /\ fault' \in Faults /\ fault' # "double destroy"
        /\ UNCHANGED <<st, waiter, obj, holder, mDetached, cur, back, handles>>
    BY <1>2 DEF Notify, Faults
  <2>2. TypeOK' /\ NoDoubleDestroy'
    BY <2>1 DEF TInv, TypeOK, NoDoubleDestroy
  <2>3. Stack' /\ Started'
    BY <2>1 DEF TInv, Stack, Started
  <2>4. Awaited'
    <3>1. waiter' = waiter /\ st' = st /\ obj' = obj
      BY <2>1
    <3> QED
      BY <3>1 DEF TInv, Awaited, WaiterServed, Alive
  <2>5. Ended'
    BY <2>1 DEF TInv, Ended
  <2> QED
    BY <2>2, <2>3, <2>4, <2>5 DEF TInv
<1> QED
  BY <1>1, <1>2

\* A handle that is overwritten or freed with its descriptor keeps TInv.
LEMMA ForgetInv ==
  ASSUME Safe, TInv, NEW f \in Frame, Forget(f)
  PROVE  TInv'
<1>1. TypeOK' /\ NoDoubleDestroy'
  BY DEF TInv, Forget, TypeOK, NoDoubleDestroy
<1>2. Stack' /\ Started'
  BY DEF TInv, Forget, Stack, Started
<1>3. Awaited'
  BY DEF TInv, Forget, Awaited, WaiterServed, Alive
<1>4. Ended'
  BY DEF TInv, Forget, Ended
<1> QED
  BY <1>1, <1>2, <1>3, <1>4 DEF TInv

\* A frame that ends and resumes its waiter keeps TInv: the waiter was waiting,
\* and its task object is the one that will destroy the frame.
LEMMA FinishAwaitedInv ==
  ASSUME Safe, TInv, NEW f \in Frame, FinishAwaited(f)
  PROVE  TInv'
<1>1. TypeOK'
  BY DEF TInv, FinishAwaited, Executes, Temps, TypeOK, States, Body, Stack
<1>2. NoDoubleDestroy'
  BY DEF TInv, FinishAwaited, Executes, Temps, TypeOK, NoDoubleDestroy, Stack, Ended
<1>3. Stack'
  BY DEF TInv, FinishAwaited, Executes, Temps, TypeOK, Stack, Started, Awaited, Ended,
         Alive, Body
<1>4. Started'
  BY DEF TInv, FinishAwaited, Executes, Temps, TypeOK, Stack, Started, Ended, Awaited,
         Alive, Safe
<1>5. Awaited'
  BY DEF TInv, FinishAwaited, Executes, Temps, TypeOK, Stack, Started, Awaited, Ended,
         WaiterServed, Alive
<1>6. Ended'
  BY DEF TInv, FinishAwaited, Executes, Temps, TypeOK, Stack, Started, Ended, Awaited, Alive
<1> QED
  BY <1>1, <1>2, <1>3, <1>4, <1>5, <1>6 DEF TInv

\* A frame that ends without a waiter destroys itself and keeps TInv: it was
\* detached or held, so no task object destroys it again.
LEMMA FinishAloneInv ==
  ASSUME Safe, TInv, NEW f \in Frame, FinishAlone(f)
  PROVE  TInv'
<1>1. TypeOK'
  BY DEF TInv, FinishAlone, DestroyFrame, Executes, Temps, TypeOK, States, Body, Stack
<1>2. NoDoubleDestroy'
  BY DEF TInv, FinishAlone, DestroyFrame, Executes, Temps, TypeOK, NoDoubleDestroy, Stack, Ended
<1>3. Stack'
  BY DEF TInv, FinishAlone, DestroyFrame, Executes, Temps, TypeOK, Stack, Started, Awaited,
         Ended, Alive, Body
<1>4. Started'
  BY DEF TInv, FinishAlone, DestroyFrame, Executes, Temps, TypeOK, Stack, Started, Ended,
         Awaited, Alive, Safe
<1>5. Awaited'
  BY DEF TInv, FinishAlone, DestroyFrame, Executes, Temps, TypeOK, Stack, Started, Awaited,
         Ended, WaiterServed, Alive
<1>6. Ended'
  BY DEF TInv, FinishAlone, DestroyFrame, Executes, Temps, TypeOK, Stack, Started, Ended,
         Awaited, Alive
<1> QED
  BY <1>1, <1>2, <1>3, <1>4, <1>5, <1>6 DEF TInv

\* ~task() keeps TInv: it destroys the frame exactly if it is at its final
\* suspension point and was awaited.
LEMMA DropTaskInv ==
  ASSUME Safe, TInv, NEW f \in Frame, DropTask(f)
  PROVE  TInv'
<1> USE DEF Destroys
\* Either the frame is detached and left alone, or it ended and waits for this.
<1>1. CASE mDetached[f]
  <2>1. /\ obj' = [obj EXCEPT ![f] = "gone"] /\ obj[f] = "temp"
        /\ UNCHANGED <<st, fault, waiter, holder, mDetached, cur, back, handles>>
    BY <1>1 DEF DropTask
  <2>2. waiter[f] = Null
    BY <1>1 DEF TInv, Started
  <2>3. TypeOK'
    BY <2>1 DEF TInv, TypeOK
  <2>4. NoDoubleDestroy' /\ Stack'
    BY <2>1 DEF TInv, NoDoubleDestroy, Stack
  <2>5. Started'
    BY <2>1 DEF TInv, TypeOK, Started
  <2>6. Awaited'
    BY <2>1, <2>2 DEF TInv, TypeOK, Awaited, WaiterServed, Alive
  <2>7. Ended'
    BY <2>1, <2>2 DEF TInv, TypeOK, Ended
  <2> QED
    BY <2>3, <2>4, <2>5, <2>6, <2>7 DEF TInv
<1>2. CASE ~mDetached[f]
  <2>1. waiter[f] \in Frame /\ holder[f] = waiter[f]
    BY <1>2 DEF TInv, TypeOK, Started, DropTask
  <2>2. st[waiter[f]] # "awaiting"
    BY <2>1 DEF TInv, Stack, DropTask
  <2>3. st[f] = "final"
    BY <1>2, <2>1, <2>2 DEF TInv, TypeOK, States, Started, Awaited, Ended, Alive, DropTask
  <2>4. /\ obj' = [obj EXCEPT ![f] = "gone"]
        /\ st' = [st EXCEPT ![f] = "destroyed"]
        /\ UNCHANGED <<fault, waiter, holder, mDetached, cur, back, handles>>
    BY <1>2, <2>3 DEF DropTask, Done, DestroyFrame
  <2>5. TypeOK'
    BY <2>4 DEF TInv, TypeOK, States
  <2>6. NoDoubleDestroy'
    BY <2>4 DEF TInv, NoDoubleDestroy
  <2>7. Stack'
    BY <2>3, <2>4 DEF TInv, TypeOK, Stack
  <2>8. Started'
    BY <2>3, <2>4 DEF TInv, TypeOK, Started
  <2>9. Awaited'
    BY <2>3, <2>4 DEF TInv, TypeOK, Awaited, WaiterServed, Alive
  <2>10. Ended'
    BY <2>3, <2>4 DEF TInv, TypeOK, Ended
  <2> QED
    BY <2>5, <2>6, <2>7, <2>8, <2>9, <2>10 DEF TInv
<1> QED
  BY <1>1, <1>2

\* TInv holds when main() starts.
LEMMA InitInv == Init => TInv
BY DEF Init, TInv, TypeOK, NoDoubleDestroy, Stack, Started, Awaited, Ended, WaiterServed, Alive,
       States, Body, Faults

\* A step that changes nothing keeps TInv.
LEMMA StutterInv == TInv /\ UNCHANGED vars => TInv'
<1> SUFFICES ASSUME TInv, UNCHANGED vars PROVE TInv'
  OBVIOUS
<1>1. TypeOK' /\ NoDoubleDestroy'
  BY DEF TInv, vars, TypeOK, NoDoubleDestroy
<1>2. Stack' /\ Started'
  BY DEF TInv, vars, Stack, Started
<1>3. Awaited'
  BY DEF TInv, vars, Awaited, WaiterServed, Alive
<1>4. Ended'
  BY DEF TInv, vars, Ended
<1> QED
  BY <1>1, <1>2, <1>3, <1>4 DEF TInv

\* Every step keeps TInv, if tasks are awaited, detached or held.
LEMMA NextInv == ASSUME Safe PROVE TInv /\ [Next]_vars => TInv'
BY CallInv, SuspendInv, NotifyInv, ForgetInv, FinishAwaitedInv, FinishAloneInv, DropTaskInv,
   StutterInv
   DEF Next, Step

\* Type correctness of the frames' state, in every mode of starting tasks that
\* app/main.cc uses.
THEOREM TypeCorrect == ASSUME Safe PROVE Spec => []TypeOK
<1>1. TInv => TypeOK
  BY DEF TInv
<1> QED
  BY <1>1, InitInv, NextInv, PTL DEF Spec

\* final_awaiter and ~task() never both destroy a frame, as long as nobody
\* writes f().resume().
THEOREM FramesSafe == ASSUME Safe PROVE Spec => []NoDoubleDestroy
<1>1. TInv => NoDoubleDestroy
  BY DEF TInv
<1> QED
  BY <1>1, InitInv, NextInv, PTL DEF Spec

\* Whoever awaits a task has exactly one live frame that will resume it.
THEOREM WaitersServed == ASSUME Safe PROVE Spec => []WaiterServed
<1>1. TInv => WaiterServed
  BY DEF TInv, Awaited
<1> QED
  BY <1>1, InitInv, NextInv, PTL DEF Spec
=============================================================================

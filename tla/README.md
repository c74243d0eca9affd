# A TLA+ verification of the epoll/coroutine server

This directory models, checks and proves properties of the single-threaded
asynchronous server of this repository: an epoll event loop (`IOContext`),
awaitable system calls (`BlockSyscall` and the operations derived from it), a
coroutine type (`std::task`), child processes behind pipes
(`PipedAsyncCommand`), and the application (`app/main.cc`) that answers each
client with what `cat` makes of its message.

## 1. Inventory

| Component | State | Operations | Interacts with |
|---|---|---|---|
| `IOContext` (`io_context.cc/.hh`) | `managed_fd`, `processedSockets`, the batch of events | `run`, `attach*`, `watch*`, `unwatch*`, `detach` | the kernel's epoll instance; reads and writes `io_state_`, `io_new_state_`, `doneRecv_` of descriptors; resumes coroutines |
| `AsyncFileDescriptor` (`async_file_desc.hh`) | `fd_`, `io_state_`, `io_new_state_`, `coroRecv_`, `coroSend_`, `doneRecv_` | construct, `resumeRecv`, `resumeSend`, destroy | `IOContext` (attach, detach), handles of coroutines |
| `BlockSyscall` and six operations | `haveSuspend_`, `returnValue_`, the handle | constructor (watch), `await_suspend`, `suspend`, `await_resume`, destructor (unwatch) | `IOContext`, one descriptor |
| `std::task` (`task.hh`) | `waiter`, `result`, `mDetached` | `co_await`, `resume`, `detach`, `final_suspend`, `~task` | other frames, through nested `resume()` calls |
| `Socket` (`socket.cc`) | a descriptor | listen, `accept`, `recv`, `send` | operations |
| `PipedAsyncCommand` | two pipe ends, a pidfd, a process id | `init`, `writepipe`, `finishwriting`, `readpipe`, `doneReading`, `finishReading`, `whaitforprocesstodie`, destructor | the child process |
| `app/main.cc` | locals of `accept`, `client_socket_handler`, `echo_loop` | one pass per message | all of the above |
| `SharedState` (`sharedstate.cc`) | none | `extractCommand`, `mergestate`, `optMergeState` | the server uses `extractCommand` only |
| `PopenAsyncCommand`, `PopenFileReadOperation` | a `FILE*` | blocking reads | nothing: not used any more |
| `rsdebug`, error codes | none | logging, `rs_error_bubble_or_exit` | `BlockSyscall` exits through it |

What is hard here:

* **Edges.** Subscriptions are edge triggered and are applied once per round of
  `run()`, after all events; a file may become ready anywhere between an
  `EAGAIN` and that moment.
* **Overwritten masks.** `watchRead`, `unwatchRead`, `watchWrite` and
  `unwatchWrite` all compute `io_new_state_` from `io_state_`, so the last call
  of a round undoes the ones before it.
* **Stale events and handles.** A coroutine resumed early in a batch destroys
  descriptors that later events of the batch point to; a new descriptor may
  live at the same address. Stored handles are never cleared, neither when they
  are resumed nor when their frame ends, and `run()` looks at `managed_fd` once
  per event although it uses the object twice.
* **One retry.** `await_resume` makes the system call once more and returns
  whatever it says; a wake-up without readiness becomes a result of -1.
* **Frame lifetime.** `final_awaiter` and `~task` both may destroy a frame,
  depending on who started it and whether it has ended.
* **Children.** A child may write, exit or be killed at any moment; it has to be
  waited for on every path, the exceptional one included.
* **Inherited descriptors.** Nothing is close-on-exec: the child of one
  connection holds the pipes and sockets of all the others open, so an end of
  file may depend on a process that has nothing to do with it.
* **Half-built commands.** Each of `pipe`, `pipe`, `fork`, `pidfd_open` in
  `init()` may fail, and each failing branch undoes what came before by hand.
* **One for all.** A reset connection is fatal in the first system call of an
  await, harmless in the second, and SIGPIPE after that.

`PROJECT.json` lists each of these hazards at its line, with the properties
that cover it.

## 2. Modules

```
IOContext      the reactor, for ANY program on top of it; epoll itself
  MCIOContext        instances for TLC
  IOContextProofs    inductive invariant and theorems
Task           coroutine frames and task objects
  MCTask             instances for TLC
  TaskProofs         inductive invariant and theorems
SharedState    extractCommand and the blocking merge functions
  MCSharedState      instances for TLC
  SharedStateProofs  the string functions, inductive invariant and theorems
EchoService    abstract: what the server promises a client
EchoServer     app/main.cc + Socket + PipedAsyncCommand + operations, clients,
               children; composed with IOContext (INSTANCE IO), implements
               EchoService (INSTANCE Service)
  MCEchoServer       instances for TLC
  EchoServerProofs   types, who holds which descriptor, the reactor's invariants
  EchoWakeupProofs   no wake-up is spurious, but for addresses used again
  EchoServiceProofs  no child is left behind, nothing gone is used, refinement
                     of EchoService
PipedAsyncCommand
               which process holds which file open; every call of init() failing
  MCPipedAsyncCommand      instances for TLC
  PipedAsyncCommandProofs  inductive invariant and theorems
Induction      induction over the natural numbers, stated for sets (lemmas only)
```

### IOContext

A variable per field of the code, under the code's name. `co` says whether a
coroutine runs, is suspended (`"wait"`) or was resumed and has not yet executed
`await_resume` (`"woken"`); `op` is the operation it awaits. Masks are subsets
of `{"IN", "OUT"}` (EPOLLET is in every mask). The kernel is `epset`,
`interest`, `poll` (level readiness of the file), `ready` (the ready list).

| Action | Code |
|---|---|
| `Construct`, `Destroy` | constructors with `attach*`; `~AsyncFileDescriptor` with `detach` |
| `AwaitDone`, `AwaitSuspend`, `AwaitFail` | `co_await` of an operation whose system call succeeds, answers `EAGAIN`, or fails for good and ends the process |
| `AwaitResume` | `await_resume` after a suspension, and the destructor of the operation |
| `Spawn`, `Finish` | a task is started, a coroutine returns |
| `EndFrame` | a frame of the chain ends and the frame that awaited it goes on; its handle stays where it is stored, and is `Lost` from then on |
| `EpollWait` | `epoll_wait` returns; at most `MaxEvents`, the rest stay in `ready` |
| `DispatchUnmanaged`, `DispatchIn`, `DispatchOut` | the loop over the batch. The EPOLLOUT half of an iteration is a step of its own, because the EPOLLIN half runs a coroutine that may destroy the object. `Managed` is the test of `managed_fd` |
| `ApplyMod` | the loop over `processedSockets` |
| `Arrive` | external: the file becomes ready |

`phase = "boot"` is the time until the first `epoll_wait` returns: `main()`
starts `accept()` before `run()`, and no `EPOLL_CTL_MOD` happens before the end
of the first round. Undefined behaviour of `run()` ends a behaviour of the model
in a phase of its own (`Undefined`), from which nothing goes on: `"freed"`, an
event of the batch or the loop over `processedSockets` led to an object that was
destroyed; `"freedOut"`, the EPOLLOUT half of an iteration did, after the EPOLLIN
half had destroyed it; `"gone"`, the handle of a frame that has ended was
resumed. A file that becomes ready in a state that is not subscribed
produces no edge; `EPOLL_CTL_ADD` and `EPOLL_CTL_MOD` poll the file, as Linux
does.

What a coroutine does between two awaits is left open, except for three rules
that the code obeys: it operates on and destroys descriptors it holds (the
listening socket, a local of `main()`, counts as held by `accept()`, its only
user); it returns when it holds none; and it awaits without a watch, as
`DyingProcessWaitOperation` does, only on a descriptor that `attachReadonly`
subscribed and no other operation has touched. Every step of `EchoServer` is a
step of this module joined with one of the application, so that these rules are
part of its guards; that the guards never stop a handler which could go on shows
in the absence of deadlock (run `echo`) and in `PoliteServed`.

### Task

`st` is the state of a frame, `waiter` and `mDetached` are the code's, `obj` and
`holder` say where its task object lives, `cur` and `back` are the stack of
nested `resume()` calls. Undefined behaviour (destroying a frame twice,
resuming one that is gone or one that awaits a task) sets `fault`; `done()` of a
destroyed frame answers anything. A stored handle stays when it is resumed;
`Forget` is the destruction of the descriptor or another handle in its place.
This module does not say that no frame is resumed after its end, which depends on
the life of descriptors: that is `Sound` of `EchoServer`. `Modes` selects the
ways in which tasks are started.

### SharedState

One call of a function of `sharedstate.cc` per behaviour: `extractCommand` in
one step, the merge functions as `popen`, one step per `fread`/`fgets`, `pclose`
and the removal of line breaks, interleaved with a shell that writes in pieces
of any size, fails or is killed. The removal is modelled as the regular
expression scans and compared with a filter (`Unbroken`). The state is put into
the command between single quotes as it is, and a shell parses that: the constant
`EchoOutput` is what may come of it, of which `EchoAssumption` says only that a
`Quotable` state (no quote, no backslash, which some shells' `echo` expands, no
NUL, no leading dash) is written as it is, with a newline. What becomes of the
others is left open, and `MergeExact` and `MergeReturns` say nothing of them.

### EchoServer

The application on top of `IOContext`: every step conjoins the application's
part with the reactor's action (`IO!AwaitSuspend`, ...), and `poll`, the
readiness of files, is not a variable but the state function `Poll` of the
queues, pipes and children. `pc[c]` is the place of connection `c`'s handler in
`client_socket_handler`/`echo_loop`; one step is one system call and the code up
to the next, so that clients, children and the kernel act between any two.
Bytes are tokens, `"n"` is the newline. Two unusual things of the code matter
and are modelled as they are: `SocketRecvOperation` returns `bytes + 2`, so the
end of a stream is taken for an (empty) message; and `merged.at()` throws if
nothing was read, `unhandled_exception()` swallows it, and the `result` that
`client_socket_handler` reads is uninitialised (`UnwindFrame` chooses). If it is
true the socket goes on with the handle of the `echo_loop` frame that has ended
(`IO!EndFrame`), unless the next frame of `echo_loop` gets the same memory and
with it the same handle.

Where a descriptor lives in memory matters, because `managed_fd` knows addresses
only. `Home` gives the addresses at which each may be made; all that is assumed
of it is that the listening socket, a local of `main()`, shares its address with
none of the others, which are on the heap. `reused` is a history variable: it
records that a descriptor was made at an address which an event of the current
batch, not handled yet, still names. No step depends on it. That is the moment
from which the event may reach the wrong descriptor (run `echo_reuse`), and the
properties that this breaks are stated up to it.

A client may half-close, send on or reset its connection. The reset is answered
with an error once: in the first system call of an await it ends the process
(`Crash`; `rs_error_bubble_or_exit` without storage), after a resumption it is a
result of -1, which ends `echo_loop` in `recv` and is added to `nbSend` in
`send`; a further `send` gets SIGPIPE, which is `Crash` again.

External, modelled from how the code uses it: clients, the child (`cat`, which
copies its input with one `write`, exits at its end and dies of SIGPIPE), pipes,
`poll`. `EchoCmd` says whether the child's `std::cout` reaches the pipe before
`execvp`. It does where the C library writes the first line of standard output
at once (musl, which OpenWrt uses); it does not where standard output on a pipe
is fully buffered (glibc); there, `echo_loop` erases the first line of the
client's own text, and the runs without the echo use texts of one line.

`EchoService` is the promise of the comments in `main.cc`, for the clients that
do as they should (`Polite`): nothing is sent before the message came, then the
reply in order and once, and the connection is closed when all of it is out.
The mapping takes what is in the send buffer or was read by the client for
`sent`. The promise ends (`up`) when the server is `Excused`: the process has
ended, an address was `reused`, or `run()` is in a phase of `Undefined`.

### PipedAsyncCommand

The same handlers seen from the file table. `fds[p]` is the set of files that
process `p` (the server, or a child named after its connection and round) holds
open; a step is one system call. `fork()` copies the whole set; `Exec` closes
what `init()` closes in the child, and nothing else; a process that exits closes
all. `Fails` selects what may go wrong: the three system calls of `init()`, the
exception in the reading loop, wake-ups before the child died. What is read and
written is left out: an await suspends or does not, and has any result. `cat`
exits when nobody holds an end that writes to its input, which is the point of
the model: the children of the other connections may be such holders.

The failing branches are those of the code. After a failing second `pipe` and
`fork` everything is closed; a failing `pidfd_open` leaves the child's two ends
open in the server and the child unwaited for, and `Released` says that this is
the only thing that ever stays.

## 3. Runs

| Run | Instance | Checks | Result |
|---|---|---|---|
| `reactor` | 2 descriptors, 2 coroutines, no hang-ups, batches of 2 | `TypeOK`, `NoDangling`, `Armed`, `NoMissedWakeup` | pass |
| `task` | 4 frames; await, detach, hold | `TypeOK`, `NoDoubleDestroy`, `WaiterServed`, `FinalReleased` | pass |
| `echo` | 2 clients, one with a reply of 3 bytes through a send buffer of 2; each descriptor has an address of its own and one that all share; the child echoes its command | `Reaped`, `OnlyReuseMisleads`, `Sound`, `Answers`, no deadlock | pass |
| `echo_faults` | client 1 sends only a command line, may half-close, send on or reset; client 2 is polite; the pidfd of the one and the pipe of the other may share an address; batches of 2 | `PoliteServed` | pass |
| `command` | 2 connections, one with 2 rounds, all failures | `TypeOK`, `InputEnds`, `Released`, `HungUp`, no deadlock | pass |
| `shared_state` | strings of up to 4 bytes and some that cannot be quoted, buffers of 3 | `SplitExact`, `MergeExact`, `MergeReturns` | pass |
| `echo_hangup` | a message ending in a newline | `Served` | violated |
| `echo_unwatch` | a client that half-closes | `Reaped` | violated |
| `echo_reuse` | descriptors share addresses, batches of 3 | `NoSpuriousWakeup` | violated |
| `echo_throw` | a message that is only a command line | `Reaped` | violated |
| `echo_freed` | a client that half-closes, a reply of 2 bytes through a send buffer of 1 | `Sound` | violated |
| `task_resume` | as `task`, and `f().resume()` | `NoDoubleDestroy` | violated |

The properties:

* `NoDangling`: what the comment at `io_context.hh:68-92` is about. No event of
  the batch leads `run()` to an object that an earlier event's coroutine has
  destroyed, nor does the loop of `EPOLL_CTL_MOD`, and no operation outlives its
  descriptor. It does not cover the `resumeSend()` that follows `resumeRecv()` on
  the same object.
* `Armed`, `NoMissedWakeup`: although masks overwrite each other and edges come
  once, whoever is suspended when the loop blocks is subscribed, and if its file
  is ready the kernel will say so.
* `NoDoubleDestroy`, `WaiterServed`, `FinalReleased`: each frame is destroyed
  once, by the right party, and each waiter is resumed by exactly one frame.
* `Answers`: the server implements `EchoService` (refinement): a polite client
  gets its message (without the command line) in order and exactly once, however
  it is cut up, and is not hung up on before; whatever the other client does.
* `Reaped`: the child of a finished handler was waited for, but for an address
  used again within a round.
* `NoSpuriousWakeup`: a coroutine is resumed only when its system call can go
  on; needed because `await_resume` does not try a second time. It does not hold
  (`echo_reuse`); `OnlyReuseMisleads` says that an address used again within a
  round is the only way to break it for clients without faults: a handle left in
  a descriptor, a mask left wrong or an event overtaken by another is not.
* `Sound`: `run()` uses no freed descriptor, in either half of an iteration, and
  resumes no frame that has ended.
* `Served`: every client that connects is answered and closed.
* `PoliteServed`: so is a polite one beside a rude one, whose handler may be
  unwound, wait for ever or end the process, unless the server is excused.
* `InputEnds`: while `echo_loop` reads, nobody but the command's own child can
  write to either of its pipes, so both ends of file come.
* `Released`: a closed connection leaves no descriptor behind, on any path.
* `HungUp`: a closed connection is closed for the client, too: every child that
  inherited the socket ends.
* `SplitExact`, `MergeExact`, `MergeReturns`: splitting off a command and
  merging (of a state that can be quoted) lose or double no byte, wherever
  buffers and writes cut, and end; what a failed command leaves is a correct
  beginning.

What the violated runs show is in `PROJECT.json` under `findings`. In short:
`EPOLLHUP` without `EPOLLIN` is forwarded to nobody; an `unwatchRead` undone in
the same round lets a FIN resume the wrong await; an address used again within a
batch receives the old event; an exception in `echo_loop` leaves its child
unwaited for; an event with EPOLLIN and EPOLLOUT frees the socket in its first
half and uses it in the second; `f().resume()` destroys a frame twice. The
passing runs are the same models on the inputs where the code keeps its promise,
which is why `Reaped`, `Sound` and `NoDoubleDestroy` appear on both sides.

**Bounds.** Two coroutines and two descriptors give every pairing of owner,
waiter, stale event and reuse of an address in the reactor; the proofs remove
the bound. Two connections make handlers interleave in one batch and compete
with `accept()`. In `echo_faults` `MaxEvents = 2` is below the number of
descriptors (up to nine; the code has 20), so batches overflow; in `echo` and
`echo_reuse` it is 3, so that one batch can hold an event of each handler and a
stale one. In `echo` every descriptor may be made at its own address or at a
common one, so each of them may follow any other there within a round. In
`echo_faults`, whose liveness check is the most expensive of all, only the write
ends move, to addresses of the other connection (`WriteHome`), and at most one
fault of a client happens in a behaviour; that nothing else depends on addresses
is the theorem `ServiceKept`. `SendCap` is below the longest reply, so the send
loop suspends. Two connections suffice in `command` too: one whose files are
inherited and one whose child inherits them; the second round of one of them
makes a handler meet what its own first command left behind. `SizeMod` stands
for 2^64: it only has to exceed the length of a reply.
Arguments of up to four bytes and a buffer of three (`fgets` takes two) put ends
of lines, of buffers and of the file in every relative position.
`MaxLoops` bounds the rounds of a handler whose `result` is garbage. Symmetry is
used in `MCIOContext` and in `task_resume`, where no liveness is checked. Deadlock checking is
off where the model may rightly stop: in `MCIOContext` and `MCTask` coroutines
may simply end or the behaviour become undefined, and in `echo_faults` a client
is hung for ever by the hang-up defect, or the process ends.

**Fairness.** In `EchoServer` one weak fairness of the server's thread, the
children, and the clients that have connected, together: as long as one of them
can take a step, one of them does. It assumes less than fairness of each: no
process has to be scheduled while others go on, and whoever was left behind has
its turn when they have come to a stop, as they do, since every client sends
once and every handler ends or suspends. The operating system schedules the one
thread and the children, and a client that connected sends its message and reads
the answer; a client is not obliged to connect, nor to do anything rude. In
`PipedAsyncCommand`, `WF(Handler(c))`, a handler that executes goes on, and
`WF(Child(m))`; nothing is assumed of `Wake`, so `HungUp` holds even if some
handlers are never resumed again. In `Task`, `WF(DropTask(f))`: the thread does not stop
before the end of an expression. In `SharedState`, `WF(Caller)` and, for a state
that can be quoted, `WF(Shell)`, for the same reasons; of another command the
shell may see it is not known whether it ends. No strong fairness is assumed.

**Mutants.** Each property is exercised by a plausible bug in the code
(operators commented "Mutant of ..."): a missing test of `managed_fd`, a forgotten
`erase`, an `else` before the EPOLLOUT test, `nbSend = res`, a missing branch in `~task`, and so on; the
property fails on it.

## 4. Proofs

`IOContextProofs` proves, for every set of descriptors and coroutines and every
`MaxEvents`, `Spec => []P` for `TypeOK`, `NoDangling`, `Armed` and
`NoMissedWakeup`. None but the first is inductive. The invariant `IInv` adds

* `Ownership`: an operation is awaited by the owner of its descriptor (so two
  coroutines never wait on the same one, and a running owner means nobody waits);
* `Registry`, `Synced`: the sets of the loop and of the kernel agree, and
  `io_state_` is what the kernel was told last;
* `Handles`: a descriptor stores its owner's handle, that of a frame its owner
  has destroyed, or none, and a suspended coroutine has left its handle in the
  place the awaited direction looks;
* `Pending`: the mask that will be in force after the next `EPOLL_CTL_MOD` has
  the awaited direction; this is where the overwriting of masks is harmless:
  the last call on a descriptor is made by its owner, just before it suspends;
* `Quiet`: in `epoll_wait` nothing runs and every mask is applied;
* `Wakeups`: an owed wake-up is on the ready list, in the batch, in the second
  half of the current event, or will come from an `EPOLL_CTL_MOD` that polls;
* `Kept`: `run()` has not used a freed object where `NoDangling` says so.

One lemma per action, one step per conjunct. Assumptions: `FlagAssumption`,
`NullAssumption`, `LostAssumption` (and TLC evaluates `MaxEventsAssumption` too).

`TaskProofs` proves `TypeOK`, `NoDoubleDestroy` and `WaiterServed` for any number
of frames, with handles that stay stored, under `Safe` (tasks are awaited, detached, or held for ever), which is
what `main.cc` does; `task_resume` shows that `Safe` cannot be dropped. `TInv`
adds `Stack` (the frames under the executing one are active and form a list),
`Started` (mode of starting, read off the promise), `Awaited` and `Ended` (a
frame at its final suspension point has a live task object that is dropped
next).

`PipedAsyncCommandProofs` proves `TypeOK`, `InputEnds` and `Released` for any
number of connections and rounds and any set of failures (`RoundsAssumption`,
`NamesAssumption`). `InputEnds` is about what *other* children inherited, which
is what the server held when it forked them; so `PInv` says, place by place in
the handler, which ends of its command the server may hold (`ServerHolds`), that
no other handler executes while both ends of a pipe are open (`Undisturbed`: the
code from `pipe()` to `finishwriting()` never suspends), and hence that a child
holds of another's command only what reads, or the pidfd (`ChildHolds`).

`SharedStateProofs` proves `SplitExact` and `MergeExact` for strings and buffers
of any length (`BufSizeAssumption`, `StringsAssumption`, `EchoAssumption`), of
states that can be quoted the latter. The loops are followed by `Conserved`: what
was read, what is in the pipe and what `echo` has not yet written make the state
and its newline, in this order; together with `Drained`
(a loop ends only when it has emptied the pipe, and `echo` exits with 0 only when
it has written all) this gives the result. That the left-to-right scan of
`regex_replace`, which takes `\r\n` as one match, removes what a filter removes
byte by byte is `RemoveBreaksIs`: both recur, in opposite directions, so it goes
by induction over the length of the string. The library's induction theorems
take an operator as their parameter and cannot be used here; `Induction` states
the principle for a set of numbers instead (every set of naturals with 0 in it
and closed under successor contains all of them), proved from the
well-foundedness of `<`, and the proofs apply it to the set of lengths for which
the claim holds.

`EchoServerProofs` proves, for any number of connections, any messages and faults
of the clients, any replies and any placement of descriptors in memory
(`NamesAssumption`, `HomeAssumption`, `PayloadAssumption`, `SizesAssumption`),
that the variables of the application keep their types, which descriptors a
handler holds at each place (`Invariance`), and that the reactor inside the
server has `NoDangling`, `Armed` and `NoMissedWakeup` (`ReactorSafe`). The latter
are the theorems of `IOContextProofs`, instantiated with `Poll`, inherited through
the lemma `Refinement`: every step of the server is a step of `IOContext` or
leaves it alone. That follows in part from the way the steps are written; what has
to be shown is that the readiness `Poll` computes changes as `IOContext` allows, in
the steps of clients and children above all: they are `Arrive`, or the
file is one whose descriptor is closed and invisible in `Poll` (`Unheard`). For
that, `Files`: `HeldAt` reads off the place in the code which descriptors a handler
has, `Owned` and `Accounted` tie these to `owner` in both directions. `App` types
the application; `TypeOK` alone is not inductive, because `nbSend` is a `size_t`
only while `Sending` holds (it is less than the length of the reply during the
loop), and queues hold bytes only if messages do (`Bytes`).

`EchoWakeupProofs` proves `OnlyReuseMisleads` (`NeverSpurious`) when no client has
a fault, and the same for each client without faults whatever the others do, and
for `accept()` without any condition (`CalmWakeups`); for any placement of
descriptors in memory, up to the moment an address is `reused`. That exception
is the code's: the violated run `echo_reuse` shows what happens then. The
property is far from inductive: nothing clears the handles that a descriptor
stores, and an event waits in its batch while other handlers run. `WInv` says why
a notification is nevertheless true when it arrives. An event for a socket or a
pipe is in the batch only while the handler is suspended for just that, and one
for a pidfd only when the child is dead or the pidfd gone (`Batch`, with `half`
for a notification whose second half is still to be delivered); a stored handle
for EPOLLOUT is only in sockets, one in a pidfd only once the child is awaited
(`Stored`); a socket is subscribed for EPOLLOUT only between the `EAGAIN` of a
`send()` and its end (`Subscribed`); and the message of such a client comes once
and is taken by one `recv()` (`Asked`). That the steps of one handler do not
disturb the others follows from whose descriptors they touch (`Keeps`), not from
where these are; only a descriptor made at an address that the batch still names
breaks `Batch`, and that sets `reused`.

`EchoServiceProofs` proves, on top of `WInv`, for clients without faults, again up
to an address that is `reused`:

* `CalmReaped` and `AlwaysReaped`: no zombie is left behind (`Reaped`), if the
  command writes something; the first whatever the other clients do. Without that
  `merged.at()` throws (run `echo_throw`), with a fault the child is waited for
  too early or not at all (run `echo_unwatch`): the hypotheses are those the
  violated runs show to be needed.
* `AlwaysSound`: if all clients are of this kind, `run()` uses nothing that is
  gone (`Sound`): no exception ends a frame of `echo_loop` early, and no event of
  a batch is for reading and writing at once, so that nobody runs between the
  halves of an iteration (`Intact`, `OneWay`). The run `echo_freed` shows that one client with a fault is enough to
  break it.
* `ServiceKept`: the server implements `EchoService` (`Answers`, so for the clients
  in `Polite`: a reply that does not end in a newline), for any number of clients,
  any messages, replies and room in the send buffers and whatever the other
  clients do, unless the server is `Excused`. `Expected` fixes what the constant
  `Reply` stands for, without reference to what the code computes: a client sends
  one line, or a command line, a newline and a text, and expects that line or that
  text back. It also has the two hypotheses this needs: the text is one line or
  the C library writes the words of the command (otherwise `echo_loop` erases the
  first line of the text), and its length is a `size_t`.

The argument follows the text on its way. `Course` says for each place of the
handler where it is; from `fork()` to the end of `readpipe()` this is `Piped`:
what was merged, what is in the pipe and what the child has still to read make
the words of the command followed by the text, so nothing is lost, doubled or
reordered however the pipe is cut up. `Hung` adds that `doneReading` is never
true of a pipe that a living child still writes to, hence that the loop ends with
all of it. `Replied` says that the bytes sent are the first `nbSend` of the reply.
The run `echo` is an instance that satisfies all of these hypotheses; in
`echo_faults` the second client does, beside a first one with every fault.

Only model-checked: liveness (`PoliteServed`, `FinalReleased`, `MergeReturns`,
`HungUp`), which the prover cannot handle with fairness. The theorems of
`IOContextProofs` hold with hang-ups and for batches of any size, which the run
`reactor` does not have, and `CalmWakeups`, `CalmReaped` and `ServiceKept` with
faulty clients beside the polite one, which the run `echo` does not have.

## 5. Not modelled

* A failing `execvp`: the child returns from `init()` and runs on as a second
  server with copies of all coroutines on the same epoll instance. It needs two
  copies of the whole model; `cat` is on every system the program is built for.
* Failing `epoll_ctl` and `epoll_wait`, which the code only logs; failing
  `getaddrinfo`, `bind` and `accept`.
* Messages and replies of `BUFFSIZE - 1` bytes and more: `SocketRecvOperation`
  then writes its second terminator one past the array. What that does is not
  defined, so the messages of the model are shorter.
* Messages in several segments, beyond a client that sends on.
* What a shell makes of a state with quotes, backslashes or a leading dash in
  `SharedState`: any output is allowed there, and nothing is claimed of it.
* The program after undefined behaviour: the model stops there.
* The depth of the stack of nested `resume()` calls.
* `SharedState::reqSync`, a stub that copies its argument; `PopenAsyncCommand`,
  which nothing uses; logging, error texts, build files and tests.

## 6. Plan

1. Done: `IOContext`, `Task`, `EchoServer`, `SharedState`, their runs, the
   invariants of the first two proved.
2. Done: `PipedAsyncCommand` with the failing branches of `init()` and
   inherited descriptors; resets, SIGPIPE and the end of the process in
   `EchoServer`; `EchoService` and the refinement.
3. Done: `TypeOK`, `InputEnds`, `Released` of `PipedAsyncCommand`, `SplitExact`
   and `MergeExact` of `SharedState`, `TypeOK` of `EchoServer` and the invariants
   of the reactor in it proved.
4. Done: `OnlyReuseMisleads` of `EchoServer` proved for clients without faults,
   wherever their descriptors are: no stale event of a batch reaches a later
   operation but through an address used again in the round.
5. Done: `Reaped`, `Sound` and the refinement of `EchoService` proved for clients
   without faults, the first and the last beside any others.
6. Open: what clients with faults can rely on, and what becomes of an event that
   reaches a descriptor at an address used again.

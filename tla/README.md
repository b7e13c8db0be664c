# A verification of plan9port's concurrency core

plan9port is the Plan 9 user-level software ported to Unix.  Almost every
program in it that does two things at once (acme, sam's terminal, the plumber,
9pserve, factotum, venti, the 9P clients and servers) is built on four layers
of C: **libthread** (coroutine threads grouped into procs, queueing locks,
rendezvous points, channels), **libmux** (many RPCs on one connection),
**lib9p** / **lib9pclient** (9P servers and clients) and **9pserve** (many 9P
clients on one server connection).  These layers are where an unlucky order of
steps loses a wakeup, answers the wrong request or frees something in use, and
they are what this project models, checks and proves.

All paths below are relative to the repository; C sources are under `src/src/`.

## 1. Inventory

### libthread: scheduler (`libthread/thread.c`, `pthread.c`)
State: per proc a lock, the running thread, the run queue, the idle queue, the
pinned thread, the thread count, `schedthread` and the rendezvous `runrend`;
per thread `exiting`, `schedrend` and the pthread that carries it; globally
`threadnproc` and `threadnsysproc`.  Operations: `threadcreate`, `proccreate`,
`threadyield`, `threadidle`, `threadexits`, `threadpin`/`threadunpin`,
`_threadready`, `_threadswitch`, `_threadsetsysproc`.  Everything else in
libthread blocks by putting the thread on some list and calling
`_threadswitch`, and unblocks it with `_threadready`.
Hard: a thread is readied between putting itself on a list and reaching the
scheduler; a wakeup of the proc's sleeper is lost; two pthreads of one proc run
at once; a thread sits on two lists (the links are in the thread); spurious
condition-variable wakeups; teardown of the last thread of a proc against
readies from other procs; memory of a dead thread reused for a new one.

### libthread: QLock and Rendez (`libthread/thread.c`, `lib9/qlock.c`)
State: owner and waiting list of a QLock; waiting list of a Rendez.
Operations: `qlock`, `canqlock`, `qunlock`, `rsleep`, `rwakeup`, `rwakeupall`.
Hard: ownership is handed to a sleeping thread before it is readied; `qunlock`
reads `l->owner` again after unlocking; `rsleep` must release and suspend
atomically.

### libthread: RWLock (`libthread/thread.c`, `lib9/qlock.c`)
State: writer, reader count, two waiting lists.  Operations: `rlock`,
`canrlock`, `runlock`, `wlock`, `canwlock`, `wunlock`.  Hard: starvation of
readers by writers or writers by readers; a waiter no unlock wakes.

### libthread: channels (`libthread/channel.c`)
State: per channel a ring buffer and two arrays of waiting `Alt`s; per thread
the `Alt` array it is blocked in; one global lock.  Operations: `chancreate`,
`chanalt`, and through it `chansend`, `chanrecv`, their `nb`, `p` and `ul`
forms; `chanfree`.
Hard: a thread's operation is completed by another thread, which must remove
all the other operations of the sleeper; a full buffer is received from and
sent to in one step; a missed match is a thread asleep for ever.

### libthread: I/O procs (`libthread/ioproc.c`, `iorw.c`)
State: `inuse`, `op`, `arg`, `ret` of an Ioproc, none of them locked, and two
unbuffered channels.  Operations: `ioproc`, `closeioproc`, `iocall` and the
calls of `iorw.c` built on it.  Hard: only the order of four messages keeps
callers apart.

### libthread: child processes (`libthread/exec.c`, `wait.c`)
State: the wait channel, the kept messages, the list of waiters, the muxer
flag.  Operations: `threadspawn`, `threadwaitchan`, `procwait`.  Hard: children
exit in any order, before or after somebody waits; the receiving thread hands
messages to the others.

### libmux (`libmux/mux.c`, `io.c`, `queue.c`, `thread.c`)
State: the table of tags with its counters, the list of sleeping calls, the
muxer, three QLocks, a Rendez per call and one for tags.  Operations:
`muxrpc`, `muxrpcstart`, `muxrpccanfinish`; `muxprocs`.
Hard: one call receives for all; the role must be passed on whatever happens to
the call that has it; replies in any order, bad tags, end of file, failed
sends; tags running out.

### lib9p (`lib9p/srv.c`, `req.c`, `fid.c`, `intmap.c`)
State: pools of requests and fids with reference counts, the flush list of each
request, the write lock.  Operations: one per 9P message, `respond`.  Hard: a
flush races the answer to its request; tags are reused as soon as the reply is
out; replies come from any proc.

### 9pserve (`cmd/9pserve.c`)
State: messages and fids with reference counts, per connection the tables of
tags and fids, the count of messages and the output queue, and one queue to the
server.  Operations: `connthread`, `connoutthread`, `outputthread`,
`inputthread`.  Hard: a client hangs up with requests in flight, and they must
be flushed and its fids clunked before the connection is freed; a message is
used again (and its tag with it) as soon as nobody counts it; the reply and the
Rflush of one request cross.

### The plumber (`cmd/plumb/fsys.c`)
State: per port the open fids and three queues (messages, reads, held
messages), under one lock.  Operations: open, read, write, flush, clunk, each
carried out by one of several procs.  Hard: a message is handed out in parts to
several fids at different speeds; a fid is opened or closed with messages and
reads queued; the procs overtake each other.

### lib9pclient (`lib9pclient/fs.c`)
Mount, fids with reference counts and walk, on top of libmux.

### The rest
acme, sam, 9term, rio, devdraw, venti, fossil, factotum, upas, troff and some
two hundred other commands and libraries.  They are interactive, file-format,
cryptographic or text programs; PROJECT.json lists them with the reason they
are not modelled.

### Properties sought
For each layer: what its users rely on, stated as a small abstract
specification it implements; that no wakeup, message, tag or role is lost;
that unlocked fields have one user at a time; that the code's own `abort()`s
and `assert`s are unreachable; that whoever waits is served.

## 2. Plan

1. *Core (done)*: `ThreadList`, `Sched` => `Coroutines`, `QLock` => `Monitor`,
   `RWLock` => `SharedExclusive`, `Channel` => `Alternation`, and the users of
   these layers `Ioproc`, `ProcWait`, `Mux`.
2. *9P (done)*: `Srv9p` (lib9p) and `Serve9p` (9pserve), both =>
   `Transactions`; `Plumb`.
3. *Proofs (done)*: the scheduler, the RWLock, the QLock with its Rendez,
   channels, the I/O proc, the multiplexor, the 9P server library: every
   invariant and every refinement of theirs that a run checks.
4. *Next*: Tversion and Tauth in `Srv9p` and `Serve9p`, `openfdthread`; a
   bounded connection under `Mux` (a send that blocks with `outlk` held);
   `msgput` of `Serve9p` without recursion, so that it can be proved about.

## 3. Modules

Layers meet at abstract specifications: a module that uses a lower layer takes
over what that layer's abstract specification promises instead of its code.

| module | models | implements |
|---|---|---|
| `ThreadList` | `addthread`, `delthread`, `onlist` as operators on sequences | |
| `Sched` | scheduler of `thread.c`, rendezvous of `pthread.c` | `Coroutines` |
| `QLock` | one QLock with one Rendez | `Monitor` |
| `RWLock` | one RWLock | `SharedExclusive` |
| `Channel` | `chanalt` and its callers | `Alternation` |
| `Ioproc` | `iocall` and the proc behind it, over `Alternation` | |
| `ProcWait` | `execproc`, `threadwaitchan`, `procwait`, over `Monitor` | |
| `Mux` | libmux without `muxprocs`, over `Monitor` | |
| `Srv9p` | requests, fids, flush and respond of lib9p | `Transactions` |
| `Serve9p` | 9pserve | `Transactions` |
| `Plumb` | one port of the plumber | |
| `ThreadListProofs`, `SchedProofs`, `QLockProofs`, `RWLockProofs`, `ChannelProofs`, `IoprocProofs`, `MuxProofs`, `Srv9pProofs` | lemmas and theorems | |
| `MC...` | instances for TLC | |

Common conventions.  A variable is a field of the C structure of the same name;
`pc` says between which two critical sections a thread is; a critical section
(from a `lock` or `qlock` to the unlock or sleep that ends it) is one action,
named after its function, because nobody else can see the states inside it.
What happens after the unlock, such as the `_threadready` of a thread taken off
a list, is an action of its own.  An `abort()` or a failed `assert` sets
`aborted` (`abort` in `QLock`), after which nothing happens.  `NoAbort`
(`RWLock`), `OwnerStable` (`QLock`), `ArraysExact` (`Channel`), `OneCaller`
(`Ioproc`), `OneRunner` (`Sched`), `TagsExact` (`Mux`) and `HangupClean`
(`Serve9p`) say that none is reached; the one exception is the "rsleep
deadlock" of `rsleep`, which a program earns whose last thread goes to sleep.
The type invariant of a module is a conjunct of one of its invariants, so that
a run checks it.  Definitions named `BAD_...` are plausible mistakes; each
property is tried against one and finds it.

**Sched.**  A proc is a record of queues and of the thread that runs; every
thread is carried by a pthread whose place is `pc`.  `pthreadscheduler` is the
section from `lock(&p->lock)` to the sleep in `procnext` or on `schedrend`;
`procwake` and `schedwake` are returns from `_procsleep`, which happen when
signalled and also spuriously (`pthread.c:53`).  Structures are reused after
they are freed, so a late wakeup can meet a new thread.  The users of the
scheduler are reduced to `block` (on some list), `take` and `_threadready`.
`Coroutines` is what they see: a thread parks, is made ready by somebody, and
comes back once, alone in its proc.

**QLock, RWLock.**  Threads are not grouped into procs: any may run beside any
other, the most concurrent case.  `Monitor` is mutual exclusion with an atomic
release-and-sleep; `SharedExclusive` is many readers or one writer.

**Channel.**  `asend` and `arecv` are sets of `<<thread, index>>`, for `rand()`
picks any element.  The section under `chanlock` with everything it calls
(`altexec`, `altcopy`, `altalldequeue`, the ready of the partner) is one
action.  `Alternation` is a queue per channel and one chosen operation per
alt.  The index that a refused alt returns is that of none of its operations:
`Alternation` allows both the -1 of the code and the index thread(3) promises
(section 7).

**Ioproc, ProcWait.**  Channel operations are single steps of both parties, or
on the queue.  A Waiter is a local variable of `procwait`: if the function
returns with it on the list the behaviour is undefined and the model stops.
Because of the first finding of section 7 that happens as soon as the muxer
receives another thread's message, so the model of `procwait` says nothing of
what follows, and the finding is all that is stated of it.

**Mux.**  A member of `Rpcs` is the address of a `Muxrpc`; free ones are reused.
`lk` names a call only where the code sleeps for `inlk` or `outlk` with it held.
The connection takes any number of requests; the server answers each once, in
any order, may send a tag out of range, and may close.  `SendMayFail` has the
kinds of call (started with `muxrpcstart`, or not) for which a send may fail.

**Transactions.**  What flush(9P) says to a client: a request is answered at
most once, an Rflush means the request it names was answered or is cancelled,
and nothing follows then.  `Srv9p` replies to every request, also to a flushed
one, so its transactions all end "answered"; in `Serve9p` a flushed request may
be forgotten, and a reply that came after the Rflush would be "late", which no
step of `Transactions` allows.

**Srv9p.**  The proc "srv" is the read loop, the others are procs of the program
that answer what a service function left for later.  A proc is the stack of its
calls, because `respond` calls itself for each delayed Tflush.  `wlock` and the
lock of each Req are variables; a section under one of them is an action.  `rref`
and `fref` are the reference counts, and `RefsExact` counts the pointers.  The
service functions are reduced to a choice: answer now or later, with success,
an error, or (walk) part of the names.

**Serve9p.**  The threads are coroutines of one proc, so a step goes from one
point where the thread may wait to the next: reading the client, a write, a
send or receive on a channel or queue.  `heap` has the messages and the fids
with their counts, `tagtab` and `fidtab` are `c->tag` and `c->fid`.  A message
has the name of its request, not a slot of `msgtab`: `RefsExact` and
`ServerAgrees` say that a slot is not used again while somebody, or the server,
still has it, so the names make no difference.  `HangupClean` looks at both sides:
at the tables of the connection that is freed, and at the requests and fids that
the server has of that client.

**Plumb.**  Several procs take requests off the pipe in order and carry them out
in any order; the section under the QLock `queue` is one action and the reply after it
another.  `drainqueue` gives every message to every fid that was open
when it was sent, in the parts that are asked for.  `owed` is a history
variable: what each fid has still to be given.  The client keeps to the rules of
9P, but has several reads on a fid if it likes, and flushes one whenever it likes.
`mixed` is another history variable: the fids of which two reads were in `readq` together
since they were opened.  From then on such a fid may be given parts of two
messages (section 7), and `Stream` and the second half of `NoStrandedRead` leave
it out.  That happens to a client with two reads, and to one with a single read
whose flushed read is still in the queue.

## 4. Runs

| run | instance | shows |
|---|---|---|
| `rwlock` | 4 threads | fields exact, no stranded waiter, no abort, everybody served, `SharedExclusive` |
| `sched` | 2 procs, 3 threads | one runner, no lost wakeup, one list, exact counts, pinning, `Coroutines`, ready threads run |
| `qlock` | 4 threads | the owner is stable across the hand-over, no "oops", no stranded waiter, everybody served, `Monitor` |
| `channel` | 3 threads, buffers 0 and 2 | arrays exact, no missed match, `Alternation` |
| `ioproc` | 3 threads | one caller at a time, own result, every call returns |
| `mux` | 3 calls, 2 tags, failing sends of the polling call, bad tags, close | tags and sleepers exact, own reply, one receiver, no forgotten tag, the muxer is alive, calls return |
| `srv9p` | 4 messages, 3 tags, 2 fids, 1 worker | references exact, tags free in time, clunked fids let go, every request answered, `Transactions` |
| `serve9p` | 2 clients, 3 requests, 2 tags and fids each, hangup | references exact, server's tags and fids not reused, tables exact, hangup leaves nothing, everything settles, `Transactions` |
| `plumb` | 2 fids, 2 reads, flushes, messages of 1 and 2 units, 2 procs | every fid gets its stream, no read is lost or waits beside a message |
| `procwait_own`, `mux_sendfail`, `plumb_flush` | | violations, section 7 |

*Why these bounds.*  Three threads give a holder, a waiter and a third that
arrives in between; four give two waiters of each kind on a reader-writer lock
and a sleeper, a waker, an owner and a contender on a monitor.  Two procs give
a ready across procs and one within, and one proc that ends while the other
goes on.  A buffer of two wraps around and is full, empty and half full.  Two
tags for three calls make the table grow twice and then run out.  `mux` states
`Returns` of one call that does not poll; the other is like it.  The sends of
such calls do not fail in this run, for then `MuxerAlive` and `Returns` are false
(section 7); the other three properties are proved with them failing too.  The alts of
`MCChannel` are a selection (both channels, both sides of one channel, a
`CHANNOP`, the same operation twice, blocking and not), for all pairs take too
long.  In `MCProcWaitOwn` three children have room for two messages, so that
`sendp` blocks, as a fifth child would with the code's four.  Three tags and
four messages let the client of `Srv9p` send a request, a Tflush of it and a
Tflush of that, after the attach that any fid needs; the client attaches once,
and makes its other fids by walking.  The clients of `Serve9p` can have a
request, its Tflush and an earlier message that a thread still holds, which
reaches `MAXMSG = 3` (64 in the code); the second client is there to be
disturbed.  Messages of one and two units read one or two at a time are given
whole, in parts, and with a read longer than what is left.  Two tags and two
reads at the server (`MaxReads`) allow two reads of one fid, one of each, or a new
one beside a flushed one; two procs let a Tflush overtake its Tread, and a
third request wait in the pipe (`MaxPipe`), which is first in first out.  Fids,
tags and procs are interchangeable, and the run uses that symmetry.

*Deadlock* is not checked where a program may really stop: all threads have
exited, or wait for something their program never does (`rsleep` without
`rwakeup`, a receive without a send).  The clients of `Srv9p` and `Serve9p` stop when they have sent
what the bounds allow; `Answered` and `Settles` say that nobody waits then.
`mux` and `plumb` check deadlock.

## 5. Fairness

* `RWLock`, `QLock`: holders release what they hold (the duty of the caller) and
  readied threads come back (`ReadyRuns` of `Sched`).  Nobody has to ask for a
  lock.
* `QLock` also has weak fairness of the `qlock` that ends `rsleep`.
* `Sched`: pthreads that can run do, a signalled pthread returns, and a thread
  gives up its proc infinitely often if it gets it infinitely often: thread(3)
  says threads are not preempted.  A pinned proc is excepted in `ReadyRuns`.
* `Ioproc`: system calls return, and strong fairness of the first send, because
  `altexec` picks any of the senders with `rand()`.
* `Mux`: strong fairness of the critical sections, because qlock serves its
  waiters in order (`Served` of `QLock`); sends do not block for ever; the
  server answers.  Nobody has to poll an asynchronous call.  `Returns` promises
  nothing once the connection is closed.
* `Srv9p`: some proc goes on while one of them can, and the program answers in the
  end what it left for later; `Answered` assumes no more of a server.  The client
  sends a bounded number of messages, so weak fairness of all the procs together
  is enough.
* `Serve9p`: the same for the threads, and the server answers.  A client need not
  read on: its connection takes every reply, or it hangs up.
* `Channel`, `ProcWait` and `Plumb` are checked for safety only.  That a read of
  the plumber is not forgotten is `NoStrandedRead`, an invariant.

## 6. Proofs

`RWLockProofs` proves for every set `Threads` (also an infinite one) from the single assumption
`NoThread \notin Threads`:

* `RWLockTypeOK`: types, and a reader count that never goes below zero;
* `RWLockAccounting`: the writer and reader count say who was granted access;
* `RWLockNoStrandedWaiter`, `RWLockOneList`, `RWLockNoAbort`;
* `RWLockRefines`: `Spec => ImplementsSharedExclusive`.

None of these is inductive alone.  That `wunlock` finds `readers = 0` (its
assert) needs `Accounting`; `Accounting` after a hand-over needs to know that
the thread taken off a list was blocked (`OneList`) and had not been granted
anything; that `singlethreaded` never holds when a thread must wait
(`NotAlone`) needs that an owner or an earlier waiter exists.  So the invariant
is their conjunction `IInv` (in `RWLock`), strengthened by the finiteness of
the set of readers, which makes `Cardinality` meaningful, and by the fact that
a thread is at "readying" exactly when it has a thread to ready.  There is one
lemma per action (`RlockIInv`, `WlockIInv`, `RunlockIInv`, `WunlockIInv`,
`ReadyIInv`, `ReturnIInv`, `ExitIInv`), `NextIInv` combines them, and the
refinement follows from `IInv` and each action's effect on who is inside.
`ThreadListProofs` has the facts about lists: what `addthread` and `delthread`
do to the members, to the absence of duplicates and to the order.

`QLockProofs` proves for every set `Threads`, from `nil \notin Threads`:

* `QLockOwnerStable`: `qunlock` readies the thread it took off the list though
  it reads `l->owner` again after `unlock(&l->l)`, and no "oops" is reached;
* `QLockNoStrandedWaiter`: nobody waits for a free lock and no wakeup is lost;
* `QLockExact`: a thread is on one list at most and only while it is blocked, and
  `l->owner` is exactly the thread that has the lock;
* `QLockRefines`: `Spec => ImplementsMonitor`.

The invariant `IInv` there says of each thread whether it owns the lock (`Owns`:
it is inside, or asleep in `qlock` and off the list), where it is while it is
blocked (`Placed`: `OneList` and `NoStrandedWaiter` for one thread) and to whom
it is passing the lock (`Passing`).  The heart is the lemma `Release`: a thread
that is inside owns the lock, so nobody else can be between its `unlock(&l->l)`
and its `_threadready`, and the first waiter can be made owner.  `threadqunlock`
and `threadrsleep` both rest on it.  In the refinement the hand-over is
invisible: a thread enters the monitor when its `_threadswitch` returns.

`IoprocProofs` proves for any threads `IoOneCaller` and `IoOwnResult`.  The
invariant fixes, for each place of the proc's loop, how far the thread is that
has the Ioproc (`Turn`), and that there is one such thread exactly when the loop
is not at its first receive: this is what the order of the four messages
achieves, and the unlocked fields have no other protection.

`SchedProofs` proves for any finite sets of procs and threads, with `MainProc` and
`MainThread` among them and `nil` in neither (`SchedAssumption`):

* `SchedOneRunner`: one thread or scheduling pthread is active in a proc at a time,
  and a pinned thread keeps its proc (the assert in `procnext` follows);
* `SchedNoLostWakeup`: no `_procwakeup` is lost, on `runrend` or on a `schedrend`,
  with spurious returns of the condition variables;
* `SchedOnePlace`: a thread that has stopped is in one place that leads back to its
  running; `SchedAccounting`: the counts that end a proc or the program are exact;
* `SchedRefines`: `Spec => ImplementsCoroutines`.

The invariant says whose turn it is in each proc (`Turns`: the thread that runs, the
pthread in `procnext`, or the successor that `schedthread` names), that the five
places of stopped threads are disjoint and together hold all of them (`Placed`),
and what a sleeper without a signal may rely on (`Wakeups`).  The two halves need
each other: a successor taken off the run queue can be woken on its `schedrend`
because it does not own the proc, and it is on the queue once because it is
nowhere else.  For the refinement, each step is shown to begin, stop, ready or
return one thread, or to be invisible (`Seen`).

`ChannelProofs` proves for any threads, channels, buffer sizes, values and arrays of
Alts that are well formed (`ChannelAssumption`): `ChannelArraysExact`,
`ChannelNoMissedMatch` and `ChannelRefines` (`Spec => ImplementsAlternation`).
`ArraysExact` and `NoMissedMatch` are inductive only together: `altexec` hands a
value to the right thread because the arrays hold exactly the operations that
wait, and the receive-then-send of `altcopy` is right because receivers wait at
empty buffers and senders at full ones.  The lemmas about the ring buffer (`Ring`,
`Written`) say that `off` and `nbuf` modulo the size are a queue.

`MuxProofs` proves for any finite set of calls and any positive number of tags
(`MuxAssumption`) `MuxTagsExact`, `MuxOwnReply` and `MuxNoLostTag`, with sends that fail, replies
with bad tags and end of file; and, if the sends of `muxrpc` do not fail,
`MuxMuxerAlive`.  Without that condition it is false (section 7); the sends of
`muxrpcstart` may fail, because an asynchronous call is the muxer only while it
receives.  The invariant follows the messages
(`Messages`): a request that can still be answered and a reply on its way belong
to a call that waits under that tag, and there is one of them for each call; so
a tag is given back when nothing can arrive under it any more.  That `gettag` finds a
free slot when `nwait` says so needs a pigeonhole argument (`Pigeons`).

`Srv9pProofs` proves for any finite sets of tags and fids, any procs and any bounds on
the messages (`Srv9pAssumption`):

* `Srv9pTagsAgree`: no request of a client that behaves is a duplicate, and each
  reply is that of the request its tag is busy with;
* `Srv9pRefines`: `Spec => ImplementsTransactions`; and from the same invariant
  `FlushedIsOver`: the reply to a Tflush comes after that to the request it names,
  and (an action property) `respond` writes no second reply;
* `Srv9pRefsExact`: the reference counts of Reqs and Fids are those of the pointers;
* `Srv9pAnsweredLetGo`: when an Rclunk is written, only a flushed request still has
  the Fid as its fid.

The first invariant, `IInv`, puts every request that was read in one place (a call on
some stack, left for later, or the list of delayed Tflushes of another) and says
what is known at each `pc`.  Its heart is `Writing`: between the moment a tag
leaves the pool and the moment the reply is written, the proc that holds `wlock`
is about to write that reply, so a Tflush that finds nothing under its old tag
cannot overtake it.  The second, `RInv`, has the counts.  Each step changes one entry
of a table of pointers, so all that is used of `Cardinality` is how the number of
entries with a value changes then (`Counts`, proved from the library's theorems
about finite sets); and a request whose handler has not run has no Fid (`Fresh`).
The third, `Numbered` and `Clunks`, ties the Fids to the numbers the client uses:
`respond` closes `r->fid` unless someone flushed the request, and a client that
behaves has no other request on a fid that it is clunking.

Where a proof needs facts about finite sets, the lemmas take them as an assumption
(`Library`) or carry them in the invariant (`Counting`, `Facts`); each is proved
once, in the same module, from the library's theorems.

In `SchedProofs` and `Srv9pProofs` the facts that only the induction step uses, one
for each action among them, are named steps of the lemma that is that step
(`StepPreserves`; `StepHolds`, `StepRInv`, `StepNumbered`, `StepClunks`).

Only model-checked:

* all liveness (`ENABLED` is beyond the prover) and `Sched`'s `ReadyRuns` with it;
* `Serve9p`, its refinement included: `msgput` frees what a message points to, which is a
  recursive operator, and the prover cannot use a module that has one;
* `Plumb`: `drainqueue` is a fold over the queued messages, and what a fold computes
  for every queue needs induction over data;
* `ProcWait`, whose one property the code violates (section 7).

## 7. Where the code and its documentation disagree

* **`procwait` gives the message to the wrong thread** (`libthread/wait.c:74`,
  run `procwait_own`).  `me.msg = msg` should be `w->msg = msg`: the code says
  "see src/libmux/mux.c", which has `r2->p = p`.  With a single thread in
  `procwait` the two are the same.
* **A failed send can lose the muxer** (`libmux/mux.c:62-70`, run
  `mux_sendfail`).  The call is on the list before it sends, is elected, fails
  and is freed; nobody receives any more.
* **The plumber queues a read that was flushed** (`cmd/plumb/fsys.c:607`, run
  `plumb_flush`).  A Tflush that overtakes its Tread, both taken by different
  procs, finds nothing to flush and is answered; then the read is queued, where
  flush(9P) says it "should be treated as though it had never been sent".  It takes
  a message that is then lost to the client, under a tag that may be in use again.

Seen and not turned into runs:

* libthread: an alt with a `CHANNOBLK` entry returns -1 (`channel.c:297`) where
  thread(3) says the index of that entry (and -1 for an interrupt), and so `nbsend`
  and `nbrecv` return -1 where it says 0.  `Alternation` with the index of
  thread(3) alone is violated by the first refused alt.  `chanfree` frees at once where
  thread(3) says freeing is delayed (its comment says "bug - work out races").
* libmux: the table of tags doubles beyond `maxtag` (`mux.c:234-246`) when
  `maxtag-mintag` is not a power of two, against mux(3); libdraw uses 1 and 255.
  `muxrpccanfinish` returns 1 and nil also when another call is the muxer, which
  `libdraw/event.c:225` reads as end of file; after a close the newest call is
  elected first, so callers that keep trying keep an older one asleep.
* lib9p: a flushed request keeps one reference too many (`srv.c:864`), so its Req
  is never destroyed: `RefsExact` is stated to allow it.  The comment at
  `srv.c:838-840` says that closing the fid calls `destroyfid` before an Rclunk is
  written if the client behaves; `ClunkDestroys` says it and is violated, for the
  walk that made the fid may still hold it as its newfid (`Most <- NoFlush`,
  `MaxMsgs = 3`).  Two Tflushes of one request may be answered in either order.
  `sversion` does not clunk the fids.
* 9pserve: `connoutthread` looks at `c->nmsg` and signals a stalled `connthread`
  only after it has put its message (`9pserve.c:844-846`); the last put may be that
  of `outputthread`, which signals nobody.  With `MAXMSG = 2` `Settles` is violated
  by a client that waits for its last reply before it sends again.  A Tattach or
  Twalk that is flushed leaves its fid in `c->fid`, so that using the number again
  is refused (`Cancelled` in `TablesAgree`).
* plumber: `drainqueue` goes on to the next message after it has answered one read of
  a fid (`fsys.c:406`), and the offset belongs to the fid.  With two reads of a
  fid in the queue and a message longer than the first asks for, the second gets the
  tail of the next message, and the offset starts again at 0; or it stays in the
  queue beside the rest of the message.  `Stream` without `mixed` is violated.
  `queueheld` does not drain "because we know no-one is reading yet"
  (`fsys.c:507`), which is not so when a flushed read of the fid is still queued: it
  waits beside the held message until the next read or message at the port.

## 8. Not modelled

Of lib9p and 9pserve: Tversion and Tauth, which happen once at the start of a
connection; the file trees of lib9p; Topenfd and the fixed attach of 9pserve.  Of
the plumber: rules, which are text, `newfid`, and starting programs.
lib9pclient, whose calls are single RPCs of `Mux`.  `muxprocs`, which has no
callers; `chanfree` and the growth of arrays; fork and exec, signals,
daemonizing; failing allocations, which mostly end the program; names, ids and
debugging output.  PROJECT.json gives the reason for every other part.

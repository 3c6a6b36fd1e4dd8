# Verification of the seminar programs

The repository is a collection of small C, C++ and assembly programs, one
directory a seminar (`src/src/apps/sem1` ... `sem24`), with a small library
(`src/src/utils`). Most programs stand alone. Those that carry a protocol of
their own - threads, processes, descriptors, signals - are the subject here; the
earlier seminars are printing exercises. Paths below are relative to
`src/src/apps` unless they say otherwise.

## 1. Inventory

| component | state it keeps | operations | who it interacts with | what is hard | what makes it correct |
|---|---|---|---|---|---|
| `safe_queue_t`, `sem23/task22_2.c` 17-61 | mutex, condition variable, `exists`, `value` | `safe_queue_acquire`, `safe_queue_release` | any number of producer and consumer threads | one condition for both sides, spurious wakeups, a producer cancelled inside `pthread_cond_wait` | it is a one-slot channel: nothing lost, duplicated or overwritten |
| prime stream, `sem23/task22_2.c` 65-117 | the candidate, main's loop | `is_prime`, `thread_func`, `main` | one producer (the thread) and one consumer (main) on a queue | wrapping `uint64_t` arithmetic, deferred cancellation, join | the primes from the base on, in order; main returns |
| eventfd relay, `sem22/task21_4.c` | an eventfd a thread | `thread_func`, `main` | threads wake each other; all read one stdin; main closes what they use | writes to an eventfd add up; the last reader tells everybody; descriptors close one by one | one activation in the system; everybody exits; no closed eventfd is used |
| ping-pong, `sem21/task20_3.c` | two eventfds, a counter in a shared mapping | `work`, `main` | parent and child | an unlocked counter in shared memory; who leaves first must wake the other; `fork` can fail | turns alternate, each value once, both end |
| `run()`, `sem21/task20_5.c` | epoll, timerfd, pipe, `run_ctx_t`, the child | `run`, two handlers, the clean-up | the command through a pipe and a wait status, the kernel's timer | timer against exit of the child, partial writes, seven setup calls that can fail, `int` overflow | the code returned tells how the run ended; nothing leaks when the setup fails; the run returns |
| `exec_python`, `sem16` | growing buffer, pipe, child | `read_all`, `exec_python` | a child through a pipe | a `read` or `realloc` that fails in the middle, the child then blocked on a full pipe | the whole output, or NULL when the command failed |
| pipelines, `sem17` | descriptors a process keeps | `exec_wrapper`, ping-pong over pipes, signal pipes | two children | who keeps which end open decides EOF and SIGPIPE | every process ends, by the end of file or the signal that is meant; the two players take turns |
| `atomic_push`, `sem23/task22_3.c` | list head | push | other pushers | weak compare-and-swap | an atomic push |
| locked sums, `sem23/main.c`, `mutex_simple.c`, `spinlock_simple.c`, `task22_1.c`, `sem24/task23_1.cpp` | a shared counter or an array of amounts | locked updates and transfers | threads | two cells change in one iteration; a lock held over one iteration or all | every cell is exact after the joins |
| `async_vector`, `sem24/cpp_magic.cpp`, `main.cpp` | output, completion count | `async_launch`, `async_vector` | detached threads | the callback must come once and last | callback once, after all outputs |
| thread examples, `sem22` | thread arguments, a shared sum | chained joins, recursion, cancellation | threads | lost update, deferred cancellation | results at the join; without a lock nothing is added that was not read |
| signals, `sem18` | masks, pending set, handler counters | handlers, `sigsuspend` | the sender | signals merge, arrive before the wait, interrupt their own handlers | the wait ends only by a signal; handlers nest as deep as the masks let them |
| sockets, `sem19`, `sem20/main.c` | socket, buffers | `ensure_send`, server, polling client | the peer | partial transfers, SIGPIPE, results nobody looks at | bytes in order, none twice; a send that stops early is reported |
| epoll/eventfd samples, `sem20/samples.c`, `sem21/main.c` | epoll set, counters | edge- and level-triggered loops | the kernel | an edge reported once | no stall with data present |
| mappings, `sem15` | a shared counter | child increments, parent samples | parent and child | unsynchronised reads | monotone samples |
| shell, `sem12` | working directory, files, descriptors | tokeniser, ten commands | user, file system | a word at the limit, runs of spaces, modes of what it creates, descriptors never closed | the words; a command closes what it opened, whatever fails |
| file utilities, `sem11` | buffers, offsets | `copy_file`, buffered `nextchar` | files | short writes, signals, output of the program's own between | bytes in order; a copy that stops early is reported |
| `string_t`, `src/src/utils/string.c` | pointer, length, capacity | reserve, append | - | sizes that wrap, null data, append of a string to itself, failing `realloc` | bytes and zero inside the allocation, in order |
| fixed point and assembly, `sem6`, `sem8`-`sem10` | registers | `fixed_mul`, loops | - | rounding, saturation, differences that wrap, array tails | equals the definition without the loop |
| language introductions (`sem1`-`sem5`, `sem7`), directories and dynamic libraries (`sem13`, `sem14`), build files | none that evolves | - | - | - | - |

The hazards, each at its line, are listed in `PROJECT.json`.

## 2. Modules

| module | what it is |
|---|---|
| `SlotChannel` | abstract: a slot and what each thread has in hand; `Put` only into an empty slot, `Take` only from a full one |
| `SafeQueue` | the queue, one action for each line that touches shared state |
| `PrimeStream` | the program around it; EXTENDS `SafeQueue` with one producer and one consumer |
| `EventfdRelay` | the relay: threads, eventfds, main |
| `PingPong` | the two processes |
| `RunSupervisor` | `run()`, the child, the timer and the pipe |
| `ExecCapture` | `exec_python` and the command whose output it captures |
| `Pipes` | the four programs of `sem17`, as scripts of main around children |
| `ThreadSums` | seven programs that add to shared numbers: what an iteration adds, and what the lock covers |
| `ThreadJoins` | four programs that create, join and cancel threads |
| `PushList` | abstract: a list whose nodes are put in front in one step |
| `AtomicList` | `atomic_push`, which implements it |
| `AsyncVector` | `async_vector`, its detached threads and the caller that may leave before them |
| `ByteStreams` | eight loops that move bytes, each a record of what it reads, writes and tries again |
| `Signals`, `EventSamples` | the signal experiments; timers, counters, `poll`, `select` and `epoll` |
| `Routines`, `StringBuffer`, `Shell` | code without concurrency: routines called once, a growing string, a shell on a small tree |
| `MC...` | instances for TLC; `MCCompletion`, `MCNotifications` and `MCSequential` put two or three independent parts under one run, of which a behaviour executes one |
| `PrimeStreamProofs` | theorems about `SafeQueue` and `PrimeStream` |
| `PingPongProofs`, `RunSupervisorProofs` | theorems about the module each is named after |
| `CompletionProofs` | theorems about `ThreadJoins`, `AtomicList`, `AsyncVector` and `Pipes` |
| `CountingProofs` | theorems about `EventfdRelay`, `ThreadSums` and `EventSamples` |
| `SequentialProofs` | theorems about `ByteStreams`, `StringBuffer`, `Shell` and `Signals` |
| `ResultProofs` | theorems about what functions return: `ExecCapture` and `Routines` |
| `SumProofs` | lemmas for the others: induction over a set of numbers, sums |

Operators named as mutants of another one (`RelockNoRetest` of `Relock`, ...) are
defined next to it and used by no specification. They are plausible bugs, kept
to show that each property notices one.

### SafeQueue and SlotChannel

`pc[t]` is the call the thread is about to make. `Lock`, `Wait`, `Relock` and
`Unlock` are the mutex and the condition variable; `Flip` is `exists = 1` (line
44) for a producer and `exists = 0` (57) for a consumer; `StoreValue` and
`LoadValue` are the assignment after it, in a step of their own, as nothing but
the mutex makes the two one. `Signal` wakes one sleeper of either side, since
both wait on the same condition. `SpuriousWake` is what POSIX allows. `Cancel` is
`pthread_cancel`; it leaves a request, acted on only in `cond_wait`, the only
cancellation point of the queue (`ActOnCancel`, then `Die` once the mutex is
back). No cleanup handler is pushed, so the thread is gone with the mutex
locked: whoever locks it afterwards waits for ever. In the program main never
does; the generic queue may deadlock there and its run says so. A signal and a
request for cancellation that meet are either one first. `safe_queue_destroy` is
called nowhere and is not modelled.

The refinement mapping: an item is in the slot from `StoreValue` to `LoadValue`
(`SlotItem`), and `InHand` is what a thread has been given or has yet to give.

### PrimeStream

`Skip`, `Emit`, `Emitted` are the loop of `thread_func`; `Ask`, `PrintLine`,
`CancelWorker`, `Join` are main. `is_prime` is written with the product
`i * i` modulo the word size, as the code computes it. Whatever `base` is, it is
a state of the program: `scanf`'s result is not looked at, so an input that is
not a number leaves any value there.

For 64 bits the wrap matters only near 2^64, where the loop, instead of stopping
at the root, goes on through odd numbers whose squares have wrapped below the
candidate. Such a run can meet the candidate itself as a divisor and reject a
prime; it cannot accept a composite, as all divisors up to the root have been
tried. `OnlyPrimes` is that second half. `PrimesInOrder` speaks of the numbers
`is_prime` accepts.

### EventfdRelay

`counter[i]` is the value of eventfd `i`. `Write` adds to it (and does nothing on
a descriptor that is not open), `Read` blocks on zero and resets it. `ScanValue`
is scanf, printf and the choice of the next thread, which touch nothing another
thread may touch then - that they do not is what `OneToken` says. `ScanFails`
is the end of the input, possible at any time, and `ExitAll` one turn of the
loop that follows. Main creates the threads one at a time while the first ones
run already, then joins and closes in order. Failures of `pthread_create` and
`eventfd` are not looked at by the code and not modelled.

### PingPong

`begin += 1` is `Load` and `Store`. A failed `fork` takes the parent's branch
(line 55): the parent prints 0 and sleeps for ever on its eventfd. That is why
the run does not check for deadlock, and why `BothExit` excludes it.

### RunSupervisor

`SetupStep` makes the seven calls in the order of lines 86-116, `SetupFails` the
clean-up. A wait status is the integer the kernel stores and is taken apart as
`WIFEXITED` does. The pipe can take part of a write. Its read end stays open in the
parent, so EPIPE (line 48) cannot happen. The child reads, sees the end of its
input, and ends, when it likes or never. What was left out: the two output
arguments, which `run` never uses, and the content of the input.

Facts the model makes visible, where no text of the repository says otherwise:
a `timeout` of 0, or one whose nanoseconds wrap to 0, arms no timer, and as
`waitpid` is only asked after an event, such a run does not return once the input
has been written (or while the pipe is full); a `timeout` of a second or more is
refused or wraps to another one; descriptors stay open after a successful setup
(`TODO` in line 168); a failed `fork` is taken for the parent and gives a result
read from an uninitialised `child_status`, and line 167 then signals -1, every process it may, an effect outside the model; `kill` is called also after the child
has been reaped.

### ExecCapture

`pc` is the call `exec_python` is about to make: `MakePipe`, `Fork`,
`CloseWriteEnd` (line 75), the loop of `read_all` as `ReadChunk`, `Store`,
`ReadEof`, and `WaitChild`. `ReadError` and `ReallocFails` end the loop as the
code does, with what is stored so far. `Double` is one turn of the doubling loop
of lines 25-28, which works on `next_capacity`; the `realloc` comes after the
last. The command writes one byte at a time, sleeps in a write while the
pipe is full (`BeginWrite`, `EndWrite`), and may be killed at any time. Bytes are
numbered, so that a result is the output exactly when it counts up to what was
written. A `read` error of `read_all` is not seen by its caller: if the command
then exits with 0 the beginning of its output is returned as if it were all.

### Pipes

`Script` is what `main` of each program does, in order; `open[q]` the pipe ends
process `q` has. End of file and SIGPIPE follow from it. Every child inherits
what its parent has open at that moment: the first command of the pipeline keeps
the read end (`task17_1.c`, line 33), and when the second does not read to the
end the first one waits for ever on a full pipe, with main waiting for it;
`MainEnds` exempts this case, which the model contains. `Scan` is `task17_4.c` line 30 as written: the
condition on `fscanf` is the wrong way round, so a player leaves when it was sent
a number and answers at the end of the file. `OneNumber` does not depend on that: the
players take turns whichever way the test is, as there is one number in the pipes or
in the hand of one of them. `signals.c` does not call
`sigpipe_poc` from its `main`, which is modelled as if it did. A failed `fork`
makes `waitpid(-1)` of `waitpid(child)`, which takes any child.

### ThreadSums

A `+=` is `Load` and `Store`. For each program an operator (`Task22_1`, ...) gives
the updates of an iteration, one pair of a cell and what is added to it for each
`+=`, and `Covered` says whether its lock covers an iteration, all the iterations
of a thread, or nothing. Two programs take their numbers from stdin, of either sign.
`Join` is main, which in `task21_3` adds up as it joins (`total`); of the others
`SumsExact` compares every cell with `Expected`, computed without the threads: the
three cells `task22_1` prints one by one, and the two numbers of `task23_1.cpp`'s
`result`, which it does not print and never initialises, so that they start from
anything (`Garbage`). `race_condition` has one cell and no lock, and numbers are lost;
`NothingInvented` says that what is left is the sum of some of the numbers read.

### ThreadJoins, AtomicList, AsyncVector

`ChainCreate` fills a context before it creates its thread, `JoinPrevious` and
`PrintOwn` are `task21_1.c`'s `thread_func`; `Recurse` and `JoinNext`
`task21_2.c`'s; `StartOne`, `Cancel`, `StoreX`, `EndOfSleep`, `JoinOne` the two
programs with one thread. In `cancel_example.c` `sleep` is the only cancellation
point, so the store before it is always seen.

`AtomicList` has one thread for each node. `Swap` needs the head as it was
loaded; `SwapFails` may happen even then, since the compare-and-swap is the weak
one, and goes back to the load. The refinement mapping takes the links of the
nodes whose push is done.

In `AsyncVector` `Apply` reads the element through the reference `std::forward`
keeps in the tuple (line 65), `StoreOutput` and `Count` are lines 55 and 59. main
sleeps one second, destroys the vector and exits. Nothing makes the threads
finish before: a thread that reads after the destruction computes from freed
memory. That no code forbids; `CallbackAfterAll` is about count and order, and its
`freed` case only names the way to a wrong output that is left.
With an empty vector the callback is never called.

### ByteStreams

`Read` takes any part of what there is, up to the buffer; `WriteLoop` writes any
part of what is left; `WriteOnce` is `cat`'s, which stops at a short write and
returns 0; `WriteByte` is the filters', which look at no result. `WriteLibc` is
`fwrite`: stdio keeps a part (`held`) and writes another one (`Drain`), a write of
its own may fail, which drops bytes, and no program looks at the result
(`sem19/main.c:102`, `server.c:62`, `sem20/main.c:109`); `Exit` flushes what is left.
A program may print lines of its own (`Note`) on the stream it copies to: the
handler and the EINTR branches of `copy_file` (`Interrupted`), "no data" (`NoData`),
what is printed while a socket is set up. A write whose reader is gone ends the
program by SIGPIPE (`BrokenPipe`; the same in `Drain`), reported to nobody, which is
why `CompleteOrReported` speaks of programs that end by themselves. A `getaddrinfo`
that fails with anything but -1 leaves `addr` unset (`ResolveFails`): undefined from
there on. `accept` is not looked at (`AcceptFails`). Of the bytes only three classes
matter: small letters, `0xFF`, which `nextchar` returns as -1 (`task10_3.c`), and
others. `reported` is what the code tells its caller or user; `failed` is what
happened. After a failed `connect` the request is sent all the same; the model lets
these sends fail, be short or end the program like any others.

### Signals and EventSamples

Between two steps of the program the kernel runs the handlers of all pending
signals that are not blocked; a pending signal is not pending twice. A frame
keeps the mask to go back to, which inside `sigsuspend` is the one before it.
`BlockedInHandler` is what `sa_flags` and `sa_mask` come to. main runs only the
experiment with masks; the others are run as if it called them.

In `EventSamples` a record tells what a kernel object holds, whether a read takes
all of it or one, and how the function waits. `Drain` is `sem21`'s loop until a
read fails. In `sem20` the epoll data is set as a number, 1234, and read back as
a descriptor: every read fails with EBADF, `has_data` stays set, and the loop
spins (`ReadBadFd`).

### Routines, StringBuffer, Shell

`Routines` writes each loop as a recursive function over its registers and calls
it once on any arguments; `Promised` is the meaning of each without the loop.
`Scan` is one turn of the tokeniser's loop. The integers have `Width` bits. `fixed_mul` with `n = 0` shifts by -1 and is not
called; with `n = 32` it truncates. The overlap of two intervals is the promised
one unless the difference wraps.

`StringBuffer` keeps the allocation byte by byte. A `size_t` is a number modulo
`SizeMod`, twice `HalfRange`: 2^64 in the code and 16 in the run. Any size may be
asked for, and sums and doubles wrap as they do in the code. All that is assumed of
`malloc` is that it gives no object as long as half of the addresses (`MaxObject`).
`string_reserve` only ever grows; a failed `realloc` changes nothing. What the wraps
come to: `string_reserve(SIZE_MAX)` reallocates to 0 bytes, which frees the data of a
string that has some and goes on pointing to it (`ReserveFrees`), and gives one that
has none the largest capacity and no room; the double of line 47 wraps only for half
of all addresses. An append of nothing to a string that owns nothing writes
through NULL, and appending a string to itself copies from memory `realloc` may have
freed. `undefined` keeps which of these has happened, and `StringIntact` says that
there are no others.

`Shell` has a tree of two levels and a process that may run out of descriptors: a
command that opens something has steps of its own until it returns (`doing`), with
every failure between, and `OnlyListingLeaks` says that all but `ls`, which has no
`closedir`, have then closed it. The kernel answers as it does an ordinary user:
`mkdir` takes the mode of a file (line 81), so that what it made cannot be entered.
`func_echo` and `func_ls` return no value, so that whether their line fails is
arbitrary.

## 3. Runs

| run | instance | shows |
|---|---|---|
| `safe_queue` | 2 producers, 2 consumers, 2 values, symmetric; spurious wakeups; producers cancelled at any time | `MutualExclusion`, `ImplementsChannel` |
| `prime_stream` | 4-bit words, every base, 0 to 3 lines | `NoLostWakeup`, `PrimesInOrder`, `OnlyPrimes`, `MainReturns` |
| `eventfd_relay` | 3 threads, numbers -4, -1, 3, 5, up to 3 of them | `OneToken`, `ExitIsFinal`, `FdsUsable`, `RoutedByResidue`, `MainExits` |
| `ping_pong` | counting to 15 | `OneTurn`, `PrintedInTurn`, `BothExit` |
| `run_supervisor` | 6 timeouts, 3 bytes of input, pipe of 2, codes 0 and 1, signals 6 and 9 | `FailureReleasesAll`, `CodeTellsWhy`, `EndedIsNotTimedOut`, `EofAfterAllInput`, `Returns` |
| `exec_capture` | capacity 2, reads of 3, pipe of 4, up to 8 bytes | `RoomForTerminator`, `ResultIsOutput`, `Returns` |
| `pipes` | the four programs, a pipe of 2, up to 4 writes | `AliveAfterSigpipe`, `OneNumber`, `MainEnds` |
| `thread_sums` | seven programs, 3 threads, 2 iterations or up to 4 numbers of either sign on stdin | `SumsExact`, `NothingInvented` |
| `completion` | 4 threads to join, 3 pushes at once, vectors of 0 to 3 | `WhatIsPrinted`, `ImplementsPush`, `CallbackAfterAll`, `CallbackRuns` |
| `byte_streams` | eight loops, a buffer of 2, all inputs of up to 5 bytes of 3 classes, a signal or delay (`MaxNotes`) | `InOrder`, `CompleteOrReported` |
| `notifications` | five experiments with up to 4 signals; eight samples, up to 6 expirations | `HandlersContained`, `NothingLeftBehind` |
| `sequential` | 3-bit integers, strings of 3, arrays of 6, lines of 6 characters and 2 words; a `size_t` below 16 and objects of 7 bytes; the tree of three nodes and 3 descriptors | `ReturnsPromised`, `StringIntact`, `OnlyListingLeaks` |

`safe_queue` and `eventfd_relay` also check their module's type invariant. Those of
the prime stream (`PTypeOK`), the ping-pong and `run` are proved, with the other
parts of the invariants, as is `NoneOutlivesRun`.

Why the bounds are enough. Two producers and two consumers are the least with a
wrong sleeper for a signal and a thread that can take the slot between a wakeup
and the re-test; the values only need to be told apart. Four bits hold six
primes, and products `i * i` that wrap both to a value below the candidate and to one
above. Three threads are the least with a thread that is neither the sender nor
the receiver; the numbers reach each of them and have both signs, and the three
positions cover self-activation and a return. The ping-pong is a cycle of two
turns. The constants of `run` are scaled (a second has 3 ms of 4 ns, an `int` 5
bits), so that each class of timeout occurs: negative, zero, good, a second,
wrapped to zero, wrapped to a short one; an input longer than the pipe makes the write
both partial and refused. `Returns` is about the timeouts that arm the timer they ask
for; with 0, or one that wraps to 0, the run does not end, and that is in the model but
exempt. `MaxCount`, `MaxInputs`, `InputLen` and `PipeSize` are
the bounds on counters; nothing else is cut.

In `exec_capture` a chunk is longer than the first buffer (the doubling loop
turns twice), output longer than the pipe blocks the command, and every position of
a failing read or `realloc` occurs; `Returns` exempts the runs in which one has cut the
loop, where the deadlock of line 78 is real. `pipes` lets the command write twice what the
pipe holds. Three threads and two iterations are the least in which a thread is
preempted between load and store by one that itself has begun again, and in which
a transfer has a third party. Three pushes are the least in which a swap meets a
head changed twice. Each byte stream has inputs longer than its buffer, so that a
short read, a short write and a failure come in every order; one signal or delay puts
a line of the program's own at every place. Two signals of the
experiment are needed to finish `mask`; four let some merge and `defer` nest.
The routines are exhaustive on their small words; 3 bits are enough for every
rounding case, saturation and wrapping, arrays of 6 take the loop of four once with
a tail of two. The string grows twice within 7 bytes before there is no room, and below 16 the sizes
reach both wraps.

Fairness. Every assumption is weak fairness of a whole thread or process: it runs
if it can. No mutex is assumed to be fair: a thread that sees the mutex
taken infinitely often may wait for ever. `prime_stream` also assumes that
`cond_wait` wakes for no reason only finitely often, so that progress must come
from real signals. `eventfd_relay` needs an input that ends, `run_supervisor`
that time passes; of the command nothing is assumed. `exec_capture` assumes that
both processes run - the command goes on writing or ends - and not that any call
fails or anybody kills it; `pipes` that every process runs, and not that a
command quits early; `completion` that the detached threads and the loop that
starts them run, and not that main returns.

Deadlock is not checked where the programs really may stop: an early stop of
`read_all`, a pipeline whose second command quits, a blocking read of a counter
that is used up, and, in the runs with parts, a part that has come to its end.
`thread_sums` and `byte_streams` do check it: no thread and no loop is ever stuck.

Liveness of the queue with several producers is not claimed. A signal can wake a
sleeper of its own side, which goes back to sleep while the other side sleeps
too; then only a spurious wakeup helps. With one thread a side this cannot
happen, which is what `NoLostWakeup` and `MainReturns` show for the program
there is.

## 4. Proofs

`tlapm` checks every module named `...Proofs`. Nothing is assumed but the
`ASSUME`s of the models, which TLC evaluates on every run. Each safety property
and each action property of the runs is a theorem, for all values of the
constants, but for `NothingInvented`; what follows says by which invariant.

`PrimeStreamProofs`, `PingPongProofs`, `RunSupervisorProofs`:

- **Queue** (any sets of producers, consumers and values). The inductive
  invariant is types, `MutualExclusion` and, for a thread past the while, that
  the slot is as it tested it (`GuardHolds`): without the last the refinement's
  `Put` and `Take` have no guard. `QueueImplementsChannel` maps `StoreValue` to
  `Put`, `LoadValue` to `Take`, calls to `Offer` and `Use`, the rest to stutters.
- **Prime stream** (any word size, any number of lines). Each step is one of the
  queue's or leaves it alone (`PrimeUsesQueue`), so the queue's theorems carry
  over; `NoLostWakeup` needs where each of the two can be when the slot is in each
  state. `StreamInv` is the chain behind `PrimesInOrder`: from the last line printed
  over the item main holds, the one in the slot and the one in the worker's hand to
  the number the worker tests, no two have an accepted number between them. An item
  moves by one link in `StoreValue`, `LoadValue` and `PrintLine`. `OnlyPrimes`
  needs that a composite number has a divisor whose square is not larger; up to
  that divisor no square has wrapped, so the loop comes to it and finds it. Both
  need division taken apart by hand, in lemmas.
- **Ping-pong** (any End). The token, the register of the one that is between
  `Load` and `Store`, and the parity of `begin` are one invariant.
- **`run()`** (any timeouts, lengths, codes below 256, signals below 128). The
  invariant follows the three stages: before the loop there is no child and no
  result, in the loop only the timeout's handler can have written one, after it -1
  means that no child was started. A lemma takes the wait status apart: an exit
  code comes back unchanged, a signal never looks like one, and neither is -1 or
  -2. `EndedIsNotTimedOut`, an action property, follows from the same invariant.

`CompletionProofs`:

- **Joins** (any number of threads). `ChainInv`: the threads that have ended are
  the first ones, as many as there are lines. `RecursionInv`: the depth of the
  thread that prints next and the lines printed add up to the numbers read.
  `StoredInv`: whatever ends a thread, cancellation included, comes after its store.
- **`atomic_push`** (any set of nodes). `ListInv`: the head is NULL or a node whose
  push is done, and a thread about to swap has linked its node to the head it
  expects. So a swap that succeeds is `Push` of the abstract list, and everything
  else, failing swaps included, a stutter (`PushRefinement`).
- **`async_vector`** (vectors of any size). `CountIsExact`: the atomic count is the
  cardinality of the set of elements counted. A thread that makes it the size has
  therefore seen every element stored, and no other can see that again
  (`OneCaller`), which gives `CallbackAfterAll`.
- **Pipes** (pipes of any size). Which ends a process holds is a function of its
  place (`Holds`) and of main's place in the script; from that follow who can meet
  an end of file and who SIGPIPE. For `sigpipe_poc`: at the write nobody can read
  any more, so only the handler leads past it. For the players: the number is not
  yet sent, in the pipe, or received by one that is gone (`Exchange`), hence
  `OneNumber`.

`CountingProofs`:

- **Relay** (any N, any integers). `RelayInv` counts the token: it is in
  one eventfd, or one thread, or not yet given, or gone once the exits have
  started; the exit loop's index splits the counters into told and not yet told.
  Routing needs a lemma that the corrected C remainder is the residue.
- **Sums** (`SumProofs`). The library's fold takes the elements of a set in an order
  of its own. `FoldTakes` shows that with `+` any of them may be taken out first, by
  induction over the size of the set; `TotalTakes` and `TotalAgrees` are what the
  proofs use.
- **Shared sums** (any number of threads and iterations, any divisor, any integers on
  stdin). `CellInv`: each cell is what it was at first and what each thread has added
  to it so far, counted from its iterations and the updates it has left; `ReadInv`, for
  `task21_3`: the cells, what is still to be added and what is unread come to what was
  given. Both are kept because of `LoadInv`: the register of a thread about to store is
  still the cell. That holds by `LockInv` (whoever is inside an iteration has the
  lock) or because each cell has one writer. `SumsAreExact` follows once every
  thread has ended. `NothingInvented` is not proved: what a stale store brings back is
  the sum of some subset of the numbers read, and which one is not a function of
  the state.
- **Event samples** (any number of expirations). `Accounted`: what was read and
  what the object holds make up what was put in. `Drained`: the loop waits only
  when nothing is left or a change has yet to be reported.

`SequentialProofs`:

- **Byte streams** (any buffer, any inputs). `Ordered`: what is written and what stdio
  keeps are bytes already given to a write, in their order, the written ones before the
  kept ones. `Delivered`: of those given to a write none is missing, unless a write has
  failed in a program that ignores it. `Loops` says what phase each of the eight
  loops can be in with what in its chunk, and what an end means. stdio cuts its
  buffer anywhere; that both parts keep the order is a lemma (`Cut`). `StreamsInOrder`
  and `StreamsComplete` follow.
- **`string_t`** (any half range, any object size below it). `Allocation`: there is
  none, or `capacity` and one byte for the zero, or, after a reserve of `SIZE_MAX`, no
  byte at all. While there is one, the required size is its own remainder
  (`SizeTFacts`) unless it reaches half of the range, which gives the two cases
  `StringStaysIntact` names for an overrun.
- **Shell** (any number of descriptors). `ShellInv`: the descriptors open are as many
  as `ls` has left, and one more while a command is at work.
- **Signals** (any number of signals). One invariant for each experiment:
  `RecursionInv`, `AloneInv`, `DeferInv`, `MaskInv` say which frames are on the
  stack, what each has saved as mask, and how much is pending at each place of main.

`ResultProofs`:

- **`exec_python`** (any sizes of chunk, pipe and output). `BytesInOrder`: buffer,
  chunk and pipe put one after the other are the bytes written, until a failed
  call cuts the loop; with `LoopEnd` (it ends otherwise only when no one can write)
  this gives `ResultIsOutput`. `RoomForTerminator` is inductive with the types of
  the two lengths, as the doubling stops at the first that is large enough. NULL is
  assumed to be no buffer.
- **Routines** (any width, any lengths). That a recursive function has the
  recursion that defines it is not given: a function with that recursion is named
  (`CmpExists`, `DescendsExists`, `TurnsExist`), and what it is follows by induction
  over the turns. The library's induction theorems take an operator, which these
  provers cannot instantiate; `SetInduction` says the same of a set of numbers, from
  its least counterexample. `fixed_mul`: 2^n counts subsets, so it doubles with n
  (`PowerDoubles`); the sum it shifts does not reach 2^64 (`NoOverflow`), and what it
  adds first makes the quotient the nearest one, of two the even
  (`RoundingIsClose`, `CloseIsUnique`). `mystrcmp` stops at the first place where the
  strings differ or end, which is where `Before` decides. The loop of four of
  `dot_product` adds what four single turns would (`DotTurnIs`). The tokeniser:
  `Scanned` says that the words found are those that begin up to `j`, that none has
  begun since but the one being read, and that the scan has stopped only with
  `MAX_ARGS` words. The theorem is about the arguments of `RInit` (three
  values of a byte, two of a number to reverse); the lemmas on the reversals, the dot
  product and the tokeniser are about sequences of anything, or of natural numbers.

Model-checked only: `NothingInvented`, and the liveness properties (`MainReturns`, `MainExits`,
`BothExit`, `Returns` of two modules, `MainEnds`, `CallbackRuns`). This prover has
neither fairness nor ENABLED.

## 5. Plan

Modelled in this order: queue and channel, prime stream, relay, ping-pong, run;
then the captured command, the pipelines, the push and its refinement, the vector,
the joins, the sums, the byte streams, signals and samples, routines, string,
shell. Proved in the order of section 4's modules.

Still worth proving: measures that decrease in the loops of `run` and `read_all`,
as far as they can be said without fairness, and `NothingInvented`, which needs the
subset of numbers each register and cell stands for as a history variable.

## 6. Not modelled

- The language introductions (`sem1`-`sem5`, `sem7`), directory listings and
  dynamic libraries (`sem13`, `sem14`), build files: no state whose evolution could
  go wrong.
- `sem15`: an unsynchronised counter printed at moments nothing determines, of
  which the program promises nothing, and mappings copied out in one call.
- `struct Container` of `sem23/main.c`, which no program uses; `safe_queue_destroy`.
- Of the sockets: `wait_select`, and what the lines say that the programs print of
  their own. Of the samples: `open_many_fd` and `run_timer_signal`.
- Of the assembly: straight-line code that adds, or calls `libc` or the FPU.
- Failures the code does not look at: `pthread_create` in the chain and the relay,
  `pipe`, `dup2`, and the first `malloc` of `read_all`.
- Process numbers (a `kill` after the reaping, line 167 of `task20_5.c`, may reach
  another process) and time, but for the order of what a delay separates.

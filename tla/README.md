# Verification of mipt-informatics

TLA+ models, TLC runs and TLAPS proofs for the programs of this repository, a
collection of course work: about 300 small programs in C, C++ and assembler.
The programs that are hard to get right are those of the second year
(`course2-1`), where processes and threads cooperate through every mechanism
POSIX has to offer; they are what this development is about.

All paths below are relative to `src/`.

## 1. Inventory

### 1.1 Concurrent programs (course2-1)

| Part | State | Operations | Interaction | What is hard |
|---|---|---|---|---|
| `__non_canonical/For575/mpmc/mpmc.c` | circular queue, head, tail, count, end flag; per thread a counter and a document | insert, take, wait, signal, announce the end, join | threads, one mutex, two condition variables | wakeups sent after the unlock, one waiter per signal, the end of the program, EINTR |
| `seminar6/sender.c`, `receiver.c`, `common_sem.h` | shared memory with two state words and a buffer; four semaphores; undo adjustments per process | join a session, fill, drain, end, die | XSI semaphores, shared memory, SEM_UNDO | death of either side between any two calls, several pairs on one key, sessions that follow one another |
| `seminar7/signal.c`, `common_signals.h` | two one-byte bit buffers with a sentinel, pending signals | ask, answer, write a byte, end | signals between parent and child | signals do not queue, handlers run anywhere, death of either side |
| `seminar8/task.c` | N+1 buffers, 2N pipes, the epoll set, N children | one event at a time: read, write, close | pipes, epoll, SIGCHLD | order of closing, back pressure, a signal during epoll_wait |
| `seminar4/print.c`, `read.c`, `common_fileops.h` | control FIFO, data FIFO | rendezvous, transfer | named pipes | many readers, one writer each; retries |
| `seminar5/task.c` | message queue, its identifier | send, wait for the answer, remove the queue | XSI messages | order of output, removal of the queue |
| `__canonical/runsim.c`, `useless.c` | semaphore with N units; a list of start times | read a line, fork, take a unit, run, wait | SEM_UNDO, fork | the limit, whichever way children end |
| `__canonical/backup.c` | frames of the directory walk, one file's times | compare, copy, compress | fork/exec of gzip, wait; the user's files | files that change meanwhile, a backup that is killed and started again |
| `__non_canonical/For478/task1` | master, guard and slave pipes | request, answer, reopen | named pipes, poll | clients between an end of file and the next open(), a server that is started again, clients that die with a request sent |
| `__non_canonical/For478/task2` | as seminar6, with one long-lived receiver | one session after the other | XSI semaphores, SEM_UNDO | deaths in a session; helpers that are missing from the repository |
| `__non_canonical/For478/task3/ls_lr.c` | frames of the directory walk | read a directory, print it, descend | directories that change | entries that vanish, directories that are closed |
| `__non_canonical/For478/task4` | as seminar7 | as seminar7 | signals | no handler tells of a death |
| `seminar1`, `seminar2` | a flag or none | fork in order, exec | fork, wait | failing fork() |

What makes each of them correct:

* **mpmc**: the ring is touched under the mutex only; no document is lost,
  doubled or reordered; no thread sleeps while there is something for it to do;
  the program ends, with the queue empty.
* **seminar6**: one receiver and one sender at a time have the memory in turn;
  what is written is a prefix of the file, and all of it on success; either side
  notices the death of the other.
* **seminar7**: each bit arrives exactly once although signals do not queue; the
  end falls on a byte boundary; both processes end whatever dies.
* **seminar8**: what leaves the last buffer is what entered the first, in order;
  no descriptor is closed with data still to pass; the loop ends with the input.
* **seminar4, task1**: what a reader writes is a prefix of one writer's file, and
  all of it when both sides report success; nobody waits for the dead, and the server
  outlives its clients.
* **seminar5, runsim**: the children print in order; never more than N commands at
  once, and none refused without need.
* **backup, ls_lr**: after a run that reports success every archive is current,
  as far as the times of files can tell;
  every entry is listed once.
* **task2**: the files follow one another, each in one piece.

### 1.2 Sequential programs

| Part | What it is |
|---|---|
| `course1-1/12-seminar-datacenter` | a record pool with two hash indices (`database.c`), a hash table (`data_hash.c`), the sorting of a list (`data_dlist_sort.c`), and two pages of recursion |
| `course1-1/10-seminar-lists`, `11-seminar-tree` | linked lists under a card game (`list_3.c`) and the Josephus problem (`joseph.c`); search trees with a breadth-first search |
| `course1-1/9-seminar-stack` | a growing stack under a postfix calculator and a bracket checker |
| `course1-1/8-seminar-graph` | shortest paths (`dijkstra.cpp`), the longest cycle (`love.cpp`); smaller exercises |
| `course1-1/eljudge`, `0-AMPh-olymp` | judge tasks: a calculator (`024.cpp`, another in `9-seminar-stack`), the square root of a permutation (`070.cpp`), many of a page |
| `course1-2/1-number5`, `3-neo-at-the-architect` | a search for the radix of equations, a syntax checker for assembler texts, small simulators |
| other directories of `course1-1` and `course1-2` | exercises of a page or less; assembler |

What makes them correct is what they compute; where they keep links or pointers
between steps (`list_3.c`, `data_hash.c`, `data_dlist_sort.c`, the search tree),
that these are sound between any two steps; and that their loops end.

## 2. Modules

| Module | Models |
|---|---|
| `MPMC` | `mpmc.c` |
| `DocumentQueue` | what `mpmc.c` promises: a first-in first-out buffer |
| `XsiSem` | `common_sem.h` over the kernel's `semop()`, SEM_UNDO, SETVAL and exit |
| `SemTransfer` | `seminar6`: any number of senders and receivers on one key; EXTENDS `XsiSem` |
| `SessionTransfer` | `For478/task2`: one receiver, senders that follow one another; EXTENDS `XsiSem` |
| `SignalBits` | `seminar7/signal.c` |
| `SignalBitsOld` | `For478/task4/signal.c`; EXTENDS `SignalBits` |
| `EventLoop` | `seminar8/task.c` |
| `FifoTransfer` | `seminar4/read.c`, `print.c`, `common_fileops.h` |
| `RequestServer` | `For478/task1/server.c`, `client.c` and their headers |
| `MessageOrder` | `seminar5/task.c` |
| `ForkOrder` | `seminar2/task1.c` |
| `LineRunner` | `__canonical/runsim.c`, `useless.c` |
| `Backup` | `__canonical/backup.c` |
| `Listing` | `For478/task3/ls_lr.c` |
| `Database` | `12-seminar-datacenter/database.c` |
| `RecordBag` | what `database.c` promises: a bag of records |
| `LinkedList` | the list that `list_3.c`, `joseph.c` and `tree_7_breadth_first_search.c` share |
| `ListCalls`, `CardGame` | `10-seminar-lists/list_3.c`: its list under any calls, and its game |
| `Josephus` | `10-seminar-lists/joseph.c` |
| `BreadthFirst` | `11-seminar-tree/tree_7_breadth_first_search.c` |
| `DataHash`, `ListSort` | `12-seminar-datacenter/data_hash.c`, `data_dlist_sort.c` |
| `Stacks` | `9-seminar-stack/stack_postfix.c`, `stack_skobki.c` |
| `Calculators` | `9-seminar-stack/024.c`, `eljudge/024.cpp` |
| `ShortestPaths`, `LongestCycle` | `8-seminar-graph/dijkstra.cpp`, `love.cpp` |
| `PermutationRoot` | `eljudge/070.cpp` |
| `RadixSearch` | `1-number5/base.cpp` |
| `SyntaxCheck` | `3-neo-at-the-architect/7-syntax_arm.c` |
| `*_proofs` | theorems about `MPMC`, `SemTransfer`, `EventLoop`, `SignalBits`, `FifoTransfer`, `RequestServer`; `Sequential_proofs` has those about `Database`, `DataHash` and `ShortestPaths`; `MCProcesses_proofs` has those about `SessionTransfer`, `MessageOrder`, `ForkOrder`, `LineRunner`, `Backup`, `Listing`, and carries all of section 2.6 over to `MCProcesses` |
| `MC*` | instances for TLC; they add the small sets the configurations need, and `MCProcesses` and `MCAlgorithms` put several programs into one run |

In every module the comments name the source file; `PROJECT.json` (`map`) names
the lines of each definition. A definition introduced by "Mutant of X" or "Bug:"
is not part of the model: it is X with a bug somebody could have written, kept
beside it to show that a property would notice.

### 2.1 MPMC

| Code | Model |
|---|---|
| the array, `queue_head`, `queue_tail`, `queue_used` | `queue`, `head`, `tail`, `used` (pointers as indices) |
| `queue_mutex` | `owner` |
| the wait queues of the condition variables | the threads whose `pc` is `"wait"` |
| `doc_counter`, the local `doc` of a thread | `docCounter`, `hand` |
| `queue_going_away` | `goingAway` |

One action is the code between two points where another thread can look: what a
thread does while it owns the mutex is one step up to the next mutex or
condition call. The signals of lines 162 and 217, sent after the unlock, and the
broadcast of the main thread are therefore steps of their own, and so is the
return from `pthread_cond_wait()` with and without the mutex. A signal wakes any
one waiter or nobody. `delivered` and `scanned` are history: what consumers took,
and what they printed. EINTR of `nanosleep()` and spurious wakeups are
disturbances, counted by `MaxInterrupts` and `MaxSpurious`.

`DocumentQueue` has `Put(p)` and `Get` over a bounded sequence. The refinement
mapping reads the ring from `head` (`Buffer`), and takes for `put` what each
producer has inserted, which is its counter less the document it still carries.

### 2.2 XsiSem and SemTransfer

`semop_many()` takes a count and then as many entries; `Expand` does what its
loop does with an entry that asks for an adjustment (two operations that cancel
out, one with SEM_UNDO). `Semop` is the kernel's part: all or nothing, with the
adjustments of SEM_UNDO per process, and `Undo` what exit makes of them.

| Code | Model |
|---|---|
| the four semaphores | `sem`, numbered as in `enum semaphore_id` |
| semadj, kept by the kernel | `adj` |
| the key and the segments it named | `key`, `created`; `shm` and `attached` per process |
| `struct shared_memory` | `memory`, per segment: two states and one chunk |
| the place in `main()` of each process | `pc`, one label per `semop()`, `read()`, `write()` or access to the shared memory |
| exit status | `status` |

Every process may be killed between two steps; `Exit` applies its adjustments.
The cleanup attributes (`_cleanup_shmrm_`, `_cleanup_shmdt_`) are the `Cleanup`
step a process goes through after `return` and not after SIGKILL. SETVAL clears
the adjustments of all processes, as in the kernel. The semaphore set is never
removed. `firstId` is the identifier the first segment gets: with 0 `shmat()` is
skipped (`ShmSkipped`), and the first access to the memory is a crash (`Crash`).

### 2.3 SignalBits

Pending signals are sets, because they do not queue: `rpending` and `spending`.
`rbuf` and `sbuf` are the one-byte buffers, numbers with the sentinel bit of the
code, `TopBit` being 0x80; the arithmetic wraps where `uint8_t` does. `sigwait()`
takes any of the pending signals of its set. SIGCHLD and SIGALRM are not blocked:
their handlers (`PeerDeath`, `PeerCheck`) may run between any two steps.
`sigset_many()` is called without its terminating 0 in the sender (line 210), so
whether the sender's set contains SIGALRM is undefined: `listensToAlarm` is
chosen at the start.

### 2.4 EventLoop

| Code | Model |
|---|---|
| `in_fd`, stdout | `unread`, `output` |
| `buffers[i].buf` from `begin` to `end` | `buf[i]` |
| `rd_fd >= 0`, `wr_fd >= 0` | `rdOpen[i]`, `wrOpen[i]` |
| the pipes | `toChild`, `fromChild` |
| a child: reading, writing what it `held`, its descriptors closed, reaped | `child`, `held` |
| `buffer_events` and the index `i` of both loops | `bes`, `at` |
| where the parent is, and how it ended | `parent` |
| the SIGCHLD handler is still installed | `handler` |

`EpollWait(e)` returns the events of one descriptor, adds the two fake events and
coalesces neighbours about the same buffer; `WriteOut`, `ReadIn` and `Close` are
then taken for one buffer event after the other, the data from the tail to the
head, the closing back. The flags are those of the moment `epoll_wait()`
returned, while children go on between the steps. The comparator given to
`qsort()` never returns a positive number, so a merge sort, which glibc uses for
small arrays, leaves the events as they are: this is the order modelled.

### 2.5 Database

| Code | Model |
|---|---|
| `struct Pool pool` | `pool`, a sequence of records with `value` and `count` |
| the buckets of `tables[0]` and `tables[1]` | `tables["A"]`, `tables["B"]`: sequences of places in the pool |
| `NO_ITEM` | 0 (places count from 1) |
| the number printed last | `answer` |
| the order of evaluation in `bucket_get(b, bucket_add(b))` | `baseFirst`, chosen at the start |
| the program has not crashed | `running` |

One command of the input is one step: `AddCopy` and `AddItem` (the two branches
of `add`), `Count`, `Delete`. The buckets are searched as in the code:
`pick_smallest()` first, then the first slot with the record, or the first slot
given back. `hash_iterate_by_key()` clears the slots of the table it walks, and
the counts, but not the other table's slots. `Hash` is the remainder made
non-negative.

The array subscript contains the call that reallocates the array (lines 132,
143). C does not say which is evaluated first, so both builds are modelled: with
`baseFirst` the first slot of an empty bucket is written through a null pointer
(`Crash`), which happens at the first `add`, as nothing is in any bucket yet.

`RecordBag` counts the copies of each record and answers with numbers of copies.
The refinement mapping reads the bag through table A; that deleting and counting
through B agree with it is what the refinement shows.

### 2.6 The other programs of course2-1

`MCProcesses` chooses one of the eight programs of this section at the start; a
behaviour is one of that program alone. They share no state, the run only saves
starting TLC eight times.

**FifoTransfer.** `open()` of the control pipe is the rendezvous: `Meet` lets a
process through when the other side has it open, or has had it (`woken`). `ctl`
is what is in the pipe, and is lost with its last holder. A writer makes its own
pipe (`fifos`), opens it for reading and writing in turn, and writes; the first
`write()` is repeated (`RetryWrite`, `Retries`) while the pipe has no reader. The
other side may be killed at any place. `PipeEnds` is the reader's end of file,
which looks the same after a complete transfer and after the writer's death.

**RequestServer.** A server is an incarnation, and the names in the directory
(`guardAt`, `masterAt`) belong to one; a client keeps the pipes of the incarnation
it opened, so that a server that is started again does not hear the clients of
the one before. The server has its master pipe open for reading only while it
reads requests (`closed`, `opening`, `reading`, `eof`); the guard pipe hangs up
with it (`guarded`, `PollGuard`). A signal either kills (`"KILL"`, the names stay)
or is handled (`"TERM"`, they are removed).

**SessionTransfer.** As `SemTransfer`, with one receiver that stays. The header
that creates the memory and the semaphores is missing from the repository: that
the values of `common.h` are installed and the adjustments registered is what the
calls ask for, and external to the code at hand. `DATA` alone tells the receiver
to run, `MEMORY` the sender, `SESSION` lets one sender in. The kernel's part comes
from `XsiSem`. Senders and receiver may be killed anywhere; `strays` is history, the
senders whose death wakes the receiver in a session that is not theirs.

**MessageOrder.** The queue is a sequence of message types, `Receive(type)` the
first that fits. `id` is the identifier that `msgget()` returned: the call that is
to remove the queue has its last two arguments swapped, so that it removes the
queue exactly if the identifier happens to be IPC_RMID, which is 0, as that of the
first queue of a fresh system is. Children still waiting then fail, and end.

**ForkOrder** and **LineRunner** are small: a loop of `fork()` with and without
`wait()`, and the semaphore of `runsim` with `held` for the units the kernel will
give back, however a command ends. `refused` is history: lines refused and how
many commands ran at that moment.

**Backup.** `stack` has one frame per `backup_dir()`; `ReadDir` picks any entry
left. A file is a version and a time of modification; the comparison (`Compare`)
uses the time taken before (`seen`), the copy is made of what `read()` returned
(`buffer`), and gzip is a process of its own that outlives a killed backup. The
user writes, creates, removes and replaces files between any two steps; a file that
loses its name while it is open is still read (`unlinked`), and the archive is of the
old one. A `write()` that falls short (`ShortWrite`) is no error to the code. `base`
and `spoilt` are history: what an archive must have at least, and the files whose
archive looks newer than it is (section 3.2). The user's new files get the time of
the moment; one moved there with an older time is not modelled.

**Listing.** One frame per directory: `list_dir()` reads all entries with their
metadata (`items`), prints them, and descends into those that are directories,
also after an error (`had_errors`). Entries vanish and directories are closed at
any time; `always` is history.

**SignalBitsOld** is `SignalBits` without its handlers: the same bit buffers and
loops, but no SIGCHLD and no alarm. `MCSignalBits` runs both versions.

### 2.7 The sequential programs

`MCAlgorithms` chooses a program and one of its inputs at the start. Each module
has one action per turn of the program's loops (per call, per lexeme, per vertex),
so that what must hold between two turns can be stated, and next to it a reference
definition that has nothing in common with the code: a sequence for the list,
permutations for the square root, all ways for the shortest one, the recurrence
for the Josephus problem, sets of names for the cycle. `pc` is where the program
is, `input` what it reads, `pos` how far it is, `out` what it printed.

Heaps are functions from addresses to records. `malloc()` returns the lowest free
address, so that freed ones come again, as they do in a real allocator: a stale
pointer then points to somebody else's node, which is what the properties would
notice. `DataHash` marks a bucket's array with its address, which changes when
`realloc()` moves it, and a pointer with the address it was taken from.
`ShortestPaths` adds modulo `UINT_MAX + 1`. Texts are sequences of pieces: a
register's name, a number or a bracket is one piece.

The inputs are well-formed: numbers where the programs read numbers, as many as
they announce. What `scanf()` makes of anything else is not modelled, and that the
loops end (`Ends`) is said of such inputs only.

## 3. Runs

The bounds are chosen so that every buffer fills up and runs empty, every index
goes round, and each disturbance falls anywhere; what a bound leaves out is said
with it.

| Run | Instance | Shows |
|---|---|---|
| `MPMC_safety` | 2 producers x 2 documents, 2 consumers, ring of 2, one EINTR, one spurious wakeup, fair; 611 884 states | mutual exclusion, the ring, each document once, the end, no wakeup lost; the refinement of `DocumentQueue`; the program ends |
| `SemTransfer_faults` | 2 senders, 1 receiver, files of 2 chunks, 2 kills, one I/O error, fair; 3 940 states | one hand on the memory, one sender at a time, prefix, success is complete, the receiver's death is noticed, an undisturbed transfer succeeds |
| `SemTransfer_receivers` | 2 senders, 2 receivers, files of 2 chunks, 2 kills; 886 888 states | one receiver at a time whatever dies; sessions do not mix while nobody dies and no I/O fails |
| `SemTransfer_sender_death` | 1 and 1, one kill, fair | **violated**: the sender's death is noticed |
| `SemTransfer_next_receiver` | 1 and 2, one kill | **violated**: what is written is a prefix of a file |
| `SignalBits_bits` | both versions, all files of at most two bytes of three bits, one kill, one I/O error, fair | no signal and no bit is lost, the asserts hold, whole bytes only, success is complete, both processes end |
| `EventLoop_chain` | 3 children, 3 pieces, pipes of 1, buffers of 2, one kill, fair; 154 970 states | nothing lost or overtaken, closing in order and once, the parent ends |
| `EventLoop_failed_child` | the same with 2 pieces | **violated**: the exit status 0 means that no child failed |
| `Database_bag` | 4 records over 2 buckets, 4 items of 2 copies, both builds; 95 474 states | the tables agree, each record has one item, what is deleted stays so, the refinement of `RecordBag` |
| `SessionTransfer_deaths` | 3 senders of one chunk, one death or failure | **violated**: SESSION excludes senders from talking to the receiver at once |
| `Processes` | the eight programs of 2.6, fair where 3.1 says so; 363 855 states | transfers arrive whole and in order or without success, the order of printing and the limit hold, archives of files left alone are current after success, everything is listed once, a server ends of two causes only, nobody waits for the dead |
| `Algorithms` | the thirteen programs of 2.7 on every small input, fair; 284 585 states | links, queues, stacks and the pointer kept between two numbers are sound between steps, answers are those of the references, loops end |

Why these bounds are enough for what the runs show:

* **MPMC**: with two threads of each kind a signal can reach the wrong one, a
  third can slip in between a signal and its receiver, and both kinds can wait.
  Four documents through a ring of two wrap around twice. The safety part does
  not rest on the bounds: it is proved (section 4).
* **SemTransfer**: two chunks distinguish the first hand-over from the later
  ones; two of one side are needed to contend and one more session to follow. Two
  kills allow for a death during the recovery from another. The first segment has
  the identifier 0 or 1: only 0 is treated differently.
* **SignalBits**: three bits are the smallest byte with a first, a middle and a
  last bit; two bytes show the boundary between bytes and the reuse of the
  buffer. For the new version the safety part is proved for any width.
* **EventLoop**: three children give a buffer at either end and two inner ones;
  fewer are outside what the code supports (section 5). Three pieces fill a pipe,
  a buffer and a child at once with something left in the file, and buffers larger
  than a pipe make partial writes.
* **Database**: the four records share one bucket of A (the keys -2 and 0) and
  have one of two buckets of B each, so that searches meet other records, copies
  that are gone, and slots given back, and both tables can be the shorter one. A
  third generation of items in the same slots repeats the second; the invariants
  and the refinement are proved for any number.
* **FifoTransfer**: two writers and two readers, so that two of one side wait for
  one of the other; empty files and files of two chunks (the `write()` that is
  repeated, and one that is not); one repetition; one kill anywhere.
* **RequestServer**: three clients, one of which asks for a file that is missing;
  one signal anywhere; two incarnations of the server, so that a client may have
  pipes of either.
* **SessionTransfer**: two senders of two chunks and one death or failure in
  `Processes`; for `SessionTransfer_deaths` one sender is to be killed while it waits
  and two are to meet. SESSION goes up to 2, one more than its initial value.
  The safety properties of these three are proved for any numbers.
* **MessageOrder, ForkOrder**: three children, any of which `fork()` may fail for.
  **LineRunner**: four lines and a limit of two, so that refusals, and units that
  come back, are met. The order of the printing and the limit are proved for any
  numbers.
* **Backup, Listing**: a root with a file and two directories, one with another
  file and one with something that is neither; two runs of the backup, one change
  by the user and one fault anywhere. That gives a file written, removed, replaced
  or created at every place of either run; the second run meets everything the
  first one can leave. `SuccessIsTrue` is proved for any tree and any number of runs,
  writes and faults (section 4).
* **The sequential programs**: small inputs in full. Lists and trees of up to 4
  or 5 elements over 3 to 5 values, so that equal ones occur; a hash of two
  buckets with four keys, negative, zero and positive;
  expressions of up to four lexemes, in part six; all permutations of up to six
  elements (two loops of the same even length need at least four); all sets of
  ten chosen edges among four names; graphs of up to three edges with lengths
  whose sums reach `UINT_MAX`; texts of three words of every kind.

`CHECK_DEADLOCK FALSE`: `Database_bag`, where a build may crash; `SemTransfer_*`,
and `SessionTransfer_deaths`,
where processes that are killed or locked out stop in the middle; `EventLoop_*`,
where the death of a child can leave the parent in `waitpid()` for a child that is
blocked in `write()`; `Processes` and `Algorithms`, whose programs end. The other
runs check for deadlock.

### 3.1 Fairness

* `MPMC`: weak fairness of each thread's steps: the scheduler runs whoever can
  run. It does not assume fair mutexes: a step that takes the mutex is enabled
  only while the mutex is free, and the property holds all the same.
  Disturbances are owed nothing.
* `SemTransfer`: weak fairness of each process; kills and I/O errors are owed
  nothing.
* `SignalBits`: weak fairness of both processes and of the delivery of SIGCHLD
  and SIGALRM, which the kernel owes a process that has them unblocked. The old
  version has only the processes.
* `EventLoop`: weak fairness of the parent and of the children, and strong
  fairness of `EpollWait(e)` for each descriptor: `epoll_wait()` is asked for one
  event, and the kernel puts a level-triggered descriptor it has reported at the
  end of its ready list, so one that is ready again and again is reported again
  and again.
* `Processes`: weak fairness of every process that was started: sender and
  receiver, parent and children, reader and writer, server and client. Starting a
  process is up to the user and owed nothing; so are signals, deaths and
  failures. The programs without liveness properties have none.
* `Algorithms`: a sequential program that can go on does (one weak fairness
  condition for all of them, as one behaviour is one program). The calls of
  `ListCalls` are up to the caller.

### 3.2 What the violations say

Each is listed with its lines under `findings` in `PROJECT.json`.

1. *The death of a sender* (`sender.c:61`): `semop_many()` is told of one
   operation and given two; the adjustment that should wake the receiver is never
   set. The sender of the trace is killed in the session it had joined, and its
   receiver waits for ever; with the count corrected the property holds.
2. *The next receiver* (`receiver.c:67`): it opens its session while a sender of
   the killed one is between two operations.
3. *The second child* (`task.c:133`): SA_RESETHAND removes the handler that is to
   notice failing children after the first child ended, whether well or not.
4. *The session of another sender* (`For478/task2/sender.c:41`): a sender registers
   its adjustments before it has the session (`Register`). Killed while it waits for
   SESSION it lets the receiver run twice in the session of somebody else: the
   receiver may take that one's end of file before it is handed over, and lets the
   next sender in. The comment at `sender.c:51` has SESSION exclude senders from each
   other, and the receiver give it back after a clean or an unclean end.

Other disagreements and limits that were met, and have no run of their own:

* `mpmc.c:232`: an interrupted `nanosleep()` makes a consumer start over with the
  next document while its log speaks of a retry; `LossesAreInterrupts`, a part of
  `EveryDocumentOnce`, says that this is the only way to lose one.
* `seminar6/sender.c:40`: the segment is attached before the sender is admitted, so
  that with two receivers a sender may be admitted to a session with the segment of
  the one before. `SessionsApart`, and its proof, show that it then finds the state
  of that segment's receiver reset and fails, before it reads anything (`Strange` in
  `SemTransfer_proofs`); the receiver that admitted it waits on.
* `seminar7/signal.c:301`: SIGCHLD of a sender that did well makes a receiver fail
  that is still about to leave, while the comment at line 321 has it notice dead
  peers only.
* `seminar5/task.c:99`: the queue is removed only if its identifier is 0. For any
  other, children left waiting after a failed `fork()` wait for ever: `AllEnded`
  makes exactly this exception.
* `For478/task2`: what `SessionTransfer_deaths` finds has a second form, a sender
  killed after it announced the end of its file and before `VLast` takes back its
  adjustments. `strays` has the senders killed in either way; from the first one on
  nothing is said of the output, before it everything is (`FilesInOneHand`), and that
  nobody in a session waits for a dead receiver holds all the same. The receiver can
  then take the end of one file again and again and raise SESSION each time, up to
  the greatest value of a semaphore (`SEMVMX`, `SessionOverflow`).
* `For478/task2/common.h:70`: a segment with the identifier 0 is not initialised. The
  memory is then zeros, which is "not done" for both sides, and the first sender
  fails; `Init` has both.
* `common_sem.h:39`: `shmget()` may return 0, and does for the first segment of a fresh
  system. It is logged as a failure, not attached, and returned as 0; `sender.c:41` and
  `receiver.c:46` look for a negative number and go on with a null pointer. The receiver
  crashes when it initialises the memory (`NullStep`), senders wait, and nobody removes
  the segment (`common_sem.h:16`), so that the next receiver finds it again.
  `TransferSucceeds` is stated for other identifiers; the other properties, and their
  proofs, are about both.
* `For478/task1/server.c:40`: "If we happen to die, the server will get ENXIO or EPIPE
  (sufficient)" (`client.c:84`) is so of a client that is killed. One that is ended by a
  handled signal, with its request sent and not answered, removes its pipe; the server
  gets ENOENT, takes it for an error, and ends, although the comment at `server.c:33`
  means to protect it against dead clients. It ends as well of a client that is alive
  and asks for a file that cannot be opened (`server.c:26`, `server.c:153`).
  `EndsForCause` says that these two, and signals to the server, are all.
* `backup.c:70`: only a negative result of `write()` is an error; a copy cut off by a
  short `write()` goes to gzip and counts as a success. `backup.c:196`: all that is
  looked at is the time of the archive, which is that of the copy, made later than the
  file was opened. The next run therefore takes for current an archive of a file that
  was written or replaced while it was copied, the cut-off copy, what a killed gzip
  left, and what a gzip leaves that outlived its backup. `SuccessIsCurrent` leaves out
  just these (`spoilt`), until the file is written again.
* `database.c:143`, and the same expression at line 132: built by gcc 12, at any level
  of optimisation, the program reads `b->data` before `bucket_add(b)` and crashes at
  the first `add` of every input, with the item in the pool and in no table, while the
  comment at line 303 says "Adds a given item to all hash-tables". With the call moved
  in front it runs, and everything `Database_bag` shows applies.
* `data_hash.c:77`: the loop ends when `scanf()` returns -1. A token that is not a
  number is never consumed, `scanf()` returns 0 for it, and the loop goes on for ever.
  Input of this kind is outside the models (section 2.7).
* `stack_skobki.c:84`: a line of one opening bracket lets an array of size 0 grow without end
  (`GrowsForever`, the one exception in `Ends`).
* `base.cpp:209`: if products with 0 leave no coefficient as great as the greatest
  digit, too few radices are tried. `dijkstra.cpp:84`: sums beyond the greatest
  unsigned number wrap around. The properties state the answers for other inputs.

## 4. Proofs

`MPMC_proofs` (1637 obligations) proves, for any finite sets of producers and
consumers, any amount of documents, any ring size (zero included) and any number
of disturbances, from the assumptions named in `MPMC` (the sets of threads are
finite and disjoint, the numbers are natural):

| Theorem | Statement |
|---|---|
| `Invariance` | `Spec => []IInv` |
| `TypeCorrect` | `Spec => []TypeOK` |
| `MutualExclusion` | `Spec => []CriticalSection` |
| `RingSafe` | `Spec => []RingConsistent` |
| `NothingLeft` | `Spec => []NothingLeftBehind` |
| `Fifo` | `Spec => FifoSpec`: `MPMC` implements `DocumentQueue` |
| `NoWakeupLost` | `Spec => []NoLostWakeup` |
| `OnceEach` | `Spec => []EveryDocumentOnce` |

None of the properties is inductive by itself. `IInv`, on which the others stand, is
the conjunction of five parts, each of which needs others:

* `TypeOK`;
* `CriticalSection`: who is between lock and unlock owns the mutex. Two threads
  can therefore not both be at a test, which is what makes a test of `used` still
  true when the ring is changed in the same step;
* `RingConsistent`: `head`, `tail` and `used` describe one window. An insert
  needs `used < QueueSize`, the test just made; a take needs `used > 0`;
* `HandsMatch`: at which places a thread carries a document. It ties
  `docCounter` to what has been inserted, and is what shows that a producer that
  is done has inserted everything;
* `EndMatch`: what is settled when producers, and then the main thread, are done.
  A consumer leaves at `used = 0 /\ goingAway`; nobody can insert afterwards
  because every producer is done.

The ring operations are proved first (`InsertInv`, `TakeInv`); then one lemma per
kind of thread goes through its actions (`ProducerInv`, `ConsumerInv`,
`MainInv`), with `AnyThreadInv` for the steps all of them share, and `NextInv`
joins them. `Fifo` needs the invariant: `BufferInsert` and `BufferTake` say that
the ring, read from `head`, gains a document at the end or loses its first one,
`InsertedInsert` that the abstract counter goes up by one, and `FifoStep` maps
every other step to a stutter. TLC checks `FifoSpec` and the
parts of `IInv` that are properties by themselves in `MPMC_safety`.

`NoWakeupLost` stands on `IInv`. `WakeInv` states once, for a group that waits and
the others that signal (`Covered`), that while somebody waits there are at least as many threads
about to signal or about to look as there is to do; consumers wait for documents,
producers for room. It is inductive together with `IInv`. One lemma says how each
kind of step changes the count: a step that leaves everybody where he is
(`QuietMove`), a new signaller (`Gain`), one that gives up because there is nothing
to do (`Spend`), a signal that reaches somebody (`HandOver`), a signal with nobody
waiting (`NothingOwed`).

So does `OnceEach`. The documents that left producers' hands are one sequence
(`Flow`: what was delivered, and what the ring holds), without repetition
(`Exact`), disjoint from what producers carry; and what was delivered and is neither
printed nor in a consumer's hand (`Lost`) is at most as much as sleeps were
interrupted.

`SemTransfer_proofs` (4752 obligations) is about any number of senders and receivers,
files of any length, any number of kills and I/O errors, from `SemAssumption` (the
processes are finite sets, disjoint, and the numbers natural).

| Theorem | Hypotheses | Statement |
|---|---|---|
| `BaseInvariant` | | `Spec => [](Base \/ Unattached)` |
| `TypeCorrect` | | `Spec => []TypeOK` |
| `Exclusion` | | `Spec => []ReceiversExclude` |
| `SessionsTheorem` | there are senders | `Spec /\ []NoneAfter => [](OneHand /\ OutputIsPrefix /\ SuccessIsComplete)` |
| `SessionsApartTheorem` | there are senders | `Spec => []SessionsApart` |
| `OneHandTheorem`, `PrefixTheorem`, `SuccessTheorem` | senders, one receiver at most | `Spec => []OneHand`, `[]OutputIsPrefix`, `[]SuccessIsComplete` |
| `SendersTheorem` | one receiver at most | `Spec => []SendersExclude` |

The hypotheses are what the code needs, not what the prover does. With two receivers
and kills `OutputIsPrefix` is false: that is what the run `SemTransfer_next_receiver`
finds. `NoneAfter` says where the line is: no receiver works after another one failed
or was killed. It holds by itself with one receiver, and with any number while nothing
goes wrong, which gives the theorems below it. Without a sender `OutputIsPrefix`, which
asks for a sender whose file was begun, has none to name.

`Unattached` is what holds if the first segment has the identifier 0: nobody attaches
anything, and nothing is read or written. `Base` is what holds otherwise: who may be
where with which segment, that what is announced is a chunk, and that semaphore 0 with
its adjustments tells whether a receiver is active. `SesInv` adds the phases that follow one another, `Between` (no
session, a receiver may prepare one), `Waiting` (a receiver has opened one) and
`Session` (with one sender, up to the end of both if the receiver ends badly). In a
session `MEMORY`, `DATA` and the two who may use the memory are one token, and either
the two are `Linked`, what was read being what was written but for one chunk, or the
sender is `Strange`: it has an older segment and will find out. `Ready` (a segment says
its receiver is ready only if it is, or ended badly) is what makes it find out.
`SendersExclude` has an invariant of its own (`MutexInv`), as it holds in every phase,
and `Calm` carries `SesInv` through behaviours without kills and errors. `semop()` is
a loop over the operations of a call; `SemopUnrolled` unrolls it for up to four, which
is as many as the callers pass, and one lemma per call says what it comes to.

`EventLoop_proofs` (2304 obligations) is about any number of children from three on,
files of any length, pipes and buffers of any sizes and any number of children killed
from outside, from `LoopAssumption`.

| Theorem | Statement |
|---|---|
| `LoopInvariant` | `Spec => []LoopInv` |
| `TypeCorrect` | `Spec => []TypeOK` |
| `DownstreamTheorem` | `Spec => []ClosedDownstream` |
| `ConservationTheorem` | `Spec => []FileIsConserved` |
| `SuccessTheorem` | `Spec => []SuccessIsComplete` |

`LoopInv` is the conjunction of `TypeOK`, `NoErrors` and

* `Chained`: what is known of ends that are closed and of children that ended. A
  closed input has nothing before it that could still come;
* `TurnInv`: what the buffer events of a turn say is still so when the parent gets to
  them, although children read, write and end meanwhile. `CoalesceForms` lists what
  `epoll_wait()` and the coalescing lead to: one buffer event, two, or, for the last
  buffer, three with the first buffer's in between (`Apart`), because the events are
  not sorted. That the last buffer comes twice is harmless, as one of the two only
  reads and the other only writes;
* `Placed`: there are cuts of the file such that each place of the chain holds what is
  between two neighbouring ones. Every `read()` and `write()` moves one cut
  (`SegCut`, `SegJoin`).

Properties of the whole chain are inductions over it. They are proved by a least
counterexample: the first buffer for which the claim fails has one before it, for which
it fails, too (`LeastNatural`, from the library's theorem that natural numbers are well
founded). `NoErrors` needs it (a closed buffer has only closed ones before it),
`SuccessIsComplete` (nothing is left behind a closed output), and `FileIsConserved`,
whose `InFlight` is recursive (`InFlightIsRest`).

`Sequential_proofs` (3238 obligations) has the theorems about programs of one process. Of
`Database` it proves, for any set of records with integer fields, any number of buckets
and either build:

| Theorem | Statement |
|---|---|
| `Consistent` | `Spec => []DInv` |
| `Slots` | `Spec => []SlotsSound` |
| `FoundByBoth` | `Spec => []Indexed` |
| `OneItem` | `Spec => []LiveOnce` |
| `GoneForGood` | `Spec => DeadStayDead` |
| `BagTheorem` | `Spec => BagSpec`, if the set of records is finite: `Database` implements `RecordBag` |
| `Types` | `Spec => []TypeOK` |

`DInv` is the conjunction of `StoredOK` (the types of what is in memory, and that
slots lead to items), `SlotsSound`, `Indexed` and `LiveOnce`. `LiveOnce` is not
inductive alone: `add` looks in one bucket of one table only, so that a record it
does not find is new only if that bucket has every item (`FindsLive`, from
`Indexed`; it is also why an empty bucket settles the search). `Indexed` in turn
needs that a slot cleared by a deletion held an item that has no copies now
(`Rewrite`, which covers both further copies and deletions), and that a new item
goes into one slot per table without disturbing others (`PlacedOnce`, from which
`ItemInv` follows table by table).

The refinement compares two sums: that of `hash_iterate_by_key()`, over the slots of a
bucket, and that of the bag, over the records with the key. `MapThenSumSet()` defines
them by a recursion that takes one element after the other, in no stated order.
`SumSolved` shows that the recursion has a solution, `SumAnyOrder` that the order does
not matter, and `SumsAgree` that two sums are equal if the terms of one are those of the
other and zeros. The theorem about induction over finite sets takes an operator, which
the provers cannot instantiate; what is used is a smallest subset for which the claim
fails (`LeastSubset`). With `DInv` a record is in at most one slot with copies
(`BagIsKnown`), from which each command follows: `CopyAdds` and `ItemAdds`,
`DeleteTakes`, `TotalIsCopies` for the number printed, through either table, and
`BagStays` for the crash, which leaves an item that no slot leads to. The hypothesis
costs nothing: the fields of a record are C ints.

Two more programs, whose reference definitions need no `RECURSIVE` operator, are proved to
compute what these say. The module instantiates them with variables of their own, as
`Successor` and `Paths`.

| Theorem | Hypothesis | Statement |
|---|---|---|
| `SuccessorTheorem` | `HashSetting` | `DataHash`, any input and number of buckets: `[]PointerSound /\ []SuccessorRight` |
| `ShortestPathsTheorem` | `PathsSetting` | `ShortestPaths`, any graph: `[]MarkedFirst /\ []DistancesRight` |

* `DataHash`: a key has one pair, in its bucket (`Keyed`), every number read has one
  (`Known`), and the kept pointer leads to that of the number read last (`LeadsTo`). What
  a pair says is what followed its number last (`Latest`); for the last number it says
  what held before, until the next one is stored through the pointer. The pointer is
  taken after `realloc()` and used before the next number is looked up (`HashInv`).
* `ShortestPaths` is Dijkstra's argument. `Levels` is what the recursive function of the
  definition computes, the shortest ways of at most `n` edges; that such a function exists
  is a lemma (`Iterated`, `DistanceLevels`), as it is for the loop over the edges
  (`RelaxedSteps`). `Right`: the answers of marked vertices are their distances, all their
  edges are relaxed, they are before the others, and a finite answer is reached by a way of
  as many edges as vertices were marked. The step is `NotShorter`, by a least
  counterexample: no way is shorter than the answer of the marked vertex it leads to, or
  than the least answer of the others; so the next vertex has its distance (`NextSettled`).
  When that answer is infinite nothing leads further (`NothingLeft`). As in the property,
  all this holds if the distances and what the edges add to them are below the greatest
  number (`NoWrap`); else `dijkstra.cpp:84` wraps around.

`SignalBits_proofs` (989 obligations) is about the new version, for bytes of any
number of bits, any set of files, any number of deaths and failures. That TopBit is
a power of two is assumed as the existence of a set of place values, closed under
halving (`PlaceValues`), which needs no recursion.

| Theorem | Statement |
|---|---|
| `BitsInvariant` | `Spec => []BitsInv` |
| `OneSignalTheorem` | `Spec => []OneSignalUnderWay` |
| `AssertsTheorem` | `Spec => []AssertsHold` |
| `PrefixTheorem` | `Spec => []OutputIsPrefix` |
| `SuccessTheorem` | `Spec => []SuccessIsComplete` |

The argument has two halves. `TokenInv`: one thing is under way at a time, a
question, an answer, or a process that must give one; a signal is therefore never
sent while the same one is pending (`OneReason`). And `BufferInv`, `DataInv` and
`PrefixInv`: between two steps of the conversation the receiver holds the upper
bits of the byte at the sender's position and the sender the lower ones (`Sync`),
which is arithmetic of the two sentinels: `SyncRead` begins a byte, `SyncPull` takes
a bit out of one buffer, `SyncReceive` puts it into the other.

`FifoTransfer_proofs` (1286 obligations) is about any number of writers and readers,
files of any lengths, any number of repetitions and kills; it assumes that the two
kinds of processes are disjoint and the numbers natural (`Setting`).

| Theorem | Statement |
|---|---|
| `BeginningOnly` | `Init /\ [][Next]_vars => []OutputIsPrefix` |
| `Delivery` | `Init /\ [][Next]_vars => []SuccessIsDelivery` |
| `HadReader` | `Init /\ [][Next]_vars => []SuccessHadReader` |

A pid is in the control pipe or with one reader (`Pids`), so that a writer's pipe has
one reader ever (`Ends`: who opened it got this pid, and reads or has ended); and
while that one reads, what it wrote and what is in the pipe are what the writer has
read, but for the chunk in its hand (`Flow`). A reader sees the end of the pipe only
when the pipe is empty and its writer is gone; if the writer succeeded it had read
everything and had nothing in its hand. `Progress` says that without a reader the
writer does not come past its first chunk.

`RequestServer_proofs` (1070 obligations) is about any number of clients and of servers
one after the other, files of any length, any number of kills and handled signals. It
assumes that `NoClient` is not a client, that the signals are among the two modelled,
and that the numbers are natural (`Setting`).

| Theorem | Statement |
|---|---|
| `PrefixTheorem` | `Init /\ [][Next]_vars => []OutputIsPrefix` |
| `SuccessTheorem` | `Init /\ [][Next]_vars => []SuccessIsComplete` |
| `EndsForCauseTheorem` | `Init /\ [][Next]_vars => []EndsForCause` |

A client's request is in the master pipe of one server, or with that server (`Asked`,
`Stages`); until then its slave pipe is empty (`Pipes`), and afterwards what the client
wrote and what is in its pipe are what the server sent (`Flow`). A server that ends of
a request has it in its hand, and the client of such a request waits or was sent a
signal, and still has its pipe unless it was terminated (`Pipes`); who is to blame
stays so (`BlameStays`).

`MCProcesses_proofs` (5125 obligations) proves theorems of the specification that the run
`Processes` checks. Each is one about a program of its own, carried over: the programs
share no step, and a behaviour stays with the one it starts as (`OneProgram`, `Starts`,
`StepsOf`). That the instances of `FifoTransfer` and `RequestServer` in `MCProcesses` are
those their proofs are about is a lemma for each (`FifoSame`, `ServerSame`).

| Theorem | Hypotheses | Statement |
|---|---|---|
| `OutputFollowsTheorem` | `SessionSetting`, both `Setting`s | `Spec => []OutputFollows` |
| `PrintedInOrderTheorem` | `NrChildren` natural | `Spec => []PrintedInOrder` |
| `LimitTheorem` | `NrLines`, `Tasks` natural | `Spec => []LimitHeld` |
| `DeliveryTheorem` | both `Setting`s | `Spec => []SuccessIsDelivery` |
| `SuccessTrueTheorem` | `ArchiveSetting`, `ListSetting` | `Spec => []SuccessIsTrue` |
| `EndsForCauseTheorem` | that of the server | `Spec => []EndsForCause` |

* `MessageOrder`: there is one baton, either a message in the queue or in the child the
  parent waits for (`Baton`), so that the numbers are printed in order. A message
  received from a queue of one is that one (`ReceiveOnly`).
* `ForkOrder`: a child is started only when the one before has ended (`ForkInv`).
* `LineRunner`: the units left and the units the kernel will give back make up the limit
  (`RunnerInv`), whence a line is refused only while as many commands run as may.
* `SessionTransfer`: `SessionInv` says who has the session. Nobody (`FreeSession`), a
  sender (`OwnSession`), in turn with the receiver, the receiver, which has seen the end
  and is to give it back (`ClosingSession`), or a sender that died in it (`LostSession`),
  and then nobody gets it any more. What has to be known of the output goes with it: the
  files of all others are `Complete` or were never begun, and that of the one in its
  session is at the end of the output, as far as it was read, but for the chunk in the
  memory (`Content`). A sender gets the session only from `FreeSession`, so that the next
  file begins after a complete one. All this is so until there are `strays` (section 3.2)
  and claimed no longer; that there are none yet is the hypothesis of the step
  (`SessionKeeps`), and strays stay (`StraysStay`).

* `Backup`: while a run has no error on record, there is a set of entries it has done
  with (`Covers`): the root is in it, and what a directory in it holds is in it too, is
  the entry at hand, is still to be read in some frame of the walk, or was removed; and
  the files in it have an archive that is good enough (`Progress`). When the last frame
  is left nothing is at hand or to be read, so that this set is closed, and all files
  are in it by the assumption on the tree. That a file whose archive is not older
  (`timespec_less()`) may be passed over is `TimesTell`, on what the times of a file, its
  copy and its archive say about their versions at each place of the loop, with gzip
  running or left behind. `ArchiveSetting`: files, directories and other entries are
  disjoint, and every file is below the root. This is stated as closure (a set with the
  root and the contents of its directories has all files), which needs no recursion.
* `Listing`: an entry is in one place at a time, to be read, in the items of one
  directory, or printed (`OnceToRead`, `OnceToList`), whence no entry is printed twice.
  Nothing below a directory that was not listed yet was met before (`Untouched`): this is
  what keeps a directory that is read from meeting entries a second time. And what was
  there all the time and was not met is below a directory still to be listed, or an error
  is on record (`Overlooked`). `ListSetting`: the entries are finitely many, none is in
  two directories, and the arguments are different and none is below another (with `a`
  and `a/b` as arguments `b` is listed twice, as it was asked for twice).

Only model-checked, among the safety properties: those of the old version of
`SignalBits`, and `StructuresSound`, `AnswersRight` and `GraphsRight`, which state that
thirteen sequential programs are right and cannot be stated of all constants in one
theorem, since the references of some are `RECURSIVE`; what they say of `DataHash` and
`ShortestPaths` is proved (`SuccessorTheorem`, `ShortestPathsTheorem`). Liveness under fairness (`Termination`,
`ReceiverDeathNoticed`, `TransferSucceeds`, `Ends` and those of `Processes` and
`Algorithms`) is out of the prover's reach and stays with TLC.

## 5. Not modelled

* System calls that fail for want of memory, descriptors or processes: the
  programs print a message and exit (a failing `fork()` is modelled where the
  program goes on).
* The command line and its parsing; the layout of what is printed.
* `seminar8` with one or two children: `buffer_events` has `child_nr` entries
  (line 292) and a turn may write three, so the array is overrun. The assumption
  `ChildNr >= 3` keeps this out of `EventLoop`.
* `mpmc.c` with a rate of 0, which divides by zero (line 106), and the error
  codes of `pthread_*`, which the code tests for the wrong sign.
* `semop()` that is interrupted, and the removal of the semaphore set that
  follows (`common_sem.h:190`).
* Memory ordering: every access to shared data is separated from another
  process's by a system call or a mutex.
* In `024.cpp`, what becomes of texts it is not meant for (operands missing, a
  factor with a sign), and in all calculators the overflow of numbers.
* Files of more than one chunk in `Backup`, directories the user creates or
  removes, and links.
* Of the components that section 1 lists without a module: exercises that read,
  compute and print on a page, without state that outlives a loop; matrices and
  floating-point numbers, for which TLA+ has no arithmetic; assembler, which
  would begin with a model of the instruction set; earlier versions of programs
  that are modelled; `taskK-slre.cpp`, a library by others; `090.cpp`, whose
  result depends on the order of sets of vectors and has no definition short of
  planarity itself. `PROJECT.json` gives the reason for each.

## 6. What remains

* Theorems about more of the sequential programs, the list of `ListCalls` first.
* The interrupted `semop()` of `XsiSem`, and the removal of the set, as a fault.
* The machine simulators of `3-neo-at-the-architect`, for which a reference other
  than themselves is still to be found.

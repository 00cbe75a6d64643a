----------------------------- MODULE SemTransfer -----------------------------
(***************************************************************************)
(* course2-1/seminar6: sender.c copies a file, chunk by chunk, through one *)
(* shared memory segment to receiver.c, which writes it to stdout. Four    *)
(* XSI semaphores hand the segment back and forth, keep other pairs out,   *)
(* and, through SEM_UNDO, are meant to let each side notice the death of   *)
(* the other.                                                              *)
(*                                                                         *)
(* Any number of both programs runs against the same IPC key. A process    *)
(* may be killed between any two steps. The semaphore set is created by    *)
(* whoever comes first, zeroed, and is never removed: it is there from the *)
(* start. Segments are numbered in the order of their creation; the kernel *)
(* gives them identifiers, of which 0 is one.                              *)
(***************************************************************************)
EXTENDS Integers, Sequences, FiniteSets, XsiSem

CONSTANTS
    Senders, Receivers,
    Killable,       \* the processes that may be killed
    FileLen,        \* chunks in each sender's file
    MaxKills,       \* bound: processes killed
    MaxIoErrors     \* bound: read() and write() calls that fail

Processes == Senders \cup Receivers

ASSUME SemAssumption ==
    /\ IsFiniteSet(Senders) /\ IsFiniteSet(Receivers)
    /\ Senders \cap Receivers = {}
    /\ Killable \subseteq Processes
    /\ FileLen \in Nat /\ MaxKills \in Nat /\ MaxIoErrors \in Nat

\* enum semaphore_id
RCV_MUTEX == 0
SND_MUTEX == 1
MEMORY    == 2
DATA      == 3
Semaphores == 0 .. 3

Chunks   == [from : Senders, nr : 1 .. FileLen]
NoChunk  == [from |-> "none", nr |-> 0]
Segments == 1 .. Cardinality(Processes)
NoSegment == 0

VARIABLES
    firstId,  \* the identifier of the first segment; it never changes
    sem,      \* the values of the semaphore set
    adj,      \* semadj of each process
    key,      \* the segment shmget(ipc_key) finds
    created,  \* how many segments were created
    memory,   \* struct shared_memory of each segment
    shm,      \* the segment each process got from shmget()
    attached, \* the segment each process has attached
    pc,
    status,   \* how each process ended: its exit status, killed or crashed
    pos,      \* each sender's offset in its file
    out,      \* what each receiver wrote
    kills, ioErrors

semVars == <<sem, adj>>
shmVars == <<firstId, key, created, shm, attached>>
vars == <<firstId, sem, adj, key, created, memory, shm, attached, pc, status, pos, out,
          kills, ioErrors>>

Goto(p, from, to) == pc[p] = from /\ pc' = [pc EXCEPT ![p] = to]

\* One semop_many() of process p; it waits until it can go through.
SemopMany(p, opsNr, args) ==
    LET r == Semop(sem, adj[p], semop_many(opsNr, args)) IN
    /\ r.ok
    /\ sem' = r.val
    /\ adj' = [adj EXCEPT ![p] = r.adj]

\* The shared memory as p sees it, and a store to some of its fields.
Mem(p) == memory[attached[p]]
Store(p, record) == memory' = [memory EXCEPT ![attached[p]] = record]

\* die_ret() and return: p goes on to its cleanup handlers with a status.
Return(p, from, result) ==
    /\ Goto(p, from, "cleanup")
    /\ status' = [status EXCEPT ![p] = result]

-----------------------------------------------------------------------------
(* shm_get_and_attach() *)

\* What shmget() returns for a segment. The first one of a system that had none
\* before has the identifier 0.
ShmId(g) == firstId + g - 1

\* shmget(IPC_CREAT): the segment of the key, or a new zeroed one.
ShmGet(p) ==
    /\ Goto(p, "shmget", "shmat")
    /\ IF key # NoSegment
         THEN shm' = [shm EXCEPT ![p] = key] /\ UNCHANGED <<key, created>>
         ELSE /\ created' = created + 1
              /\ key' = created'
              /\ shm' = [shm EXCEPT ![p] = created']
    /\ UNCHANGED <<firstId, semVars, memory, attached, status, pos, out, kills,
                   ioErrors>>

\* A removed segment lives on while somebody has it attached.
Alive(s) == key = s \/ \E p \in Processes : attached[p] = s

\* Only a positive identifier is attached.
ShmAttach(p, next) ==
    /\ ShmId(shm[p]) > 0 /\ Alive(shm[p])
    /\ Goto(p, "shmat", next)
    /\ attached' = [attached EXCEPT ![p] = shm[p]]
    /\ UNCHANGED <<firstId, semVars, key, created, memory, shm, status, pos,
                   out, kills, ioErrors>>

\* The segment was removed between shmget() and shmat().
ShmAttachFails(p) ==
    /\ ShmId(shm[p]) > 0 /\ ~ Alive(shm[p])
    /\ Return(p, "shmat", "failed")
    /\ UNCHANGED <<semVars, shmVars, memory, pos, out, kills, ioErrors>>

-----------------------------------------------------------------------------
(* sender.c *)

\* Mutant of Join: SND_MUTEX is not taken.
JoinFreely(s) ==
    /\ Goto(s, "join", "pMemory")
    /\ UNCHANGED <<semVars, shmVars, memory, status, pos, out, kills, ioErrors>>

\* Take SND_MUTEX. The call is given two operations and told of one.
Join(s) ==
    /\ Goto(s, "join", "pMemory")
    /\ SemopMany(s, 1, <<semop_entry(SND_MUTEX, -1, "none"),
                         semop_adj(DATA, 2)>>)
    /\ UNCHANGED <<shmVars, memory, status, pos, out, kills, ioErrors>>

\* Mutant of PMemory: the sender waits for the memory without taking it.
PMemoryFreely(s) ==
    /\ Goto(s, "pMemory", "testReceiver")
    /\ SemopMany(s, 2, <<semop_entry(MEMORY, -1, "none"),
                         semop_entry(MEMORY, 1, "none")>>)
    /\ UNCHANGED <<shmVars, memory, status, pos, out, kills, ioErrors>>

PMemory(s) ==
    /\ Goto(s, "pMemory", "testReceiver")
    /\ SemopMany(s, 1, <<semop_entry(MEMORY, -1, "none")>>)
    /\ UNCHANGED <<shmVars, memory, status, pos, out, kills, ioErrors>>

ReceiverOk(s) ==
    /\ Goto(s, "testReceiver", "read")
    /\ attached[s] # NoSegment /\ Mem(s).rcv_state = "OK"
    /\ UNCHANGED <<semVars, shmVars, memory, status, pos, out, kills,
                   ioErrors>>

ReceiverNotOk(s) ==
    /\ Return(s, "testReceiver", "failed")
    /\ attached[s] # NoSegment /\ Mem(s).rcv_state # "OK"
    /\ UNCHANGED <<semVars, shmVars, memory, pos, out, kills, ioErrors>>

\* read() returned a chunk, or nothing at the end of the file.
Read(s) ==
    /\ Goto(s, "read", "resetReceiver")
    /\ IF pos[s] < FileLen
         THEN /\ Store(s, [Mem(s) EXCEPT
                             !.data = [from |-> s, nr |-> pos[s] + 1],
                             !.snd_state = "OK"])
              /\ pos' = [pos EXCEPT ![s] = @ + 1]
         ELSE Store(s, [Mem(s) EXCEPT !.snd_state = "EOF"]) /\ UNCHANGED pos
    /\ UNCHANGED <<semVars, shmVars, status, out, kills, ioErrors>>

ReadFails(s) ==
    /\ ioErrors < MaxIoErrors
    /\ ioErrors' = ioErrors + 1
    /\ Return(s, "read", "failed")
    /\ Store(s, [Mem(s) EXCEPT !.snd_state = "IOERROR"])
    /\ UNCHANGED <<semVars, shmVars, pos, out, kills>>

ResetReceiver(s) ==
    /\ Goto(s, "resetReceiver", "vData")
    /\ Store(s, [Mem(s) EXCEPT !.rcv_state = "NOT_DONE"])
    /\ UNCHANGED <<semVars, shmVars, status, pos, out, kills, ioErrors>>

VData(s) ==
    /\ Goto(s, "vData", "testEof")
    /\ SemopMany(s, 1, <<semop_entry(DATA, 1, "none")>>)
    /\ UNCHANGED <<shmVars, memory, status, pos, out, kills, ioErrors>>

\* Mutant of TestEof: anything but a chunk counts as the end, also the reset
\* that the receiver makes.
TestNotOk(s) ==
    /\ pc[s] = "testEof"
    /\ IF Mem(s).snd_state # "OK"
         THEN Return(s, "testEof", "ok")
         ELSE Goto(s, "testEof", "pMemory") /\ UNCHANGED status
    /\ UNCHANGED <<semVars, shmVars, memory, pos, out, kills, ioErrors>>

\* The end is looked up in the shared memory, after it was handed over.
TestEof(s) ==
    /\ pc[s] = "testEof"
    /\ IF Mem(s).snd_state = "EOF"
         THEN Return(s, "testEof", "ok")
         ELSE Goto(s, "testEof", "pMemory") /\ UNCHANGED status
    /\ UNCHANGED <<semVars, shmVars, memory, pos, out, kills, ioErrors>>

SenderStep(s) ==
    \/ ShmGet(s) \/ ShmAttach(s, "join") \/ ShmAttachFails(s)
    \/ Join(s) \/ PMemory(s) \/ ReceiverOk(s) \/ ReceiverNotOk(s)
    \/ Read(s) \/ ResetReceiver(s) \/ VData(s) \/ TestEof(s)

-----------------------------------------------------------------------------
(* receiver.c *)

\* sem_get_and_init(): wait for semaphore 0 to be zero and raise it.
LockReceivers(r) ==
    /\ Goto(r, "lock", "zero1")
    /\ SemopMany(r, 2, <<semop_entry(RCV_MUTEX, 0, "none"),
                         semop_entry(RCV_MUTEX, 1, "SEM_UNDO")>>)
    /\ UNCHANGED <<shmVars, memory, status, pos, out, kills, ioErrors>>

\* sem_get_and_init(): SETVAL of semaphore i, which clears everybody's semadj.
ZeroSemaphore(r, i) ==
    /\ Goto(r, <<"zero1", "zero2", "zero3">>[i],
               <<"zero2", "zero3", "shmget">>[i])
    /\ sem' = [sem EXCEPT ![i] = 0]
    /\ adj' = [p \in Processes |-> [adj[p] EXCEPT ![i] = 0]]
    /\ UNCHANGED <<shmVars, memory, status, pos, out, kills, ioErrors>>

InitMemory(r) ==
    /\ Goto(r, "init", "open")
    /\ attached[r] # NoSegment
    /\ Store(r, [Mem(r) EXCEPT !.rcv_state = "OK", !.snd_state = "NOT_DONE"])
    /\ UNCHANGED <<semVars, shmVars, status, pos, out, kills, ioErrors>>

\* Mutant of Open: the adjustment is not among the operations counted.
OpenUnadjusted(r) ==
    /\ Goto(r, "open", "pData")
    /\ SemopMany(r, 2, <<semop_entry(SND_MUTEX, 1, "SEM_UNDO"),
                         semop_entry(MEMORY, 1, "none"),
                         semop_adj(MEMORY, 2)>>)
    /\ UNCHANGED <<shmVars, memory, status, pos, out, kills, ioErrors>>

\* The session opens: a sender may join, and the memory is free.
Open(r) ==
    /\ Goto(r, "open", "pData")
    /\ SemopMany(r, 3, <<semop_entry(SND_MUTEX, 1, "SEM_UNDO"),
                         semop_entry(MEMORY, 1, "none"),
                         semop_adj(MEMORY, 2)>>)
    /\ UNCHANGED <<shmVars, memory, status, pos, out, kills, ioErrors>>

PData(r) ==
    /\ Goto(r, "pData", "testSender")
    /\ SemopMany(r, 1, <<semop_entry(DATA, -1, "none")>>)
    /\ UNCHANGED <<shmVars, memory, status, pos, out, kills, ioErrors>>

SenderOk(r) ==
    /\ Goto(r, "testSender", "write")
    /\ Mem(r).snd_state = "OK"
    /\ UNCHANGED <<semVars, shmVars, memory, status, pos, out, kills,
                   ioErrors>>

SenderEof(r) ==
    /\ Return(r, "testSender", "ok")
    /\ Mem(r).snd_state = "EOF"
    /\ UNCHANGED <<semVars, shmVars, memory, pos, out, kills, ioErrors>>

SenderNotOk(r) ==
    /\ Return(r, "testSender", "failed")
    /\ Mem(r).snd_state \in {"IOERROR", "NOT_DONE"}
    /\ UNCHANGED <<semVars, shmVars, memory, pos, out, kills, ioErrors>>

Write(r) ==
    /\ Goto(r, "write", "ack")
    /\ out' = [out EXCEPT ![r] = Append(@, Mem(r).data)]
    /\ UNCHANGED <<semVars, shmVars, memory, status, pos, kills, ioErrors>>

\* write() failed, or was short.
WriteFails(r) ==
    /\ ioErrors < MaxIoErrors
    /\ ioErrors' = ioErrors + 1
    /\ Return(r, "write", "failed")
    /\ Store(r, [Mem(r) EXCEPT !.rcv_state = "IOERROR"])
    /\ UNCHANGED <<semVars, shmVars, pos, out, kills>>

\* Mutant of Acknowledge: rcv_state is left as the sender reset it.
AcknowledgeNothing(r) ==
    /\ Goto(r, "ack", "resetSender")
    /\ UNCHANGED <<semVars, shmVars, memory, status, pos, out, kills, ioErrors>>

Acknowledge(r) ==
    /\ Goto(r, "ack", "resetSender")
    /\ Store(r, [Mem(r) EXCEPT !.rcv_state = "OK"])
    /\ UNCHANGED <<semVars, shmVars, status, pos, out, kills, ioErrors>>

ResetSender(r) ==
    /\ Goto(r, "resetSender", "vMemory")
    /\ Store(r, [Mem(r) EXCEPT !.snd_state = "NOT_DONE"])
    /\ UNCHANGED <<semVars, shmVars, status, pos, out, kills, ioErrors>>

VMemory(r) ==
    /\ Goto(r, "vMemory", "pData")
    /\ SemopMany(r, 1, <<semop_entry(MEMORY, 1, "none")>>)
    /\ UNCHANGED <<shmVars, memory, status, pos, out, kills, ioErrors>>

ReceiverStep(r) ==
    \/ LockReceivers(r) \/ \E i \in 1 .. 3 : ZeroSemaphore(r, i)
    \/ ShmGet(r) \/ ShmAttach(r, "init") \/ ShmAttachFails(r)
    \/ InitMemory(r) \/ Open(r) \/ PData(r)
    \/ SenderOk(r) \/ SenderEof(r) \/ SenderNotOk(r)
    \/ Write(r) \/ Acknowledge(r) \/ ResetSender(r) \/ VMemory(r)

-----------------------------------------------------------------------------
(* The end of a process *)

\* The cleanup handlers: shmdt(), and in the receiver also IPC_RMID, of a
\* positive identifier.
Cleanup(p) ==
    /\ Goto(p, "cleanup", "exit")
    /\ attached' = [attached EXCEPT ![p] = NoSegment]
    /\ key' = IF p \in Receivers /\ key = shm[p] /\ ShmId(key) > 0
                THEN NoSegment ELSE key
    /\ UNCHANGED <<firstId, semVars, created, memory, shm, status, pos, out,
                   kills, ioErrors>>

\* exit: the kernel applies the adjustments.
Exit(p) ==
    /\ Goto(p, "exit", "gone")
    /\ sem' = Undo(sem, adj[p])
    /\ adj' = [adj EXCEPT ![p] = [i \in Semaphores |-> 0]]
    /\ UNCHANGED <<shmVars, memory, status, pos, out, kills, ioErrors>>

\* A signal ends p: no cleanup handler runs, the kernel detaches and adjusts.
Die(p, how) ==
    /\ pc' = [pc EXCEPT ![p] = "gone"]
    /\ status' = [status EXCEPT ![p] = how]
    /\ attached' = [attached EXCEPT ![p] = NoSegment]
    /\ sem' = Undo(sem, adj[p])
    /\ adj' = [adj EXCEPT ![p] = [i \in Semaphores |-> 0]]
    /\ UNCHANGED <<firstId, key, created, memory, shm, pos, out, ioErrors>>

\* SIGKILL.
Kill(p) ==
    /\ kills < MaxKills
    /\ kills' = kills + 1
    /\ pc[p] # "gone"
    /\ Die(p, "killed")

-----------------------------------------------------------------------------
(* A segment with the identifier 0 *)

\* Nothing is attached and 0 is returned, which the callers, who look for a
\* negative number, do not take for a failure.
ShmSkipped(p) ==
    /\ ShmId(shm[p]) = 0
    /\ Goto(p, "shmat", IF p \in Senders THEN "join" ELSE "init")
    /\ UNCHANGED <<semVars, shmVars, memory, status, pos, out, kills, ioErrors>>

\* SIGSEGV: the first access to shared memory that was not attached.
Crash(p) ==
    /\ pc[p] \in {"testReceiver", "init"}
    /\ attached[p] = NoSegment
    /\ Die(p, "crashed")
    /\ UNCHANGED kills

NullStep(p) == ShmSkipped(p) \/ Crash(p)

-----------------------------------------------------------------------------
Init ==
    /\ firstId \in {0, 1}
    /\ sem = [i \in Semaphores |-> 0]
    /\ adj = [p \in Processes |-> [i \in Semaphores |-> 0]]
    /\ key = NoSegment /\ created = 0
    /\ memory = [g \in Segments |-> [rcv_state |-> "NOT_DONE",
                                     snd_state |-> "NOT_DONE",
                                     data |-> NoChunk]]
    /\ shm = [p \in Processes |-> NoSegment]
    /\ attached = [p \in Processes |-> NoSegment]
    /\ pc = [p \in Processes |-> IF p \in Senders THEN "shmget" ELSE "lock"]
    /\ status = [p \in Processes |-> "running"]
    /\ pos = [s \in Senders |-> 0]
    /\ out = [r \in Receivers |-> << >>]
    /\ kills = 0 /\ ioErrors = 0

\* What the program does by itself.
Step(p) ==
    \/ p \in Senders /\ SenderStep(p)
    \/ p \in Receivers /\ ReceiverStep(p)
    \/ Cleanup(p) \/ Exit(p) \/ NullStep(p)

\* What the world does to it.
Fault ==
    \/ \E p \in Killable : Kill(p)
    \/ \E s \in Senders : ReadFails(s)
    \/ \E r \in Receivers : WriteFails(r)

Next == Fault \/ \E p \in Processes : Step(p)

Spec == Init /\ [][Next]_vars

\* The scheduler runs every process that can run; nothing bad is owed.
FairSpec == Spec /\ \A p \in Processes : WF_vars(Step(p))

-----------------------------------------------------------------------------
(* Properties *)

SenderPlaces == {"shmget", "shmat", "join", "pMemory", "testReceiver", "read",
                 "resetReceiver", "vData", "testEof", "cleanup", "exit", "gone"}
ReceiverPlaces == {"lock", "zero1", "zero2", "zero3", "shmget", "shmat", "init",
                   "open", "pData", "testSender", "write", "ack",
                   "resetSender", "vMemory", "cleanup", "exit", "gone"}

\* A sender that took SND_MUTEX and goes on; the part of its loop between P
\* MEMORY and V DATA; the same for a receiver that opened its session.
Joined(s)  == pc[s] \in {"pMemory", "testReceiver", "read", "resetReceiver",
                         "vData", "testEof"}
Filling(s) == pc[s] \in {"testReceiver", "read", "resetReceiver", "vData"}
Opened(r)  == pc[r] \in {"pData", "testSender", "write", "ack", "resetSender",
                         "vMemory"}
Draining(r) == pc[r] \in {"testSender", "write", "ack", "resetSender",
                          "vMemory"}

File(s) == [i \in 1 .. FileLen |-> [from |-> s, nr |-> i]]

\* Every variable keeps its type.
TypeOK ==
    /\ firstId \in {0, 1}
    /\ sem \in [Semaphores -> Nat]
    /\ adj \in [Processes -> [Semaphores -> Int]]
    /\ key \in Segments \cup {NoSegment} /\ created \in Segments \cup {0}
    /\ memory \in [Segments ->
                     [rcv_state : {"NOT_DONE", "OK", "IOERROR"},
                      snd_state : {"NOT_DONE", "OK", "EOF", "IOERROR"},
                      data : Chunks \cup {NoChunk}]]
    /\ shm \in [Processes -> Segments \cup {NoSegment}]
    /\ attached \in [Processes -> Segments \cup {NoSegment}]
    /\ pc \in [Processes -> SenderPlaces \cup ReceiverPlaces]
    /\ status \in [Processes -> {"running", "ok", "failed", "killed", "crashed"}]
    /\ pos \in [Senders -> 0 .. FileLen]
    /\ out \in [Receivers -> Seq(Chunks)]
    /\ kills \in 0 .. MaxKills /\ ioErrors \in 0 .. MaxIoErrors

\* "Get/create the semaphore set and lock out other receivers"
\* (receiver.c:35), kills included: between the wait-for-zero and its exit, one
\* receiver works alone.
ReceiversExclude ==
    \A r, q \in Receivers :
        r # q /\ pc[r] \notin {"lock", "gone"} => pc[q] \in {"lock", "gone"}

\* One sender per session: whoever took SND_MUTEX keeps the others out until
\* the next receiver.
SendersExclude == Cardinality({s \in Senders : Joined(s)}) <= 1

\* The memory is in one hand: while a session is open it is announced free, or
\* announced full, or being filled by the one sender, or being drained by the
\* receiver, and never two of these.
OneHand ==
    /\ TypeOK
    /\ (\E r \in Receivers : Opened(r)) =>
           sem[MEMORY] + sem[DATA] + Cardinality({s \in Senders : Filling(s)})
               + Cardinality({r \in Receivers : Draining(r)}) <= 1

\* What a receiver wrote is the beginning of one sender's file: no chunk is
\* lost, doubled, reordered, or mixed with another file's.
OutputIsPrefix ==
    \A r \in Receivers : \E s \in Senders :
        /\ Len(out[r]) <= FileLen
        /\ out[r] = SubSeq(File(s), 1, Len(out[r]))

\* Exit status 0 of either side means that the whole file was written.
SuccessIsComplete ==
    /\ \A r \in Receivers :
          status[r] = "ok" => \E s \in Senders : out[r] = File(s)
    /\ \A s \in Senders :
          status[s] = "ok" => \E r \in Receivers : out[r] = File(s)

\* "on death, we want existing sender to iterate freely" (receiver.c:65): when
\* the receiver is gone, killed or not, a sender that joined ends as well.
ReceiverDeathNoticed ==
    \A s \in Senders :
        (Joined(s) /\ \A r \in Receivers : pc[r] = "gone") ~> pc[s] = "gone"

\* "on death, we want receiver to iterate freely" (sender.c:58): once a sender
\* has joined the session of a receiver, the receiver ends as well when this
\* sender is gone, killed or not.
SenderDeathNoticed ==
    \A s \in Senders, r \in Receivers :
        [](Joined(s) /\ Opened(r) => [](pc[s] = "gone" => <>(pc[r] = "gone")))

\* Left alone, senders and one receiver get a file through: the receiver and
\* one of the senders end with exit status 0; provided that the segment does
\* not get the identifier 0, with which the receiver crashes (ShmSkipped).
TransferSucceeds ==
    firstId # 0 /\ [](kills = 0 /\ ioErrors = 0) =>
        <>(/\ \E s \in Senders : pc[s] = "gone" /\ status[s] = "ok"
           /\ \E r \in Receivers : pc[r] = "gone" /\ status[r] = "ok")

\* Sessions follow one another on the same semaphores, and while nobody is
\* killed and no I/O fails none of them disturbs another: the memory is in one
\* hand, and what is written and reported is right for each receiver and each
\* sender.  Only one receiver works at a time even when some are killed.
SessionsApart ==
    /\ ReceiversExclude
    /\ kills = 0 /\ ioErrors = 0 => OneHand /\ OutputIsPrefix /\ SuccessIsComplete

=============================================================================

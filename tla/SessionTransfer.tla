--------------------------- MODULE SessionTransfer ---------------------------
(***************************************************************************)
(* course2-1/__non_canonical/For478/task2: an earlier transfer of files    *)
(* through shared memory. One long-lived receiver serves any number of     *)
(* senders, one after the other: the SESSION semaphore is taken by a       *)
(* sender and given back by the receiver, when it has seen the end of the  *)
(* file. Each side registers, when it starts, adjustments that let the     *)
(* other one run twice after its death, and go by the states in the memory.*)
(*                                                                         *)
(* The helpers that create the memory and the semaphores are in a header   *)
(* the repository does not have: they leave the values of common.h, and    *)
(* the caller's adjustments. The receiver is there from the start; it      *)
(* may abort, be killed or be asked to exit between two steps.             *)
(***************************************************************************)
EXTENDS Integers, Sequences, FiniteSets, XsiSem

CONSTANTS
    Senders,
    FileLen,      \* chunks in each sender's file
    SEMVMX,       \* the largest value of a semaphore
    MaxFaults     \* bound: processes killed, and failing read()s and write()s

MEMORY == 0
DATA == 1
SESSION == 2
Semaphores == 0 .. 2

Receiver == "receiver"
Processes == Senders \cup {Receiver}
NoAdj == [i \in Semaphores |-> 0]
NoChunk == [from |-> "none", nr |-> 0]

VARIABLES
    sem, adj,
    removed,  \* the receiver removed the semaphores: EIDRM
    mem,      \* struct shared_memory
    pc, status,
    pos,      \* each sender's offset in its file
    out,      \* what the receiver wrote
    hasEof, exiting,
    strays,   \* history: senders killed with adjustments for another's session
    faults

vars == <<sem, adj, removed, mem, pc, status, pos, out, hasEof, exiting,
          strays, faults>>
rest == <<removed, status, pos, out, hasEof, exiting, strays, faults>>

Goto(p, from, to) == pc[p] = from /\ pc' = [pc EXCEPT ![p] = to]

\* A semop() of p that goes through.
SemOps(p, ops) ==
    LET r == Semop(sem, adj[p], ops) IN
    /\ ~ removed /\ r.ok
    /\ sem' = r.val /\ adj' = [adj EXCEPT ![p] = r.adj]

Op(num, op) == <<semop_entry(num, op, "none")>>

\* The end of p: the kernel applies the adjustments, and a receiver that
\* returns from main() removes the semaphores and the memory.
End(p, result) ==
    /\ pc' = [pc EXCEPT ![p] = "done"]
    /\ status' = [status EXCEPT ![p] = result]
    /\ sem' = Undo(sem, adj[p])
    /\ adj' = [adj EXCEPT ![p] = NoAdj]
    /\ removed' = (removed \/ (p = Receiver /\ result # "killed"))

-----------------------------------------------------------------------------
(* sender.c *)

\* sem_init_slave(): the adjustments, long before the session.
Register(s) ==
    /\ ~ removed /\ Goto(s, "start", "session")
    /\ adj' = [adj EXCEPT ![s][DATA] = 2]
    /\ UNCHANGED <<sem, mem, rest>>

\* Mutant of PSession: only the memory is asked for.
NoSession(s) ==
    /\ Goto(s, "session", "memory") /\ ~ removed
    /\ UNCHANGED <<sem, adj, mem, rest>>

PSession(s) ==
    /\ Goto(s, "session", "memory") /\ SemOps(s, Op(SESSION, -1))
    /\ UNCHANGED <<mem, rest>>

PMemory(s) ==
    /\ Goto(s, "memory", "test") /\ SemOps(s, Op(MEMORY, -1))
    /\ UNCHANGED <<mem, rest>>

TestReceiver(s) ==
    /\ pc[s] = "test"
    /\ IF mem.rcv_state = "OK"
         THEN /\ Goto(s, "test", "read")
              /\ UNCHANGED <<sem, adj, removed, status>>
         ELSE End(s, "failed")
    /\ UNCHANGED <<mem, pos, out, hasEof, exiting, strays, faults>>

Read(s) ==
    /\ Goto(s, "read", "reset")
    /\ IF pos[s] < FileLen
         THEN /\ mem' = [mem EXCEPT !.data = [from |-> s, nr |-> pos[s] + 1],
                                    !.snd_state = "OK"]
              /\ pos' = [pos EXCEPT ![s] = @ + 1]
         ELSE mem' = [mem EXCEPT !.snd_state = "EOF"] /\ UNCHANGED pos
    /\ UNCHANGED <<sem, adj, removed, status, out, hasEof, exiting, strays,
                   faults>>

ReadFails(s) ==
    /\ faults < MaxFaults /\ faults' = faults + 1
    /\ pc[s] = "read" /\ End(s, "failed")
    /\ mem' = [mem EXCEPT !.snd_state = "IOERROR"]
    /\ UNCHANGED <<pos, out, hasEof, exiting, strays>>

ResetReceiver(s) ==
    /\ Goto(s, "reset", "testEof")
    /\ mem' = [mem EXCEPT !.rcv_state = "NOT_DONE"]
    /\ UNCHANGED <<sem, adj, rest>>

TestEof(s) ==
    /\ Goto(s, "testEof", IF mem.snd_state = "EOF" THEN "vLast" ELSE "vData")
    /\ UNCHANGED <<sem, adj, mem, rest>>

VData(s) ==
    /\ Goto(s, "vData", "memory") /\ SemOps(s, Op(DATA, 1))
    /\ UNCHANGED <<mem, rest>>

\* semop_one_and_adj(): the last V DATA takes back the adjustment with it.
VLast(s) ==
    /\ Goto(s, "vLast", "exit")
    /\ ~ removed
    /\ sem' = [sem EXCEPT ![DATA] = @ + 1]
    /\ adj' = [adj EXCEPT ![s][DATA] = @ - 2]
    /\ UNCHANGED <<mem, rest>>

Return(s) ==
    /\ pc[s] = "exit" /\ End(s, "ok")
    /\ UNCHANGED <<mem, pos, out, hasEof, exiting, strays, faults>>

\* A semop() on removed semaphores: EIDRM, or none are found at the start.
NoSemaphores(s) ==
    /\ removed /\ pc[s] \in {"start", "session", "memory", "vData", "vLast"}
    /\ End(s, "failed")
    /\ UNCHANGED <<mem, pos, out, hasEof, exiting, strays, faults>>

SenderStep(s) ==
    \/ Register(s) \/ PSession(s) \/ PMemory(s) \/ TestReceiver(s) \/ Read(s)
    \/ ResetReceiver(s) \/ TestEof(s) \/ VData(s) \/ VLast(s) \/ Return(s)
    \/ NoSemaphores(s)

-----------------------------------------------------------------------------
(* receiver.c *)

\* while (!exiting)
Loop ==
    /\ pc[Receiver] = "loop"
    /\ IF exiting
         THEN End(Receiver, "ok") /\ UNCHANGED hasEof
         ELSE /\ Goto(Receiver, "loop", "pData") /\ hasEof' = FALSE
              /\ UNCHANGED <<sem, adj, removed, status>>
    /\ UNCHANGED <<mem, pos, out, exiting, strays, faults>>

PData ==
    /\ Goto(Receiver, "pData", "testSender") /\ SemOps(Receiver, Op(DATA, -1))
    /\ UNCHANGED <<mem, rest>>

TestSender ==
    /\ pc[Receiver] = "testSender"
    /\ CASE mem.snd_state = "OK"  -> /\ Goto(Receiver, "testSender", "write")
                                     /\ UNCHANGED <<sem, adj, removed, status,
                                                    hasEof>>
         [] mem.snd_state = "EOF" -> /\ Goto(Receiver, "testSender", "ack")
                                     /\ hasEof' = TRUE
                                     /\ UNCHANGED <<sem, adj, removed, status>>
         [] OTHER                 -> /\ End(Receiver, "failed")
                                     /\ UNCHANGED hasEof
    /\ UNCHANGED <<mem, pos, out, exiting, strays, faults>>

Write ==
    /\ Goto(Receiver, "write", "ack")
    /\ out' = Append(out, mem.data)
    /\ UNCHANGED <<sem, adj, mem, removed, status, pos, hasEof, exiting, strays,
                   faults>>

WriteFails ==
    /\ faults < MaxFaults /\ faults' = faults + 1
    /\ pc[Receiver] = "write" /\ End(Receiver, "failed")
    /\ mem' = [mem EXCEPT !.rcv_state = "IOERROR"]
    /\ UNCHANGED <<pos, out, hasEof, exiting, strays>>

\* rcv_state, then snd_state; no sender looks at either in between unless one
\* has the memory, which is what is to be shown.
Acknowledge ==
    /\ Goto(Receiver, "ack", "reset")
    /\ mem' = [mem EXCEPT !.rcv_state = "OK"]
    /\ UNCHANGED <<sem, adj, rest>>

ResetSender ==
    /\ Goto(Receiver, "reset", IF hasEof THEN "vSession" ELSE "vMemory")
    /\ mem' = [mem EXCEPT !.snd_state = "NOT_DONE"]
    /\ UNCHANGED <<sem, adj, rest>>

VSession ==
    /\ Goto(Receiver, "vSession", "vMemory")
    /\ sem[SESSION] < SEMVMX /\ SemOps(Receiver, Op(SESSION, 1))
    /\ UNCHANGED <<mem, rest>>

\* ERANGE: only strays can bring SESSION so far, when the receiver takes the
\* end of one file several times.
SessionOverflow ==
    /\ pc[Receiver] = "vSession" /\ sem[SESSION] >= SEMVMX
    /\ End(Receiver, "failed")
    /\ UNCHANGED <<mem, pos, out, hasEof, exiting, strays, faults>>

VMemory ==
    /\ Goto(Receiver, "vMemory", "loop") /\ SemOps(Receiver, Op(MEMORY, 1))
    /\ UNCHANGED <<mem, rest>>

ReceiverStep ==
    \/ Loop \/ PData \/ TestSender \/ Write \/ Acknowledge \/ ResetSender
    \/ VSession \/ SessionOverflow \/ VMemory

\* exit_signal(): a waiting semop() is interrupted; elsewhere the flag is
\* seen after the iteration.
ExitSignal ==
    /\ ~ exiting /\ pc[Receiver] # "done"
    /\ exiting' = TRUE
    /\ pc' = [pc EXCEPT ![Receiver] = IF @ = "pData" THEN "loop" ELSE @]
    /\ UNCHANGED <<sem, adj, removed, mem, status, pos, out, hasEof, strays,
                   faults>>

\* abort() before one write() in fifty, or a kill: nothing is removed.
ReceiverDeath ==
    /\ faults < MaxFaults /\ faults' = faults + 1
    /\ pc[Receiver] # "done" /\ End(Receiver, "killed")
    /\ UNCHANGED <<mem, pos, out, hasEof, exiting, strays>>

\* A sender that waits for SESSION has its adjustments already, and one that
\* has announced the end of its file still has them.
Stray(s) ==
    \/ pc[s] = "session"
    \/ pc[s] \in {"reset", "testEof", "vLast"} /\ mem.snd_state = "EOF"

KillSender(s) ==
    /\ faults < MaxFaults /\ faults' = faults + 1
    /\ pc[s] # "done" /\ End(s, "killed")
    /\ strays' = IF Stray(s) THEN strays \cup {s} ELSE strays
    /\ UNCHANGED <<mem, pos, out, hasEof, exiting>>

\* common.h: the values the first sender and the receiver start with. The
\* memory stays zeros, which is "not done" for both, if the identifier of the
\* segment is 0.
Init ==
    /\ sem = [i \in Semaphores |-> IF i = DATA THEN 0 ELSE 1]
    /\ adj = [p \in Processes |->
                IF p = Receiver THEN [NoAdj EXCEPT ![MEMORY] = 2] ELSE NoAdj]
    /\ removed = FALSE
    /\ mem \in [rcv_state : {"OK", "NOT_DONE"}, snd_state : {"NOT_DONE"},
               data : {NoChunk}]
    /\ pc = [p \in Processes |-> IF p = Receiver THEN "loop" ELSE "start"]
    /\ status = [p \in Processes |-> "running"]
    /\ pos = [s \in Senders |-> 0] /\ out = <<>>
    /\ hasEof = FALSE /\ exiting = FALSE /\ strays = {} /\ faults = 0

Next ==
    \/ \E s \in Senders : SenderStep(s) \/ ReadFails(s) \/ KillSender(s)
    \/ ReceiverStep \/ WriteFails \/ ExitSignal \/ ReceiverDeath

Spec == Init /\ [][Next]_vars

-----------------------------------------------------------------------------
File(s) == [i \in 1 .. FileLen |-> [from |-> s, nr |-> i]]

\* The chunks of s in the output, with their places.
Places(s) == {i \in DOMAIN out : out[i].from = s}

\* The files of the senders follow one another in the output: each is a
\* prefix of its file in one piece, and whole if its sender succeeded and
\* another file follows it.
FilesFollow == \A s \in Senders : LET p == Places(s) IN
    p # {} =>
    /\ \E a, n \in 1 .. Len(out) :
          p = a .. a + n - 1 /\ SubSeq(out, a, a + n - 1) = SubSeq(File(s), 1, n)
    /\ Len(out) \notin p => Cardinality(p) = FileLen

\* The memory is in one hand while it is filled or emptied.
Filling(s) == pc[s] \in {"test", "read", "reset", "testEof"}
Draining == pc[Receiver] \in {"testSender", "write", "ack", "reset"}
OneHand == status[Receiver] = "running" =>
    /\ Draining => \A s \in Senders : ~ Filling(s)
    /\ \A s, t \in Senders : Filling(s) /\ Filling(t) => s = t

\* Until a sender was killed that leaves its two rounds to another's session.
\* (From then on the receiver may be in the memory while a sender fills it, and
\* the two may write it at once, which Read and Acknowledge do not divide.)
FilesInOneHand == strays = {} => FilesFollow /\ OneHand

\* sender.c: "The SESSION semaphore mutually excludes senders from talking to
\* the receiver simultaneously." It does not: when a sender that only waits
\* for SESSION is killed, the receiver runs without having been asked, may see
\* the end of the file that another sender is about to hand over, and gives
\* SESSION to the next one.
Talking(s) == pc[s] \in {"memory", "test", "read", "reset", "testEof",
                         "vData", "vLast"}
SendersExclude == \A s, t \in Senders : Talking(s) /\ Talking(t) => s = t

\* What the receiver's adjustments are for: a sender in its session ends, also
\* when the receiver is killed, as they give it two more rounds, the second of
\* which finds rcv_state not done. (One that still waits for its session does
\* not end.)
InSession(s) == pc[s] = "memory"
=============================================================================

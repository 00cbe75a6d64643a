---------------------------- MODULE MessageOrder ----------------------------
(***************************************************************************)
(* course2-1/seminar5/task.c: a parent forks NrChildren children, which    *)
(* print their numbers in order. Parent and children talk through one XSI  *)
(* message queue: a message of type i + 1 lets child i print, a message    *)
(* of type LONG_MAX tells the parent that it did. msgrcv() takes the first *)
(* message of the type it asks for, and waits while there is none.         *)
(***************************************************************************)
EXTENDS Integers, Sequences

CONSTANTS
    NrChildren,
    MayFail      \* can fork() fail?

Children == 0 .. NrChildren - 1
Parent == -1
LONG_MAX == NrChildren + 1    \* a type no child waits for
IPC_RMID == 0

VARIABLES
    pc,      \* of the parent and of each child
    id,      \* the identifier msgget() returned; all others act like 1
    queue,   \* the types of the messages in the queue
    next,    \* the parent's loop variable, of either loop
    out      \* the numbers printed

vars == <<pc, id, queue, next, out>>

\* msgrcv() of a type: the first message that has it.
Receive(type) ==
    \E i \in DOMAIN queue :
        /\ queue[i] = type
        /\ \A j \in 1 .. i - 1 : queue[j] # type
        /\ queue' = SubSeq(queue, 1, i - 1) \o SubSeq(queue, i + 1, Len(queue))

Goto(p, from, to) == pc[p] = from /\ pc' = [pc EXCEPT ![p] = to]

\* fork() of the next child; after the last one the parent sends.
Fork ==
    /\ pc[Parent] = "fork"
    /\ IF next < NrChildren
         THEN /\ pc' = [pc EXCEPT ![next] = "receive"]
              /\ next' = next + 1
         ELSE /\ Goto(Parent, "fork", "send")
              /\ next' = 0
    /\ UNCHANGED <<id, queue, out>>

\* msgctl(IPC_RMID, queue, NULL) has its first two arguments swapped: the queue
\* is removed only if its identifier is IPC_RMID, too.
Removed == pc[Parent] = "done" /\ id = IPC_RMID

Out(from) ==
    /\ Goto(Parent, from, "done")
    /\ queue' = IF id = IPC_RMID THEN <<>> ELSE queue
    /\ UNCHANGED <<id, next, out>>

\* `goto out' with children that are there already and wait.
ForkFails ==
    /\ MayFail /\ next < NrChildren
    /\ Out("fork")

\* Mutant of Send: the parent does not wait for the answer.
SendAll ==
    /\ pc[Parent] = "send"
    /\ IF next < NrChildren
         THEN /\ next' = next + 1
              /\ queue' = Append(queue, next + 1)
              /\ UNCHANGED pc
         ELSE Goto(Parent, "send", "wait") /\ UNCHANGED <<next, queue>>
    /\ UNCHANGED <<id, out>>

Send ==
    /\ pc[Parent] = "send"
    /\ IF next < NrChildren
         THEN /\ Goto(Parent, "send", "answer")
              /\ queue' = Append(queue, next + 1)
         ELSE Goto(Parent, "send", "wait") /\ UNCHANGED queue
    /\ UNCHANGED <<id, next, out>>

Answer ==
    /\ Goto(Parent, "answer", "send")
    /\ Receive(LONG_MAX)
    /\ next' = next + 1
    /\ UNCHANGED <<id, out>>

\* wait() with SIGCHLD ignored: all children have ended.
Wait ==
    /\ \A c \in Children : pc[c] \in {"none", "done"}
    /\ Out("wait")

ChildReceive(c) ==
    /\ Goto(c, "receive", "print")
    /\ Receive(c + 1)
    /\ UNCHANGED <<id, next, out>>

\* msgrcv() and msgsnd() fail when there is no queue any more.
ChildFails(c) ==
    /\ pc[c] \in {"receive", "reply"} /\ Removed
    /\ pc' = [pc EXCEPT ![c] = "done"]
    /\ UNCHANGED <<id, queue, next, out>>

\* printf() and fflush()
PrintNumber(c) ==
    /\ Goto(c, "print", "reply")
    /\ out' = Append(out, c)
    /\ UNCHANGED <<id, queue, next>>

\* Mutant of Reply: the message goes out with the type it came in with.
ReplySameType(c) ==
    /\ Goto(c, "reply", "done")
    /\ queue' = Append(queue, c + 1)
    /\ UNCHANGED <<id, next, out>>

Reply(c) ==
    /\ Goto(c, "reply", "done")
    /\ queue' = Append(queue, LONG_MAX)
    /\ UNCHANGED <<id, next, out>>

Init ==
    /\ pc = [p \in Children \cup {Parent} |->
               IF p = Parent THEN "fork" ELSE "none"]
    /\ id \in {IPC_RMID, 1} /\ queue = <<>> /\ next = 0 /\ out = <<>>

ParentStep == Fork \/ Send \/ Answer \/ Wait
ChildStep(c) ==
    ChildReceive(c) \/ ChildFails(c) \/ PrintNumber(c) \/ Reply(c)

Next == ParentStep \/ ForkFails \/ \E c \in Children : ChildStep(c)

-----------------------------------------------------------------------------
\* The numbers come out in order, however the children are scheduled.
PrintedInOrder == \A i \in DOMAIN out : out[i] = i - 1

\* What is to come about: everybody ends who was started, also when a fork()
\* fails; then only if the queue is removed, on which the children depend.
AllEnded ==
    \/ \A p \in DOMAIN pc : pc[p] \in {"none", "done"}
    \/ /\ pc[Parent] = "done" /\ id # IPC_RMID
       /\ \E c \in Children : pc[c] = "none"
=============================================================================

----------------------------- MODULE ForkOrder ------------------------------
(***************************************************************************)
(* course2-1/seminar2/task1.c: fork() in a loop; each child prints its     *)
(* number. Compiled with WAIT the parent waits for a child before it forks *)
(* the next. A failing fork() is remembered and the loop goes on.          *)
(***************************************************************************)
EXTENDS Integers, Sequences

CONSTANT NrChildren

Children == 0 .. NrChildren - 1

VARIABLES
    WAIT,          \* the macro
    next,          \* the loop variable
    pc,            \* where each child is
    waiting,       \* the parent is in waitpid()
    fork_failed, status, out

vars == <<WAIT, next, pc, waiting, fork_failed, status, out>>

Fork ==
    /\ next < NrChildren /\ ~ waiting
    /\ pc' = [pc EXCEPT ![next] = "print"]
    /\ next' = next + 1
    /\ waiting' = WAIT
    /\ UNCHANGED <<WAIT, fork_failed, status, out>>

ForkFails ==
    /\ next < NrChildren /\ ~ waiting
    /\ next' = next + 1 /\ fork_failed' = TRUE
    \* waitpid(-1) finds no child: "we cannot guarantee ordering anymore"
    /\ status' = IF WAIT THEN 1 ELSE status
    /\ UNCHANGED <<WAIT, pc, waiting, out>>

\* waitpid() of the child that was forked last; one that failed is reported.
WaitChild ==
    /\ waiting /\ pc[next - 1] = "done" /\ waiting' = FALSE
    /\ UNCHANGED <<WAIT, next, pc, fork_failed, status, out>>

Return ==
    /\ next = NrChildren /\ ~ waiting /\ status = -1
    /\ status' = IF fork_failed THEN 1 ELSE 0
    /\ UNCHANGED <<WAIT, next, pc, waiting, fork_failed, out>>

PrintNumber(c) ==
    /\ pc[c] = "print" /\ pc' = [pc EXCEPT ![c] = "done"]
    /\ out' = Append(out, c)
    /\ UNCHANGED <<WAIT, next, waiting, fork_failed, status>>

\* The child is killed before its buffer is flushed.
Kill(c) ==
    /\ pc[c] = "print" /\ pc' = [pc EXCEPT ![c] = "done"]
    /\ UNCHANGED <<WAIT, next, waiting, fork_failed, status, out>>

Init ==
    /\ WAIT \in BOOLEAN /\ next = 0
    /\ pc = [c \in Children |-> "none"]
    /\ waiting = FALSE /\ fork_failed = FALSE /\ status = -1 /\ out = <<>>

Next ==
    \/ status = -1 /\ (Fork \/ ForkFails \/ WaitChild \/ Return)
    \/ \E c \in Children : PrintNumber(c) \/ Kill(c)

-----------------------------------------------------------------------------
\* With WAIT the numbers come out in order, whichever fork() or child fails;
\* without it every child still prints at most once.
InOrder ==
    \A i, j \in DOMAIN out : i < j =>
        IF WAIT THEN out[i] < out[j] ELSE out[i] # out[j]
=============================================================================

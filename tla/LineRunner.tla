----------------------------- MODULE LineRunner -----------------------------
(***************************************************************************)
(* course2-1/__canonical/runsim.c and useless.c: a parent reads lines and  *)
(* forks a child for each, which executes the command on the line. The     *)
(* children of runsim first take a unit of a semaphore, without waiting    *)
(* and with SEM_UNDO, so that the kernel gives it back when the command    *)
(* ends; a child that gets none does not execute anything. The children of *)
(* useless sleep first. Both parents ignore SIGCHLD and wait() for all.    *)
(***************************************************************************)
EXTENDS Integers, FiniteSets

CONSTANTS
    NrLines,
    Tasks     \* runsim's limit

Lines == 1 .. NrLines

VARIABLES
    kind,    \* "runsim" or "useless"
    line,    \* lines the parent has read
    wait,    \* where the parent is: "read", "wait", "done", "failed"
    pc,      \* of the child of each line
    sem,     \* the units left
    held,    \* children to which the kernel owes an undo
    refused  \* history: lines refused, with the number of holders then

vars == <<kind, line, wait, pc, sem, held, refused>>

\* fscanf() returned a line: fork().
ForkLine ==
    /\ wait = "read" /\ line < NrLines
    /\ line' = line + 1
    /\ pc' = [pc EXCEPT ![line'] = IF kind = "runsim" THEN "take" ELSE "sleep"]
    /\ UNCHANGED <<kind, wait, sem, held, refused>>

\* The end of the input, or a line that cannot be parsed, or no more
\* processes: the parent returns at once in the latter cases.
EndOfInput ==
    /\ wait = "read" /\ line = NrLines /\ wait' = "wait"
    /\ UNCHANGED <<kind, line, pc, sem, held, refused>>

Fails ==
    /\ wait = "read" /\ line < NrLines /\ wait' = "failed"
    /\ UNCHANGED <<kind, line, pc, sem, held, refused>>

\* wait(NULL) returns when no child is left.
Wait ==
    /\ wait = "wait" /\ \A l \in Lines : pc[l] \notin {"take", "sleep", "run"}
    /\ wait' = "done"
    /\ UNCHANGED <<kind, line, pc, sem, held, refused>>

\* Mutant of Take: without SEM_UNDO.
TakeForGood(l) ==
    /\ pc[l] = "take" /\ sem > 0
    /\ sem' = sem - 1 /\ UNCHANGED held
    /\ pc' = [pc EXCEPT ![l] = "run"]
    /\ UNCHANGED <<kind, line, wait, refused>>

\* P with SEM_UNDO | IPC_NOWAIT, and execvp()
Take(l) ==
    /\ pc[l] = "take" /\ sem > 0
    /\ sem' = sem - 1 /\ held' = held \cup {l}
    /\ pc' = [pc EXCEPT ![l] = "run"]
    /\ UNCHANGED <<kind, line, wait, refused>>

\* EAGAIN: "Process limit exceeded"
Refuse(l) ==
    /\ pc[l] = "take" /\ sem = 0
    /\ pc' = [pc EXCEPT ![l] = "refused"]
    /\ refused' = refused \cup {<<l, Cardinality({k \in Lines :
                                                    pc[k] = "run"})>>}
    /\ UNCHANGED <<kind, line, wait, sem, held>>

\* sleep(), and execlp()
Awake(l) ==
    /\ pc[l] = "sleep"
    /\ pc' = [pc EXCEPT ![l] = "run"]
    /\ UNCHANGED <<kind, line, wait, sem, held, refused>>

\* The command ends, or could not be executed; the kernel undoes the P.
Ends(l) ==
    /\ pc[l] = "run"
    /\ pc' = [pc EXCEPT ![l] = "ran"]
    /\ sem' = IF l \in held THEN sem + 1 ELSE sem
    /\ held' = held \ {l}
    /\ UNCHANGED <<kind, line, wait, refused>>

Init ==
    /\ kind \in {"runsim", "useless"}
    /\ line = 0 /\ wait = "read"
    /\ pc = [l \in Lines |-> "none"]
    /\ sem = Tasks /\ held = {} /\ refused = {}

Next ==
    \/ ForkLine \/ EndOfInput \/ Fails \/ Wait
    \/ \E l \in Lines : Take(l) \/ Refuse(l) \/ Awake(l) \/ Ends(l)

-----------------------------------------------------------------------------
Running == {l \in Lines : pc[l] = "run"}

\* Never more than Tasks commands run, and a line is refused only while so
\* many run: the units come back however a command ended. A parent that
\* reports success ended after all its children.
LimitHeld ==
    /\ kind = "runsim" => Cardinality(Running) <= Tasks
    /\ \A r \in refused : r[2] = Tasks
    /\ wait = "done" => \A l \in Lines : pc[l] \in {"ran", "refused"}
=============================================================================

------------------------------- MODULE XsiSem -------------------------------
(***************************************************************************)
(* The XSI semaphore operations of course2-1/common_sem.h, over the        *)
(* kernel's semop(), SEM_UNDO adjustments, SETVAL and process exit as that *)
(* header and its callers rely on them.                                    *)
(*                                                                         *)
(* The values of a set are a function from semaphore numbers to naturals;  *)
(* a process's adjustments are a function from the same numbers to         *)
(* integers.                                                               *)
(***************************************************************************)
LOCAL INSTANCE Integers
LOCAL INSTANCE Sequences

-----------------------------------------------------------------------------
(* common_sem.h *)

\* semop_entry(): one operation, with or without SEM_UNDO.
semop_entry(num, op, undo) == [num |-> num, op |-> op, flag |-> undo]

\* semop_adj(): a request to set an adjustment, marked by a fake flag.
semop_adj(num, adj) == [num |-> num, op |-> adj, flag |-> "SEM_ADJ"]

\* What semop_many() makes of one argument: an adjustment becomes a pair of
\* operations that cancel out and of which the reverting one is undone at exit;
\* the increment goes first, so that the pair never blocks.
Expand(e) ==
    LET adjust == semop_entry(e.num, e.op, "none")
        revert == semop_entry(e.num, 0 - e.op, "SEM_UNDO")
    IN  IF e.flag # "SEM_ADJ" THEN <<e>>
        ELSE IF e.op > 0 THEN <<adjust, revert>> ELSE <<revert, adjust>>

\* semop_many(sem, ops_nr, ...): the operations given to semop(). Arguments
\* after the first ops_nr are not looked at.
semop_many(opsNr, args) ==
    LET upTo[n \in 0 .. opsNr] ==
            IF n = 0 THEN << >> ELSE upTo[n - 1] \o Expand(args[n])
    IN  upTo[opsNr]

-----------------------------------------------------------------------------
(* The kernel *)

\* One operation on top of those before it in the same semop() call.
Perform(s, o) ==
    IF ~ s.ok THEN s
    ELSE IF o.op = 0 THEN [s EXCEPT !.ok = s.val[o.num] = 0]
    ELSE IF s.val[o.num] + o.op < 0 THEN [s EXCEPT !.ok = FALSE]
    ELSE [s EXCEPT !.val[o.num] = @ + o.op,
                   !.adj[o.num] = IF o.flag = "SEM_UNDO" THEN @ - o.op ELSE @]

\* A semop() call: all the operations or none; it can go through when ok.
Semop(val, adj, ops) ==
    LET after[n \in 0 .. Len(ops)] ==
            IF n = 0 THEN [val |-> val, adj |-> adj, ok |-> TRUE]
            ELSE Perform(after[n - 1], ops[n])
    IN  after[Len(ops)]

\* Exit: adjustments are added, and a value never goes below zero.
Undo(val, adj) ==
    [i \in DOMAIN val |-> IF val[i] + adj[i] < 0 THEN 0 ELSE val[i] + adj[i]]
=============================================================================

------------------------------ MODULE Listing ------------------------------
(***************************************************************************)
(* course2-1/__non_canonical/For478/task3/ls_lr.c: a recursive listing.    *)
(* A directory is read to its end, with the metadata of every entry, then  *)
(* its entries are printed, then those of them that are directories are    *)
(* listed in turn, also after one of them could not be. Given arguments,   *)
(* the program begins with a list of them instead of a directory.          *)
(*                                                                         *)
(* Entries may be removed between any two calls, and directories may be    *)
(* closed to the reader. Paths and the columns of the output are left out. *)
(***************************************************************************)
EXTENDS Integers, Sequences, FiniteSets

CONSTANTS
    Entries, Dirs,  \* the entries of the tree, and which are directories
    Root,           \* the working directory, not an entry
    Contents,       \* the entries of each directory
    ArgLists        \* the arguments there may be: sequences of entries

VARIABLES
    args,
    exists,   \* the entries in the tree
    closed,   \* directories that cannot be opened
    pc,       \* "fill", "list" or "done"
    stack,    \* frames of list_dir() and list_items(), or list_args()
    lines,    \* the entries printed
    status,   \* what main() returns
    always    \* history: the entries that were there all the time

vars == <<args, exists, closed, pc, stack, lines, status, always>>

Top == stack[Len(stack)]

\* A frame has the entries still to be read, in some order or that of the
\* arguments, the list of items, and the value of had_errors.
Frame(todo) == [todo |-> todo, items |-> <<>>, had_errors |-> 0]
Orders(set) == {s \in [1 .. Cardinality(set) -> set] :
                   \A i, j \in DOMAIN s : s[i] = s[j] => i = j}

\* The innermost function returns r to the one that called it.
Return(r) ==
    IF Len(stack) = 1
      THEN /\ stack' = <<>> /\ status' = r /\ pc' = "done"
      ELSE /\ stack' = [SubSeq(stack, 1, Len(stack) - 1) EXCEPT
                           ![Len(stack) - 1].had_errors = IF r < 0 THEN -1
                                                                   ELSE @]
           /\ pc' = "list" /\ UNCHANGED status

\* readdir_r() and fill_one_item(): a failing fstatat() ends the function,
\* and what it has read of the directory is not printed.
FillItem ==
    /\ pc = "fill" /\ Top.todo # <<>>
    /\ LET e == Head(Top.todo) IN
       IF e \in exists
         THEN /\ stack' = [stack EXCEPT
                             ![Len(stack)].todo = Tail(@),
                             ![Len(stack)].items = Append(@, e)]
              /\ UNCHANGED <<pc, status>>
         ELSE Return(-1)
    /\ UNCHANGED <<args, exists, closed, lines, always>>

\* readdir_r() does not return an entry that was removed meanwhile.
Overlook ==
    /\ pc = "fill" /\ Top.todo # <<>> /\ Head(Top.todo) \notin exists
    /\ Len(stack) = 1 => args = <<>>
    /\ stack' = [stack EXCEPT ![Len(stack)].todo = Tail(@)]
    /\ UNCHANGED <<args, exists, closed, pc, lines, status, always>>

print_items ==
    /\ pc = "fill" /\ Top.todo = <<>>
    /\ lines' = lines \o Top.items
    /\ pc' = "list"
    /\ UNCHANGED <<args, exists, closed, stack, status, always>>

\* list_items(): the next item is no directory ...
NoDir ==
    /\ pc = "list" /\ Top.items # <<>> /\ Head(Top.items) \notin Dirs
    /\ stack' = [stack EXCEPT ![Len(stack)].items = Tail(@)]
    /\ UNCHANGED <<args, exists, closed, pc, lines, status, always>>

Openable(d) == d \in exists \ closed

\* ... or one that can be opened ...
OpenDir ==
    /\ pc = "list" /\ Top.items # <<>>
    /\ LET d == Head(Top.items) IN
       /\ d \in Dirs /\ Openable(d)
       /\ \E todo \in Orders(Contents[d] \cap exists) :
             stack' = Append([stack EXCEPT ![Len(stack)].items = Tail(@)],
                             Frame(todo))
    /\ pc' = "fill"
    /\ UNCHANGED <<args, exists, closed, lines, status, always>>

\* ... or not.
OpenFails ==
    /\ pc = "list" /\ Top.items # <<>>
    /\ Head(Top.items) \in Dirs /\ ~ Openable(Head(Top.items))
    /\ stack' = [stack EXCEPT ![Len(stack)].items = Tail(@),
                              ![Len(stack)].had_errors = -1]
    /\ UNCHANGED <<args, exists, closed, pc, lines, status, always>>

EndOfItems ==
    /\ pc = "list" /\ Top.items = <<>>
    /\ Return(Top.had_errors)
    /\ UNCHANGED <<args, exists, closed, lines, always>>

\* unlink() or rmdir() by somebody else
Remove(e) ==
    /\ pc # "done" /\ e \in exists
    /\ e \in Dirs => Contents[e] \cap exists = {}
    /\ exists' = exists \ {e} /\ always' = always \ {e}
    /\ UNCHANGED <<args, closed, pc, stack, lines, status>>

Init ==
    /\ args \in ArgLists
    /\ exists = Entries /\ always = Entries
    /\ closed \in SUBSET (Dirs \ {Root})
    /\ pc = "fill" /\ lines = <<>> /\ status = 0
    /\ \E todo \in IF args = <<>> THEN Orders(Contents[Root]) ELSE {args} :
          stack = <<Frame(todo)>>

Next ==
    \/ FillItem \/ Overlook \/ print_items \/ NoDir \/ OpenDir \/ OpenFails
    \/ EndOfItems \/ \E e \in Entries : Remove(e)

Spec == Init /\ [][Next]_vars

-----------------------------------------------------------------------------
Times(e) == Cardinality({i \in DOMAIN lines : lines[i] = e})

\* What the listing has to show: the arguments or the contents of the working
\* directory, and the contents of every directory shown, and no more.
Named == IF args = <<>> THEN Contents[Root] ELSE {args[i] : i \in DOMAIN args}
Wanted == {e \in Entries : \A W \in SUBSET Entries :
              Named \subseteq W /\ (\A d \in W \cap Dirs : Contents[d] \subseteq W)
                  => e \in W}

\* No entry is printed twice; and one that was there all the time is only
\* missing if the program says that something went wrong.
ListedOnce ==
    /\ \A e \in Entries : Times(e) <= 1
    /\ pc = "done" /\ status = 0 => \A e \in Wanted \cap always : Times(e) = 1
=============================================================================

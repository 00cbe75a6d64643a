------------------------------- MODULE Backup -------------------------------
(***************************************************************************)
(* course2-1/__canonical/backup.c: an incremental backup of a tree. A      *)
(* regular file is copied and compressed if it has no archive, or one with *)
(* an earlier time of modification. gzip gives an archive the time of the  *)
(* copy it was made of, and removes the copy.                              *)
(*                                                                         *)
(* The user writes, creates, removes and replaces files at any time; the   *)
(* backup, and gzip, may be killed between two steps, and the backup       *)
(* started again. A file has one chunk, of which only the version matters; *)
(* every write has a time of its own, which the file has from then on.     *)
(* Directories are there from the start.                                   *)
(***************************************************************************)
EXTENDS Integers, Sequences, FiniteSets

CONSTANTS
    Files, Others,  \* entries: regular files, and what is neither that
    Dirs, Root,     \* nor a directory
    Contents,       \* the entries a directory may have
    MaxRuns,        \* bound: runs of the backup
    MaxWrites,      \* bound: changes the user makes
    MaxFaults       \* bound: kills, and failing calls

NoFile == [ver |-> -1, mtime |-> -1]
Partial == 0            \* the version in an unfinished archive
Nothing == "nothing"

VARIABLES
    exists,       \* the entries in the tree
    in,           \* each file: its version and its time of modification
    copy, arch,   \* the copy and the archive of each file
    made,         \* directories of the output
    clock,
    pc, stack,    \* of the backup: frames of backup_dir()
    cur,          \* the entry the innermost frame is at
    seen,         \* in_st.st_mtim
    unlinked,     \* the version in_fd shows if its file has lost its name, or 0
    buffer,       \* cat_fd(): what was read
    gzips,        \* files that a gzip is working at
    exit,         \* how the last run ended
    base,         \* history: versions when it began, -1 for no file
    spoilt,       \* history: files whose archive looks newer than it is
    runs, writes, faults

user == <<exists, in, writes>>
tree == <<exists, in, copy, arch, clock, gzips, base, spoilt>>
bounds == <<runs, writes, faults>>
vars == <<exists, in, copy, arch, made, clock, pc, stack, cur, seen, unlinked,
          buffer, gzips, exit, base, spoilt, runs, writes, faults>>

timespec_less(a, b) == a < b

Top == stack[Len(stack)]
Frame(d) == [dir |-> d, todo |-> Contents[d] \cap exists, errors |-> 0]
\* The innermost frame goes on with its next entry, with n more errors.
GoOn(n) ==
    /\ pc' = "loop" /\ cur' = Nothing
    /\ stack' = [stack EXCEPT ![Len(stack)].errors = @ + n]

Exit(how) ==
    /\ pc' = "off" /\ stack' = <<>> /\ exit' = how
    /\ cur' = Nothing /\ seen' = 0 /\ unlinked' = 0 /\ buffer' = 0

Fault == faults < MaxFaults /\ faults' = faults + 1

-----------------------------------------------------------------------------
Start ==
    /\ pc = "off" /\ runs < MaxRuns
    /\ runs' = runs + 1 /\ exit' = "running"
    /\ base' = [f \in Files |-> IF f \in exists THEN in[f].ver ELSE -1]
    /\ pc' = "loop" /\ stack' = <<Frame(Root)>>
    /\ made' = made \cup {Root}
    /\ spoilt' = {f \in spoilt : \/ f \in gzips
                                \/ ~ timespec_less(arch[f].mtime, in[f].mtime)}
    /\ UNCHANGED <<user, copy, arch, clock, cur, seen, unlinked, buffer, gzips, faults>>

\* readdir_r(); an entry that was removed meanwhile may still be returned.
ReadDir ==
    /\ pc = "loop"
    /\ \E e \in Top.todo :
          /\ cur' = e
          /\ stack' = [stack EXCEPT ![Len(stack)].todo = @ \ {e}]
    /\ pc' = "stat"
    /\ UNCHANGED <<tree, made, seen, unlinked, buffer, exit, bounds>>

\* backup_dir() returns: to the frame of the parent, or to main().
EndOfDir ==
    /\ pc = "loop" /\ Top.todo \cap exists = {}
    /\ IF Len(stack) = 1
         THEN Exit(IF Top.errors = 0 THEN "ok" ELSE "failed")
         ELSE /\ stack' = [SubSeq(stack, 1, Len(stack) - 1) EXCEPT
                              ![Len(stack) - 1].errors =
                                  IF Top.errors = 0 THEN @ ELSE @ + 1]
              /\ UNCHANGED <<pc, cur, seen, unlinked, buffer, exit>>
    /\ UNCHANGED <<tree, made, bounds>>

\* fstatat() fails, and that is fatal.
Vanished ==
    /\ pc = "stat" /\ cur \notin exists
    /\ Exit("failed") /\ UNCHANGED <<tree, made, bounds>>

EnterDir ==
    /\ pc = "stat" /\ cur \in Dirs
    /\ stack' = Append(stack, Frame(cur))
    /\ made' = made \cup {cur}
    /\ pc' = "loop" /\ cur' = Nothing
    /\ UNCHANGED <<tree, seen, unlinked, buffer, exit, bounds>>

StatFile ==
    /\ pc = "stat" /\ cur \in Files \cap exists
    /\ seen' = in[cur].mtime /\ pc' = "compare"
    /\ UNCHANGED <<tree, made, stack, cur, unlinked, buffer, exit,
                   bounds>>

\* "Don't know how to handle"
StatOther ==
    /\ pc = "stat" /\ cur \in Others \cap exists
    /\ GoOn(1)
    /\ UNCHANGED <<tree, made, seen, unlinked, buffer, exit, bounds>>

\* Mutant of Compare: any archive is good enough.
CompareExistence ==
    /\ pc = "compare"
    /\ IF arch[cur] = NoFile
         THEN pc' = "open" /\ UNCHANGED <<stack, cur>>
         ELSE GoOn(0)
    /\ UNCHANGED <<tree, made, seen, unlinked, buffer, exit, bounds>>

Compare ==
    /\ pc = "compare"
    /\ IF arch[cur] = NoFile \/ timespec_less(arch[cur].mtime, seen)
         THEN pc' = "open" /\ UNCHANGED <<stack, cur>>
         ELSE GoOn(0)
    /\ UNCHANGED <<tree, made, seen, unlinked, buffer, exit, bounds>>

\* The input is gone, or a copy is there that nobody finished: fatal.
OpenFails ==
    /\ pc = "open" /\ (cur \notin exists \/ copy[cur] # NoFile)
    /\ Exit("failed") /\ UNCHANGED <<tree, made, bounds>>

OpenCopy ==
    /\ pc = "open" /\ cur \in exists /\ copy[cur] = NoFile
    /\ clock' = clock + 1
    /\ copy' = [copy EXCEPT ![cur] = [ver |-> Partial, mtime |-> clock']]
    /\ pc' = "read"
    /\ UNCHANGED <<user, arch, made, stack, cur, seen, unlinked, buffer, gzips, exit,
                   base, spoilt, runs, faults>>

\* From the descriptor: the file may have lost its name since openat().
Read ==
    /\ pc = "read" /\ pc' = "write"
    /\ buffer' = IF unlinked = 0 THEN in[cur].ver ELSE unlinked
    /\ unlinked' = 0
    /\ UNCHANGED <<tree, made, stack, cur, seen, exit, bounds>>

\* If the file is another one by now the copy, and so the archive, will have a
\* later time all the same.
Write ==
    /\ pc = "write" /\ pc' = "fork" /\ clock' = clock + 1
    /\ copy' = [copy EXCEPT ![cur] = [ver |-> buffer, mtime |-> clock']]
    /\ buffer' = 0
    /\ spoilt' = IF buffer = in[cur].ver THEN spoilt ELSE spoilt \cup {cur}
    /\ UNCHANGED <<user, arch, made, stack, cur, seen, unlinked, gzips, exit,
                   base, runs, faults>>

\* write() takes less than it was given, as on a full disk: only a negative
\* result is an error, and the copy goes to gzip as it is.
ShortWrite ==
    /\ pc = "write" /\ pc' = "fork" /\ clock' = clock + 1 /\ Fault
    /\ copy' = [copy EXCEPT ![cur] = [ver |-> Partial, mtime |-> clock']]
    /\ buffer' = 0 /\ spoilt' = spoilt \cup {cur}
    /\ UNCHANGED <<user, arch, made, stack, cur, seen, unlinked, gzips, exit,
                   base, runs>>

\* read() or write() fails: an error, and the copy stays.
CopyFails ==
    /\ pc \in {"read", "write"} /\ Fault
    /\ GoOn(1) /\ unlinked' = 0 /\ buffer' = 0
    /\ UNCHANGED <<tree, made, seen, exit, runs, writes>>

\* fork() and execvp(): gzip replaces the archive.
ForkGzip ==
    /\ pc = "fork" /\ pc' = "gzip" /\ clock' = clock + 1
    /\ gzips' = gzips \cup {cur}
    /\ arch' = [arch EXCEPT ![cur] = [ver |-> Partial, mtime |-> clock']]
    /\ UNCHANGED <<user, copy, made, stack, cur, seen, unlinked, buffer, exit, base,
                   spoilt, runs, faults>>

ForkFails ==
    /\ pc = "fork" /\ Fault /\ Exit("failed")
    /\ UNCHANGED <<tree, made, runs, writes>>

\* The child cannot change its directory, or execute gzip.
ExecFails ==
    /\ pc = "fork" /\ Fault /\ GoOn(1)
    /\ UNCHANGED <<tree, made, seen, unlinked, buffer, exit, runs, writes>>

\* waitpid(): gzip has removed the copy if it succeeded.
GzipEnded ==
    /\ pc = "gzip" /\ cur \notin gzips
    /\ GoOn(IF copy[cur] = NoFile THEN 0 ELSE 1)
    /\ UNCHANGED <<tree, made, seen, unlinked, buffer, exit, bounds>>

GzipDone(f) ==
    /\ f \in gzips /\ gzips' = gzips \ {f}
    /\ arch' = [arch EXCEPT ![f] = copy[f]]
    /\ copy' = [copy EXCEPT ![f] = NoFile]
    /\ UNCHANGED <<user, made, clock, pc, stack, cur, seen, unlinked, buffer, exit,
                   base, spoilt, runs, faults>>

\* gzip fails, and removes its output; or is killed, and does not.
GzipFails(f) ==
    /\ f \in gzips /\ Fault /\ gzips' = gzips \ {f}
    /\ \/ arch' = [arch EXCEPT ![f] = NoFile] /\ UNCHANGED spoilt
       \/ spoilt' = spoilt \cup {f} /\ UNCHANGED arch
    /\ UNCHANGED <<user, copy, made, clock, pc, stack, cur, seen, unlinked, buffer,
                   exit, base, runs>>

\* The backup is killed; a gzip it waits for goes on.
Kill ==
    /\ pc # "off" /\ Fault /\ Exit("killed")
    /\ spoilt' = spoilt \cup gzips
    /\ UNCHANGED <<user, copy, arch, made, clock, gzips, base, runs>>

BackupStep ==
    \/ ReadDir \/ EndOfDir \/ Vanished \/ EnterDir \/ StatFile \/ StatOther
    \/ Compare \/ OpenFails \/ OpenCopy \/ Read \/ Write \/ ForkGzip
    \/ GzipEnded

-----------------------------------------------------------------------------
UserWrites == writes < MaxWrites /\ writes' = writes + 1

\* A file is written, or created.
Modify(f) ==
    /\ UserWrites /\ clock' = clock + 1
    /\ exists' = exists \cup {f}
    /\ in' = [in EXCEPT ![f] = [ver |-> @.ver + 1, mtime |-> clock']]
    /\ UNCHANGED <<copy, arch, made, pc, stack, cur, seen, unlinked, buffer,
                   gzips, exit, base, spoilt, runs, faults>>

\* The name of e goes; who has the file open keeps what it held.
Unlink(e) == unlinked' =
    IF pc = "read" /\ cur = e /\ unlinked = 0 THEN in[e].ver ELSE unlinked

Remove(e) ==
    /\ UserWrites /\ e \in exists \ Dirs /\ Unlink(e)
    /\ exists' = exists \ {e}
    /\ base' = [f \in Files |-> IF f = e THEN -1 ELSE base[f]]
    /\ UNCHANGED <<in, copy, arch, made, clock, pc, stack, cur, seen, buffer,
                   gzips, exit, spoilt, runs, faults>>

\* Another file, just written, is renamed to f.
Replace(f) ==
    /\ UserWrites /\ f \in exists /\ Unlink(f) /\ clock' = clock + 1
    /\ in' = [in EXCEPT ![f] = [ver |-> @.ver + 1, mtime |-> clock']]
    /\ UNCHANGED <<exists, copy, arch, made, pc, stack, cur, seen, buffer,
                   gzips, exit, base, spoilt, runs, faults>>

Init ==
    /\ exists \in {e \in SUBSET (Files \cup Others \cup Dirs) : Dirs \subseteq e}
    /\ in = [f \in Files |-> [ver |-> 1, mtime |-> 0]]
    /\ copy = [f \in Files |-> NoFile] /\ arch = [f \in Files |-> NoFile]
    /\ made = {} /\ clock = 0
    /\ pc = "off" /\ stack = <<>> /\ cur = Nothing /\ seen = 0 /\ unlinked = 0
    /\ buffer = 0
    /\ gzips = {} /\ exit = "none" /\ base = [f \in Files |-> -1]
    /\ spoilt = {} /\ runs = 0 /\ writes = 0 /\ faults = 0

Next ==
    \/ Start \/ BackupStep \/ ShortWrite \/ CopyFails \/ ForkFails \/ ExecFails
    \/ Kill
    \/ \E f \in Files : GzipDone(f) \/ GzipFails(f) \/ Modify(f) \/ Replace(f)
    \/ \E e \in Files \cup Others : Remove(e)

Spec == Init /\ [][Next]_vars

-----------------------------------------------------------------------------
\* After a run that reports success a file that was there all the time has a
\* whole archive at least as new as it was when the run began, however the
\* runs before it ended. Five things go unnoticed, because all that is looked
\* at later is the time of the archive, and such files are left out until they
\* are written again: the file was written, or replaced, while it was copied; a
\* short write() cut the copy off; gzip was killed and left its output; the
\* backup was killed and left gzip at work.
SuccessIsCurrent == exit = "ok" =>
    \A f \in Files \ spoilt : arch[f].ver >= base[f]
=============================================================================

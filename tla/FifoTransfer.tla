---------------------------- MODULE FifoTransfer ----------------------------
(***************************************************************************)
(* course2-1/seminar4: a writer (read.c) makes a named pipe of its own and *)
(* hands its pid, through a control pipe that everybody shares, to a       *)
(* reader (print.c), which opens the writer's pipe and copies it to its    *)
(* stdout. open() of the control pipe is the rendezvous: it waits for the  *)
(* other side. After that nobody waits for the reader but the writer's     *)
(* first write(), which is repeated for a while when the pipe has none.    *)
(*                                                                         *)
(* Any number of both programs runs in one directory; a process may be     *)
(* killed between two steps. The pipes are the kernel's: a pipe keeps its  *)
(* data while anybody has it open, a write() to a pipe nobody reads fails. *)
(***************************************************************************)
EXTENDS Integers, Sequences, FiniteSets

CONSTANTS
    Writers, Readers,
    FileLens,   \* the lengths a writer's file may have, in chunks
    Retries,    \* bound: repeated first write()s of a writer (10 in read.c)
    MaxKills    \* bound: processes killed

Processes == Writers \cup Readers
Nobody == "nobody"

VARIABLES
    len,     \* the length of each writer's file
    pc,
    status,  \* how each process ended
    woken,   \* processes waiting in open() that have seen the other side
    ctl,     \* the pids in the control pipe
    got,     \* the pid each reader got
    fifos,   \* the writers whose named pipe is in the directory
    data,    \* the chunks in each writer's pipe
    pos,     \* chunks each writer has read from its file
    tries,   \* write()s that may still be repeated
    out,     \* what each reader wrote to its stdout
    opened,  \* history: the readers that opened each writer's pipe
    kills

vars == <<len, pc, status, woken, ctl, got, fifos, data, pos, tries, out,
          opened, kills>>

\* Who has the control pipe open; open() counts from its beginning.
CtlHolders == {p \in Processes :
    pc[p] \in {"opening", "fifo", "pid", "read", "write", "unlinked",
              "readPid", "pipe", "cat"}}
CtlWriters == CtlHolders \cap Writers
CtlReaders == CtlHolders \cap Readers

\* Who reads w's pipe, and who has it open at all.
FifoReaders(w) == {r \in Readers : pc[r] = "cat" /\ got[r] = w}
FifoWriter(w) == pc[w] \in {"pid", "read", "write", "unlinked"}

\* The pipes after p closed everything: what nobody holds is forgotten.
Closed(p) ==
    /\ ctl' = IF CtlHolders \subseteq {p} THEN <<>> ELSE ctl
    /\ data' = [w \in Writers |->
                  IF (FifoWriter(w) /\ w # p) \/ FifoReaders(w) \ {p} # {}
                    THEN data[w] ELSE <<>>]

Goto(p, from, to) == pc[p] = from /\ pc' = [pc EXCEPT ![p] = to]

\* return of main(): the descriptors are closed.
Exit(p, from, result) ==
    /\ Goto(p, from, "done")
    /\ status' = [status EXCEPT ![p] = result]
    /\ Closed(p)

\* open() of the control pipe lets the other side in, and waits for it.
Arrive(p, others) ==
    /\ Goto(p, "start", "opening")
    /\ woken' = woken \cup {q \in others : pc[q] = "opening"}
                      \cup (IF CtlHolders \cap others # {} THEN {p} ELSE {})
    /\ UNCHANGED <<len, status, ctl, got, data, pos, tries, out, opened,
                   kills>>

Meet(p, to) ==
    /\ p \in woken
    /\ Goto(p, "opening", to)
    /\ UNCHANGED <<len, status, woken, ctl, got, fifos, data, pos, tries,
                   out, opened, kills>>

-----------------------------------------------------------------------------
(* read.c, the writer *)

\* mkfifo() of both pipes, and open() of the control pipe.
WriterArrives(w) == fifos' = fifos \cup {w} /\ Arrive(w, Readers)

\* open_wronly_no_wait(): the reading end is open for the time of the call.
OpenFifo(w) ==
    /\ Goto(w, "fifo", "pid")
    /\ UNCHANGED <<len, status, woken, ctl, got, fifos, data, pos, tries,
                   out, opened, kills>>

\* The pid is written; SIGPIPE is only ignored afterwards.
SendPid(w) ==
    /\ CtlReaders # {}
    /\ Goto(w, "pid", "read")
    /\ ctl' = Append(ctl, w)
    /\ UNCHANGED <<len, status, woken, got, fifos, data, pos, tries, out,
                   opened, kills>>

PidBreaksPipe(w) ==
    /\ CtlReaders = {}
    /\ Exit(w, "pid", "SIGPIPE")
    /\ UNCHANGED <<len, woken, got, fifos, pos, tries, out, opened, kills>>

\* read() of the next chunk, or the end of the file: 0 in either case of
\* RESULT_READ_NIL.
ReadFile(w) ==
    /\ IF pos[w] < len[w]
         THEN /\ Goto(w, "read", "write")
              /\ pos' = [pos EXCEPT ![w] = @ + 1]
              /\ UNCHANGED <<fifos, status, ctl, data>>
         ELSE /\ Goto(w, "read", "unlinked")
              /\ fifos' = fifos \ {w}
              /\ status' = [status EXCEPT ![w] = "ok"]
              /\ UNCHANGED <<pos, ctl, data>>
    /\ UNCHANGED <<len, woken, got, tries, out, opened, kills>>

Readable(w) == FifoReaders(w) # {}

\* write() waits while the pipe is full. Only the first one is repeated.
WriteChunk(w) ==
    /\ Readable(w) /\ data[w] = <<>>
    /\ Goto(w, "write", "read")
    /\ data' = [data EXCEPT ![w] = <<[from |-> w, nr |-> pos[w]]>>]
    /\ tries' = [tries EXCEPT ![w] = 0]
    /\ UNCHANGED <<len, status, woken, ctl, got, fifos, pos, out, opened,
                   kills>>

\* EPIPE: slept for a second, then once more.
RetryWrite(w) ==
    /\ ~ Readable(w) /\ pc[w] = "write" /\ tries[w] > 0
    /\ tries' = [tries EXCEPT ![w] = @ - 1]
    /\ UNCHANGED <<len, pc, status, woken, ctl, got, fifos, data, pos, out,
                   opened, kills>>

\* EPIPE too often, or after the first chunk: RESULT_WRITE_ERR.
WriteFails(w) ==
    /\ ~ Readable(w) /\ tries[w] = 0
    /\ Goto(w, "write", "unlinked")
    /\ fifos' = fifos \ {w}
    /\ status' = [status EXCEPT ![w] = "failed"]
    /\ UNCHANGED <<len, woken, ctl, got, data, pos, tries, out, opened,
                   kills>>

CloseAll(w) ==
    /\ Exit(w, "unlinked", status[w])
    /\ UNCHANGED <<len, woken, got, fifos, pos, tries, out, opened, kills>>

-----------------------------------------------------------------------------
(* print.c, the reader *)

ReaderArrives(r) == UNCHANGED fifos /\ Arrive(r, Writers)

\* read() of one pid from the control pipe.
ReadPid(r) ==
    /\ ctl # <<>>
    /\ Goto(r, "readPid", "pipe")
    /\ got' = [got EXCEPT ![r] = Head(ctl)]
    /\ ctl' = Tail(ctl)
    /\ UNCHANGED <<len, status, woken, fifos, data, pos, tries, out, opened,
                   kills>>

\* Nobody is left to write one: somebody else got the pid.
NoPid(r) ==
    /\ ctl = <<>> /\ CtlWriters = {}
    /\ Exit(r, "readPid", "failed")
    /\ UNCHANGED <<len, woken, got, fifos, pos, tries, out, opened, kills>>

\* open_rdonly_no_wait() of the writer's pipe
OpenPipe(r) ==
    /\ got[r] \in fifos
    /\ Goto(r, "pipe", "cat")
    /\ opened' = [opened EXCEPT ![got[r]] = @ \cup {r}]
    /\ UNCHANGED <<len, status, woken, ctl, got, fifos, data, pos, tries,
                   out, kills>>

\* The writer gave up, or had nothing to write, and removed its pipe.
PipeIsGone(r) ==
    /\ pc[r] = "pipe" /\ got[r] \notin fifos
    /\ Exit(r, "pipe", "failed")
    /\ UNCHANGED <<len, woken, got, fifos, pos, tries, out, opened, kills>>

\* Mutant of Copy: a write() to stdout that fails goes unnoticed.
CopyUnnoticed(r) ==
    /\ pc[r] = "cat" /\ data[got[r]] # <<>>
    /\ \/ out' = [out EXCEPT ![r] = @ \o data[got[r]]]
       \/ UNCHANGED out
    /\ data' = [data EXCEPT ![got[r]] = <<>>]
    /\ UNCHANGED <<len, pc, status, woken, ctl, got, fifos, pos, tries,
                   opened, kills>>

\* cat_fd(): what is in the pipe is written to stdout ...
Copy(r) ==
    /\ pc[r] = "cat" /\ data[got[r]] # <<>>
    /\ out' = [out EXCEPT ![r] = @ \o data[got[r]]]
    /\ data' = [data EXCEPT ![got[r]] = <<>>]
    /\ UNCHANGED <<len, pc, status, woken, ctl, got, fifos, pos, tries,
                   opened, kills>>

\* ... until nobody is left to write; also at once, RESULT_READ_NIL.
PipeEnds(r) ==
    /\ pc[r] = "cat" /\ data[got[r]] = <<>> /\ ~ FifoWriter(got[r])
    /\ Exit(r, "cat", "ok")
    /\ UNCHANGED <<len, woken, got, fifos, pos, tries, out, opened, kills>>

-----------------------------------------------------------------------------
\* A signal nobody handles: the pipes are closed, the names stay.
Kill(p) ==
    /\ kills < MaxKills /\ kills' = kills + 1
    /\ pc[p] \notin {"start", "done"}
    /\ Exit(p, pc[p], "killed")
    /\ UNCHANGED <<len, woken, got, fifos, pos, tries, out, opened>>

Init ==
    /\ len \in [Writers -> FileLens]
    /\ pc = [p \in Processes |-> "start"]
    /\ status = [p \in Processes |-> "running"]
    /\ woken = {} /\ ctl = <<>>
    /\ got = [r \in Readers |-> Nobody]
    /\ fifos = {}
    /\ data = [w \in Writers |-> <<>>]
    /\ pos = [w \in Writers |-> 0]
    /\ tries = [w \in Writers |-> Retries]
    /\ out = [r \in Readers |-> <<>>]
    /\ opened = [w \in Writers |-> {}]
    /\ kills = 0

\* What a process does once it was started.
WriterStep(w) ==
    \/ Meet(w, "fifo") \/ OpenFifo(w) \/ SendPid(w) \/ PidBreaksPipe(w)
    \/ ReadFile(w) \/ WriteChunk(w) \/ RetryWrite(w) \/ WriteFails(w)
    \/ CloseAll(w)

ReaderStep(r) ==
    \/ Meet(r, "readPid") \/ ReadPid(r) \/ NoPid(r) \/ OpenPipe(r)
    \/ PipeIsGone(r) \/ Copy(r) \/ PipeEnds(r)

Next ==
    \/ \E w \in Writers : WriterArrives(w) \/ WriterStep(w)
    \/ \E r \in Readers : ReaderArrives(r) \/ ReaderStep(r)
    \/ \E p \in Processes : Kill(p)

-----------------------------------------------------------------------------
TypeOK ==
    /\ len \in [Writers -> FileLens]
    /\ pc \in [Processes -> {"start", "opening", "fifo", "pid", "read",
                             "write", "unlinked", "readPid", "pipe", "cat",
                             "done"}]
    /\ status \in [Processes -> {"running", "ok", "failed", "SIGPIPE",
                                 "killed"}]
    /\ woken \subseteq Processes
    /\ ctl \in Seq(Writers)
    /\ got \in [Readers -> Writers \cup {Nobody}]
    /\ fifos \subseteq Writers
    /\ data \in [Writers -> Seq([from : Writers, nr : Nat])]
    /\ pos \in [Writers -> Nat] /\ \A w \in Writers : pos[w] <= len[w]
    /\ tries \in [Writers -> 0 .. Retries]
    /\ out \in [Readers -> Seq([from : Writers, nr : Nat])]
    /\ opened \in [Writers -> SUBSET Readers]
    /\ kills \in 0 .. MaxKills

\* The file of w, and what of it a reader can have written.
File(w) == [i \in 1 .. len[w] |-> [from |-> w, nr |-> i]]

\* However many readers wait for a writer, what one writes is a prefix of the
\* one file whose pid it got: pids go to one reader each, so that no pipe is
\* shared, and what a dead reader left behind is not seen by another.
OutputIsPrefix == TypeOK /\ \A r \in Readers :
    IF got[r] = Nobody
      THEN out[r] = <<>>
      ELSE \E n \in 0 .. len[got[r]] : out[r] = SubSeq(File(got[r]), 1, n)

\* When the writer and the reader that met both report success, the whole
\* file was copied, although an end of the pipe is all that the reader sees.
SuccessIsDelivery == \A w \in Writers, r \in Readers :
    got[r] = w /\ status[w] = "ok" /\ status[r] = "ok" => out[r] = File(w)

\* A writer that had something to write and reports success had a reader:
\* the transient reading end it opened itself does not count, and the
\* repeated write()s end in a failure.
SuccessHadReader == \A w \in Writers :
    status[w] = "ok" /\ len[w] > 0 => opened[w] # {}

\* Whoever took part in a rendezvous has ended: no reader waits for a pid and
\* no writer for a reader, whoever died.
AllEnded == \A p \in woken : pc[p] = "done"
=============================================================================

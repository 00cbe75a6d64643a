------------------------------ MODULE EventLoop ------------------------------
(***************************************************************************)
(* course2-1/seminar8/task.c: a file is passed through a chain of          *)
(* children, each of which copies its stdin to its stdout. The parent owns *)
(* a buffer before each child and one after the last, and an epoll loop    *)
(* moves the data: out of buffer i into the pipe to child i, from there to *)
(* the pipe back, and into buffer i + 1.                                   *)
(*                                                                         *)
(* epoll_wait(), each write(), each read() and the closing after one buffer *)
(* event are steps of their own: the flags a turn of the loop works with   *)
(* are those of its epoll_wait(), while the children go on.                *)
(*                                                                         *)
(* Sizes: one element stands for a piece of the file, and a pipe that is   *)
(* not full has room for one.                                              *)
(***************************************************************************)
EXTENDS Integers, Sequences, FiniteSets

CONSTANTS
    ChildNr,        \* child_nr
    FileLen,        \* pieces in the input file
    PipeSize,       \* what a pipe holds
    BufSize,        \* buf_size of the parent's buffers
    ChildBufSize,   \* buf_size of the children
    MaxKills        \* bound: children killed from outside

\* The array of buffer events has child_nr entries, and a turn may need three:
\* with fewer children it is overrun, and nothing is known of what follows.
ASSUME LoopAssumption ==
    /\ ChildNr \in Nat /\ ChildNr >= 3
    /\ FileLen \in Nat /\ MaxKills \in Nat
    /\ {PipeSize, BufSize, ChildBufSize} \subseteq Nat \ {0}

Children == 0 .. ChildNr - 1
Buffers  == 0 .. ChildNr
File     == [i \in 1 .. FileLen |-> i]

VARIABLES
    unread,             \* what is left of in_fd
    buf,                \* contents of each buffer, from begin to end
    rdOpen, wrOpen,     \* rd_fd and wr_fd of each buffer
    toChild, fromChild, \* contents of the pipes
    child, held,        \* each child, and what it read and has not written
    output,             \* what was written to stdout
    parent,             \* the place in its loop, "waiting" for the children,
                        \* or how it ended
    bes, at,            \* the buffer events of this turn, and the one in hand
    handler,            \* SIGCHLD still has its handler (SA_RESETHAND)
    killed              \* the children killed from outside

vars == <<unread, buf, rdOpen, wrOpen, toChild, fromChild, child, held, output,
          parent, bes, at, handler, killed>>
fds    == <<rdOpen, wrOpen>>
data   == <<unread, buf, toChild, fromChild, held, output>>
others == <<child, handler, killed>>

Min2(a, b)  == IF a < b THEN a ELSE b
Take(s, n)  == SubSeq(s, 1, Min2(n, Len(s)))
Leave(s, n) == SubSeq(s, Min2(n, Len(s)) + 1, Len(s))

Running == parent \in {"wait", "write", "read", "close", "waiting"}

-----------------------------------------------------------------------------
(* epoll: the descriptors polled and their events *)

\* A descriptor in the epoll set: the reading side of all buffers but the
\* first, the writing side of all but the last, until they are closed.
Polled == [buf : 1 .. ChildNr, side : {"rd"}] \cup [buf : Children, side : {"wr"}]

Flags(e) ==
    IF e.side = "rd"
      THEN {f \in {"IN", "HUP"} :
              IF f = "IN" THEN fromChild[e.buf - 1] # << >>
                          ELSE child[e.buf - 1] \in {"closed", "gone"}}
      ELSE {f \in {"OUT", "ERR"} :
              IF f = "OUT" THEN Len(toChild[e.buf]) < PipeSize
                           ELSE child[e.buf] \in {"closed", "gone"}}

Ready(e) ==
    /\ IF e.side = "rd" THEN rdOpen[e.buf] ELSE wrOpen[e.buf]
    /\ Flags(e) # {}

Event(b, s, flags) == [buf |-> b, side |-> s, flags |-> flags]

\* epoll_wait() returns one event; events for the input and the output, which
\* cannot be polled, are added. The comparator given to qsort() never returns
\* a positive number, so the merge sort of glibc leaves the order as it is.
Events(e) ==
       << Event(e.buf, e.side, Flags(e)) >>
    \o (IF rdOpen[0] THEN << Event(0, "rd", {"FAKE"}) >> ELSE << >>)
    \o (IF wrOpen[ChildNr] THEN << Event(ChildNr, "wr", {"FAKE"}) >> ELSE << >>)

\* Mutant of Merge: a hangup is not noted.
MergeUnhung(done, e) ==
    LET joins  == done # << >> /\ done[Len(done)].buf = e.buf
        before == IF joins THEN done[Len(done)] ELSE [rd |-> {}, wr |-> {}]
        merged == [buf |-> e.buf,
                   rd  |-> IF e.side = "rd" THEN e.flags \ {"HUP"} ELSE before.rd,
                   wr  |-> IF e.side = "wr" THEN e.flags ELSE before.wr]
    IN  IF joins THEN [done EXCEPT ![Len(done)] = merged] ELSE Append(done, merged)

\* Neighbours about the same buffer become one buffer event.
Merge(done, e) ==
    LET joins  == done # << >> /\ done[Len(done)].buf = e.buf
        before == IF joins THEN done[Len(done)] ELSE [rd |-> {}, wr |-> {}]
        merged == [buf |-> e.buf,
                   rd  |-> IF e.side = "rd" THEN e.flags ELSE before.rd,
                   wr  |-> IF e.side = "wr" THEN e.flags ELSE before.wr]
    IN  IF joins THEN [done EXCEPT ![Len(done)] = merged] ELSE Append(done, merged)

Coalesce(e) ==
    LET merged[n \in 0 .. Len(Events(e))] ==
            IF n = 0 THEN << >> ELSE Merge(merged[n - 1], Events(e)[n])
    IN  merged[Len(Events(e))]

-----------------------------------------------------------------------------
(* One turn of the loop *)

EpollWait(e) ==
    /\ parent = "wait"
    /\ Ready(e)
    /\ bes' = Coalesce(e)
    /\ at' = Len(bes')
    /\ parent' = "write"
    /\ UNCHANGED <<data, fds, others>>

be == bes[at]
Source(b) == IF b = 0 THEN unread ELSE fromChild[b - 1]

\* Write out the buffer of the buffer event in hand, if it may be: what the
\* pipe has room for, and all of it to the output. The death of the reader
\* since epoll_wait() is SIGPIPE.
WriteOut ==
    LET b == be.buf
        room == PipeSize - Len(toChild[b])
        may == /\ buf[b] # << >>
               /\ "FAKE" \in be.wr \/ ("OUT" \in be.wr /\ "ERR" \notin be.wr)
    IN
    /\ parent = "write"
    /\ \/ /\ ~ may
          /\ parent' = "read"
          /\ UNCHANGED <<output, toChild, buf>>
       \/ /\ may /\ b = ChildNr
          /\ output' = output \o buf[b]
          /\ buf' = [buf EXCEPT ![b] = << >>]
          /\ parent' = "read"
          /\ UNCHANGED toChild
       \/ /\ may /\ b # ChildNr /\ child[b] \in {"read", "write"}
          /\ toChild' = [toChild EXCEPT ![b] = @ \o Take(buf[b], room)]
          /\ buf' = [buf EXCEPT ![b] = Leave(@, room)]
          /\ parent' = "read"
          /\ UNCHANGED output
       \/ /\ may /\ b # ChildNr /\ child[b] \notin {"read", "write"}
          /\ parent' = "sigpipe"
          /\ UNCHANGED <<output, toChild, buf>>
    /\ UNCHANGED <<unread, fromChild, held, fds, bes, at, others>>

\* Mutant of MayRead: a buffer that still holds data is read into.
ReadOver ==
    "FAKE" \in be.rd \/ ("IN" \in be.rd /\ "ERR" \notin be.rd)

MayRead ==
    /\ buf[be.buf] = << >>
    /\ "FAKE" \in be.rd \/ ("IN" \in be.rd /\ "ERR" \notin be.rd)

\* Errors are looked at when both have been tried; then it is the turn of the
\* next buffer event towards the head, or of the closing.
AfterData ==
    IF "ERR" \in be.rd \cup be.wr
      THEN parent' = "failed" /\ UNCHANGED at
    ELSE IF at > 1
      THEN parent' = "write" /\ at' = at - 1
      ELSE parent' = "close" /\ at' = 1

\* Read into the buffer of the buffer event in hand, if it is empty; nothing
\* read is the end of the input, and noted as a hangup.
ReadIn ==
    LET b == be.buf IN
    /\ parent = "read"
    /\ \/ ~ MayRead /\ UNCHANGED <<unread, fromChild, buf, bes>>
       \/ /\ MayRead
          /\ buf' = [buf EXCEPT ![b] = Take(Source(b), BufSize)]
          /\ IF b = 0
               THEN unread' = Leave(unread, BufSize) /\ UNCHANGED fromChild
               ELSE /\ fromChild' = [fromChild EXCEPT ![b - 1] = Leave(@, BufSize)]
                    /\ UNCHANGED unread
          /\ bes' = IF Source(b) # << >> THEN bes
                    ELSE [bes EXCEPT ![at].rd = (@ \ {"IN"}) \cup {"HUP"}]
    /\ AfterData
    /\ UNCHANGED <<toChild, held, output, fds, others>>

\* Mutant of ClosesInput: a hangup closes the input with data still to come.
CloseOnHangup == "HUP" \in be.rd

\* The input is closed after a hangup without data.
ClosesInput == "IN" \notin be.rd /\ "HUP" \in be.rd

\* Mutant of ClosesOutput: what the buffer still holds is not looked at.
CloseEarly == ~ rdOpen'[be.buf]

\* The output is closed when the input is and the buffer is empty.
ClosesOutput == ~ rdOpen'[be.buf] /\ buf[be.buf] = << >>

\* What is not in the epoll set any more, or never was (stdout), cannot be
\* removed from it: EPOLL_CTL_DEL fails.
InputFails  == ClosesInput /\ "FAKE" \notin be.rd /\ ~ rdOpen[be.buf]
OutputFails == /\ ClosesOutput
               /\ "FAKE" \notin be.wr
               /\ be.buf = ChildNr \/ ~ wrOpen[be.buf]

\* Close what is done with. After the output, the children are waited for;
\* after the last buffer event, the next turn begins.
Close ==
    LET b == be.buf IN
    /\ parent = "close"
    /\ rdOpen' = IF ClosesInput THEN [rdOpen EXCEPT ![b] = FALSE] ELSE rdOpen
    /\ wrOpen' = IF ClosesOutput /\ ~ InputFails /\ ~ OutputFails
                   THEN [wrOpen EXCEPT ![b] = FALSE] ELSE wrOpen
    /\ \/ /\ InputFails \/ OutputFails
          /\ parent' = "failed" /\ UNCHANGED <<bes, at>>
       \/ /\ ~ InputFails /\ ~ OutputFails
          /\ ClosesOutput /\ b = ChildNr
          /\ parent' = "waiting" /\ bes' = << >> /\ at' = 0
       \/ /\ ~ InputFails /\ ~ OutputFails
          /\ ~ (ClosesOutput /\ b = ChildNr)
          /\ IF at < Len(bes)
               THEN at' = at + 1 /\ UNCHANGED <<parent, bes>>
               ELSE parent' = "wait" /\ bes' = << >> /\ at' = 0
    /\ UNCHANGED <<data, others>>

Turn == WriteOut \/ ReadIn \/ Close

-----------------------------------------------------------------------------
(* The end of the parent *)

\* waitpid() until there are no children.
WaitForChildren ==
    /\ parent = "waiting"
    /\ \A c \in Children : child[c] = "gone"
    /\ parent' = "ok"
    /\ UNCHANGED <<data, fds, bes, at, others>>

\* A child has exited, and SIGCHLD is sent. Its handler runs once: it kills
\* everybody if the child did not end well. If it did, epoll_wait() fails with
\* EINTR when it was blocked, waitpid() may, and that kills everybody too.
Sigchld(c) ==
    /\ Running
    /\ child[c] = "closed"
    /\ child' = [child EXCEPT ![c] = "gone"]
    /\ handler' = FALSE
    /\ \/ handler /\ c \in killed /\ parent' = "childFailed"
       \/ ~ (handler /\ c \in killed) /\ UNCHANGED parent
       \/ /\ handler /\ c \notin killed
          /\ \/ parent = "waiting"
             \/ parent = "wait" /\ \A e \in Polled : ~ Ready(e)
          /\ parent' = "interrupted"
    /\ UNCHANGED <<data, fds, bes, at, killed>>

-----------------------------------------------------------------------------
(* child_main *)

ChildRead(c) ==
    /\ Running
    /\ child[c] = "read" /\ toChild[c] # << >>
    /\ held' = [held EXCEPT ![c] = Take(toChild[c], ChildBufSize)]
    /\ toChild' = [toChild EXCEPT ![c] = Leave(@, ChildBufSize)]
    /\ child' = [child EXCEPT ![c] = "write"]
    /\ UNCHANGED <<unread, buf, fds, fromChild, output, parent, bes, at,
                   handler, killed>>

\* The blocking write() fills the pipe as there is room.
ChildWrite(c) ==
    LET room == PipeSize - Len(fromChild[c]) IN
    /\ Running
    /\ child[c] = "write" /\ room > 0
    /\ fromChild' = [fromChild EXCEPT ![c] = @ \o Take(held[c], room)]
    /\ held' = [held EXCEPT ![c] = Leave(@, room)]
    /\ child' = [child EXCEPT ![c] = IF held'[c] = << >> THEN "read" ELSE @]
    /\ UNCHANGED <<unread, buf, fds, toChild, output, parent, bes, at,
                   handler, killed>>

ChildEof(c) ==
    /\ Running
    /\ child[c] = "read" /\ toChild[c] = << >> /\ ~ wrOpen[c]
    /\ child' = [child EXCEPT ![c] = "closed"]
    /\ UNCHANGED <<data, fds, parent, bes, at, handler, killed>>

Kill(c) ==
    /\ Running
    /\ child[c] \in {"read", "write"}
    /\ Cardinality(killed) < MaxKills
    /\ killed' = killed \cup {c}
    /\ child' = [child EXCEPT ![c] = "closed"]
    /\ UNCHANGED <<data, fds, parent, bes, at, handler>>

ChildStep(c) == ChildRead(c) \/ ChildWrite(c) \/ ChildEof(c) \/ Sigchld(c)

-----------------------------------------------------------------------------
Init ==
    /\ unread = File
    /\ buf = [b \in Buffers |-> << >>]
    /\ rdOpen = [b \in Buffers |-> TRUE]
    /\ wrOpen = [b \in Buffers |-> TRUE]
    /\ toChild = [c \in Children |-> << >>]
    /\ fromChild = [c \in Children |-> << >>]
    /\ child = [c \in Children |-> "read"]
    /\ held = [c \in Children |-> << >>]
    /\ output = << >>
    /\ parent = "wait"
    /\ bes = << >>
    /\ at = 0
    /\ handler = TRUE
    /\ killed = {}

Finished == ~ Running /\ UNCHANGED vars

Next ==
    \/ \E e \in Polled : EpollWait(e)
    \/ Turn
    \/ WaitForChildren
    \/ \E c \in Children : ChildStep(c) \/ Kill(c)
    \/ Finished

Spec == Init /\ [][Next]_vars

\* The kernel puts a descriptor it has reported at the end of its list of ready
\* ones, so that one that is ready again and again is reported again and again
\* (strong fairness); the parent and every child are scheduled.
FairSpec ==
    /\ Spec
    /\ \A e \in Polled : SF_vars(EpollWait(e))
    /\ WF_vars(Turn)
    /\ WF_vars(WaitForChildren)
    /\ \A c \in Children : WF_vars(ChildStep(c))

-----------------------------------------------------------------------------
(* Properties *)

\* Every variable keeps its type, and nothing holds more than it can.
TypeOK ==
    /\ unread \in Seq(1 .. FileLen) /\ output \in Seq(1 .. FileLen)
    /\ buf \in [Buffers -> Seq(1 .. FileLen)]
    /\ \A b \in Buffers : Len(buf[b]) <= BufSize
    /\ rdOpen \in [Buffers -> BOOLEAN] /\ wrOpen \in [Buffers -> BOOLEAN]
    /\ {toChild, fromChild, held} \subseteq [Children -> Seq(1 .. FileLen)]
    /\ \A c \in Children : /\ Len(toChild[c]) <= PipeSize
                           /\ Len(fromChild[c]) <= PipeSize
                           /\ Len(held[c]) <= ChildBufSize
    /\ child \in [Children -> {"read", "write", "closed", "gone"}]
    /\ Running \/ parent \in {"ok", "failed", "sigpipe", "interrupted",
                              "childFailed"}
    /\ at \in 0 .. Len(bes)
    /\ parent \in {"write", "read", "close"} => at > 0
    /\ handler \in BOOLEAN
    /\ killed \subseteq Children

\* What is on its way, from the output back to the input.
InFlight ==
    LET stage(c) == fromChild[c] \o held[c] \o toChild[c] \o buf[c]
        upTo[c \in -1 .. ChildNr - 1] ==
            IF c = -1 THEN unread ELSE stage(c) \o upTo[c - 1]
    IN  buf[ChildNr] \o upTo[ChildNr - 1]

\* Nothing is lost, doubled or overtaken anywhere in the chain: what was
\* written and what is on its way make up the file, until a child is killed.
\* When one is, what was written is still the beginning of the file.
FileIsConserved ==
    /\ killed = {} => output \o InFlight = File
    /\ Len(output) <= FileLen /\ output = SubSeq(File, 1, Len(output))

\* While the children live, the loop meets no error: no descriptor is removed
\* from the epoll set twice or without being in it, and none is broken.
NoErrors == parent \in {"failed", "sigpipe"} => killed # {}

\* Descriptors are closed in the direction of the data and never too early: an
\* input when nothing will come from it any more, an output when its input is
\* closed and the buffer is empty; so no operation on one fails.
ClosedDownstream ==
    /\ TypeOK /\ NoErrors
    /\ \A b \in Buffers :
        /\ ~ wrOpen[b] => ~ rdOpen[b] /\ buf[b] = << >>
        /\ ~ rdOpen[b] =>
             IF b = 0 THEN unread = << >>
             ELSE fromChild[b - 1] = << >> /\ child[b - 1] \in {"closed", "gone"}

\* The exit status 0 means that the whole file was written.
SuccessIsComplete == parent = "ok" /\ killed = {} => output = File

\* While no child is killed, the parent ends.
Ends == [](killed = {}) => <> ~ Running

\* "child %d terminated with status %d -- killing process group and exiting"
\* (task.c:38): the program does not succeed when a child failed.
FailedChildNoticed == parent = "ok" => killed = {}
=============================================================================

------------------------- MODULE FifoTransfer_proofs -------------------------
(***************************************************************************)
(* Theorems about FifoTransfer, for any number of writers and readers, any *)
(* files, repetitions and kills: a reader writes the beginning of one      *)
(* writer's file, and all of it when both report success.                  *)
(*                                                                         *)
(* A pid is in the control pipe or with one reader, so that a writer's     *)
(* pipe has one reader ever (Pids, Ends); and what that reader wrote, what *)
(* is in the pipe and what the writer has read add up (Flow).              *)
(***************************************************************************)
EXTENDS FifoTransfer, SequenceTheorems, TLAPS

\* What the arguments of the programs are.
Setting ==
    /\ Writers \cap Readers = {} /\ Nobody \notin Writers
    /\ FileLens \subseteq Nat /\ Retries \in Nat /\ MaxKills \in Nat

\* The types, with names for their parts.
Labels == {"start", "opening", "fifo", "pid", "read", "write", "unlinked",
           "readPid", "pipe", "cat", "done"}
Results == {"running", "ok", "failed", "SIGPIPE", "killed"}
Chunks == Seq([from : Writers, nr : Nat])
Limits == 0 .. Retries

FifoTypes ==
    /\ len \in [Writers -> FileLens]
    /\ pc \in [Processes -> Labels] /\ status \in [Processes -> Results]
    /\ woken \subseteq Processes /\ ctl \in Seq(Writers)
    /\ got \in [Readers -> Writers \cup {Nobody}] /\ fifos \subseteq Writers
    /\ data \in [Writers -> Chunks] /\ out \in [Readers -> Chunks]
    /\ pos \in [Writers -> Nat] /\ \A w \in Writers : pos[w] <= len[w]
    /\ tries \in [Writers -> Limits]
    /\ opened \in [Writers -> SUBSET Readers] /\ kills \in 0 .. MaxKills

\* The writer has sent its pid, or has ended.
Past(w) == pc[w] \in {"read", "write", "unlinked", "done"}

\* A pid is in one place, and is that of a writer that sent it.
Pids ==
    /\ \A i, j \in DOMAIN ctl : ctl[i] = ctl[j] => i = j
    /\ \A i \in DOMAIN ctl : Past(ctl[i]) /\ \A r \in Readers : got[r] # ctl[i]
    /\ \A r \in Readers : got[r] # Nobody => Past(got[r])
    /\ \A q, r \in Readers : got[q] = got[r] /\ got[r] # Nobody => q = r

\* Readers and the pipes they opened.
Ends ==
    /\ \A r \in Readers :
          /\ pc[r] \in {"start", "opening", "readPid"} => got[r] = Nobody
          /\ pc[r] \in {"pipe", "cat"} => got[r] # Nobody
          /\ got[r] = Nobody \/ pc[r] = "pipe" => out[r] = <<>>
          /\ pc[r] = "cat" => r \in opened[got[r]]
    /\ \A w \in Writers : \A r \in opened[w] :
          got[r] = w /\ pc[r] \in {"cat", "done"}

\* How far a writer is; nothing is written before a reader opened its pipe.
Progress == \A w \in Writers :
    /\ ~ Past(w) => pos[w] = 0
    /\ pc[w] = "write" => pos[w] > 0
    /\ status[w] = "ok" => pc[w] \in {"unlinked", "done"} /\ pos[w] = len[w]
    /\ opened[w] = {} =>
          /\ data[w] = <<>> /\ pos[w] <= 1
          /\ pc[w] = "read" \/ status[w] = "ok" => pos[w] = 0

\* s is the beginning of the file of w.
Counted(s, w) == \A i \in DOMAIN s : s[i] = [from |-> w, nr |-> i]

\* The chunks of w that went into the pipe to r.
Written(r, w) == Len(out[r]) + Len(data[w])

\* While r reads, what w has read is written, but for the last chunk.
Flows(r, w) ==
    /\ data[w] = <<>> \/ data[w] = <<[from |-> w, nr |-> Len(out[r]) + 1]>>
    /\ Written(r, w) \in {pos[w] - 1, pos[w]}
    /\ pc[w] = "read" \/ status[w] = "ok" => Written(r, w) = pos[w]
    /\ pc[w] = "write" => Written(r, w) = pos[w] - 1

Flow == \A r \in Readers :
    /\ got[r] # Nobody => Counted(out[r], got[r]) /\ Len(out[r]) <= pos[got[r]]
    /\ pc[r] = "cat" => Flows(r, got[r])
    /\ status[r] = "ok" =>
          /\ pc[r] = "done" /\ got[r] # Nobody /\ pc[got[r]] = "done"
          /\ status[got[r]] = "ok" => Len(out[r]) = len[got[r]]

\* The inductive invariant.
FifoInv == FifoTypes /\ Pids /\ Ends /\ Progress /\ Flow

-----------------------------------------------------------------------------
(* Types *)

LEMMA TypesAreTypes == FifoTypes <=> TypeOK
BY Zenon DEF FifoTypes, TypeOK, Labels, Results, Chunks, Limits

\* Sequences of chunks.
LEMMA ChunksSound ==
    /\ <<>> \in Chunks
    /\ \A w \in Writers, n \in Nat : <<[from |-> w, nr |-> n]>> \in Chunks
    /\ \A s, t \in Chunks : s \o t \in Chunks
<1> DEFINE C == [from : Writers, nr : Nat]
<1>1. <<>> \in Seq(C)
  BY EmptySeq
<1>2. ASSUME NEW w \in Writers, NEW n \in Nat PROVE <<[from |-> w, nr |-> n]>> \in Seq(C)
  <2>1. [from |-> w, nr |-> n] \in C
    OBVIOUS
  <2> HIDE DEF C
  <2> QED BY <2>1
<1>3. ASSUME NEW s \in Seq(C), NEW t \in Seq(C) PROVE s \o t \in Seq(C)
  <2> HIDE DEF C
  <2> QED BY <1>3, ConcatProperties
<1> QED BY <1>1, <1>2, <1>3 DEF Chunks

LEMMA InitType == Setting /\ Init => FifoTypes
<1> SUFFICES ASSUME Setting, Init PROVE FifoTypes
  OBVIOUS
<1>1. "start" \in Labels /\ "running" \in Results
  BY DEF Labels, Results
<1>2. Retries \in Limits
  BY DEF Setting, Limits
<1>3. /\ len \in [Writers -> FileLens] /\ pos \in [Writers -> Nat]
      /\ \A w \in Writers : pos[w] <= len[w]
  <2>1. len \in [Writers -> FileLens] /\ pos = [w \in Writers |-> 0]
    BY DEF Init
  <2>2. \A w \in Writers : len[w] \in Nat /\ pos[w] = 0
    BY <2>1 DEF Setting
  <2> QED BY <2>1, <2>2
<1>4. pc \in [Processes -> Labels] /\ status \in [Processes -> Results]
  BY <1>1 DEF Init
<1>5. data \in [Writers -> Chunks] /\ out \in [Readers -> Chunks] /\ ctl \in Seq(Writers)
  BY ChunksSound, EmptySeq DEF Init
<1>6. tries \in [Writers -> Limits] /\ kills \in 0 .. MaxKills
  BY <1>2 DEF Init, Setting
<1> QED
  BY <1>3, <1>4, <1>5, <1>6 DEF Init, FifoTypes

\* A process that ends.
LEMMA ExitType ==
    ASSUME FifoTypes, NEW p \in Processes, NEW from, NEW result \in Results,
           Exit(p, from, result)
    PROVE  /\ pc' \in [Processes -> Labels] /\ status' \in [Processes -> Results]
           /\ ctl' \in Seq(Writers) /\ data' \in [Writers -> Chunks]
<1>1. "done" \in Labels
  BY DEF Labels
<1>2. pc' \in [Processes -> Labels] /\ status' \in [Processes -> Results]
  BY <1>1 DEF FifoTypes, Exit, Goto
<1>3. ctl' \in Seq(Writers)
  BY DEF FifoTypes, Exit, Closed
<1>4. data' \in [Writers -> Chunks]
  BY ChunksSound DEF FifoTypes, Exit, Closed
<1> QED BY <1>2, <1>3, <1>4

\* A process that goes from one place to another.
LEMMA GotoType ==
    ASSUME FifoTypes, NEW p, NEW from, NEW to \in Labels, Goto(p, from, to)
    PROVE  pc' \in [Processes -> Labels]
BY DEF FifoTypes, Goto

LEMMA NextType ==
    ASSUME Setting, FifoTypes, Ends, [Next]_vars
    PROVE  FifoTypes'
<1> USE DEF Setting
<1>0. /\ \A w \in Writers : w \in Processes
      /\ \A r \in Readers : r \in Processes
  BY DEF Processes
<1>1. /\ {"opening", "pid", "read", "write", "unlinked"} \subseteq Labels
      /\ {"fifo", "readPid", "pipe", "cat", "done"} \subseteq Labels
  BY DEF Labels
<1>2. Results = {"running", "ok", "failed", "SIGPIPE", "killed"}
  BY DEF Results
<1>3. ASSUME NEW w \in Writers, WriterArrives(w) PROVE FifoTypes'
  BY <1>0, <1>1, <1>3, GotoType DEF FifoTypes, WriterArrives, Arrive
<1>4. ASSUME NEW w \in Writers, Meet(w, "fifo") \/ OpenFifo(w) PROVE FifoTypes'
  BY <1>1, <1>4, GotoType DEF FifoTypes, Meet, OpenFifo
<1>5. ASSUME NEW w \in Writers, SendPid(w) PROVE FifoTypes'
  BY <1>1, <1>5, GotoType DEF FifoTypes, SendPid
<1>6. ASSUME NEW w \in Writers, PidBreaksPipe(w) \/ CloseAll(w) PROVE FifoTypes'
  <2>1. status[w] \in Results /\ "SIGPIPE" \in Results
    BY <1>0, <1>2 DEF FifoTypes
  <2> QED BY <1>0, <1>6, <2>1, ExitType DEF FifoTypes, PidBreaksPipe, CloseAll
<1>7. ASSUME NEW w \in Writers, ReadFile(w) PROVE FifoTypes'
  <2>1. CASE pos[w] < len[w]
    <3>1. /\ Goto(w, "read", "write") /\ pos' = [pos EXCEPT ![w] = @ + 1]
          /\ UNCHANGED <<fifos, status, ctl, data, len, woken, got, tries, out,
                         opened, kills>>
      BY <1>7, <2>1 DEF ReadFile
    <3>2. pos' \in [Writers -> Nat] /\ \A v \in Writers : pos'[v] <= len[v]
      <4>1. pos \in [Writers -> Nat] /\ \A v \in Writers : pos[v] <= len[v] /\ len[v] \in Nat
        BY DEF FifoTypes
      <4>2. \A v \in Writers : pos'[v] = IF v = w THEN pos[v] + 1 ELSE pos[v]
        BY <3>1, <4>1
      <4> QED BY <2>1, <3>1, <4>1, <4>2
    <3> QED BY <1>1, <3>1, <3>2, GotoType DEF FifoTypes
  <2>2. CASE ~ pos[w] < len[w]
    <3>1. /\ Goto(w, "read", "unlinked") /\ fifos' = fifos \ {w}
          /\ status' = [status EXCEPT ![w] = "ok"]
          /\ UNCHANGED <<pos, ctl, data, len, woken, got, tries, out, opened, kills>>
      BY <1>7, <2>2 DEF ReadFile
    <3> QED BY <1>1, <1>2, <3>1, GotoType DEF FifoTypes
  <2> QED BY <2>1, <2>2
<1>8. ASSUME NEW w \in Writers, WriteChunk(w) PROVE FifoTypes'
  <2>1. <<[from |-> w, nr |-> pos[w]]>> \in Chunks
    BY ChunksSound DEF FifoTypes
  <2>2. 0 \in Limits
    BY DEF Limits
  <2> QED BY <1>1, <1>8, <2>1, <2>2, GotoType DEF FifoTypes, WriteChunk
<1>9. ASSUME NEW w \in Writers, RetryWrite(w) PROVE FifoTypes'
  <2>1. tries[w] - 1 \in Limits
    BY <1>9 DEF FifoTypes, RetryWrite, Limits
  <2> QED BY <1>9, <2>1 DEF FifoTypes, RetryWrite
<1>10. ASSUME NEW w \in Writers, WriteFails(w) PROVE FifoTypes'
  BY <1>1, <1>2, <1>10, GotoType DEF FifoTypes, WriteFails
<1>11. ASSUME NEW r \in Readers, ReaderArrives(r) PROVE FifoTypes'
  BY <1>0, <1>1, <1>11, GotoType DEF FifoTypes, ReaderArrives, Arrive
<1>12. ASSUME NEW r \in Readers, Meet(r, "readPid") PROVE FifoTypes'
  BY <1>1, <1>12, GotoType DEF FifoTypes, Meet
<1>13. ASSUME NEW r \in Readers, ReadPid(r) PROVE FifoTypes'
  <2>1. Head(ctl) \in Writers /\ Tail(ctl) \in Seq(Writers)
    BY <1>13 DEF FifoTypes, ReadPid
  <2> QED BY <1>1, <1>13, <2>1, GotoType DEF FifoTypes, ReadPid
<1>14. ASSUME NEW r \in Readers, NoPid(r) \/ PipeIsGone(r) \/ PipeEnds(r)
       PROVE FifoTypes'
  BY <1>0, <1>2, <1>14, ExitType DEF FifoTypes, NoPid, PipeIsGone, PipeEnds
<1>15. ASSUME NEW r \in Readers, OpenPipe(r) PROVE FifoTypes'
  BY <1>1, <1>15, GotoType DEF FifoTypes, OpenPipe
<1>16. ASSUME NEW r \in Readers, Copy(r) PROVE FifoTypes'
  <2>1. got[r] \in Writers
    BY <1>16 DEF FifoTypes, Ends, Copy
  <2> QED BY <1>16, <2>1, ChunksSound DEF FifoTypes, Copy
<1>17. ASSUME NEW p \in Processes, Kill(p) PROVE FifoTypes'
  <2>1. kills' \in 0 .. MaxKills
    BY <1>17 DEF FifoTypes, Kill
  <2> QED BY <1>2, <1>17, <2>1, ExitType DEF FifoTypes, Kill
<1>18. CASE UNCHANGED vars
  BY <1>18 DEF FifoTypes, vars
<1> QED
  BY <1>3, <1>4, <1>5, <1>6, <1>7, <1>8, <1>9, <1>10, <1>11, <1>12, <1>13, <1>14, <1>15,
     <1>16, <1>17, <1>18 DEF Next, WriterStep, ReaderStep

-----------------------------------------------------------------------------
(* Steps *)

Rest == Pids /\ Ends /\ Progress /\ Flow

LEMMA InitRest == Setting /\ Init => Rest
BY DEF Setting, Init, Rest, Pids, Ends, Progress, Flow, Past, Processes

\* What goes from one place to another, read off.
LEMMA Moves ==
    ASSUME FifoTypes, NEW p \in Processes, NEW from, NEW to, Goto(p, from, to)
    PROVE  /\ pc[p] = from /\ pc'[p] = to
           /\ \A q \in Processes : q # p => pc'[q] = pc[q]
BY DEF FifoTypes, Goto

\* The types, read off.
LEMMA WriterTypes ==
    ASSUME Setting, FifoTypes, NEW w \in Writers
    PROVE  /\ w \in Processes /\ w \notin Readers /\ w # Nobody
           /\ pos[w] \in Nat /\ len[w] \in Nat
           /\ data[w] \in Chunks /\ Len(data[w]) \in Nat
<1>1. data[w] \in Chunks
  BY DEF FifoTypes
<1>2. Len(data[w]) \in Nat
  BY <1>1, LenProperties DEF Chunks
<1> QED BY <1>1, <1>2 DEF Setting, FifoTypes, Processes

LEMMA ReaderTypes ==
    ASSUME Setting, FifoTypes, NEW r \in Readers
    PROVE  /\ r \in Processes /\ r \notin Writers
           /\ got[r] # Nobody => got[r] \in Writers
           /\ out[r] \in Chunks /\ Len(out[r]) \in Nat
<1>1. out[r] \in Chunks
  BY DEF FifoTypes
<1>2. Len(out[r]) \in Nat
  BY <1>1, LenProperties DEF Chunks
<1> QED BY <1>1, <1>2 DEF Setting, FifoTypes, Processes

LEMMA PidTypes ==
    ASSUME FifoTypes, NEW i \in DOMAIN ctl PROVE ctl[i] \in Writers
BY DEF FifoTypes

LEMMA OpenedTypes ==
    ASSUME FifoTypes, NEW w \in Writers, NEW r \in opened[w] PROVE r \in Readers
BY DEF FifoTypes

\* Before a writer sends its pid, and before a reader gets one.
Early(p, place) ==
    \/ p \in Writers /\ place \in {"start", "opening", "fifo", "pid"}
    \/ p \in Readers /\ place \in {"start", "opening", "readPid"}

LEMMA EarlyMove ==
    ASSUME Setting, FifoTypes, Rest, NEW p \in Processes, NEW from, NEW to, Goto(p, from, to),
           Early(p, from), Early(p, to),
           UNCHANGED <<len, status, ctl, got, data, pos, out, opened>>
    PROVE  Rest'
<1>0. /\ pc[p] = from /\ pc'[p] = to
      /\ \A q \in Processes : q # p => pc'[q] = pc[q]
  BY Moves
<1>1. \A w \in Writers : pc'[w] = pc[w] \/ (~ Past(w) /\ ~ Past(w)' /\ pc'[w] # "write")
  BY <1>0, WriterTypes DEF Past, Early
<1>2. \A w \in Writers : Past(w)' <=> Past(w)
  BY <1>1 DEF Past
<1>3. \A r \in Readers : \/ pc'[r] = pc[r]
                         \/ /\ pc[r] \in {"start", "opening", "readPid"}
                            /\ pc'[r] \in {"start", "opening", "readPid"}
  BY <1>0, ReaderTypes DEF Early
<1>4. Pids'
  BY <1>2, ReaderTypes, PidTypes DEF Rest, Pids
<1>5. Ends'
  BY <1>3, OpenedTypes DEF Rest, Ends
<1>6. Progress'
  BY <1>1, <1>2 DEF Rest, Progress, Past
<1>7. ASSUME NEW r \in Readers, got[r] # Nobody PROVE pc'[got[r]] = pc[got[r]]
  BY <1>1, <1>7, ReaderTypes DEF Rest, Pids
<1>8. Flow'
  <2>1. ASSUME NEW r \in Readers, pc'[r] = "cat" PROVE Flows(r, got[r])'
    <3>1. pc[r] = "cat" /\ got[r] # Nobody
      BY <1>3, <2>1 DEF Rest, Ends
    <3> QED BY <1>7, <3>1 DEF Rest, Flow, Flows, Written
  <2>2. ASSUME NEW r \in Readers, status[r] = "ok" PROVE pc'[r] = "done"
    BY <1>3, <2>2 DEF Rest, Flow
  <2> QED BY <1>7, <2>1, <2>2 DEF Rest, Flow, Counted
<1> QED BY <1>4, <1>5, <1>6, <1>8 DEF Rest

\* The pid goes into the control pipe.
LEMMA SendPidRest ==
    ASSUME Setting, FifoTypes, Rest, NEW w \in Writers, SendPid(w) PROVE Rest'
<1>0. /\ pc[w] = "pid" /\ pc'[w] = "read"
      /\ \A q \in Processes : q # w => pc'[q] = pc[q]
      /\ ctl' = Append(ctl, w)
      /\ UNCHANGED <<len, status, got, data, pos, out, opened>>
  BY Moves, WriterTypes DEF SendPid
<1>1. \A v \in Writers : v # w => pc'[v] = pc[v]
  BY <1>0, WriterTypes
<1>2. \A r \in Readers : pc'[r] = pc[r]
  BY <1>0, ReaderTypes, WriterTypes
<1>3. \A v \in Writers : Past(v)' <=> Past(v) \/ v = w
  BY <1>0, <1>1 DEF Past
<1>4. /\ ~ Past(w) /\ \A i \in DOMAIN ctl : ctl[i] # w
      /\ \A r \in Readers : got[r] # w
  BY <1>0, WriterTypes DEF Past, Rest, Pids
<1>5. Pids'
  <2>1. /\ Len(ctl) \in Nat /\ DOMAIN ctl = 1 .. Len(ctl) /\ DOMAIN ctl' = 1 .. Len(ctl) + 1
        /\ \A i \in DOMAIN ctl : ctl'[i] = ctl[i]
        /\ ctl'[Len(ctl) + 1] = w
    BY <1>0, AppendProperties, LenProperties DEF FifoTypes
  <2>2. ASSUME NEW i \in DOMAIN ctl'
        PROVE  \/ i \in DOMAIN ctl /\ ctl'[i] = ctl[i]
               \/ i = Len(ctl) + 1 /\ ctl'[i] = w
    BY <2>1, <2>2
  <2>3. \A i, j \in DOMAIN ctl' : ctl'[i] = ctl'[j] => i = j
    BY <1>4, <2>2 DEF Rest, Pids
  <2>4. ASSUME NEW i \in DOMAIN ctl'
        PROVE  Past(ctl[i])' /\ \A r \in Readers : got[r] # ctl'[i]
    <3>1. CASE i \in DOMAIN ctl /\ ctl'[i] = ctl[i]
      BY <1>3, <3>1, PidTypes DEF Rest, Pids, Past
    <3>2. CASE ctl'[i] = w
      BY <1>3, <1>4, <3>2 DEF Past
    <3> QED BY <2>2, <3>1, <3>2
  <2> QED BY <1>0, <1>3, <2>3, <2>4, ReaderTypes DEF Rest, Pids
<1>6. Ends'
  BY <1>0, <1>2, OpenedTypes DEF Rest, Ends
<1>7. Progress'
  BY <1>0, <1>1, <1>3, <1>4 DEF Rest, Progress
<1>8. Flow'
  <2>1. \A r \in Readers : got[r] # Nobody => pc'[got[r]] = pc[got[r]]
    BY <1>1, <1>4, ReaderTypes
  <2>2. ASSUME NEW r \in Readers, pc[r] = "cat" PROVE Flows(r, got[r])'
    BY <1>0, <2>1, <2>2 DEF Rest, Flow, Flows, Written, Ends
  <2> QED BY <1>0, <1>2, <2>1, <2>2 DEF Rest, Flow, Counted
<1> QED BY <1>5, <1>6, <1>7, <1>8 DEF Rest

\* A writer reads the next chunk, or meets the end of its file.
LEMMA ReadFileRest ==
    ASSUME Setting, FifoTypes, Rest, NEW w \in Writers, ReadFile(w) PROVE Rest'
<1>0. /\ pc[w] = "read" /\ pc'[w] \in {"write", "unlinked"}
      /\ \A q \in Processes : q # w => pc'[q] = pc[q]
      /\ pc'[w] = "write" => /\ pos'[w] = pos[w] + 1 /\ pos[w] < len[w]
                             /\ status'[w] = status[w]
      /\ pc'[w] = "unlinked" => /\ pos'[w] = pos[w] /\ pos[w] = len[w]
                                /\ status'[w] = "ok"
      /\ \A v \in Writers : v # w => pos'[v] = pos[v]
      /\ \A q \in Processes : q # w => status'[q] = status[q]
      /\ UNCHANGED <<len, ctl, got, data, out, opened>>
  <2>1. w \in Processes
    BY WriterTypes
  <2>2. CASE pos[w] < len[w]
    <3>1. /\ Goto(w, "read", "write") /\ pos' = [pos EXCEPT ![w] = @ + 1]
          /\ UNCHANGED <<status, len, ctl, got, data, out, opened>>
      BY <2>2 DEF ReadFile
    <3>2. pos'[w] = pos[w] + 1 /\ \A v \in Writers : v # w => pos'[v] = pos[v]
      BY <3>1 DEF FifoTypes
    <3>3. /\ pc[w] = "read" /\ pc'[w] = "write"
          /\ \A q \in Processes : q # w => pc'[q] = pc[q]
      BY <2>1, <3>1, Moves
    <3> QED BY <2>2, <3>1, <3>2, <3>3
  <2>3. CASE ~ pos[w] < len[w]
    <3>1. /\ Goto(w, "read", "unlinked") /\ status' = [status EXCEPT ![w] = "ok"]
          /\ UNCHANGED <<pos, len, ctl, got, data, out, opened>>
      BY <2>3 DEF ReadFile
    <3>2. status'[w] = "ok" /\ \A q \in Processes : q # w => status'[q] = status[q]
      BY <2>1, <3>1 DEF FifoTypes
    <3>3. /\ pc[w] = "read" /\ pc'[w] = "unlinked"
          /\ \A q \in Processes : q # w => pc'[q] = pc[q]
      BY <2>1, <3>1, Moves
    <3>4. pos[w] <= len[w]
      BY DEF FifoTypes
    <3>5. pos[w] = len[w]
      BY <2>3, <3>4, WriterTypes
    <3> QED BY <3>1, <3>2, <3>3, <3>5
  <2> QED BY <2>2, <2>3
<1>1. \A v \in Writers : v # w => /\ pc'[v] = pc[v] /\ pos'[v] = pos[v]
                                  /\ status'[v] = status[v]
  BY <1>0, WriterTypes
<1>2. \A r \in Readers : pc'[r] = pc[r] /\ status'[r] = status[r]
  BY <1>0, ReaderTypes, WriterTypes
<1>3. \A v \in Writers : Past(v)' <=> Past(v)
  BY <1>0, <1>1 DEF Past
<1>4. Pids'
  BY <1>0, <1>3, ReaderTypes, PidTypes DEF Rest, Pids
<1>5. Ends'
  BY <1>0, <1>2, OpenedTypes DEF Rest, Ends
<1>6. Progress'
  <2>1. ASSUME NEW v \in Writers, v # w PROVE
          /\ ~ Past(v)' => pos'[v] = 0
          /\ pc'[v] = "write" => pos'[v] > 0
          /\ status'[v] = "ok" => pc'[v] \in {"unlinked", "done"} /\ pos'[v] = len'[v]
          /\ opened'[v] = {} =>
                /\ data'[v] = <<>> /\ pos'[v] <= 1
                /\ pc'[v] = "read" \/ status'[v] = "ok" => pos'[v] = 0
    BY <1>0, <1>1, <1>3, <2>1 DEF Rest, Progress
  <2>2. /\ Past(w)'
        /\ pc'[w] = "write" => pos'[w] > 0
        /\ status'[w] = "ok" => pc'[w] \in {"unlinked", "done"} /\ pos'[w] = len'[w]
        /\ opened'[w] = {} =>
              /\ data'[w] = <<>> /\ pos'[w] <= 1
              /\ pc'[w] = "read" \/ status'[w] = "ok" => pos'[w] = 0
    BY <1>0, WriterTypes DEF Rest, Progress, Past
  <2> QED BY <2>1, <2>2 DEF Progress
<1>7. Flow'
  <2>1. ASSUME NEW r \in Readers, pc[r] = "cat" PROVE Flows(r, got[r])'
    <3>1. Flows(r, got[r]) /\ got[r] \in Writers
      BY <2>1, ReaderTypes DEF Rest, Flow, Ends
    <3>2. CASE got[r] # w
      BY <1>0, <1>1, <3>1, <3>2 DEF Flows, Written
    <3>3. CASE got[r] = w
      <4>1. Written(r, w) = pos[w] /\ pos[w] \in Nat
        BY <1>0, <3>1, <3>3, WriterTypes DEF Flows
      <4>2. status[w] # "ok"
        BY <1>0 DEF Rest, Progress
      <4>3. Written(r, w)' = pos[w] /\ Written(r, w)' \in {pos'[w] - 1, pos'[w]}
        <5>1. Written(r, w)' = Written(r, w)
          BY <1>0 DEF Written
        <5>2. pos'[w] = pos[w] \/ pos'[w] = pos[w] + 1
          BY <1>0
        <5> QED BY <4>1, <5>1, <5>2
      <4>4. /\ pc'[w] = "read" \/ status'[w] = "ok" => Written(r, w)' = pos'[w]
            /\ pc'[w] = "write" => Written(r, w)' = pos'[w] - 1
        BY <1>0, <4>1, <4>2, <4>3
      <4> QED BY <1>0, <3>1, <3>3, <4>3, <4>4 DEF Flows
    <3> QED BY <3>2, <3>3
  <2>2. ASSUME NEW r \in Readers, status[r] = "ok"
        PROVE  got[r] # w /\ pc'[got[r]] = pc[got[r]] /\ status'[got[r]] = status[got[r]]
    BY <1>0, <1>1, <2>2, ReaderTypes DEF Rest, Flow
  <2>3. ASSUME NEW r \in Readers, got[r] # Nobody PROVE Len(out[r]) <= pos'[got[r]]
    BY <1>0, <1>1, <2>3, ReaderTypes, WriterTypes DEF Rest, Flow
  <2> QED BY <1>0, <1>2, <2>1, <2>2, <2>3 DEF Rest, Flow, Counted
<1> QED BY <1>4, <1>5, <1>6, <1>7 DEF Rest

\* A chunk goes into the pipe, which somebody reads.
LEMMA WriteChunkRest ==
    ASSUME Setting, FifoTypes, Rest, NEW w \in Writers, WriteChunk(w) PROVE Rest'
<1>0. /\ pc[w] = "write" /\ pc'[w] = "read"
      /\ \A q \in Processes : q # w => pc'[q] = pc[q]
      /\ data[w] = <<>> /\ data'[w] = <<[from |-> w, nr |-> pos[w]]>>
      /\ \A v \in Writers : v # w => data'[v] = data[v]
      /\ UNCHANGED <<len, status, ctl, got, pos, out, opened>>
  BY Moves, WriterTypes DEF WriteChunk, FifoTypes
<1>1. \A v \in Writers : v # w => pc'[v] = pc[v] /\ data'[v] = data[v]
  BY <1>0, WriterTypes
<1>2. \A r \in Readers : pc'[r] = pc[r]
  BY <1>0, ReaderTypes, WriterTypes
<1>3. \A v \in Writers : Past(v)' <=> Past(v)
  BY <1>0, <1>1 DEF Past
<1>4. PICK r \in Readers : pc[r] = "cat" /\ got[r] = w
  BY DEF WriteChunk, Readable, FifoReaders
<1>5. opened[w] # {} /\ \A q \in Readers : got[q] = w => q = r
  BY <1>4, WriterTypes DEF Rest, Ends, Pids
<1>6. Pids'
  BY <1>0, <1>3, ReaderTypes, PidTypes DEF Rest, Pids
<1>7. Ends'
  BY <1>0, <1>2, OpenedTypes DEF Rest, Ends
<1>8. Progress'
  BY <1>0, <1>1, <1>3, <1>5 DEF Rest, Progress, Past
<1>9. Flow'
  <2>1. /\ Len(out[r]) = pos[w] - 1 /\ Len(out[r]) \in Nat /\ pos[w] \in Nat
        /\ status[w] # "ok"
    <3>1. Written(r, w) = pos[w] - 1
      BY <1>0, <1>4 DEF Rest, Flow, Flows
    <3>2. Len(data[w]) = 0
      BY <1>0
    <3>3. status[w] # "ok"
      BY <1>0 DEF Rest, Progress
    <3> QED BY <3>1, <3>2, <3>3, ReaderTypes, WriterTypes DEF Written
  <2>2. Flows(r, w)'
    <3>1. Len(data'[w]) = 1
      BY <1>0
    <3>2. Written(r, w)' = pos[w]
      BY <1>0, <2>1, <3>1 DEF Written
    <3>3. data'[w] = <<[from |-> w, nr |-> Len(out[r]) + 1]>>
      BY <1>0, <2>1
    <3> QED BY <1>0, <3>2, <3>3 DEF Flows
  <2>3. ASSUME NEW q \in Readers, pc[q] = "cat", q # r PROVE Flows(q, got[q])'
    <3>1. got[q] \in Writers /\ got[q] # w /\ Flows(q, got[q])
      BY <1>5, <2>3, ReaderTypes DEF Rest, Flow, Ends
    <3> QED BY <1>0, <1>1, <3>1 DEF Flows, Written
  <2>4. ASSUME NEW q \in Readers, status[q] = "ok" PROVE pc'[got[q]] = pc[got[q]]
    BY <1>0, <1>1, <2>4, ReaderTypes DEF Rest, Flow
  <2> QED BY <1>0, <1>2, <1>4, <2>2, <2>3, <2>4 DEF Rest, Flow, Counted
<1> QED BY <1>6, <1>7, <1>8, <1>9 DEF Rest

\* The last write() failed.
LEMMA WriteFailsRest ==
    ASSUME Setting, FifoTypes, Rest, NEW w \in Writers, WriteFails(w) PROVE Rest'
<1>0. /\ pc[w] = "write" /\ pc'[w] = "unlinked"
      /\ \A q \in Processes : q # w => pc'[q] = pc[q] /\ status'[q] = status[q]
      /\ status'[w] = "failed"
      /\ UNCHANGED <<len, ctl, got, data, pos, out, opened>>
  BY Moves, WriterTypes DEF WriteFails, FifoTypes
<1>1. \A v \in Writers : v # w => pc'[v] = pc[v] /\ status'[v] = status[v]
  BY <1>0, WriterTypes
<1>2. \A r \in Readers : pc'[r] = pc[r] /\ status'[r] = status[r]
  BY <1>0, ReaderTypes, WriterTypes
<1>3. \A v \in Writers : Past(v)' <=> Past(v)
  BY <1>0, <1>1 DEF Past
<1>4. Pids'
  BY <1>0, <1>3, ReaderTypes, PidTypes DEF Rest, Pids
<1>5. Ends'
  BY <1>0, <1>2, OpenedTypes DEF Rest, Ends
<1>6. Progress'
  BY <1>0, <1>1, <1>3 DEF Rest, Progress, Past
<1>7. Flow'
  <2>1. ASSUME NEW r \in Readers, pc[r] = "cat" PROVE Flows(r, got[r])'
    <3>1. got[r] \in Writers /\ Flows(r, got[r])
      BY <2>1, ReaderTypes DEF Rest, Flow, Ends
    <3> QED BY <1>0, <1>1, <3>1 DEF Flows, Written
  <2>2. ASSUME NEW r \in Readers, status[r] = "ok"
        PROVE  pc'[got[r]] = pc[got[r]] /\ status'[got[r]] = status[got[r]]
    BY <1>0, <1>1, <2>2, ReaderTypes DEF Rest, Flow
  <2> QED BY <1>0, <1>2, <2>1, <2>2 DEF Rest, Flow, Counted
<1> QED BY <1>4, <1>5, <1>6, <1>7 DEF Rest

\* A reader gets a pid, which leaves the control pipe.
LEMMA ReadPidRest ==
    ASSUME Setting, FifoTypes, Rest, NEW r \in Readers, ReadPid(r) PROVE Rest'
<1> DEFINE w == Head(ctl)
<1>0. /\ pc[r] = "readPid" /\ pc'[r] = "pipe"
      /\ \A q \in Processes : q # r => pc'[q] = pc[q]
      /\ ctl # <<>> /\ ctl' = Tail(ctl) /\ got'[r] = w
      /\ \A q \in Readers : q # r => got'[q] = got[q]
      /\ UNCHANGED <<len, status, data, pos, out, opened>>
  BY Moves, ReaderTypes DEF ReadPid, FifoTypes
<1>1. /\ 1 \in DOMAIN ctl /\ w = ctl[1]
      /\ \A i \in DOMAIN ctl' : i + 1 \in DOMAIN ctl /\ ctl'[i] = ctl[i + 1] /\ i + 1 # 1
  <2>1. ctl \in Seq(Writers) /\ ctl # <<>> /\ ctl' = Tail(ctl)
    BY <1>0 DEF FifoTypes
  <2>2. Len(ctl) \in Nat /\ Len(ctl) > 0 /\ DOMAIN ctl = 1 .. Len(ctl)
    BY <2>1, EmptySeq, LenProperties
  <2>3. /\ Tail(ctl) \in Seq(Writers) /\ Len(Tail(ctl)) = Len(ctl) - 1
        /\ \A i \in 1 .. Len(Tail(ctl)) : Tail(ctl)[i] = ctl[i + 1]
    BY <2>1, HeadTailProperties
  <2>4. DOMAIN Tail(ctl) = 1 .. Len(Tail(ctl)) /\ w = ctl[1]
    BY <2>1, <2>3, HeadTailProperties, LenProperties
  <2> QED BY <2>1, <2>2, <2>3, <2>4
<1>2. w \in Writers /\ Past(w) /\ \A q \in Readers : got[q] # w
  BY <1>1, PidTypes DEF Rest, Pids
<1>3. \A i \in DOMAIN ctl' : ctl'[i] # w
  BY <1>1 DEF Rest, Pids
<1> HIDE DEF w
<1>4. \A v \in Writers : pc'[v] = pc[v] /\ (Past(v)' <=> Past(v))
  BY <1>0, WriterTypes DEF Past
<1>5. got[r] = Nobody /\ out[r] = <<>> /\ \A v \in Writers : r \notin opened[v]
  BY <1>0 DEF Rest, Ends
<1>6. Pids'
  <2>1. \A i, j \in DOMAIN ctl' : ctl'[i] = ctl'[j] => i = j
    <3>1. ASSUME NEW i \in DOMAIN ctl', NEW j \in DOMAIN ctl', ctl'[i] = ctl'[j] PROVE i = j
      <4>1. i + 1 = j + 1
        BY <1>1, <3>1 DEF Rest, Pids
      <4>2. i \in Int /\ j \in Int
        <5>1. ctl' \in Seq(Writers)
          BY <1>0, HeadTailProperties DEF FifoTypes
        <5> QED BY <5>1
      <4> QED BY <4>1, <4>2
    <3> QED BY <3>1
  <2>2. ASSUME NEW i \in DOMAIN ctl'
        PROVE  Past(ctl[i])' /\ \A q \in Readers : got'[q] # ctl'[i]
    <3>1. i + 1 \in DOMAIN ctl /\ ctl'[i] = ctl[i + 1] /\ ctl'[i] # w
      BY <1>1, <1>3
    <3>2. ctl[i + 1] \in Writers /\ Past(ctl[i + 1])
      BY <3>1, PidTypes DEF Rest, Pids
    <3>3. Past(ctl[i])'
      BY <1>4, <3>1, <3>2 DEF Past
    <3> QED BY <1>0, <3>1, <3>3 DEF Rest, Pids
  <2>3. \A q \in Readers : got'[q] # Nobody => Past(got[q])'
    BY <1>0, <1>2, <1>4, ReaderTypes DEF Rest, Pids, Past
  <2>4. \A p, q \in Readers : got'[p] = got'[q] /\ got'[q] # Nobody => p = q
    BY <1>0, <1>2 DEF Rest, Pids
  <2> QED BY <2>1, <2>2, <2>3, <2>4 DEF Pids
<1>7. Ends'
  <2>1. \A q \in Readers : q # r => pc'[q] = pc[q] /\ got'[q] = got[q]
    BY <1>0, ReaderTypes
  <2>2. w # Nobody
    BY <1>2, WriterTypes
  <2> QED BY <1>0, <1>5, <2>1, <2>2, OpenedTypes DEF Rest, Ends
<1>8. Progress'
  BY <1>0, <1>4 DEF Rest, Progress
<1>9. Flow'
  <2>1. ASSUME NEW q \in Readers, q # r
        PROVE  /\ pc'[q] = pc[q] /\ got'[q] = got[q]
               /\ got[q] # Nobody => pc'[got[q]] = pc[got[q]]
    BY <1>0, <1>4, <2>1, ReaderTypes
  <2>2. ASSUME NEW q \in Readers, pc'[q] = "cat" PROVE Flows(q, got[q])'
    <3>1. q # r /\ pc[q] = "cat"
      BY <1>0, <2>1, <2>2
    <3>2. got[q] # Nobody /\ Flows(q, got[q])
      BY <3>1 DEF Rest, Flow, Ends
    <3>3. pc'[got[q]] = pc[got[q]] /\ got'[q] = got[q]
      BY <2>1, <3>1, <3>2
    <3> QED BY <1>0, <3>2, <3>3 DEF Flows, Written
  <2>3. status[r] # "ok" /\ Len(out[r]) = 0 /\ DOMAIN out[r] = {}
    BY <1>0, <1>5 DEF Rest, Flow
  <2>4. pos[w] \in Nat
    BY <1>2, WriterTypes
  <2> QED BY <1>0, <2>1, <2>2, <2>3, <2>4 DEF Rest, Flow, Counted
<1> QED BY <1>6, <1>7, <1>8, <1>9 DEF Rest

\* The one reader of a writer opens its pipe, which nobody did before.
LEMMA OpenPipeRest ==
    ASSUME Setting, FifoTypes, Rest, NEW r \in Readers, OpenPipe(r) PROVE Rest'
<1> DEFINE w == got[r]
<1>0. /\ pc[r] = "pipe" /\ pc'[r] = "cat"
      /\ \A q \in Processes : q # r => pc'[q] = pc[q]
      /\ UNCHANGED <<len, status, ctl, got, data, pos, out, w>>
  BY Moves, ReaderTypes DEF OpenPipe
<1>1. w # Nobody /\ w \in Writers
  BY <1>0, ReaderTypes DEF Rest, Ends
<1>2. /\ opened'[w] = opened[w] \cup {r}
      /\ \A v \in Writers : v # w => opened'[v] = opened[v]
  BY <1>1 DEF OpenPipe, FifoTypes
<1> HIDE DEF w
<1>3. \A v \in Writers : pc'[v] = pc[v] /\ (Past(v)' <=> Past(v))
  BY <1>0, WriterTypes DEF Past
<1>4. \A q \in Readers : q # r => pc'[q] = pc[q]
  BY <1>0, ReaderTypes
<1>5. opened[w] = {}
  <2>1. ASSUME NEW q \in opened[w] PROVE FALSE
    <3>1. q \in Readers /\ got[q] = w /\ pc[q] # "pipe"
      BY <1>1, <2>1, OpenedTypes DEF Rest, Ends
    <3>2. q = r
      BY <1>1, <3>1 DEF Rest, Pids, w
    <3> QED BY <1>0, <3>1, <3>2
  <2> QED BY <2>1
<1>6. Pids'
  BY <1>0, <1>3, ReaderTypes, PidTypes DEF Rest, Pids
<1>7. Ends'
  <2>1. got[r] = w /\ r \in opened'[w]
    BY <1>2 DEF w
  <2>2. ASSUME NEW v \in Writers, NEW q \in opened'[v]
        PROVE  got[q] = v /\ pc'[q] \in {"cat", "done"}
    <3>1. CASE v = w
      BY <1>0, <1>2, <1>5, <2>1, <2>2, <3>1
    <3>2. CASE v # w
      <4>1. q \in opened[v]
        BY <1>2, <2>2, <3>2
      <4>2. q \in Readers /\ got[q] = v /\ pc[q] \in {"cat", "done"}
        BY <4>1, OpenedTypes DEF Rest, Ends
      <4> QED BY <1>0, <1>4, <4>2
    <3> QED BY <3>1, <3>2
  <2>3. ASSUME NEW q \in Readers, pc'[q] = "cat" PROVE q \in opened'[got[q]]
    <3>1. CASE q = r
      BY <2>1, <3>1
    <3>2. CASE q # r
      <4>1. got[q] \in Writers /\ q \in opened[got[q]]
        BY <1>4, <2>3, <3>2, ReaderTypes DEF Rest, Ends
      <4> QED BY <1>2, <4>1
    <3> QED BY <3>1, <3>2
  <2>4. ASSUME NEW q \in Readers
        PROVE  /\ pc'[q] \in {"start", "opening", "readPid"} => got[q] = Nobody
               /\ pc'[q] \in {"pipe", "cat"} => got[q] # Nobody
               /\ got[q] = Nobody \/ pc'[q] = "pipe" => out[q] = <<>>
    BY <1>0, <1>4 DEF Rest, Ends
  <2> QED BY <1>0, <2>2, <2>3, <2>4 DEF Ends
<1>8. Progress'
  <2>1. ASSUME NEW v \in Writers PROVE opened'[v] = {} => opened[v] = {}
    BY <1>2
  <2> QED BY <1>0, <1>3, <2>1 DEF Rest, Progress
<1>9. Flow'
  <2>1. Flows(r, w)'
    <3>1. data[w] = <<>> /\ Len(data[w]) = 0 /\ out[r] = <<>> /\ Len(out[r]) = 0
      BY <1>0, <1>1, <1>5 DEF Rest, Progress, Ends
    <3>2. Written(r, w)' = 0
      BY <1>0, <3>1 DEF Written
    <3>3. /\ pos[w] \in Nat /\ pos[w] <= 1
          /\ pc[w] = "read" \/ status[w] = "ok" => pos[w] = 0
          /\ pc[w] = "write" => pos[w] > 0
      BY <1>1, <1>5, WriterTypes DEF Rest, Progress
    <3> QED BY <1>0, <1>1, <1>3, <3>1, <3>2, <3>3 DEF Flows
  <2>2. ASSUME NEW q \in Readers, pc'[q] = "cat" PROVE Flows(q, got[q])'
    <3>1. CASE q = r
      BY <1>0, <2>1, <3>1 DEF w
    <3>2. CASE q # r
      <4>1. got[q] \in Writers /\ Flows(q, got[q])
        BY <1>4, <2>2, <3>2, ReaderTypes DEF Rest, Flow, Ends
      <4> QED BY <1>0, <1>3, <4>1 DEF Flows, Written
    <3> QED BY <3>1, <3>2
  <2>3. ASSUME NEW q \in Readers, status[q] = "ok"
        PROVE  q # r /\ pc'[got[q]] = pc[got[q]]
    BY <1>0, <1>3, <2>3, ReaderTypes DEF Rest, Flow
  <2> QED BY <1>0, <1>4, <2>2, <2>3 DEF Rest, Flow, Counted
<1> QED BY <1>6, <1>7, <1>8, <1>9 DEF Rest

\* What is in the pipe is written to stdout.
LEMMA CopyRest ==
    ASSUME Setting, FifoTypes, Rest, NEW r \in Readers, Copy(r) PROVE Rest'
<1> DEFINE w == got[r]
<1>0. /\ pc[r] = "cat" /\ w \in Writers /\ data[w] # <<>>
      /\ UNCHANGED <<len, pc, status, ctl, got, pos, opened, w>>
  BY ReaderTypes DEF Copy, Rest, Ends
<1>1. /\ out'[r] = out[r] \o data[w] /\ data'[w] = <<>>
      /\ \A q \in Readers : q # r => out'[q] = out[q]
      /\ \A v \in Writers : v # w => data'[v] = data[v]
  BY <1>0 DEF Copy, FifoTypes
<1>2. \A q \in Readers : got[q] = w => q = r
  BY <1>0, WriterTypes DEF Rest, Pids
<1>3. /\ Flows(r, w) /\ Counted(out[r], w)
      /\ data[w] = <<[from |-> w, nr |-> Len(out[r]) + 1]>>
  BY <1>0, WriterTypes DEF Rest, Flow, Flows
<1> HIDE DEF w
<1>4. /\ Len(out'[r]) = Len(out[r]) + 1 /\ Len(out[r]) \in Nat
      /\ Written(r, w) = Len(out[r]) + 1
      /\ Counted(out'[r], w)
  <2> DEFINE c == [from |-> w, nr |-> Len(out[r]) + 1]
  <2>1. out[r] \in Chunks /\ <<c>> \in Chunks /\ Len(out[r]) \in Nat
    BY <1>0, ChunksSound, ReaderTypes
  <2>2. out'[r] = out[r] \o <<c>>
    BY <1>1, <1>3
  <2> HIDE DEF c
  <2>3. /\ Len(<<c>>) = 1 /\ <<c>>[1] = c
    OBVIOUS
  <2>4. /\ Len(out'[r]) = Len(out[r]) + 1
        /\ \A i \in 1 .. Len(out[r]) + 1 :
              out'[r][i] = IF i <= Len(out[r]) THEN out[r][i] ELSE c
    BY <2>1, <2>2, <2>3, ConcatProperties DEF Chunks
  <2>5. DOMAIN out[r] = 1 .. Len(out[r]) /\ DOMAIN out'[r] = 1 .. Len(out[r]) + 1
    BY <2>1, <2>2, <2>4, ChunksSound, LenProperties DEF Chunks
  <2>6. Counted(out'[r], w)
    <3>1. ASSUME NEW i \in DOMAIN out'[r] PROVE out'[r][i] = [from |-> w, nr |-> i]
      <4>1. CASE i <= Len(out[r])
        BY <1>3, <2>1, <2>4, <2>5, <3>1, <4>1 DEF Counted
      <4>2. CASE ~ i <= Len(out[r])
        <5>1. i = Len(out[r]) + 1
          BY <2>1, <2>5, <3>1, <4>2
        <5> QED BY <2>1, <2>4, <5>1 DEF c
      <4> QED BY <4>1, <4>2
    <3> QED BY <3>1 DEF Counted
  <2>7. Written(r, w) = Len(out[r]) + 1
    <3>1. Len(data[w]) = 1
      BY <1>3, <2>3 DEF c
    <3> QED BY <3>1 DEF Written
  <2> QED BY <2>1, <2>4, <2>6, <2>7
<1>5. Pids'
  BY <1>0 DEF Rest, Pids, Past
<1>6. Ends'
  <2>1. \A q \in Readers : got[q] = Nobody \/ pc[q] = "pipe" => q # r
    BY <1>0, WriterTypes DEF w
  <2> QED BY <1>0, <1>1, <2>1, OpenedTypes DEF Rest, Ends
<1>7. Progress'
  <2>1. ASSUME NEW v \in Writers PROVE data[v] = <<>> => data'[v] = <<>>
    BY <1>1
  <2> QED BY <1>0, <2>1 DEF Rest, Progress, Past
<1>8. Flow'
  <2>1. Flows(r, w)'
    <3>1. Len(data'[w]) = 0
      BY <1>1
    <3>2. Written(r, w)' = Written(r, w)
      <4>1. w' = w
        BY <1>0
      <4>2. Written(r, w)' = Len(out'[r]) + Len(data'[w])
        BY <4>1 DEF Written
      <4> QED BY <1>4, <3>1, <4>2
    <3> QED BY <1>0, <1>1, <1>3, <3>2 DEF Flows
  <2>2. ASSUME NEW q \in Readers, q # r, pc[q] = "cat" PROVE Flows(q, got[q])'
    <3>1. got[q] \in Writers /\ got[q] # w /\ Flows(q, got[q])
      BY <1>2, <2>2, ReaderTypes DEF Rest, Flow, Ends
    <3> QED BY <1>0, <1>1, <2>2, <3>1 DEF Flows, Written
  <2>3. Len(out'[r]) <= pos[w]
    BY <1>0, <1>3, <1>4, WriterTypes DEF Flows
  <2>4. status[r] # "ok"
    BY <1>0 DEF Rest, Flow
  <2>5. got[r] = w
    BY DEF w
  <2>6. ASSUME NEW q \in Readers, got[q] # Nobody
        PROVE  Counted(out[q], got[q])' /\ Len(out'[q]) <= pos[got[q]]
    <3>1. CASE q = r
      BY <1>0, <1>4, <2>3, <2>5, <3>1 DEF Counted
    <3>2. CASE q # r
      BY <1>0, <1>1, <2>6, <3>2 DEF Rest, Flow, Counted
    <3> QED BY <3>1, <3>2
  <2>7. ASSUME NEW q \in Readers, status[q] = "ok"
        PROVE  /\ pc[q] = "done" /\ got[q] # Nobody /\ pc[got[q]] = "done"
               /\ status[got[q]] = "ok" => Len(out'[q]) = len[got[q]]
    BY <1>1, <2>4, <2>7 DEF Rest, Flow
  <2>8. ASSUME NEW q \in Readers, pc[q] = "cat" PROVE Flows(q, got[q])'
    BY <1>0, <2>1, <2>2, <2>5, <2>8
  <2> QED BY <1>0, <2>6, <2>7, <2>8 DEF Flow
<1> QED BY <1>5, <1>6, <1>7, <1>8 DEF Rest

\* A process ends; with success only where there is nothing left to do.
Finished(p) ==
    \/ p \in Writers /\ status[p] = "ok"
    \/ p \in Readers /\ pc[p] = "cat" /\ data[got[p]] = <<>> /\ ~ FifoWriter(got[p])

LEMMA ExitRest ==
    ASSUME Setting, FifoTypes, Rest, NEW p \in Processes, NEW from, NEW result,
           Exit(p, from, result), from # "done", result = "ok" => Finished(p),
           UNCHANGED <<len, got, pos, out, opened>>
    PROVE  Rest'
<1>0. /\ pc[p] = from /\ pc'[p] = "done"
      /\ \A q \in Processes : q # p => pc'[q] = pc[q] /\ status'[q] = status[q]
      /\ status'[p] = result /\ ctl' \in {ctl, <<>>}
  BY Moves DEF Exit, Closed, FifoTypes
<1>1. \A w \in Writers : data'[w] = IF (FifoWriter(w) /\ w # p) \/ FifoReaders(w) \ {p} # {}
                                      THEN data[w] ELSE <<>>
  BY DEF Exit, Closed
<1>2. \A w \in Writers : w # p => pc'[w] = pc[w] /\ status'[w] = status[w]
  BY <1>0, WriterTypes
<1>3. \A r \in Readers : r # p => pc'[r] = pc[r] /\ status'[r] = status[r]
  BY <1>0, ReaderTypes
<1>4. \A w \in Writers : Past(w) => Past(w)'
  BY <1>0, <1>2 DEF Past
<1>5. Pids'
  <2>1. \A i \in DOMAIN ctl' : i \in DOMAIN ctl /\ ctl'[i] = ctl[i]
    BY <1>0
  <2> QED BY <1>4, <2>1, ReaderTypes, PidTypes DEF Rest, Pids, Past
<1>6. Ends'
  BY <1>0, <1>3, OpenedTypes DEF Rest, Ends
<1>7. Progress'
  <2>1. ASSUME NEW w \in Writers, w # p PROVE
          /\ ~ Past(w)' => pos[w] = 0
          /\ pc'[w] = "write" => pos[w] > 0
          /\ status'[w] = "ok" => pc'[w] \in {"unlinked", "done"} /\ pos[w] = len[w]
          /\ opened[w] = {} =>
                /\ data'[w] = <<>> /\ pos[w] <= 1
                /\ pc'[w] = "read" \/ status'[w] = "ok" => pos[w] = 0
    BY <1>1, <1>2, <1>4, <2>1 DEF Rest, Progress
  <2>2. ASSUME p \in Writers PROVE
          /\ Past(p)' /\ pc'[p] = "done"
          /\ status'[p] = "ok" => pos[p] = len[p]
          /\ opened[p] = {} =>
                data'[p] = <<>> /\ pos[p] <= 1 /\ (status'[p] = "ok" => pos[p] = 0)
    BY <1>0, <1>1, <2>2, WriterTypes DEF Rest, Progress, Past, Finished
  <2> QED BY <2>1, <2>2 DEF Progress
<1>8. Flow'
  <2>1. ASSUME NEW r \in Readers, pc'[r] = "cat" PROVE Flows(r, got[r])'
    <3> DEFINE w == got[r]
    <3>1. r # p /\ pc[r] = "cat"
      BY <1>0, <1>3, <2>1
    <3>2. w \in Writers /\ Flows(r, w) /\ w' = w
      BY <3>1, ReaderTypes DEF Rest, Flow, Ends
    <3>3. data'[w] = data[w]
      BY <1>1, <3>1, <3>2 DEF FifoReaders
    <3> HIDE DEF w
    <3>4. Written(r, w)' = Written(r, w)
      BY <3>2, <3>3 DEF Written
    <3>5. /\ pc'[w] = "read" => pc[w] = "read"
          /\ pc'[w] = "write" => pc[w] = "write"
          /\ status'[w] = "ok" => status[w] = "ok"
      <4>1. CASE w # p
        BY <1>2, <3>2, <4>1
      <4>2. CASE w = p
        BY <1>0, <3>2, <4>2 DEF Finished, Setting
      <4> QED BY <4>1, <4>2
    <3>6. pos'[w] = pos[w] /\ out'[r] = out[r]
      OBVIOUS
    <3>7. Flows(r, w)'
      BY <3>2, <3>3, <3>4, <3>5, <3>6 DEF Flows
    <3> QED BY <3>7 DEF w
  <2>2. ASSUME NEW r \in Readers, status'[r] = "ok", r # p
        PROVE  /\ pc'[r] = "done" /\ got[r] # Nobody /\ pc'[got[r]] = "done"
               /\ status'[got[r]] = "ok" => Len(out[r]) = len[got[r]]
    <3>1. status[r] = "ok"
      BY <1>3, <2>2
    <3>2. got[r] \in Writers /\ got[r] # p
      BY <1>0, <3>1, ReaderTypes DEF Rest, Flow
    <3> QED BY <1>2, <1>3, <2>2, <3>1, <3>2 DEF Rest, Flow
  <2>3. ASSUME p \in Readers, status'[p] = "ok"
        PROVE  /\ got[p] # Nobody /\ pc'[got[p]] = "done"
               /\ status'[got[p]] = "ok" => Len(out[p]) = len[got[p]]
    <3> DEFINE w == got[p]
    <3>1. pc[p] = "cat" /\ data[w] = <<>> /\ ~ FifoWriter(w)
      BY <1>0, <2>3, ReaderTypes DEF Finished
    <3>2. w \in Writers /\ w # Nobody /\ w # p /\ Past(w) /\ Flows(p, w)
      BY <2>3, <3>1, ReaderTypes, WriterTypes DEF Rest, Ends, Flow, Pids
    <3>3. pc[w] = "done"
      BY <3>1, <3>2 DEF FifoWriter, Past
    <3>4. ASSUME status[w] = "ok" PROVE Len(out[p]) = len[w]
      <4>1. Written(p, w) = pos[w] /\ pos[w] = len[w]
        BY <3>2, <3>4 DEF Flows, Rest, Progress
      <4>2. Len(data[w]) = 0
        BY <3>1
      <4> QED BY <2>3, <4>1, <4>2, ReaderTypes DEF Written
    <3> QED BY <1>2, <3>2, <3>3, <3>4
  <2> QED BY <1>0, <2>1, <2>2, <2>3 DEF Rest, Flow, Counted
<1> QED BY <1>5, <1>6, <1>7, <1>8 DEF Rest

\* A step that changes nothing the invariant is about.
LEMMA StillRest ==
    ASSUME Rest, UNCHANGED <<len, pc, status, ctl, got, data, pos, out, opened>>
    PROVE  Rest'
<1>1. Pids'
  BY DEF Rest, Pids, Past
<1>2. Ends'
  BY DEF Rest, Ends
<1>3. Progress'
  BY DEF Rest, Progress, Past
<1>4. ASSUME NEW r \in Readers, Flows(r, got[r]) PROVE Flows(r, got[r])'
  BY <1>4 DEF Flows, Written
<1>5. Flow'
  BY <1>4 DEF Rest, Flow, Counted
<1> QED BY <1>1, <1>2, <1>3, <1>5 DEF Rest

LEMMA NextRest ==
    ASSUME Setting, FifoTypes, Rest, [Next]_vars
    PROVE  Rest'
<1>0. /\ \A w \in Writers : w \in Processes /\ w \notin Readers
      /\ \A r \in Readers : r \in Processes
      /\ Processes = Writers \cup Readers
  BY DEF Processes, Setting
<1>1. ASSUME NEW w \in Writers, WriterArrives(w) PROVE Rest'
  BY <1>0, <1>1, EarlyMove DEF WriterArrives, Arrive, Early
<1>2. ASSUME NEW w \in Writers, Meet(w, "fifo") PROVE Rest'
  BY <1>0, <1>2, EarlyMove DEF Meet, Early
<1>3. ASSUME NEW w \in Writers, OpenFifo(w) PROVE Rest'
  BY <1>0, <1>3, EarlyMove DEF OpenFifo, Early
<1>4. ASSUME NEW w \in Writers, PidBreaksPipe(w) PROVE Rest'
  BY <1>0, <1>4, ExitRest DEF PidBreaksPipe
<1>5. ASSUME NEW w \in Writers, CloseAll(w) PROVE Rest'
  <2>1. Exit(w, "unlinked", status[w]) /\ UNCHANGED <<len, got, pos, out, opened>>
    BY <1>5 DEF CloseAll
  <2>2. status[w] = "ok" => Finished(w)
    BY DEF Finished
  <2> HIDE DEF Rest
  <2> PICK result : result = status[w]
    OBVIOUS
  <2>3. Exit(w, "unlinked", result) /\ (result = "ok" => Finished(w))
    BY <2>1, <2>2 DEF Exit
  <2> QED BY <1>0, <2>1, <2>3, ExitRest
<1>6. ASSUME NEW w \in Writers, RetryWrite(w) PROVE Rest'
  BY <1>6, StillRest DEF RetryWrite
<1>7. ASSUME NEW r \in Readers, ReaderArrives(r) PROVE Rest'
  BY <1>0, <1>7, EarlyMove DEF ReaderArrives, Arrive, Early
<1>8. ASSUME NEW r \in Readers, Meet(r, "readPid") PROVE Rest'
  BY <1>0, <1>8, EarlyMove DEF Meet, Early
<1>9. ASSUME NEW r \in Readers, NoPid(r) PROVE Rest'
  BY <1>0, <1>9, ExitRest DEF NoPid
<1>10. ASSUME NEW r \in Readers, PipeIsGone(r) PROVE Rest'
  BY <1>0, <1>10, ExitRest DEF PipeIsGone
<1>11. ASSUME NEW r \in Readers, PipeEnds(r) PROVE Rest'
  BY <1>0, <1>11, ExitRest DEF PipeEnds, Finished
<1>12. ASSUME NEW p \in Processes, Kill(p) PROVE Rest'
  <2> PICK from : from = pc[p]
    OBVIOUS
  <2>1. /\ Exit(p, from, "killed") /\ from # "done"
        /\ UNCHANGED <<len, got, pos, out, opened>>
    BY <1>12 DEF Kill, Exit
  <2> QED BY <2>1, ExitRest
<1>13. CASE UNCHANGED vars
  BY <1>13, StillRest DEF vars
<1> QED
  BY <1>1, <1>2, <1>3, <1>4, <1>5, <1>6, <1>7, <1>8, <1>9, <1>10, <1>11, <1>12, <1>13,
     SendPidRest, ReadFileRest, WriteChunkRest, WriteFailsRest, ReadPidRest, OpenPipeRest,
     CopyRest
     DEF Next, WriterStep, ReaderStep

-----------------------------------------------------------------------------
(* Theorems *)

\* The inductive invariant holds in every behaviour.
LEMMA FifoInvariant ==
    ASSUME Setting PROVE Init /\ [][Next]_vars => []FifoInv
<1>1. Init => FifoInv
  BY InitType, InitRest DEF FifoInv, Rest
<1>2. FifoInv /\ [Next]_vars => FifoInv'
  BY NextType, NextRest DEF FifoInv, Rest
<1> QED BY <1>1, <1>2, PTL

\* The places of a sequence say which one it is.
LEMMA CountedIsFile ==
    ASSUME Setting, FifoTypes, NEW r \in Readers, NEW w \in Writers, Counted(out[r], w),
           Len(out[r]) <= len[w]
    PROVE  /\ out[r] = SubSeq(File(w), 1, Len(out[r]))
           /\ Len(out[r]) = len[w] => out[r] = File(w)
<1> DEFINE n == Len(out[r])
<1>1. /\ n \in Nat /\ len[w] \in Nat /\ out[r] \in Chunks
  BY ReaderTypes, WriterTypes
<1>2. out[r] = [i \in 1 .. n |-> [from |-> w, nr |-> i]]
  <2>1. out[r] \in [1 .. n -> [from : Writers, nr : Nat]]
    BY <1>1, LenProperties DEF Chunks
  <2> QED BY <2>1 DEF Counted
<1>3. File(w) \in Seq([from : Writers, nr : Nat]) /\ Len(File(w)) = len[w]
  <2> DEFINE m == len[w]
             C == [from : Writers, nr : Nat]
             F == [i \in 1 .. m |-> [from |-> w, nr |-> i]]
  <2>1. m \in Nat /\ \A i \in 1 .. m : [from |-> w, nr |-> i] \in C
    BY <1>1
  <2>2. File(w) = F
    BY DEF File
  <2> HIDE DEF m, C
  <2>3. F \in [1 .. m -> C] /\ DOMAIN F = 1 .. m
    BY <2>1
  <2> HIDE DEF F
  <2>4. F \in Seq(C)
    BY <2>1, <2>3, SeqDef
  <2>5. Len(F) = m
    BY <2>1, <2>3, <2>4, LenProperties
  <2> QED BY <2>2, <2>4, <2>5 DEF m, C
<1>4. SubSeq(File(w), 1, n) = [i \in 1 .. n |-> File(w)[i]]
  BY <1>1, <1>3
<1>5. \A i \in 1 .. n : File(w)[i] = [from |-> w, nr |-> i]
  BY <1>1 DEF File
<1>6. out[r] = SubSeq(File(w), 1, n)
  BY <1>2, <1>4, <1>5
<1>7. ASSUME n = len[w] PROVE out[r] = File(w)
  BY <1>2, <1>7 DEF File
<1> QED BY <1>6, <1>7

\* What a reader writes is the beginning of one writer's file, whoever dies
\* and however many readers wait (print.c:31, common_fileops.h:142).
THEOREM BeginningOnly ==
    ASSUME Setting PROVE Init /\ [][Next]_vars => []OutputIsPrefix
<1>1. ASSUME FifoInv PROVE OutputIsPrefix
  <2>1. ASSUME NEW r \in Readers
        PROVE  IF got[r] = Nobody
                 THEN out[r] = <<>>
                 ELSE \E n \in 0 .. len[got[r]] : out[r] = SubSeq(File(got[r]), 1, n)
    <3>1. CASE got[r] = Nobody
      BY <1>1, <3>1 DEF FifoInv, Ends
    <3>2. CASE got[r] # Nobody
      <4>1. got[r] \in Writers /\ Len(out[r]) \in Nat
        BY <1>1, <3>2, ReaderTypes DEF FifoInv
      <4>2. Counted(out[r], got[r]) /\ Len(out[r]) <= pos[got[r]]
        BY <1>1, <3>2 DEF FifoInv, Flow
      <4>3. Len(out[r]) <= len[got[r]] /\ len[got[r]] \in Nat
        <5>1. pos[got[r]] <= len[got[r]]
          BY <1>1, <4>1 DEF FifoInv, FifoTypes
        <5> QED BY <1>1, <4>1, <4>2, <5>1, WriterTypes DEF FifoInv
      <4>4. out[r] = SubSeq(File(got[r]), 1, Len(out[r]))
        BY <1>1, <4>1, <4>2, <4>3, CountedIsFile DEF FifoInv
      <4> QED BY <3>2, <4>1, <4>3, <4>4
    <3> QED BY <3>1, <3>2
  <2> QED BY <1>1, <2>1, TypesAreTypes DEF FifoInv, OutputIsPrefix
<1> QED BY <1>1, FifoInvariant, PTL

\* If both sides of a transfer report success, all of the file was written,
\* although the end of the pipe is all the reader sees (common_fileops.h:129).
THEOREM Delivery ==
    ASSUME Setting PROVE Init /\ [][Next]_vars => []SuccessIsDelivery
<1>1. ASSUME FifoInv, NEW w \in Writers, NEW r \in Readers, got[r] = w, status[w] = "ok",
             status[r] = "ok"
      PROVE  out[r] = File(w)
  <2>1. w # Nobody /\ len[w] \in Nat
    BY <1>1, WriterTypes DEF FifoInv
  <2>2. Counted(out[r], w) /\ Len(out[r]) = len[w]
    BY <1>1, <2>1 DEF FifoInv, Flow
  <2> QED BY <1>1, <2>1, <2>2, CountedIsFile DEF FifoInv
<1>2. FifoInv => SuccessIsDelivery
  BY <1>1 DEF SuccessIsDelivery
<1> QED BY <1>2, FifoInvariant, PTL

\* A writer that had something to write and reports success had a reader.
THEOREM HadReader ==
    ASSUME Setting PROVE Init /\ [][Next]_vars => []SuccessHadReader
<1>1. FifoInv => SuccessHadReader
  BY WriterTypes DEF FifoInv, Progress, SuccessHadReader
<1> QED BY <1>1, FifoInvariant, PTL
=============================================================================

------------------------- MODULE SemTransfer_proofs -------------------------
(***************************************************************************)
(* Theorems about SemTransfer, for any number of senders and receivers,    *)
(* any file, any number of kills and I/O errors.                           *)
(*                                                                         *)
(* Types and ReceiversExclude hold whoever dies. The rest holds as long as *)
(* no receiver works after another one failed or was killed (NoneAfter):   *)
(* always, if there is one receiver, and if nothing goes wrong, for any    *)
(* number of them. With a segment of the identifier 0, which nobody        *)
(* attaches, nobody gets as far as a session (Unattached).                 *)
(***************************************************************************)
EXTENDS SemTransfer, FiniteSetTheorems, SequenceTheorems, TLAPS

\* A receiver between the wait-for-zero and its exit.
Active(r) == pc[r] \notin {"lock", "gone"}

\* Before the segment is asked for, and while it is attached; where a receiver
\* keeps the key on its segment; who has one.
EarlyPlaces == {"lock", "zero1", "zero2", "zero3", "shmget"}
UsingPlaces == {"join", "pMemory", "testReceiver", "read", "resetReceiver",
                "vData", "testEof", "init", "open", "pData", "testSender",
                "write", "ack", "resetSender", "vMemory"}
KeyPlaces == {"shmat", "init", "open", "cleanup", "pData", "testSender",
              "write", "ack", "resetSender", "vMemory"}
Early(p) == pc[p] \in EarlyPlaces
Using(p) == pc[p] \in UsingPlaces
Owners == {p \in Processes : shm[p] # NoSegment}

\* Who may be where, and what it knows of the segments by then.
Places ==
    /\ firstId = 1
    /\ \A s \in Senders : pc[s] \in SenderPlaces
    /\ \A r \in Receivers : pc[r] \in ReceiverPlaces
    /\ \A p \in Processes :
          /\ shm[p] <= created
          /\ Early(p) => shm[p] = NoSegment
          /\ Using(p) => attached[p] = shm[p]
          /\ Using(p) \/ pc[p] \in {"shmat", "cleanup"} => shm[p] # NoSegment
    /\ \A r \in Receivers : pc[r] \in KeyPlaces => key = shm[r]
    /\ key <= created
    /\ created <= Cardinality(Owners)

\* Data that is announced is a chunk.
Announced ==
    /\ \A g \in Segments : memory[g].snd_state = "OK" => memory[g].data \in Chunks
    /\ \A r \in Receivers : pc[r] = "write" => memory[shm[r]].data \in Chunks

\* Semaphore 0 is up while a receiver is active, who will take it back.
Locked ==
    /\ \A s \in Senders : \A i \in Semaphores : adj[s][i] = 0
    /\ \A r \in Receivers :
          /\ adj[r][RCV_MUTEX] = IF Active(r) THEN 0 - 1 ELSE 0
          /\ adj[r][SND_MUTEX] \in {0, 0 - 1}
          /\ Opened(r) => adj[r][SND_MUTEX] = 0 - 1
          /\ ~ Opened(r) /\ pc[r] \notin {"cleanup", "exit"} => adj[r][SND_MUTEX] = 0
          /\ Active(r) => sem[RCV_MUTEX] = 1
    /\ (\A r \in Receivers : ~ Active(r)) => sem[RCV_MUTEX] = 0
    /\ ReceiversExclude

\* What holds whoever dies.
Base == TypeOK /\ Places /\ Announced /\ Locked

-----------------------------------------------------------------------------
(* Sessions *)

\* A receiver ended badly, and none works after one that did.
Bad(r) == status[r] \in {"failed", "killed"}
NoneAfter == \A r, q \in Receivers : r # q /\ Bad(r) => ~ Active(q)

\* s takes no part in a session (any more).
Over(s) ==
    \/ ~ Joined(s)
    \/ pc[s] = "testEof" /\ memory[shm[s]].snd_state = "EOF"

\* c is the beginning of the file of s.
Counted(c, s) == \A i \in DOMAIN c : c[i] = [from |-> s, nr |-> i]
Whole(c, s) == Len(c) = FileLen /\ Counted(c, s)

\* No session: a receiver may prepare one.
Between ==
    /\ sem[SND_MUTEX] = 0
    /\ \A s \in Senders : Over(s)
    /\ \A r \in Receivers :
          /\ ~ Opened(r)
          /\ pc[r] \in {"zero3", "shmget", "shmat", "init", "open"} => sem[MEMORY] = 0
          /\ pc[r] \in {"shmget", "shmat", "init", "open"} => sem[DATA] = 0
          /\ pc[r] = "open" => /\ memory[shm[r]].rcv_state = "OK"
                               /\ memory[shm[r]].snd_state = "NOT_DONE"
    /\ \A s \in Senders : pc[s] = "testEof" /\ shm[s] = key =>
          \E r \in Receivers : pc[r] = "cleanup" \/ Bad(r)

\* r waits for a sender to join.
Waiting(r) ==
    /\ pc[r] = "pData" /\ out[r] = << >>
    /\ sem[SND_MUTEX] = 1 /\ sem[MEMORY] = 1 /\ sem[DATA] = 0
    /\ memory[shm[r]].rcv_state = "OK" /\ memory[shm[r]].snd_state = "NOT_DONE"
    /\ \A s \in Senders : Over(s) /\ (pc[s] = "testEof" => shm[s] # shm[r])

\* The session of r and s, up to the end of both if r ends badly.
Bit(b) == IF b THEN 1 ELSE 0

\* s has the segment of an earlier receiver, and will find out.
Strange(s, r) ==
    /\ memory[shm[s]].rcv_state # "OK"
    /\ pc[s] \in {"pMemory", "testReceiver", "cleanup", "exit", "gone"}
    /\ pos[s] = 0 /\ out[r] = << >>
    /\ Opened(r) => pc[r] = "pData" /\ sem[DATA] = 0

\* They have the same segment. What s has read is written, but for one chunk.
Linked(s, r) ==
    LET m == memory[shm[r]]
        n == Len(out[r])
        announced == /\ m.rcv_state # "OK" /\ m.snd_state \in {"OK", "EOF"}
                     /\ m.snd_state = "OK" => /\ pos[s] = n + 1
                                              /\ m.data = [from |-> s, nr |-> pos[s]]
    IN  /\ shm[s] = shm[r]
        /\ Counted(out[r], s) /\ pos[s] \in {n, n + 1}
        /\ m.snd_state = "EOF" => /\ n = FileLen /\ pos[s] = n
                                  /\ pc[s] \notin {"pMemory", "testReceiver", "read"}
        /\ m.rcv_state = "OK" /\ Joined(s) /\ pc[s] # "resetReceiver" => pos[s] = n
        /\ pc[s] = "read" => pos[s] = n
        /\ pc[s] \in {"resetReceiver", "vData"} =>
              /\ m.snd_state \in {"OK", "EOF"}
              /\ m.snd_state = "OK" => pos[s] = n + 1 /\ m.data = [from |-> s, nr |-> pos[s]]
        /\ pc[s] = "vData" => m.rcv_state # "OK"
        /\ Opened(r) /\ (sem[DATA] = 1 \/ pc[r] = "testSender") => announced
        /\ pc[r] = "write" => announced /\ m.snd_state = "OK"
        /\ pc[r] \in {"ack", "resetSender", "vMemory"} => pos[s] = n

Session(s, r) ==
    /\ Opened(r) \/ (Bad(r) /\ pc[r] \in {"cleanup", "exit", "gone"})
    /\ sem[SND_MUTEX] = 0
    /\ pc[s] \notin {"shmget", "shmat", "join"} /\ shm[s] # NoSegment /\ shm[r] # NoSegment
    /\ \A t \in Senders \ {s} : Over(t) /\ (pc[t] = "testEof" => shm[t] # shm[r])
    /\ Opened(r) => sem[MEMORY] + sem[DATA] + Bit(Filling(s)) + Bit(Draining(r)) <= 1
    /\ Strange(s, r) \/ Linked(s, r)

\* What has been written, and reported.
Reported ==
    /\ \A r \in Receivers :
          /\ \E s \in Senders : Len(out[r]) <= FileLen /\ Counted(out[r], s)
          /\ Early(r) \/ pc[r] \in {"shmat", "init", "open"} => out[r] = << >>
          /\ status[r] = "ok" => \E s \in Senders : Whole(out[r], s)
    /\ \A s \in Senders :
          /\ pc[s] \in {"shmget", "shmat", "join"} => pos[s] = 0
          /\ status[s] = "ok" \/ (pc[s] = "testEof" /\ memory[shm[s]].snd_state = "EOF") =>
                \E r \in Receivers : Whole(out[r], s)

\* A segment says that its receiver is ready only if it is, or was and ended badly.
Stands(r) == pc[r] = "open" \/ Opened(r) \/ Bad(r)
Ready == \A g \in Segments :
    memory[g].rcv_state = "OK" =>
        \E r \in Receivers : shm[r] = g /\ Stands(r)

\* A process ends with a status.
Ended == \A p \in Processes :
    /\ pc[p] \in {"cleanup", "exit"} <=> status[p] \in {"ok", "failed"} /\ pc[p] # "gone"
    /\ status[p] = "running" => pc[p] # "gone"
    /\ status[p] = "killed" => pc[p] = "gone"

Phases == Between \/ (\E r \in Receivers : Waiting(r))
                  \/ (\E s \in Senders, r \in Receivers : Session(s, r))

SesInv == Base /\ Phases /\ Reported /\ Ready /\ Ended

-----------------------------------------------------------------------------
(* semop() calls: what the calls of the two programs come to. *)

\* The recursions of Semop and semop_many have solutions, so that they can be
\* unrolled; four operations and three arguments are as many as are used.
LEMMA SemopUnrolled ==
    ASSUME NEW val, NEW ad, NEW ops, Len(ops) \in 1 .. 4
    PROVE  LET s0 == [val |-> val, adj |-> ad, ok |-> TRUE]
               s1 == Perform(s0, ops[1])
               s2 == Perform(s1, ops[2])
               s3 == Perform(s2, ops[3])
               s4 == Perform(s3, ops[4])
           IN  /\ Len(ops) = 1 => Semop(val, ad, ops) = s1
               /\ Len(ops) = 2 => Semop(val, ad, ops) = s2
               /\ Len(ops) = 4 => Semop(val, ad, ops) = s4
<1> DEFINE s0 == [val |-> val, adj |-> ad, ok |-> TRUE]
           s1 == Perform(s0, ops[1])
           s2 == Perform(s1, ops[2])
           s3 == Perform(s2, ops[3])
           s4 == Perform(s3, ops[4])
           L == Len(ops)
           Is(f) == f = [n \in 0 .. L |-> IF n = 0 THEN s0 ELSE Perform(f[n - 1], ops[n])]
<1>1. Semop(val, ad, ops) = (CHOOSE f : Is(f))[L]
  BY DEF Semop
<1>2. L \in 1 .. 4
  OBVIOUS
<1> HIDE DEF s0, L
<1>3. \E f : Is(f)
  <2> DEFINE f == [n \in 0 .. L |-> IF n = 0 THEN s0 ELSE IF n = 1 THEN s1
                                     ELSE IF n = 2 THEN s2 ELSE IF n = 3 THEN s3 ELSE s4]
  <2>1. ASSUME NEW n \in 0 .. L
        PROVE  f[n] = IF n = 0 THEN s0 ELSE Perform(f[n - 1], ops[n])
    <3>1. n \in {0, 1, 2, 3, 4}
      BY <1>2
    <3>2. f[0] = s0
      BY <1>2
    <3>3. n >= 1 => f[1] = s1
      BY <1>2
    <3>4. n >= 2 => f[2] = s2
      BY <1>2
    <3>5. n >= 3 => f[3] = s3
      BY <1>2
    <3>6. n = 4 => f[4] = s4
      BY <1>2
    <3> HIDE DEF f
    <3> QED BY <3>1, <3>2, <3>3, <3>4, <3>5, <3>6
  <2>2. Is(f)
    BY <2>1
  <2> HIDE DEF f
  <2> QED BY <2>2
<1>4. ASSUME NEW g, Is(g)
      PROVE  (L = 1 => g[L] = s1) /\ (L = 2 => g[L] = s2) /\ (L = 4 => g[L] = s4)
  <2>1. \A n \in 0 .. L : g[n] = IF n = 0 THEN s0 ELSE Perform(g[n - 1], ops[n])
    BY <1>4
  <2>2. g[0] = s0 /\ g[1] = s1
    BY <1>2, <2>1
  <2>3. L >= 2 => g[2] = s2
    BY <1>2, <2>1, <2>2
  <2>4. L >= 3 => g[3] = s3
    BY <1>2, <2>1, <2>3
  <2>5. L >= 4 => g[4] = s4
    BY <1>2, <2>1, <2>4
  <2> QED BY <2>2, <2>3, <2>5
<1>5. Is(CHOOSE f : Is(f))
  BY <1>3
<1>6. /\ L = 1 => (CHOOSE f : Is(f))[L] = s1
      /\ L = 2 => (CHOOSE f : Is(f))[L] = s2
      /\ L = 4 => (CHOOSE f : Is(f))[L] = s4
  <2> DEFINE g == CHOOSE f : Is(f)
  <2>1. Is(g)
    BY <1>5
  <2> HIDE DEF g, Is, s1, s2, s3, s4
  <2>2. (L = 1 => g[L] = s1) /\ (L = 2 => g[L] = s2) /\ (L = 4 => g[L] = s4)
    BY <1>4, <2>1
  <2> QED BY <2>2 DEF g
<1> QED BY <1>1, <1>6 DEF s0, L

\* The same for the arguments of semop_many().
LEMMA ManyUnrolled ==
    ASSUME NEW args, NEW k \in 1 .. 3
    PROVE  semop_many(k, args) =
             IF k = 1 THEN << >> \o Expand(args[1])
             ELSE IF k = 2 THEN (<< >> \o Expand(args[1])) \o Expand(args[2])
             ELSE ((<< >> \o Expand(args[1])) \o Expand(args[2])) \o Expand(args[3])
<1> DEFINE s0 == << >>
           More(s, i) == s \o Expand(args[i])
           s1 == More(s0, 1)
           s2 == More(s1, 2)
           s3 == More(s2, 3)
           Is(f) == f = [n \in 0 .. k |-> IF n = 0 THEN s0 ELSE More(f[n - 1], n)]
<1>1. semop_many(k, args) = (CHOOSE f : Is(f))[k]
  BY DEF semop_many
<1>2. k \in 1 .. 3
  OBVIOUS
<1> HIDE DEF s0, More
<1>3. \E f : Is(f)
  <2> DEFINE f == [n \in 0 .. k |-> IF n = 0 THEN s0 ELSE IF n = 1 THEN s1
                                     ELSE IF n = 2 THEN s2 ELSE s3]
  <2>1. ASSUME NEW n \in 0 .. k
        PROVE  f[n] = IF n = 0 THEN s0 ELSE More(f[n - 1], n)
    <3>1. n \in {0, 1, 2, 3}
      BY <1>2
    <3>2. f[0] = s0
      BY <1>2
    <3>3. n >= 1 => f[1] = s1
      BY <1>2
    <3>4. n >= 2 => f[2] = s2
      BY <1>2
    <3>5. n >= 3 => f[3] = s3
      BY <1>2
    <3> HIDE DEF f
    <3> QED BY <3>1, <3>2, <3>3, <3>4, <3>5
  <2>2. Is(f)
    BY <2>1
  <2> HIDE DEF f
  <2> QED BY <2>2
<1>4. ASSUME NEW g, Is(g)
      PROVE  g[k] = IF k = 1 THEN s1 ELSE IF k = 2 THEN s2 ELSE s3
  <2>1. \A n \in 0 .. k : g[n] = IF n = 0 THEN s0 ELSE More(g[n - 1], n)
    BY <1>4
  <2>2. g[0] = s0 /\ g[1] = s1
    BY <1>2, <2>1
  <2>3. k >= 2 => g[2] = s2
    BY <1>2, <2>1, <2>2
  <2>4. k >= 3 => g[3] = s3
    BY <1>2, <2>1, <2>3
  <2> QED BY <1>2, <2>2, <2>3, <2>4
<1>5. (CHOOSE f : Is(f))[k] = IF k = 1 THEN s1 ELSE IF k = 2 THEN s2 ELSE s3
  <2> DEFINE g == CHOOSE f : Is(f)
  <2>1. Is(g)
    BY <1>3
  <2> HIDE DEF g, Is, s1, s2, s3
  <2>2. g[k] = IF k = 1 THEN s1 ELSE IF k = 2 THEN s2 ELSE s3
    BY <1>4, <2>1
  <2> QED BY <2>2 DEF g
<1> QED BY <1>1, <1>5 DEF s0, More

\* One, two and three arguments.
LEMMA ArgumentsUnrolled ==
    ASSUME NEW args
    PROVE  /\ semop_many(1, args) = << >> \o Expand(args[1])
           /\ semop_many(2, args) = (<< >> \o Expand(args[1])) \o Expand(args[2])
           /\ semop_many(3, args) =
                ((<< >> \o Expand(args[1])) \o Expand(args[2])) \o Expand(args[3])
<1> DEFINE s1 == << >> \o Expand(args[1])
           s2 == (<< >> \o Expand(args[1])) \o Expand(args[2])
           s3 == ((<< >> \o Expand(args[1])) \o Expand(args[2])) \o Expand(args[3])
<1>1. \A k \in 1 .. 3 : semop_many(k, args) = IF k = 1 THEN s1 ELSE IF k = 2 THEN s2 ELSE s3
  BY ManyUnrolled
<1> HIDE DEF s1, s2, s3
<1>2. /\ semop_many(1, args) = s1 /\ semop_many(2, args) = s2 /\ semop_many(3, args) = s3
  BY <1>1
<1> QED BY <1>2 DEF s1, s2, s3

\* What the concatenations of so few operations are, of whatever kind these are.
LEMMA ShortSequences ==
    ASSUME NEW a, NEW b, NEW c, NEW d
    PROVE  /\ << >> \o <<a>> = <<a>>
           /\ (<< >> \o <<a>>) \o <<b>> = <<a, b>>
           /\ ((<< >> \o <<a>>) \o <<b>>) \o <<c, d>> = <<a, b, c, d>>
<1>1. << >> \o <<a>> = <<a>>
  OBVIOUS
<1> DEFINE S == {a, b, c, d}
<1>2. <<a>> \o <<b>> = <<a, b>>
  <2>1. <<a>> \in Seq(S) /\ <<b>> \in Seq(S) /\ <<a, b>> \in Seq(S)
    OBVIOUS
  <2>2. /\ Len(<<a>>) = 1 /\ Len(<<b>>) = 1 /\ Len(<<a, b>>) = 2
        /\ <<a>>[1] = a /\ <<b>>[1] = b /\ <<a, b>>[1] = a /\ <<a, b>>[2] = b
    OBVIOUS
  <2> DEFINE x == <<a>>
             y == <<b>>
             z == <<a, b>>
  <2> HIDE DEF x, y, z, S
  <2>3. /\ x \o y \in Seq(S) /\ Len(x \o y) = 2
        /\ \A i \in 1 .. 2 : (x \o y)[i] = IF i <= 1 THEN x[i] ELSE y[i - 1]
    BY <2>1, <2>2, ConcatProperties DEF x, y
  <2>4. \A i \in 1 .. Len(x \o y) : (x \o y)[i] = z[i]
    BY <2>2, <2>3 DEF x, y, z
  <2>5. x \o y = z
    BY <2>1, <2>2, <2>3, <2>4, SeqEqual DEF z
  <2> QED BY <2>5 DEF x, y, z
<1>3. <<a, b>> \o <<c, d>> = <<a, b, c, d>>
  <2>1. <<a, b>> \in Seq(S) /\ <<c, d>> \in Seq(S) /\ <<a, b, c, d>> \in Seq(S)
    OBVIOUS
  <2>2. /\ Len(<<a, b>>) = 2 /\ Len(<<c, d>>) = 2 /\ Len(<<a, b, c, d>>) = 4
        /\ <<a, b>>[1] = a /\ <<a, b>>[2] = b /\ <<c, d>>[1] = c /\ <<c, d>>[2] = d
        /\ <<a, b, c, d>>[1] = a /\ <<a, b, c, d>>[2] = b
        /\ <<a, b, c, d>>[3] = c /\ <<a, b, c, d>>[4] = d
    OBVIOUS
  <2> DEFINE x == <<a, b>>
             y == <<c, d>>
             z == <<a, b, c, d>>
  <2> HIDE DEF x, y, z, S
  <2>3. /\ x \o y \in Seq(S) /\ Len(x \o y) = 4
        /\ \A i \in 1 .. 4 : (x \o y)[i] = IF i <= 2 THEN x[i] ELSE y[i - 2]
    BY <2>1, <2>2, ConcatProperties DEF x, y
  <2>4. \A i \in 1 .. Len(x \o y) : (x \o y)[i] = z[i]
    BY <2>2, <2>3 DEF x, y, z
  <2>5. x \o y = z
    BY <2>1, <2>2, <2>3, <2>4, SeqEqual DEF z
  <2> QED BY <2>5 DEF x, y, z
<1> QED BY <1>1, <1>2, <1>3

\* One operation that can go through, and one that cannot.
State(val, ad) == [val |-> val, adj |-> ad, ok |-> TRUE]

Changed(f, i, to) == [f EXCEPT ![i] = to]

\* An operation that can go through adds to the value, and with SEM_UNDO to the
\* adjustment.
LEMMA Performed ==
    ASSUME NEW val \in [Semaphores -> Nat], NEW ad \in [Semaphores -> Int],
           NEW i \in Semaphores, NEW op \in Int, op # 0,
           val[i] + op >= 0
    PROVE  /\ Perform(State(val, ad), semop_entry(i, op, "none")) =
                State(Changed(val, i, val[i] + op), ad)
           /\ Perform(State(val, ad), semop_entry(i, op, "SEM_UNDO")) =
                State(Changed(val, i, val[i] + op), Changed(ad, i, ad[i] - op))
<1> DEFINE val2 == Changed(val, i, val[i] + op)
<1>1. ASSUME NEW flag \in {"none", "SEM_UNDO"}, NEW ad2,
             ad2 = [ad EXCEPT ![i] = IF flag = "SEM_UNDO" THEN ad[i] - op ELSE ad[i]]
      PROVE  Perform(State(val, ad), semop_entry(i, op, flag)) = State(val2, ad2)
  <2> DEFINE o == semop_entry(i, op, flag)
             s == State(val, ad)
  <2>1. o.num = i /\ o.op = op /\ o.flag = flag
    BY DEF semop_entry
  <2>2. s.ok /\ s.val = val /\ s.adj = ad /\ s = [val |-> val, adj |-> ad, ok |-> TRUE]
    BY DEF State
  <2>3. ~ o.op = 0
    BY <2>1
  <2> HIDE DEF o
  <2>4. ~ s.val[o.num] + o.op < 0
    BY <2>1, <2>2
  <2>5. Perform(s, o) = [s EXCEPT !.val[o.num] = @ + o.op,
                                  !.adj[o.num] = IF o.flag = "SEM_UNDO" THEN @ - o.op ELSE @]
    BY <2>2, <2>3, <2>4, Zenon DEF Perform
  <2>6. Perform(s, o) = [s EXCEPT !.val[i] = @ + op,
                                  !.adj[i] = IF flag = "SEM_UNDO" THEN @ - op ELSE @]
    BY <2>1, <2>5, Zenon
  <2> HIDE DEF s
  <2>7. Perform(s, o) = State([val EXCEPT ![i] = val[i] + op],
                             [ad EXCEPT ![i] = IF flag = "SEM_UNDO" THEN ad[i] - op ELSE ad[i]])
    BY <2>2, <2>6 DEF State
  <2> QED BY <2>7, <1>1 DEF o, s, Changed
<1>2. ad = [ad EXCEPT ![i] = IF "none" = "SEM_UNDO" THEN ad[i] - op ELSE ad[i]]
  OBVIOUS
<1>3. Perform(State(val, ad), semop_entry(i, op, "none")) = State(val2, ad)
  BY <1>1, <1>2
<1>4. Perform(State(val, ad), semop_entry(i, op, "SEM_UNDO")) =
        State(val2, Changed(ad, i, ad[i] - op))
  <2>1. Changed(ad, i, ad[i] - op) =
          [ad EXCEPT ![i] = IF "SEM_UNDO" = "SEM_UNDO" THEN ad[i] - op ELSE ad[i]]
    BY DEF Changed
  <2> QED BY <1>1, <2>1
<1> QED BY <1>3, <1>4

\* An operation that cannot go through spoils the call.
LEMMA NotPerformed ==
    ASSUME NEW val, NEW ad, NEW i, NEW op \in Int, NEW flag,
           IF op = 0 THEN val[i] # 0 ELSE val[i] + op < 0
    PROVE  ~ Perform(State(val, ad), semop_entry(i, op, flag)).ok
<1> DEFINE o == semop_entry(i, op, flag)
           s == State(val, ad)
<1>1. o.num = i /\ o.op = op /\ o.flag = flag
  BY DEF semop_entry
<1>2. s.ok /\ s.val = val /\ s.adj = ad /\ s = [val |-> val, adj |-> ad, ok |-> TRUE]
  BY DEF State
<1> HIDE DEF o
<1>3. ASSUME op = 0 PROVE ~ Perform(s, o).ok
  <2>1. Perform(s, o) = [s EXCEPT !.ok = s.val[o.num] = 0]
    BY <1>1, <1>2, <1>3, Zenon DEF Perform
  <2>2. Perform(s, o) = [s EXCEPT !.ok = FALSE]
    BY <1>1, <1>2, <1>3, <2>1
  <2> QED BY <1>2, <2>2
<1>4. ASSUME op # 0 PROVE ~ Perform(s, o).ok
  <2>1. s.val[o.num] + o.op < 0 /\ ~ o.op = 0
    BY <1>1, <1>2, <1>4
  <2>2. Perform(s, o) = [s EXCEPT !.ok = FALSE]
    BY <1>2, <2>1, Zenon DEF Perform
  <2> QED BY <1>2, <2>2
<1> QED BY <1>3, <1>4 DEF o, s

\* The wait for zero.
LEMMA ZeroPerformed ==
    ASSUME NEW val, NEW ad, NEW i, NEW flag, val[i] = 0
    PROVE  Perform(State(val, ad), semop_entry(i, 0, flag)) = State(val, ad)
<1> DEFINE o == semop_entry(i, 0, flag)
           s == State(val, ad)
<1>1. o.num = i /\ o.op = 0
  BY DEF semop_entry
<1>2. s.ok /\ s.val = val /\ s = [val |-> val, adj |-> ad, ok |-> TRUE]
  BY DEF State
<1> HIDE DEF o
<1>3. Perform(s, o) = [s EXCEPT !.ok = s.val[o.num] = 0]
  BY <1>1, <1>2, Zenon DEF Perform
<1>4. Perform(s, o) = [s EXCEPT !.ok = TRUE]
  BY <1>1, <1>2, <1>3
<1>5. [s EXCEPT !.ok = TRUE] = s
  BY <1>2
<1> QED BY <1>4, <1>5 DEF o

Sems == sem \in [Semaphores -> Nat] /\ adj \in [Processes -> [Semaphores -> Int]]

\* P and V.
LEMMA OneOperation ==
    ASSUME Sems, NEW p \in Processes, NEW i \in Semaphores, NEW op \in {1, -1},
           NEW args, args[1] = semop_entry(i, op, "none"), SemopMany(p, 1, args)
    PROVE  /\ sem[i] + op >= 0 /\ adj' = adj
           /\ sem' = [sem EXCEPT ![i] = sem[i] + op]
<1> DEFINE o == semop_entry(i, op, "none")
           s1 == Semop(sem, adj[p], semop_many(1, args))
<1>1. semop_many(1, args) = <<o>>
  <2>1. Expand(args[1]) = <<o>>
    BY DEF Expand, semop_entry
  <2> HIDE DEF o
  <2> QED BY <2>1, ArgumentsUnrolled, ShortSequences
<1>2. s1 = Perform(State(sem, adj[p]), o)
  <2> HIDE DEF o
  <2>1. Len(<<o>>) = 1 /\ <<o>>[1] = o
    OBVIOUS
  <2>2. Semop(sem, adj[p], <<o>>) = Perform(State(sem, adj[p]), o)
    BY <2>1, SemopUnrolled DEF State
  <2> QED BY <1>1, <2>2
<1>3. s1.ok /\ sem' = s1.val /\ adj' = [adj EXCEPT ![p] = s1.adj]
  BY DEF SemopMany
<1> HIDE DEF s1, o
<1>4. sem \in [Semaphores -> Nat] /\ adj[p] \in [Semaphores -> Int] /\ op \in Int /\ op # 0
  BY DEF Sems
<1> DEFINE v1 == Changed(sem, i, sem[i] + op)
<1>5. /\ sem[i] + op >= 0
      /\ s1 = State(v1, adj[p])
  <2>1. sem[i] + op >= 0
    BY <1>2, <1>3, <1>4, NotPerformed DEF o
  <2>3. s1 = State(v1, adj[p])
    BY <1>2, <1>4, <2>1, Performed DEF o
  <2> QED BY <2>1, <2>3
<1>6. s1.val = [sem EXCEPT ![i] = sem[i] + op] /\ s1.adj = adj[p]
  BY <1>4, <1>5 DEF State, Changed
<1>7. adj' = adj
  BY <1>3, <1>6 DEF Sems
<1> QED BY <1>3, <1>5, <1>6, <1>7

\* The wait-for-zero of a receiver, and the raising that is undone.
LEMMA LockOperations ==
    ASSUME Sems, NEW r \in Processes,
           SemopMany(r, 2, <<semop_entry(RCV_MUTEX, 0, "none"),
                             semop_entry(RCV_MUTEX, 1, "SEM_UNDO")>>)
    PROVE  /\ sem[RCV_MUTEX] = 0 /\ sem' = [sem EXCEPT ![RCV_MUTEX] = 1]
           /\ adj' = [adj EXCEPT ![r] = [adj[r] EXCEPT ![RCV_MUTEX] = adj[r][RCV_MUTEX] - 1]]
<1> DEFINE o == semop_entry(RCV_MUTEX, 0, "none")
           u == semop_entry(RCV_MUTEX, 1, "SEM_UNDO")
           s0 == State(sem, adj[r])
           s1 == Perform(s0, o)
           s2 == Semop(sem, adj[r], semop_many(2, <<o, u>>))
<1>1. semop_many(2, <<o, u>>) = <<o, u>>
  <2>1. Expand(o) = <<o>> /\ Expand(u) = <<u>>
    BY DEF Expand, semop_entry
  <2> HIDE DEF o, u
  <2>2. <<o, u>>[1] = o /\ <<o, u>>[2] = u
    OBVIOUS
  <2> DEFINE args == <<o, u>>
  <2> HIDE DEF args
  <2>3. semop_many(2, args) = (<< >> \o <<o>>) \o <<u>>
    BY <2>1, <2>2, ArgumentsUnrolled DEF args
  <2> QED BY <2>3, ShortSequences DEF args
<1>2. s2 = Perform(s1, u)
  <2> HIDE DEF o, u
  <2> DEFINE ops == <<o, u>>
  <2>1. Len(ops) = 2 /\ ops[1] = o /\ ops[2] = u
    OBVIOUS
  <2> HIDE DEF ops
  <2>2. Semop(sem, adj[r], ops) = Perform(s1, u)
    BY <2>1, SemopUnrolled DEF State
  <2> QED BY <1>1, <2>2 DEF ops
<1>3. s2.ok /\ sem' = s2.val /\ adj' = [adj EXCEPT ![r] = s2.adj]
  BY DEF SemopMany
<1> HIDE DEF s2
<1>6. sem[0] = 0
  <2>1. CASE sem[0] # 0
    <3>1. ~ s1.ok
      BY <2>1, NotPerformed DEF RCV_MUTEX
    <3> HIDE DEF s1
    <3>2. s2 = s1
      BY <1>2, <3>1 DEF Perform
    <3> QED BY <1>3, <3>1, <3>2
  <2> QED BY <2>1
<1>7. s1 = State(sem, adj[r])
  BY <1>6, ZeroPerformed DEF RCV_MUTEX
<1> HIDE DEF s1
<1> DEFINE v2 == Changed(sem, 0, sem[0] + 1)
           a2 == Changed(adj[r], 0, adj[r][0] - 1)
<1>8. s2 = State(v2, a2)
  <2>1. /\ sem \in [Semaphores -> Nat] /\ adj[r] \in [Semaphores -> Int]
        /\ 0 \in Semaphores /\ sem[0] + 1 >= 0 /\ 1 \in Int /\ 1 # 0
    BY DEF Sems, Semaphores
  <2> QED BY <1>2, <1>7, <2>1, Performed DEF RCV_MUTEX
<1>9. s2.val = [sem EXCEPT ![0] = 1] /\ s2.adj = [adj[r] EXCEPT ![0] = adj[r][0] - 1]
  BY <1>6, <1>8 DEF State, Changed
<1> QED BY <1>3, <1>6, <1>9 DEF RCV_MUTEX

\* The opening of a session: one operation each, and the pair that cancels out.
LEMMA OpenOperations ==
    ASSUME Sems, NEW r \in Processes,
           SemopMany(r, 3, <<semop_entry(SND_MUTEX, 1, "SEM_UNDO"),
                             semop_entry(MEMORY, 1, "none"),
                             semop_adj(MEMORY, 2)>>)
    PROVE  /\ sem' = [sem EXCEPT ![SND_MUTEX] = @ + 1, ![MEMORY] = @ + 1]
           /\ adj' = [adj EXCEPT ![r] = [adj[r] EXCEPT ![SND_MUTEX] = @ - 1, ![MEMORY] = @ + 2]]
<1> DEFINE o == semop_entry(SND_MUTEX, 1, "SEM_UNDO")
           u == semop_entry(MEMORY, 1, "none")
           e == semop_adj(MEMORY, 2)
           v == semop_entry(MEMORY, 2, "none")
           w == semop_entry(MEMORY, 0 - 2, "SEM_UNDO")
           s0 == State(sem, adj[r])
           s1 == Perform(s0, o)
           s2 == Perform(s1, u)
           s3 == Perform(s2, v)
           s4 == Semop(sem, adj[r], semop_many(3, <<o, u, e>>))
<1>1. semop_many(3, <<o, u, e>>) = <<o, u, v, w>>
  <2>1. Expand(o) = <<o>> /\ Expand(u) = <<u>> /\ Expand(e) = <<v, w>>
    BY DEF Expand, semop_entry, semop_adj
  <2> HIDE DEF o, u, v, w, e
  <2>2. <<o, u, e>>[1] = o /\ <<o, u, e>>[2] = u /\ <<o, u, e>>[3] = e
    OBVIOUS
  <2> DEFINE args == <<o, u, e>>
  <2> HIDE DEF args
  <2>3. semop_many(3, args) = ((<< >> \o <<o>>) \o <<u>>) \o <<v, w>>
    BY <2>1, <2>2, ArgumentsUnrolled DEF args
  <2> QED BY <2>3, ShortSequences DEF args
<1>2. s4 = Perform(s3, w)
  <2> HIDE DEF o, u, v, w
  <2> DEFINE ops == <<o, u, v, w>>
  <2>1. Len(ops) = 4 /\ ops[1] = o /\ ops[2] = u /\ ops[3] = v /\ ops[4] = w
    OBVIOUS
  <2> HIDE DEF ops
  <2>2. Semop(sem, adj[r], ops) = Perform(s3, w)
    BY <2>1, SemopUnrolled DEF State
  <2> QED BY <1>1, <2>2 DEF ops
<1>3. s4.ok /\ sem' = s4.val /\ adj' = [adj EXCEPT ![r] = s4.adj]
  BY DEF SemopMany
<1> HIDE DEF s4
<1>4. /\ sem \in [Semaphores -> Nat] /\ adj[r] \in [Semaphores -> Int]
      /\ 1 \in Semaphores /\ 2 \in Semaphores /\ 1 \in Int /\ 2 \in Int /\ 0 - 2 \in Int
  BY DEF Sems, Semaphores
<1> DEFINE v1 == Changed(sem, 1, sem[1] + 1)
           v2 == Changed(v1, 2, v1[2] + 1)
           v3 == Changed(v2, 2, v2[2] + 2)
           v4 == Changed(v3, 2, v3[2] + (0 - 2))
           a1 == Changed(adj[r], 1, adj[r][1] - 1)
           a4 == Changed(a1, 2, a1[2] - (0 - 2))
<1>5. v1 \in [Semaphores -> Nat] /\ v1[2] = sem[2] /\ a1 \in [Semaphores -> Int] /\ a1[2] = adj[r][2]
  BY <1>4 DEF Changed
<1>0. /\ 1 # 0 /\ 2 # 0 /\ 0 - 2 # 0
  OBVIOUS
<1> HIDE DEF v1, v2, v3, v4, a1, a4
<1>6. s1 = State(v1, a1)
  <2>1. sem[1] + 1 >= 0
    BY <1>4
  <2> QED BY <1>0, <1>4, <2>1, Performed DEF SND_MUTEX, v1, a1
<1> HIDE DEF s1
<1>7. v2 \in [Semaphores -> Nat] /\ v2[2] = sem[2] + 1
  BY <1>4, <1>5 DEF v2, Changed
<1>8. s2 = State(v2, a1)
  <2>1. v1[2] + 1 >= 0
    BY <1>5, <1>4
  <2> QED BY <1>0, <1>4, <1>5, <1>6, <2>1, Performed DEF MEMORY, v2
<1>9. v3 \in [Semaphores -> Nat] /\ v3[2] = sem[2] + 3
  BY <1>4, <1>5, <1>7 DEF v3, Changed
<1> HIDE DEF s2
<1>10. s3 = State(v3, a1)
  <2>1. v2[2] + 2 >= 0
    BY <1>4, <1>7
  <2> QED BY <1>0, <1>4, <1>5, <1>7, <1>8, <2>1, Performed DEF MEMORY, v3
<1> HIDE DEF s3
<1>11. s4 = State(v4, a4)
  <2>1. v3[2] + (0 - 2) >= 0
    BY <1>4, <1>9
  <2> QED BY <1>0, <1>2, <1>4, <1>5, <1>9, <1>10, <2>1, Performed DEF MEMORY, v4, a4
<1>12. v4 = [sem EXCEPT ![1] = sem[1] + 1, ![2] = sem[2] + 1]
  BY <1>4, <1>5, <1>7, <1>9 DEF v1, v2, v3, v4, Changed
<1>13. a4 = [adj[r] EXCEPT ![1] = adj[r][1] - 1, ![2] = adj[r][2] + 2]
  BY <1>4, <1>5, <1>9 DEF a1, a4, Changed
<1>14. s4.val = v4 /\ s4.adj = a4
  BY <1>11 DEF State
<1> QED BY <1>3, <1>12, <1>13, <1>14 DEF SND_MUTEX, MEMORY

\* What the calls of the actions do to the semaphores.
Takes(i) == sem[i] >= 1 /\ sem' = [sem EXCEPT ![i] = sem[i] - 1] /\ adj' = adj
Gives(i) == sem' = [sem EXCEPT ![i] = sem[i] + 1] /\ adj' = adj

\* A call that takes one unit waits for it, and leaves the adjustments alone.
LEMMA OneTaken ==
    ASSUME Sems, NEW p \in Processes, NEW i \in Semaphores, NEW rest,
           \/ SemopMany(p, 1, <<semop_entry(i, -1, "none")>>)
           \/ SemopMany(p, 1, <<semop_entry(i, -1, "none"), rest>>)
    PROVE  Takes(i)
<1> DEFINE o == semop_entry(i, -1, "none")
<1>1. <<o>>[1] = o /\ <<o, rest>>[1] = o
  OBVIOUS
<1>2. sem[i] + (-1) >= 0 /\ adj' = adj /\ sem' = [sem EXCEPT ![i] = sem[i] + (-1)]
  <2>1. PICK args : args[1] = o /\ SemopMany(p, 1, args)
    BY <1>1
  <2> HIDE DEF o
  <2>2. args[1] = semop_entry(i, -1, "none") /\ -1 \in {1, -1}
    BY <2>1 DEF o
  <2> QED BY <2>1, <2>2, OneOperation
<1>3. sem[i] \in Nat /\ sem[i] + (-1) = sem[i] - 1
  BY DEF Sems
<1>4. sem[i] >= 1
  BY <1>2, <1>3
<1> QED BY <1>2, <1>3, <1>4 DEF Takes

\* A call that gives one unit.
LEMMA OneGiven ==
    ASSUME Sems, NEW p \in Processes, NEW i \in Semaphores,
           SemopMany(p, 1, <<semop_entry(i, 1, "none")>>)
    PROVE  Gives(i)
<1> DEFINE o == semop_entry(i, 1, "none")
           args == <<o>>
<1>1. args[1] = o
  OBVIOUS
<1>2. adj' = adj /\ sem' = [sem EXCEPT ![i] = sem[i] + 1]
  <2> HIDE DEF args
  <2>1. args[1] = semop_entry(i, 1, "none") /\ 1 \in {1, -1} /\ SemopMany(p, 1, args)
    BY <1>1 DEF args
  <2> QED BY <2>1, OneOperation
<1> QED BY <1>2 DEF Gives

\* Every operation of the two programs.
LEMMA SenderOperations ==
    ASSUME Sems, NEW s \in Senders
    PROVE  /\ Join(s) => Takes(SND_MUTEX)
           /\ PMemory(s) => Takes(MEMORY)
           /\ VData(s) => Gives(DATA)
<1>1. /\ s \in Processes /\ SND_MUTEX \in Semaphores /\ MEMORY \in Semaphores
      /\ DATA \in Semaphores
  BY DEF Processes, Semaphores, SND_MUTEX, MEMORY, DATA
<1>2. Join(s) => Takes(SND_MUTEX)
  BY <1>1, OneTaken DEF Join
<1>3. PMemory(s) => Takes(MEMORY)
  BY <1>1, OneTaken DEF PMemory
<1>4. VData(s) => Gives(DATA)
  BY <1>1, OneGiven DEF VData
<1> QED BY <1>2, <1>3, <1>4

\* The wait-for-zero raises semaphore 0 with an adjustment; Open raises two
\* semaphores, adjusts SND_MUTEX by -1 and MEMORY by 2.
LEMMA ReceiverOperations ==
    ASSUME Sems, NEW r \in Receivers
    PROVE  /\ PData(r) => Takes(DATA)
           /\ VMemory(r) => Gives(MEMORY)
           /\ LockReceivers(r) =>
                /\ sem[RCV_MUTEX] = 0 /\ sem' = [sem EXCEPT ![RCV_MUTEX] = 1]
                /\ adj' = [adj EXCEPT ![r] =
                             [adj[r] EXCEPT ![RCV_MUTEX] = adj[r][RCV_MUTEX] - 1]]
           /\ Open(r) =>
                /\ sem' = [sem EXCEPT ![SND_MUTEX] = @ + 1, ![MEMORY] = @ + 1]
                /\ adj' = [adj EXCEPT ![r] =
                             [adj[r] EXCEPT ![SND_MUTEX] = @ - 1, ![MEMORY] = @ + 2]]
<1>1. r \in Processes /\ MEMORY \in Semaphores /\ DATA \in Semaphores
  BY DEF Processes, Semaphores, MEMORY, DATA
<1>2. PData(r) => Takes(DATA)
  BY <1>1, OneTaken DEF PData
<1>3. VMemory(r) => Gives(MEMORY)
  BY <1>1, OneGiven DEF VMemory
<1>4. LockReceivers(r) =>
        /\ sem[RCV_MUTEX] = 0 /\ sem' = [sem EXCEPT ![RCV_MUTEX] = 1]
        /\ adj' = [adj EXCEPT ![r] = [adj[r] EXCEPT ![RCV_MUTEX] = adj[r][RCV_MUTEX] - 1]]
  BY <1>1, LockOperations DEF LockReceivers
<1>5. Open(r) =>
        /\ sem' = [sem EXCEPT ![SND_MUTEX] = @ + 1, ![MEMORY] = @ + 1]
        /\ adj' = [adj EXCEPT ![r] =
                     [adj[r] EXCEPT ![SND_MUTEX] = @ - 1, ![MEMORY] = @ + 2]]
  BY <1>1, OpenOperations DEF Open
<1> QED BY <1>2, <1>3, <1>4, <1>5

\* The adjustments of a process that ends.
LEMMA Undone ==
    ASSUME Sems, NEW p \in Processes, sem' = Undo(sem, adj[p])
    PROVE  /\ sem' \in [Semaphores -> Nat]
           /\ \A i \in Semaphores :
                sem'[i] = IF sem[i] + adj[p][i] < 0 THEN 0 ELSE sem[i] + adj[p][i]
BY DEF Sems, Undo

-----------------------------------------------------------------------------
(* What holds whoever dies *)

\* The identifiers are positive: whoever uses a segment has attached it.
LEMMA Attached ==
    ASSUME TypeOK, Places, NEW p \in Processes
    PROVE  /\ ~ NullStep(p)
           /\ \A g \in Segments : ShmId(g) > 0
<1>1. \A g \in Segments : ShmId(g) = g /\ g > 0
  BY DEF Places, ShmId, Segments
<1>2. ~ ShmSkipped(p)
  BY <1>1 DEF ShmSkipped, Goto, Places, TypeOK
<1>3. ~ Crash(p)
  BY DEF Crash, Places, Using, UsingPlaces
<1> QED BY <1>1, <1>2, <1>3 DEF NullStep


\* There is a number for one more segment: each process asks for at most one.
LEMMA NewSegment ==
    ASSUME TypeOK, Places, SemAssumption, NEW p \in Processes, shm[p] = NoSegment
    PROVE  created + 1 \in Segments
<1> DEFINE S == Owners
<1>1. IsFiniteSet(Processes)
  BY FS_Union DEF SemAssumption, Processes
<1>2. S \subseteq Processes /\ S # Processes
  BY DEF Owners
<1>3. Cardinality(S) < Cardinality(Processes) /\ Cardinality(Processes) \in Nat /\ Cardinality(S) \in Nat
  <2>1. Cardinality(S) <= Cardinality(Processes) /\ (Cardinality(S) = Cardinality(Processes) => S = Processes)
    BY <1>1, <1>2, FS_Subset
  <2>2. Cardinality(S) \in Nat /\ Cardinality(Processes) \in Nat
    BY <1>1, <1>2, FS_Subset, FS_CardinalityType
  <2> QED BY <1>2, <2>1, <2>2
<1>4. created <= Cardinality(S) /\ created \in Nat
  BY DEF Places, TypeOK, Segments
<1> QED BY <1>3, <1>4 DEF Segments

\* What a process that uses its segment sees.
LEMMA InUse ==
    ASSUME TypeOK, Places, NEW p \in Processes, Using(p)
    PROVE  /\ attached[p] = shm[p] /\ attached[p] \in Segments
           /\ Mem(p) = memory[shm[p]]
           /\ Mem(p) \in [rcv_state : {"NOT_DONE", "OK", "IOERROR"},
                          snd_state : {"NOT_DONE", "OK", "EOF", "IOERROR"},
                          data : Chunks \cup {NoChunk}]
BY DEF TypeOK, Places, Mem

\* An operation of semop() keeps the types.
LEMMA Handed ==
    ASSUME Sems, NEW i \in Semaphores, Takes(i) \/ Gives(i)
    PROVE  sem' \in [Semaphores -> Nat] /\ adj' \in [Processes -> [Semaphores -> Int]]
<1>1. CASE Takes(i)
  BY <1>1 DEF Takes, Sems
<1>2. CASE Gives(i)
  BY <1>2 DEF Gives, Sems
<1> QED BY <1>1, <1>2

\* No step leaves the types.
LEMMA TypeStep ==
    ASSUME TypeOK, Places, Announced, SemAssumption, [Next]_vars
    PROVE  TypeOK'
<1>0. Sems
  BY DEF TypeOK, Sems
<1> DEFINE Record == [rcv_state : {"NOT_DONE", "OK", "IOERROR"},
                      snd_state : {"NOT_DONE", "OK", "EOF", "IOERROR"},
                      data : Chunks \cup {NoChunk}]
<1>1. /\ \A s \in Senders : s \in Processes
      /\ \A r \in Receivers : r \in Processes
      /\ \A p \in Killable : p \in Processes
  BY DEF Processes, SemAssumption
<1>2. ASSUME NEW p \in Processes, ShmGet(p) PROVE TypeOK'
  <2>1. shm[p] = NoSegment
    BY <1>2 DEF Places, Early, EarlyPlaces, ShmGet, Goto
  <2>2. created + 1 \in Segments
    BY <2>1, NewSegment
  <2>3. /\ key' \in Segments \cup {NoSegment} /\ created' \in Segments \cup {0}
        /\ shm' \in [Processes -> Segments \cup {NoSegment}]
    <3>1. /\ key \in Segments \cup {NoSegment} /\ created \in Segments \cup {0}
          /\ shm \in [Processes -> Segments \cup {NoSegment}]
      BY DEF TypeOK
    <3>2. CASE key # NoSegment
      BY <1>2, <3>1, <3>2 DEF ShmGet
    <3>3. CASE key = NoSegment
      BY <1>2, <2>2, <3>1, <3>3 DEF ShmGet
    <3> QED BY <3>2, <3>3
  <2>4. pc' \in [Processes -> SenderPlaces \cup ReceiverPlaces]
    BY <1>2 DEF ShmGet, TypeOK, Goto, SenderPlaces
  <2> QED BY <1>2, <2>3, <2>4 DEF ShmGet, TypeOK, semVars
<1>3. ASSUME NEW p \in Processes, ShmAttach(p, "join") \/ ShmAttach(p, "init") PROVE TypeOK'
  <2>1. ASSUME NEW next \in {"join", "init"}, ShmAttach(p, next) PROVE TypeOK'
    BY <2>1 DEF ShmAttach, TypeOK, Goto, semVars, SenderPlaces, ReceiverPlaces
  <2> QED BY <1>3, <2>1
<1>4. ASSUME NEW p \in Processes, ShmAttachFails(p) PROVE TypeOK'
  BY <1>4 DEF ShmAttachFails, TypeOK, Goto, Return, semVars, shmVars, SenderPlaces
<1>5. ASSUME NEW s \in Senders, Join(s) PROVE TypeOK'
  <2>1. SND_MUTEX \in Semaphores
    BY DEF Semaphores, SND_MUTEX
  <2>2. sem' \in [Semaphores -> Nat] /\ adj' \in [Processes -> [Semaphores -> Int]]
    BY <1>0, <1>5, <2>1, SenderOperations, Handed
  <2> QED BY <1>1, <1>5, <2>2 DEF Join, TypeOK, Goto, shmVars, SenderPlaces
<1>6. ASSUME NEW s \in Senders, PMemory(s) PROVE TypeOK'
  <2>1. MEMORY \in Semaphores
    BY DEF Semaphores, MEMORY
  <2>2. sem' \in [Semaphores -> Nat] /\ adj' \in [Processes -> [Semaphores -> Int]]
    BY <1>0, <1>6, <2>1, SenderOperations, Handed
  <2> QED BY <1>1, <1>6, <2>2 DEF PMemory, TypeOK, Goto, shmVars, SenderPlaces
<1>7. ASSUME NEW s \in Senders, ReceiverOk(s) \/ ReceiverNotOk(s) PROVE TypeOK'
  <2>1. CASE ReceiverOk(s)
    BY <1>1, <2>1 DEF ReceiverOk, TypeOK, Goto, semVars, shmVars, SenderPlaces
  <2>2. CASE ReceiverNotOk(s)
    BY <1>1, <2>2 DEF ReceiverNotOk, TypeOK, Goto, Return, semVars, shmVars, SenderPlaces
  <2> QED BY <1>7, <2>1, <2>2
<1>8. ASSUME NEW s \in Senders, Read(s) PROVE TypeOK'
  <2>1. attached[s] \in Segments /\ Mem(s) \in Record
    BY <1>1, <1>8, InUse DEF Read, Goto, Using, UsingPlaces
  <2>2. CASE pos[s] < FileLen
    <3>1. [from |-> s, nr |-> pos[s] + 1] \in Chunks
      BY <2>2 DEF TypeOK, Chunks, SemAssumption
    <3>2. memory' \in [Segments -> Record]
      <4>1. [Mem(s) EXCEPT !.data = [from |-> s, nr |-> pos[s] + 1], !.snd_state = "OK"] \in Record
        BY <2>1, <3>1
      <4> QED BY <1>8, <2>1, <2>2, <4>1 DEF Read, Store, TypeOK
    <3>3. pos' \in [Senders -> 0 .. FileLen]
      <4>1. pos[s] + 1 \in 0 .. FileLen /\ pos \in [Senders -> 0 .. FileLen]
        BY <2>2 DEF TypeOK, SemAssumption
      <4>2. pos' = [pos EXCEPT ![s] = pos[s] + 1]
        BY <1>8, <2>2 DEF Read
      <4> QED BY <4>1, <4>2
    <3> QED BY <1>1, <1>8, <2>2, <3>2, <3>3
            DEF Read, TypeOK, Goto, semVars, shmVars, SenderPlaces, SemAssumption
  <2>3. CASE ~ pos[s] < FileLen
    <3>1. memory' \in [Segments -> Record]
      <4>1. [Mem(s) EXCEPT !.snd_state = "EOF"] \in Record
        BY <2>1
      <4> QED BY <1>8, <2>1, <2>3, <4>1 DEF Read, Store, TypeOK
    <3> QED BY <1>1, <1>8, <2>3, <3>1 DEF Read, TypeOK, Goto, semVars, shmVars, SenderPlaces
  <2> QED BY <2>2, <2>3
<1>9. ASSUME NEW s \in Senders, ReadFails(s) PROVE TypeOK'
  <2>1. attached[s] \in Segments /\ Mem(s) \in Record
    BY <1>1, <1>9, InUse DEF ReadFails, Goto, Return, Using, UsingPlaces
  <2>2. memory' \in [Segments -> Record]
    BY <1>9, <2>1 DEF ReadFails, Store, TypeOK
  <2> QED BY <1>1, <1>9, <2>2
          DEF ReadFails, TypeOK, Goto, Return, semVars, shmVars, SenderPlaces,
              SemAssumption
<1>10. ASSUME NEW s \in Senders, ResetReceiver(s) PROVE TypeOK'
  <2>1. attached[s] \in Segments /\ Mem(s) \in Record
    BY <1>1, <1>10, InUse DEF ResetReceiver, Goto, Using, UsingPlaces
  <2>2. memory' \in [Segments -> Record]
    BY <1>10, <2>1 DEF ResetReceiver, Store, TypeOK
  <2> QED BY <1>1, <1>10, <2>2 DEF ResetReceiver, TypeOK, Goto, semVars, shmVars, SenderPlaces
<1>11. ASSUME NEW s \in Senders, VData(s) PROVE TypeOK'
  <2>1. DATA \in Semaphores
    BY DEF Semaphores, DATA
  <2>2. sem' \in [Semaphores -> Nat] /\ adj' \in [Processes -> [Semaphores -> Int]]
    BY <1>0, <1>11, <2>1, SenderOperations, Handed
  <2> QED BY <1>1, <1>11, <2>2 DEF VData, TypeOK, Goto, shmVars, SenderPlaces
<1>12. ASSUME NEW s \in Senders, TestEof(s) PROVE TypeOK'
  BY <1>1, <1>12 DEF TestEof, TypeOK, Goto, Return, semVars, shmVars, SenderPlaces
<1>13. ASSUME NEW r \in Receivers, LockReceivers(r) PROVE TypeOK'
  <2>1. /\ sem' \in [Semaphores -> Nat]
        /\ adj' \in [Processes -> [Semaphores -> Int]]
    <3>1. /\ sem' = [sem EXCEPT ![RCV_MUTEX] = 1]
          /\ adj' = [adj EXCEPT ![r] =
                       [adj[r] EXCEPT ![RCV_MUTEX] = adj[r][RCV_MUTEX] - 1]]
      BY <1>0, <1>13, ReceiverOperations
    <3>2. [adj[r] EXCEPT ![RCV_MUTEX] = adj[r][RCV_MUTEX] - 1] \in [Semaphores -> Int]
      BY <1>1 DEF TypeOK, Semaphores, RCV_MUTEX
    <3>3. sem' \in [Semaphores -> Nat]
      BY <3>1 DEF TypeOK
    <3> QED BY <3>1, <3>2, <3>3 DEF TypeOK
  <2> QED BY <1>1, <1>13, <2>1 DEF LockReceivers, TypeOK, Goto, shmVars, ReceiverPlaces
<1>14. ASSUME NEW r \in Receivers, NEW i \in 1 .. 3, ZeroSemaphore(r, i) PROVE TypeOK'
  <2>1. /\ sem' \in [Semaphores -> Nat]
        /\ adj' \in [Processes -> [Semaphores -> Int]]
    BY <1>14 DEF ZeroSemaphore, TypeOK, Semaphores
  <2>2. pc' \in [Processes -> SenderPlaces \cup ReceiverPlaces]
    BY <1>1, <1>14 DEF ZeroSemaphore, Goto, TypeOK, ReceiverPlaces
  <2> QED BY <1>14, <2>1, <2>2 DEF ZeroSemaphore, TypeOK, shmVars
<1>15. ASSUME NEW r \in Receivers, InitMemory(r) PROVE TypeOK'
  <2>1. attached[r] \in Segments /\ Mem(r) \in Record
    BY <1>1, <1>15, InUse DEF InitMemory, Goto, Using, UsingPlaces
  <2>2. memory' \in [Segments -> Record]
    BY <1>15, <2>1 DEF InitMemory, Store, TypeOK
  <2> QED BY <1>1, <1>15, <2>2 DEF InitMemory, TypeOK, Goto, semVars, shmVars, ReceiverPlaces
<1>16. ASSUME NEW r \in Receivers, Open(r) PROVE TypeOK'
  <2>1. /\ sem' \in [Semaphores -> Nat]
        /\ adj' \in [Processes -> [Semaphores -> Int]]
    <3>1. /\ sem' = [sem EXCEPT ![SND_MUTEX] = @ + 1, ![MEMORY] = @ + 1]
          /\ adj' = [adj EXCEPT ![r] =
                       [adj[r] EXCEPT ![SND_MUTEX] = @ - 1, ![MEMORY] = @ + 2]]
      BY <1>0, <1>16, ReceiverOperations
    <3>2. [adj[r] EXCEPT ![SND_MUTEX] = @ - 1, ![MEMORY] = @ + 2] \in [Semaphores -> Int]
      <4>1. /\ adj[r] \in [Semaphores -> Int] /\ SND_MUTEX \in Semaphores /\ MEMORY \in Semaphores
            /\ SND_MUTEX # MEMORY /\ adj[r][SND_MUTEX] - 1 \in Int /\ adj[r][MEMORY] + 2 \in Int
        BY <1>1 DEF TypeOK, Semaphores, SND_MUTEX, MEMORY
      <4> QED BY <4>1
    <3>3. sem' \in [Semaphores -> Nat]
      <4>1. /\ sem \in [Semaphores -> Nat] /\ SND_MUTEX \in Semaphores /\ MEMORY \in Semaphores
            /\ SND_MUTEX # MEMORY /\ sem[SND_MUTEX] + 1 \in Nat /\ sem[MEMORY] + 1 \in Nat
        BY DEF TypeOK, Semaphores, SND_MUTEX, MEMORY
      <4> QED BY <3>1, <4>1
    <3> QED BY <3>1, <3>2, <3>3 DEF TypeOK
  <2> QED BY <1>1, <1>16, <2>1 DEF Open, TypeOK, Goto, shmVars, ReceiverPlaces
<1>17. ASSUME NEW r \in Receivers, PData(r) PROVE TypeOK'
  <2>1. DATA \in Semaphores
    BY DEF Semaphores, DATA
  <2>2. sem' \in [Semaphores -> Nat] /\ adj' \in [Processes -> [Semaphores -> Int]]
    BY <1>0, <1>17, <2>1, ReceiverOperations, Handed
  <2> QED BY <1>1, <1>17, <2>2 DEF PData, TypeOK, Goto, shmVars, ReceiverPlaces
<1>18. ASSUME NEW r \in Receivers, SenderOk(r) \/ SenderEof(r) \/ SenderNotOk(r) PROVE TypeOK'
  <2>1. CASE SenderOk(r)
    BY <1>1, <2>1 DEF SenderOk, TypeOK, Goto, semVars, shmVars, ReceiverPlaces
  <2>2. CASE SenderEof(r)
    BY <1>1, <2>2 DEF SenderEof, TypeOK, Goto, Return, semVars, shmVars, ReceiverPlaces
  <2>3. CASE SenderNotOk(r)
    BY <1>1, <2>3 DEF SenderNotOk, TypeOK, Goto, Return, semVars, shmVars, ReceiverPlaces
  <2> QED BY <1>18, <2>1, <2>2, <2>3
<1>19. ASSUME NEW r \in Receivers, Write(r) PROVE TypeOK'
  <2>1. Mem(r).data \in Chunks
    BY <1>1, <1>19, InUse DEF Write, Goto, Using, UsingPlaces, Announced
  <2>2. out' \in [Receivers -> Seq(Chunks)]
    BY <1>19, <2>1 DEF Write, TypeOK
  <2> QED BY <1>1, <1>19, <2>2 DEF Write, TypeOK, Goto, semVars, shmVars, ReceiverPlaces
<1>20. ASSUME NEW r \in Receivers, WriteFails(r) PROVE TypeOK'
  <2>1. attached[r] \in Segments /\ Mem(r) \in Record
    BY <1>1, <1>20, InUse DEF WriteFails, Goto, Return, Using, UsingPlaces
  <2>2. memory' \in [Segments -> Record]
    BY <1>20, <2>1 DEF WriteFails, Store, TypeOK
  <2> QED BY <1>1, <1>20, <2>2
          DEF WriteFails, TypeOK, Goto, Return, semVars, shmVars, ReceiverPlaces,
              SemAssumption
<1>21. ASSUME NEW r \in Receivers, Acknowledge(r) PROVE TypeOK'
  <2>1. attached[r] \in Segments /\ Mem(r) \in Record
    BY <1>1, <1>21, InUse DEF Acknowledge, Goto, Using, UsingPlaces
  <2>2. memory' \in [Segments -> Record]
    BY <1>21, <2>1 DEF Acknowledge, Store, TypeOK
  <2> QED BY <1>1, <1>21, <2>2 DEF Acknowledge, TypeOK, Goto, semVars, shmVars, ReceiverPlaces
<1>22. ASSUME NEW r \in Receivers, ResetSender(r) PROVE TypeOK'
  <2>1. attached[r] \in Segments /\ Mem(r) \in Record
    BY <1>1, <1>22, InUse DEF ResetSender, Goto, Using, UsingPlaces
  <2>2. memory' \in [Segments -> Record]
    BY <1>22, <2>1 DEF ResetSender, Store, TypeOK
  <2> QED BY <1>1, <1>22, <2>2 DEF ResetSender, TypeOK, Goto, semVars, shmVars, ReceiverPlaces
<1>23. ASSUME NEW r \in Receivers, VMemory(r) PROVE TypeOK'
  <2>1. MEMORY \in Semaphores
    BY DEF Semaphores, MEMORY
  <2>2. sem' \in [Semaphores -> Nat] /\ adj' \in [Processes -> [Semaphores -> Int]]
    BY <1>0, <1>23, <2>1, ReceiverOperations, Handed
  <2> QED BY <1>1, <1>23, <2>2 DEF VMemory, TypeOK, Goto, shmVars, ReceiverPlaces
<1>24. ASSUME NEW p \in Processes, Cleanup(p) PROVE TypeOK'
  BY <1>24 DEF Cleanup, TypeOK, Goto, semVars, SenderPlaces
<1>25. ASSUME NEW p \in Processes, Exit(p) PROVE TypeOK'
  BY <1>0, <1>25, Undone DEF Exit, TypeOK, Goto, shmVars, SenderPlaces
<1>26. ASSUME NEW p \in Processes, Kill(p) PROVE TypeOK'
  BY <1>0, <1>26, Undone DEF Kill, Die, TypeOK, SenderPlaces, SemAssumption
<1>27. CASE UNCHANGED vars
  BY <1>27 DEF TypeOK, vars
<1> QED
  BY <1>1, <1>2, <1>3, <1>4, <1>5, <1>6, <1>7, <1>8, <1>9, <1>10, <1>11, <1>12, <1>13,
     <1>14,
     <1>15, <1>16, <1>17, <1>18, <1>19, <1>20, <1>21, <1>22, <1>23, <1>24, <1>25, <1>26, <1>27, Attached
  DEF Next, Fault, Step, SenderStep, ReceiverStep

\* A step that gets, attaches and removes no segment keeps Places.
LEMMA QuietPlaces ==
    ASSUME TypeOK, Places, UNCHANGED shmVars, NEW p \in Processes, NEW to,
           pc' = [pc EXCEPT ![p] = to],
           p \in Senders => to \in SenderPlaces, p \in Receivers => to \in ReceiverPlaces,
           to \in EarlyPlaces => pc[p] \in EarlyPlaces,
           to \in UsingPlaces => pc[p] \in UsingPlaces,
           to # "shmat", to = "cleanup" => pc[p] \in UsingPlaces \cup {"shmat"},
           p \in Receivers /\ to \in KeyPlaces => pc[p] \in KeyPlaces
    PROVE  Places'
<1>1. Owners' = Owners
  BY DEF Owners, shmVars
<1>2. pc'[p] = to /\ \A q \in Processes : q # p => pc'[q] = pc[q]
  BY DEF TypeOK
<1>3. \A q \in Processes : Early(q)' => Early(q)
  BY <1>2 DEF Early
<1>4. \A q \in Processes : Using(q)' => Using(q)
  BY <1>2 DEF Using
<1>5. \A q \in Processes : (Using(q) \/ pc[q] \in {"shmat", "cleanup"})' =>
                              Using(q) \/ pc[q] \in {"shmat", "cleanup"}
  BY <1>2, <1>4 DEF Using
<1>6. \A s \in Senders : s \in Processes /\ pc'[s] \in SenderPlaces
  BY <1>2 DEF Places, Processes
<1>7. \A r \in Receivers : /\ r \in Processes /\ pc'[r] \in ReceiverPlaces
                           /\ pc'[r] \in KeyPlaces => pc[r] \in KeyPlaces
  BY <1>2 DEF Places, Processes
<1> HIDE DEF Owners
<1> QED BY <1>1, <1>3, <1>4, <1>5, <1>6, <1>7 DEF Places, shmVars

\* No step leaves the places, with what is known there.
LEMMA PlacesStep ==
    ASSUME TypeOK, TypeOK', Places, Locked, SemAssumption, [Next]_vars
    PROVE  Places'
<1>0. /\ \A s \in Senders : s \in Processes /\ s \notin Receivers
      /\ \A r \in Receivers : r \in Processes /\ r \notin Senders
      /\ \A p \in Processes : p \in Senders \/ p \in Receivers
      /\ \A p \in Killable : p \in Processes
  BY DEF Processes, SemAssumption
<1>10. ASSUME NEW s \in Senders, Join(s) PROVE Places'
  BY <1>0, <1>10, QuietPlaces
  DEF Join, Goto, SenderPlaces, ReceiverPlaces, EarlyPlaces, UsingPlaces, KeyPlaces
<1>11. ASSUME NEW s \in Senders, PMemory(s) PROVE Places'
  BY <1>0, <1>11, QuietPlaces
  DEF PMemory, Goto, SenderPlaces, ReceiverPlaces, EarlyPlaces, UsingPlaces, KeyPlaces
<1>12. ASSUME NEW s \in Senders, ReceiverOk(s) PROVE Places'
  BY <1>0, <1>12, QuietPlaces
  DEF ReceiverOk, Goto, SenderPlaces, ReceiverPlaces, EarlyPlaces, UsingPlaces, KeyPlaces
<1>13. ASSUME NEW s \in Senders, ReceiverNotOk(s) PROVE Places'
  BY <1>0, <1>13, QuietPlaces
  DEF ReceiverNotOk, Goto, Return, SenderPlaces, ReceiverPlaces, EarlyPlaces, UsingPlaces,
      KeyPlaces
<1>14. ASSUME NEW s \in Senders, Read(s) PROVE Places'
  BY <1>0, <1>14, QuietPlaces
  DEF Read, Goto, SenderPlaces, ReceiverPlaces, EarlyPlaces, UsingPlaces, KeyPlaces
<1>15. ASSUME NEW s \in Senders, ReadFails(s) PROVE Places'
  BY <1>0, <1>15, QuietPlaces
  DEF ReadFails, Goto, Return, SenderPlaces, ReceiverPlaces, EarlyPlaces, UsingPlaces,
      KeyPlaces
<1>16. ASSUME NEW s \in Senders, ResetReceiver(s) PROVE Places'
  BY <1>0, <1>16, QuietPlaces
  DEF ResetReceiver, Goto, SenderPlaces, ReceiverPlaces, EarlyPlaces, UsingPlaces,
      KeyPlaces
<1>17. ASSUME NEW s \in Senders, VData(s) PROVE Places'
  BY <1>0, <1>17, QuietPlaces
  DEF VData, Goto, SenderPlaces, ReceiverPlaces, EarlyPlaces, UsingPlaces, KeyPlaces
<1>18. ASSUME NEW r \in Receivers, LockReceivers(r) PROVE Places'
  BY <1>0, <1>18, QuietPlaces
  DEF LockReceivers, Goto, SenderPlaces, ReceiverPlaces, EarlyPlaces, UsingPlaces,
      KeyPlaces
<1>19. ASSUME NEW r \in Receivers, InitMemory(r) PROVE Places'
  BY <1>0, <1>19, QuietPlaces
  DEF InitMemory, Goto, SenderPlaces, ReceiverPlaces, EarlyPlaces, UsingPlaces, KeyPlaces
<1>20. ASSUME NEW r \in Receivers, Open(r) PROVE Places'
  BY <1>0, <1>20, QuietPlaces
  DEF Open, Goto, SenderPlaces, ReceiverPlaces, EarlyPlaces, UsingPlaces, KeyPlaces
<1>21. ASSUME NEW r \in Receivers, PData(r) PROVE Places'
  BY <1>0, <1>21, QuietPlaces
  DEF PData, Goto, SenderPlaces, ReceiverPlaces, EarlyPlaces, UsingPlaces, KeyPlaces
<1>22. ASSUME NEW r \in Receivers, SenderOk(r) PROVE Places'
  BY <1>0, <1>22, QuietPlaces
  DEF SenderOk, Goto, SenderPlaces, ReceiverPlaces, EarlyPlaces, UsingPlaces, KeyPlaces
<1>23. ASSUME NEW r \in Receivers, SenderEof(r) PROVE Places'
  BY <1>0, <1>23, QuietPlaces
  DEF SenderEof, Goto, Return, SenderPlaces, ReceiverPlaces, EarlyPlaces, UsingPlaces,
      KeyPlaces
<1>24. ASSUME NEW r \in Receivers, SenderNotOk(r) PROVE Places'
  BY <1>0, <1>24, QuietPlaces
  DEF SenderNotOk, Goto, Return, SenderPlaces, ReceiverPlaces, EarlyPlaces, UsingPlaces,
      KeyPlaces
<1>25. ASSUME NEW r \in Receivers, Write(r) PROVE Places'
  BY <1>0, <1>25, QuietPlaces
  DEF Write, Goto, SenderPlaces, ReceiverPlaces, EarlyPlaces, UsingPlaces, KeyPlaces
<1>26. ASSUME NEW r \in Receivers, WriteFails(r) PROVE Places'
  BY <1>0, <1>26, QuietPlaces
  DEF WriteFails, Goto, Return, SenderPlaces, ReceiverPlaces, EarlyPlaces, UsingPlaces,
      KeyPlaces
<1>27. ASSUME NEW r \in Receivers, Acknowledge(r) PROVE Places'
  BY <1>0, <1>27, QuietPlaces
  DEF Acknowledge, Goto, SenderPlaces, ReceiverPlaces, EarlyPlaces, UsingPlaces, KeyPlaces
<1>28. ASSUME NEW r \in Receivers, ResetSender(r) PROVE Places'
  BY <1>0, <1>28, QuietPlaces
  DEF ResetSender, Goto, SenderPlaces, ReceiverPlaces, EarlyPlaces, UsingPlaces, KeyPlaces
<1>29. ASSUME NEW r \in Receivers, VMemory(r) PROVE Places'
  BY <1>0, <1>29, QuietPlaces
  DEF VMemory, Goto, SenderPlaces, ReceiverPlaces, EarlyPlaces, UsingPlaces, KeyPlaces
<1>40. ASSUME NEW s \in Senders, TestEof(s) PROVE Places'
  <2>1. PICK to \in {"cleanup", "pMemory"} : pc' = [pc EXCEPT ![s] = to]
    BY <1>40 DEF TestEof, Goto, Return
  <2> QED BY <1>0, <1>40, <2>1, QuietPlaces
          DEF TestEof, SenderPlaces, ReceiverPlaces, EarlyPlaces, UsingPlaces, KeyPlaces
<1>41. ASSUME NEW r \in Receivers, NEW i \in 1 .. 3, ZeroSemaphore(r, i) PROVE Places'
  <2>1. PICK to \in {"zero2", "zero3", "shmget"} : pc' = [pc EXCEPT ![r] = to]
    <3>1. <<"zero2", "zero3", "shmget">>[i] \in {"zero2", "zero3", "shmget"}
      OBVIOUS
    <3> QED BY <1>41, <3>1 DEF ZeroSemaphore, Goto
  <2>2. pc[r] \in {"zero1", "zero2", "zero3"}
    BY <1>41 DEF ZeroSemaphore, Goto
  <2> QED BY <1>0, <1>41, <2>1, <2>2, QuietPlaces
          DEF ZeroSemaphore, SenderPlaces, ReceiverPlaces, EarlyPlaces, UsingPlaces,
              KeyPlaces
<1>42. ASSUME NEW p \in Processes, ShmAttachFails(p) PROVE Places'
  BY <1>0, <1>42, QuietPlaces
  DEF ShmAttachFails, Goto, Return, SenderPlaces, ReceiverPlaces, EarlyPlaces,
      UsingPlaces, KeyPlaces
<1>43. ASSUME NEW p \in Processes, Exit(p) PROVE Places'
  BY <1>0, <1>43, QuietPlaces
  DEF Exit, Goto, SenderPlaces, ReceiverPlaces, EarlyPlaces, UsingPlaces, KeyPlaces
<1>44. ASSUME NEW p \in Processes, Kill(p) PROVE Places'
  <2>1. Owners' = Owners
    BY <1>44 DEF Kill, Die, Owners
  <2>2. /\ pc'[p] = "gone" /\ \A q \in Processes : q # p => pc'[q] = pc[q]
        /\ \A q \in Processes : q # p => attached'[q] = attached[q]
    BY <1>44 DEF TypeOK, Kill, Die
  <2>3. /\ "gone" \notin EarlyPlaces /\ "gone" \notin UsingPlaces /\ "gone" \notin KeyPlaces
        /\ "gone" \in SenderPlaces /\ "gone" \in ReceiverPlaces
    BY DEF SenderPlaces, ReceiverPlaces, EarlyPlaces, UsingPlaces, KeyPlaces
  <2> HIDE DEF Owners
  <2> QED BY <1>0, <1>44, <2>1, <2>2, <2>3 DEF Places, Kill, Die, Early, Using
<1>45. ASSUME NEW p \in Processes, Cleanup(p) PROVE Places'
  <2>1. Owners' = Owners
    BY <1>45 DEF Cleanup, Owners
  <2>2. /\ pc[p] = "cleanup" /\ pc'[p] = "exit"
        /\ \A q \in Processes : q # p => pc'[q] = pc[q] /\ attached'[q] = attached[q]
    BY <1>45 DEF TypeOK, Cleanup, Goto
  <2>3. /\ "exit" \notin EarlyPlaces /\ "exit" \notin UsingPlaces /\ "exit" \notin KeyPlaces
        /\ "exit" \in SenderPlaces /\ "exit" \in ReceiverPlaces
    BY DEF SenderPlaces, ReceiverPlaces, EarlyPlaces, UsingPlaces, KeyPlaces
  <2>4. \A r \in Receivers : pc'[r] \in KeyPlaces => key' = shm[r]
    <3>1. CASE p \in Receivers
      <4>1. \A r \in Receivers : r # p => pc[r] \in {"lock", "gone"}
        BY <2>2, <3>1 DEF Locked, ReceiversExclude
      <4> QED BY <1>0, <2>2, <2>3, <4>1 DEF KeyPlaces
    <3>2. CASE p \notin Receivers
      BY <1>0, <1>45, <2>2, <3>2 DEF Cleanup, Places
    <3> QED BY <3>1, <3>2
  <2>5. shm' = shm /\ created' = created /\ key' \in {key, NoSegment} /\ created \in Nat
    BY <1>45 DEF Cleanup, TypeOK, Segments
  <2>7. firstId' = 1
    BY <1>45 DEF Cleanup, Places
  <2>6. key' <= created'
    BY <2>5 DEF Places, NoSegment
  <2> HIDE DEF Owners
  <2> QED BY <1>0, <2>1, <2>2, <2>3, <2>4, <2>5, <2>6, <2>7 DEF Places, Early, Using
<1>46. ASSUME NEW p \in Processes, ShmGet(p) PROVE Places'
  <2>1. /\ pc[p] = "shmget" /\ pc'[p] = "shmat" /\ shm[p] = NoSegment
        /\ \A q \in Processes : q # p => pc'[q] = pc[q] /\ shm'[q] = shm[q]
        /\ attached' = attached
    BY <1>46 DEF TypeOK, ShmGet, Goto, Places, Early, EarlyPlaces
  <2>2. /\ "shmat" \notin EarlyPlaces /\ "shmat" \notin UsingPlaces
        /\ "shmat" \in SenderPlaces /\ "shmat" \in ReceiverPlaces
    BY DEF SenderPlaces, ReceiverPlaces, EarlyPlaces, UsingPlaces
  <2>3. created \in Nat /\ key \in Nat /\ NoSegment = 0 /\ IsFiniteSet(Owners)
    <3>1. IsFiniteSet(Processes) /\ Owners \subseteq Processes
      BY FS_Union DEF SemAssumption, Processes, Owners
    <3> QED BY <3>1, FS_Subset DEF TypeOK, Segments, NoSegment
  <2>4. /\ shm'[p] = key' /\ key' # NoSegment /\ key' <= created' /\ created' \in Nat
        /\ created <= created' /\ created' <= created + 1
        /\ key # NoSegment => key' = key
    <3>1. CASE key # NoSegment
      BY <1>46, <2>3, <3>1 DEF ShmGet, TypeOK, Places
    <3>2. CASE key = NoSegment
      BY <1>46, <2>3, <3>2 DEF ShmGet, TypeOK
    <3> QED BY <3>1, <3>2
  <2>5. Owners' = Owners \cup {p} /\ p \notin Owners
    BY <2>1, <2>4 DEF Owners
  <2>6. Cardinality(Owners') = Cardinality(Owners) + 1 /\ Cardinality(Owners) \in Nat
    BY <2>3, <2>5, FS_AddElement, FS_CardinalityType
  <2>7. created' <= Cardinality(Owners')
    BY <2>3, <2>4, <2>6 DEF Places
  <2>8. \A r \in Receivers : pc'[r] \in KeyPlaces => key' = shm'[r]
    <3>1. ASSUME NEW r \in Receivers, r # p, pc'[r] \in KeyPlaces PROVE key' = shm'[r]
      <4>1. pc[r] \in KeyPlaces /\ shm'[r] = shm[r] /\ key = shm[r]
        BY <1>0, <2>1, <3>1 DEF Places
      <4>2. shm[r] # NoSegment
        BY <1>0, <4>1 DEF Places, KeyPlaces, Using, UsingPlaces
      <4> QED BY <2>4, <4>1, <4>2
    <3> QED BY <2>4, <3>1
  <2>9. \A q \in Processes : shm'[q] <= created'
    <3>1. \A q \in Processes : q # p => shm'[q] = shm[q] /\ shm[q] <= created /\ shm[q] \in Nat
      BY <2>1 DEF Places, TypeOK, Segments, NoSegment
    <3> QED BY <2>3, <2>4, <3>1
  <2>10. firstId' = 1
    BY <1>46 DEF ShmGet, Places
  <2> HIDE DEF Owners
  <2> QED BY <1>0, <2>1, <2>2, <2>4, <2>7, <2>8, <2>9, <2>10 DEF Places, Early, Using
<1>47. ASSUME NEW p \in Processes, NEW next, ShmAttach(p, next),
              \/ p \in Senders /\ next = "join"
              \/ p \in Receivers /\ next = "init"
       PROVE  Places'
  <2>1. Owners' = Owners
    BY <1>47 DEF ShmAttach, Owners
  <2>2. /\ pc[p] = "shmat" /\ pc'[p] = next /\ attached'[p] = shm[p] /\ shm' = shm
        /\ key' = key /\ created' = created /\ firstId' = firstId
        /\ \A q \in Processes : q # p => pc'[q] = pc[q] /\ attached'[q] = attached[q]
    BY <1>47 DEF TypeOK, ShmAttach, Goto
  <2>3. /\ next \notin EarlyPlaces /\ "shmat" \in KeyPlaces
        /\ p \in Senders => next \in SenderPlaces
        /\ p \in Receivers => next \in ReceiverPlaces
    BY <1>47, <1>0 DEF SenderPlaces, ReceiverPlaces, EarlyPlaces, KeyPlaces
  <2> HIDE DEF Owners
  <2> QED BY <1>0, <2>1, <2>2, <2>3 DEF Places, Early, Using
<1>48. CASE UNCHANGED vars
  <2>1. Owners' = Owners
    BY <1>48 DEF vars, Owners
  <2> HIDE DEF Owners
  <2> QED BY <1>48, <2>1 DEF vars, Places, Early, Using
<1>50. ASSUME NEW s \in Senders, SenderStep(s) PROVE Places'
  <2>1. s \in Processes
    BY <1>0
  <2>2. CASE ShmAttach(s, "join")
    BY <1>47, <2>1, <2>2
  <2> QED BY <1>50, <2>1, <2>2, <1>10, <1>11, <1>12, <1>13, <1>14, <1>16, <1>17, <1>40, <1>42, <1>46
          DEF SenderStep
<1>51. ASSUME NEW r \in Receivers, ReceiverStep(r) PROVE Places'
  <2>1. r \in Processes /\ (ShmAttach(r, "init") => Places')
    BY <1>0, <1>47
  <2> QED BY <1>51, <2>1, <1>18, <1>19, <1>20, <1>21, <1>22, <1>23, <1>24, <1>25, <1>27, <1>28,
             <1>29, <1>41, <1>42, <1>46
          DEF ReceiverStep
<1> QED BY <1>0, <1>15, <1>26, <1>43, <1>44, <1>45, <1>48, <1>50, <1>51, Attached DEF Next, Fault, Step

\* Stores that leave a chunk where one is announced.
LEMMA Stored ==
    ASSUME TypeOK, TypeOK', Places, Announced, NEW p \in Processes, Using(p), NEW m, Store(p, m),
           m.snd_state = "OK" => m.data \in Chunks,
           Mem(p).data \in Chunks => m.data \in Chunks,
           shm' = shm, \A r \in Receivers : pc'[r] = "write" => pc[r] = "write"
    PROVE  Announced'
<1>1. shm[p] \in Segments /\ memory' = [memory EXCEPT ![shm[p]] = m] /\ Mem(p) = memory[shm[p]]
  BY InUse DEF Store
<1>2. memory'[shm[p]] = m /\ \A g \in Segments : g # shm[p] => memory'[g] = memory[g]
  BY <1>1 DEF TypeOK
<1>3. ASSUME NEW r \in Receivers, pc'[r] = "write" PROVE memory'[shm[r]].data \in Chunks
  <2>1. pc[r] = "write" /\ memory[shm[r]].data \in Chunks
    BY <1>3 DEF Announced
  <2>2. shm[r] \in Segments
    BY <2>1 DEF Places, Using, UsingPlaces, TypeOK, Processes
  <2> QED BY <1>1, <1>2, <2>1, <2>2
<1>4. \A g \in Segments : memory'[g].snd_state = "OK" => memory'[g].data \in Chunks
  BY <1>2 DEF Announced
<1> QED BY <1>3, <1>4 DEF Announced

\* Steps that store nothing keep what is announced.
LEMMA NothingStored ==
    ASSUME Announced, memory' = memory,
           \A r \in Receivers : pc'[r] = "write" => pc[r] = "write" /\ shm'[r] = shm[r]
    PROVE  Announced'
BY DEF Announced

\* No step announces anything but a chunk.
LEMMA AnnouncedStep ==
    ASSUME TypeOK, TypeOK', Places, Announced, SemAssumption, [Next]_vars
    PROVE  Announced'
<1>0. /\ \A s \in Senders : s \in Processes /\ s \notin Receivers
      /\ \A r \in Receivers : r \in Processes /\ r \notin Senders
      /\ \A p \in Killable : p \in Processes
  BY DEF Processes, SemAssumption
<1>1. ASSUME NEW p \in Processes, NEW to, pc' = [pc EXCEPT ![p] = to], to # "write"
      PROVE  \A r \in Receivers : pc'[r] = "write" => pc[r] = "write"
  BY <1>0, <1>1 DEF TypeOK
<1>2. ASSUME NEW s \in Senders, Join(s) PROVE Announced'
  BY <1>0, <1>1, <1>2, NothingStored DEF Join, Goto, shmVars
<1>3. ASSUME NEW s \in Senders, PMemory(s) PROVE Announced'
  BY <1>0, <1>1, <1>3, NothingStored DEF PMemory, Goto, shmVars
<1>4. ASSUME NEW s \in Senders, ReceiverOk(s) PROVE Announced'
  BY <1>0, <1>1, <1>4, NothingStored DEF ReceiverOk, Goto, shmVars
<1>5. ASSUME NEW s \in Senders, ReceiverNotOk(s) PROVE Announced'
  BY <1>0, <1>1, <1>5, NothingStored DEF ReceiverNotOk, Goto, Return, shmVars
<1>6. ASSUME NEW s \in Senders, VData(s) PROVE Announced'
  BY <1>0, <1>1, <1>6, NothingStored DEF VData, Goto, shmVars
<1>7. ASSUME NEW s \in Senders, ResetReceiver(s) PROVE Announced'
  <2> DEFINE m == [Mem(s) EXCEPT !.rcv_state = "NOT_DONE"]
  <2>1. Using(s)
    BY <1>7 DEF ResetReceiver, Goto, Using, UsingPlaces
  <2>2. Mem(s).snd_state = "OK" => Mem(s).data \in Chunks
    BY <1>0, <2>1, InUse DEF Announced
  <2>3. Store(s, m) /\ shm' = shm /\ \A q \in Receivers : pc'[q] = "write" => pc[q] = "write"
    BY <1>0, <1>1, <1>7 DEF ResetReceiver, Goto, shmVars
  <2>4. /\ m.snd_state = "OK" => m.data \in Chunks
        /\ Mem(s).data \in Chunks => m.data \in Chunks
    BY <1>0, <2>1, <2>2, InUse
  <2> QED BY <1>0, <2>1, <2>3, <2>4, Stored
<1>8. ASSUME NEW s \in Senders, ReadFails(s) PROVE Announced'
  <2> DEFINE m == [Mem(s) EXCEPT !.snd_state = "IOERROR"]
  <2>1. Using(s)
    BY <1>8 DEF ReadFails, Goto, Return, Using, UsingPlaces
  <2>2. Mem(s).snd_state = "OK" => Mem(s).data \in Chunks
    BY <1>0, <2>1, InUse DEF Announced
  <2>3. Store(s, m) /\ shm' = shm /\ \A q \in Receivers : pc'[q] = "write" => pc[q] = "write"
    BY <1>0, <1>1, <1>8 DEF ReadFails, Goto, Return, shmVars
  <2>4. /\ m.snd_state = "OK" => m.data \in Chunks
        /\ Mem(s).data \in Chunks => m.data \in Chunks
    BY <1>0, <2>1, <2>2, InUse
  <2> QED BY <1>0, <2>1, <2>3, <2>4, Stored
<1>9. ASSUME NEW r \in Receivers, LockReceivers(r) PROVE Announced'
  BY <1>0, <1>1, <1>9, NothingStored DEF LockReceivers, Goto, shmVars
<1>10. ASSUME NEW r \in Receivers, Open(r) PROVE Announced'
  BY <1>0, <1>1, <1>10, NothingStored DEF Open, Goto, shmVars
<1>11. ASSUME NEW r \in Receivers, PData(r) PROVE Announced'
  BY <1>0, <1>1, <1>11, NothingStored DEF PData, Goto, shmVars
<1>12. ASSUME NEW r \in Receivers, SenderEof(r) PROVE Announced'
  BY <1>0, <1>1, <1>12, NothingStored DEF SenderEof, Goto, Return, shmVars
<1>13. ASSUME NEW r \in Receivers, SenderNotOk(r) PROVE Announced'
  BY <1>0, <1>1, <1>13, NothingStored DEF SenderNotOk, Goto, Return, shmVars
<1>14. ASSUME NEW r \in Receivers, Write(r) PROVE Announced'
  BY <1>0, <1>1, <1>14, NothingStored DEF Write, Goto, shmVars
<1>15. ASSUME NEW r \in Receivers, VMemory(r) PROVE Announced'
  BY <1>0, <1>1, <1>15, NothingStored DEF VMemory, Goto, shmVars
<1>16. ASSUME NEW r \in Receivers, InitMemory(r) PROVE Announced'
  <2> DEFINE m == [Mem(r) EXCEPT !.rcv_state = "OK", !.snd_state = "NOT_DONE"]
  <2>1. Using(r)
    BY <1>16 DEF InitMemory, Goto, Using, UsingPlaces
  <2>2. Mem(r).snd_state = "OK" => Mem(r).data \in Chunks
    BY <1>0, <2>1, InUse DEF Announced
  <2>3. Store(r, m) /\ shm' = shm /\ \A q \in Receivers : pc'[q] = "write" => pc[q] = "write"
    BY <1>0, <1>1, <1>16 DEF InitMemory, Goto, shmVars
  <2>4. /\ m.snd_state = "OK" => m.data \in Chunks
        /\ Mem(r).data \in Chunks => m.data \in Chunks
    BY <1>0, <2>1, <2>2, InUse
  <2> QED BY <1>0, <2>1, <2>3, <2>4, Stored
<1>17. ASSUME NEW r \in Receivers, Acknowledge(r) PROVE Announced'
  <2> DEFINE m == [Mem(r) EXCEPT !.rcv_state = "OK"]
  <2>1. Using(r)
    BY <1>17 DEF Acknowledge, Goto, Using, UsingPlaces
  <2>2. Mem(r).snd_state = "OK" => Mem(r).data \in Chunks
    BY <1>0, <2>1, InUse DEF Announced
  <2>3. Store(r, m) /\ shm' = shm /\ \A q \in Receivers : pc'[q] = "write" => pc[q] = "write"
    BY <1>0, <1>1, <1>17 DEF Acknowledge, Goto, shmVars
  <2>4. /\ m.snd_state = "OK" => m.data \in Chunks
        /\ Mem(r).data \in Chunks => m.data \in Chunks
    BY <1>0, <2>1, <2>2, InUse
  <2> QED BY <1>0, <2>1, <2>3, <2>4, Stored
<1>18. ASSUME NEW r \in Receivers, ResetSender(r) PROVE Announced'
  <2> DEFINE m == [Mem(r) EXCEPT !.snd_state = "NOT_DONE"]
  <2>1. Using(r)
    BY <1>18 DEF ResetSender, Goto, Using, UsingPlaces
  <2>2. Mem(r).snd_state = "OK" => Mem(r).data \in Chunks
    BY <1>0, <2>1, InUse DEF Announced
  <2>3. Store(r, m) /\ shm' = shm /\ \A q \in Receivers : pc'[q] = "write" => pc[q] = "write"
    BY <1>0, <1>1, <1>18 DEF ResetSender, Goto, shmVars
  <2>4. /\ m.snd_state = "OK" => m.data \in Chunks
        /\ Mem(r).data \in Chunks => m.data \in Chunks
    BY <1>0, <2>1, <2>2, InUse
  <2> QED BY <1>0, <2>1, <2>3, <2>4, Stored
<1>19. ASSUME NEW r \in Receivers, WriteFails(r) PROVE Announced'
  <2> DEFINE m == [Mem(r) EXCEPT !.rcv_state = "IOERROR"]
  <2>1. Using(r)
    BY <1>19 DEF WriteFails, Goto, Return, Using, UsingPlaces
  <2>2. Mem(r).snd_state = "OK" => Mem(r).data \in Chunks
    BY <1>0, <2>1, InUse DEF Announced
  <2>3. Store(r, m) /\ shm' = shm /\ \A q \in Receivers : pc'[q] = "write" => pc[q] = "write"
    BY <1>0, <1>1, <1>19 DEF WriteFails, Goto, Return, shmVars
  <2>4. /\ m.snd_state = "OK" => m.data \in Chunks
        /\ Mem(r).data \in Chunks => m.data \in Chunks
    BY <1>0, <2>1, <2>2, InUse
  <2> QED BY <1>0, <2>1, <2>3, <2>4, Stored
<1>20. ASSUME NEW p \in Processes, Exit(p) PROVE Announced'
  BY <1>0, <1>1, <1>20, NothingStored DEF Exit, Goto, shmVars
<1>21. ASSUME NEW p \in Processes, Cleanup(p) PROVE Announced'
  BY <1>0, <1>1, <1>21, NothingStored DEF Cleanup, Goto, shmVars
<1>22. ASSUME NEW p \in Processes, ShmAttachFails(p) PROVE Announced'
  BY <1>0, <1>1, <1>22, NothingStored DEF ShmAttachFails, Goto, Return, shmVars
<1>23. ASSUME NEW p \in Processes, NEW next \in {"join", "init"}, ShmAttach(p, next) PROVE Announced'
  BY <1>0, <1>1, <1>23, NothingStored DEF ShmAttach, Goto
<1>24. ASSUME NEW p \in Processes, ShmGet(p) PROVE Announced'
  <2>1. /\ pc[p] = "shmget" /\ pc' = [pc EXCEPT ![p] = "shmat"] /\ memory' = memory
        /\ \A q \in Processes : q # p => shm'[q] = shm[q]
    BY <1>24 DEF ShmGet, Goto, TypeOK
  <2> QED BY <1>0, <1>1, <2>1, NothingStored
<1>25. ASSUME NEW p \in Processes, Kill(p) PROVE Announced'
  BY <1>0, <1>1, <1>25, NothingStored DEF Kill, Die
<1>26. ASSUME NEW s \in Senders, TestEof(s) PROVE Announced'
  <2>1. PICK to \in {"cleanup", "pMemory"} : pc' = [pc EXCEPT ![s] = to]
    BY <1>26 DEF TestEof, Goto, Return
  <2> QED BY <1>0, <1>1, <1>26, <2>1, NothingStored DEF TestEof, shmVars
<1>27. ASSUME NEW r \in Receivers, NEW i \in 1 .. 3, ZeroSemaphore(r, i) PROVE Announced'
  <2>1. <<"zero2", "zero3", "shmget">>[i] # "write"
    OBVIOUS
  <2> QED BY <1>0, <1>1, <1>27, <2>1, NothingStored DEF ZeroSemaphore, Goto, shmVars
<1>28. ASSUME NEW r \in Receivers, SenderOk(r) PROVE Announced'
  <2>1. Using(r) /\ memory' = memory /\ shm' = shm /\ Mem(r).snd_state = "OK"
    BY <1>28 DEF SenderOk, Goto, shmVars, Using, UsingPlaces
  <2>2. memory[shm[r]].data \in Chunks
    BY <1>0, <2>1, InUse DEF Announced
  <2>3. \A q \in Receivers : q # r => pc'[q] = pc[q]
    BY <1>0, <1>28 DEF SenderOk, Goto, TypeOK
  <2> QED BY <2>1, <2>2, <2>3 DEF Announced
<1>29. ASSUME NEW s \in Senders, Read(s) PROVE Announced'
  <2> DEFINE m == IF pos[s] < FileLen
                    THEN [Mem(s) EXCEPT !.data = [from |-> s, nr |-> pos[s] + 1],
                                        !.snd_state = "OK"]
                    ELSE [Mem(s) EXCEPT !.snd_state = "EOF"]
  <2>1. Using(s)
    BY <1>29 DEF Read, Goto, Using, UsingPlaces
  <2>2. Store(s, m) /\ shm' = shm /\ \A q \in Receivers : pc'[q] = "write" => pc[q] = "write"
    BY <1>0, <1>1, <1>29 DEF Read, Goto, shmVars
  <2>3. pos[s] < FileLen => [from |-> s, nr |-> pos[s] + 1] \in Chunks
    BY DEF TypeOK, Chunks, SemAssumption
  <2>4. /\ m.snd_state = "OK" => m.data \in Chunks
        /\ Mem(s).data \in Chunks => m.data \in Chunks
    BY <1>0, <2>1, <2>3, InUse
  <2> QED BY <1>0, <2>1, <2>2, <2>4, Stored
<1>30. CASE UNCHANGED vars
  BY <1>30, NothingStored DEF vars
<1>31. ASSUME NEW s \in Senders, SenderStep(s) PROVE Announced'
  BY <1>0, <1>31, <1>2, <1>3, <1>4, <1>5, <1>6, <1>7, <1>26, <1>29, <1>22, <1>23, <1>24
  DEF SenderStep
<1>32. ASSUME NEW r \in Receivers, ReceiverStep(r) PROVE Announced'
  BY <1>0, <1>32, <1>9, <1>10, <1>11, <1>12, <1>13, <1>14, <1>15, <1>16, <1>17, <1>18,
     <1>27, <1>28, <1>22, <1>23, <1>24
  DEF ReceiverStep
<1> QED BY <1>0, <1>8, <1>19, <1>20, <1>21, <1>25, <1>30, <1>31, <1>32, Attached DEF Next, Fault, Step

\* A step of a process that locks nothing: it goes from one place to another.
LEMMA NothingLocked ==
    ASSUME TypeOK, Locked, adj' = adj, sem'[RCV_MUTEX] = sem[RCV_MUTEX],
           NEW p \in Processes, NEW to, pc' = [pc EXCEPT ![p] = to],
           p \in Receivers =>
              /\ pc[p] \notin {"lock", "gone"} /\ to \notin {"lock", "gone"}
              /\ Opened(p)' => Opened(p)
              /\ Opened(p) => Opened(p)' \/ to \in {"cleanup", "exit"}
              /\ pc[p] \in {"cleanup", "exit"} => to \in {"cleanup", "exit"}
    PROVE  Locked'
<1>1. \A q \in Processes : pc'[q] = IF q = p THEN to ELSE pc[q]
  BY DEF TypeOK
<1>2. ASSUME NEW r \in Receivers
      PROVE  /\ Active(r)' <=> Active(r)
             /\ Opened(r)' => Opened(r)
             /\ Opened(r) => Opened(r)' \/ pc'[r] \in {"cleanup", "exit"}
             /\ pc[r] \in {"cleanup", "exit"} => pc'[r] \in {"cleanup", "exit"}
  BY <1>1 DEF Active, Opened, Processes
<1>3. (\A s \in Senders : \A i \in Semaphores : adj[s][i] = 0)'
  BY DEF Locked
<1>4. ASSUME NEW r \in Receivers
      PROVE  /\ adj[r][RCV_MUTEX] = IF Active(r)' THEN 0 - 1 ELSE 0
             /\ adj[r][SND_MUTEX] \in {0, 0 - 1}
             /\ Opened(r)' => adj[r][SND_MUTEX] = 0 - 1
             /\ ~ Opened(r)' /\ pc'[r] \notin {"cleanup", "exit"} => adj[r][SND_MUTEX] = 0
             /\ Active(r)' => sem'[RCV_MUTEX] = 1
  BY <1>2 DEF Locked
<1>5. (\A r \in Receivers : ~ Active(r)') => sem'[RCV_MUTEX] = 0
  BY <1>2 DEF Locked
<1>6. ReceiversExclude'
  BY <1>2 DEF Locked, ReceiversExclude, Active
<1> QED BY <1>3, <1>4, <1>5, <1>6 DEF Locked

\* A process that ends takes its lock back.
LEMMA Unlocked ==
    ASSUME TypeOK, Locked, SemAssumption, NEW p \in Processes, pc[p] # "gone",
           pc' = [pc EXCEPT ![p] = "gone"], sem' = Undo(sem, adj[p]),
           adj' = [adj EXCEPT ![p] = [i \in Semaphores |-> 0]]
    PROVE  Locked'
<1>0. Sems /\ RCV_MUTEX \in Semaphores /\ SND_MUTEX \in Semaphores
  BY DEF TypeOK, Sems, Semaphores, RCV_MUTEX, SND_MUTEX
<1>1. \A q \in Processes : /\ pc'[q] = IF q = p THEN "gone" ELSE pc[q]
                           /\ adj'[q] = IF q = p THEN [i \in Semaphores |-> 0] ELSE adj[q]
  BY DEF TypeOK
<1>2. sem'[RCV_MUTEX] = IF p \in Receivers /\ Active(p) THEN 0 ELSE sem[RCV_MUTEX]
  <2>1. sem'[RCV_MUTEX] = IF sem[RCV_MUTEX] + adj[p][RCV_MUTEX] < 0 THEN 0
                          ELSE sem[RCV_MUTEX] + adj[p][RCV_MUTEX]
    BY <1>0, Undone
  <2>2. sem[RCV_MUTEX] \in Nat
    BY <1>0 DEF TypeOK
  <2>3. CASE p \in Receivers /\ Active(p)
    BY <2>1, <2>3 DEF Locked
  <2>4. CASE ~ (p \in Receivers /\ Active(p))
    <3>1. adj[p][RCV_MUTEX] = 0
      BY <1>0, <2>4 DEF Locked, Processes
    <3> QED BY <2>1, <2>2, <2>4, <3>1
  <2> QED BY <2>3, <2>4
<1>3. ASSUME NEW r \in Receivers, r # p
      PROVE  /\ adj'[r] = adj[r] /\ pc'[r] = pc[r]
             /\ Active(r)' <=> Active(r)
             /\ Opened(r)' <=> Opened(r)
  BY <1>1, <1>3 DEF Active, Opened, Processes
<1>4. p \in Receivers => ~ Active(p)' /\ ~ Opened(p)' /\ adj'[p] = [i \in Semaphores |-> 0]
  BY <1>1 DEF Active, Opened
<1>5. ASSUME NEW r \in Receivers, Active(r)', r # p PROVE sem'[RCV_MUTEX] = 1
  <2>1. Active(r) /\ sem[RCV_MUTEX] = 1
    BY <1>3, <1>5 DEF Locked
  <2>2. ~ (p \in Receivers /\ Active(p))
    BY <1>5, <2>1 DEF Locked, ReceiversExclude, Active
  <2> QED BY <1>2, <2>1, <2>2
<1>6. (\A s \in Senders : \A i \in Semaphores : adj[s][i] = 0)'
  BY <1>1 DEF Locked, Processes
<1>7. ASSUME NEW r \in Receivers
      PROVE  /\ adj'[r][RCV_MUTEX] = IF Active(r)' THEN 0 - 1 ELSE 0
             /\ adj'[r][SND_MUTEX] \in {0, 0 - 1}
             /\ Opened(r)' => adj'[r][SND_MUTEX] = 0 - 1
             /\ ~ Opened(r)' /\ pc'[r] \notin {"cleanup", "exit"} => adj'[r][SND_MUTEX] = 0
             /\ Active(r)' => sem'[RCV_MUTEX] = 1
  <2>1. CASE r = p
    BY <1>0, <1>4, <2>1
  <2>2. CASE r # p
    BY <1>3, <1>5, <2>2 DEF Locked
  <2> QED BY <2>1, <2>2
<1>8. (\A r \in Receivers : ~ Active(r)') => sem'[RCV_MUTEX] = 0
  <2>1. CASE p \in Receivers /\ Active(p)
    BY <1>2, <2>1
  <2>2. CASE ~ (p \in Receivers /\ Active(p))
    BY <1>2, <1>3, <2>2 DEF Locked
  <2> QED BY <2>1, <2>2
<1>9. ReceiversExclude'
  BY <1>3, <1>4 DEF Locked, ReceiversExclude, Active
<1> QED BY <1>6, <1>7, <1>8, <1>9 DEF Locked

\* Semaphore 0 stays up exactly while a receiver is active, and nobody else becomes
\* active meanwhile.
LEMMA LockedStep ==
    ASSUME TypeOK, Locked, SemAssumption, [Next]_vars
    PROVE  Locked'
<1>0. /\ \A s \in Senders : s \in Processes /\ s \notin Receivers
      /\ \A r \in Receivers : r \in Processes /\ r \notin Senders
      /\ \A p \in Killable : p \in Processes
      /\ \A p \in Processes : p \in Senders \/ p \in Receivers
  BY DEF Processes, SemAssumption
<1>1. Sems
  BY DEF TypeOK, Sems
<1>2. ASSUME NEW i \in {SND_MUTEX, MEMORY, DATA}, Takes(i) \/ Gives(i)
      PROVE  adj' = adj /\ sem'[RCV_MUTEX] = sem[RCV_MUTEX]
  BY <1>1, <1>2 DEF Takes, Gives, Sems, Semaphores, RCV_MUTEX, SND_MUTEX, MEMORY, DATA
<1>10. ASSUME NEW s \in Senders, Join(s) PROVE Locked'
  <2>1. adj' = adj /\ sem'[RCV_MUTEX] = sem[RCV_MUTEX]
    BY <1>1, <1>2, <1>10, SenderOperations
  <2> QED BY <1>0, <1>10, <2>1, NothingLocked DEF Join, Goto
<1>11. ASSUME NEW s \in Senders, PMemory(s) PROVE Locked'
  <2>1. adj' = adj /\ sem'[RCV_MUTEX] = sem[RCV_MUTEX]
    BY <1>1, <1>2, <1>11, SenderOperations
  <2> QED BY <1>0, <1>11, <2>1, NothingLocked DEF PMemory, Goto
<1>12. ASSUME NEW s \in Senders, VData(s) PROVE Locked'
  <2>1. adj' = adj /\ sem'[RCV_MUTEX] = sem[RCV_MUTEX]
    BY <1>1, <1>2, <1>12, SenderOperations
  <2> QED BY <1>0, <1>12, <2>1, NothingLocked DEF VData, Goto
<1>13. ASSUME NEW s \in Senders, ReceiverOk(s) PROVE Locked'
  BY <1>0, <1>13, NothingLocked DEF ReceiverOk, Goto, semVars
<1>14. ASSUME NEW s \in Senders, ReceiverNotOk(s) PROVE Locked'
  BY <1>0, <1>14, NothingLocked DEF ReceiverNotOk, Goto, Return, semVars
<1>15. ASSUME NEW s \in Senders, Read(s) PROVE Locked'
  BY <1>0, <1>15, NothingLocked DEF Read, Goto, semVars
<1>16. ASSUME NEW s \in Senders, ResetReceiver(s) PROVE Locked'
  BY <1>0, <1>16, NothingLocked DEF ResetReceiver, Goto, semVars
<1>17. ASSUME NEW s \in Senders, ReadFails(s) PROVE Locked'
  BY <1>0, <1>17, NothingLocked DEF ReadFails, Goto, Return, semVars
<1>18. ASSUME NEW r \in Receivers, PData(r) PROVE Locked'
  <2>1. adj' = adj /\ sem'[RCV_MUTEX] = sem[RCV_MUTEX]
    BY <1>1, <1>2, <1>18, ReceiverOperations
  <2>2. Opened(r) /\ Opened(r)'
    BY <1>0, <1>18 DEF PData, Goto, Opened, TypeOK
  <2> QED BY <1>0, <1>18, <2>1, <2>2, NothingLocked DEF PData, Goto
<1>19. ASSUME NEW r \in Receivers, VMemory(r) PROVE Locked'
  <2>1. adj' = adj /\ sem'[RCV_MUTEX] = sem[RCV_MUTEX]
    BY <1>1, <1>2, <1>19, ReceiverOperations
  <2>2. Opened(r) /\ Opened(r)'
    BY <1>0, <1>19 DEF VMemory, Goto, Opened, TypeOK
  <2> QED BY <1>0, <1>19, <2>1, <2>2, NothingLocked DEF VMemory, Goto
<1>20. ASSUME NEW r \in Receivers, InitMemory(r) PROVE Locked'
  <2>1. /\ Opened(r)' => Opened(r)
        /\ Opened(r) => Opened(r)' \/ pc'[r] \in {"cleanup", "exit"}
    BY <1>0, <1>20 DEF InitMemory, Goto, Opened, TypeOK
  <2>2. adj' = adj /\ sem'[RCV_MUTEX] = sem[RCV_MUTEX]
    BY <1>20 DEF InitMemory, semVars
  <2> QED BY <1>0, <1>20, <2>1, <2>2, NothingLocked DEF InitMemory, Goto, TypeOK
<1>21. ASSUME NEW r \in Receivers, SenderOk(r) PROVE Locked'
  <2>1. /\ Opened(r)' => Opened(r)
        /\ Opened(r) => Opened(r)' \/ pc'[r] \in {"cleanup", "exit"}
    BY <1>0, <1>21 DEF SenderOk, Goto, Opened, TypeOK
  <2>2. adj' = adj /\ sem'[RCV_MUTEX] = sem[RCV_MUTEX]
    BY <1>21 DEF SenderOk, semVars
  <2> QED BY <1>0, <1>21, <2>1, <2>2, NothingLocked DEF SenderOk, Goto, TypeOK
<1>22. ASSUME NEW r \in Receivers, SenderEof(r) PROVE Locked'
  <2>1. /\ Opened(r)' => Opened(r)
        /\ Opened(r) => Opened(r)' \/ pc'[r] \in {"cleanup", "exit"}
    BY <1>0, <1>22 DEF SenderEof, Goto, Return, Opened, TypeOK
  <2>2. adj' = adj /\ sem'[RCV_MUTEX] = sem[RCV_MUTEX]
    BY <1>22 DEF SenderEof, semVars
  <2> QED BY <1>0, <1>22, <2>1, <2>2, NothingLocked DEF SenderEof, Goto, Return, TypeOK
<1>23. ASSUME NEW r \in Receivers, SenderNotOk(r) PROVE Locked'
  <2>1. /\ Opened(r)' => Opened(r)
        /\ Opened(r) => Opened(r)' \/ pc'[r] \in {"cleanup", "exit"}
    BY <1>0, <1>23 DEF SenderNotOk, Goto, Return, Opened, TypeOK
  <2>2. adj' = adj /\ sem'[RCV_MUTEX] = sem[RCV_MUTEX]
    BY <1>23 DEF SenderNotOk, semVars
  <2> QED BY <1>0, <1>23, <2>1, <2>2, NothingLocked DEF SenderNotOk, Goto, Return, TypeOK
<1>24. ASSUME NEW r \in Receivers, Write(r) PROVE Locked'
  <2>1. /\ Opened(r)' => Opened(r)
        /\ Opened(r) => Opened(r)' \/ pc'[r] \in {"cleanup", "exit"}
    BY <1>0, <1>24 DEF Write, Goto, Opened, TypeOK
  <2>2. adj' = adj /\ sem'[RCV_MUTEX] = sem[RCV_MUTEX]
    BY <1>24 DEF Write, semVars
  <2> QED BY <1>0, <1>24, <2>1, <2>2, NothingLocked DEF Write, Goto, TypeOK
<1>25. ASSUME NEW r \in Receivers, Acknowledge(r) PROVE Locked'
  <2>1. /\ Opened(r)' => Opened(r)
        /\ Opened(r) => Opened(r)' \/ pc'[r] \in {"cleanup", "exit"}
    BY <1>0, <1>25 DEF Acknowledge, Goto, Opened, TypeOK
  <2>2. adj' = adj /\ sem'[RCV_MUTEX] = sem[RCV_MUTEX]
    BY <1>25 DEF Acknowledge, semVars
  <2> QED BY <1>0, <1>25, <2>1, <2>2, NothingLocked DEF Acknowledge, Goto, TypeOK
<1>26. ASSUME NEW r \in Receivers, ResetSender(r) PROVE Locked'
  <2>1. /\ Opened(r)' => Opened(r)
        /\ Opened(r) => Opened(r)' \/ pc'[r] \in {"cleanup", "exit"}
    BY <1>0, <1>26 DEF ResetSender, Goto, Opened, TypeOK
  <2>2. adj' = adj /\ sem'[RCV_MUTEX] = sem[RCV_MUTEX]
    BY <1>26 DEF ResetSender, semVars
  <2> QED BY <1>0, <1>26, <2>1, <2>2, NothingLocked DEF ResetSender, Goto, TypeOK
<1>27. ASSUME NEW r \in Receivers, WriteFails(r) PROVE Locked'
  <2>1. /\ Opened(r)' => Opened(r)
        /\ Opened(r) => Opened(r)' \/ pc'[r] \in {"cleanup", "exit"}
    BY <1>0, <1>27 DEF WriteFails, Goto, Return, Opened, TypeOK
  <2>2. adj' = adj /\ sem'[RCV_MUTEX] = sem[RCV_MUTEX]
    BY <1>27 DEF WriteFails, semVars
  <2> QED BY <1>0, <1>27, <2>1, <2>2, NothingLocked DEF WriteFails, Goto, Return, TypeOK
<1>28. ASSUME NEW s \in Senders, TestEof(s) PROVE Locked'
  <2>1. PICK to \in {"cleanup", "pMemory"} : pc' = [pc EXCEPT ![s] = to]
    BY <1>28 DEF TestEof, Goto, Return
  <2> QED BY <1>0, <1>28, <2>1, NothingLocked DEF TestEof, semVars
<1>29. ASSUME NEW p \in Processes, ShmGet(p) PROVE Locked'
  <2>1. pc' = [pc EXCEPT ![p] = "shmat"] /\ pc[p] = "shmget" /\ "shmat" \notin {"lock", "gone"}
    BY <1>29 DEF ShmGet, Goto
  <2>2. ~ Opened(p) /\ ~ Opened(p)'
    BY <1>29, <2>1 DEF TypeOK, Opened
  <2>3. adj' = adj /\ sem'[RCV_MUTEX] = sem[RCV_MUTEX]
    BY <1>29 DEF ShmGet, semVars
  <2> QED BY <2>1, <2>2, <2>3, NothingLocked
<1>30. ASSUME NEW p \in Processes, NEW next \in {"join", "init"}, ShmAttach(p, next) PROVE Locked'
  <2>1. pc' = [pc EXCEPT ![p] = next] /\ pc[p] = "shmat" /\ next \notin {"lock", "gone"}
    BY <1>30 DEF ShmAttach, Goto
  <2>2. ~ Opened(p) /\ ~ Opened(p)'
    BY <1>30, <2>1 DEF TypeOK, Opened
  <2>3. adj' = adj /\ sem'[RCV_MUTEX] = sem[RCV_MUTEX]
    BY <1>30 DEF ShmAttach, semVars
  <2> QED BY <2>1, <2>2, <2>3, NothingLocked
<1>31. ASSUME NEW p \in Processes, ShmAttachFails(p) PROVE Locked'
  <2>1. pc' = [pc EXCEPT ![p] = "cleanup"] /\ pc[p] = "shmat" /\ "cleanup" \notin {"lock", "gone"}
    BY <1>31 DEF ShmAttachFails, Goto, Return
  <2>2. ~ Opened(p) /\ ~ Opened(p)'
    BY <1>31, <2>1 DEF TypeOK, Opened
  <2>3. adj' = adj /\ sem'[RCV_MUTEX] = sem[RCV_MUTEX]
    BY <1>31 DEF ShmAttachFails, semVars
  <2> QED BY <2>1, <2>2, <2>3, NothingLocked
<1>32. ASSUME NEW p \in Processes, Cleanup(p) PROVE Locked'
  <2>1. pc' = [pc EXCEPT ![p] = "exit"] /\ pc[p] = "cleanup" /\ "exit" \notin {"lock", "gone"}
    BY <1>32 DEF Cleanup, Goto
  <2>2. ~ Opened(p) /\ ~ Opened(p)'
    BY <1>32, <2>1 DEF TypeOK, Opened
  <2>3. adj' = adj /\ sem'[RCV_MUTEX] = sem[RCV_MUTEX]
    BY <1>32 DEF Cleanup, semVars
  <2> QED BY <2>1, <2>2, <2>3, NothingLocked
<1>33. ASSUME NEW p \in Processes, Exit(p) PROVE Locked'
  BY <1>33, Unlocked DEF Exit, Goto
<1>34. ASSUME NEW p \in Processes, Kill(p) PROVE Locked'
  BY <1>34, Unlocked DEF Kill, Die
<1>35. CASE UNCHANGED vars
  BY <1>35 DEF vars, Locked, ReceiversExclude, Active, Opened
<1>41. ASSUME NEW p \in Processes, NullStep(p) PROVE Locked'
  <2>1. CASE Crash(p)
    BY <2>1, Unlocked DEF Crash, Die
  <2>2. CASE ShmSkipped(p)
    <3>1. PICK to \in {"join", "init"} : pc' = [pc EXCEPT ![p] = to]
      BY <2>2 DEF ShmSkipped, Goto
    <3>2. pc[p] = "shmat" /\ ~ Opened(p) /\ ~ Opened(p)'
      BY <2>2, <3>1 DEF ShmSkipped, Goto, TypeOK, Opened
    <3>3. adj' = adj /\ sem'[RCV_MUTEX] = sem[RCV_MUTEX]
      BY <2>2 DEF ShmSkipped, semVars
    <3> QED BY <3>1, <3>2, <3>3, NothingLocked
  <2> QED BY <1>41, <2>1, <2>2 DEF NullStep
<1>36. ASSUME NEW r \in Receivers, LockReceivers(r) PROVE Locked'
  <2>1. /\ sem[RCV_MUTEX] = 0 /\ sem' = [sem EXCEPT ![RCV_MUTEX] = 1]
        /\ adj' = [adj EXCEPT ![r] = [adj[r] EXCEPT ![RCV_MUTEX] = adj[r][RCV_MUTEX] - 1]]
    BY <1>1, <1>36, ReceiverOperations
  <2>2. /\ sem'[RCV_MUTEX] = 1
        /\ \A q \in Processes : q # r => adj'[q] = adj[q]
        /\ adj'[r][RCV_MUTEX] = adj[r][RCV_MUTEX] - 1 /\ adj'[r][SND_MUTEX] = adj[r][SND_MUTEX]
    BY <1>0, <2>1 DEF TypeOK, Semaphores, RCV_MUTEX, SND_MUTEX
  <2>3. pc[r] = "lock" /\ pc'[r] = "zero1" /\ \A q \in Processes : q # r => pc'[q] = pc[q]
    BY <1>0, <1>36 DEF LockReceivers, Goto, TypeOK
  <2>4. \A q \in Receivers : ~ Active(q)
    BY <2>1 DEF Locked
  <2>5. /\ Active(r)' /\ ~ Opened(r)' /\ ~ Opened(r)
        /\ \A q \in Receivers : q # r => ~ Active(q)' /\ (Opened(q)' <=> Opened(q)) /\ pc'[q] = pc[q]
    BY <1>0, <2>3, <2>4 DEF Active, Opened
  <2>6. adj'[r][RCV_MUTEX] = 0 - 1 /\ adj'[r][SND_MUTEX] = 0
    BY <2>2, <2>3, <2>4, <2>5 DEF Locked
  <2>7. ASSUME NEW q \in Receivers
        PROVE  /\ adj'[q][RCV_MUTEX] = IF Active(q)' THEN 0 - 1 ELSE 0
               /\ adj'[q][SND_MUTEX] \in {0, 0 - 1}
               /\ Opened(q)' => adj'[q][SND_MUTEX] = 0 - 1
               /\ ~ Opened(q)' /\ pc'[q] \notin {"cleanup", "exit"} => adj'[q][SND_MUTEX] = 0
               /\ Active(q)' => sem'[RCV_MUTEX] = 1
    <3>1. CASE q = r
      BY <2>2, <2>5, <2>6, <3>1
    <3>2. CASE q # r
      BY <1>0, <2>2, <2>4, <2>5, <3>2 DEF Locked
    <3> QED BY <3>1, <3>2
  <2>8. ReceiversExclude'
    BY <2>5 DEF ReceiversExclude, Active
  <2>9. (\A s \in Senders : \A i \in Semaphores : adj[s][i] = 0)'
    BY <1>0, <2>2 DEF Locked
  <2> QED BY <2>5, <2>7, <2>8, <2>9 DEF Locked
<1>37. ASSUME NEW r \in Receivers, NEW i \in 1 .. 3, ZeroSemaphore(r, i) PROVE Locked'
  <2>1. PICK to \in {"zero2", "zero3", "shmget"} : pc' = [pc EXCEPT ![r] = to]
    <3>1. <<"zero2", "zero3", "shmget">>[i] \in {"zero2", "zero3", "shmget"}
      OBVIOUS
    <3> QED BY <1>37, <3>1 DEF ZeroSemaphore, Goto
  <2>2. pc[r] \in {"zero1", "zero2", "zero3"}
    BY <1>37 DEF ZeroSemaphore, Goto
  <2>3. sem'[RCV_MUTEX] = sem[RCV_MUTEX]
    BY <1>37 DEF ZeroSemaphore, TypeOK, Semaphores, RCV_MUTEX
  <2>4. \A q \in Processes : \A j \in Semaphores : adj'[q][j] = IF i = j THEN 0 ELSE adj[q][j]
    BY <1>37 DEF ZeroSemaphore, TypeOK
  <2>5. /\ RCV_MUTEX \in Semaphores /\ SND_MUTEX \in Semaphores /\ i # RCV_MUTEX
        /\ pc'[r] = to /\ \A q \in Processes : q # r => pc'[q] = pc[q]
    BY <1>0, <2>1 DEF RCV_MUTEX, SND_MUTEX, Semaphores, TypeOK
  <2>6. /\ Active(r) /\ Active(r)' /\ ~ Opened(r) /\ ~ Opened(r)'
        /\ \A q \in Receivers : q # r => pc[q] \in {"lock", "gone"} /\ pc'[q] = pc[q]
    BY <1>0, <2>2, <2>5 DEF Active, Opened, Locked, ReceiversExclude
  <2>7. \A q \in Receivers : (Active(q)' <=> Active(q)) /\ ~ Opened(q)' /\ ~ Opened(q)
    BY <2>6 DEF Active, Opened
  <2>8. pc[r] \notin {"cleanup", "exit"} /\ \A q \in Receivers : pc[q] \notin {"cleanup", "exit"}
    BY <2>2, <2>6
  <2>9. ASSUME NEW q \in Receivers
        PROVE  /\ adj'[q][RCV_MUTEX] = IF Active(q)' THEN 0 - 1 ELSE 0
               /\ adj'[q][SND_MUTEX] = 0
               /\ Active(q)' => sem'[RCV_MUTEX] = 1
    <3>1. adj[q][SND_MUTEX] = 0 /\ adj[q][RCV_MUTEX] = IF Active(q) THEN 0 - 1 ELSE 0
      BY <2>7, <2>8 DEF Locked
    <3> QED BY <1>0, <2>3, <2>4, <2>5, <2>7, <3>1 DEF Locked
  <2>10. ReceiversExclude'
    BY <2>6 DEF ReceiversExclude
  <2>11. (\A s \in Senders : \A j \in Semaphores : adj[s][j] = 0)'
    BY <1>0, <2>4 DEF Locked
  <2>12. \E q \in Receivers : Active(q)'
    BY <2>6
  <2> QED BY <2>7, <2>9, <2>10, <2>11, <2>12 DEF Locked
<1>38. ASSUME NEW r \in Receivers, Open(r) PROVE Locked'
  <2>1. /\ sem' = [sem EXCEPT ![SND_MUTEX] = @ + 1, ![MEMORY] = @ + 1]
        /\ adj' = [adj EXCEPT ![r] = [adj[r] EXCEPT ![SND_MUTEX] = @ - 1, ![MEMORY] = @ + 2]]
    BY <1>1, <1>38, ReceiverOperations
  <2>2. /\ RCV_MUTEX \in Semaphores /\ SND_MUTEX \in Semaphores /\ MEMORY \in Semaphores
        /\ RCV_MUTEX # SND_MUTEX /\ RCV_MUTEX # MEMORY /\ SND_MUTEX # MEMORY
    BY DEF RCV_MUTEX, SND_MUTEX, MEMORY, Semaphores
  <2>3. /\ sem'[RCV_MUTEX] = sem[RCV_MUTEX]
        /\ \A q \in Processes : q # r => adj'[q] = adj[q]
        /\ adj'[r] = [adj[r] EXCEPT ![SND_MUTEX] = @ - 1, ![MEMORY] = @ + 2]
    BY <1>0, <2>1, <2>2 DEF TypeOK
  <2>4. adj'[r][RCV_MUTEX] = adj[r][RCV_MUTEX] /\ adj'[r][SND_MUTEX] = adj[r][SND_MUTEX] - 1
    BY <1>0, <2>2, <2>3 DEF TypeOK
  <2>5. pc[r] = "open" /\ pc'[r] = "pData" /\ \A q \in Processes : q # r => pc'[q] = pc[q]
    BY <1>0, <1>38 DEF Open, Goto, TypeOK
  <2>6. /\ Active(r) /\ Active(r)' /\ ~ Opened(r) /\ Opened(r)'
        /\ \A q \in Receivers : q # r =>
              /\ Active(q)' <=> Active(q)
              /\ Opened(q)' <=> Opened(q)
              /\ pc'[q] = pc[q] /\ adj'[q] = adj[q]
    BY <1>0, <2>3, <2>5 DEF Active, Opened
  <2>7. adj[r][SND_MUTEX] = 0 /\ adj[r][RCV_MUTEX] = 0 - 1 /\ sem[RCV_MUTEX] = 1
    BY <2>5, <2>6 DEF Locked
  <2>8. ASSUME NEW q \in Receivers
        PROVE  /\ adj'[q][RCV_MUTEX] = IF Active(q)' THEN 0 - 1 ELSE 0
               /\ adj'[q][SND_MUTEX] \in {0, 0 - 1}
               /\ Opened(q)' => adj'[q][SND_MUTEX] = 0 - 1
               /\ ~ Opened(q)' /\ pc'[q] \notin {"cleanup", "exit"} => adj'[q][SND_MUTEX] = 0
               /\ Active(q)' => sem'[RCV_MUTEX] = 1
    <3>1. CASE q = r
      BY <2>3, <2>4, <2>6, <2>7, <3>1
    <3>2. CASE q # r
      BY <2>3, <2>6, <3>2 DEF Locked
    <3> QED BY <3>1, <3>2
  <2>9. ReceiversExclude'
    BY <2>5, <2>6 DEF ReceiversExclude, Locked, Active
  <2>10. (\A s \in Senders : \A j \in Semaphores : adj[s][j] = 0)'
    BY <1>0, <2>3 DEF Locked
  <2> QED BY <2>6, <2>8, <2>9, <2>10 DEF Locked
<1>39. ASSUME NEW s \in Senders, SenderStep(s) PROVE Locked'
  BY <1>0, <1>39, <1>10, <1>11, <1>12, <1>13, <1>14, <1>15, <1>16, <1>28, <1>31, <1>30,
     <1>29
  DEF SenderStep
<1>40. ASSUME NEW r \in Receivers, ReceiverStep(r) PROVE Locked'
  BY <1>0, <1>40, <1>18, <1>19, <1>20, <1>21, <1>22, <1>23, <1>24, <1>25, <1>26, <1>36,
     <1>37, <1>38, <1>31, <1>30, <1>29
  DEF ReceiverStep
<1> QED BY <1>0, <1>17, <1>27, <1>32, <1>33, <1>34, <1>35, <1>39, <1>40, <1>41 DEF Next, Fault, Step

-----------------------------------------------------------------------------
\* The base holds at the start.
LEMMA BaseInit == SemAssumption /\ Init /\ firstId = 1 => Base
<1> SUFFICES ASSUME SemAssumption, Init, firstId = 1 PROVE Base
  OBVIOUS
<1>1. TypeOK
  BY
  DEF Init, TypeOK, SemAssumption, Segments, NoSegment, NoChunk, SenderPlaces,
      ReceiverPlaces,
         Semaphores, Processes
<1>2. Places
  <2>1. IsFiniteSet(Processes) /\ Owners \subseteq Processes
    BY FS_Union DEF SemAssumption, Processes, Owners
  <2>2. Cardinality(Owners) \in Nat
    BY <2>1, FS_Subset, FS_CardinalityType
  <2>3. \A p \in Processes : pc[p] \in EarlyPlaces
    BY DEF Init, EarlyPlaces
  <2>4. \A p \in Processes : ~ Using(p) /\ pc[p] \notin KeyPlaces /\ pc[p] \notin {"shmat", "cleanup"}
    BY <2>3 DEF EarlyPlaces, UsingPlaces, KeyPlaces, Using
  <2>5. created <= Cardinality(Owners) /\ key <= created /\ \A p \in Processes : shm[p] = 0 /\ shm[p] <= created
    BY <2>2 DEF Init, NoSegment
  <2>6. /\ \A s \in Senders : s \in Processes /\ pc[s] \in SenderPlaces
        /\ \A r \in Receivers : r \in Processes /\ pc[r] \in ReceiverPlaces
    BY DEF Init, SenderPlaces, ReceiverPlaces, Processes, SemAssumption
  <2> QED BY <2>4, <2>5, <2>6 DEF Places, NoSegment
<1>3. Announced
  BY DEF Init, Announced, Processes, SemAssumption
<1>4. Locked
  <2>1. \A r \in Receivers : pc[r] = "lock" /\ r \in Processes
    BY DEF Init, Processes, SemAssumption
  <2> QED BY <2>1 DEF Init, Locked, ReceiversExclude, Active, Opened, Processes, Semaphores,
                      RCV_MUTEX, SND_MUTEX
<1> QED BY <1>1, <1>2, <1>3, <1>4 DEF Base

\* And no step leaves it.
LEMMA BaseStep == SemAssumption /\ Base /\ [Next]_vars => Base'
<1> SUFFICES ASSUME SemAssumption, Base, [Next]_vars PROVE Base'
  OBVIOUS
<1>1. TypeOK'
  BY TypeStep DEF Base
<1> QED BY <1>1, PlacesStep, AnnouncedStep, LockedStep DEF Base

\* The segment has the identifier 0: nobody attaches it, so that senders wait to
\* join and receivers crash before they open a session.
Unattached ==
    /\ TypeOK /\ Locked
    /\ firstId = 0 /\ key \in {0, 1} /\ created = key
    /\ sem[SND_MUTEX] = 0
    /\ \A p \in Processes : /\ shm[p] \in {0, 1} /\ attached[p] = NoSegment
                            /\ status[p] \in {"running", "killed", "crashed"}
    /\ \A s \in Senders : pc[s] \in {"shmget", "shmat", "join", "gone"}
    /\ \A r \in Receivers :
          /\ pc[r] \in {"lock", "zero1", "zero2", "zero3", "shmget", "shmat",
                        "init", "gone"}
          /\ out[r] = << >>

LEMMA UnattachedInit == SemAssumption /\ Init /\ firstId = 0 => Unattached
<1> SUFFICES ASSUME SemAssumption, Init, firstId = 0 PROVE Unattached
  OBVIOUS
<1>1. TypeOK
  BY DEF Init, TypeOK, SemAssumption, Segments, NoSegment, NoChunk, SenderPlaces,
         ReceiverPlaces, Semaphores, Processes
<1>2. \A r \in Receivers : pc[r] = "lock" /\ r \in Processes
  BY DEF Init, Processes, SemAssumption
<1>3. Locked
  BY <1>2 DEF Init, Locked, ReceiversExclude, Active, Opened, Processes, Semaphores,
              RCV_MUTEX, SND_MUTEX
<1>4. SND_MUTEX \in Semaphores
  BY DEF SND_MUTEX, Semaphores
<1> QED BY <1>1, <1>2, <1>3, <1>4 DEF Init, Unattached, NoSegment, Processes

\* The steps that are left: nobody has a segment to use.
LEMMA UnattachedSteps ==
    ASSUME SemAssumption, Unattached, [Next]_vars
    PROVE  \/ UNCHANGED vars
           \/ \E p \in Processes : ShmGet(p) \/ ShmSkipped(p) \/ Crash(p) \/ Kill(p)
           \/ \E r \in Receivers : LockReceivers(r) \/ \E i \in 1 .. 3 : ZeroSemaphore(r, i)
<1>0. /\ \A s \in Senders : s \in Processes
      /\ \A r \in Receivers : r \in Processes
      /\ \A p \in Killable : p \in Processes
      /\ \A p \in Processes : p \in Senders \/ p \in Receivers
  BY DEF Processes, SemAssumption
<1>1. ASSUME NEW p \in Processes
      PROVE  /\ \A next : ~ ShmAttach(p, next)
             /\ ~ ShmAttachFails(p)
  <2>1. ~ ShmId(shm[p]) > 0
    BY DEF Unattached, ShmId
  <2> QED BY <2>1 DEF ShmAttach, ShmAttachFails
<1>2. ASSUME NEW s \in Senders PROVE ~ Join(s)
  <2>1. Sems
    BY DEF Sems, TypeOK, Unattached
  <2>2. Join(s) => sem[SND_MUTEX] >= 1
    BY <2>1, SenderOperations DEF Takes
  <2> QED BY <2>2 DEF Unattached
<1>3. ASSUME NEW p \in Processes PROVE ~ Cleanup(p) /\ ~ Exit(p)
  BY <1>0 DEF Unattached, Cleanup, Exit, Goto
<1>4. ASSUME NEW s \in Senders
      PROVE  ~ ReadFails(s) /\ (SenderStep(s) => ShmGet(s))
  BY <1>0, <1>1, <1>2
  DEF Unattached, SenderStep, PMemory, ReceiverOk, ReceiverNotOk, Read, ReadFails,
      ResetReceiver, VData, TestEof, Goto, Return
<1>5. ASSUME NEW r \in Receivers
      PROVE  /\ ~ WriteFails(r)
             /\ ReceiverStep(r) => \/ ShmGet(r) \/ LockReceivers(r)
                                   \/ \E i \in 1 .. 3 : ZeroSemaphore(r, i)
  <2>1. ~ InitMemory(r)
    BY <1>0 DEF InitMemory, Unattached
  <2> QED BY <1>0, <1>1, <2>1
          DEF Unattached, ReceiverStep, Open, PData, SenderOk, SenderEof, SenderNotOk,
              Write, WriteFails, Acknowledge, ResetSender, VMemory, Goto, Return
<1> QED BY <1>0, <1>3, <1>4, <1>5 DEF Next, Fault, Step, NullStep

\* A process dies: what it had is taken back.
LEMMA UnattachedDeath ==
    ASSUME SemAssumption, Unattached, Locked', NEW p \in Processes, NEW how \in {"killed", "crashed"},
           Die(p, how), kills' \in 0 .. MaxKills
    PROVE  Unattached'
<1>1. /\ \A s \in Senders : s \in Processes
      /\ \A r \in Receivers : r \in Processes
      /\ TypeOK /\ Sems /\ SND_MUTEX \in Semaphores
  <2>1. TypeOK /\ SND_MUTEX \in Semaphores
    BY DEF Unattached, SND_MUTEX, Semaphores
  <2>2. Sems
    BY <2>1 DEF TypeOK, Sems
  <2> QED BY <2>1, <2>2 DEF Processes
<1>2. sem' \in [Semaphores -> Nat] /\ sem'[SND_MUTEX] = 0
  <2>1. adj[p][SND_MUTEX] <= 0
    BY <1>1 DEF Unattached, Locked, Processes
  <2>2. adj[p][SND_MUTEX] \in Int /\ sem[SND_MUTEX] = 0
    BY <1>1 DEF Sems, Unattached
  <2>3. /\ sem' \in [Semaphores -> Nat]
        /\ \A i \in Semaphores :
              sem'[i] = IF sem[i] + adj[p][i] < 0 THEN 0 ELSE sem[i] + adj[p][i]
    BY <1>1, Undone DEF Die
  <2> QED BY <1>1, <2>1, <2>2, <2>3
<1>3. TypeOK'
  BY <1>1, <1>2 DEF Die, TypeOK, SenderPlaces
<1>4. \A q \in Processes : /\ pc'[q] = IF q = p THEN "gone" ELSE pc[q]
                           /\ status'[q] = IF q = p THEN how ELSE status[q]
                           /\ attached'[q] = NoSegment
  BY <1>1 DEF Die, Unattached, TypeOK
<1> QED BY <1>1, <1>2, <1>3, <1>4 DEF Unattached, Die

\* Nothing else happens.
LEMMA UnattachedStep == SemAssumption /\ Unattached /\ [Next]_vars => Unattached'
<1> SUFFICES ASSUME SemAssumption, Unattached, [Next]_vars PROVE Unattached'
  OBVIOUS
<1>0. /\ \A s \in Senders : s \in Processes /\ s \notin Receivers
      /\ \A r \in Receivers : r \in Processes /\ r \notin Senders
      /\ TypeOK /\ Sems /\ SND_MUTEX \in Semaphores
  BY DEF Unattached, TypeOK, Sems, Processes, SemAssumption, SND_MUTEX, Semaphores
<1>1. Locked'
  BY LockedStep DEF Unattached
<1>2. CASE UNCHANGED vars
  BY <1>0, <1>1, <1>2 DEF vars, Unattached, TypeOK
<1>3. ASSUME NEW p \in Processes, ShmGet(p) PROVE Unattached'
  <2>1. key' = 1 /\ created' = 1 /\ shm' = [shm EXCEPT ![p] = 1]
    BY <1>3 DEF ShmGet, Unattached, NoSegment
  <2>2. 1 \in Segments
    <3>1. IsFiniteSet(Processes)
      BY FS_Union DEF SemAssumption, Processes
    <3>2. Cardinality(Processes) \in Nat /\ Cardinality(Processes) # 0
      BY <3>1, FS_CardinalityType, FS_EmptySet
    <3> QED BY <3>2 DEF Segments
  <2>3. TypeOK'
    BY <1>0, <1>3, <2>1, <2>2 DEF ShmGet, TypeOK, Goto, semVars, SenderPlaces
  <2>4. /\ \A q \in Processes : pc'[q] = IF q = p THEN "shmat" ELSE pc[q]
        /\ \A q \in Processes : shm'[q] \in {0, 1}
    BY <1>0, <1>3, <2>1 DEF ShmGet, Goto, TypeOK, Unattached
  <2> QED BY <1>0, <1>1, <1>3, <2>1, <2>3, <2>4 DEF ShmGet, Unattached, semVars
<1>4. ASSUME NEW p \in Processes, ShmSkipped(p) PROVE Unattached'
  <2>1. PICK to : to = (IF p \in Senders THEN "join" ELSE "init") /\ pc' = [pc EXCEPT ![p] = to]
    BY <1>4 DEF ShmSkipped, Goto
  <2>2. TypeOK'
    BY <1>0, <1>4, <2>1 DEF ShmSkipped, TypeOK, semVars, shmVars, SenderPlaces, ReceiverPlaces
  <2>3. \A q \in Processes : pc'[q] = IF q = p THEN to ELSE pc[q]
    BY <1>0, <2>1 DEF TypeOK
  <2> QED BY <1>0, <1>1, <1>4, <2>1, <2>2, <2>3 DEF ShmSkipped, Unattached, semVars, shmVars
<1>5. ASSUME NEW p \in Processes, Crash(p) \/ Kill(p) PROVE Unattached'
  <2>1. PICK how \in {"killed", "crashed"} : Die(p, how)
    BY <1>5 DEF Crash, Kill
  <2>2. kills' \in 0 .. MaxKills
    BY <1>0, <1>5 DEF Crash, Kill, TypeOK, SemAssumption
  <2> QED BY <1>1, <2>1, <2>2, UnattachedDeath
<1>6. ASSUME NEW r \in Receivers, LockReceivers(r) PROVE Unattached'
  <2>1. /\ sem' = [sem EXCEPT ![RCV_MUTEX] = 1]
        /\ adj' = [adj EXCEPT ![r] = [adj[r] EXCEPT ![RCV_MUTEX] = adj[r][RCV_MUTEX] - 1]]
    BY <1>0, <1>6, ReceiverOperations
  <2>2. [adj[r] EXCEPT ![RCV_MUTEX] = adj[r][RCV_MUTEX] - 1] \in [Semaphores -> Int]
    BY <1>0 DEF TypeOK, Semaphores, RCV_MUTEX
  <2>3. adj' \in [Processes -> [Semaphores -> Int]]
    BY <1>0, <2>1, <2>2 DEF TypeOK
  <2>6. sem' \in [Semaphores -> Nat] /\ sem'[SND_MUTEX] = sem[SND_MUTEX]
    <3>1. sem \in [Semaphores -> Nat] /\ SND_MUTEX # RCV_MUTEX /\ 1 \in Nat
      BY <1>0 DEF TypeOK, RCV_MUTEX, SND_MUTEX
    <3> QED BY <1>0, <2>1, <3>1
  <2>4. TypeOK'
    BY <1>0, <1>6, <2>3, <2>6 DEF LockReceivers, TypeOK, Goto, shmVars, ReceiverPlaces
  <2>5. \A q \in Processes : pc'[q] = IF q = r THEN "zero1" ELSE pc[q]
    BY <1>0, <1>6 DEF LockReceivers, Goto, TypeOK
  <2> QED BY <1>0, <1>1, <1>6, <2>3, <2>4, <2>5, <2>6 DEF LockReceivers, Unattached, shmVars
<1>7. ASSUME NEW r \in Receivers, NEW i \in 1 .. 3, ZeroSemaphore(r, i) PROVE Unattached'
  <2>1. PICK to \in {"zero2", "zero3", "shmget"} : pc' = [pc EXCEPT ![r] = to]
    <3>1. <<"zero2", "zero3", "shmget">>[i] \in {"zero2", "zero3", "shmget"}
      OBVIOUS
    <3> QED BY <1>7, <3>1 DEF ZeroSemaphore, Goto
  <2>2. /\ adj' \in [Processes -> [Semaphores -> Int]]
        /\ sem' \in [Semaphores -> Nat] /\ sem'[SND_MUTEX] \in {0, sem[SND_MUTEX]}
    <3>1. sem' \in [Semaphores -> Nat] /\ sem'[SND_MUTEX] \in {0, sem[SND_MUTEX]}
      BY <1>0, <1>7 DEF ZeroSemaphore, TypeOK
    <3>2. ASSUME NEW q \in Processes PROVE [adj[q] EXCEPT ![i] = 0] \in [Semaphores -> Int]
      <4>1. adj[q] \in [Semaphores -> Int] /\ 0 \in Int
        BY <1>0 DEF TypeOK
      <4> QED BY <4>1
    <3> QED BY <1>7, <3>1, <3>2 DEF ZeroSemaphore
  <2>3. TypeOK'
    BY <1>0, <1>7, <2>1, <2>2 DEF ZeroSemaphore, TypeOK, shmVars, ReceiverPlaces
  <2>4. \A q \in Processes : pc'[q] = IF q = r THEN to ELSE pc[q]
    BY <1>0, <2>1 DEF TypeOK
  <2> QED BY <1>0, <1>1, <1>7, <2>2, <2>3, <2>4 DEF ZeroSemaphore, Unattached, shmVars
<1> QED BY <1>2, <1>3, <1>4, <1>5, <1>6, <1>7, UnattachedSteps

\* Whoever is killed, whenever, and whatever I/O fails: the variables are typed, the
\* processes are where they may be with the segments they must have, what is
\* announced is a chunk, and semaphore 0 and its adjustments tell whether a receiver
\* is active (receiver.c:35-113, sender.c:37-105, common_sem.h); or the segment has
\* the identifier 0 and nobody gets as far as using it.
THEOREM BaseInvariant == Spec => [](Base \/ Unattached)
<1>1. Init => Base \/ Unattached
  <2>1. Init => firstId \in {0, 1}
    BY DEF Init
  <2> QED BY <2>1, BaseInit, UnattachedInit, SemAssumption
<1>2. (Base \/ Unattached) /\ [Next]_vars => (Base \/ Unattached)'
  BY BaseStep, UnattachedStep, SemAssumption
<1> QED BY <1>1, <1>2, PTL DEF Spec

\* Every variable keeps its type.
THEOREM TypeCorrect == Spec => []TypeOK
<1>1. Base \/ Unattached => TypeOK
  BY DEF Base, Unattached
<1> QED BY <1>1, BaseInvariant, PTL

\* Between the wait-for-zero and its exit, one receiver works alone (receiver.c:35),
\* whoever is killed.
THEOREM Exclusion == Spec => []ReceiversExclude
<1>1. Base \/ Unattached => ReceiversExclude
  BY DEF Base, Unattached, Locked
<1> QED BY <1>1, BaseInvariant, PTL

-----------------------------------------------------------------------------
(* Who moves, and what it leaves alone *)

SenderActs(s) == SenderStep(s) \/ ReadFails(s) \/ Cleanup(s) \/ Exit(s) \/ Kill(s)
ReceiverActs(r) == ReceiverStep(r) \/ WriteFails(r) \/ Cleanup(r) \/ Exit(r) \/ Kill(r)

\* Every step is one of a sender or of a receiver.
LEMMA SomebodyActs ==
    ASSUME SemAssumption, Base, [Next]_vars
    PROVE  \/ UNCHANGED vars
           \/ \E s \in Senders : SenderActs(s)
           \/ \E r \in Receivers : ReceiverActs(r)
BY Attached DEF Base, SemAssumption, Processes, Next, Fault, Step, SenderActs, ReceiverActs

Others(p) ==
    /\ \A q \in Processes \ {p} : pc'[q] = pc[q] /\ status'[q] = status[q] /\ shm'[q] = shm[q]
    /\ \A s \in Senders \ {p} : pos'[s] = pos[s]
    /\ \A r \in Receivers \ {p} : out'[r] = out[r]

\* A sender leaves the others, and what is written, alone.
LEMMA SenderFrame ==
    ASSUME TypeOK, SemAssumption, NEW s \in Senders, SenderActs(s)
    PROVE  Others(s) /\ out' = out
<1>0. s \in Processes
  BY DEF Processes
<1>1. ASSUME ShmGet(s) PROVE Others(s) /\ out' = out
  BY <1>0, <1>1 DEF ShmGet, Goto, Others, TypeOK
<1>2. ASSUME NEW next, ShmAttach(s, next) PROVE Others(s) /\ out' = out
  BY <1>0, <1>2 DEF ShmAttach, Goto, Others, TypeOK
<1>3. ASSUME ShmAttachFails(s) PROVE Others(s) /\ out' = out
  BY <1>0, <1>3 DEF ShmAttachFails, Goto, Return, Others, TypeOK, shmVars
<1>4. ASSUME Join(s) \/ PMemory(s) \/ VData(s) PROVE Others(s) /\ out' = out
  BY <1>0, <1>4 DEF Join, PMemory, VData, Goto, Others, TypeOK, shmVars
<1>5. ASSUME ReceiverOk(s) PROVE Others(s) /\ out' = out
  BY <1>0, <1>5 DEF ReceiverOk, Goto, Others, TypeOK, shmVars
<1>6. ASSUME ReceiverNotOk(s) PROVE Others(s) /\ out' = out
  BY <1>0, <1>6 DEF ReceiverNotOk, Goto, Return, Others, TypeOK, shmVars
<1>7. ASSUME Read(s) PROVE Others(s) /\ out' = out
  BY <1>0, <1>7 DEF Read, Goto, Others, TypeOK, shmVars
<1>8. ASSUME ReadFails(s) PROVE Others(s) /\ out' = out
  BY <1>0, <1>8 DEF ReadFails, Goto, Return, Others, TypeOK, shmVars
<1>9. ASSUME ResetReceiver(s) PROVE Others(s) /\ out' = out
  BY <1>0, <1>9 DEF ResetReceiver, Goto, Others, TypeOK, shmVars
<1>10. ASSUME TestEof(s) PROVE Others(s) /\ out' = out
  BY <1>0, <1>10 DEF TestEof, Goto, Return, Others, TypeOK, shmVars
<1>11. ASSUME Cleanup(s) PROVE Others(s) /\ out' = out
  BY <1>0, <1>11 DEF Cleanup, Goto, Others, TypeOK
<1>12. ASSUME Exit(s) PROVE Others(s) /\ out' = out
  BY <1>0, <1>12 DEF Exit, Goto, Others, TypeOK, shmVars
<1>13. ASSUME Kill(s) PROVE Others(s) /\ out' = out
  BY <1>0, <1>13 DEF Kill, Die, Others, TypeOK
<1> QED
  BY <1>1, <1>2, <1>3, <1>4, <1>5, <1>6, <1>7, <1>8, <1>9, <1>10, <1>11, <1>12, <1>13
  DEF SenderActs, SenderStep

\* A receiver leaves the others, and the files, alone.
LEMMA ReceiverFrame ==
    ASSUME TypeOK, SemAssumption, NEW r \in Receivers, ReceiverActs(r)
    PROVE  Others(r) /\ pos' = pos
<1>0. r \in Processes
  BY DEF Processes
<1>1. ASSUME ShmGet(r) PROVE Others(r) /\ pos' = pos
  BY <1>0, <1>1 DEF ShmGet, Goto, Others, TypeOK
<1>2. ASSUME NEW next, ShmAttach(r, next) PROVE Others(r) /\ pos' = pos
  BY <1>0, <1>2 DEF ShmAttach, Goto, Others, TypeOK
<1>3. ASSUME ShmAttachFails(r) PROVE Others(r) /\ pos' = pos
  BY <1>0, <1>3 DEF ShmAttachFails, Goto, Return, Others, TypeOK, shmVars
<1>4. ASSUME LockReceivers(r) \/ Open(r) \/ PData(r) \/ VMemory(r) PROVE Others(r) /\ pos' = pos
  BY <1>0, <1>4 DEF LockReceivers, Open, PData, VMemory, Goto, Others, TypeOK, shmVars
<1>5. ASSUME NEW i \in 1 .. 3, ZeroSemaphore(r, i) PROVE Others(r) /\ pos' = pos
  BY <1>0, <1>5 DEF ZeroSemaphore, Goto, Others, TypeOK, shmVars
<1>6. ASSUME InitMemory(r) \/ Acknowledge(r) \/ ResetSender(r) PROVE Others(r) /\ pos' = pos
  BY <1>0, <1>6 DEF InitMemory, Acknowledge, ResetSender, Goto, Others, TypeOK, shmVars
<1>7. ASSUME SenderOk(r) PROVE Others(r) /\ pos' = pos
  BY <1>0, <1>7 DEF SenderOk, Goto, Others, TypeOK, shmVars
<1>8. ASSUME SenderEof(r) \/ SenderNotOk(r) PROVE Others(r) /\ pos' = pos
  BY <1>0, <1>8 DEF SenderEof, SenderNotOk, Goto, Return, Others, TypeOK, shmVars
<1>9. ASSUME Write(r) PROVE Others(r) /\ pos' = pos
  BY <1>0, <1>9 DEF Write, Goto, Others, TypeOK, shmVars
<1>10. ASSUME WriteFails(r) PROVE Others(r) /\ pos' = pos
  BY <1>0, <1>10 DEF WriteFails, Goto, Return, Others, TypeOK, shmVars
<1>11. ASSUME Cleanup(r) PROVE Others(r) /\ pos' = pos
  BY <1>0, <1>11 DEF Cleanup, Goto, Others, TypeOK
<1>12. ASSUME Exit(r) PROVE Others(r) /\ pos' = pos
  BY <1>0, <1>12 DEF Exit, Goto, Others, TypeOK, shmVars
<1>13. ASSUME Kill(r) PROVE Others(r) /\ pos' = pos
  BY <1>0, <1>13 DEF Kill, Die, Others, TypeOK
<1> QED
  BY <1>1, <1>2, <1>3, <1>4, <1>5, <1>6, <1>7, <1>8, <1>9, <1>10, <1>11, <1>12, <1>13
  DEF ReceiverActs, ReceiverStep

\* A sender that ends has nothing to undo.
LEMMA NothingUndone ==
    ASSUME Base, NEW s \in Senders, Exit(s) \/ Kill(s)
    PROVE  sem' = sem /\ pc'[s] = "gone"
<1>1. Sems /\ s \in Processes /\ sem \in [Semaphores -> Nat]
  BY DEF Base, TypeOK, Sems, Processes
<1>2. sem' = Undo(sem, adj[s])
  BY DEF Exit, Kill, Die
<1>3. \A i \in Semaphores : adj[s][i] = 0
  BY DEF Base, Locked
<1>4. sem' \in [Semaphores -> Nat] /\ \A i \in Semaphores : sem'[i] = sem[i]
  BY <1>1, <1>2, <1>3, Undone
<1>5. pc'[s] = "gone"
  BY <1>1 DEF Exit, Kill, Die, Goto, Base, TypeOK
<1> QED BY <1>1, <1>4, <1>5

\* A sender that takes no part in a session, and cannot join one.
LEMMA Bystander ==
    ASSUME Base, SemAssumption, NEW s \in Senders, Over(s), SenderActs(s), ~ Join(s)
    PROVE  /\ memory' = memory /\ pos' = pos /\ sem' = sem
           /\ ~ Joined(s)'
           /\ key' = key \/ (key = NoSegment /\ key' = created + 1)
           /\ \/ pc[s] = "testEof" /\ status'[s] = "ok" /\ pc'[s] = "cleanup"
              \/ status'[s] = status[s] /\ (pc'[s] \in {"cleanup", "exit"} <=> pc[s] = "cleanup")
                 /\ (pc'[s] = "gone" <=> pc[s] = "exit")
              \/ status'[s] = "failed" /\ pc'[s] = "cleanup"
              \/ status'[s] = "killed" /\ pc'[s] = "gone"
           /\ pc'[s] \in {"shmget", "shmat", "join"} => pc[s] \in {"shmget", "shmat"}
<1> DEFINE Goal == 
           /\ memory' = memory /\ pos' = pos /\ sem' = sem
           /\ ~ Joined(s)'
           /\ key' = key \/ (key = NoSegment /\ key' = created + 1)
           /\ \/ pc[s] = "testEof" /\ status'[s] = "ok" /\ pc'[s] = "cleanup"
              \/ status'[s] = status[s] /\ (pc'[s] \in {"cleanup", "exit"} <=> pc[s] = "cleanup")
                 /\ (pc'[s] = "gone" <=> pc[s] = "exit")
              \/ status'[s] = "failed" /\ pc'[s] = "cleanup"
              \/ status'[s] = "killed" /\ pc'[s] = "gone"
           /\ pc'[s] \in {"shmget", "shmat", "join"} => pc[s] \in {"shmget", "shmat"}
<1>0. /\ s \in Processes /\ s \notin Receivers
      /\ pc \in [Processes -> SenderPlaces \cup ReceiverPlaces]
      /\ status \in [Processes -> {"running", "ok", "failed", "killed", "crashed"}]
  BY DEF Processes, SemAssumption, Base, TypeOK
<1>10. /\ pc[s] # "pMemory" /\ pc[s] # "testReceiver" /\ pc[s] # "read"
       /\ pc[s] # "resetReceiver" /\ pc[s] # "vData"
       /\ pc[s] = "testEof" => Mem(s).snd_state = "EOF"
  <2>1. pc[s] = "testEof" => Mem(s) = memory[shm[s]]
    BY <1>0, InUse DEF Base, Using, UsingPlaces
  <2> QED BY <2>1 DEF Over, Joined
<1>1. ASSUME ShmGet(s) PROVE Goal
  BY <1>0, <1>1 DEF ShmGet, Goto, semVars, Joined
<1>2. ASSUME ShmAttach(s, "join") PROVE Goal
  BY <1>0, <1>2 DEF ShmAttach, Goto, semVars, Joined
<1>3. ASSUME ShmAttachFails(s) PROVE Goal
  BY <1>0, <1>3 DEF ShmAttachFails, Goto, Return, shmVars, semVars, Joined
<1>4. ASSUME TestEof(s) PROVE Goal
  BY <1>0, <1>10, <1>4 DEF TestEof, Goto, Return, shmVars, semVars, Joined
<1>5. ASSUME Cleanup(s) PROVE Goal
  BY <1>0, <1>5 DEF Cleanup, Goto, semVars, Joined
<1>6. ASSUME Exit(s) PROVE Goal
  BY <1>0, <1>6, NothingUndone DEF Exit, Goto, shmVars, Joined
<1>7. ASSUME Kill(s) PROVE Goal
  BY <1>0, <1>7, NothingUndone DEF Kill, Die, Joined
<1> HIDE DEF Goal
<1>8. ~ (PMemory(s) \/ ReceiverOk(s) \/ ReceiverNotOk(s) \/ Read(s) \/ ReadFails(s)
           \/ ResetReceiver(s) \/ VData(s))
  <2>1. PMemory(s) => pc[s] = "pMemory"
    BY DEF PMemory, Goto
  <2>2. ReceiverOk(s) \/ ReceiverNotOk(s) => pc[s] = "testReceiver"
    BY DEF ReceiverOk, ReceiverNotOk, Goto, Return
  <2>3. Read(s) \/ ReadFails(s) => pc[s] = "read"
    BY DEF Read, ReadFails, Goto, Return
  <2>4. ResetReceiver(s) => pc[s] = "resetReceiver"
    BY DEF ResetReceiver, Goto
  <2>5. VData(s) => pc[s] = "vData"
    BY DEF VData, Goto
  <2> QED BY <1>10, <2>1, <2>2, <2>3, <2>4, <2>5
<1>9. Goal
  BY <1>1, <1>2, <1>3, <1>4, <1>5, <1>6, <1>7, <1>8 DEF SenderActs, SenderStep
<1> QED BY <1>9 DEF Goal

\* While a receiver works, or has ended badly, the others can only be killed.
LEMMA OthersWait ==
    ASSUME Base, SemAssumption, NoneAfter, NoneAfter', NEW r \in Receivers, NEW q \in Receivers,
           q # r, Active(r) \/ Bad(r), ReceiverActs(q)
    PROVE  Kill(q) /\ ~ Active(r) /\ pc[q] = "lock"
<1>0. /\ r \in Processes /\ q \in Processes /\ Sems
      /\ pc \in [Processes -> SenderPlaces \cup ReceiverPlaces]
      /\ status \in [Processes -> {"running", "ok", "failed", "killed", "crashed"}]
  BY DEF Processes, Base, TypeOK, Sems
<1>1. pc[q] \in {"lock", "gone"}
  BY DEF Base, Locked, ReceiversExclude, NoneAfter, Active
<1>2. pc'[r] = pc[r] /\ status'[r] = status[r]
  BY <1>0, ReceiverFrame DEF Base, Others
<1>3. ~ LockReceivers(q)
  <2> SUFFICES ASSUME LockReceivers(q) PROVE FALSE
    OBVIOUS
  <2>1. sem[RCV_MUTEX] = 0
    BY <1>0, ReceiverOperations
  <2>2. ~ Active(r) /\ Bad(r)
    BY <2>1 DEF Base, Locked
  <2>3. pc'[q] = "zero1"
    BY <1>0 DEF LockReceivers, Goto
  <2> QED BY <1>2, <2>2, <2>3 DEF NoneAfter, Active, Bad
<1>4. Kill(q)
  <2>1. \A i \in 1 .. 3 : ~ ZeroSemaphore(q, i)
    <3>1. \A i \in 1 .. 3 : <<"zero1", "zero2", "zero3">>[i] \in {"zero1", "zero2", "zero3"}
      OBVIOUS
    <3> QED BY <1>1, <3>1 DEF ZeroSemaphore, Goto
  <2> QED BY <1>1, <1>3, <2>1
          DEF ReceiverActs, ReceiverStep, ShmGet, ShmAttach, ShmAttachFails, InitMemory,
              Open, PData,
              SenderOk, SenderEof, SenderNotOk, Write, WriteFails, Acknowledge, ResetSender, VMemory,
              Cleanup, Exit, Goto, Return
<1>5. pc[q] = "lock"
  BY <1>1, <1>4 DEF Kill, Die
<1>6. Bad(q)'
  BY <1>0, <1>4 DEF Kill, Die, Bad
<1>7. ~ Active(r)
  BY <1>2, <1>6 DEF NoneAfter, Active, Bad
<1> QED BY <1>4, <1>5, <1>7

-----------------------------------------------------------------------------
(* From one session to the next *)

\* The four semaphores.
LEMMA Numbers ==
    /\ RCV_MUTEX = 0 /\ SND_MUTEX = 1 /\ MEMORY = 2 /\ DATA = 3
    /\ RCV_MUTEX \in Semaphores /\ SND_MUTEX \in Semaphores
    /\ MEMORY \in Semaphores /\ DATA \in Semaphores
BY DEF RCV_MUTEX, SND_MUTEX, MEMORY, DATA, Semaphores

\* No sender opens a session.
LEMMA BetweenSender ==
    ASSUME SemAssumption, SesInv, Between, NEW s \in Senders, SenderActs(s)
    PROVE  Between'
<1>0. /\ Base /\ Sems /\ Over(s)
      /\ \A t \in Senders : t \in Processes /\ t \notin Receivers
      /\ \A r \in Receivers : r \in Processes /\ r \notin Senders
  BY DEF SesInv, Base, TypeOK, Sems, Between, Processes, SemAssumption
<1>1. ~ Join(s)
  BY <1>0, SenderOperations DEF Takes, Between
<1>2. /\ memory' = memory /\ sem' = sem /\ ~ Joined(s)'
      /\ key' = key \/ (key = NoSegment /\ key' = created + 1)
  BY <1>0, <1>1, Bystander
<1>3. /\ \A t \in Senders : t # s => pc'[t] = pc[t] /\ shm'[t] = shm[t]
      /\ \A r \in Receivers : pc'[r] = pc[r] /\ shm'[r] = shm[r] /\ status'[r] = status[r]
  BY <1>0, SenderFrame DEF Base, Others
<1>4. \A t \in Senders : Over(t)'
  BY <1>2, <1>3 DEF Between, Over, Joined
<1>5. \A r \in Receivers :
          /\ ~ Opened(r)'
          /\ pc'[r] \in {"zero3", "shmget", "shmat", "init", "open"} => sem'[MEMORY] = 0
          /\ pc'[r] \in {"shmget", "shmat", "init", "open"} => sem'[DATA] = 0
          /\ pc'[r] = "open" => /\ memory'[shm'[r]].rcv_state = "OK"
                                /\ memory'[shm'[r]].snd_state = "NOT_DONE"
  BY <1>2, <1>3 DEF Between, Opened
<1>6. ASSUME NEW t \in Senders, pc'[t] = "testEof", shm'[t] = key'
      PROVE  \E r \in Receivers : pc'[r] = "cleanup" \/ Bad(r)'
  <2>1. t # s /\ pc[t] = "testEof" /\ shm[t] = key'
    BY <1>2, <1>3, <1>6 DEF Joined
  <2>2. shm[t] <= created /\ shm[t] \in Nat /\ created \in Nat
    BY <1>0 DEF Base, Places, TypeOK, Segments, NoSegment
  <2>3. shm[t] = key
    BY <1>2, <2>1, <2>2
  <2> QED BY <1>3, <2>1, <2>3 DEF Between, Bad
<1>7. sem'[SND_MUTEX] = 0
  BY <1>2 DEF Between
<1> QED BY <1>4, <1>5, <1>6, <1>7 DEF Between

\* A receiver that prepares a session, or ends.
LEMMA BetweenReceiver ==
    ASSUME SemAssumption, SesInv, Base', NoneAfter, NoneAfter', Between, NEW r \in Receivers, ReceiverActs(r)
    PROVE  Between' \/ Waiting(r)'
<1>0. /\ Base /\ Sems /\ TypeOK /\ r \in Processes
      /\ \A t \in Senders : t \in Processes /\ t \notin Receivers
      /\ \A q \in Receivers : q \in Processes /\ q \notin Senders
      /\ sem \in [Semaphores -> Nat]
      /\ pc \in [Processes -> SenderPlaces \cup ReceiverPlaces]
      /\ status \in [Processes -> {"running", "ok", "failed", "killed", "crashed"}]
  BY DEF SesInv, Base, TypeOK, Sems, Processes, SemAssumption
<1>1. /\ \A t \in Senders : pc'[t] = pc[t] /\ shm'[t] = shm[t]
      /\ \A q \in Receivers : q # r => /\ pc'[q] = pc[q] /\ shm'[q] = shm[q]
                                       /\ status'[q] = status[q]
      /\ pos' = pos
  BY <1>0, ReceiverFrame DEF Others
<1>2. Active(r) => \A q \in Receivers : q # r => pc[q] \in {"lock", "gone"} /\ ~ Bad(q)
  BY <1>0 DEF Base, Locked, ReceiversExclude, Active, NoneAfter
<1>3. \A q \in Receivers : Bad(q) => pc[q] \in {"cleanup", "exit", "gone"}
  BY <1>0 DEF SesInv, Ended, Bad
<1>4. ~ Opened(r)
  BY DEF Between
\* Steps that change the semaphores at most, and the places of r.
<1>5. ASSUME memory' = memory, key' = key, shm' = shm, status' = status,
             pc[r] # "cleanup", ~ Opened(r)', sem'[SND_MUTEX] = 0,
             pc'[r] \in {"zero3", "shmget", "shmat", "init", "open"} => sem'[MEMORY] = 0,
             pc'[r] \in {"shmget", "shmat", "init", "open"} => sem'[DATA] = 0,
             pc'[r] # "open", 
             \A q \in Receivers : q # r => pc'[q] \in {"lock", "gone"}
      PROVE  Between'
  <2>1. \A t \in Senders : Over(t)'
    BY <1>1, <1>5 DEF Between, Over, Joined
  <2>2. \A q \in Receivers :
          /\ ~ Opened(q)'
          /\ pc'[q] \in {"zero3", "shmget", "shmat", "init", "open"} => sem'[MEMORY] = 0
          /\ pc'[q] \in {"shmget", "shmat", "init", "open"} => sem'[DATA] = 0
          /\ pc'[q] # "open"
    BY <1>5 DEF Opened
  <2>3. ASSUME NEW t \in Senders, pc'[t] = "testEof", shm'[t] = key'
        PROVE  \E q \in Receivers : pc'[q] = "cleanup" \/ Bad(q)'
    <3>1. PICK q \in Receivers : pc[q] = "cleanup" \/ Bad(q)
      BY <1>1, <1>5, <2>3 DEF Between
    <3> QED BY <1>1, <1>5, <3>1 DEF Bad
  <2> QED BY <1>5, <2>1, <2>2, <2>3 DEF Between
<1>6. ASSUME LockReceivers(r) PROVE Between'
  <2>1. sem[RCV_MUTEX] = 0 /\ sem' = [sem EXCEPT ![RCV_MUTEX] = 1]
    BY <1>0, <1>6, ReceiverOperations
  <2>2. /\ memory' = memory /\ key' = key /\ shm' = shm /\ status' = status
        /\ pc[r] = "lock" /\ pc'[r] = "zero1"
    BY <1>0, <1>6 DEF LockReceivers, shmVars, Goto
  <2>3. sem'[SND_MUTEX] = 0
    BY <1>0, <2>1, Numbers DEF Between
  <2>4. \A q \in Receivers : ~ Active(q)
    BY <1>0, <2>1 DEF Base, Locked
  <2> QED BY <1>1, <1>5, <2>2, <2>3, <2>4 DEF Active, Opened
<1>7. ASSUME NEW i \in 1 .. 3, ZeroSemaphore(r, i) PROVE Between'
  <2>1. /\ memory' = memory /\ key' = key /\ shm' = shm /\ status' = status
        /\ sem' = [sem EXCEPT ![i] = 0]
    BY <1>7 DEF ZeroSemaphore, shmVars
  <2>2. /\ i = 1 => pc[r] = "zero1" /\ pc'[r] = "zero2"
        /\ i = 2 => pc[r] = "zero2" /\ pc'[r] = "zero3"
        /\ i = 3 => pc[r] = "zero3" /\ pc'[r] = "shmget"
    <3>1. /\ i = 1 => <<"zero1", "zero2", "zero3">>[i] = "zero1" /\ <<"zero2", "zero3", "shmget">>[i] = "zero2"
          /\ i = 2 => <<"zero1", "zero2", "zero3">>[i] = "zero2" /\ <<"zero2", "zero3", "shmget">>[i] = "zero3"
          /\ i = 3 => <<"zero1", "zero2", "zero3">>[i] = "zero3" /\ <<"zero2", "zero3", "shmget">>[i] = "shmget"
      OBVIOUS
    <3> QED BY <1>0, <1>7, <3>1 DEF ZeroSemaphore, Goto
  <2>3. i = 1 \/ i = 2 \/ i = 3
    OBVIOUS
  <2>4. \A j \in Semaphores : sem'[j] = IF j = i THEN 0 ELSE sem[j]
    BY <1>0, <2>1 DEF Semaphores
  <2>5. /\ sem'[SND_MUTEX] = 0 /\ (i = 2 => sem'[MEMORY] = 0)
        /\ i = 3 => sem'[DATA] = 0 /\ sem'[MEMORY] = sem[MEMORY]
    BY <2>4, Numbers DEF Between
  <2>6. i = 3 => sem[MEMORY] = 0
    BY <2>2 DEF Between
  <2>7. Active(r)
    BY <2>2, <2>3 DEF Active
  <2> QED BY <1>1, <1>2, <1>5, <2>1, <2>2, <2>3, <2>5, <2>6, <2>7 DEF Opened
<1>8. ASSUME ShmAttach(r, "init") PROVE Between'
  <2>1. /\ memory' = memory /\ key' = key /\ shm' = shm /\ status' = status /\ sem' = sem
        /\ pc[r] = "shmat" /\ pc'[r] = "init"
    BY <1>0, <1>8 DEF ShmAttach, Goto, semVars
  <2> QED BY <1>1, <1>2, <1>5, <2>1 DEF Between, Active, Opened
<1>9. ~ ShmAttachFails(r)
  BY <1>0 DEF ShmAttachFails, Return, Goto, Alive, Base, Places, KeyPlaces
<1>10. ASSUME ShmGet(r) PROVE Between'
  <2>1. /\ memory' = memory /\ status' = status /\ sem' = sem
        /\ pc[r] = "shmget" /\ pc'[r] = "shmat"
        /\ key' = key \/ (key = NoSegment /\ key' = created + 1)
    BY <1>0, <1>10 DEF ShmGet, Goto, semVars
  <2>2. \A t \in Senders : Over(t)'
    BY <1>1, <2>1 DEF Between, Over, Joined
  <2>3. \A q \in Receivers :
          /\ ~ Opened(q)'
          /\ pc'[q] \in {"zero3", "shmget", "shmat", "init", "open"} => sem'[MEMORY] = 0
          /\ pc'[q] \in {"shmget", "shmat", "init", "open"} => sem'[DATA] = 0
          /\ pc'[q] # "open"
    BY <1>1, <1>2, <2>1 DEF Between, Opened, Active
  <2>4. ASSUME NEW t \in Senders, pc'[t] = "testEof", shm'[t] = key'
        PROVE  \E q \in Receivers : pc'[q] = "cleanup" \/ Bad(q)'
    <3>1. pc[t] = "testEof" /\ shm[t] = key'
      BY <1>1, <2>4
    <3>2. shm[t] <= created /\ shm[t] \in Nat /\ created \in Nat
      BY <1>0 DEF Base, Places, TypeOK, Segments, NoSegment
    <3>3. shm[t] = key
      BY <2>1, <3>1, <3>2
    <3>4. PICK q \in Receivers : pc[q] = "cleanup" \/ Bad(q)
      BY <3>1, <3>3 DEF Between
    <3> QED BY <1>1, <2>1, <3>4 DEF Bad
  <2> QED BY <2>1, <2>2, <2>3, <2>4 DEF Between
<1>11. ASSUME InitMemory(r) PROVE Between'
  <2> DEFINE m == [Mem(r) EXCEPT !.rcv_state = "OK", !.snd_state = "NOT_DONE"]
  <2>1. pc[r] = "init" /\ pc'[r] = "open" /\ sem' = sem /\ shm' = shm /\ key' = key /\ status' = status
    BY <1>0, <1>11 DEF InitMemory, Goto, semVars, shmVars
  <2>2. /\ shm[r] \in Segments /\ key = shm[r]
        /\ memory' = [memory EXCEPT ![shm[r]] = m] /\ m.rcv_state = "OK" /\ m.snd_state = "NOT_DONE"
    <3>1. Using(r) /\ key = shm[r]
      BY <1>0, <2>1 DEF Using, UsingPlaces, Base, Places, KeyPlaces
    <3>2. attached[r] = shm[r] /\ shm[r] \in Segments
          /\ Mem(r) \in [rcv_state : {"NOT_DONE", "OK", "IOERROR"},
                         snd_state : {"NOT_DONE", "OK", "EOF", "IOERROR"},
                         data : Chunks \cup {NoChunk}]
      BY <1>0, <3>1, InUse DEF Base
    <3> QED BY <1>11, <3>1, <3>2 DEF InitMemory, Store
  <2>3. /\ memory'[shm[r]].rcv_state = "OK" /\ memory'[shm[r]].snd_state = "NOT_DONE"
        /\ \A g \in Segments : g # shm[r] => memory'[g] = memory[g]
    <3> HIDE DEF m
    <3> QED BY <1>0, <2>2 DEF TypeOK
  <2>4. \A t \in Senders : pc[t] = "testEof" => shm[t] # key /\ shm[t] \in Segments
    <3> SUFFICES ASSUME NEW t \in Senders, pc[t] = "testEof" PROVE shm[t] # key /\ shm[t] \in Segments
      OBVIOUS
    <3>1. shm[t] \in Segments
      BY <1>0, InUse DEF Base, Using, UsingPlaces
    <3>2. shm[t] # key
      BY <1>2, <1>3, <2>1 DEF Between, Active
    <3> QED BY <3>1, <3>2
  <2>5. \A t \in Senders : Over(t)'
    BY <1>1, <2>1, <2>2, <2>3, <2>4 DEF Between, Over, Joined
  <2>6. \A q \in Receivers :
          /\ ~ Opened(q)'
          /\ pc'[q] \in {"zero3", "shmget", "shmat", "init", "open"} => sem'[MEMORY] = 0
          /\ pc'[q] \in {"shmget", "shmat", "init", "open"} => sem'[DATA] = 0
          /\ pc'[q] = "open" => q = r
    BY <1>1, <1>2, <2>1 DEF Between, Opened, Active
  <2>7. \A t \in Senders : ~ (pc'[t] = "testEof" /\ shm'[t] = key')
    BY <1>1, <2>1, <2>4
  <2> QED BY <2>1, <2>3, <2>5, <2>6, <2>7 DEF Between
<1>12. ASSUME Open(r) PROVE Waiting(r)'
  <2>1. /\ sem' = [sem EXCEPT ![SND_MUTEX] = @ + 1, ![MEMORY] = @ + 1]
        /\ pc[r] = "open" /\ pc'[r] = "pData" /\ memory' = memory /\ shm' = shm /\ out' = out /\ key' = key
    BY <1>0, <1>12, ReceiverOperations DEF Open, Goto, shmVars
  <2>2. /\ sem[SND_MUTEX] = 0 /\ sem[MEMORY] = 0 /\ sem[DATA] = 0
        /\ memory[shm[r]].rcv_state = "OK" /\ memory[shm[r]].snd_state = "NOT_DONE"
    BY <2>1 DEF Between
  <2>3. sem'[SND_MUTEX] = 1 /\ sem'[MEMORY] = 1 /\ sem'[DATA] = 0
    <3>1. /\ sem'[SND_MUTEX] = sem[SND_MUTEX] + 1 /\ sem'[MEMORY] = sem[MEMORY] + 1
          /\ sem'[DATA] = sem[DATA]
      BY <1>0, <2>1, Numbers
    <3> QED BY <2>2, <3>1
  <2>4. out[r] = << >>
    BY <2>1 DEF SesInv, Reported
  <2>5. ASSUME NEW t \in Senders PROVE Over(t)' /\ (pc'[t] = "testEof" => shm'[t] # shm'[r])
    <3>1. Over(t)'
      BY <1>1, <2>1 DEF Between, Over, Joined
    <3>2. pc[t] = "testEof" => shm[t] # shm[r]
      <4>1. key = shm[r]
        BY <1>0, <2>1 DEF Base, Places, KeyPlaces
      <4> QED BY <1>2, <1>3, <2>1, <4>1 DEF Between, Active
    <3> QED BY <1>1, <2>1, <3>1, <3>2
  <2> QED BY <2>1, <2>2, <2>3, <2>4, <2>5 DEF Waiting
<1>13. ASSUME Cleanup(r) PROVE Between'
  <2>1. /\ pc[r] = "cleanup" /\ pc'[r] = "exit" /\ memory' = memory /\ sem' = sem /\ shm' = shm
        /\ key = shm[r] /\ key' = NoSegment
    <3>1. key = shm[r] /\ key \in Segments
      BY <1>0, <1>13 DEF Cleanup, Goto, Base, Places, KeyPlaces, TypeOK
    <3> QED BY <1>0, <1>13, <3>1, Attached DEF Cleanup, Goto, semVars, SesInv, Base
  <2>2. \A t \in Senders : Over(t)'
    BY <1>1, <2>1 DEF Between, Over, Joined
  <2>3. \A q \in Receivers : ~ Opened(q)' /\ pc'[q] \in {"lock", "exit", "gone"}
    BY <1>1, <1>2, <2>1 DEF Opened, Active
  <2>4. \A t \in Senders : ~ (pc'[t] = "testEof" /\ shm'[t] = key')
    BY <1>0, <1>1, <2>1 DEF Base, Places, Using, UsingPlaces
  <2>5. sem'[SND_MUTEX] = 0
    BY <2>1 DEF Between
  <2> QED BY <2>2, <2>3, <2>4, <2>5 DEF Between
<1>14. ASSUME sem' = Undo(sem, adj[r]) PROVE sem'[SND_MUTEX] = 0
  <2>1. sem'[SND_MUTEX] = IF sem[SND_MUTEX] + adj[r][SND_MUTEX] < 0 THEN 0
                          ELSE sem[SND_MUTEX] + adj[r][SND_MUTEX]
    BY <1>0, <1>14, Undone, Numbers
  <2> QED BY <1>0, <2>1 DEF Between, Base, Locked
<1>15. ASSUME Exit(r) PROVE Between'
  <2>1. /\ memory' = memory /\ key' = key /\ shm' = shm /\ status' = status
        /\ pc[r] = "exit" /\ pc'[r] = "gone" /\ sem'[SND_MUTEX] = 0
    BY <1>0, <1>14, <1>15 DEF Exit, Goto, shmVars
  <2> QED BY <1>1, <1>2, <1>5, <2>1 DEF Active, Opened
<1>16. ASSUME Kill(r) PROVE Between'
  <2>1. /\ memory' = memory /\ key' = key /\ shm' = shm
        /\ Bad(r)' /\ pc'[r] = "gone" /\ sem'[SND_MUTEX] = 0
    BY <1>0, <1>14, <1>16 DEF Kill, Die, Bad
  <2>2. \A q \in Receivers : pc'[q] \in {"lock", "gone"}
    BY <2>1 DEF NoneAfter, Active
  <2>3. \A t \in Senders : Over(t)'
    BY <1>1, <2>1 DEF Between, Over, Joined
  <2>4. \A q \in Receivers : ~ Opened(q)'
    BY <2>2 DEF Opened
  <2> QED BY <2>1, <2>2, <2>3, <2>4 DEF Between
<1> QED
  BY <1>4, <1>6, <1>7, <1>8, <1>9, <1>10, <1>11, <1>12, <1>13, <1>15, <1>16
  DEF ReceiverActs, ReceiverStep, PData, SenderOk, SenderEof, SenderNotOk, Write,
      WriteFails,
      Acknowledge, ResetSender, VMemory, Goto, Return, Opened

\* The sender that joins starts the session.
LEMMA WaitingSender ==
    ASSUME SemAssumption, SesInv, NoneAfter, NEW r \in Receivers, Waiting(r),
           NEW s \in Senders, SenderActs(s)
    PROVE  Waiting(r)' \/ Session(s, r)'
<1>0. /\ Base /\ Sems /\ Over(s) /\ r \in Processes /\ s \in Processes /\ s # r
      /\ \A t \in Senders : t \in Processes /\ t \notin Receivers
      /\ pc \in [Processes -> SenderPlaces \cup ReceiverPlaces]
  BY DEF SesInv, Base, TypeOK, Sems, Waiting, Processes, SemAssumption
<1>1. /\ \A t \in Senders : t # s => pc'[t] = pc[t] /\ shm'[t] = shm[t]
      /\ pc'[r] = pc[r] /\ shm'[r] = shm[r] /\ out' = out
  BY <1>0, SenderFrame DEF Base, Others
<1>2. CASE ~ Join(s)
  <2>1. memory' = memory /\ sem' = sem /\ ~ Joined(s)'
    BY <1>0, <1>2, Bystander
  <2>2. \A t \in Senders : Over(t)' /\ (pc'[t] = "testEof" => shm'[t] # shm'[r])
    BY <1>1, <2>1 DEF Waiting, Over, Joined
  <2> QED BY <1>1, <2>1, <2>2 DEF Waiting
<1>3. CASE Join(s)
  <2>1. /\ pc[s] = "join" /\ pc'[s] = "pMemory" /\ memory' = memory /\ pos' = pos /\ shm' = shm
        /\ sem' = [sem EXCEPT ![SND_MUTEX] = sem[SND_MUTEX] - 1]
    BY <1>0, <1>3, SenderOperations DEF Join, Goto, shmVars, Takes
  <2>2. sem'[SND_MUTEX] = 0 /\ sem'[MEMORY] = 1 /\ sem'[DATA] = 0
    BY <1>0, <2>1, Numbers DEF Waiting, Base, TypeOK
  <2>3. \A t \in Senders \ {s} : Over(t)' /\ (pc'[t] = "testEof" => shm'[t] # shm'[r])
    BY <1>1, <2>1 DEF Waiting, Over, Joined
  <2>4. shm[s] # NoSegment /\ shm[r] # NoSegment /\ shm[s] \in Segments /\ shm[r] \in Segments
    BY <1>0, <2>1 DEF Base, TypeOK, Places, Using, UsingPlaces, Waiting
  <2>5. pos[s] = 0 /\ out[r] = << >> /\ Opened(r) /\ Opened(r)'
    BY <1>1, <2>1 DEF SesInv, Reported, Waiting, Opened
  <2>6. Strange(s, r)' \/ Linked(s, r)'
    <3>1. CASE shm[s] = shm[r]
      <4>1. memory[shm[r]].rcv_state = "OK" /\ memory[shm[r]].snd_state = "NOT_DONE" /\ pc[r] = "pData"
        BY DEF Waiting
      <4>2. Len(out[r]) = 0 /\ Counted(out[r], s)
        BY <2>5 DEF Counted
      <4> QED BY <1>1, <2>1, <2>2, <2>5, <3>1, <4>1, <4>2 DEF Linked, Counted
    <3>2. CASE shm[s] # shm[r]
      <4>1. memory[shm[s]].rcv_state # "OK"
        <5> SUFFICES ASSUME memory[shm[s]].rcv_state = "OK" PROVE FALSE
          OBVIOUS
        <5>1. PICK q \in Receivers : shm[q] = shm[s] /\ (pc[q] = "open" \/ Opened(q) \/ Bad(q))
          BY <2>4 DEF SesInv, Ready, Stands
        <5>2. q # r /\ Active(r)
          BY <3>2, <5>1 DEF Waiting, Active
        <5>3. pc[q] \in {"lock", "gone"} /\ ~ Bad(q)
          BY <1>0, <5>2 DEF Base, Locked, ReceiversExclude, Active, NoneAfter
        <5> QED BY <5>1, <5>3 DEF Opened
      <4> QED BY <1>1, <2>1, <2>2, <2>5, <4>1 DEF Strange, Waiting
    <3> QED BY <3>1, <3>2
  <2>7. Opened(r)' => sem'[MEMORY] + sem'[DATA] + Bit(Filling(s)') + Bit(Draining(r)') <= 1
    BY <1>1, <2>1, <2>2 DEF Waiting, Filling, Draining, Bit
  <2> QED BY <1>1, <2>1, <2>2, <2>3, <2>4, <2>5, <2>6, <2>7 DEF Session
<1> QED BY <1>2, <1>3

\* The one receiver that works can only be killed.
LEMMA WaitingReceiver ==
    ASSUME SemAssumption, SesInv, NoneAfter, NoneAfter', NEW r \in Receivers, Waiting(r),
           NEW q \in Receivers, ReceiverActs(q)
    PROVE  Between'
<1>0. /\ Base /\ Sems /\ TypeOK /\ r \in Processes /\ Active(r) /\ Opened(r)
      /\ \A t \in Senders : t \in Processes /\ t \notin Receivers
      /\ \A p \in Receivers : p \in Processes
      /\ pc \in [Processes -> SenderPlaces \cup ReceiverPlaces]
      /\ status \in [Processes -> {"running", "ok", "failed", "killed", "crashed"}]
  BY DEF SesInv, Base, TypeOK, Sems, Waiting, Processes, SemAssumption, Active, Opened
<1>1. q = r
  BY <1>0, OthersWait
<1>2. ~ PData(r)
  BY <1>0, ReceiverOperations DEF Takes, Waiting
<1>3. \A i \in 1 .. 3 : ~ ZeroSemaphore(r, i)
  <2>1. \A i \in 1 .. 3 : <<"zero1", "zero2", "zero3">>[i] \in {"zero1", "zero2", "zero3"}
    OBVIOUS
  <2> QED BY <2>1 DEF ZeroSemaphore, Goto, Waiting
<1>4. Kill(r)
  BY <1>1, <1>2, <1>3
  DEF ReceiverActs, ReceiverStep, ShmGet, ShmAttach, ShmAttachFails, InitMemory, Open,
      LockReceivers,
      SenderOk, SenderEof, SenderNotOk, Write, WriteFails, Acknowledge, ResetSender, VMemory,
      Cleanup, Exit, Goto, Return, Waiting
<1>5. /\ \A t \in Senders : pc'[t] = pc[t] /\ shm'[t] = shm[t]
      /\ memory' = memory /\ Bad(r)' /\ pc'[r] = "gone" /\ sem' = Undo(sem, adj[r])
  BY <1>0, <1>4 DEF Kill, Die, Bad
<1>6. sem'[SND_MUTEX] = 0
  <2>1. sem'[SND_MUTEX] = IF sem[SND_MUTEX] + adj[r][SND_MUTEX] < 0 THEN 0
                          ELSE sem[SND_MUTEX] + adj[r][SND_MUTEX]
    BY <1>0, <1>5, Undone, Numbers
  <2>2. sem[SND_MUTEX] = 1 /\ adj[r][SND_MUTEX] = 0 - 1
    BY <1>0 DEF Waiting, Base, Locked
  <2> QED BY <2>1, <2>2
<1>7. \A p \in Receivers : pc'[p] \in {"lock", "gone"}
  BY <1>5 DEF NoneAfter, Active
<1>8. \A t \in Senders : Over(t)'
  BY <1>5 DEF Waiting, Over, Joined
<1>9. \A p \in Receivers : ~ Opened(p)'
  BY <1>7 DEF Opened
<1> QED BY <1>5, <1>6, <1>7, <1>8, <1>9 DEF Between

-----------------------------------------------------------------------------
(* Within a session *)

\* A step of one of the two keeps the session if it keeps these.
LEMMA SessionKept ==
    ASSUME SemAssumption, SesInv, NEW s \in Senders, NEW r \in Receivers, Session(s, r),
           \A t \in Senders \ {s} : pc'[t] = pc[t],
           shm' = shm, sem'[SND_MUTEX] = 0,
           pc'[s] \notin {"shmget", "shmat", "join"},
           Opened(r)' \/ (Bad(r)' /\ pc'[r] \in {"cleanup", "exit", "gone"}),
           \A g \in Segments : g # shm[r] => memory'[g] = memory[g],
           Opened(r)' => sem'[MEMORY] + sem'[DATA] + Bit(Filling(s)') + Bit(Draining(r)') <= 1,
           Strange(s, r)' \/ Linked(s, r)'
    PROVE  Session(s, r)'
<1>1. ASSUME NEW t \in Senders \ {s}
      PROVE  Over(t)' /\ (pc'[t] = "testEof" => shm'[t] # shm'[r])
  <2>1. Over(t) /\ (pc[t] = "testEof" => shm[t] # shm[r])
    BY DEF Session
  <2>2. pc[t] = "testEof" => shm[t] \in Segments
    BY DEF SesInv, Base, Places, Using, UsingPlaces, TypeOK, Processes
  <2> QED BY <2>1, <2>2 DEF Over, Joined
<1> QED BY <1>1 DEF Session

\* The other senders take no part in it.
LEMMA SessionBystander ==
    ASSUME SemAssumption, SesInv, NEW s \in Senders, NEW r \in Receivers, Session(s, r),
           NEW t \in Senders \ {s}, SenderActs(t)
    PROVE  Session(s, r)'
<1>0. /\ Base /\ Sems /\ Over(t) /\ t # r /\ r \in Processes /\ s \in Processes /\ t # s
      /\ \A u \in Senders : u \in Processes /\ u \notin Receivers
  BY DEF SesInv, Base, TypeOK, Sems, Session, Processes, SemAssumption
<1>1. ~ Join(t)
  BY <1>0, SenderOperations DEF Takes, Session
<1>2. memory' = memory /\ sem' = sem /\ ~ Joined(t)' /\ pos' = pos
  BY <1>0, <1>1, Bystander
<1>3. /\ \A u \in Senders : u # t => pc'[u] = pc[u] /\ shm'[u] = shm[u]
      /\ pc'[r] = pc[r] /\ shm'[r] = shm[r] /\ status'[r] = status[r] /\ out' = out
  BY <1>0, SenderFrame DEF Base, Others
<1>4. \A u \in Senders \ {s} : Over(u)' /\ (pc'[u] = "testEof" => shm'[u] # shm'[r])
  BY <1>2, <1>3 DEF Session, Over, Joined
<1>5. /\ Opened(r)' <=> Opened(r)
      /\ Bad(r)' <=> Bad(r)
      /\ Draining(r)' <=> Draining(r)
      /\ Filling(s)' <=> Filling(s)
      /\ pc'[s] = pc[s] /\ shm'[s] = shm[s]
  BY <1>0, <1>3 DEF Opened, Bad, Draining, Filling
<1>6. Opened(r)' => sem'[MEMORY] + sem'[DATA] + Bit(Filling(s)') + Bit(Draining(r)') <= 1
  BY <1>2, <1>5 DEF Session, Bit
<1>7. Strange(s, r) => Strange(s, r)'
  BY <1>2, <1>3, <1>5 DEF Strange
<1>8. Linked(s, r) => Linked(s, r)'
  BY <1>2, <1>3, <1>5 DEF Linked, Counted, Joined
<1> QED BY <1>2, <1>3, <1>4, <1>5, <1>6, <1>7, <1>8 DEF Session

\* Nor do the other receivers, who can only be killed.
LEMMA SessionOther ==
    ASSUME SemAssumption, SesInv, NoneAfter, NoneAfter', NEW s \in Senders, NEW r \in Receivers, Session(s, r),
           NEW q \in Receivers, q # r, ReceiverActs(q)
    PROVE  Session(s, r)'
<1>0. /\ Base /\ Sems /\ TypeOK /\ r \in Processes /\ q \in Processes /\ s \in Processes
      /\ \A t \in Senders : t \in Processes /\ t \notin Receivers
  BY DEF SesInv, Base, TypeOK, Sems, Processes, SemAssumption
<1>1. Kill(q) /\ ~ Active(r) /\ pc[q] = "lock"
  BY <1>0, OthersWait DEF Session, Active, Opened
<1>2. /\ \A t \in Senders : pc'[t] = pc[t]
      /\ pc'[r] = pc[r] /\ status'[r] = status[r]
      /\ shm' = shm /\ memory' = memory /\ pos' = pos /\ out' = out /\ sem' = Undo(sem, adj[q])
  BY <1>0, <1>1 DEF Kill, Die, TypeOK
<1>3. sem'[SND_MUTEX] = 0
  <2>1. sem'[SND_MUTEX] = IF sem[SND_MUTEX] + adj[q][SND_MUTEX] < 0 THEN 0
                          ELSE sem[SND_MUTEX] + adj[q][SND_MUTEX]
    BY <1>0, <1>2, Undone, Numbers
  <2>2. sem[SND_MUTEX] = 0 /\ adj[q][SND_MUTEX] = 0
    BY <1>0, <1>1 DEF Session, Base, Locked, Opened
  <2> QED BY <2>1, <2>2
<1>4. ~ Opened(r) /\ ~ Opened(r)' /\ Bad(r)' /\ pc[r] \in {"cleanup", "exit", "gone"}
  BY <1>1, <1>2 DEF Session, Opened, Active, Bad
<1>5. pc[r] \notin {"testSender", "write", "ack", "resetSender", "vMemory"}
  BY <1>4
<1>6. Strange(s, r) => Strange(s, r)'
  BY <1>2, <1>4 DEF Strange
<1>7. Linked(s, r) => Linked(s, r)'
  BY <1>2, <1>4 DEF Linked, Counted, Joined
<1> QED BY <1>2, <1>3, <1>4, <1>6, <1>7, SessionKept DEF Session

\* Every step of its sender keeps the session.
LEMMA SessionSender ==
    ASSUME SemAssumption, SesInv, NEW s \in Senders, NEW r \in Receivers, Session(s, r), SenderActs(s)
    PROVE  Session(s, r)'
<1>0. /\ Base /\ Sems /\ TypeOK /\ r \in Processes /\ s \in Processes /\ s # r
      /\ \A t \in Senders : t \in Processes /\ t \notin Receivers
      /\ pc \in [Processes -> SenderPlaces \cup ReceiverPlaces]
      /\ pos \in [Senders -> 0 .. FileLen] /\ FileLen \in Nat
      /\ sem[MEMORY] \in Nat /\ sem[DATA] \in Nat /\ sem[SND_MUTEX] = 0
  BY Numbers DEF SesInv, Base, TypeOK, Sems, Processes, SemAssumption, Session
<1>1. /\ \A t \in Senders \ {s} : pc'[t] = pc[t]
      /\ pc'[r] = pc[r] /\ status'[r] = status[r] /\ out' = out
  BY <1>0, SenderFrame DEF Base, Others
<1>2. /\ Opened(r)' <=> Opened(r)
      /\ Bad(r)' <=> Bad(r)
      /\ Draining(r)' <=> Draining(r)
      /\ Draining(r) => Opened(r)
      /\ Opened(r)' \/ (Bad(r)' /\ pc'[r] \in {"cleanup", "exit", "gone"})
  BY <1>1 DEF Opened, Bad, Draining, Session
<1>3. shm[s] \in Segments /\ shm[r] \in Segments
  BY <1>0 DEF Session, TypeOK
<1>4. Using(s) => /\ attached[s] = shm[s] /\ Mem(s) = memory[shm[s]]
                  /\ Mem(s) \in [rcv_state : {"NOT_DONE", "OK", "IOERROR"},
                                 snd_state : {"NOT_DONE", "OK", "EOF", "IOERROR"},
                                 data : Chunks \cup {NoChunk}]
  BY <1>0, InUse DEF Base
<1>5. Opened(r) => sem[MEMORY] + sem[DATA] + Bit(Filling(s)) + Bit(Draining(r)) <= 1
  BY DEF Session
<1>6. Opened(r) /\ Filling(s) => sem[DATA] = 0 /\ sem[MEMORY] = 0 /\ ~ Draining(r)
  BY <1>0, <1>5 DEF Bit
<1>7. Strange(s, r) \/ Linked(s, r)
  BY DEF Session
<1>8. Len(out[r]) \in Nat
  BY <1>0 DEF TypeOK
<1>9. /\ pc[r] = "pData" => Opened(r)
      /\ pc[r] \in {"testSender", "write", "ack", "resetSender", "vMemory"} => Opened(r) /\ Draining(r)
  BY DEF Opened, Draining
\* A step that stores nothing.
<1>10. ASSUME shm' = shm, pos' = pos, memory' = memory, sem'[SND_MUTEX] = 0, sem'[DATA] = sem[DATA],
              sem'[MEMORY] + Bit(Filling(s)') <= sem[MEMORY] + Bit(Filling(s)),
              sem'[MEMORY] \in Nat,
              Strange(s, r) => pc'[s] \in {"testReceiver", "cleanup", "exit", "gone"},
              Linked(s, r) => /\ pc'[s] \in {"pMemory", "testReceiver", "read"} => memory[shm[r]].snd_state # "EOF"
                              /\ pc'[s] \notin {"resetReceiver", "vData"}
                              /\ memory[shm[r]].rcv_state = "OK" /\ Joined(s)' => Joined(s) /\ pc[s] # "resetReceiver"
                              /\ pc'[s] = "read" => memory[shm[r]].rcv_state = "OK" /\ Joined(s) /\ pc[s] # "resetReceiver",
              pc'[s] \notin {"shmget", "shmat", "join"}
       PROVE  Session(s, r)'
  <2>1. Opened(r)' => sem'[MEMORY] + sem'[DATA] + Bit(Filling(s)') + Bit(Draining(r)') <= 1
    BY <1>0, <1>2, <1>5, <1>10 DEF Bit
  <2>2. Strange(s, r) => Strange(s, r)'
    BY <1>1, <1>2, <1>10 DEF Strange
  <2>3. Linked(s, r) => Linked(s, r)'
    BY <1>1, <1>2, <1>10 DEF Linked, Counted
  <2> QED BY <1>1, <1>2, <1>7, <1>10, <2>1, <2>2, <2>3, SessionKept
<1>11. ASSUME PMemory(s) PROVE Session(s, r)'
  <2>1. /\ pc[s] = "pMemory" /\ pc'[s] = "testReceiver" /\ shm' = shm /\ pos' = pos /\ memory' = memory
        /\ sem[MEMORY] >= 1 /\ sem' = [sem EXCEPT ![MEMORY] = sem[MEMORY] - 1]
    BY <1>0, <1>11, SenderOperations DEF PMemory, Goto, shmVars, Takes
  <2>2. sem'[SND_MUTEX] = 0 /\ sem'[DATA] = sem[DATA] /\ sem'[MEMORY] = sem[MEMORY] - 1
    BY <1>0, <2>1, Numbers DEF TypeOK
  <2>3. ~ Filling(s) /\ Filling(s)' /\ Joined(s)
    BY <2>1 DEF Filling, Joined
  <2>4. Linked(s, r) => memory[shm[r]].snd_state # "EOF"
    BY <2>1 DEF Linked
  <2> QED BY <1>0, <1>10, <2>1, <2>2, <2>3, <2>4 DEF Bit
<1>12. ASSUME ReceiverOk(s) PROVE Session(s, r)'
  <2>1. /\ pc[s] = "testReceiver" /\ pc'[s] = "read" /\ shm' = shm /\ pos' = pos /\ memory' = memory
        /\ sem' = sem /\ memory[shm[s]].rcv_state = "OK"
    BY <1>0, <1>4, <1>12 DEF ReceiverOk, Goto, shmVars, semVars, Using, UsingPlaces
  <2>2. Filling(s) /\ Filling(s)' /\ Joined(s) /\ Joined(s)'
    BY <2>1 DEF Filling, Joined
  <2>3. ~ Strange(s, r)
    BY <2>1 DEF Strange
  <2>4. Linked(s, r) => memory[shm[r]].snd_state # "EOF" /\ memory[shm[r]].rcv_state = "OK"
    BY <2>1 DEF Linked
  <2> QED BY <1>0, <1>10, <2>1, <2>2, <2>3, <2>4 DEF Bit
<1>13. ASSUME ReceiverNotOk(s) PROVE Session(s, r)'
  <2>1. /\ pc[s] = "testReceiver" /\ pc'[s] = "cleanup" /\ shm' = shm /\ pos' = pos /\ memory' = memory
        /\ sem' = sem
    BY <1>0, <1>13 DEF ReceiverNotOk, Return, Goto, shmVars, semVars
  <2>2. Filling(s) /\ ~ Filling(s)' /\ ~ Joined(s)'
    BY <2>1 DEF Filling, Joined
  <2> QED BY <1>0, <1>10, <2>1, <2>2 DEF Bit
<1>14. ASSUME TestEof(s) PROVE Session(s, r)'
  <2>1. /\ pc[s] = "testEof" /\ shm' = shm /\ pos' = pos /\ memory' = memory /\ sem' = sem
        /\ \/ pc'[s] = "cleanup"
           \/ pc'[s] = "pMemory" /\ memory[shm[s]].snd_state # "EOF"
    BY <1>0, <1>4, <1>14 DEF TestEof, Return, Goto, shmVars, semVars, Using, UsingPlaces
  <2>2. ~ Filling(s) /\ ~ Filling(s)' /\ Joined(s)
    BY <2>1 DEF Filling, Joined
  <2>3. ~ Strange(s, r)
    BY <2>1 DEF Strange
  <2>4. Linked(s, r) => shm[s] = shm[r]
    BY DEF Linked
  <2> QED BY <1>0, <1>10, <2>1, <2>2, <2>3, <2>4 DEF Bit
<1>15. ASSUME Cleanup(s) \/ Exit(s) \/ Kill(s) PROVE Session(s, r)'
  <2>1. /\ shm' = shm /\ pos' = pos /\ memory' = memory /\ sem' = sem
        /\ pc'[s] \in {"exit", "gone"}
    <3>1. CASE Cleanup(s)
      BY <1>0, <3>1 DEF Cleanup, Goto, semVars
    <3>2. CASE Exit(s)
      BY <1>0, <3>2, NothingUndone DEF Exit, shmVars
    <3>3. CASE Kill(s)
      BY <1>0, <3>3, NothingUndone DEF Kill, Die
    <3> QED BY <1>15, <3>1, <3>2, <3>3
  <2>2. ~ Filling(s)' /\ ~ Joined(s)'
    BY <2>1 DEF Filling, Joined
  <2> QED BY <1>0, <1>10, <2>1, <2>2 DEF Bit
<1>16. ASSUME VData(s) PROVE Session(s, r)'
  <2>1. /\ pc[s] = "vData" /\ pc'[s] = "testEof" /\ shm' = shm /\ pos' = pos /\ memory' = memory
        /\ sem' = [sem EXCEPT ![DATA] = sem[DATA] + 1]
    BY <1>0, <1>16, SenderOperations DEF VData, Goto, shmVars, Gives
  <2>2. sem'[SND_MUTEX] = 0 /\ sem'[DATA] = sem[DATA] + 1 /\ sem'[MEMORY] = sem[MEMORY]
    BY <1>0, <2>1, Numbers DEF TypeOK
  <2>3. Filling(s) /\ ~ Filling(s)'
    BY <2>1 DEF Filling
  <2>4. Opened(r)' => sem'[MEMORY] + sem'[DATA] + Bit(Filling(s)') + Bit(Draining(r)') <= 1
    BY <1>0, <1>2, <1>5, <2>2, <2>3 DEF Bit
  <2>5. Linked(s, r) /\ ~ Strange(s, r)
    BY <1>7, <2>1 DEF Strange
  <2>6. Linked(s, r)'
    BY <1>0, <1>1, <1>2, <1>6, <1>9, <2>1, <2>2, <2>3, <2>5 DEF Linked, Counted, Joined
  <2> QED BY <1>1, <1>2, <2>1, <2>2, <2>4, <2>6, SessionKept
\* A step that stores a record in the segment of both.
<1>17. ASSUME NEW m, Using(s), Store(s, m), shm' = shm, sem' = sem, Filling(s),
              pc[s] \in {"read", "resetReceiver"}, pc'[s] \in {"resetReceiver", "vData", "cleanup"},
              m.snd_state = "EOF" => pos[s] = FileLen /\ pos' = pos,
              m.rcv_state = "OK" => pc'[s] # "vData",
              pc'[s] \in {"resetReceiver", "vData"} =>
                 /\ m.snd_state \in {"OK", "EOF"}
                 /\ m.snd_state = "OK" => m.data = [from |-> s, nr |-> pos'[s]] /\ pos'[s] = Len(out[r]) + 1,
              pos'[s] \in {pos[s], pos[s] + 1}, pc[s] = "read" \/ pos'[s] = pos[s],
              Linked(s, r) /\ m.snd_state = "EOF" => pos[s] = Len(out[r])
       PROVE  Session(s, r)'
  <2>1. ~ Strange(s, r) /\ Linked(s, r)
    BY <1>7, <1>17 DEF Strange
  <2>2. shm[s] = shm[r] /\ memory' = [memory EXCEPT ![shm[r]] = m]
    BY <1>4, <1>17, <2>1 DEF Linked, Store
  <2>3. memory'[shm[r]] = m /\ \A g \in Segments : g # shm[r] => memory'[g] = memory[g]
    BY <1>0, <1>3, <2>2 DEF TypeOK
  <2>4. Opened(r)' => sem'[MEMORY] + sem'[DATA] + Bit(Filling(s)') + Bit(Draining(r)') <= 1
    BY <1>0, <1>2, <1>5, <1>17 DEF Bit
  <2>5. pos'[s] \in {Len(out[r]), Len(out[r]) + 1}
    BY <1>0, <1>8, <1>17, <2>1 DEF Linked
  <2>6. Opened(r)' => sem'[DATA] = 0 /\ ~ Draining(r)'
    BY <1>2, <1>6, <1>17
  <2>7. pc[r] \notin {"testSender", "write", "ack", "resetSender", "vMemory"}
    BY <1>6, <1>9, <1>17
  <2>8. Counted(out'[r], s)
    BY <1>1, <2>1 DEF Linked, Counted
  <2>9. Linked(s, r)'
    <3>1. pc'[s] \in {"resetReceiver", "vData", "cleanup"} /\ pc'[r] = pc[r] /\ out'[r] = out[r]
      BY <1>1, <1>17
    <3>2. m.snd_state = "EOF" => Len(out[r]) = FileLen /\ pos'[s] = Len(out[r])
      BY <1>17, <2>1
    <3>3. m.rcv_state = "OK" /\ Joined(s)' /\ pc'[s] # "resetReceiver" => pos'[s] = Len(out[r])
      BY <1>17, <3>1 DEF Joined
    <3>4. pc'[s] = "vData" => m.rcv_state # "OK"
      BY <1>17
    <3>5. pc'[r] # "testSender" /\ pc'[r] # "write" /\ pc'[r] \notin {"ack", "resetSender", "vMemory"}
      BY <2>7, <3>1
    <3>6. Opened(r)' => sem'[DATA] # 1
      BY <2>6
    <3>7. pc'[s] \notin {"pMemory", "testReceiver", "read"}
      BY <3>1
    <3>8. pc'[s] \in {"resetReceiver", "vData"} =>
             /\ m.snd_state \in {"OK", "EOF"}
             /\ m.snd_state = "OK" => /\ pos'[s] = Len(out[r]) + 1
                                     /\ m.data = [from |-> s, nr |-> pos'[s]]
      BY <1>17
    <3>9. shm'[s] = shm'[r] /\ memory'[shm'[r]] = m
      BY <1>17, <2>2, <2>3
    <3> QED BY <2>5, <2>8, <3>1, <3>2, <3>3, <3>4, <3>5, <3>6, <3>7, <3>8, <3>9 DEF Linked, Counted
  <2> QED BY <1>0, <1>1, <1>2, <1>17, <2>3, <2>4, <2>9, SessionKept
<1>18. ASSUME Read(s) PROVE Session(s, r)'
  <2>1. /\ pc[s] = "read" /\ pc'[s] = "resetReceiver" /\ shm' = shm /\ sem' = sem /\ Using(s) /\ Filling(s)
        /\ Joined(s)
    BY <1>0, <1>18 DEF Read, Goto, shmVars, semVars, Using, UsingPlaces, Filling, Joined
  <2>2. Linked(s, r) /\ pos[s] = Len(out[r])
    BY <1>7, <2>1 DEF Strange, Linked
  <2>3. CASE pos[s] < FileLen
    <3> DEFINE m == [Mem(s) EXCEPT !.data = [from |-> s, nr |-> pos[s] + 1], !.snd_state = "OK"]
    <3>1. Store(s, m) /\ pos' = [pos EXCEPT ![s] = pos[s] + 1]
      BY <1>18, <2>3 DEF Read
    <3>2. m.snd_state = "OK" /\ m.data = [from |-> s, nr |-> pos[s] + 1]
      BY <1>4, <2>1
    <3>3. pos'[s] = pos[s] + 1
      BY <1>0, <3>1
    <3> HIDE DEF m
    <3> QED BY <1>17, <2>1, <2>2, <3>1, <3>2, <3>3
  <2>4. CASE ~ pos[s] < FileLen
    <3> DEFINE m == [Mem(s) EXCEPT !.snd_state = "EOF"]
    <3>1. Store(s, m) /\ pos' = pos /\ pos[s] = FileLen
      BY <1>0, <1>18, <2>4 DEF Read
    <3>2. m.snd_state = "EOF"
      BY <1>4, <2>1
    <3> HIDE DEF m
    <3> QED BY <1>17, <2>1, <2>2, <3>1, <3>2
  <2> QED BY <2>3, <2>4
<1>19. ASSUME ReadFails(s) PROVE Session(s, r)'
  <2> DEFINE m == [Mem(s) EXCEPT !.snd_state = "IOERROR"]
  <2>1. /\ pc[s] = "read" /\ pc'[s] = "cleanup" /\ shm' = shm /\ sem' = sem /\ Using(s) /\ Filling(s)
        /\ Store(s, m) /\ pos' = pos
    BY <1>0, <1>19
    DEF ReadFails, Return, Goto, shmVars, semVars, Using, UsingPlaces, Filling
  <2>2. m.snd_state = "IOERROR"
    BY <1>4, <2>1
  <2> HIDE DEF m
  <2> QED BY <1>17, <2>1, <2>2
<1>20. ASSUME ResetReceiver(s) PROVE Session(s, r)'
  <2> DEFINE m == [Mem(s) EXCEPT !.rcv_state = "NOT_DONE"]
  <2>1. /\ pc[s] = "resetReceiver" /\ pc'[s] = "vData" /\ shm' = shm /\ sem' = sem /\ Using(s) /\ Filling(s)
        /\ Store(s, m) /\ pos' = pos
    BY <1>0, <1>20 DEF ResetReceiver, Goto, shmVars, semVars, Using, UsingPlaces, Filling
  <2>2. m.rcv_state = "NOT_DONE" /\ m.snd_state = Mem(s).snd_state /\ m.data = Mem(s).data
    BY <1>4, <2>1
  <2>3. Linked(s, r) /\ Mem(s) = memory[shm[r]]
    BY <1>4, <1>7, <2>1 DEF Strange, Linked
  <2>4. /\ m.snd_state \in {"OK", "EOF"}
        /\ m.snd_state = "OK" => pos[s] = Len(out[r]) + 1 /\ m.data = [from |-> s, nr |-> pos[s]]
        /\ m.snd_state = "EOF" => pos[s] = Len(out[r]) /\ pos[s] = FileLen
    BY <2>1, <2>2, <2>3 DEF Linked
  <2> HIDE DEF m
  <2> QED BY <1>17, <2>1, <2>2, <2>4
<1> QED
  BY <1>11, <1>12, <1>13, <1>14, <1>15, <1>16, <1>18, <1>19, <1>20
  DEF SenderActs, SenderStep, ShmGet, ShmAttach, ShmAttachFails, Join, Goto, Return,
      Session

\* Every step of its receiver keeps the session or, by its end, closes it.
LEMMA SessionReceiver ==
    ASSUME SemAssumption, SesInv, NEW s \in Senders, NEW r \in Receivers, Session(s, r), ReceiverActs(r)
    PROVE  Session(s, r)' \/ Between'
<1>0. /\ Base /\ Sems /\ TypeOK /\ r \in Processes /\ s \in Processes /\ s # r
      /\ \A t \in Senders : t \in Processes /\ t \notin Receivers
      /\ \A q \in Receivers : q \in Processes
      /\ pc \in [Processes -> SenderPlaces \cup ReceiverPlaces]
      /\ status \in [Processes -> {"running", "ok", "failed", "killed", "crashed"}]
      /\ pos \in [Senders -> 0 .. FileLen] /\ FileLen \in Nat
      /\ sem[MEMORY] \in Nat /\ sem[DATA] \in Nat /\ sem[SND_MUTEX] = 0
  BY Numbers DEF SesInv, Base, TypeOK, Sems, Processes, SemAssumption, Session
<1>1. /\ \A t \in Senders : pc'[t] = pc[t] /\ shm'[t] = shm[t]
      /\ \A q \in Receivers \ {r} : pc'[q] = pc[q]
      /\ pos' = pos
  BY <1>0, ReceiverFrame DEF Base, Others
<1>2. /\ Joined(s)' <=> Joined(s)
      /\ Filling(s)' <=> Filling(s)
      /\ pc'[s] = pc[s]
      /\ pc'[s] \notin {"shmget", "shmat", "join"}
  BY <1>1 DEF Joined, Filling, Session
<1>3. shm[s] \in Segments /\ shm[r] \in Segments
  BY <1>0 DEF Session, TypeOK
<1>4. Using(r) => /\ attached[r] = shm[r] /\ Mem(r) = memory[shm[r]]
                  /\ Mem(r) \in [rcv_state : {"NOT_DONE", "OK", "IOERROR"},
                                 snd_state : {"NOT_DONE", "OK", "EOF", "IOERROR"},
                                 data : Chunks \cup {NoChunk}]
  BY <1>0, InUse DEF Base
<1>5. Opened(r) => sem[MEMORY] + sem[DATA] + Bit(Filling(s)) + Bit(Draining(r)) <= 1
  BY DEF Session
<1>6. Opened(r) /\ Draining(r) => sem[DATA] = 0 /\ sem[MEMORY] = 0 /\ ~ Filling(s)
  BY <1>0, <1>5 DEF Bit
<1>7. Strange(s, r) \/ Linked(s, r)
  BY DEF Session
<1>8. out \in [Receivers -> Seq(Chunks)] /\ Len(out[r]) \in Nat
  BY <1>0 DEF TypeOK
<1>9. Filling(s) <=> pc[s] \in {"testReceiver", "read", "resetReceiver", "vData"}
  BY DEF Filling
<1>10. ASSUME PData(r) PROVE Session(s, r)'
  <2>1. /\ pc[r] = "pData" /\ pc'[r] = "testSender" /\ shm' = shm /\ out' = out /\ memory' = memory
        /\ sem[DATA] >= 1 /\ sem' = [sem EXCEPT ![DATA] = sem[DATA] - 1]
    BY <1>0, <1>10, ReceiverOperations DEF PData, Goto, shmVars, Takes
  <2>2. sem'[SND_MUTEX] = 0 /\ sem'[DATA] = sem[DATA] - 1 /\ sem'[MEMORY] = sem[MEMORY]
    BY <1>0, <2>1, Numbers DEF TypeOK
  <2>3. Opened(r) /\ Opened(r)' /\ ~ Draining(r) /\ Draining(r)'
    BY <2>1 DEF Opened, Draining
  <2>4. sem[DATA] = 1 /\ ~ Filling(s)
    BY <1>0, <1>5, <2>1, <2>3 DEF Bit
  <2>5. sem'[MEMORY] + sem'[DATA] + Bit(Filling(s)') + Bit(Draining(r)') <= 1
    BY <1>0, <1>2, <1>5, <2>2, <2>3, <2>4 DEF Bit
  <2>6. Linked(s, r)
    BY <1>7, <2>3, <2>4 DEF Strange
  <2>7. Linked(s, r)'
    BY <1>1, <1>2, <2>1, <2>2, <2>3, <2>4, <2>6 DEF Linked, Counted
  <2> QED BY <1>1, <1>2, <2>1, <2>2, <2>3, <2>5, <2>7, SessionKept
<1>11. ASSUME Draining(r) PROVE Linked(s, r) /\ Opened(r) /\ ~ Strange(s, r)
  BY <1>7, <1>11 DEF Strange, Draining, Opened
<1>12. ASSUME SenderOk(r) PROVE Session(s, r)'
  <2>1. /\ pc[r] = "testSender" /\ pc'[r] = "write" /\ shm' = shm /\ out' = out /\ memory' = memory
        /\ sem' = sem /\ memory[shm[r]].snd_state = "OK"
    BY <1>0, <1>4, <1>12 DEF SenderOk, Goto, shmVars, semVars, Using, UsingPlaces
  <2>2. Opened(r) /\ Opened(r)' /\ Draining(r) /\ Draining(r)'
    BY <2>1 DEF Opened, Draining
  <2>3. sem'[MEMORY] + sem'[DATA] + Bit(Filling(s)') + Bit(Draining(r)') <= 1
    BY <1>0, <1>2, <1>5, <2>1, <2>2 DEF Bit
  <2>4. Linked(s, r)'
    BY <1>1, <1>2, <1>6, <1>11, <2>1, <2>2 DEF Linked, Counted
  <2> QED BY <1>0, <1>1, <1>2, <2>1, <2>2, <2>3, <2>4, SessionKept
<1>13. ~ SenderNotOk(r)
  <2> SUFFICES ASSUME SenderNotOk(r) PROVE FALSE
    OBVIOUS
  <2>1. pc[r] = "testSender" /\ memory[shm[r]].snd_state \in {"IOERROR", "NOT_DONE"}
    BY <1>4 DEF SenderNotOk, Return, Goto, Using, UsingPlaces
  <2>2. Linked(s, r) /\ Opened(r)
    BY <1>11, <2>1 DEF Draining
  <2> QED BY <2>1, <2>2 DEF Linked
<1>14. ASSUME SenderEof(r) PROVE Between'
  <2>1. /\ pc[r] = "testSender" /\ pc'[r] = "cleanup" /\ shm' = shm /\ memory' = memory
        /\ sem' = sem /\ memory[shm[r]].snd_state = "EOF"
    BY <1>0, <1>4, <1>14 DEF SenderEof, Return, Goto, shmVars, semVars, Using, UsingPlaces
  <2>2. Linked(s, r) /\ ~ Filling(s)
    BY <1>6, <1>11, <2>1 DEF Draining
  <2>3. Over(s)'
    BY <1>1, <1>9, <2>1, <2>2 DEF Linked, Over, Joined
  <2>4. \A t \in Senders : Over(t)'
    BY <1>1, <2>1, <2>3 DEF Session, Over, Joined
  <2>5. \A q \in Receivers : pc'[q] \in {"lock", "gone", "cleanup"}
    BY <1>0, <1>1, <2>1 DEF Base, Locked, ReceiversExclude
  <2>6. \A q \in Receivers : ~ Opened(q)'
    BY <2>5 DEF Opened
  <2>7. sem'[SND_MUTEX] = 0 /\ \E q \in Receivers : pc'[q] = "cleanup"
    BY <1>0, <2>1
  <2> QED BY <2>4, <2>5, <2>6, <2>7 DEF Between
<1>15. ASSUME Write(r) PROVE Session(s, r)'
  <2>1. /\ pc[r] = "write" /\ pc'[r] = "ack" /\ shm' = shm /\ memory' = memory /\ sem' = sem
        /\ out' = [out EXCEPT ![r] = Append(out[r], memory[shm[r]].data)]
    BY <1>0, <1>4, <1>15 DEF Write, Goto, shmVars, semVars, Using, UsingPlaces
  <2>2. Opened(r) /\ Opened(r)' /\ Draining(r) /\ Draining(r)'
    BY <2>1 DEF Opened, Draining
  <2>3. sem'[MEMORY] + sem'[DATA] + Bit(Filling(s)') + Bit(Draining(r)') <= 1
    BY <1>0, <1>2, <1>5, <2>1, <2>2 DEF Bit
  <2>4. /\ Linked(s, r) /\ memory[shm[r]].rcv_state # "OK" /\ memory[shm[r]].snd_state = "OK"
        /\ pos[s] = Len(out[r]) + 1 /\ memory[shm[r]].data = [from |-> s, nr |-> pos[s]]
    BY <1>11, <2>1, <2>2 DEF Linked
  <2>5. /\ out'[r] = Append(out[r], memory[shm[r]].data) /\ out[r] \in Seq(Chunks)
        /\ memory[shm[r]].data \in Chunks
    <3>1. [from |-> s, nr |-> pos[s]] \in Chunks
      BY <1>0, <1>8, <2>4 DEF Chunks
    <3> QED BY <1>8, <2>1, <2>4, <3>1
  <2>6. Len(out'[r]) = Len(out[r]) + 1 /\ Counted(out'[r], s)
    <3>1. /\ Len(out'[r]) = Len(out[r]) + 1 /\ DOMAIN out'[r] = 1 .. Len(out[r]) + 1
          /\ out'[r][Len(out[r]) + 1] = memory[shm[r]].data
          /\ \A i \in 1 .. Len(out[r]) : out'[r][i] = out[r][i]
      BY <2>5
    <3>2. \A i \in 1 .. Len(out[r]) : out[r][i] = [from |-> s, nr |-> i]
      BY <1>8, <2>4 DEF Linked, Counted
    <3>3. \A i \in 1 .. Len(out[r]) + 1 : i \in 1 .. Len(out[r]) \/ i = Len(out[r]) + 1
      BY <1>8
    <3> QED BY <2>4, <3>1, <3>2, <3>3 DEF Counted
  <2>7. Linked(s, r)'
    <3>1. pos'[s] = Len(out'[r]) /\ memory'[shm'[r]] = memory[shm[r]] /\ pc'[s] = pc[s] /\ ~ Filling(s)
      BY <1>1, <1>2, <1>6, <2>1, <2>2, <2>4, <2>6
    <3> QED BY <1>1, <1>2, <1>8, <1>9, <2>1, <2>4, <2>6, <2>2, <1>6, <3>1 DEF Linked
  <2> QED BY <1>0, <1>1, <1>2, <2>1, <2>2, <2>3, <2>7, SessionKept
\* Stores of the receiver.
<1>16. ASSUME NEW m, Using(r), Store(r, m), shm' = shm, sem' = sem, out' = out, Draining(r),
              Opened(r)' \/ (Bad(r)' /\ pc'[r] = "cleanup"),
              Opened(r)' => Draining(r)' /\ pos[s] = Len(out[r]),
              pc'[r] \in {"cleanup", "resetSender", "vMemory"},
              m.snd_state = "EOF" => Mem(r).snd_state = "EOF",
              m.rcv_state = "OK" => pos[s] = Len(out[r])
       PROVE  Session(s, r)'
  <2>1. ~ Strange(s, r) /\ Linked(s, r) /\ ~ Filling(s) /\ sem[DATA] = 0
    BY <1>6, <1>11, <1>16
  <2>2. memory' = [memory EXCEPT ![shm[r]] = m]
    BY <1>4, <1>16 DEF Store
  <2>3. memory'[shm[r]] = m /\ \A g \in Segments : g # shm[r] => memory'[g] = memory[g]
    BY <1>0, <1>3, <2>2 DEF TypeOK
  <2>4. Opened(r)' => sem'[MEMORY] + sem'[DATA] + Bit(Filling(s)') + Bit(Draining(r)') <= 1
    BY <1>0, <1>2, <1>5, <1>11, <1>16 DEF Bit
  <2>5. Linked(s, r)'
    <3>1. pc'[s] = pc[s] /\ pc[s] \notin {"testReceiver", "read", "resetReceiver", "vData"}
      BY <1>1, <1>9, <2>1
    <3>2. memory'[shm'[r]] = m /\ out'[r] = out[r] /\ pos'[s] = pos[s] /\ shm'[s] = shm'[r]
      BY <1>1, <1>16, <2>1, <2>3 DEF Linked
    <3>3. pc'[r] \in {"ack", "resetSender", "vMemory"} => pos[s] = Len(out[r])
      BY <1>16 DEF Opened
    <3>4. pc'[r] # "testSender" /\ pc'[r] # "write" /\ sem'[DATA] # 1
      BY <1>16, <2>1
    <3>5. m.snd_state = "EOF" => memory[shm[r]].snd_state = "EOF"
      BY <1>4, <1>16
    <3> QED BY <1>16, <2>1, <3>1, <3>2, <3>3, <3>4, <3>5 DEF Linked, Counted
  <2> QED BY <1>0, <1>1, <1>2, <1>16, <2>3, <2>4, <2>5, SessionKept
<1>17. ASSUME WriteFails(r) PROVE Session(s, r)'
  <2> DEFINE m == [Mem(r) EXCEPT !.rcv_state = "IOERROR"]
  <2>1. /\ pc[r] = "write" /\ pc'[r] = "cleanup" /\ shm' = shm /\ sem' = sem /\ out' = out
        /\ Using(r) /\ Store(r, m) /\ Bad(r)' /\ ~ Opened(r)' /\ Draining(r)
    BY <1>0, <1>17
    DEF WriteFails, Return, Goto, shmVars, semVars, Using, UsingPlaces, Bad, Opened,
        Draining
  <2>2. m.rcv_state = "IOERROR" /\ m.snd_state = Mem(r).snd_state
    BY <1>4, <2>1
  <2> HIDE DEF m
  <2> QED BY <1>16, <2>1, <2>2
<1>18. ASSUME Acknowledge(r) PROVE Session(s, r)'
  <2> DEFINE m == [Mem(r) EXCEPT !.rcv_state = "OK"]
  <2>1. /\ pc[r] = "ack" /\ pc'[r] = "resetSender" /\ shm' = shm /\ sem' = sem /\ out' = out
        /\ Using(r) /\ Store(r, m) /\ Opened(r)' /\ Draining(r) /\ Draining(r)'
    BY <1>0, <1>18
    DEF Acknowledge, Goto, shmVars, semVars, Using, UsingPlaces, Opened, Draining
  <2>2. m.rcv_state = "OK" /\ m.snd_state = Mem(r).snd_state
    BY <1>4, <2>1
  <2>3. pos[s] = Len(out[r])
    BY <1>11, <2>1 DEF Linked
  <2> HIDE DEF m
  <2> QED BY <1>16, <2>1, <2>2, <2>3
<1>19. ASSUME ResetSender(r) PROVE Session(s, r)'
  <2> DEFINE m == [Mem(r) EXCEPT !.snd_state = "NOT_DONE"]
  <2>1. /\ pc[r] = "resetSender" /\ pc'[r] = "vMemory" /\ shm' = shm /\ sem' = sem /\ out' = out
        /\ Using(r) /\ Store(r, m) /\ Opened(r)' /\ Draining(r) /\ Draining(r)'
    BY <1>0, <1>19
    DEF ResetSender, Goto, shmVars, semVars, Using, UsingPlaces, Opened, Draining
  <2>2. m.snd_state = "NOT_DONE"
    BY <1>4, <2>1
  <2>3. pos[s] = Len(out[r])
    BY <1>11, <2>1 DEF Linked
  <2> HIDE DEF m
  <2> QED BY <1>16, <2>1, <2>2, <2>3
<1>20. ASSUME VMemory(r) PROVE Session(s, r)'
  <2>1. /\ pc[r] = "vMemory" /\ pc'[r] = "pData" /\ shm' = shm /\ out' = out /\ memory' = memory
        /\ sem' = [sem EXCEPT ![MEMORY] = sem[MEMORY] + 1]
    BY <1>0, <1>20, ReceiverOperations DEF VMemory, Goto, shmVars, Gives
  <2>2. sem'[SND_MUTEX] = 0 /\ sem'[DATA] = sem[DATA] /\ sem'[MEMORY] = sem[MEMORY] + 1
    BY <1>0, <2>1, Numbers DEF TypeOK
  <2>3. Opened(r) /\ Opened(r)' /\ Draining(r) /\ ~ Draining(r)'
    BY <2>1 DEF Opened, Draining
  <2>4. sem'[MEMORY] + sem'[DATA] + Bit(Filling(s)') + Bit(Draining(r)') <= 1
    BY <1>0, <1>2, <1>5, <2>2, <2>3 DEF Bit
  <2>5. Linked(s, r)'
    BY <1>1, <1>2, <1>6, <1>11, <2>1, <2>2, <2>3 DEF Linked, Counted
  <2> QED BY <1>1, <1>2, <2>1, <2>2, <2>3, <2>4, <2>5, SessionKept
\* The bad end of the receiver.
<1>21. ASSUME memory' = memory, shm' = shm, out' = out, sem'[SND_MUTEX] = 0,
              Bad(r)', pc'[r] \in {"exit", "gone"}
       PROVE  Session(s, r)'
  <2>1. ~ Opened(r)'
    BY <1>21 DEF Opened
  <2>2. Strange(s, r) => Strange(s, r)'
    BY <1>1, <1>2, <1>21, <2>1 DEF Strange
  <2>3. Linked(s, r) => Linked(s, r)'
    BY <1>1, <1>2, <1>21, <2>1 DEF Linked, Counted
  <2> QED BY <1>1, <1>2, <1>7, <1>21, <2>1, <2>2, <2>3, SessionKept
<1>22. ASSUME sem' = Undo(sem, adj[r]) PROVE sem'[SND_MUTEX] = 0
  <2>1. sem'[SND_MUTEX] = IF sem[SND_MUTEX] + adj[r][SND_MUTEX] < 0 THEN 0
                          ELSE sem[SND_MUTEX] + adj[r][SND_MUTEX]
    BY <1>0, <1>22, Undone, Numbers
  <2> QED BY <1>0, <2>1 DEF Base, Locked
<1>23. ASSUME Cleanup(r) PROVE Session(s, r)'
  <2>1. /\ memory' = memory /\ shm' = shm /\ out' = out /\ sem' = sem /\ status' = status
        /\ pc[r] = "cleanup" /\ pc'[r] = "exit"
    BY <1>0, <1>23 DEF Cleanup, Goto, semVars
  <2>2. Bad(r)'
    BY <2>1 DEF Session, Opened, Bad
  <2> QED BY <1>0, <1>21, <2>1, <2>2
<1>24. ASSUME Exit(r) PROVE Session(s, r)'
  <2>1. /\ memory' = memory /\ shm' = shm /\ out' = out /\ sem'[SND_MUTEX] = 0 /\ status' = status
        /\ pc[r] = "exit" /\ pc'[r] = "gone"
    BY <1>0, <1>22, <1>24 DEF Exit, Goto, shmVars
  <2>2. Bad(r)'
    BY <2>1 DEF Session, Opened, Bad
  <2> QED BY <1>21, <2>1, <2>2
<1>25. ASSUME Kill(r) PROVE Session(s, r)'
  <2>1. /\ memory' = memory /\ shm' = shm /\ out' = out /\ sem'[SND_MUTEX] = 0
        /\ Bad(r)' /\ pc'[r] = "gone"
    BY <1>0, <1>22, <1>25 DEF Kill, Die, Bad
  <2> QED BY <1>21, <2>1
<1>26. /\ ~ LockReceivers(r) /\ ~ ShmGet(r) /\ ~ ShmAttach(r, "init") /\ ~ ShmAttachFails(r)
       /\ ~ InitMemory(r) /\ ~ Open(r) /\ \A i \in 1 .. 3 : ~ ZeroSemaphore(r, i)
  <2>1. \A i \in 1 .. 3 : <<"zero1", "zero2", "zero3">>[i] \in {"zero1", "zero2", "zero3"}
    OBVIOUS
  <2>2. pc[r] \notin {"lock", "zero1", "zero2", "zero3", "shmget", "shmat", "init", "open"}
    BY DEF Session, Opened
  <2> QED BY <2>1, <2>2
          DEF LockReceivers, ShmGet, ShmAttach, ShmAttachFails, InitMemory, Open,
              ZeroSemaphore, Goto, Return
<1> QED
  BY <1>10, <1>12, <1>13, <1>14, <1>15, <1>17, <1>18, <1>19, <1>20, <1>23, <1>24, <1>25,
     <1>26
  DEF ReceiverActs, ReceiverStep

-----------------------------------------------------------------------------
(* The parts of the invariant that follow from the phases *)

\* Between sessions, waiting for a sender, in a session: no step leaves these.
LEMMA PhasesStep ==
    ASSUME SemAssumption, SesInv, Base', NoneAfter, NoneAfter', [Next]_vars
    PROVE  Phases'
<1>1. CASE UNCHANGED vars
  <2>1. Between => Between'
    BY <1>1 DEF vars, Between, Over, Joined, Opened, Bad
  <2>2. \A r \in Receivers : Waiting(r) => Waiting(r)'
    BY <1>1 DEF vars, Waiting, Over, Joined
  <2>3. ASSUME NEW s \in Senders, NEW r \in Receivers, Session(s, r) PROVE Session(s, r)'
    <3>1. Linked(s, r) => Linked(s, r)'
      BY <1>1 DEF vars, Linked, Counted, Joined, Opened
    <3>2. Strange(s, r) => Strange(s, r)'
      BY <1>1 DEF vars, Strange, Opened
    <3>3. /\ Opened(r)' <=> Opened(r)
          /\ Bad(r)' <=> Bad(r)
          /\ Draining(r)' <=> Draining(r)
          /\ Filling(s)' <=> Filling(s)
          /\ \A t \in Senders : Over(t)' <=> Over(t)
      BY <1>1 DEF vars, Opened, Bad, Draining, Filling, Over, Joined
    <3>4. UNCHANGED <<sem, pc, shm>>
      BY <1>1 DEF vars
    <3>5. Opened(r)' => sem'[MEMORY] + sem'[DATA] + Bit(Filling(s)') + Bit(Draining(r)') <= 1
      BY <2>3, <3>3, <3>4 DEF Session, Bit
    <3> QED BY <2>3, <3>1, <3>2, <3>3, <3>4, <3>5 DEF Session
  <2> QED BY <2>1, <2>2, <2>3 DEF SesInv, Phases
<1>2. ASSUME NEW p \in Senders, SenderActs(p) PROVE Phases'
  <2>1. CASE Between
    BY <1>2, <2>1, BetweenSender DEF Phases
  <2>2. ASSUME NEW r \in Receivers, Waiting(r) PROVE Phases'
    BY <1>2, <2>2, WaitingSender DEF Phases
  <2>3. ASSUME NEW s \in Senders, NEW r \in Receivers, Session(s, r) PROVE Phases'
    <3>1. CASE p = s
      BY <1>2, <2>3, <3>1, SessionSender DEF Phases
    <3>2. CASE p # s
      BY <1>2, <2>3, <3>2, SessionBystander DEF Phases
    <3> QED BY <3>1, <3>2
  <2> QED BY <2>1, <2>2, <2>3 DEF SesInv, Phases
<1>3. ASSUME NEW p \in Receivers, ReceiverActs(p) PROVE Phases'
  <2>1. CASE Between
    BY <1>3, <2>1, BetweenReceiver DEF Phases
  <2>2. ASSUME NEW r \in Receivers, Waiting(r) PROVE Phases'
    BY <1>3, <2>2, WaitingReceiver DEF Phases
  <2>3. ASSUME NEW s \in Senders, NEW r \in Receivers, Session(s, r) PROVE Phases'
    <3>1. CASE p = r
      BY <1>3, <2>3, <3>1, SessionReceiver DEF Phases
    <3>2. CASE p # r
      BY <1>3, <2>3, <3>2, SessionOther DEF Phases
    <3> QED BY <3>1, <3>2
  <2> QED BY <2>1, <2>2, <2>3 DEF SesInv, Phases
<1> QED BY <1>1, <1>2, <1>3, SomebodyActs DEF SesInv

\* The session that a working receiver, or a working sender, is in.
LEMMA SessionOfReceiver ==
    ASSUME SesInv, NoneAfter, NEW r \in Receivers, Draining(r)
    PROVE  \E s \in Senders : Session(s, r) /\ Linked(s, r) /\ ~ Strange(s, r) /\ ~ Filling(s)
<1>1. Opened(r) /\ Active(r) /\ pc[r] # "pData"
  BY DEF Draining, Opened, Active
<1>2. \A q \in Receivers : q # r => pc[q] \in {"lock", "gone"} /\ ~ Bad(q)
  BY <1>1 DEF SesInv, Base, Locked, ReceiversExclude, Active, NoneAfter
<1>3. ~ Between /\ \A q \in Receivers : ~ Waiting(q)
  BY <1>1, <1>2 DEF Between, Waiting, Opened
<1>4. PICK s \in Senders, q \in Receivers : Session(s, q)
  BY <1>3 DEF SesInv, Phases
<1>5. q = r
  BY <1>1, <1>2, <1>4 DEF Session, Opened
<1>6. sem[MEMORY] \in Nat /\ sem[DATA] \in Nat
  BY Numbers DEF SesInv, Base, TypeOK
<1>7. ~ Filling(s)
  BY <1>1, <1>4, <1>5, <1>6 DEF Session, Bit
<1> QED BY <1>1, <1>4, <1>5, <1>7 DEF Session, Strange

\* The session that a sender takes part in.
LEMMA SessionOfSender ==
    ASSUME SesInv, NEW s \in Senders, ~ Over(s)
    PROVE  \E r \in Receivers : Session(s, r)
<1>1. ~ Between
  BY DEF Between
<1>2. \A r \in Receivers : ~ Waiting(r)
  BY DEF Waiting
<1>3. PICK t \in Senders, r \in Receivers : Session(t, r)
  BY <1>1, <1>2 DEF SesInv, Phases
<1>4. t = s
  BY <1>3 DEF Session
<1> QED BY <1>3, <1>4

\* A process ends with a status, and only once.
LEMMA EndedStep ==
    ASSUME SemAssumption, Base, Ended, [Next]_vars
    PROVE  Ended'
<1>0. /\ \A s \in Senders : s \in Processes
      /\ \A r \in Receivers : r \in Processes
      /\ pc \in [Processes -> SenderPlaces \cup ReceiverPlaces]
      /\ status \in [Processes -> {"running", "ok", "failed", "killed", "crashed"}]
      /\ \A p \in Killable : p \in Processes
  BY DEF Base, TypeOK, Processes, SemAssumption
<1>1. ASSUME NEW p \in Processes, NEW to, pc' = [pc EXCEPT ![p] = to], status' = status,
             pc[p] \notin {"cleanup", "exit", "gone"}, to \notin {"cleanup", "exit", "gone"}
      PROVE  Ended'
  BY <1>0, <1>1 DEF Ended
<1>2. ASSUME NEW p \in Processes, NEW from, NEW result \in {"ok", "failed"}, Return(p, from, result),
             from \notin {"cleanup", "exit", "gone"}
      PROVE  Ended'
  BY <1>0, <1>2 DEF Ended, Return, Goto
<1>3. ASSUME NEW p \in Processes, Cleanup(p) PROVE Ended'
  BY <1>0, <1>3 DEF Ended, Cleanup, Goto
<1>4. ASSUME NEW p \in Processes, Exit(p) PROVE Ended'
  BY <1>0, <1>4 DEF Ended, Exit, Goto, shmVars
<1>5. ASSUME NEW p \in Processes, Kill(p) PROVE Ended'
  BY <1>0, <1>5 DEF Ended, Kill, Die
<1>6. CASE UNCHANGED vars
  BY <1>6 DEF vars, Ended
<1>7. ASSUME NEW s \in Senders, SenderStep(s) \/ ReadFails(s) PROVE Ended'
  <2>0. s \in Processes
    BY <1>0
  <2>1. CASE ShmGet(s)
    BY <1>1, <2>0, <2>1 DEF ShmGet, Goto
  <2>2. CASE ShmAttach(s, "join")
    BY <1>1, <2>0, <2>2 DEF ShmAttach, Goto
  <2>3. CASE ShmAttachFails(s)
    BY <1>2, <2>0, <2>3 DEF ShmAttachFails
  <2>4. CASE Join(s) \/ PMemory(s) \/ VData(s)
    BY <1>1, <2>0, <2>4 DEF Join, PMemory, VData, Goto
  <2>5. CASE ReceiverOk(s) \/ Read(s) \/ ResetReceiver(s)
    BY <1>1, <2>0, <2>5 DEF ReceiverOk, Read, ResetReceiver, Goto
  <2>6. CASE ReceiverNotOk(s)
    BY <1>2, <2>0, <2>6 DEF ReceiverNotOk
  <2>7. CASE ReadFails(s)
    BY <1>2, <2>0, <2>7 DEF ReadFails
  <2>8. CASE TestEof(s)
    <3>1. \/ Return(s, "testEof", "ok")
          \/ pc[s] = "testEof" /\ pc' = [pc EXCEPT ![s] = "pMemory"] /\ status' = status
      BY <2>8 DEF TestEof, Goto
    <3> QED BY <1>1, <1>2, <2>0, <3>1
  <2> QED BY <1>7, <2>1, <2>2, <2>3, <2>4, <2>5, <2>6, <2>7, <2>8 DEF SenderStep
<1>8. ASSUME NEW r \in Receivers, ReceiverStep(r) \/ WriteFails(r) PROVE Ended'
  <2>0. r \in Processes
    BY <1>0
  <2>1. CASE ShmGet(r)
    BY <1>1, <2>0, <2>1 DEF ShmGet, Goto
  <2>2. CASE ShmAttach(r, "init")
    BY <1>1, <2>0, <2>2 DEF ShmAttach, Goto
  <2>3. CASE ShmAttachFails(r)
    BY <1>2, <2>0, <2>3 DEF ShmAttachFails
  <2>4. CASE LockReceivers(r) \/ Open(r) \/ PData(r) \/ VMemory(r)
    BY <1>1, <2>0, <2>4 DEF LockReceivers, Open, PData, VMemory, Goto
  <2>5. CASE InitMemory(r) \/ SenderOk(r) \/ Write(r)
    BY <1>1, <2>0, <2>5 DEF InitMemory, SenderOk, Write, Goto
  <2>6. CASE Acknowledge(r) \/ ResetSender(r)
    BY <1>1, <2>0, <2>6 DEF Acknowledge, ResetSender, Goto
  <2>7. CASE SenderEof(r)
    BY <1>2, <2>0, <2>7 DEF SenderEof
  <2>8. CASE SenderNotOk(r)
    BY <1>2, <2>0, <2>8 DEF SenderNotOk
  <2>9. CASE WriteFails(r)
    BY <1>2, <2>0, <2>9 DEF WriteFails
  <2>10. ASSUME NEW i \in 1 .. 3, ZeroSemaphore(r, i) PROVE Ended'
    <3>1. /\ <<"zero2", "zero3", "shmget">>[i] \notin {"cleanup", "exit", "gone"}
          /\ <<"zero1", "zero2", "zero3">>[i] \notin {"cleanup", "exit", "gone"}
      OBVIOUS
    <3> QED BY <1>1, <2>0, <2>10, <3>1 DEF ZeroSemaphore, Goto
  <2> QED BY <1>8, <2>1, <2>2, <2>3, <2>4, <2>5, <2>6, <2>7, <2>8, <2>9, <2>10 DEF ReceiverStep
<1> QED BY <1>0, <1>3, <1>4, <1>5, <1>6, <1>7, <1>8, Attached DEF Base, Next, Fault, Step

\* The receiver that announced itself in a segment stays, ends badly, or takes
\* the announcement back.
LEMMA ReadyStep ==
    ASSUME SemAssumption, SesInv, Base', Ended', NoneAfter, [Next]_vars
    PROVE  Ready'
<1>0. /\ TypeOK /\ Base
      /\ \A s \in Senders : s \in Processes /\ s \notin Receivers
      /\ \A r \in Receivers : r \in Processes /\ r \notin Senders
      /\ memory \in [Segments -> [rcv_state : {"NOT_DONE", "OK", "IOERROR"},
                                  snd_state : {"NOT_DONE", "OK", "EOF", "IOERROR"},
                                  data : Chunks \cup {NoChunk}]]
      /\ pc \in [Processes -> SenderPlaces \cup ReceiverPlaces]
      /\ status \in [Processes -> {"running", "ok", "failed", "killed", "crashed"}]
  BY DEF SesInv, Base, TypeOK, Processes, SemAssumption
<1>1. \A g \in Segments : memory[g].rcv_state = "OK" =>
         \E r \in Receivers : shm[r] = g /\ Stands(r)
  BY DEF SesInv, Ready, Stands
<1>2. SUFFICES \A g \in Segments : memory'[g].rcv_state = "OK" =>
                  \E r \in Receivers : shm'[r] = g /\ Stands(r)'
  BY DEF Ready, Stands
<1>3. ASSUME \A g \in Segments : memory'[g].rcv_state = "OK" => memory[g].rcv_state = "OK",
             \A r \in Receivers : Stands(r) => Stands(r)' /\ shm'[r] = shm[r]
      PROVE  \A g \in Segments : memory'[g].rcv_state = "OK" =>
                  \E r \in Receivers : shm'[r] = g /\ Stands(r)'
  BY <1>1, <1>3
<1>4. CASE UNCHANGED vars
  <2>1. \A r \in Receivers : Stands(r) => Stands(r)' /\ shm'[r] = shm[r]
    BY <1>4 DEF vars, Stands, Opened, Bad
  <2> QED BY <1>3, <1>4, <2>1 DEF vars
<1>5. ASSUME NEW s \in Senders, SenderActs(s)
      PROVE  \A g \in Segments : memory'[g].rcv_state = "OK" =>
                  \E r \in Receivers : shm'[r] = g /\ Stands(r)'
  <2>1. \A r \in Receivers : pc'[r] = pc[r] /\ status'[r] = status[r] /\ shm'[r] = shm[r]
    BY <1>0, <1>5, SenderFrame DEF Others
  <2>2. \A r \in Receivers : Stands(r) => Stands(r)' /\ shm'[r] = shm[r]
    BY <2>1 DEF Stands, Opened, Bad
  <2>3. \/ memory' = memory
        \/ pc[s] \in {"read", "resetReceiver"} /\ \E m : Store(s, m) /\ m.rcv_state \in {Mem(s).rcv_state, "NOT_DONE"}
    <3>1. CASE Read(s) \/ ReadFails(s) \/ ResetReceiver(s)
      <4>1. pc[s] \in {"read", "resetReceiver"}
        BY <3>1 DEF Read, ReadFails, ResetReceiver, Return, Goto
      <4>2. shm[s] \in Segments /\ attached[s] = shm[s]
        BY <1>0, <4>1 DEF Base, TypeOK, Places, Using, UsingPlaces, NoSegment
      <4>3. Mem(s) \in [rcv_state : {"NOT_DONE", "OK", "IOERROR"},
                        snd_state : {"NOT_DONE", "OK", "EOF", "IOERROR"},
                        data : Chunks \cup {NoChunk}]
        BY <1>0, <4>2 DEF Mem
      <4>4. /\ [Mem(s) EXCEPT !.data = [from |-> s, nr |-> pos[s] + 1], !.snd_state = "OK"].rcv_state = Mem(s).rcv_state
            /\ [Mem(s) EXCEPT !.snd_state = "EOF"].rcv_state = Mem(s).rcv_state
            /\ [Mem(s) EXCEPT !.snd_state = "IOERROR"].rcv_state = Mem(s).rcv_state
            /\ [Mem(s) EXCEPT !.rcv_state = "NOT_DONE"].rcv_state = "NOT_DONE"
        BY <4>3
      <4> QED BY <3>1, <4>1, <4>4 DEF Read, ReadFails, ResetReceiver
    <3>2. CASE ~ (Read(s) \/ ReadFails(s) \/ ResetReceiver(s))
      BY <1>5, <3>2
      DEF SenderActs, SenderStep, ShmGet, ShmAttach, ShmAttachFails, Join, PMemory,
          ReceiverOk,
          ReceiverNotOk, VData, TestEof, Cleanup, Exit, Kill, Die
    <3> QED BY <3>1, <3>2
  <2>4. CASE memory' = memory
    BY <1>3, <2>2, <2>4
  <2>5. ASSUME NEW m, Store(s, m), m.rcv_state \in {Mem(s).rcv_state, "NOT_DONE"}
        PROVE  \A g \in Segments : memory'[g].rcv_state = "OK" => memory[g].rcv_state = "OK"
    BY <1>0, <2>5 DEF Store, Mem
  <2> QED BY <1>3, <2>2, <2>3, <2>4, <2>5
<1>6. ASSUME NEW r \in Receivers, ReceiverActs(r)
      PROVE  \A g \in Segments : memory'[g].rcv_state = "OK" =>
                  \E q \in Receivers : shm'[q] = g /\ Stands(q)'
  <2>1. \A q \in Receivers : q # r => pc'[q] = pc[q] /\ status'[q] = status[q] /\ shm'[q] = shm[q]
    BY <1>0, <1>6, ReceiverFrame DEF Others
  <2>2. \A q \in Receivers : q # r => (Stands(q) => Stands(q)' /\ shm'[q] = shm[q])
    BY <2>1 DEF Stands, Opened, Bad
  <2>3. ASSUME memory' = memory, Stands(r) => Stands(r)' /\ shm'[r] = shm[r]
        PROVE  \A g \in Segments : memory'[g].rcv_state = "OK" =>
                  \E q \in Receivers : shm'[q] = g /\ Stands(q)'
    BY <1>3, <2>2, <2>3
  \* What r stores in its segment speaks for r only.
  <2>4. ASSUME NEW m, Using(r), Store(r, m), shm' = shm,
               \/ Stands(r)'
               \/ m.rcv_state # "OK" /\ ~ Stands(r)
        PROVE  \A g \in Segments : memory'[g].rcv_state = "OK" =>
                  \E q \in Receivers : shm'[q] = g /\ Stands(q)'
    <3>1. attached[r] = shm[r] /\ shm[r] \in Segments
      BY <1>0, <2>4 DEF Base, TypeOK, Places, NoSegment
    <3>2. /\ memory'[shm[r]] = m
          /\ \A g \in Segments : g # shm[r] => memory'[g] = memory[g]
      BY <1>0, <2>4, <3>1 DEF Store
    <3>3. TAKE g \in Segments
    <3>4. HAVE memory'[g].rcv_state = "OK"
    <3>5. CASE g = shm[r]
      BY <1>1, <2>2, <2>4, <3>2, <3>4, <3>5
    <3>6. CASE g # shm[r]
      <4>1. PICK q \in Receivers : shm[q] = g /\ Stands(q)
        BY <1>1, <3>2, <3>4, <3>6
      <4> QED BY <2>2, <3>6, <4>1
    <3> QED BY <3>5, <3>6
  <2>5. CASE LockReceivers(r) \/ (\E i \in 1 .. 3 : ZeroSemaphore(r, i)) \/ ShmGet(r)
             \/ ShmAttach(r, "init") \/ ShmAttachFails(r)
    <3>1. pc[r] \in {"lock", "zero1", "zero2", "zero3", "shmget", "shmat"}
      <4>1. \A i \in 1 .. 3 : <<"zero1", "zero2", "zero3">>[i] \in {"zero1", "zero2", "zero3"}
        OBVIOUS
      <4> QED BY <2>5, <4>1
              DEF LockReceivers, ZeroSemaphore, ShmGet, ShmAttach, ShmAttachFails, Return,
                  Goto
    <3>2. ~ Stands(r)
      BY <1>0, <3>1 DEF Stands, Opened, Bad, SesInv, Ended
    <3> QED BY <2>3, <2>5, <3>2 DEF LockReceivers, ZeroSemaphore, ShmGet, ShmAttach, ShmAttachFails
  <2>6. CASE InitMemory(r)
    <3>1. /\ Using(r) /\ shm' = shm /\ pc'[r] = "open"
          /\ \E m : Store(r, m)
      BY <1>0, <2>6 DEF InitMemory, Using, UsingPlaces, Goto, shmVars
    <3> QED BY <2>4, <3>1 DEF Stands
  <2>7. CASE Open(r) \/ PData(r) \/ SenderOk(r) \/ Write(r) \/ VMemory(r)
    <3>1. memory' = memory /\ shm' = shm /\ pc'[r] \in {"pData", "testSender", "write", "ack"}
      BY <1>0, <2>7 DEF Open, PData, SenderOk, Write, VMemory, Goto, shmVars
    <3>2. Stands(r)'
      BY <3>1 DEF Stands, Opened
    <3> QED BY <2>3, <3>1, <3>2
  <2>8. CASE SenderEof(r)
    <3>1. /\ memory' = memory /\ shm' = shm /\ pc[r] = "testSender" /\ attached[r] = shm[r]
          /\ memory[shm[r]].snd_state = "EOF" /\ shm[r] \in Segments
      BY <1>0, <2>8
      DEF SenderEof, Return, Goto, shmVars, Mem, Base, TypeOK, Places, Using, UsingPlaces,
          NoSegment
    <3>2. memory[shm[r]].rcv_state # "OK"
      <4>1. Draining(r) /\ Opened(r)
        BY <3>1 DEF Draining, Opened
      <4>2. PICK s \in Senders : Linked(s, r)
        BY <4>1, SessionOfReceiver DEF SesInv
      <4> QED BY <3>1, <4>1, <4>2 DEF Linked
    <3>3. TAKE g \in Segments
    <3>4. HAVE memory'[g].rcv_state = "OK"
    <3>5. PICK q \in Receivers : shm[q] = g /\ Stands(q)
      BY <1>1, <3>1, <3>4
    <3>6. q # r
      BY <3>1, <3>2, <3>4, <3>5
    <3> QED BY <2>2, <3>5, <3>6
  <2>9. CASE SenderNotOk(r) \/ Kill(r)
    <3>1. memory' = memory /\ shm' = shm /\ Bad(r)'
      BY <1>0, <2>9 DEF SenderNotOk, Return, Kill, Die, Bad, shmVars
    <3> QED BY <2>3, <3>1 DEF Stands
  <2>10. CASE WriteFails(r)
    <3>1. Using(r) /\ shm' = shm /\ Bad(r)' /\ \E m : Store(r, m)
      BY <1>0, <2>10 DEF WriteFails, Return, Goto, Bad, shmVars, Using, UsingPlaces
    <3> QED BY <2>4, <3>1 DEF Stands
  <2>11. CASE Acknowledge(r) \/ ResetSender(r)
    <3>1. Using(r) /\ shm' = shm /\ pc'[r] \in {"resetSender", "vMemory"} /\ \E m : Store(r, m)
      BY <1>0, <2>11 DEF Acknowledge, ResetSender, Goto, shmVars, Using, UsingPlaces
    <3> QED BY <2>4, <3>1 DEF Stands, Opened
  <2>12. CASE Cleanup(r) \/ Exit(r)
    <3>1. /\ memory' = memory /\ shm' = shm /\ status' = status /\ pc[r] \in {"cleanup", "exit"}
      BY <1>0, <2>12 DEF Cleanup, Exit, Goto, shmVars
    <3>2. Stands(r) => Stands(r)'
      BY <3>1 DEF Stands, Opened, Bad
    <3> QED BY <2>3, <3>1, <3>2
  <2> QED BY <1>6, <2>5, <2>6, <2>7, <2>8, <2>9, <2>10, <2>11, <2>12 DEF ReceiverActs, ReceiverStep
<1> QED BY <1>4, <1>5, <1>6, SomebodyActs DEF SesInv

\* A sender at the end of its file reports what its receiver has written.
LEMMA ReportedSender ==
    ASSUME SemAssumption, SesInv, NEW s \in Senders, SenderActs(s)
    PROVE  Reported'
<1>0. /\ TypeOK /\ Base /\ s \in Processes /\ out' = out
      /\ \A r \in Receivers : pc'[r] = pc[r] /\ status'[r] = status[r]
      /\ \A t \in Senders : t # s => pc'[t] = pc[t] /\ status'[t] = status[t] /\ shm'[t] = shm[t] /\ pos'[t] = pos[t]
      /\ pc \in [Processes -> SenderPlaces \cup ReceiverPlaces]
      /\ status \in [Processes -> {"running", "ok", "failed", "killed", "crashed"}]
      /\ pos \in [Senders -> 0 .. FileLen]
      /\ Reported
  <2>1. TypeOK /\ Base /\ Reported /\ s \in Processes
    BY DEF SesInv, Base, Processes
  <2>2. Others(s) /\ out' = out
    BY <2>1, SenderFrame
  <2> QED BY <2>1, <2>2 DEF TypeOK, Processes, SemAssumption, Others
<1>1. \A r \in Receivers :
         /\ \E t \in Senders : Len(out'[r]) <= FileLen /\ Counted(out'[r], t)
         /\ Early(r)' \/ pc'[r] \in {"shmat", "init", "open"} => out'[r] = << >>
         /\ status'[r] = "ok" => \E t \in Senders : Whole(out'[r], t)
  BY <1>0 DEF Reported, Early
<1>2. \A t \in Senders : pc'[t] \in {"shmget", "shmat", "join"} => pos'[t] = 0
  <2>1. pc'[s] \in {"shmget", "shmat", "join"} => pc[s] \in {"shmget", "shmat", "join"} /\ pos' = pos
    BY <1>0
    DEF SenderActs, SenderStep, ShmGet, ShmAttach, ShmAttachFails, Join, PMemory,
        ReceiverOk, ReceiverNotOk,
        Read, ReadFails, ResetReceiver, VData, TestEof, Cleanup, Exit, Kill, Die, Goto, Return
  <2> QED BY <1>0, <2>1 DEF Reported
<1>3. memory' = memory \/ Filling(s)
  BY
  DEF SenderActs, SenderStep, ShmGet, ShmAttach, ShmAttachFails, Join, PMemory,
      ReceiverOk, ReceiverNotOk,
         Read, ReadFails, ResetReceiver, VData, TestEof, Cleanup, Exit, Kill, Die, Goto, Return, Filling
\* Another sender that sees the end of the file has seen it before.
<1>4. ASSUME NEW t \in Senders, t # s, status'[t] = "ok" \/ (pc'[t] = "testEof" /\ memory'[shm'[t]].snd_state = "EOF")
      PROVE  \E r \in Receivers : Whole(out'[r], t)
  <2>1. status[t] = "ok" \/ (pc[t] = "testEof" /\ memory[shm[t]].snd_state = "EOF")
    <3>1. CASE memory' = memory
      BY <1>0, <1>4, <3>1
    <3>2. CASE Filling(s)
      <4>1. ~ Over(s)
        BY <3>2 DEF Over, Filling, Joined
      <4>2. Over(t)
        BY <1>4, <4>1, SessionOfSender DEF Session
      <4> QED BY <1>0, <1>4, <4>2 DEF Over, Joined
    <3> QED BY <1>3, <3>1, <3>2
  <2> QED BY <1>0, <2>1 DEF Reported
<1>5. ASSUME status'[s] = "ok" \/ (pc'[s] = "testEof" /\ memory'[shm'[s]].snd_state = "EOF")
      PROVE  \E r \in Receivers : Whole(out'[r], s)
  <2>1. \/ status[s] = "ok"
        \/ TestEof(s) /\ Mem(s).snd_state = "EOF"
        \/ VData(s)
    BY <1>0, <1>5
    DEF SenderActs, SenderStep, ShmGet, ShmAttach, ShmAttachFails, Join, PMemory,
        ReceiverOk, ReceiverNotOk,
        Read, ReadFails, ResetReceiver, TestEof, Cleanup, Exit, Kill, Die, Goto, Return
  <2>2. CASE status[s] = "ok"
    BY <1>0, <2>2 DEF Reported
  <2>3. CASE TestEof(s) /\ Mem(s).snd_state = "EOF"
    <3>1. pc[s] = "testEof" /\ memory[shm[s]].snd_state = "EOF"
      BY <1>0, <2>3 DEF TestEof, Mem, Base, Places, Using, UsingPlaces
    <3> QED BY <1>0, <3>1 DEF Reported
  <2>4. CASE VData(s)
    <3>1. /\ pc[s] = "vData" /\ pc'[s] = "testEof" /\ memory' = memory /\ shm' = shm
          /\ status' = status
      BY <1>0, <2>4 DEF VData, Goto, shmVars
    <3>2. CASE status'[s] = "ok"
      BY <1>0, <3>1, <3>2 DEF Reported
    <3>3. CASE memory[shm[s]].snd_state = "EOF"
      <4>1. PICK r \in Receivers : Session(s, r)
        BY <3>1, SessionOfSender DEF Over, Joined
      <4>2. Linked(s, r)
        BY <3>1, <4>1 DEF Session, Strange
      <4>3. Whole(out[r], s)
        BY <3>3, <4>2 DEF Linked, Whole
      <4> QED BY <1>0, <4>3
    <3> QED BY <1>5, <3>1, <3>2, <3>3
  <2> QED BY <2>1, <2>2, <2>3, <2>4
<1> QED BY <1>1, <1>2, <1>4, <1>5 DEF Reported

\* A receiver writes the next chunk of its sender's file, and nothing more when
\* the file is whole.
LEMMA ReportedReceiver ==
    ASSUME SemAssumption, SesInv, NoneAfter, NEW r \in Receivers, ReceiverActs(r)
    PROVE  Reported'
<1>0. /\ TypeOK /\ Base /\ r \in Processes /\ pos' = pos
      /\ \A t \in Senders : pc'[t] = pc[t] /\ status'[t] = status[t] /\ shm'[t] = shm[t] /\ t \in Processes
      /\ \A q \in Receivers : q # r => pc'[q] = pc[q] /\ status'[q] = status[q] /\ out'[q] = out[q]
      /\ memory \in [Segments -> [rcv_state : {"NOT_DONE", "OK", "IOERROR"},
                                  snd_state : {"NOT_DONE", "OK", "EOF", "IOERROR"},
                                  data : Chunks \cup {NoChunk}]]
      /\ pc \in [Processes -> SenderPlaces \cup ReceiverPlaces]
      /\ status \in [Processes -> {"running", "ok", "failed", "killed", "crashed"}]
      /\ pos \in [Senders -> 0 .. FileLen] /\ FileLen \in Nat
      /\ out \in [Receivers -> Seq(Chunks)]
      /\ shm \in [Processes -> Segments \cup {NoSegment}]
      /\ Reported
  <2>1. TypeOK /\ Base /\ Reported /\ r \in Processes
    BY DEF SesInv, Base, Processes
  <2>2. Others(r) /\ pos' = pos
    BY <2>1, ReceiverFrame
  <2> QED BY <2>1, <2>2 DEF TypeOK, Processes, SemAssumption, Others
\* A receiver does not announce the end of a file.
<1>1. \A g \in Segments : memory'[g].snd_state = "EOF" => memory[g].snd_state = "EOF"
  <2>1. CASE InitMemory(r) \/ WriteFails(r) \/ Acknowledge(r) \/ ResetSender(r)
    <3>1. attached[r] = shm[r] /\ shm[r] \in Segments
      BY <1>0, <2>1
      DEF InitMemory, WriteFails, Acknowledge, ResetSender, Return, Goto, Base, TypeOK,
          Places,
                        Using, UsingPlaces, NoSegment
    <3>2. Mem(r) \in [rcv_state : {"NOT_DONE", "OK", "IOERROR"},
                      snd_state : {"NOT_DONE", "OK", "EOF", "IOERROR"},
                      data : Chunks \cup {NoChunk}]
      BY <1>0, <3>1 DEF Mem
    <3>3. /\ [Mem(r) EXCEPT !.rcv_state = "OK", !.snd_state = "NOT_DONE"].snd_state = "NOT_DONE"
          /\ [Mem(r) EXCEPT !.rcv_state = "IOERROR"].snd_state = Mem(r).snd_state
          /\ [Mem(r) EXCEPT !.rcv_state = "OK"].snd_state = Mem(r).snd_state
          /\ [Mem(r) EXCEPT !.snd_state = "NOT_DONE"].snd_state = "NOT_DONE"
      BY <3>2
    <3>4. \E m : Store(r, m) /\ m.snd_state \in {"NOT_DONE", Mem(r).snd_state}
      BY <2>1, <3>3 DEF InitMemory, WriteFails, Acknowledge, ResetSender
    <3>5. ASSUME NEW m, Store(r, m), m.snd_state \in {"NOT_DONE", Mem(r).snd_state}
          PROVE  \A g \in Segments : memory'[g].snd_state = "EOF" => memory[g].snd_state = "EOF"
      BY <1>0, <3>1, <3>5 DEF Store, Mem
    <3> QED BY <3>4, <3>5
  <2>2. CASE ~ (InitMemory(r) \/ WriteFails(r) \/ Acknowledge(r) \/ ResetSender(r))
    <3>1. memory' = memory
      BY <2>2
      DEF ReceiverActs, ReceiverStep, LockReceivers, ZeroSemaphore, ShmGet, ShmAttach,
          ShmAttachFails,
                  Open, PData, SenderOk, SenderEof, SenderNotOk, Write, VMemory, Cleanup, Exit, Kill, Die
    <3> QED BY <3>1
  <2> QED BY <2>1, <2>2
<1>2. \A s \in Senders : pc'[s] \in {"shmget", "shmat", "join"} => pos'[s] = 0
  BY <1>0 DEF Reported
<1>3. \A s \in Senders :
         status'[s] = "ok" \/ (pc'[s] = "testEof" /\ memory'[shm'[s]].snd_state = "EOF") =>
            \E q \in Receivers : Whole(out[q], s)
  <2> SUFFICES ASSUME NEW s \in Senders, status'[s] = "ok" \/ (pc'[s] = "testEof" /\ memory'[shm'[s]].snd_state = "EOF")
               PROVE  \E q \in Receivers : Whole(out[q], s)
    OBVIOUS
  <2>1. pc[s] = "testEof" => shm[s] \in Segments
    BY <1>0 DEF Base, Places, Using, UsingPlaces
  <2> QED BY <1>0, <1>1, <2>1 DEF Reported
<1>4. CASE ~ Write(r)
  <2>1. out' = out
    BY <1>4
    DEF ReceiverActs, ReceiverStep, LockReceivers, ZeroSemaphore, ShmGet, ShmAttach,
        ShmAttachFails,
                InitMemory, Open, PData, SenderOk, SenderEof, SenderNotOk, WriteFails, Acknowledge, ResetSender,
                VMemory, Cleanup, Exit, Kill, Die
  <2>2. \A i \in 1 .. 3 : /\ <<"zero1", "zero2", "zero3">>[i] \in {"zero1", "zero2", "zero3"}
                          /\ <<"zero2", "zero3", "shmget">>[i] \in {"zero2", "zero3", "shmget"}
    OBVIOUS
  <2>3. Early(r)' \/ pc'[r] \in {"shmat", "init", "open"} => Early(r) \/ pc[r] \in {"shmat", "init", "open"}
    <3>1. CASE \E i \in 1 .. 3 : ZeroSemaphore(r, i)
      BY <1>0, <2>2, <3>1 DEF ZeroSemaphore, Goto, Early, EarlyPlaces
    <3>2. CASE ~ \E i \in 1 .. 3 : ZeroSemaphore(r, i)
      BY <1>0, <1>4, <3>2
      DEF ReceiverActs, ReceiverStep, LockReceivers, ShmGet, ShmAttach, ShmAttachFails,
          InitMemory, Open, PData, SenderOk, SenderEof, SenderNotOk, WriteFails, Acknowledge, ResetSender,
          VMemory, Cleanup, Exit, Kill, Die, Goto, Return, Early, EarlyPlaces
    <3> QED BY <3>1, <3>2
  <2>4. status'[r] = "ok" => status[r] = "ok" \/ SenderEof(r)
    BY <1>0, <1>4
    DEF ReceiverActs, ReceiverStep, LockReceivers, ZeroSemaphore, ShmGet, ShmAttach,
        ShmAttachFails,
        InitMemory, Open, PData, SenderOk, SenderNotOk, WriteFails, Acknowledge, ResetSender,
        VMemory, Cleanup, Exit, Kill, Die, Return
  <2>5. SenderEof(r) => \E s \in Senders : Whole(out[r], s)
    <3> SUFFICES ASSUME SenderEof(r) PROVE \E s \in Senders : Whole(out[r], s)
      OBVIOUS
    <3>1. /\ pc[r] = "testSender" /\ memory[shm[r]].snd_state = "EOF"
      BY <1>0 DEF SenderEof, Return, Goto, Mem, Base, Places, Using, UsingPlaces
    <3>2. PICK s \in Senders : Linked(s, r)
      BY <3>1, SessionOfReceiver DEF Draining
    <3> QED BY <3>1, <3>2 DEF Linked, Whole
  <2>6. /\ \E s \in Senders : Len(out'[r]) <= FileLen /\ Counted(out'[r], s)
        /\ Early(r)' \/ pc'[r] \in {"shmat", "init", "open"} => out'[r] = << >>
        /\ status'[r] = "ok" => \E s \in Senders : Whole(out'[r], s)
    BY <1>0, <2>1, <2>3, <2>4, <2>5 DEF Reported
  <2>7. \A q \in Receivers : q # r =>
        /\ \E s \in Senders : Len(out'[q]) <= FileLen /\ Counted(out'[q], s)
        /\ Early(q)' \/ pc'[q] \in {"shmat", "init", "open"} => out'[q] = << >>
        /\ status'[q] = "ok" => \E s \in Senders : Whole(out'[q], s)
    BY <1>0 DEF Reported, Early
  <2> QED BY <1>2, <1>3, <2>1, <2>6, <2>7 DEF Reported
<1>5. CASE Write(r)
  <2>1. /\ pc[r] = "write" /\ pc'[r] = "ack" /\ status' = status /\ attached[r] = shm[r]
        /\ out'[r] = Append(out[r], memory[shm[r]].data)
    BY <1>0, <1>5 DEF Write, Goto, Mem, Base, Places, Using, UsingPlaces
  <2>2. PICK s \in Senders : Linked(s, r)
    BY <2>1, SessionOfReceiver DEF Draining
  <2>3. /\ pos[s] = Len(out[r]) + 1 /\ Counted(out[r], s)
        /\ memory[shm[r]].data = [from |-> s, nr |-> Len(out[r]) + 1]
    BY <2>1, <2>2 DEF Linked
  <2>4. Len(out'[r]) = Len(out[r]) + 1 /\ Len(out[r]) \in Nat /\ Len(out[r]) < FileLen
    BY <1>0, <2>1, <2>3
  <2>5. Counted(out'[r], s)
    <3>1. out[r] \in Seq(Chunks) /\ memory[shm[r]].data \in Chunks
      BY <1>0, <2>1 DEF Base, Announced
    <3> QED BY <2>1, <2>3, <3>1 DEF Counted
  <2>6. status[r] # "ok"
    BY <1>0, <2>1 DEF SesInv, Ended
  <2>7. /\ \E t \in Senders : Len(out'[r]) <= FileLen /\ Counted(out'[r], t)
        /\ ~ (Early(r)' \/ pc'[r] \in {"shmat", "init", "open"})
        /\ status'[r] # "ok"
    BY <1>0, <2>1, <2>4, <2>5, <2>6 DEF Early, EarlyPlaces
  <2>8. \A q \in Receivers : q # r =>
        /\ \E t \in Senders : Len(out'[q]) <= FileLen /\ Counted(out'[q], t)
        /\ Early(q)' \/ pc'[q] \in {"shmat", "init", "open"} => out'[q] = << >>
        /\ status'[q] = "ok" => \E t \in Senders : Whole(out'[q], t)
    BY <1>0 DEF Reported, Early
  <2>9. \A t \in Senders, q \in Receivers : Whole(out[q], t) => Whole(out'[q], t)
    <3>1. \A t \in Senders : ~ Whole(out[r], t)
      BY <2>4 DEF Whole
    <3> QED BY <1>0, <3>1
  <2> QED BY <1>2, <1>3, <2>7, <2>8, <2>9 DEF Reported
<1> QED BY <1>4, <1>5

\* What has been written and reported stays right.
LEMMA ReportedStep ==
    ASSUME SemAssumption, SesInv, NoneAfter, [Next]_vars
    PROVE  Reported'
<1>1. CASE UNCHANGED vars
  BY <1>1 DEF SesInv, Reported, vars, Early
<1> QED BY <1>1, ReportedSender, ReportedReceiver, SomebodyActs DEF SesInv

-----------------------------------------------------------------------------
(* Sessions, as long as no receiver works after one that ended badly *)

\* The invariant of the sessions holds at the start.
LEMMA SesInvInit ==
    ASSUME SemAssumption, Senders # {}, Init, firstId = 1
    PROVE  SesInv
<1>1. Base
  BY BaseInit
<1>2. /\ \A s \in Senders : s \in Processes /\ pc[s] = "shmget" /\ pos[s] = 0 /\ status[s] = "running"
      /\ \A r \in Receivers : r \in Processes /\ pc[r] = "lock" /\ out[r] = << >> /\ status[r] = "running"
      /\ \A p \in Processes : pc[p] \in {"shmget", "lock"} /\ status[p] = "running"
      /\ \A g \in Segments : memory[g].rcv_state = "NOT_DONE"
      /\ sem[SND_MUTEX] = 0 /\ FileLen \in Nat
  BY Numbers DEF Init, SemAssumption, Processes
<1>3. Between
  BY <1>2 DEF Between, Over, Joined, Opened
<1>4. Reported
  BY <1>2 DEF Reported, Counted, Early, EarlyPlaces
<1>5. Ready /\ Ended
  BY <1>2 DEF Ready, Ended
<1> QED BY <1>1, <1>3, <1>4, <1>5 DEF SesInv, Phases

\* And no step leaves it, as long as NoneAfter holds before and after.
LEMMA SesInvStep ==
    ASSUME SemAssumption, SesInv, NoneAfter, NoneAfter', [Next]_vars
    PROVE  SesInv'
<1>1. Base'
  BY BaseStep DEF SesInv
<1>2. Ended'
  BY EndedStep DEF SesInv
<1> QED BY <1>1, <1>2, PhasesStep, ReadyStep, ReportedStep DEF SesInv

\* Two places are never taken by different senders, or receivers: so the sets of
\* those who fill and drain the memory have at most one member each.
LEMMA AtMostOne ==
    ASSUME NEW S, \A a, b \in S : a = b
    PROVE  IsFiniteSet(S) /\ Cardinality(S) = Bit(S # {}) /\ Cardinality(S) <= 1
<1>1. CASE S = {}
  BY <1>1, FS_EmptySet DEF Bit
<1>2. CASE S # {}
  <2>1. PICK a \in S : S = {a}
    BY <1>2
  <2>2. IsFiniteSet({a}) /\ Cardinality({a}) = 1
    BY FS_Singleton
  <2> QED BY <1>2, <2>1, <2>2 DEF Bit
<1> QED BY <1>1, <1>2

\* The sum that OneHand bounds, while r has its session open.
LEMMA InOneHand ==
    ASSUME SesInv, NoneAfter, NEW r \in Receivers, Opened(r)
    PROVE  /\ sem[MEMORY] + sem[DATA] + Cardinality({s \in Senders : Filling(s)})
                  + Cardinality({q \in Receivers : Draining(q)}) <= 1
<1> DEFINE F == {s \in Senders : Filling(s)}
           D == {q \in Receivers : Draining(q)}
<1>1. /\ \A q \in Receivers : q # r => ~ Opened(q) /\ ~ Draining(q) /\ ~ Bad(q)
      /\ sem[MEMORY] \in Nat /\ sem[DATA] \in Nat
  BY Numbers
  DEF SesInv, Base, TypeOK, Locked, ReceiversExclude, NoneAfter, Active, Opened, Draining
<1>2. Cardinality(D) = Bit(Draining(r))
  <2>1. D # {} <=> Draining(r)
    BY <1>1
  <2>2. \A a, b \in D : a = b
    BY <1>1
  <2> HIDE DEF D
  <2> QED BY <2>1, <2>2, AtMostOne DEF Bit
<1>3. CASE Waiting(r)
  <2>1. F = {}
    BY <1>3 DEF Waiting, Over, Joined, Filling
  <2>2. Cardinality(F) = 0 /\ ~ Draining(r)
    BY <1>3, <2>1, FS_EmptySet DEF Waiting, Draining
  <2> QED BY <1>2, <1>3, <2>2 DEF Waiting, Bit
<1>4. ASSUME NEW s \in Senders, Session(s, r)
      PROVE  sem[MEMORY] + sem[DATA] + Cardinality(F) + Cardinality(D) <= 1
  <2>1. \A t \in Senders : t # s => ~ Filling(t)
    BY <1>4 DEF Session, Over, Joined, Filling
  <2>2. Cardinality(F) = Bit(Filling(s))
    <3>1. F # {} <=> Filling(s)
      BY <2>1
    <3>2. \A a, b \in F : a = b
      BY <2>1
    <3> HIDE DEF F
    <3> QED BY <3>1, <3>2, AtMostOne DEF Bit
  <2> QED BY <1>2, <1>4, <2>2 DEF Session
<1>5. Waiting(r) \/ \E s \in Senders : Session(s, r)
  <2>1. \A q \in Receivers : q # r => ~ Waiting(q) /\ \A s \in Senders : ~ Session(s, q)
    BY <1>1 DEF Waiting, Session, Opened
  <2>2. ~ Between
    BY DEF Between
  <2> QED BY <2>1, <2>2 DEF SesInv, Phases
<1> QED BY <1>3, <1>4, <1>5

\* A sequence of the first chunks of a file is a prefix of it.
LEMMA CountedIsPrefix ==
    ASSUME FileLen \in Nat, NEW s \in Senders, NEW c \in Seq(Chunks), Len(c) <= FileLen, Counted(c, s)
    PROVE  c = SubSeq(File(s), 1, Len(c)) /\ (Len(c) = FileLen => c = File(s))
<1>1. File(s) \in Seq(Chunks) /\ Len(File(s)) = FileLen
  <2>1. File(s) \in [1 .. FileLen -> Chunks]
    BY DEF File, Chunks
  <2> QED BY <2>1
<1>2. \A i \in 1 .. Len(c) : c[i] = File(s)[i]
  BY DEF Counted, File
<1>3. /\ Len(SubSeq(File(s), 1, Len(c))) = Len(c)
      /\ SubSeq(File(s), 1, Len(c)) \in Seq(Chunks)
      /\ \A i \in 1 .. Len(c) : SubSeq(File(s), 1, Len(c))[i] = File(s)[i]
  BY <1>1
<1>4. c = SubSeq(File(s), 1, Len(c))
  BY <1>2, <1>3, SeqEqual
<1>5. Len(c) = FileLen => c = File(s)
  BY <1>1, <1>2, SeqEqual
<1> QED BY <1>4, <1>5

\* What the invariant says of the three properties.
LEMMA SessionsRight ==
    ASSUME SemAssumption, SesInv, NoneAfter
    PROVE  OneHand /\ OutputIsPrefix /\ SuccessIsComplete
<1>0. TypeOK /\ FileLen \in Nat /\ out \in [Receivers -> Seq(Chunks)]
  BY DEF SesInv, Base, TypeOK, SemAssumption
<1>1. OneHand
  BY <1>0, InOneHand DEF OneHand
<1>2. OutputIsPrefix
  <2> SUFFICES ASSUME NEW r \in Receivers
               PROVE  \E s \in Senders : Len(out[r]) <= FileLen /\ out[r] = SubSeq(File(s), 1, Len(out[r]))
    BY DEF OutputIsPrefix
  <2>1. PICK s \in Senders : Len(out[r]) <= FileLen /\ Counted(out[r], s)
    BY DEF SesInv, Reported
  <2> QED BY <1>0, <2>1, CountedIsPrefix
<1>3. \A s \in Senders, r \in Receivers : Whole(out[r], s) => out[r] = File(s)
  BY <1>0, CountedIsPrefix DEF Whole
<1>4. SuccessIsComplete
  BY <1>3 DEF SuccessIsComplete, SesInv, Reported
<1> QED BY <1>1, <1>2, <1>4

\* Nothing goes wrong when nobody gets as far as writing anything.
LEMMA UnattachedRight ==
    ASSUME SemAssumption, Senders # {}, Unattached
    PROVE  OneHand /\ OutputIsPrefix /\ SuccessIsComplete
<1>1. TypeOK /\ \A r \in Receivers : ~ Opened(r)
  BY DEF Unattached, Opened
<1>2. OneHand
  BY <1>1 DEF OneHand
<1>3. OutputIsPrefix
  <2>1. FileLen \in Nat /\ \A r \in Receivers : out[r] = << >>
    BY DEF Unattached, SemAssumption
  <2>2. ASSUME NEW r \in Receivers, NEW s \in Senders
        PROVE  Len(out[r]) <= FileLen /\ out[r] = SubSeq(File(s), 1, Len(out[r]))
    <3>1. Counted(out[r], s) /\ Len(out[r]) <= FileLen
      BY <2>1 DEF Counted
    <3>2. out[r] \in Seq(Chunks)
      BY <1>1 DEF TypeOK
    <3> QED BY <3>1, <3>2, CountedIsPrefix
  <2> QED BY <2>2 DEF OutputIsPrefix
<1>4. SuccessIsComplete
  BY DEF SuccessIsComplete, Unattached, Processes
<1> QED BY <1>2, <1>3, <1>4

\* Whatever happens to the senders, and whichever of the reads and writes fail:
\* as long as no receiver works after another one failed or was killed, the
\* memory is in one hand (sender.c:56-105, receiver.c:62-113), each receiver
\* writes the beginning of one sender's file, and exit status 0 on either side
\* means that a file was written whole.
THEOREM SessionsTheorem ==
    ASSUME Senders # {}
    PROVE  Spec /\ []NoneAfter => [](OneHand /\ OutputIsPrefix /\ SuccessIsComplete)
<1> DEFINE I == SesInv \/ Unattached
<1>1. Init => I
  <2>1. Init => firstId \in {0, 1}
    BY DEF Init
  <2> QED BY <2>1, SemAssumption, SesInvInit, UnattachedInit
<1>2. I /\ NoneAfter /\ NoneAfter' /\ [Next]_vars => I'
  BY SemAssumption, SesInvStep, UnattachedStep
<1>3. I /\ NoneAfter => OneHand /\ OutputIsPrefix /\ SuccessIsComplete
  BY SemAssumption, SessionsRight, UnattachedRight
<1> HIDE DEF I
<1> QED BY <1>1, <1>2, <1>3, PTL DEF Spec

\* While nobody is killed and no I/O fails, no receiver ends badly.
LEMMA NobodyFails ==
    ASSUME SemAssumption, SesInv, NEW r \in Receivers, ~ Bad(r), NoneAfter, ReceiverActs(r),
           kills' = kills, ioErrors' = ioErrors
    PROVE  ~ Bad(r)'
<1>0. /\ TypeOK /\ Base /\ r \in Processes /\ kills \in Nat /\ ioErrors \in Nat
      /\ status \in [Processes -> {"running", "ok", "failed", "killed", "crashed"}]
  BY DEF SesInv, Base, TypeOK, Processes, SemAssumption
<1>1. ~ Kill(r) /\ ~ WriteFails(r)
  BY <1>0 DEF Kill, Die, WriteFails
<1>2. ~ ShmAttachFails(r)
  BY <1>0 DEF ShmAttachFails, Alive, Return, Goto, Base, Places, KeyPlaces
<1>3. ~ SenderNotOk(r)
  <2> SUFFICES ASSUME SenderNotOk(r) PROVE FALSE
    OBVIOUS
  <2>1. pc[r] = "testSender" /\ memory[shm[r]].snd_state \in {"IOERROR", "NOT_DONE"}
    BY <1>0 DEF SenderNotOk, Return, Goto, Mem, Base, Places, Using, UsingPlaces
  <2>2. PICK s \in Senders : Linked(s, r)
    BY <2>1, SessionOfReceiver DEF Draining
  <2> QED BY <2>1, <2>2 DEF Linked, Opened
<1>4. status' = status \/ SenderEof(r)
  BY <1>1, <1>2, <1>3
  DEF ReceiverActs, ReceiverStep, LockReceivers, ZeroSemaphore, ShmGet, ShmAttach,
      InitMemory, Open, PData,
      SenderOk, Write, Acknowledge, ResetSender, VMemory, Cleanup, Exit
<1> QED BY <1>0, <1>4 DEF Bad, SenderEof, Return

Calm == kills = 0 /\ ioErrors = 0 => SesInv /\ \A r \in Receivers : ~ Bad(r)

\* While nobody is killed and no I/O fails the sessions are kept for any number of
\* receivers, because then none of them ends badly.
LEMMA CalmStep ==
    ASSUME SemAssumption, Base, Calm, [Next]_vars
    PROVE  Calm'
<1>1. SUFFICES ASSUME kills' = 0, ioErrors' = 0 PROVE SesInv' /\ \A r \in Receivers : ~ Bad(r)'
  BY DEF Calm
<1>2. /\ kills \in Nat /\ ioErrors \in Nat
      /\ kills' \in {kills, kills + 1} /\ ioErrors' \in {ioErrors, ioErrors + 1}
  <2>0. kills \in Nat /\ ioErrors \in Nat
    BY DEF Base, TypeOK, SemAssumption
  <2>1. CASE UNCHANGED vars
    BY <2>0, <2>1 DEF vars
  <2>2. ASSUME NEW s \in Senders, SenderActs(s)
        PROVE  kills' \in {kills, kills + 1} /\ ioErrors' \in {ioErrors, ioErrors + 1}
    BY <2>2
    DEF SenderActs, SenderStep, ShmGet, ShmAttach, ShmAttachFails, Join, PMemory,
        ReceiverOk,
        ReceiverNotOk, Read, ReadFails, ResetReceiver, VData, TestEof, Cleanup, Exit, Kill, Die
  <2>3. ASSUME NEW r \in Receivers, ReceiverActs(r)
        PROVE  kills' \in {kills, kills + 1} /\ ioErrors' \in {ioErrors, ioErrors + 1}
    BY <2>3
    DEF ReceiverActs, ReceiverStep, ShmGet, ShmAttach, ShmAttachFails, LockReceivers,
        ZeroSemaphore,
        InitMemory, Open, PData, SenderOk, SenderEof, SenderNotOk, Write, WriteFails, Acknowledge,
        ResetSender, VMemory, Cleanup, Exit, Kill, Die
  <2> QED BY <2>0, <2>1, <2>2, <2>3, SomebodyActs
<1>3. kills' = kills /\ ioErrors' = ioErrors /\ kills = 0 /\ ioErrors = 0
  BY <1>1, <1>2
<1>4. SesInv /\ NoneAfter /\ \A r \in Receivers : ~ Bad(r)
  BY <1>3 DEF Calm, NoneAfter
<1>5. ASSUME NEW r \in Receivers PROVE ~ Bad(r)'
  <2>1. CASE UNCHANGED vars
    BY <1>4, <2>1 DEF vars, Bad
  <2>2. ASSUME NEW s \in Senders, SenderActs(s) PROVE ~ Bad(r)'
    <3>1. status'[r] = status[r]
      BY <2>2, SenderFrame DEF Base, Others, Processes, SemAssumption
    <3> QED BY <1>4, <3>1 DEF Bad
  <2>3. ASSUME NEW q \in Receivers, ReceiverActs(q) PROVE ~ Bad(r)'
    <3>1. CASE q = r
      BY <1>3, <1>4, <2>3, <3>1, NobodyFails
    <3>2. CASE q # r
      <4>1. status'[r] = status[r]
        BY <2>3, <3>2, ReceiverFrame DEF Base, Others, Processes
      <4> QED BY <1>4, <4>1 DEF Bad
    <3> QED BY <3>1, <3>2
  <2> QED BY <2>1, <2>2, <2>3, SomebodyActs
<1>6. NoneAfter'
  BY <1>5 DEF NoneAfter
<1> QED BY <1>4, <1>5, <1>6, SesInvStep

\* Any number of senders and receivers: receivers exclude one another whoever
\* dies, and while nobody is killed and no I/O fails the sessions that follow
\* one another on the same semaphores (receiver.c:41-63) do not disturb each
\* other.
THEOREM SessionsApartTheorem ==
    ASSUME Senders # {}
    PROVE  Spec => []SessionsApart
<1> DEFINE I == (Base /\ Calm) \/ Unattached
<1>1. Init => I
  <2> SUFFICES ASSUME Init, firstId = 1 PROVE Base /\ Calm
    BY SemAssumption, UnattachedInit DEF Init
  <2>1. \A r \in Receivers : ~ Bad(r)
    BY DEF Init, Bad, Processes
  <2> QED BY <2>1, BaseInit, SesInvInit, SemAssumption DEF Calm
<1>2. I /\ [Next]_vars => I'
  BY SemAssumption, BaseStep, CalmStep, UnattachedStep
<1>3. ReceiversExclude /\ I => SessionsApart
  BY SemAssumption, SessionsRight, UnattachedRight DEF Calm, SessionsApart, NoneAfter
<1> HIDE DEF I
<1> QED BY <1>1, <1>2, <1>3, Exclusion, PTL DEF Spec

-----------------------------------------------------------------------------
(* One receiver *)

OneReceiver == \A r, q \in Receivers : r = q

\* With one receiver, which may be killed as well as any sender, at any step,
\* and for which read() and write() may fail: the memory is in one hand.
THEOREM OneHandTheorem ==
    ASSUME Senders # {}, OneReceiver
    PROVE  Spec => []OneHand
<1>1. NoneAfter
  BY DEF OneReceiver, NoneAfter
<1>2. OneHand /\ OutputIsPrefix /\ SuccessIsComplete => OneHand
  OBVIOUS
<1> QED BY <1>1, <1>2, SessionsTheorem, PTL

\* And what the receiver writes is the beginning of one sender's file: no chunk
\* is lost, doubled, reordered or mixed with those of another file.
THEOREM PrefixTheorem ==
    ASSUME Senders # {}, OneReceiver
    PROVE  Spec => []OutputIsPrefix
<1>1. NoneAfter
  BY DEF OneReceiver, NoneAfter
<1>2. OneHand /\ OutputIsPrefix /\ SuccessIsComplete => OutputIsPrefix
  OBVIOUS
<1> QED BY <1>1, <1>2, SessionsTheorem, PTL

\* And exit status 0, of either side, means that the whole file was written.
THEOREM SuccessTheorem ==
    ASSUME Senders # {}, OneReceiver
    PROVE  Spec => []SuccessIsComplete
<1>1. NoneAfter
  BY DEF OneReceiver, NoneAfter
<1>2. OneHand /\ OutputIsPrefix /\ SuccessIsComplete => SuccessIsComplete
  OBVIOUS
<1> QED BY <1>1, <1>2, SessionsTheorem, PTL

\* SND_MUTEX is raised once, and whoever takes it is the only one.
BeforeOpen(r) == Early(r) \/ pc[r] \in {"shmat", "init", "open"}
NobodyJoined == \A s \in Senders : ~ Joined(s)
MutexInv ==
    /\ sem[SND_MUTEX] <= 1
    /\ sem[SND_MUTEX] = 1 => NobodyJoined
    /\ \A s, t \in Senders : Joined(s) /\ Joined(t) => s = t
    /\ \A r \in Receivers : BeforeOpen(r) => sem[SND_MUTEX] = 0 /\ NobodyJoined

\* A sender that joins is the first one and the last.
LEMMA MutexSender ==
    ASSUME SemAssumption, Base, MutexInv, NEW s \in Senders, SenderActs(s)
    PROVE  MutexInv'
<1>0. /\ TypeOK /\ Sems /\ s \in Processes /\ sem \in [Semaphores -> Nat]
      /\ \A r \in Receivers : pc'[r] = pc[r]
      /\ \A t \in Senders : t # s => pc'[t] = pc[t]
      /\ pc \in [Processes -> SenderPlaces \cup ReceiverPlaces]
  <2>1. TypeOK /\ Others(s)
    BY SenderFrame DEF Base
  <2>2. Sems
    BY <2>1 DEF TypeOK, Sems
  <2> QED BY <2>1, <2>2 DEF TypeOK, Processes, SemAssumption, Others
<1>1. \A r \in Receivers : BeforeOpen(r)' <=> BeforeOpen(r)
  BY <1>0 DEF BeforeOpen, Early
<1>2. CASE Join(s)
  <2>1. sem[SND_MUTEX] = 1 /\ sem'[SND_MUTEX] = 0 /\ NobodyJoined
    BY <1>0, <1>2, SenderOperations, Numbers DEF Takes, MutexInv
  <2>2. \A t \in Senders : t # s => ~ Joined(t)'
    BY <1>0, <2>1 DEF NobodyJoined, Joined
  <2>3. \A r \in Receivers : ~ BeforeOpen(r)
    BY <2>1 DEF MutexInv
  <2> QED BY <1>1, <2>1, <2>2, <2>3 DEF MutexInv
<1>3. CASE ~ Join(s)
  <2>1. sem'[SND_MUTEX] = sem[SND_MUTEX]
    <3>1. CASE PMemory(s) \/ VData(s)
      BY <1>0, <3>1, SenderOperations, Numbers DEF Takes, Gives
    <3>2. CASE Exit(s) \/ Kill(s)
      BY <3>2, NothingUndone
    <3>3. CASE ~ (PMemory(s) \/ VData(s) \/ Exit(s) \/ Kill(s))
      BY <1>3, <3>3
      DEF SenderActs, SenderStep, ShmGet, ShmAttach, ShmAttachFails, ReceiverOk,
          ReceiverNotOk,
          Read, ReadFails, ResetReceiver, TestEof, Cleanup, semVars
    <3> QED BY <3>1, <3>2, <3>3
  <2>2. Joined(s)' => Joined(s)
    BY <1>0, <1>3
    DEF SenderActs, SenderStep, ShmGet, ShmAttach, ShmAttachFails, PMemory, ReceiverOk,
        ReceiverNotOk,
        Read, ReadFails, ResetReceiver, VData, TestEof, Cleanup, Exit, Kill, Die, Goto, Return, Joined
  <2>3. \A t \in Senders : Joined(t)' => Joined(t)
    BY <1>0, <2>2 DEF Joined
  <2> QED BY <1>1, <2>1, <2>3 DEF MutexInv, NobodyJoined
<1> QED BY <1>2, <1>3

\* The one receiver raises SND_MUTEX once.
LEMMA MutexReceiver ==
    ASSUME SemAssumption, Base, OneReceiver, MutexInv, NEW r \in Receivers, ReceiverActs(r)
    PROVE  MutexInv'
<1>0. /\ TypeOK /\ Sems /\ r \in Processes /\ sem \in [Semaphores -> Nat]
      /\ \A t \in Senders : pc'[t] = pc[t]
      /\ pc \in [Processes -> SenderPlaces \cup ReceiverPlaces]
      /\ \A q \in Receivers : q = r
  <2>1. TypeOK /\ Others(r)
    BY ReceiverFrame DEF Base
  <2>2. Sems
    BY <2>1 DEF TypeOK, Sems
  <2> QED BY <2>1, <2>2 DEF TypeOK, Processes, SemAssumption, Others, OneReceiver
<1>1. \A t \in Senders : Joined(t)' <=> Joined(t)
  BY <1>0 DEF Joined
<1>2. \A i \in 1 .. 3 : /\ <<"zero1", "zero2", "zero3">>[i] \in {"zero1", "zero2", "zero3"}
                        /\ <<"zero2", "zero3", "shmget">>[i] \in {"zero2", "zero3", "shmget"}
  OBVIOUS
<1>3. CASE Open(r)
  <2>1. BeforeOpen(r) /\ ~ BeforeOpen(r)'
    BY <1>0, <1>3 DEF Open, Goto, BeforeOpen, Early, EarlyPlaces
  <2>2. sem'[SND_MUTEX] = 1
    BY <1>0, <1>3, <2>1, ReceiverOperations, Numbers DEF MutexInv
  <2> QED BY <1>0, <1>1, <2>1, <2>2 DEF MutexInv, NobodyJoined
<1>4. CASE ~ Open(r)
  <2>1. BeforeOpen(r)' => BeforeOpen(r)
    <3>1. CASE \E i \in 1 .. 3 : ZeroSemaphore(r, i)
      BY <1>2, <3>1 DEF ZeroSemaphore, Goto, BeforeOpen, Early, EarlyPlaces
    <3>2. CASE ~ \E i \in 1 .. 3 : ZeroSemaphore(r, i)
      BY <1>0, <1>4, <3>2
      DEF ReceiverActs, ReceiverStep, LockReceivers, ShmGet, ShmAttach, ShmAttachFails,
          InitMemory, PData, SenderOk, SenderEof, SenderNotOk, Write, WriteFails, Acknowledge,
          ResetSender, VMemory, Cleanup, Exit, Kill, Die, Goto, Return, BeforeOpen, Early, EarlyPlaces
    <3> QED BY <3>1, <3>2
  <2>2. sem'[SND_MUTEX] \in {0, sem[SND_MUTEX], sem[SND_MUTEX] - 1} /\ sem'[SND_MUTEX] \in Nat
    <3>1. CASE LockReceivers(r) \/ PData(r) \/ VMemory(r)
      BY <1>0, <3>1, ReceiverOperations, Numbers DEF Takes, Gives
    <3>2. CASE Exit(r) \/ Kill(r)
      <4>1. sem' = Undo(sem, adj[r]) /\ adj[r][SND_MUTEX] \in {0, 0 - 1}
        BY <3>2 DEF Exit, Kill, Die, Base, Locked
      <4> QED BY <1>0, <4>1, Undone, Numbers
    <3>3. ASSUME NEW i \in 1 .. 3, ZeroSemaphore(r, i)
          PROVE  sem'[SND_MUTEX] \in {0, sem[SND_MUTEX]}
      BY <1>0, <3>3, Numbers DEF ZeroSemaphore
    <3>4. CASE ~ (LockReceivers(r) \/ PData(r) \/ VMemory(r) \/ Exit(r) \/ Kill(r)
                   \/ \E i \in 1 .. 3 : ZeroSemaphore(r, i))
      <4>1. sem' = sem
        BY <1>4, <3>4
        DEF ReceiverActs, ReceiverStep, ShmGet, ShmAttach, ShmAttachFails,
            InitMemory, SenderOk, SenderEof, SenderNotOk, Write, WriteFails, Acknowledge,
            ResetSender, Cleanup, semVars
      <4> QED BY <1>0, <4>1, Numbers
    <3> QED BY <1>0, <3>1, <3>2, <3>3, <3>4, Numbers
  <2> QED BY <1>0, <1>1, <2>1, <2>2, Numbers DEF MutexInv, NobodyJoined
<1> QED BY <1>3, <1>4

\* And whoever took SND_MUTEX (sender.c:56) keeps the other senders out.
THEOREM SendersTheorem ==
    ASSUME OneReceiver
    PROVE  Spec => []SendersExclude
<1> DEFINE I == (Base /\ MutexInv) \/ Unattached
<1>1. Init => MutexInv
  <2> SUFFICES ASSUME Init PROVE MutexInv
    OBVIOUS
  <2>1. sem[SND_MUTEX] = 0 /\ NobodyJoined
    BY Numbers, SemAssumption DEF Init, NobodyJoined, Joined, Processes
  <2> QED BY <2>1 DEF MutexInv, NobodyJoined
<1>2. Base /\ MutexInv /\ [Next]_vars => MutexInv'
  <2> SUFFICES ASSUME Base, MutexInv, [Next]_vars PROVE MutexInv'
    OBVIOUS
  <2>1. CASE UNCHANGED vars
    BY <2>1 DEF vars, MutexInv, NobodyJoined, Joined, BeforeOpen, Early
  <2> QED BY <2>1, SemAssumption, SomebodyActs, MutexSender, MutexReceiver
<1>3. Init => I
  <2>1. Init => firstId \in {0, 1}
    BY DEF Init
  <2> QED BY <1>1, <2>1, BaseInit, UnattachedInit, SemAssumption
<1>4. I /\ [Next]_vars => I'
  BY <1>2, BaseStep, UnattachedStep, SemAssumption
<1>5. MutexInv \/ Unattached => SendersExclude
  <2> DEFINE S == {s \in Senders : Joined(s)}
  <2> SUFFICES ASSUME MutexInv \/ Unattached PROVE Cardinality(S) <= 1
    BY DEF SendersExclude
  <2>1. \A a, b \in S : a = b
    BY DEF MutexInv, Unattached, Joined
  <2> HIDE DEF S
  <2> QED BY <2>1, AtMostOne
<1>6. I => SendersExclude
  BY <1>5
<1> HIDE DEF I
<1> QED BY <1>3, <1>4, <1>6, PTL DEF Spec
=============================================================================

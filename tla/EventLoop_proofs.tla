--------------------------- MODULE EventLoop_proofs ---------------------------
(***************************************************************************)
(* Theorems about EventLoop, for any number of children (at least three),  *)
(* any file, sizes of pipes and buffers, and any number of children killed *)
(* from outside.                                                           *)
(*                                                                         *)
(* LoopInv joins the types, what is known of ends that are closed          *)
(* (Chained), what a turn of the loop may rely on although the children go *)
(* on (TurnInv), and where each piece of the file is (Placed).             *)
(*                                                                         *)
(* What holds along the whole chain is proved by a least counterexample:   *)
(* the first buffer for which it fails has one before it for which it      *)
(* fails, too (LeastNatural).                                              *)
(***************************************************************************)
EXTENDS EventLoop, SequenceTheorems, WellFoundedInduction, TLAPS

\* The child's descriptors are closed; a turn of the loop is under way.
Dead(c) == child[c] \in {"closed", "gone"}
InTurn == parent \in {"write", "read", "close"}

-----------------------------------------------------------------------------
(* The invariant *)

\* What is known of a child that ended, and of ends that are closed.
Chained ==
    /\ \A c \in Children :
          /\ child[c] = "read" => held[c] = << >>
          /\ Dead(c) /\ c \notin killed =>
                ~ wrOpen[c] /\ toChild[c] = << >> /\ held[c] = << >>
    /\ \A b \in Buffers :
          /\ ~ wrOpen[b] => ~ rdOpen[b] /\ buf[b] = << >>
          /\ ~ rdOpen[b] => IF b = 0 THEN unread = << >>
                            ELSE fromChild[b - 1] = << >> /\ Dead(b - 1)
    /\ parent \in {"wait", "write", "read", "close"} => wrOpen[ChildNr]
    /\ parent \in {"waiting", "ok"} => ~ wrOpen[ChildNr]

BufferEvent == [buf : Buffers, rd : SUBSET {"IN", "HUP", "FAKE"},
                wr : SUBSET {"OUT", "ERR", "FAKE"}]

\* The last buffer has two buffer events, with that of the first in between.
Apart(evs) ==
    /\ Len(evs) = 3
    /\ evs[1].buf = ChildNr /\ evs[1].wr = {}
    /\ evs[2].buf = 0 /\ evs[2].rd # {}
    /\ evs[3].buf = ChildNr /\ evs[3].rd = {}

\* The buffer events that epoll_wait() leads to.
Coalesced(evs) ==
    /\ evs \in Seq(BufferEvent) /\ Len(evs) >= 1
    /\ \A i \in 1 .. Len(evs) :
          /\ evs[i].rd # {} \/ evs[i].wr # {}
          /\ "FAKE" \in evs[i].wr => evs[i].buf = ChildNr
          /\ "FAKE" \in evs[i].rd => evs[i].buf = 0
          /\ "IN" \in evs[i].rd => evs[i].buf # 0
          /\ evs[i].buf = ChildNr /\ "FAKE" \notin evs[i].wr => Apart(evs) /\ i = 1
    /\ \A i, j \in 1 .. Len(evs) : i < j /\ evs[i].buf = evs[j].buf => Apart(evs) /\ i = 1 /\ j = 3

\* What they say of the descriptors, while these are used.
Current(i) ==
    LET b == bes[i].buf IN
    /\ parent \in {"write", "read"} \/ i >= at =>
          /\ bes[i].rd # {} => rdOpen[b]
          /\ bes[i].wr # {} => wrOpen[b]
    /\ "HUP" \in bes[i].rd =>
          IF b = 0 THEN unread = << >>
          ELSE Dead(b - 1) /\ ("IN" \notin bes[i].rd => fromChild[b - 1] = << >>)
    /\ "ERR" \in bes[i].wr => killed # {}
    /\ parent \in {"write", "read"} /\ i <= at /\ "IN" \in bes[i].rd => fromChild[b - 1] # << >>

TurnInv ==
    InTurn => /\ Coalesced(bes) /\ at \in 1 .. Len(bes)
              /\ \A i \in 1 .. Len(bes) : Current(i)

\* s holds the pieces after lo up to hi.
Seg(s, lo, hi) ==
    /\ lo \in Nat /\ hi \in Nat /\ lo <= hi
    /\ s = [i \in 1 .. hi - lo |-> lo + i]

\* The cuts between what is in the places: a buffer from A to B, a pipe back
\* from the B of the next buffer to F, a child's hands from F to H, a pipe to a
\* child from H to A.
Cuts(A, B, F, H) ==
    /\ Seg(output, 0, A[ChildNr])
    /\ \A b \in Buffers : Seg(buf[b], A[b], B[b])
    /\ \A c \in Children : /\ Seg(fromChild[c], B[c + 1], F[c])
                           /\ Seg(held[c], F[c], H[c])
                           /\ Seg(toChild[c], H[c], A[c])
    /\ Seg(unread, B[0], FileLen)

\* There are such cuts.
Placed == \E A, B \in [Buffers -> Nat], F, H \in [Children -> Nat] : Cuts(A, B, F, H)

\* The invariant.
LoopInv == TypeOK /\ Chained /\ TurnInv /\ NoErrors /\ Placed

\* Short sequences, element by element.
LEMMA Tuples3 ==
    ASSUME NEW x, NEW y, NEW z
    PROVE  /\ Append(<<x>>, y) = <<x, y>>
           /\ Append(<<x, y>>, z) = <<x, y, z>>
           /\ <<x>> \o << >> \o <<z>> = <<x, z>>
           /\ <<x>> \o <<y>> \o <<z>> = <<x, y, z>>
           /\ Len(<<x>>) = 1 /\ <<x>>[1] = x
           /\ Len(<<x, y>>) = 2 /\ <<x, y>>[1] = x /\ <<x, y>>[2] = y
           /\ Len(<<x, y, z>>) = 3 /\ <<x, y, z>>[1] = x /\ <<x, y, z>>[2] = y /\ <<x, y, z>>[3] = z
<1> DEFINE S == {x, y, z}
<1>1. <<x>> \in Seq(S) /\ <<x, y>> \in Seq(S) /\ <<z>> \in Seq(S) /\ <<y>> \in Seq(S)
      /\ <<x, y, z>> \in Seq(S) /\ <<x, z>> \in Seq(S) /\ << >> \in Seq(S)
    OBVIOUS
<1>2. Len(<<x>>) = 1 /\ <<x>>[1] = x
    OBVIOUS
<1>3. Len(<<x, y>>) = 2 /\ <<x, y>>[1] = x /\ <<x, y>>[2] = y
    OBVIOUS
<1>4. Len(<<x, y, z>>) = 3 /\ <<x, y, z>>[1] = x /\ <<x, y, z>>[2] = y /\ <<x, y, z>>[3] = z
    OBVIOUS
<1>11. ASSUME NEW s \in Seq(S), NEW t \in Seq(S), Len(s) = 2, Len(t) = 2, s[1] = t[1], s[2] = t[2]
      PROVE  s = t
    <2>1. \A i \in 1 .. Len(s) : s[i] = t[i]
        <3>1. 1 .. 2 = {1, 2}
            OBVIOUS
        <3> QED  BY <1>11, <3>1
    <2> HIDE DEF S
    <2> QED  BY <1>11, <2>1, SeqEqual
<1>12. ASSUME NEW s \in Seq(S), NEW t \in Seq(S), Len(s) = 3, Len(t) = 3,
             s[1] = t[1], s[2] = t[2], s[3] = t[3]
      PROVE  s = t
    <2>1. \A i \in 1 .. Len(s) : s[i] = t[i]
        <3>1. 1 .. 3 = {1, 2, 3}
            OBVIOUS
        <3> QED  BY <1>12, <3>1
    <2> HIDE DEF S
    <2> QED  BY <1>12, <2>1, SeqEqual
<1>13. x \in S /\ y \in S /\ z \in S
    OBVIOUS
<1> HIDE DEF S
<1>5. Append(<<x>>, y) = <<x, y>>
    <2>1. Append(<<x>>, y) \in Seq(S) /\ Len(Append(<<x>>, y)) = 2
          /\ Append(<<x>>, y)[1] = x /\ Append(<<x>>, y)[2] = y
        BY <1>1, <1>2, <1>13, AppendProperties
    <2> QED  BY <1>11, <1>1, <1>3, <2>1
<1>6. Append(<<x, y>>, z) = <<x, y, z>>
    <2>1. Append(<<x, y>>, z) \in Seq(S) /\ Len(Append(<<x, y>>, z)) = 3
          /\ Append(<<x, y>>, z)[1] = x /\ Append(<<x, y>>, z)[2] = y /\ Append(<<x, y>>, z)[3] = z
        BY <1>1, <1>3, <1>13, AppendProperties
    <2> QED  BY <1>12, <1>1, <1>4, <2>1
<1>10. Append(<<x>>, z) = <<x, z>>
    <2>1. Append(<<x>>, z) \in Seq(S) /\ Len(Append(<<x>>, z)) = 2
          /\ Append(<<x>>, z)[1] = x /\ Append(<<x>>, z)[2] = z
        BY <1>1, <1>2, <1>13, AppendProperties
    <2>2. Len(<<x, z>>) = 2 /\ <<x, z>>[1] = x /\ <<x, z>>[2] = z
        OBVIOUS
    <2> QED  BY <1>11, <1>1, <2>1, <2>2
<1>7. <<x>> \o << >> \o <<z>> = <<x, z>>
    <2>1. <<x>> \o << >> = <<x>>
        BY <1>1, ConcatEmptySeq
    <2>2. <<x>> \o <<z>> = Append(<<x>>, z)
        BY <1>1, <1>13, AppendIsConcat
    <2> QED  BY <2>1, <2>2, <1>10
<1>8. <<x>> \o <<y>> \o <<z>> = <<x, y, z>>
    <2>1. <<x>> \o <<y>> = <<x, y>>
        BY <1>1, <1>13, <1>5, AppendIsConcat
    <2>2. <<x, y>> \o <<z>> = <<x, y, z>>
        BY <1>1, <1>13, <1>6, AppendIsConcat
    <2> QED  BY <2>1, <2>2
<1> QED  BY <1>2, <1>3, <1>4, <1>5, <1>6, <1>7, <1>8

\* The same for all elements at once.
LEMMA Tuples ==
    /\ \A x : Len(<<x>>) = 1 /\ <<x>>[1] = x
    /\ \A x, y : /\ Append(<<x>>, y) = <<x, y>>
                 /\ <<x>> \o << >> \o <<y>> = <<x, y>>
                 /\ Len(<<x, y>>) = 2 /\ <<x, y>>[1] = x /\ <<x, y>>[2] = y
    /\ \A x, y, z : /\ Append(<<x, y>>, z) = <<x, y, z>>
                    /\ <<x>> \o <<y>> \o <<z>> = <<x, y, z>>
                    /\ Len(<<x, y, z>>) = 3
                    /\ <<x, y, z>>[1] = x /\ <<x, y, z>>[2] = y /\ <<x, y, z>>[3] = z
<1>1. \A x : Len(<<x>>) = 1 /\ <<x>>[1] = x
    OBVIOUS
<1>2. ASSUME NEW x, NEW y
      PROVE  /\ Append(<<x>>, y) = <<x, y>>
             /\ <<x>> \o << >> \o <<y>> = <<x, y>>
             /\ Len(<<x, y>>) = 2 /\ <<x, y>>[1] = x /\ <<x, y>>[2] = y
    <2>1. /\ Append(<<x>>, y) = <<x, y>>
          /\ <<x>> \o << >> \o <<y>> = <<x, y>>
        BY Tuples3, Zenon
    <2> QED  BY <2>1
<1>3. ASSUME NEW x, NEW y, NEW z
      PROVE  /\ Append(<<x, y>>, z) = <<x, y, z>>
             /\ <<x>> \o <<y>> \o <<z>> = <<x, y, z>>
             /\ Len(<<x, y, z>>) = 3
             /\ <<x, y, z>>[1] = x /\ <<x, y, z>>[2] = y /\ <<x, y, z>>[3] = z
    BY Tuples3
<1> QED  BY <1>1, <1>2, <1>3, Zenon

\* An event about another buffer than the last one is added.
LEMMA MergeNew ==
    ASSUME NEW b, NEW F
    PROVE  LET r == [buf |-> b, rd |-> F, wr |-> {}]
               t == [buf |-> b, rd |-> {}, wr |-> F]
           IN  /\ Merge(<< >>, Event(b, "rd", F)) = << r >>
               /\ Merge(<< >>, Event(b, "wr", F)) = << t >>
               /\ \A v : v.buf # b => /\ Merge(<<v>>, Event(b, "rd", F)) = <<v, r>>
                                      /\ Merge(<<v>>, Event(b, "wr", F)) = <<v, t>>
               /\ \A w, v : v.buf # b => Merge(<<w, v>>, Event(b, "wr", F)) = <<w, v, t>>
<1> DEFINE r == [buf |-> b, rd |-> F, wr |-> {}]
           t == [buf |-> b, rd |-> {}, wr |-> F]
<1>1. ASSUME NEW done, done = << >> \/ done[Len(done)].buf # b
      PROVE  /\ Merge(done, Event(b, "rd", F)) = Append(done, r)
             /\ Merge(done, Event(b, "wr", F)) = Append(done, t)
    BY <1>1 DEF Merge, Event
<1> HIDE DEF r, t
<1>2. Append(<< >>, r) = <<r>> /\ Append(<< >>, t) = <<t>>
    OBVIOUS
<1>3. /\ Merge(<< >>, Event(b, "rd", F)) = <<r>>
      /\ Merge(<< >>, Event(b, "wr", F)) = <<t>>
    BY <1>1, <1>2
<1>4. ASSUME NEW v, v.buf # b
      PROVE  /\ Merge(<<v>>, Event(b, "rd", F)) = <<v, r>>
             /\ Merge(<<v>>, Event(b, "wr", F)) = <<v, t>>
    <2>1. Append(<<v>>, r) = <<v, r>> /\ Append(<<v>>, t) = <<v, t>> /\ Len(<<v>>) = 1 /\ <<v>>[1] = v
        BY Tuples
    <2>2. <<v>>[Len(<<v>>)].buf # b
        BY <2>1, <1>4
    <2> QED  BY <1>1, <2>1, <2>2
<1>5. ASSUME NEW w, NEW v, v.buf # b
      PROVE  Merge(<<w, v>>, Event(b, "wr", F)) = <<w, v, t>>
    <2>1. Append(<<w, v>>, t) = <<w, v, t>> /\ Len(<<w, v>>) = 2 /\ <<w, v>>[2] = v
        BY Tuples
    <2>2. <<w, v>>[Len(<<w, v>>)].buf # b
        BY <2>1, <1>5
    <2> QED  BY <1>1, <2>1, <2>2
<1> QED  BY <1>3, <1>4, <1>5 DEF r, t

\* One about the same buffer joins it.
LEMMA MergeOld ==
    /\ \A b, F, G : Merge(<<[buf |-> b, rd |-> {}, wr |-> G]>>, Event(b, "rd", F))
                      = <<[buf |-> b, rd |-> F, wr |-> G]>>
    /\ \A b, F, G : Merge(<<[buf |-> b, rd |-> G, wr |-> {}]>>, Event(b, "wr", F))
                      = <<[buf |-> b, rd |-> G, wr |-> F]>>
BY DEF Merge, Event

\* The recursion of Coalesce has a solution, so that it can be unrolled; there
\* are two or three events.
LEMMA CoalesceUnrolled ==
    ASSUME NEW e, Len(Events(e)) \in 2 .. 3
    PROVE  LET m1 == Merge(<< >>, Events(e)[1])
               m2 == Merge(m1, Events(e)[2])
               m3 == Merge(m2, Events(e)[3])
           IN  /\ Len(Events(e)) = 2 => Coalesce(e) = m2
               /\ Len(Events(e)) = 3 => Coalesce(e) = m3
<1> DEFINE E == Events(e)
           m1 == Merge(<< >>, E[1])
           m2 == Merge(m1, E[2])
           m3 == Merge(m2, E[3])
           L == Len(E)
           Is(f) == f = [n \in 0 .. L |-> IF n = 0 THEN << >> ELSE Merge(f[n - 1], E[n])]
<1>1. Coalesce(e) = (CHOOSE f : Is(f))[L]
  BY DEF Coalesce
<1>2. L \in 2 .. 3
  OBVIOUS
<1> HIDE DEF L, E
<1>3. \E f : Is(f)
  <2> DEFINE f == [n \in 0 .. L |-> IF n = 0 THEN << >> ELSE IF n = 1 THEN m1
                                     ELSE IF n = 2 THEN m2 ELSE m3]
  <2>1. ASSUME NEW n \in 0 .. L
        PROVE  f[n] = IF n = 0 THEN << >> ELSE Merge(f[n - 1], E[n])
    <3>1. n \in {0, 1, 2, 3}
      BY <1>2
    <3>2. f[0] = << >>
      BY <1>2
    <3>3. f[1] = m1
      BY <1>2
    <3>4. f[2] = m2
      BY <1>2
    <3>5. n = 3 => f[3] = m3
      BY <1>2
    <3> HIDE DEF f
    <3> QED BY <3>1, <3>2, <3>3, <3>4, <3>5
  <2>2. Is(f)
    BY <2>1
  <2> HIDE DEF f
  <2> QED BY <2>2
<1>4. ASSUME NEW g, Is(g)
      PROVE  (L = 2 => g[L] = m2) /\ (L = 3 => g[L] = m3)
  <2>1. \A n \in 0 .. L : g[n] = IF n = 0 THEN << >> ELSE Merge(g[n - 1], E[n])
    BY <1>4
  <2>2. g[0] = << >> /\ g[1] = m1 /\ g[2] = m2
    BY <2>1, <1>2
  <2>3. L = 3 => g[3] = m3
    BY <2>1, <2>2
  <2> QED BY <2>2, <2>3
<1> DEFINE c == CHOOSE f : Is(f)
<1>5. Is(c)
  BY <1>3, Zenon
<1>6. (L = 2 => c[L] = m2) /\ (L = 3 => c[L] = m3)
  <2> HIDE DEF c, Is
  <2> QED BY <1>4, <1>5
<1>7. Coalesce(e) = c[L]
  BY <1>1
<1> HIDE DEF c, Is, m1, m2, m3
<1> QED BY <1>6, <1>7 DEF m1, m2, m3, L, E
\* What a turn starts with: the event of epoll_wait(), that of the input while
\* it is open, and that of the output.
LEMMA CoalesceForms ==
    ASSUME NEW e \in Polled, rdOpen \in [Buffers -> BOOLEAN], wrOpen[ChildNr]
    PROVE  LET b == e.buf
               F == Flags(e)
               one == IF e.side = "rd" THEN [buf |-> b, rd |-> F, wr |-> {}]
                                       ELSE [buf |-> b, rd |-> {}, wr |-> F]
               in == [buf |-> 0, rd |-> {"FAKE"}, wr |-> {}]
               out == [buf |-> ChildNr, rd |-> {}, wr |-> {"FAKE"}]
           IN  /\ ~ rdOpen[0] /\ b = ChildNr =>
                    Coalesce(e) = << [buf |-> ChildNr, rd |-> F, wr |-> {"FAKE"}] >>
               /\ ~ rdOpen[0] /\ b # ChildNr => Coalesce(e) = << one, out >>
               /\ rdOpen[0] /\ b = 0 => Coalesce(e) = << [buf |-> 0, rd |-> {"FAKE"}, wr |-> F], out >>
               /\ rdOpen[0] /\ b # 0 => Coalesce(e) = << one, in, out >>
<1> DEFINE b == e.buf
           F == Flags(e)
           one == IF e.side = "rd" THEN [buf |-> b, rd |-> F, wr |-> {}]
                                   ELSE [buf |-> b, rd |-> {}, wr |-> F]
           in == [buf |-> 0, rd |-> {"FAKE"}, wr |-> {}]
           out == [buf |-> ChildNr, rd |-> {}, wr |-> {"FAKE"}]
           ev1 == Event(b, e.side, F)
           evi == Event(0, "rd", {"FAKE"})
           evo == Event(ChildNr, "wr", {"FAKE"})
<1>1. /\ b \in 0 .. ChildNr /\ e.side \in {"rd", "wr"}
      /\ e.side = "rd" => b # 0
      /\ e.side = "wr" => b # ChildNr
      /\ ChildNr >= 3 /\ ChildNr \in Nat
    BY LoopAssumption DEF Polled, Children
<1>2. Merge(<< >>, ev1) = << one >>
    <2> HIDE DEF F, b
    <2>1. CASE e.side = "rd"
        BY <2>1, MergeNew
    <2>2. CASE e.side = "wr"
        BY <2>2, MergeNew
    <2> QED  BY <1>1, <2>1, <2>2
<1>0. ASSUME NEW x, NEW y, NEW z
      PROVE  <<x>> \o << >> \o <<z>> = <<x, z>> /\ <<x>> \o <<y>> \o <<z>> = <<x, y, z>>
    BY Tuples
<1>3. rdOpen[0] => Events(e) = <<ev1, evi, evo>>
    BY <1>0, Zenon DEF Events
<1>4. ~ rdOpen[0] => Events(e) = <<ev1, evo>>
    BY <1>0, Zenon DEF Events
<1> HIDE DEF ev1, evi, evo, b, F
<1>5. ASSUME ~ rdOpen[0]
      PROVE  Coalesce(e) = Merge(<< one >>, evo)
    <2> HIDE DEF one
    <2>1. Len(Events(e)) = 2 /\ Events(e)[1] = ev1 /\ Events(e)[2] = evo
        BY <1>4, <1>5, Tuples
    <2> QED  BY <1>2, <2>1, CoalesceUnrolled
<1>6. ASSUME rdOpen[0]
      PROVE  Coalesce(e) = Merge(Merge(<< one >>, evi), evo)
    <2> HIDE DEF one
    <2>1. Len(Events(e)) = 3 /\ Events(e)[1] = ev1 /\ Events(e)[2] = evi /\ Events(e)[3] = evo
        BY <1>3, <1>6, Tuples
    <2> QED  BY <1>2, <2>1, CoalesceUnrolled
<1>7. one.buf = b
    BY <1>1
<1>17. /\ \A v : v.buf # ChildNr => Merge(<<v>>, evo) = <<v, out>>
       /\ \A v, w : v.buf # ChildNr => Merge(<<w, v>>, evo) = <<w, v, out>>
       /\ \A v : v.buf # 0 => Merge(<<v>>, evi) = <<v, in>>
    BY MergeNew DEF evo, evi
<1>20. Merge(<< [buf |-> ChildNr, rd |-> F, wr |-> {}] >>, evo)
          = << [buf |-> ChildNr, rd |-> F, wr |-> {"FAKE"}] >>
    BY MergeOld DEF evo
<1>21. Merge(<< [buf |-> 0, rd |-> {}, wr |-> F] >>, evi)
          = << [buf |-> 0, rd |-> {"FAKE"}, wr |-> F] >>
    BY MergeOld DEF evi
<1>18. /\ Merge(<< [buf |-> ChildNr, rd |-> F, wr |-> {}] >>, evo)
            = << [buf |-> ChildNr, rd |-> F, wr |-> {"FAKE"}] >>
       /\ Merge(<< [buf |-> 0, rd |-> {}, wr |-> F] >>, evi)
            = << [buf |-> 0, rd |-> {"FAKE"}, wr |-> F] >>
    BY <1>20, <1>21, Zenon
<1>8. ASSUME b = ChildNr
      PROVE  Merge(<< one >>, evo) = << [buf |-> ChildNr, rd |-> F, wr |-> {"FAKE"}] >>
    <2>1. one = [buf |-> ChildNr, rd |-> F, wr |-> {}]
        BY <1>8, <1>1
    <2> QED  BY <2>1, <1>18
<1>10. ASSUME b = 0
       PROVE  Merge(<< one >>, evi) = << [buf |-> 0, rd |-> {"FAKE"}, wr |-> F] >>
    <2>1. one = [buf |-> 0, rd |-> {}, wr |-> F]
        BY <1>10, <1>1
    <2> QED  BY <2>1, <1>18
<1>19. in.buf # ChildNr /\ [buf |-> 0, rd |-> {"FAKE"}, wr |-> F].buf # ChildNr
    BY <1>1
<1>13. Merge(<< [buf |-> 0, rd |-> {"FAKE"}, wr |-> F] >>, evo)
         = << [buf |-> 0, rd |-> {"FAKE"}, wr |-> F], out >>
    BY <1>17, <1>19, Zenon
<1> HIDE DEF one, in, out
<1>9. ASSUME b # ChildNr
      PROVE  Merge(<< one >>, evo) = << one, out >>
    BY <1>9, <1>7, <1>17
<1>11. ASSUME b # 0
       PROVE  Merge(<< one >>, evi) = << one, in >>
    BY <1>11, <1>7, <1>17
<1>12. Merge(<< one, in >>, evo) = << one, in, out >>
    BY <1>17, <1>19
<1>14. /\ ~ rdOpen[0] /\ b = ChildNr =>
            Coalesce(e) = << [buf |-> ChildNr, rd |-> F, wr |-> {"FAKE"}] >>
       /\ ~ rdOpen[0] /\ b # ChildNr => Coalesce(e) = << one, out >>
    BY <1>5, <1>8, <1>9
<1>15. rdOpen[0] /\ b = 0 => Coalesce(e) = << [buf |-> 0, rd |-> {"FAKE"}, wr |-> F], out >>
    BY <1>6, <1>10, <1>13
<1>16. rdOpen[0] /\ b # 0 => Coalesce(e) = << one, in, out >>
    BY <1>6, <1>11, <1>12
<1> QED  BY <1>14, <1>15, <1>16 DEF one, in, out, b, F

\* What epoll_wait() reports is so.
LEMMA FlagsTrue ==
    ASSUME NEW e \in Polled, Ready(e), Chained
    PROVE  LET b == e.buf
               F == Flags(e)
           IN  /\ F # {} /\ b \in Buffers /\ ChildNr \in Nat /\ ChildNr >= 3
               /\ e.side = "rd" =>
                     /\ b \in 1 .. ChildNr /\ rdOpen[b] /\ F \subseteq {"IN", "HUP"}
                     /\ "IN" \in F => fromChild[b - 1] # << >>
                     /\ "IN" \notin F => fromChild[b - 1] = << >>
                     /\ "HUP" \in F => Dead(b - 1)
               /\ e.side # "rd" =>
                     /\ b \in Children /\ wrOpen[b] /\ F \subseteq {"OUT", "ERR"}
                     /\ "ERR" \in F => killed # {}
<1> DEFINE b == e.buf
           F == Flags(e)
<1>1. F # {} /\ ChildNr \in Nat /\ ChildNr >= 3
    BY LoopAssumption DEF Ready
<1>2. CASE e.side = "rd"
    <2>1. b \in 1 .. ChildNr /\ rdOpen[b]
        BY <1>2 DEF Polled, Ready
    <2>2. F = {f \in {"IN", "HUP"} : IF f = "IN" THEN fromChild[b - 1] # << >>
                                                 ELSE child[b - 1] \in {"closed", "gone"}}
        BY <1>2 DEF Flags
    <2> HIDE DEF F
    <2> QED  BY <1>1, <1>2, <2>1, <2>2 DEF F, Dead, Buffers
<1>3. CASE e.side # "rd"
    <2>1. b \in Children /\ wrOpen[b]
        BY <1>3 DEF Polled, Ready
    <2>2. F = {f \in {"OUT", "ERR"} : IF f = "OUT" THEN Len(toChild[b]) < PipeSize
                                                   ELSE child[b] \in {"closed", "gone"}}
        BY <1>3 DEF Flags
    <2>3. Dead(b) => killed # {}
        BY <2>1 DEF Chained
    <2> HIDE DEF F
    <2> QED  BY <1>1, <1>3, <2>1, <2>2, <2>3 DEF F, Dead, Buffers, Children
<1> QED  BY <1>2, <1>3

\* The buffer events a turn starts with are as the turn needs them.
LEMMA CoalesceShape ==
    ASSUME NEW e \in Polled, Ready(e), Chained, rdOpen \in [Buffers -> BOOLEAN],
           wrOpen[ChildNr]
    PROVE  /\ Coalesced(Coalesce(e))
           /\ \A i \in 1 .. Len(Coalesce(e)) :
                LET v == Coalesce(e)[i]
                    b == v.buf
                IN  /\ v.rd # {} => rdOpen[b]
                    /\ v.wr # {} => wrOpen[b]
                    /\ "HUP" \in v.rd =>
                          b # 0 /\ Dead(b - 1) /\ ("IN" \notin v.rd => fromChild[b - 1] = << >>)
                    /\ "ERR" \in v.wr => killed # {}
                    /\ "IN" \in v.rd => fromChild[b - 1] # << >>
<1> DEFINE b == e.buf
           F == Flags(e)
           one == IF e.side = "rd" THEN [buf |-> b, rd |-> F, wr |-> {}]
                                   ELSE [buf |-> b, rd |-> {}, wr |-> F]
           in == [buf |-> 0, rd |-> {"FAKE"}, wr |-> {}]
           out == [buf |-> ChildNr, rd |-> {}, wr |-> {"FAKE"}]
           both == [buf |-> ChildNr, rd |-> F, wr |-> {"FAKE"}]
           first == [buf |-> 0, rd |-> {"FAKE"}, wr |-> F]
           Fits(v) == /\ v \in BufferEvent
                      /\ v.rd # {} \/ v.wr # {}
                      /\ "FAKE" \in v.wr => v.buf = ChildNr
                      /\ "FAKE" \in v.rd => v.buf = 0
                      /\ "IN" \in v.rd => v.buf # 0
                      /\ v.rd # {} => rdOpen[v.buf]
                      /\ v.wr # {} => wrOpen[v.buf]
                      /\ "HUP" \in v.rd =>
                            v.buf # 0 /\ Dead(v.buf - 1) /\ ("IN" \notin v.rd => fromChild[v.buf - 1] = << >>)
                      /\ "ERR" \in v.wr => killed # {}
                      /\ "IN" \in v.rd => fromChild[v.buf - 1] # << >>
<1>0. /\ F # {} /\ b \in Buffers /\ ChildNr \in Nat /\ ChildNr >= 3
      /\ e.side = "rd" =>
            /\ b \in 1 .. ChildNr /\ rdOpen[b] /\ F \subseteq {"IN", "HUP"}
            /\ "IN" \in F => fromChild[b - 1] # << >>
            /\ "IN" \notin F => fromChild[b - 1] = << >>
            /\ "HUP" \in F => Dead(b - 1)
      /\ e.side # "rd" =>
            /\ b \in Children /\ wrOpen[b] /\ F \subseteq {"OUT", "ERR"}
            /\ "ERR" \in F => killed # {}
    BY FlagsTrue
<1>1. /\ ~ rdOpen[0] /\ b = ChildNr => Coalesce(e) = << both >>
      /\ ~ rdOpen[0] /\ b # ChildNr => Coalesce(e) = << one, out >>
      /\ rdOpen[0] /\ b = 0 => Coalesce(e) = << first, out >>
      /\ rdOpen[0] /\ b # 0 => Coalesce(e) = << one, in, out >>
    BY CoalesceForms
<1> HIDE DEF b, F
<1>2. Fits(one)
    BY <1>0 DEF BufferEvent, Buffers, Children
<1>3. rdOpen[0] => Fits(in)
    BY <1>0 DEF BufferEvent, Buffers
<1>4. Fits(out)
    BY <1>0 DEF BufferEvent, Buffers
<1>5. b = ChildNr => Fits(both)
    BY <1>0 DEF BufferEvent, Buffers, Children
<1>6. b = 0 /\ rdOpen[0] => Fits(first)
    BY <1>0 DEF BufferEvent, Buffers, Children
<1>7. /\ one.buf = b /\ in.buf = 0 /\ out.buf = ChildNr
      /\ both.buf = ChildNr /\ first.buf = 0
      /\ "FAKE" \in out.wr /\ "FAKE" \in both.wr
      /\ in.rd # {} /\ out.rd = {}
      /\ b = ChildNr => one.wr = {}
    BY <1>0 DEF Children
<1>8. one \in BufferEvent /\ in \in BufferEvent /\ out \in BufferEvent
      /\ (b = ChildNr => both \in BufferEvent) /\ (b = 0 /\ rdOpen[0] => first \in BufferEvent)
    <2>1. in \in BufferEvent
        BY <1>0 DEF BufferEvent, Buffers
    <2> HIDE DEF one, in, out, both, first
    <2> QED  BY <1>2, <2>1, <1>4, <1>5, <1>6
<1> HIDE DEF one, in, out, both, first
<1> DEFINE evs == Coalesce(e)
<1>9. /\ evs \in Seq(BufferEvent) /\ Len(evs) >= 1
      /\ \A i \in 1 .. Len(evs) : Fits(evs[i])
    <2> HIDE DEF Fits
    <2>5. 1 .. 1 = {1} /\ 1 .. 2 = {1, 2} /\ 1 .. 3 = {1, 2, 3}
        OBVIOUS
    <2>6. \A v \in BufferEvent : << v >> \in Seq(BufferEvent)
        OBVIOUS
    <2>7. \A v, w \in BufferEvent : << v, w >> \in Seq(BufferEvent)
        OBVIOUS
    <2>8. \A u, v, w \in BufferEvent : << u, v, w >> \in Seq(BufferEvent)
        OBVIOUS
    <2>1. CASE ~ rdOpen[0] /\ b = ChildNr
        <3>1. Len(evs) = 1 /\ evs[1] = both /\ evs = << both >>
            BY <2>1, <1>1, Tuples
        <3> QED  BY <2>1, <3>1, <2>5, <1>5, <1>8, <2>6
    <2>2. CASE ~ rdOpen[0] /\ b # ChildNr
        <3>1. Len(evs) = 2 /\ evs[1] = one /\ evs[2] = out /\ evs = << one, out >>
            BY <2>2, <1>1, Tuples
        <3> QED  BY <2>2, <3>1, <2>5, <1>2, <1>4, <1>8, <2>7
    <2>3. CASE rdOpen[0] /\ b = 0
        <3>1. Len(evs) = 2 /\ evs[1] = first /\ evs[2] = out /\ evs = << first, out >>
            BY <2>3, <1>1, Tuples
        <3> QED  BY <2>3, <3>1, <2>5, <1>6, <1>4, <1>8, <2>7
    <2>4. CASE rdOpen[0] /\ b # 0
        <3>1. Len(evs) = 3 /\ evs[1] = one /\ evs[2] = in /\ evs[3] = out /\ evs = << one, in, out >>
            BY <2>4, <1>1, Tuples
        <3> HIDE DEF evs
        <3> QED  BY <2>4, <3>1, <2>5, <1>2, <1>3, <1>4, <1>8, <2>8
    <2> QED  BY <2>1, <2>2, <2>3, <2>4
<1>10. /\ \A i \in 1 .. Len(evs) :
             evs[i].buf = ChildNr /\ "FAKE" \notin evs[i].wr => Apart(evs) /\ i = 1
       /\ \A i, j \in 1 .. Len(evs) :
             i < j /\ evs[i].buf = evs[j].buf => Apart(evs) /\ i = 1 /\ j = 3
    <2>1. CASE ~ rdOpen[0] /\ b = ChildNr
        BY <2>1, <1>1, <1>7
    <2>2. CASE ~ rdOpen[0] /\ b # ChildNr
        BY <2>2, <1>1, <1>7, <1>0
    <2>3. CASE rdOpen[0] /\ b = 0
        BY <2>3, <1>1, <1>7, <1>0
    <2>4. CASE rdOpen[0] /\ b # 0
        <3>1. evs = << one, in, out >>
            BY <2>4, <1>1
        <3>2. Len(evs) = 3 /\ evs[1] = one /\ evs[2] = in /\ evs[3] = out
            BY <3>1
        <3>3. b = ChildNr => Apart(evs)
            BY <3>2, <1>7 DEF Apart
        <3> HIDE DEF evs
        <3> QED  BY <3>2, <3>3, <1>7, <1>0, <2>4
    <2> QED  BY <2>1, <2>2, <2>3, <2>4
<1> HIDE DEF evs
<1>11. Coalesced(evs)
    BY <1>9, <1>10 DEF Coalesced
<1> QED  BY <1>9, <1>11 DEF evs

-----------------------------------------------------------------------------
(* Pieces of the file *)

\* How many pieces there are between two cuts.
LEMMA SegSize ==
    ASSUME NEW s, NEW lo, NEW hi, Seg(s, lo, hi)
    PROVE  /\ lo \in Nat /\ hi \in Nat /\ lo <= hi
           /\ s \in Seq(Nat) /\ Len(s) = hi - lo
           /\ s = << >> <=> lo = hi
           /\ \A i \in 1 .. hi - lo : s[i] = lo + i
<1>1. lo \in Nat /\ hi \in Nat /\ lo <= hi /\ s = [i \in 1 .. hi - lo |-> lo + i]
    BY DEF Seg
<1>2. s \in Seq(Nat) /\ Len(s) = hi - lo
    BY <1>1
<1>3. s = << >> <=> lo = hi
    BY <1>1, <1>2
<1>4. \A i \in 1 .. hi - lo : s[i] = lo + i
    BY <1>1
<1> QED  BY <1>1, <1>2, <1>3, <1>4

\* A sequence with these elements is what is between the cuts.
LEMMA SegIs ==
    ASSUME NEW s \in Seq(Nat), NEW lo \in Nat, NEW hi \in Nat, lo <= hi,
           Len(s) = hi - lo, \A i \in 1 .. hi - lo : s[i] = lo + i
    PROVE  Seg(s, lo, hi)
BY DEF Seg

\* What is taken off the front ends at a new cut, where the rest begins.
LEMMA SegCut ==
    ASSUME NEW s, NEW lo, NEW hi, Seg(s, lo, hi), NEW n \in Nat
    PROVE  LET m == lo + Min2(n, Len(s))
           IN  /\ m \in Nat /\ lo <= m /\ m <= hi
               /\ Seg(Take(s, n), lo, m) /\ Seg(Leave(s, n), m, hi)
<1> DEFINE k == Min2(n, Len(s))
           m == lo + k
<1>1. /\ lo \in Nat /\ hi \in Nat /\ lo <= hi
      /\ s \in Seq(Nat) /\ Len(s) = hi - lo
      /\ \A i \in 1 .. hi - lo : s[i] = lo + i
    BY SegSize
<1>2. k \in 0 .. hi - lo
    BY <1>1 DEF Min2
<1>5. m \in Nat /\ lo <= m /\ m <= hi /\ k = m - lo
    BY <1>1, <1>2
<1> HIDE DEF k, m
<1>3. Seg(SubSeq(s, 1, k), lo, m)
    <2> DEFINE t == SubSeq(s, 1, k)
    <2>1. t \in Seq(Nat) /\ Len(t) = m - lo /\ \A i \in 1 .. m - lo : t[i] = s[i]
        BY <1>1, <1>2, <1>5
    <2>2. \A i \in 1 .. m - lo : t[i] = lo + i
        BY <1>1, <1>5, <2>1
    <2> HIDE DEF t
    <2>3. Seg(t, lo, m)
        BY <2>1, <2>2, <1>1, <1>5, SegIs
    <2> QED  BY <2>3 DEF t
<1>4. Seg(SubSeq(s, k + 1, Len(s)), m, hi)
    <2> DEFINE t == SubSeq(s, k + 1, Len(s))
    <2>1. t \in Seq(Nat) /\ Len(t) = hi - m /\ \A i \in 1 .. hi - m : t[i] = s[k + i]
        BY <1>1, <1>2, <1>5
    <2>2. \A i \in 1 .. hi - m : t[i] = m + i
        BY <1>1, <1>5, <2>1
    <2> HIDE DEF t
    <2>3. Seg(t, m, hi)
        BY <2>1, <2>2, <1>1, <1>5, SegIs
    <2> QED  BY <2>3 DEF t
<1> QED  BY <1>3, <1>4, <1>5 DEF Take, Leave, k, m

\* What follows is joined to it.
LEMMA SegJoin ==
    ASSUME NEW s, NEW t, NEW lo, NEW m, NEW hi, Seg(s, lo, m), Seg(t, m, hi)
    PROVE  Seg(s \o t, lo, hi)
<1>1. /\ lo \in Nat /\ m \in Nat /\ hi \in Nat /\ lo <= m /\ m <= hi
      /\ s \in Seq(Nat) /\ Len(s) = m - lo /\ t \in Seq(Nat) /\ Len(t) = hi - m
      /\ \A i \in 1 .. m - lo : s[i] = lo + i
      /\ \A i \in 1 .. hi - m : t[i] = m + i
    BY SegSize
<1>2. /\ s \o t \in Seq(Nat) /\ Len(s \o t) = hi - lo
      /\ \A i \in 1 .. hi - lo : (s \o t)[i] = IF i <= m - lo THEN s[i] ELSE t[i - (m - lo)]
    <2>1. /\ s \o t \in Seq(Nat) /\ Len(s \o t) = Len(s) + Len(t)
          /\ \A i \in 1 .. Len(s) + Len(t) : (s \o t)[i] = IF i <= Len(s) THEN s[i] ELSE t[i - Len(s)]
        BY <1>1, ConcatProperties
    <2> HIDE DEF Seg
    <2>2. Len(s) + Len(t) = hi - lo
        BY <1>1
    <2> QED  BY <2>1, <2>2, <1>1
<1>3. \A i \in 1 .. hi - lo : (s \o t)[i] = lo + i
    <2> TAKE i \in 1 .. hi - lo
    <2>1. CASE i <= m - lo
        BY <1>1, <1>2, <2>1
    <2>2. CASE ~ (i <= m - lo)
        <3>1. i - (m - lo) \in 1 .. hi - m
            BY <1>1, <2>2
        <3> QED  BY <1>1, <1>2, <2>2, <3>1
    <2> QED  BY <2>1, <2>2
<1>4. lo <= hi
    BY <1>1
<1> QED  BY <1>1, <1>2, <1>3, <1>4, SegIs

\* Nothing is between a cut and itself.
LEMMA SegNone ==
    ASSUME NEW lo \in Nat
    PROVE  Seg(<< >>, lo, lo)
BY DEF Seg

\* What is between two cuts does not depend on how it came there.
LEMMA SegSame ==
    ASSUME NEW s, NEW t, NEW lo, NEW hi, Seg(s, lo, hi), Seg(t, lo, hi)
    PROVE  s = t
BY DEF Seg

\* The types of what is taken and what is left.
LEMMA TakeType ==
    ASSUME NEW S, NEW s \in Seq(S), NEW n \in Nat
    PROVE  /\ Take(s, n) \in Seq(S) /\ Len(Take(s, n)) = Min2(n, Len(s))
           /\ Leave(s, n) \in Seq(S) /\ Len(Leave(s, n)) = Len(s) - Min2(n, Len(s))
           /\ Min2(n, Len(s)) \in 0 .. n /\ Min2(n, Len(s)) <= Len(s)
<1>1. Len(s) \in Nat /\ Min2(n, Len(s)) \in 0 .. Len(s) /\ Min2(n, Len(s)) <= n
    BY DEF Min2
<1>2. Take(s, n) \in Seq(S) /\ Len(Take(s, n)) = Min2(n, Len(s))
    BY <1>1, SubSeqProperties DEF Take
<1>3. Leave(s, n) \in Seq(S) /\ Len(Leave(s, n)) = Len(s) - Min2(n, Len(s))
    BY <1>1, SubSeqProperties DEF Leave
<1> QED  BY <1>1, <1>2, <1>3

-----------------------------------------------------------------------------
(* Types *)

Pieces == Seq(1 .. FileLen)

\* The part of TypeOK about what is where.
DataTypes ==
    /\ unread \in Pieces /\ output \in Pieces
    /\ buf \in [Buffers -> Pieces]
    /\ \A b \in Buffers : Len(buf[b]) <= BufSize
    /\ toChild \in [Children -> Pieces] /\ fromChild \in [Children -> Pieces]
    /\ held \in [Children -> Pieces]
    /\ \A c \in Children : /\ Len(toChild[c]) <= PipeSize
                           /\ Len(fromChild[c]) <= PipeSize
                           /\ Len(held[c]) <= ChildBufSize

Modes == {"wait", "write", "read", "close", "waiting",
          "ok", "failed", "sigpipe", "interrupted", "childFailed"}

\* And the part about who is where.
StateTypes ==
    /\ rdOpen \in [Buffers -> BOOLEAN] /\ wrOpen \in [Buffers -> BOOLEAN]
    /\ child \in [Children -> {"read", "write", "closed", "gone"}]
    /\ parent \in Modes
    /\ at \in 0 .. Len(bes)
    /\ InTurn => at > 0
    /\ handler \in BOOLEAN
    /\ killed \subseteq Children

\* The two parts are all of it.
LEMMA TypeParts == TypeOK <=> DataTypes /\ StateTypes
BY DEF TypeOK, DataTypes, StateTypes, Modes, Running, InTurn, Pieces

\* Sizes are natural numbers.
LEMMA Sizes ==
    /\ ChildNr \in Nat /\ ChildNr >= 3 /\ FileLen \in Nat
    /\ PipeSize \in Nat /\ BufSize \in Nat /\ ChildBufSize \in Nat
    /\ PipeSize > 0 /\ BufSize > 0 /\ ChildBufSize > 0
BY LoopAssumption

\* The two ends of the chain.
LEMMA Ends0 == 0 \in Buffers /\ ChildNr \in Buffers /\ 0 # ChildNr
BY LoopAssumption DEF Buffers

\* Child c is between the buffers c and c + 1.
LEMMA Neighbours ==
    /\ \A c \in Children : c \in Buffers /\ c + 1 \in Buffers /\ c # ChildNr /\ c \in Int
    /\ \A b \in Buffers : b # 0 => b - 1 \in Children
    /\ \A b \in Buffers : b # ChildNr => b \in Children
    /\ \A b \in Buffers : b \in Int
BY LoopAssumption DEF Buffers, Children

\* What the buffer event in hand is.
LEMMA InHand ==
    ASSUME TurnInv, InTurn
    PROVE  /\ bes \in Seq(BufferEvent) /\ at \in 1 .. Len(bes) /\ Len(bes) \in Nat
           /\ be \in BufferEvent /\ be.buf \in Buffers
           /\ be.rd \subseteq {"IN", "HUP", "FAKE"} /\ be.wr \subseteq {"OUT", "ERR", "FAKE"}
           /\ "FAKE" \in be.wr => be.buf = ChildNr
           /\ "FAKE" \in be.rd => be.buf = 0
           /\ "IN" \in be.rd => be.buf # 0
           /\ be.rd # {} \/ be.wr # {}
           /\ be.rd # {} => rdOpen[be.buf]
           /\ be.wr # {} => wrOpen[be.buf]
<1>1. Coalesced(bes) /\ at \in 1 .. Len(bes) /\ Current(at)
    BY DEF TurnInv
<1>2. bes \in Seq(BufferEvent) /\ Len(bes) \in Nat /\ bes[at] \in BufferEvent
    BY <1>1 DEF Coalesced
<1>3. /\ "FAKE" \in be.wr => be.buf = ChildNr
      /\ "FAKE" \in be.rd => be.buf = 0
      /\ "IN" \in be.rd => be.buf # 0
      /\ be.rd # {} \/ be.wr # {}
    BY <1>1 DEF Coalesced, be
<1>4. at >= at
    BY <1>1, <1>2
<1>5. /\ be.rd # {} => rdOpen[be.buf]
      /\ be.wr # {} => wrOpen[be.buf]
    BY <1>1, <1>4 DEF Current, be
<1>6. be.buf \in Buffers /\ be.rd \subseteq {"IN", "HUP", "FAKE"} /\ be.wr \subseteq {"OUT", "ERR", "FAKE"}
    BY <1>2 DEF be, BufferEvent
<1> QED  BY <1>1, <1>2, <1>3, <1>5, <1>6 DEF be

\* What is taken, left and joined is made of pieces, too.
LEMMA PiecesTaken ==
    ASSUME NEW s \in Pieces, NEW n \in Nat
    PROVE  /\ Take(s, n) \in Pieces /\ Leave(s, n) \in Pieces /\ Len(s) \in Nat
           /\ Len(Take(s, n)) \in Nat /\ Len(Leave(s, n)) \in Nat
           /\ Len(Take(s, n)) <= n /\ Len(Leave(s, n)) <= Len(s)
<1> DEFINE S == 1 .. FileLen
<1>1. s \in Seq(S) /\ Len(s) \in Nat
    BY DEF Pieces
<1> HIDE DEF S
<1>2. /\ Take(s, n) \in Seq(S) /\ Len(Take(s, n)) = Min2(n, Len(s))
      /\ Leave(s, n) \in Seq(S) /\ Len(Leave(s, n)) = Len(s) - Min2(n, Len(s))
      /\ Min2(n, Len(s)) \in 0 .. n /\ Min2(n, Len(s)) <= Len(s)
    BY <1>1, TakeType
<1>3. Take(s, n) \in Pieces /\ Leave(s, n) \in Pieces
    BY <1>2 DEF Pieces, S
<1> QED  BY <1>1, <1>2, <1>3

\* What is joined is made of pieces.
LEMMA PiecesJoined ==
    ASSUME NEW s \in Pieces, NEW t \in Pieces
    PROVE  /\ s \o t \in Pieces /\ Len(s \o t) = Len(s) + Len(t)
           /\ Len(s) \in Nat /\ Len(t) \in Nat
BY ConcatProperties DEF Pieces

\* As is nothing.
LEMMA PiecesNone == << >> \in Pieces /\ Len(<< >>) = 0
BY DEF Pieces

\* The types hold at the start.
LEMMA InitTypes == Init => DataTypes /\ StateTypes
<1> SUFFICES ASSUME Init PROVE DataTypes /\ StateTypes
    OBVIOUS
<1>1. File \in Pieces
    BY Sizes DEF File, Pieces
<1>2. DataTypes
    BY <1>1, Sizes DEF Init, DataTypes, Pieces
<1>3. StateTypes
    BY Sizes DEF Init, StateTypes, Modes, InTurn
<1> QED  BY <1>2, <1>3

\* Each step keeps what is where within its bounds.
LEMMA DataStep ==
    ASSUME DataTypes, TurnInv, [Next]_vars
    PROVE  DataTypes'
<1>0. Pieces = Seq(1 .. FileLen)
    BY DEF Pieces
<1> USE DEF data
<1>1. CASE UNCHANGED data
    BY <1>1 DEF DataTypes
<1>2. CASE WriteOut
    <2> DEFINE b == be.buf
               room == PipeSize - Len(toChild[b])
    <2>1. b \in Buffers
        BY <1>2, InHand DEF WriteOut, InTurn
    <2>2. CASE UNCHANGED <<output, toChild, buf>>
        BY <2>2, <1>2, <1>1 DEF WriteOut
    <2>3. CASE b = ChildNr /\ output' = output \o buf[b] /\ buf' = [buf EXCEPT ![b] = << >>] /\ UNCHANGED toChild
        <3>1. output' \in Pieces
            BY <2>1, <2>3, ConcatProperties DEF DataTypes, Pieces
        <3>2. buf' \in [Buffers -> Pieces] /\ \A d \in Buffers : Len(buf'[d]) <= BufSize
            BY <2>1, <2>3, Sizes, PiecesNone DEF DataTypes
        <3> QED  BY <1>2, <2>3, <3>1, <3>2 DEF DataTypes, WriteOut
    <2>4. CASE /\ b # ChildNr
               /\ toChild' = [toChild EXCEPT ![b] = @ \o Take(buf[b], room)]
               /\ buf' = [buf EXCEPT ![b] = Leave(@, room)]
               /\ UNCHANGED output
        <3>1. b \in Children /\ buf[b] \in Pieces /\ toChild[b] \in Pieces
            BY <2>1, <2>4, Neighbours DEF DataTypes
        <3>2. room \in Nat /\ Len(toChild[b]) + room = PipeSize
            BY <3>1, Sizes, PiecesJoined DEF DataTypes
        <3> HIDE DEF room, b
        <3>3. /\ Take(buf[b], room) \in Pieces /\ Len(Take(buf[b], room)) <= room
              /\ Leave(buf[b], room) \in Pieces /\ Len(Leave(buf[b], room)) <= Len(buf[b])
              /\ Len(Take(buf[b], room)) \in Nat /\ Len(Leave(buf[b], room)) \in Nat
              /\ Len(buf[b]) \in Nat
            BY <3>1, <3>2, PiecesTaken
        <3>4. /\ toChild[b] \o Take(buf[b], room) \in Pieces
              /\ Len(toChild[b] \o Take(buf[b], room)) <= PipeSize
            <4> DEFINE t == Take(buf[b], room)
            <4>1. t \in Pieces /\ Len(t) <= room /\ Len(t) \in Nat
                BY <3>3
            <4> HIDE DEF t
            <4>2. /\ toChild[b] \o t \in Pieces /\ Len(toChild[b] \o t) = Len(toChild[b]) + Len(t)
                  /\ Len(toChild[b]) \in Nat
                BY <4>1, <3>1, PiecesJoined
            <4>3. Len(toChild[b]) + Len(t) <= PipeSize
                BY <4>1, <4>2, <3>2, Sizes
            <4> QED  BY <4>2, <4>3 DEF t
        <3>5. toChild' \in [Children -> Pieces] /\ \A c \in Children : Len(toChild'[c]) <= PipeSize
            BY <2>4, <3>1, <3>4 DEF DataTypes
        <3>6. buf' \in [Buffers -> Pieces] /\ \A d \in Buffers : Len(buf'[d]) <= BufSize
            <4>1. Len(Leave(buf[b], room)) <= BufSize
                BY <2>1, <3>1, <3>3, Sizes DEF DataTypes, b
            <4> QED  BY <2>4, <2>1, <3>3, <4>1 DEF DataTypes, b
        <3> QED  BY <1>2, <2>4, <3>5, <3>6 DEF DataTypes, WriteOut
    <2> QED  BY <1>2, <2>2, <2>3, <2>4 DEF WriteOut
<1>3. CASE ReadIn
    <2> DEFINE b == be.buf
    <2>1. b \in Buffers
        BY <1>3, InHand DEF ReadIn, InTurn
    <2>2. CASE UNCHANGED <<unread, fromChild, buf>>
        BY <2>2, <1>3, <1>1 DEF ReadIn
    <2>3. CASE /\ buf' = [buf EXCEPT ![b] = Take(Source(b), BufSize)]
               /\ IF b = 0
                    THEN unread' = Leave(unread, BufSize) /\ UNCHANGED fromChild
                    ELSE /\ fromChild' = [fromChild EXCEPT ![b - 1] = Leave(@, BufSize)]
                         /\ UNCHANGED unread
        <3>1. Source(b) \in Pieces
            BY <2>1, Neighbours DEF Source, DataTypes
        <3> HIDE DEF b
        <3>2. Take(Source(b), BufSize) \in Pieces /\ Len(Take(Source(b), BufSize)) <= BufSize
            BY <3>1, PiecesTaken, Sizes
        <3>3. /\ unread \in Pieces => Leave(unread, BufSize) \in Pieces
              /\ \A c \in Children : /\ Leave(fromChild[c], BufSize) \in Pieces
                                     /\ Len(Leave(fromChild[c], BufSize)) <= Len(fromChild[c])
                                     /\ Len(fromChild[c]) \in Nat /\ Len(Leave(fromChild[c], BufSize)) \in Nat
            <4>1. unread \in Pieces => Leave(unread, BufSize) \in Pieces
                BY PiecesTaken, Sizes
            <4>2. ASSUME NEW c \in Children
                  PROVE  /\ Leave(fromChild[c], BufSize) \in Pieces
                         /\ Len(Leave(fromChild[c], BufSize)) <= Len(fromChild[c])
                         /\ Len(fromChild[c]) \in Nat /\ Len(Leave(fromChild[c], BufSize)) \in Nat
                <5>1. fromChild[c] \in Pieces
                    BY DEF DataTypes
                <5> QED  BY <5>1, PiecesTaken, Sizes
            <4> QED  BY <4>1, <4>2
        <3>4. buf' \in [Buffers -> Pieces] /\ \A d \in Buffers : Len(buf'[d]) <= BufSize
            BY <2>1, <2>3, <3>2 DEF DataTypes, b
        <3>5. CASE b = 0
            BY <1>3, <2>3, <3>5, <3>3, <3>4 DEF DataTypes, ReadIn
        <3>6. CASE b # 0
            <4>1. b - 1 \in Children
                BY <2>1, <3>6, Neighbours DEF b
            <4>2. fromChild' \in [Children -> Pieces] /\ \A c \in Children : Len(fromChild'[c]) <= PipeSize
                <5>1. fromChild' = [fromChild EXCEPT ![b - 1] = Leave(@, BufSize)]
                    BY <2>3, <3>6 DEF b
                <5>2. fromChild \in [Children -> Pieces] /\ \A c \in Children : Len(fromChild[c]) <= PipeSize
                    BY DEF DataTypes
                <5>3. fromChild' \in [Children -> Pieces]
                    BY <5>1, <5>2, <3>3, <4>1
                <5>4. ASSUME NEW c \in Children
                      PROVE  Len(fromChild'[c]) <= PipeSize
                    <6>1. fromChild'[c] = fromChild[c] \/ fromChild'[c] = Leave(fromChild[c], BufSize)
                        BY <5>1, <5>2
                    <6> QED  BY <6>1, <5>2, <3>3, Sizes
                <5> QED  BY <5>3, <5>4
            <4> QED  BY <1>3, <2>3, <3>6, <3>4, <4>2 DEF DataTypes, ReadIn
        <3> QED  BY <3>5, <3>6
    <2> QED  BY <1>3, <2>2, <2>3 DEF ReadIn
<1>4. ASSUME NEW c \in Children, ChildRead(c)
      PROVE  DataTypes'
    <2>1. toChild[c] \in Pieces
        BY DEF DataTypes
    <2>2. /\ Take(toChild[c], ChildBufSize) \in Pieces /\ Len(Take(toChild[c], ChildBufSize)) <= ChildBufSize
          /\ Leave(toChild[c], ChildBufSize) \in Pieces
          /\ Len(Leave(toChild[c], ChildBufSize)) <= PipeSize
        BY <2>1, PiecesTaken, Sizes DEF DataTypes
    <2>3. toChild' \in [Children -> Pieces] /\ \A d \in Children : Len(toChild'[d]) <= PipeSize
        BY <1>4, <2>2 DEF DataTypes, ChildRead
    <2>4. held' \in [Children -> Pieces] /\ \A d \in Children : Len(held'[d]) <= ChildBufSize
        BY <1>4, <2>2 DEF DataTypes, ChildRead
    <2> QED  BY <1>4, <2>3, <2>4 DEF DataTypes, ChildRead
<1>5. ASSUME NEW c \in Children, ChildWrite(c)
      PROVE  DataTypes'
    <2> DEFINE room == PipeSize - Len(fromChild[c])
    <2>1. fromChild[c] \in Pieces /\ held[c] \in Pieces /\ room \in Nat /\ Len(fromChild[c]) + room = PipeSize
        BY Sizes, PiecesJoined DEF DataTypes
    <2>6. /\ fromChild' = [fromChild EXCEPT ![c] = @ \o Take(held[c], room)]
          /\ held' = [held EXCEPT ![c] = Leave(@, room)]
          /\ UNCHANGED <<unread, buf, toChild, output>>
        BY <1>5 DEF ChildWrite
    <2> HIDE DEF room
    <2>2. /\ Take(held[c], room) \in Pieces /\ Len(Take(held[c], room)) <= room
          /\ Leave(held[c], room) \in Pieces /\ Len(Leave(held[c], room)) <= ChildBufSize
          /\ Len(Take(held[c], room)) \in Nat
        BY <2>1, PiecesTaken, Sizes DEF DataTypes
    <2>3. /\ fromChild[c] \o Take(held[c], room) \in Pieces
          /\ Len(fromChild[c] \o Take(held[c], room)) <= PipeSize
        <3> DEFINE t == Take(held[c], room)
        <3>1. t \in Pieces /\ Len(t) <= room /\ Len(t) \in Nat
            BY <2>2
        <3> HIDE DEF t
        <3>2. /\ fromChild[c] \o t \in Pieces /\ Len(fromChild[c] \o t) = Len(fromChild[c]) + Len(t)
              /\ Len(fromChild[c]) \in Nat
            BY <3>1, <2>1, PiecesJoined
        <3>3. Len(fromChild[c]) + Len(t) <= PipeSize
            BY <3>1, <3>2, <2>1, Sizes
        <3> QED  BY <3>2, <3>3 DEF t
    <2>4. fromChild' \in [Children -> Pieces] /\ \A d \in Children : Len(fromChild'[d]) <= PipeSize
        BY <2>6, <2>3 DEF DataTypes
    <2>5. held' \in [Children -> Pieces] /\ \A d \in Children : Len(held'[d]) <= ChildBufSize
        BY <2>6, <2>2 DEF DataTypes
    <2> QED  BY <2>6, <2>4, <2>5 DEF DataTypes
<1>6. UNCHANGED data \/ WriteOut \/ ReadIn \/ \E c \in Children : ChildRead(c) \/ ChildWrite(c)
    BY DEF Next, vars, Turn, EpollWait, Close, WaitForChildren, ChildStep, ChildEof,
           Sigchld, Kill, Finished
<1> QED  BY <1>1, <1>2, <1>3, <1>4, <1>5, <1>6

\* How a turn begins.
LEMMA Begins ==
    ASSUME StateTypes, Chained, NEW e \in Polled, EpollWait(e)
    PROVE  /\ bes' = Coalesce(e) /\ Coalesced(bes')
           /\ \A i \in 1 .. Len(bes') :
                LET b == bes'[i].buf
                IN  /\ bes'[i].rd # {} => rdOpen[b]
                    /\ bes'[i].wr # {} => wrOpen[b]
                    /\ "HUP" \in bes'[i].rd =>
                          b # 0 /\ Dead(b - 1) /\ ("IN" \notin bes'[i].rd => fromChild[b - 1] = << >>)
                    /\ "ERR" \in bes'[i].wr => killed # {}
                    /\ "IN" \in bes'[i].rd => fromChild[b - 1] # << >>
<1>1. bes' = Coalesce(e) /\ Ready(e) /\ parent = "wait"
    BY DEF EpollWait
<1>2. rdOpen \in [Buffers -> BOOLEAN] /\ wrOpen[ChildNr]
    BY <1>1 DEF StateTypes, Chained
<1> QED  BY <1>1, <1>2, CoalesceShape

\* Each step keeps who is where within its types.
LEMMA StateStep ==
    ASSUME StateTypes, Chained, TurnInv, [Next]_vars
    PROVE  StateTypes'
<1>1. CASE UNCHANGED vars
    BY <1>1 DEF StateTypes, InTurn, vars, fds, data, others
<1>2. ASSUME NEW e \in Polled, EpollWait(e)
      PROVE  StateTypes'
    <2>2. bes' \in Seq(BufferEvent) /\ Len(bes') >= 1
        BY <1>2, Begins DEF Coalesced
    <2>1. Len(bes') \in Nat
        BY <2>2
    <2> QED  BY <1>2, <2>1, <2>2 DEF EpollWait, StateTypes, Modes, InTurn, fds, data, others
<1>3. CASE WriteOut
    BY <1>3 DEF WriteOut, StateTypes, Modes, InTurn, fds, data, others
<1>4. CASE ReadIn
    <2>1. bes \in Seq(BufferEvent) /\ at \in 1 .. Len(bes) /\ Len(bes) \in Nat
        BY <1>4, InHand DEF ReadIn, InTurn
    <2>2. Len(bes') = Len(bes)
        BY <1>4, <2>1 DEF ReadIn
    <2>3. at' \in 1 .. Len(bes') /\ parent' \in Modes
        BY <1>4, <2>1, <2>2 DEF ReadIn, AfterData, Modes
    <2> QED  BY <1>4, <2>1, <2>3 DEF ReadIn, StateTypes, fds, others
<1>5. CASE Close
    <2>1. bes \in Seq(BufferEvent) /\ at \in 1 .. Len(bes) /\ Len(bes) \in Nat /\ be.buf \in Buffers
        BY <1>5, InHand DEF Close, InTurn
    <2>2. rdOpen' \in [Buffers -> BOOLEAN] /\ wrOpen' \in [Buffers -> BOOLEAN]
        BY <1>5, <2>1 DEF Close, StateTypes
    <2>3. at' \in 0 .. Len(bes') /\ parent' \in Modes /\ (InTurn' => at' > 0)
        <3>1. \/ UNCHANGED <<bes, at>> /\ parent' = "failed"
              \/ bes' = << >> /\ at' = 0 /\ parent' \in {"waiting", "wait"}
              \/ at < Len(bes) /\ at' = at + 1 /\ UNCHANGED <<parent, bes>>
            BY <1>5 DEF Close
        <3> QED  BY <1>5, <2>1, <3>1 DEF Close, Modes, InTurn
    <2> QED  BY <1>5, <2>2, <2>3 DEF Close, StateTypes, data, others
<1>6. CASE WaitForChildren
    BY <1>6 DEF WaitForChildren, StateTypes, Modes, InTurn, fds, data, others
<1>7. ASSUME NEW c \in Children, ChildStep(c) \/ Kill(c)
      PROVE  StateTypes'
    <2>1. child' \in [Children -> {"read", "write", "closed", "gone"}]
        BY <1>7 DEF ChildStep, ChildRead, ChildWrite, ChildEof, Sigchld, Kill, StateTypes, others
    <2>2. parent' \in Modes /\ (InTurn' => InTurn)
        BY <1>7 DEF ChildStep, ChildRead, ChildWrite, ChildEof, Sigchld, Kill, StateTypes, Modes, InTurn
    <2>3. /\ UNCHANGED <<rdOpen, wrOpen, at, bes>>
          /\ handler' \in BOOLEAN /\ killed' \subseteq Children
        BY <1>7 DEF ChildStep, ChildRead, ChildWrite, ChildEof, Sigchld, Kill, StateTypes, fds
    <2> QED  BY <2>1, <2>2, <2>3 DEF StateTypes
<1> QED
    BY <1>1, <1>2, <1>3, <1>4, <1>5, <1>6, <1>7 DEF Next, Turn, Finished

-----------------------------------------------------------------------------
(* Ends that are closed *)

\* Chained, by child and by buffer.
Ended(c) ==
    /\ child[c] = "read" => held[c] = << >>
    /\ Dead(c) /\ c \notin killed =>
          ~ wrOpen[c] /\ toChild[c] = << >> /\ held[c] = << >>

Closed(b) ==
    /\ ~ wrOpen[b] => ~ rdOpen[b] /\ buf[b] = << >>
    /\ ~ rdOpen[b] => IF b = 0 THEN unread = << >>
                      ELSE fromChild[b - 1] = << >> /\ Dead(b - 1)

LastOpen ==
    /\ parent \in {"wait", "write", "read", "close"} => wrOpen[ChildNr]
    /\ parent \in {"waiting", "ok"} => ~ wrOpen[ChildNr]

\* The parts of Chained, one child, one buffer at a time.
LEMMA ChainedParts ==
    Chained <=> (\A c \in Children : Ended(c)) /\ (\A b \in Buffers : Closed(b)) /\ LastOpen
BY DEF Chained, Ended, Closed, LastOpen

\* What the closing of a buffer event amounts to.
LEMMA ClosingStep ==
    ASSUME StateTypes, Chained, TurnInv, Close
    PROVE  LET b == be.buf
           IN  /\ b \in Buffers
               /\ \A d \in Buffers : d # b => rdOpen'[d] = rdOpen[d] /\ wrOpen'[d] = wrOpen[d]
               /\ wrOpen'[b] => wrOpen[b]
               /\ rdOpen'[b] => rdOpen[b]
               /\ rdOpen'[b] # rdOpen[b] => ClosesInput
               /\ wrOpen'[b] # wrOpen[b] => ClosesOutput /\ ~ InputFails /\ ~ OutputFails
               /\ ClosesInput => IF b = 0 THEN unread = << >>
                                 ELSE Dead(b - 1) /\ fromChild[b - 1] = << >>
               /\ UNCHANGED <<data, others>>
<1> DEFINE b == be.buf
<1>1. at \in 1 .. Len(bes) /\ b \in Buffers
    BY InHand DEF Close, InTurn
<1>2. Current(at)
    BY <1>1 DEF TurnInv, InTurn, Close
<1>3. ClosesInput => IF b = 0 THEN unread = << >>
                     ELSE Dead(b - 1) /\ fromChild[b - 1] = << >>
    BY <1>2 DEF Current, ClosesInput, be
<1>4. /\ rdOpen' = IF ClosesInput THEN [rdOpen EXCEPT ![b] = FALSE] ELSE rdOpen
      /\ wrOpen' = IF ClosesOutput /\ ~ InputFails /\ ~ OutputFails
                   THEN [wrOpen EXCEPT ![b] = FALSE] ELSE wrOpen
      /\ UNCHANGED <<data, others>>
    BY DEF Close
<1>5. rdOpen \in [Buffers -> BOOLEAN] /\ wrOpen \in [Buffers -> BOOLEAN]
    BY DEF StateTypes
<1> HIDE DEF b
<1>6. /\ \A d \in Buffers : d # b => rdOpen'[d] = rdOpen[d]
      /\ rdOpen'[b] => rdOpen[b]
      /\ rdOpen'[b] # rdOpen[b] => ClosesInput
    BY <1>1, <1>4, <1>5
<1>7. /\ \A d \in Buffers : d # b => wrOpen'[d] = wrOpen[d]
      /\ wrOpen'[b] => wrOpen[b]
      /\ wrOpen'[b] # wrOpen[b] => ClosesOutput /\ ~ InputFails /\ ~ OutputFails
    BY <1>1, <1>4, <1>5
<1> QED  BY <1>1, <1>3, <1>4, <1>6, <1>7 DEF b

\* Whoever takes a step: ends are closed in the direction of the data only,
\* behind the last piece.
LEMMA ChainedStep ==
    ASSUME DataTypes, StateTypes, Chained, TurnInv, [Next]_vars
    PROVE  Chained'
<1>0. (\A c \in Children : Ended(c)) /\ (\A b \in Buffers : Closed(b)) /\ LastOpen
    BY ChainedParts
<1> SUFFICES (\A c \in Children : Ended(c)') /\ (\A b \in Buffers : Closed(b)') /\ LastOpen'
    BY DEF Chained, Ended, Closed, LastOpen
<1>1. CASE UNCHANGED vars
    BY <1>0, <1>1 DEF Ended, Closed, LastOpen, Dead, vars, data, fds, others
<1>2. ASSUME NEW e \in Polled, EpollWait(e)
      PROVE  (\A c \in Children : Ended(c)') /\ (\A b \in Buffers : Closed(b)') /\ LastOpen'
    BY <1>0, <1>2 DEF EpollWait, Ended, Closed, LastOpen, Dead, data, fds, others
<1>3. CASE WriteOut
    <2> DEFINE b == be.buf
    <2>0. InTurn /\ parent = "write" /\ UNCHANGED <<unread, fromChild, held, fds, child, killed>>
          /\ parent' \in {"read", "sigpipe"}
        BY <1>3 DEF WriteOut, InTurn, others
    <2>1. b \in Buffers
        BY <2>0, InHand
    <2>2. CASE UNCHANGED <<toChild, buf>>
        BY <1>0, <2>0, <2>2 DEF Ended, Closed, LastOpen, Dead, fds
    <2>3. CASE /\ buf[b] # << >> /\ \A d \in Buffers : d # b => buf'[d] = buf[d]
               /\ \A c \in Children : toChild'[c] = toChild[c] \/ ~ Dead(c)
        <3>1. ASSUME NEW c \in Children PROVE Ended(c)'
            BY <1>0, <2>0, <2>3 DEF Ended, Dead, fds
        <3>2. ASSUME NEW d \in Buffers PROVE Closed(d)'
            BY <1>0, <2>0, <2>1, <2>3 DEF Closed, Dead, fds
        <3>3. LastOpen'
            BY <1>0, <2>0 DEF LastOpen, fds
        <3> QED  BY <3>1, <3>2, <3>3
    <2>4. \/ UNCHANGED <<toChild, buf>>
          \/ /\ buf[b] # << >> /\ b = ChildNr
             /\ buf' = [buf EXCEPT ![b] = << >>] /\ UNCHANGED toChild
          \/ /\ buf[b] # << >> /\ child[b] \in {"read", "write"} /\ b # ChildNr
             /\ buf' = [buf EXCEPT ![b] = Leave(@, PipeSize - Len(toChild[b]))]
             /\ toChild' = [toChild EXCEPT ![b] = @ \o Take(buf[b], PipeSize - Len(toChild[b]))]
        BY <1>3 DEF WriteOut
    <2>5. buf \in [Buffers -> Pieces] /\ toChild \in [Children -> Pieces]
        BY DEF DataTypes
    <2> HIDE DEF b
    <2> QED  BY <2>1, <2>2, <2>3, <2>4, <2>5 DEF Dead
<1>4. CASE ReadIn
    <2> DEFINE b == be.buf
    <2>0. /\ InTurn /\ parent = "read" /\ UNCHANGED <<toChild, held, fds, child, killed>>
          /\ parent' \in {"write", "close", "failed"}
        BY <1>4 DEF ReadIn, AfterData, InTurn, others
    <2>1. b \in Buffers /\ (be.rd # {} => rdOpen[b])
        BY <2>0, InHand
    <2>2. CASE UNCHANGED <<unread, fromChild, buf>>
        BY <1>0, <2>0, <2>2 DEF Ended, Closed, LastOpen, Dead, fds
    <2>3. CASE /\ rdOpen[b] /\ \A d \in Buffers : d # b => buf'[d] = buf[d]
               /\ b # 0 => UNCHANGED unread
               /\ \A c \in Children : fromChild'[c] = fromChild[c] \/ c + 1 = b
        <3>1. ASSUME NEW c \in Children PROVE Ended(c)'
            BY <1>0, <2>0, <2>3 DEF Ended, Dead, fds
        <3>2. ASSUME NEW d \in Buffers PROVE Closed(d)'
            <4>1. CASE d = b
                BY <1>0, <4>1, <2>0, <2>1, <2>3 DEF Closed, fds
            <4>2. CASE d # b
                <5>1. d # 0 => d - 1 \in Children /\ d - 1 + 1 = d /\ d \in Int
                    BY Neighbours
                <5> QED  BY <1>0, <4>2, <5>1, <2>0, <2>1, <2>3 DEF Closed, Dead, fds
            <4> QED  BY <4>1, <4>2
        <3>3. LastOpen'
            BY <1>0, <2>0 DEF LastOpen, fds
        <3> QED  BY <3>1, <3>2, <3>3
    <2>4. \/ UNCHANGED <<unread, fromChild, buf>>
          \/ /\ be.rd # {}
             /\ buf' = [buf EXCEPT ![b] = Take(Source(b), BufSize)]
             /\ IF b = 0 THEN UNCHANGED fromChild
                ELSE fromChild' = [fromChild EXCEPT ![b - 1] = Leave(@, BufSize)] /\ UNCHANGED unread
        BY <1>4 DEF ReadIn, MayRead
    <2>5. buf \in [Buffers -> Pieces] /\ fromChild \in [Children -> Pieces]
        BY DEF DataTypes
    <2>6. \A c \in Children : c + 1 # b => c # b - 1
        BY <2>1, Neighbours
    <2> HIDE DEF b
    <2> QED  BY <2>1, <2>2, <2>3, <2>4, <2>5, <2>6
<1>5. CASE Close
    <2> DEFINE b == be.buf
    <2>1. /\ b \in Buffers
          /\ \A d \in Buffers : d # b => rdOpen'[d] = rdOpen[d] /\ wrOpen'[d] = wrOpen[d]
          /\ wrOpen'[b] => wrOpen[b]
          /\ rdOpen'[b] => rdOpen[b]
          /\ rdOpen'[b] # rdOpen[b] => ClosesInput
          /\ wrOpen'[b] # wrOpen[b] => ClosesOutput /\ ~ InputFails /\ ~ OutputFails
          /\ ClosesInput => IF b = 0 THEN unread = << >>
                            ELSE Dead(b - 1) /\ fromChild[b - 1] = << >>
          /\ UNCHANGED <<data, others>>
        BY <1>5, ClosingStep
    <2>2. rdOpen \in [Buffers -> BOOLEAN] /\ wrOpen \in [Buffers -> BOOLEAN]
          /\ rdOpen' \in [Buffers -> BOOLEAN] /\ wrOpen' \in [Buffers -> BOOLEAN]
        BY <1>5, StateStep DEF StateTypes
    <2>3. ASSUME NEW c \in Children PROVE Ended(c)'
        <3>1. c \in Buffers
            BY Neighbours
        <3>2. ~ wrOpen[c] => ~ wrOpen'[c]
            BY <2>1, <3>1
        <3> QED  BY <1>0, <2>1, <3>2 DEF Ended, Dead, data, others
    <2>4. ASSUME NEW d \in Buffers PROVE Closed(d)'
        <3>1. CASE d # b
            BY <1>0, <2>1, <3>1 DEF Closed, Dead, data, others
        <3>2. CASE d = b
            <4>1. ClosesOutput => ~ rdOpen'[b] /\ buf[b] = << >>
                BY DEF ClosesOutput
            <4>2. Closed(b)
                BY <1>0, <2>1
            <4>3. ~ wrOpen'[b] => ~ rdOpen'[b] /\ buf[b] = << >>
                BY <4>1, <4>2, <2>1, <2>2 DEF Closed
            <4>4. ~ rdOpen'[b] => IF b = 0 THEN unread = << >>
                                  ELSE fromChild[b - 1] = << >> /\ Dead(b - 1)
                BY <4>2, <2>1, <2>2 DEF Closed
            <4> HIDE DEF b
            <4> QED  BY <3>2, <4>3, <4>4, <2>1 DEF Closed, Dead, data, others
        <3> QED  BY <3>1, <3>2
    <2>5. LastOpen'
        <3>1. parent = "close" /\ wrOpen[ChildNr] /\ ChildNr \in Buffers
            BY <1>5, <1>0, Ends0 DEF Close, LastOpen
        <3>2. \/ parent' = "failed"
              \/ /\ parent' = "waiting" /\ ClosesOutput /\ b = ChildNr
                 /\ ~ InputFails /\ ~ OutputFails
              \/ /\ parent' \in {"close", "wait"}
                 /\ ~ (ClosesOutput /\ b = ChildNr)
            BY <1>5, <3>1 DEF Close
        <3>3. CASE parent' = "waiting" /\ ClosesOutput /\ b = ChildNr /\ ~ InputFails /\ ~ OutputFails
            <4>1. wrOpen' = [wrOpen EXCEPT ![b] = FALSE]
                BY <1>5, <3>3 DEF Close
            <4>2. ~ wrOpen'[ChildNr]
                BY <4>1, <3>3, <3>1, <2>2
            <4> QED  BY <4>2, <3>3 DEF LastOpen
        <3>4. CASE parent' \in {"close", "wait"} /\ ~ (ClosesOutput /\ b = ChildNr)
            <4>1. wrOpen'[ChildNr]
                BY <3>4, <3>1, <2>1, <2>2
            <4> QED  BY <4>1, <3>4 DEF LastOpen
        <3>5. CASE parent' = "failed"
            BY <3>5 DEF LastOpen
        <3> QED  BY <3>2, <3>3, <3>4, <3>5
    <2> QED  BY <2>3, <2>4, <2>5
<1>6. CASE WaitForChildren
    BY <1>0, <1>6 DEF WaitForChildren, Ended, Closed, LastOpen, Dead, data, fds, others
<1>7. ASSUME NEW c \in Children, ChildRead(c)
      PROVE  (\A d \in Children : Ended(d)') /\ (\A b \in Buffers : Closed(b)') /\ LastOpen'
    <2>1. /\ child[c] = "read" /\ child'[c] = "write"
          /\ \A d \in Children : d # c => /\ child'[d] = child[d] /\ held'[d] = held[d]
                                          /\ toChild'[d] = toChild[d]
          /\ UNCHANGED <<unread, buf, fds, fromChild, parent, killed>>
        BY <1>7 DEF ChildRead, DataTypes, StateTypes
    <2> QED  BY <1>0, <2>1, Neighbours DEF Ended, Closed, LastOpen, Dead, fds
<1>8. ASSUME NEW c \in Children, ChildWrite(c)
      PROVE  (\A d \in Children : Ended(d)') /\ (\A b \in Buffers : Closed(b)') /\ LastOpen'
    <2>1. /\ child[c] = "write" /\ child'[c] \in {"read", "write"}
          /\ child'[c] = "read" => held'[c] = << >>
          /\ \A d \in Children : d # c => /\ child'[d] = child[d] /\ held'[d] = held[d]
                                          /\ fromChild'[d] = fromChild[d]
          /\ UNCHANGED <<unread, buf, fds, toChild, parent, killed>>
        BY <1>8 DEF ChildWrite, DataTypes, StateTypes
    <2> QED  BY <1>0, <2>1, Neighbours DEF Ended, Closed, LastOpen, Dead, fds
<1>9. ASSUME NEW c \in Children, ChildEof(c) \/ Sigchld(c) \/ Kill(c)
      PROVE  (\A d \in Children : Ended(d)') /\ (\A b \in Buffers : Closed(b)') /\ LastOpen'
    <2>1. /\ Dead(c)' /\ child'[c] # "read" /\ killed \subseteq killed'
          /\ \A d \in Children : d # c => child'[d] = child[d]
          /\ UNCHANGED <<data, fds>>
          /\ \/ Dead(c)
             \/ child[c] = "read" /\ toChild[c] = << >> /\ ~ wrOpen[c]
             \/ c \in killed'
        BY <1>9 DEF ChildEof, Sigchld, Kill, StateTypes, Dead, others
    <2>2. LastOpen'
        <3>1. parent' \in {"childFailed", "interrupted"} \/ UNCHANGED parent
            BY <1>9 DEF ChildEof, Sigchld, Kill
        <3> QED  BY <1>0, <2>1, <3>1 DEF LastOpen, fds
    <2>3. ASSUME NEW d \in Children PROVE Ended(d)'
        BY <1>0, <2>1 DEF Ended, Dead, data, fds
    <2>4. ASSUME NEW b \in Buffers PROVE Closed(b)'
        <3>1. b # 0 => b - 1 \in Children
            BY Neighbours
        <3> QED  BY <1>0, <2>1, <3>1 DEF Closed, Dead, data, fds
    <2> QED  BY <2>2, <2>3, <2>4
<1> QED
    BY <1>1, <1>2, <1>3, <1>4, <1>5, <1>6, <1>7, <1>8, <1>9
    DEF Next, Turn, ChildStep, Finished

-----------------------------------------------------------------------------
(* What a turn relies on *)

\* A turn goes on while children read, write and die.
LEMMA TurnKept ==
    ASSUME TurnInv, StateTypes,
           InTurn' => InTurn /\ (parent' = parent \/ parent \in {"write", "read"}),
           InTurn' => (parent' \in {"write", "read"} <=> parent \in {"write", "read"}),
           UNCHANGED <<bes, at, fds, unread>>,
           \A c \in Children : Dead(c) => Dead(c)' /\ fromChild'[c] = fromChild[c],
           \A c \in Children : fromChild[c] # << >> => fromChild'[c] # << >>,
           killed \subseteq killed'
    PROVE  TurnInv'
<1> SUFFICES ASSUME InTurn' PROVE Coalesced(bes)' /\ (at \in 1 .. Len(bes))'
                                  /\ \A i \in 1 .. Len(bes) : Current(i)'
    BY DEF TurnInv
<1>1. InTurn /\ Coalesced(bes) /\ at \in 1 .. Len(bes) /\ \A i \in 1 .. Len(bes) : Current(i)
    BY DEF TurnInv
<1>2. Coalesced(bes)' /\ (at \in 1 .. Len(bes))'
    BY <1>1 DEF Coalesced, Apart
<1>3. ASSUME NEW i \in 1 .. Len(bes) PROVE Current(i)'
    <2>1. Current(i) /\ bes[i] \in BufferEvent
        BY <1>1 DEF Coalesced
    <2>2. bes[i].buf \in Buffers /\ ("IN" \in bes[i].rd => bes[i].buf # 0)
        BY <2>1, <1>1 DEF Coalesced, BufferEvent
    <2>3. bes[i].buf # 0 => bes[i].buf - 1 \in Children
        BY <2>2, Neighbours
    <2> QED  BY <2>1, <2>2, <2>3 DEF Current, fds
<1> QED  BY <1>2, <1>3

\* The buffer is filled: of the buffer events still to be written and read,
\* none but the one in hand reads into it.
LEMMA TurnRead ==
    ASSUME DataTypes, StateTypes, TurnInv, ReadIn
    PROVE  TurnInv'
<1> DEFINE b == be.buf
<1>1. InTurn /\ parent = "read" /\ Coalesced(bes) /\ \A i \in 1 .. Len(bes) : Current(i)
    BY DEF ReadIn, InTurn, TurnInv
<1>2. /\ bes \in Seq(BufferEvent) /\ at \in 1 .. Len(bes) /\ Len(bes) \in Nat
      /\ be \in BufferEvent /\ b \in Buffers
      /\ be.rd \subseteq {"IN", "HUP", "FAKE"} /\ be.wr \subseteq {"OUT", "ERR", "FAKE"}
      /\ "FAKE" \in be.rd => b = 0
      /\ "IN" \in be.rd => b # 0
      /\ be.rd # {} => rdOpen[b]
    BY <1>1, InHand
<1>3. UNCHANGED <<fds, child, killed, toChild>>
    BY DEF ReadIn, others
<1> SUFFICES ASSUME InTurn' PROVE Coalesced(bes)' /\ (at \in 1 .. Len(bes))'
                                  /\ \A i \in 1 .. Len(bes') : Current(i)'
    BY DEF TurnInv
<1>4. \/ parent' = "write" /\ at' = at - 1 /\ at > 1
      \/ parent' = "close" /\ at' = 1
    BY DEF ReadIn, AfterData, InTurn
<1>5. CASE ~ MayRead
    <2>1. UNCHANGED <<unread, fromChild, bes>>
        BY <1>5 DEF ReadIn
    <2>2. Coalesced(bes)' /\ (at \in 1 .. Len(bes))'
        BY <1>1, <1>2, <1>4, <2>1 DEF Coalesced, Apart
    <2>3. ASSUME NEW i \in 1 .. Len(bes) PROVE Current(i)'
        <3>1. Current(i)
            BY <1>1
        <3>2. parent' \in {"write", "read"} /\ i <= at' => i <= at
            BY <1>2, <1>4
        <3> QED  BY <3>1, <3>2, <2>1, <1>1, <1>3, <1>4 DEF Current, Dead, fds
    <2> QED  BY <2>1, <2>2, <2>3
<1>6. CASE MayRead /\ Source(b) # << >>
    <2>1. /\ UNCHANGED bes
          /\ b = 0 => UNCHANGED fromChild
          /\ b # 0 => UNCHANGED unread /\ fromChild' = [fromChild EXCEPT ![b - 1] = Leave(@, BufSize)]
          /\ b = 0 => unread # << >>
          /\ b # 0 => fromChild[b - 1] # << >>
          /\ "FAKE" \in be.rd \/ "IN" \in be.rd
        BY <1>6 DEF ReadIn, Source, MayRead
    <2>2. Coalesced(bes)' /\ (at \in 1 .. Len(bes))'
        BY <1>1, <1>2, <1>4, <2>1 DEF Coalesced, Apart
    <2>3. ASSUME NEW i \in 1 .. Len(bes) PROVE Current(i)'
        <3> DEFINE d == bes[i].buf
        <3>1. Current(i) /\ bes[i] \in BufferEvent
            BY <1>1, <1>2
        <3>2. d \in Buffers /\ ("IN" \in bes[i].rd => d # 0)
            BY <3>1, <1>1 DEF Coalesced, BufferEvent
        <3>3. parent' \in {"write", "read"} /\ i <= at' => i < at
            BY <1>2, <1>4
        <3>4. CASE d # b
            <4>1. d = 0 => unread' = unread
                BY <3>4, <2>1
            <4>2. d # 0 => fromChild'[d - 1] = fromChild[d - 1]
                <5>1. d # 0 => d - 1 \in Children
                    BY <3>2, Neighbours
                <5>2. d # 0 /\ b # 0 => d - 1 # b - 1
                    BY <3>4, <3>2, <1>2, Neighbours
                <5>3. fromChild \in [Children -> Pieces]
                    BY DEF DataTypes
                <5> HIDE DEF d, b
                <5> QED  BY <2>1, <5>1, <5>2, <5>3
            <4>3. bes' = bes /\ UNCHANGED <<rdOpen, wrOpen, child, killed>>
                BY <2>1, <1>3 DEF fds
            <4>4. parent' \in {"write", "read"} /\ i <= at' => i <= at
                BY <3>3, <1>2
            <4> HIDE DEF b
            <4> QED  BY <4>1, <4>2, <4>3, <4>4, <3>1, <3>2, <1>1 DEF Current, Dead
        <3>5. CASE d = b
            <4>1. i < at => FALSE
                <5>1. ASSUME i < at PROVE Apart(bes) /\ at = 3
                    BY <5>1, <3>5, <1>1, <1>2 DEF Coalesced, be
                <5> QED  BY <5>1, <2>1 DEF Apart, be
            <4>2. d = 0 => "HUP" \notin bes[i].rd
                BY <3>1, <3>5, <2>1 DEF Current
            <4>3. d # 0 /\ "HUP" \in bes[i].rd => Dead(d - 1) /\ "IN" \in bes[i].rd
                BY <3>1, <3>5, <2>1 DEF Current
            <4>4. d # 0 => unread' = unread
                BY <3>5, <2>1
            <4>5. (bes[i].rd # {} => rdOpen[d]) /\ (bes[i].wr # {} => wrOpen[d])
                  /\ ("ERR" \in bes[i].wr => killed # {})
                BY <3>1, <1>1 DEF Current
            <4>6. bes' = bes /\ UNCHANGED <<rdOpen, wrOpen, child, killed>>
                BY <2>1, <1>3 DEF fds
            <4>7. ~ (parent' \in {"write", "read"} /\ i <= at')
                BY <4>1, <3>3
            <4> HIDE DEF b
            <4> QED  BY <4>2, <4>3, <4>5, <4>6, <4>7 DEF Current, Dead
        <3> QED  BY <3>4, <3>5
    <2> QED  BY <2>1, <2>2, <2>3
<1>7. CASE MayRead /\ Source(b) = << >>
    <2>1. b = 0 /\ "FAKE" \in be.rd /\ unread = << >> /\ rdOpen[0]
        <3>1. "IN" \in be.rd => b # 0 /\ fromChild[b - 1] # << >>
            <4>1. Current(at) /\ at <= at
                BY <1>1, <1>2
            <4> QED  BY <4>1, <1>1, <1>2 DEF Current, be
        <3>2. "FAKE" \in be.rd
            BY <3>1, <1>7 DEF Source, MayRead
        <3> QED  BY <3>2, <1>2, <1>7 DEF Source
    <2>2. /\ bes' = [bes EXCEPT ![at].rd = (@ \ {"IN"}) \cup {"HUP"}]
          /\ unread' = Leave(unread, BufSize) /\ UNCHANGED fromChild
        BY <1>7, <2>1 DEF ReadIn
    <2>3. unread' = << >>
        <3>1. unread \in Pieces /\ Len(unread) = 0
            BY <2>1, PiecesNone DEF DataTypes
        <3>2. Leave(unread, BufSize) \in Pieces /\ Len(Leave(unread, BufSize)) = 0
            BY <3>1, PiecesTaken, Sizes
        <3> QED  BY <2>2, <3>2 DEF Pieces
    <2>4. /\ Len(bes') = Len(bes) /\ bes' \in Seq(BufferEvent)
          /\ \A i \in 1 .. Len(bes) : i # at => bes'[i] = bes[i]
          /\ bes'[at].buf = 0 /\ bes'[at].wr = be.wr /\ bes'[at].rd = (be.rd \ {"IN"}) \cup {"HUP"}
        <3> DEFINE new == [bes[at] EXCEPT !.rd = (@ \ {"IN"}) \cup {"HUP"}]
        <3>1. /\ new.buf = 0 /\ new.wr = be.wr /\ new.rd = (be.rd \ {"IN"}) \cup {"HUP"}
              /\ new \in BufferEvent
            BY <1>2, <2>1 DEF be, BufferEvent
        <3>2. bes' = [bes EXCEPT ![at] = new]
            BY <2>2
        <3> HIDE DEF new
        <3> QED  BY <3>1, <3>2, <1>2
    <2>5. Coalesced(bes')
        <3>1. \A i \in 1 .. Len(bes) : bes'[i].buf = bes[i].buf /\ bes'[i].wr = bes[i].wr
            BY <2>4, <2>1 DEF be
        <3>2. /\ "FAKE" \in bes'[at].rd /\ "IN" \notin bes'[at].rd /\ bes'[at].buf = 0
            BY <2>4, <2>1, <1>2
        <3>3. Apart(bes) => Apart(bes')
            <4>1. ASSUME Apart(bes) PROVE Apart(bes')
                <5>1. at = 2
                    BY <4>1, <1>2, <2>1, Sizes DEF Apart, be
                <5> QED  BY <4>1, <5>1, <3>1, <3>2, <2>4 DEF Apart
            <4> QED  BY <4>1
        <3>4. \A i \in 1 .. Len(bes) :
                  /\ bes'[i].rd # {} \/ bes'[i].wr # {}
                  /\ "FAKE" \in bes'[i].wr => bes'[i].buf = ChildNr
                  /\ "FAKE" \in bes'[i].rd => bes'[i].buf = 0
                  /\ "IN" \in bes'[i].rd => bes'[i].buf # 0
                  /\ bes'[i].buf = ChildNr /\ "FAKE" \notin bes'[i].wr => Apart(bes) /\ i = 1
            <4> TAKE i \in 1 .. Len(bes)
            <4>1. CASE i = at
                BY <4>1, <3>1, <3>2, <1>1 DEF Coalesced
            <4>2. CASE i # at
                BY <4>2, <2>4, <1>1 DEF Coalesced
            <4> QED  BY <4>1, <4>2
        <3>5. \A i, j \in 1 .. Len(bes) :
                  i < j /\ bes'[i].buf = bes'[j].buf => Apart(bes) /\ i = 1 /\ j = 3
            BY <3>1, <1>1 DEF Coalesced
        <3>6. Len(bes) >= 1
            BY <1>1 DEF Coalesced
        <3> QED  BY <3>3, <3>4, <3>5, <3>6, <2>4 DEF Coalesced
    <2>6. ASSUME NEW i \in 1 .. Len(bes) PROVE Current(i)'
        <3>1. Current(i)
            BY <1>1
        <3>2. parent' \in {"write", "read"} /\ i <= at' => i < at
            BY <1>2, <1>4
        <3>3. CASE i # at
            <4>1. bes'[i] = bes[i] /\ (bes[i].buf = 0 => unread' = unread)
                BY <3>3, <2>1, <2>3, <2>4
            <4> QED  BY <4>1, <3>1, <3>2, <2>2, <1>1, <1>2, <1>3, <1>4 DEF Current, Dead, fds
        <3>4. CASE i = at
            <4>1. "ERR" \in be.wr => killed # {}
                BY <3>1, <3>4 DEF Current, be
            <4>2. (be.wr # {} => wrOpen[0])
                BY <3>1, <3>4, <1>1, <2>1 DEF Current, be
            <4>3. "IN" \notin bes'[i].rd
                BY <3>4, <2>4
            <4> QED  BY <3>4, <4>1, <4>2, <4>3, <2>1, <2>3, <2>4, <1>3 DEF Current, fds
        <3> QED  BY <3>3, <3>4
    <2>7. at' \in 1 .. Len(bes')
        BY <1>2, <1>4, <2>4
    <2> QED  BY <2>4, <2>5, <2>6, <2>7
<1> QED  BY <1>5, <1>6, <1>7

\* What is closed after one buffer event is not needed by those after it.
LEMMA TurnClose ==
    ASSUME StateTypes, Chained, TurnInv, Close
    PROVE  TurnInv'
<1> DEFINE b == be.buf
<1> SUFFICES ASSUME InTurn' PROVE Coalesced(bes)' /\ (at \in 1 .. Len(bes))'
                                  /\ \A i \in 1 .. Len(bes') : Current(i)'
    BY DEF TurnInv
<1>1. InTurn /\ parent = "close" /\ Coalesced(bes) /\ \A i \in 1 .. Len(bes) : Current(i)
    BY DEF Close, InTurn, TurnInv
<1>2. bes \in Seq(BufferEvent) /\ at \in 1 .. Len(bes) /\ Len(bes) \in Nat /\ b \in Buffers
    BY <1>1, InHand
<1>3. /\ at < Len(bes) /\ at' = at + 1 /\ UNCHANGED <<parent, bes>>
      /\ ~ (ClosesOutput /\ b = ChildNr)
    BY DEF Close, InTurn
<1>4. /\ \A d \in Buffers : d # b => rdOpen'[d] = rdOpen[d] /\ wrOpen'[d] = wrOpen[d]
      /\ wrOpen'[b] # wrOpen[b] => ClosesOutput
      /\ UNCHANGED <<data, others>>
    BY ClosingStep
<1>5. Coalesced(bes)' /\ (at \in 1 .. Len(bes))'
    BY <1>1, <1>2, <1>3 DEF Coalesced, Apart
<1>6. ASSUME NEW i \in 1 .. Len(bes) PROVE Current(i)'
    <2> DEFINE d == bes[i].buf
    <2>1. Current(i) /\ d \in Buffers
        <3>1. bes[i] \in BufferEvent
            BY <1>2
        <3>2. d \in Buffers
            BY <3>1 DEF BufferEvent
        <3> QED  BY <1>1, <3>2
    <2>2. i >= at' => i > at
        BY <1>2, <1>3
    <2>3. i > at /\ d = b => bes[i].rd = {} /\ b = ChildNr
        <3>1. ASSUME i > at, d = b PROVE bes[i].rd = {} /\ b = ChildNr
            <4>1. Apart(bes) /\ at = 1 /\ i = 3
                BY <3>1, <1>1, <1>2 DEF Coalesced, be
            <4> QED  BY <4>1 DEF Apart, be
        <3> QED  BY <3>1
    <2>4. i > at => /\ bes[i].rd # {} => rdOpen'[d]
                    /\ bes[i].wr # {} => wrOpen'[d]
        <3>1. ASSUME i > at
              PROVE  (bes[i].rd # {} => rdOpen[d]) /\ (bes[i].wr # {} => wrOpen[d])
            BY <3>1, <2>1, <1>2 DEF Current
        <3>2. d # b => rdOpen'[d] = rdOpen[d] /\ wrOpen'[d] = wrOpen[d]
            BY <1>4, <2>1
        <3>3. b = ChildNr => wrOpen'[b] = wrOpen[b]
            BY <1>3, <1>4
        <3> HIDE DEF d, b
        <3> QED  BY <2>3, <3>1, <3>2, <3>3
    <2>5. "HUP" \in bes[i].rd =>
              IF d = 0 THEN unread = << >>
              ELSE Dead(d - 1) /\ ("IN" \notin bes[i].rd => fromChild[d - 1] = << >>)
        BY <2>1 DEF Current
    <2>6. "ERR" \in bes[i].wr => killed # {}
        BY <2>1 DEF Current
    <2>7. bes'[i] = bes[i] /\ parent' = "close"
        BY <1>1, <1>3
    <2> QED  BY <2>2, <2>4, <2>5, <2>6, <2>7, <1>4 DEF Current, Dead, data, others
<1> QED  BY <1>3, <1>5, <1>6

\* Each step keeps what the turn relies on.
LEMMA TurnStep ==
    ASSUME DataTypes, StateTypes, Chained, TurnInv, [Next]_vars
    PROVE  TurnInv'
<1>1. CASE UNCHANGED vars
    BY <1>1, TurnKept DEF vars, fds, data, others, Dead, InTurn
<1>2. ASSUME NEW e \in Polled, EpollWait(e)
      PROVE  TurnInv'
    <2>1. /\ Coalesced(bes')
          /\ \A i \in 1 .. Len(bes') :
                LET b == bes'[i].buf
                IN  /\ bes'[i].rd # {} => rdOpen[b]
                    /\ bes'[i].wr # {} => wrOpen[b]
                    /\ "HUP" \in bes'[i].rd =>
                          b # 0 /\ Dead(b - 1) /\ ("IN" \notin bes'[i].rd => fromChild[b - 1] = << >>)
                    /\ "ERR" \in bes'[i].wr => killed # {}
                    /\ "IN" \in bes'[i].rd => fromChild[b - 1] # << >>
        BY <1>2, Begins
    <2>2. at' \in 1 .. Len(bes') /\ UNCHANGED <<unread, rdOpen, wrOpen, fromChild, child, killed>>
        <3>1. Len(bes') \in Nat /\ Len(bes') >= 1
            BY <2>1 DEF Coalesced
        <3> QED  BY <1>2, <3>1 DEF EpollWait, data, fds, others
    <2>3. \A i \in 1 .. Len(bes') : Current(i)'
        BY <2>1, <2>2 DEF Current, Dead
    <2> QED  BY <2>1, <2>2, <2>3 DEF TurnInv, Coalesced, Apart
<1>3. CASE WriteOut
    BY <1>3, TurnKept DEF WriteOut, fds, others, Dead, InTurn
<1>4. CASE ReadIn
    BY <1>4, TurnRead
<1>5. CASE Close
    BY <1>5, TurnClose
<1>6. CASE WaitForChildren
    BY <1>6 DEF WaitForChildren, TurnInv, InTurn
<1>7. ASSUME NEW c \in Children, ChildStep(c) \/ Kill(c)
      PROVE  TurnInv'
    <2>1. /\ InTurn' => parent' = parent
          /\ UNCHANGED <<bes, at, fds, unread>> /\ killed \subseteq killed'
        BY <1>7 DEF ChildStep, ChildRead, ChildWrite, ChildEof, Sigchld, Kill, InTurn, data
    <2>2. ASSUME NEW d \in Children
          PROVE  /\ Dead(d) => Dead(d)' /\ fromChild'[d] = fromChild[d]
                 /\ fromChild[d] # << >> => fromChild'[d] # << >>
        <3>1. CASE ChildWrite(c)
            <4>1. /\ child[c] = "write" /\ (d # c => child'[d] = child[d])
                  /\ fromChild' = [fromChild EXCEPT ![c] = @ \o Take(held[c], PipeSize - Len(@))]
                  /\ PipeSize - Len(fromChild[c]) > 0
                BY <3>1 DEF ChildWrite, StateTypes
            <4>2. d # c => fromChild'[d] = fromChild[d]
                BY <4>1 DEF DataTypes
            <4>3. fromChild[c] # << >> => fromChild'[c] # << >>
                <5> DEFINE n == PipeSize - Len(fromChild[c])
                           t == Take(held[c], n)
                <5>1. fromChild[c] \in Pieces /\ held[c] \in Pieces
                    BY DEF DataTypes
                <5>2. n \in Nat
                    BY <5>1, <4>1, PiecesJoined, Sizes
                <5> HIDE DEF n
                <5>3. t \in Pieces
                    BY <5>1, <5>2, PiecesTaken
                <5>4. fromChild'[c] = fromChild[c] \o t
                    BY <4>1 DEF DataTypes, n
                <5> HIDE DEF t
                <5>5. Len(fromChild[c] \o t) = Len(fromChild[c]) + Len(t)
                      /\ Len(fromChild[c]) \in Nat /\ Len(t) \in Nat
                    BY <5>1, <5>3, PiecesJoined
                <5>6. fromChild[c] # << >> => Len(fromChild[c]) > 0
                    BY <5>1 DEF Pieces
                <5>7. Len(<< >>) = 0
                    BY PiecesNone
                <5> QED  BY <5>4, <5>5, <5>6, <5>7
            <4> QED  BY <4>1, <4>2, <4>3 DEF Dead
        <3>2. CASE ~ ChildWrite(c)
            BY <1>7, <3>2 DEF ChildStep, ChildRead, ChildEof, Sigchld, Kill, StateTypes, Dead, data
        <3> QED  BY <3>1, <3>2
    <2> QED  BY <2>1, <2>2, TurnKept DEF InTurn
<1> QED
    BY <1>1, <1>2, <1>3, <1>4, <1>5, <1>6, <1>7 DEF Next, Turn, Finished

-----------------------------------------------------------------------------
(* Errors *)

\* A set of numbers has a least one: the induction along the chain.
LEMMA LeastNatural ==
    ASSUME NEW T, T \subseteq Nat, T # {}
    PROVE  \E n \in T : \A m \in T : n <= m
<1> DEFINE R == OpToRel(<, Nat)
<1>1. \E n \in T : \A m \in T : <<m, n>> \notin R
    <2>1. IsWellFoundedOn(R, Nat)
        BY NatLessThanWellFounded
    <2> HIDE DEF R
    <2> QED  BY <2>1, WFMin
<1>2. ASSUME NEW n \in T, NEW m \in T, <<m, n>> \notin R PROVE n <= m
    BY <1>2 DEF OpToRel
<1> QED  BY <1>1, <1>2

\* While the children live, a buffer whose input is closed has nothing but
\* closed ones before it.
LEMMA ClosedFromTheHead ==
    ASSUME StateTypes, Chained, killed = {}, NEW b \in Buffers, ~ rdOpen[b]
    PROVE  ~ rdOpen[0]
<1> DEFINE T == {d \in Buffers : ~ rdOpen[d]}
<1>1. T \subseteq Nat /\ T # {}
    BY DEF Buffers
<1>2. PICK n \in T : \A m \in T : n <= m
    BY <1>1, LeastNatural
<1>3. n \in Buffers /\ ~ rdOpen[n] /\ n \in Nat
    BY <1>1, <1>2
<1>4. CASE n # 0
    <2>1. n - 1 \in Children /\ n - 1 \in Buffers
        BY <1>3, <1>4, Neighbours
    <2>2. Dead(n - 1) /\ n - 1 \notin killed
        BY <1>3, <1>4 DEF Chained
    <2>3. ~ wrOpen[n - 1]
        BY <2>1, <2>2 DEF Chained
    <2>4. n - 1 \in T
        BY <2>1, <2>3 DEF Chained
    <2>5. n <= n - 1
        BY <1>2, <2>4
    <2> QED  BY <2>5, <1>3
<1> QED  BY <1>3, <1>4

\* While the children live, no step uses a descriptor that fails.
LEMMA ErrorStep ==
    ASSUME DataTypes, StateTypes, Chained, TurnInv, NoErrors, [Next]_vars
    PROVE  NoErrors'
<1>1. CASE UNCHANGED vars
    BY <1>1 DEF NoErrors, vars, others
<1>2. CASE WriteOut
    <2> DEFINE b == be.buf
    <2>1. InTurn /\ UNCHANGED killed
        BY <1>2 DEF WriteOut, InTurn, others
    <2>2. b \in Buffers /\ ("FAKE" \in be.wr => b = ChildNr) /\ (be.wr # {} => wrOpen[b])
        BY <2>1, InHand
    <2>3. parent' = "sigpipe" =>
              /\ b # ChildNr /\ child[b] \notin {"read", "write"}
              /\ "FAKE" \in be.wr \/ "OUT" \in be.wr
        BY <1>2 DEF WriteOut
    <2>4. parent' = "sigpipe" => killed # {}
        <3>1. ASSUME parent' = "sigpipe" PROVE killed # {}
            <4>1. b \in Children /\ wrOpen[b]
                BY <3>1, <2>2, <2>3, Neighbours
            <4>2. Dead(b)
                BY <3>1, <4>1, <2>3 DEF Dead, StateTypes
            <4>3. b \in killed
                BY <4>1, <4>2 DEF Chained
            <4> QED  BY <4>3
        <3> QED  BY <3>1
    <2>5. parent' # "failed"
        BY <1>2 DEF WriteOut
    <2> QED  BY <2>1, <2>4, <2>5 DEF NoErrors
<1>3. CASE ReadIn
    <2>1. InTurn /\ UNCHANGED killed
        BY <1>3 DEF ReadIn, InTurn, others
    <2>2. "ERR" \notin be.rd
        BY <2>1, InHand
    <2>3. "ERR" \in be.wr => killed # {}
        <3>1. Current(at)
            BY <2>1, InHand DEF TurnInv
        <3> QED  BY <3>1 DEF Current, be
    <2>4. parent' = "failed" => "ERR" \in be.wr
        BY <1>3, <2>2 DEF ReadIn, AfterData
    <2>5. parent' # "sigpipe"
        BY <1>3 DEF ReadIn, AfterData
    <2> QED  BY <2>1, <2>3, <2>4, <2>5 DEF NoErrors
<1>4. CASE Close
    <2> DEFINE b == be.buf
    <2>1. InTurn /\ parent = "close" /\ UNCHANGED killed
        BY <1>4 DEF Close, InTurn, others
    <2>2. /\ b \in Buffers /\ at \in 1 .. Len(bes)
          /\ be.rd # {} \/ be.wr # {}
          /\ be.rd # {} => rdOpen[b]
          /\ be.wr # {} => wrOpen[b]
        BY <2>1, InHand
    <2>3. ~ InputFails
        BY <2>2 DEF InputFails, ClosesInput
    <2>4. OutputFails => killed # {}
        <3> SUFFICES ASSUME OutputFails, killed = {} PROVE FALSE
            OBVIOUS
        <3>1. ~ rdOpen'[b] /\ "FAKE" \notin be.wr /\ (b = ChildNr \/ ~ wrOpen[b])
            BY DEF OutputFails, ClosesOutput
        <3>2. CASE b # ChildNr
            <4>1. ~ wrOpen[b] /\ ~ rdOpen[b]
                BY <3>1, <3>2, <2>2 DEF Chained
            <4> QED  BY <4>1, <2>2
        <3>3. CASE b = ChildNr
            <4>1. Apart(bes) /\ at = 1 /\ (\A i \in 1 .. Len(bes) : Current(i))
                BY <3>1, <3>3, <2>1, <2>2 DEF TurnInv, Coalesced, be
            <4>2. rdOpen[0]
                <5>1. Current(2) /\ 2 >= at /\ bes[2].buf = 0 /\ bes[2].rd # {}
                    BY <4>1 DEF Apart
                <5> QED  BY <5>1 DEF Current
            <4>3. /\ rdOpen'[b] # rdOpen[b] => ClosesInput
                  /\ ClosesInput => IF b = 0 THEN unread = << >>
                                    ELSE Dead(b - 1) /\ fromChild[b - 1] = << >>
                BY <1>4, ClosingStep
            <4>4. Dead(b - 1)
                <5>1. b # 0
                    BY <3>3, Ends0
                <5>2. CASE ClosesInput
                    BY <4>3, <5>1, <5>2
                <5>3. CASE ~ rdOpen[b]
                    BY <2>2, <5>1, <5>3 DEF Chained
                <5> QED  BY <3>1, <4>3, <5>2, <5>3
            <4>5. b - 1 \in Children /\ b - 1 \in Buffers
                BY <2>2, <3>3, Ends0, Neighbours
            <4>6. ~ wrOpen[b - 1]
                BY <4>4, <4>5 DEF Chained
            <4>7. ~ rdOpen[b - 1]
                BY <4>5, <4>6 DEF Chained
            <4>8. ~ rdOpen[0]
                BY <4>5, <4>7, ClosedFromTheHead
            <4> QED  BY <4>2, <4>8
        <3> QED  BY <3>2, <3>3
    <2>5. parent' = "failed" => OutputFails
        BY <1>4, <2>1, <2>3 DEF Close
    <2>6. parent' # "sigpipe"
        BY <1>4, <2>1 DEF Close
    <2> QED  BY <2>1, <2>4, <2>5, <2>6 DEF NoErrors
<1>5. ASSUME \/ \E e \in Polled : EpollWait(e)
             \/ WaitForChildren
             \/ \E c \in Children : ChildStep(c) \/ Kill(c)
      PROVE  NoErrors'
    <2>1. /\ killed \subseteq killed'
          /\ parent' = parent \/ parent' \in {"write", "ok", "childFailed", "interrupted"}
        BY <1>5 DEF EpollWait, WaitForChildren, ChildStep, ChildRead, ChildWrite, ChildEof,
                    Sigchld, Kill, others
    <2> QED  BY <2>1 DEF NoErrors
<1> QED
    BY <1>1, <1>2, <1>3, <1>4, <1>5 DEF Next, Turn, Finished

-----------------------------------------------------------------------------
(* Where the pieces are *)

\* At the start all of the file is in the input.
LEMMA InitPlaced == Init => Placed
<1> SUFFICES ASSUME Init PROVE Placed
    OBVIOUS
<1> DEFINE A == [b \in Buffers |-> 0]
           F == [c \in Children |-> 0]
<1>1. Seg(File, 0, FileLen)
    BY Sizes DEF Seg, File
<1>2. \A c \in Children : c \in Buffers /\ c + 1 \in Buffers
    BY Neighbours
<1>3. Cuts(A, A, F, F)
    BY <1>1, <1>2, Ends0, SegNone DEF Init, Cuts
<1> QED  BY <1>3 DEF Placed

\* Cuts for the next state are enough, whatever they are called.
LEMMA NowPlaced ==
    \A A, B \in [Buffers -> Nat], F, H \in [Children -> Nat] :
        /\ Seg(output', 0, A[ChildNr])
        /\ \A b \in Buffers : Seg(buf'[b], A[b], B[b])
        /\ \A c \in Children : Seg(fromChild'[c], B[c + 1], F[c])
        /\ \A c \in Children : Seg(held'[c], F[c], H[c])
        /\ \A c \in Children : Seg(toChild'[c], H[c], A[c])
        /\ Seg(unread', B[0], FileLen)
        => Placed'
<1> TAKE A, B \in [Buffers -> Nat], F, H \in [Children -> Nat]
<1> HAVE /\ Seg(output', 0, A[ChildNr])
         /\ \A b \in Buffers : Seg(buf'[b], A[b], B[b])
         /\ \A c \in Children : Seg(fromChild'[c], B[c + 1], F[c])
         /\ \A c \in Children : Seg(held'[c], F[c], H[c])
         /\ \A c \in Children : Seg(toChild'[c], H[c], A[c])
         /\ Seg(unread', B[0], FileLen)
<1>1. Cuts(A, B, F, H)'
    BY DEF Cuts
<1> QED  BY <1>1 DEF Placed

\* One cut is moved.
LEMMA PlacedStep ==
    ASSUME DataTypes, Chained, TurnInv, Placed, [Next]_vars
    PROVE  Placed'
<1> PICK A \in [Buffers -> Nat], B \in [Buffers -> Nat],
         F \in [Children -> Nat], H \in [Children -> Nat] : Cuts(A, B, F, H)
    BY DEF Placed
<1>0. /\ Seg(output, 0, A[ChildNr])
      /\ \A b \in Buffers : Seg(buf[b], A[b], B[b])
      /\ \A c \in Children : Seg(fromChild[c], B[c + 1], F[c])
      /\ \A c \in Children : Seg(held[c], F[c], H[c])
      /\ \A c \in Children : Seg(toChild[c], H[c], A[c])
      /\ Seg(unread, B[0], FileLen)
    BY DEF Cuts
<1> HIDE DEF Cuts
<1>1. CASE UNCHANGED data
    BY <1>1, <1>0 DEF Placed, Cuts, data
<1>2. CASE WriteOut /\ UNCHANGED <<output, toChild, buf>>
    BY <1>1, <1>2 DEF WriteOut, data
<1>3. CASE /\ WriteOut /\ be.buf = ChildNr /\ UNCHANGED toChild
           /\ output' = output \o buf[ChildNr] /\ buf' = [buf EXCEPT ![ChildNr] = << >>]
    <2> DEFINE A1 == [A EXCEPT ![ChildNr] = B[ChildNr]]
    <2>1. A1 \in [Buffers -> Nat] /\ A1[ChildNr] = B[ChildNr]
          /\ \A b \in Buffers : b # ChildNr => A1[b] = A[b]
        BY Ends0
    <2>2. buf'[ChildNr] = << >> /\ \A b \in Buffers : b # ChildNr => buf'[b] = buf[b]
        BY <1>3, Ends0 DEF DataTypes
    <2> HIDE DEF A1
    <2>3. Seg(output', 0, A1[ChildNr])
        BY <1>0, <1>3, <2>1, Ends0, SegJoin
    <2>4. \A b \in Buffers : Seg(buf'[b], A1[b], B[b])
        BY <1>0, <2>1, <2>2, Ends0, SegNone
    <2>5. UNCHANGED <<unread, fromChild, held, toChild>>
        BY <1>3 DEF WriteOut
    <2>6. \A c \in Children : A1[c] = A[c]
        BY <2>1, Neighbours
    <2>7. \A c \in Children : Seg(toChild'[c], H[c], A1[c])
        BY <1>0, <2>5, <2>6
    <2> QED  BY <1>0, <2>1, <2>3, <2>4, <2>5, <2>7, NowPlaced
<1>4. ASSUME NEW b \in Children, WriteOut, UNCHANGED output,
             toChild' = [toChild EXCEPT ![b] = @ \o Take(buf[b], PipeSize - Len(toChild[b]))],
             buf' = [buf EXCEPT ![b] = Leave(@, PipeSize - Len(toChild[b]))]
      PROVE  Placed'
    <2> DEFINE n == PipeSize - Len(toChild[b])
               m == A[b] + Min2(n, Len(buf[b]))
               A1 == [A EXCEPT ![b] = m]
    <2>0. b \in Buffers /\ b # ChildNr
        BY Neighbours
    <2>1. n \in Nat
        BY Sizes, PiecesJoined DEF DataTypes
    <2>2. /\ m \in Nat
          /\ Seg(Take(buf[b], n), A[b], m) /\ Seg(Leave(buf[b], n), m, B[b])
        BY <1>0, <2>0, <2>1, SegCut
    <2>3. /\ toChild'[b] = toChild[b] \o Take(buf[b], n)
          /\ \A c \in Children : c # b => toChild'[c] = toChild[c]
          /\ buf'[b] = Leave(buf[b], n)
          /\ \A d \in Buffers : d # b => buf'[d] = buf[d]
        BY <1>4, <2>0 DEF DataTypes
    <2> HIDE DEF n, m
    <2>4. A1 \in [Buffers -> Nat] /\ A1[b] = m
          /\ \A d \in Buffers : d # b => A1[d] = A[d]
        BY <2>0, <2>2
    <2> HIDE DEF A1
    <2>5. Seg(toChild'[b], H[b], A1[b])
        BY <1>0, <2>2, <2>3, <2>4, SegJoin
    <2>6. \A c \in Children : Seg(toChild'[c], H[c], A1[c])
        BY <1>0, <2>3, <2>4, <2>5, Neighbours
    <2>7. \A d \in Buffers : Seg(buf'[d], A1[d], B[d])
        BY <1>0, <2>2, <2>3, <2>4
    <2>8. UNCHANGED <<unread, fromChild, held, output>> /\ A1[ChildNr] = A[ChildNr]
        BY <1>4, <2>0, <2>4, Ends0 DEF WriteOut
    <2> QED  BY <1>0, <2>4, <2>6, <2>7, <2>8, NowPlaced
<1>5. CASE ReadIn
    <2> DEFINE b == be.buf
    <2>0. b \in Buffers /\ UNCHANGED <<toChild, held, output>>
        BY <1>5, InHand DEF ReadIn, InTurn
    <2>1. CASE UNCHANGED <<unread, fromChild, buf>>
        BY <1>1, <2>0, <2>1 DEF data
    <2>2. CASE /\ buf[b] = << >> /\ buf' = [buf EXCEPT ![b] = Take(Source(b), BufSize)]
               /\ IF b = 0
                    THEN unread' = Leave(unread, BufSize) /\ UNCHANGED fromChild
                    ELSE /\ fromChild' = [fromChild EXCEPT ![b - 1] = Leave(@, BufSize)]
                         /\ UNCHANGED unread
        <3> DEFINE s == Source(b)
                   hi == IF b = 0 THEN FileLen ELSE F[b - 1]
                   m == B[b] + Min2(BufSize, Len(s))
                   B1 == [B EXCEPT ![b] = m]
        <3>1. b # 0 => b - 1 \in Children /\ b - 1 + 1 = b
            BY <2>0, Neighbours
        <3>2. Seg(s, B[b], hi)
            BY <1>0, <3>1 DEF Source
        <3> HIDE DEF b
        <3>3. A[b] = B[b]
            BY <1>0, <2>0, <2>2, SegSize
        <3>4. m \in Nat /\ Seg(Take(s, BufSize), B[b], m) /\ Seg(Leave(s, BufSize), m, hi)
            BY <3>2, SegCut, Sizes
        <3> HIDE DEF m
        <3>5. B1 \in [Buffers -> Nat] /\ B1[b] = m
              /\ \A d \in Buffers : d # b => B1[d] = B[d]
            BY <2>0, <3>4
        <3>6. /\ buf'[b] = Take(s, BufSize)
              /\ \A d \in Buffers : d # b => buf'[d] = buf[d]
            BY <2>0, <2>2 DEF DataTypes
        <3> HIDE DEF B1
        <3>7. \A d \in Buffers : Seg(buf'[d], A[d], B1[d])
            BY <1>0, <3>3, <3>4, <3>5, <3>6
        <3>8. Seg(unread', B1[0], FileLen)
            <4>1. CASE b = 0
                BY <4>1, <2>2, <3>4, <3>5 DEF Source
            <4>2. CASE b # 0
                BY <4>2, <1>0, <2>2, <3>5, Ends0
            <4> QED  BY <4>1, <4>2
        <3>9. ASSUME NEW c \in Children PROVE Seg(fromChild'[c], B1[c + 1], F[c])
            <4>1. c + 1 \in Buffers /\ c + 1 # 0 /\ c \in Int /\ b \in Int
                BY <2>0, Neighbours DEF Children
            <4>2. CASE c + 1 = b
                <5>1. b # 0 /\ c = b - 1
                    BY <4>1, <4>2
                <5>2. fromChild'[c] = Leave(fromChild[c], BufSize)
                    BY <5>1, <2>2 DEF DataTypes
                <5>3. Leave(s, BufSize) = Leave(fromChild[c], BufSize) /\ hi = F[c]
                    BY <5>1 DEF Source
                <5> QED  BY <5>2, <5>3, <4>2, <3>4, <3>5
            <4>3. CASE c + 1 # b
                <5>1. fromChild'[c] = fromChild[c]
                    <6>1. b # 0 => c # b - 1
                        BY <4>1, <4>3
                    <6> QED  BY <6>1, <3>1, <2>2 DEF DataTypes
                <5>2. B1[c + 1] = B[c + 1]
                    BY <4>1, <4>3, <3>5
                <5> QED  BY <5>1, <5>2, <1>0
            <4> QED  BY <4>2, <4>3
        <3> QED  BY <1>0, <2>0, <3>5, <3>7, <3>8, <3>9, NowPlaced
    <2> QED  BY <1>5, <2>1, <2>2 DEF ReadIn, MayRead
<1>6. ASSUME NEW c \in Children, ChildRead(c)
      PROVE  Placed'
    <2> DEFINE m == H[c] + Min2(ChildBufSize, Len(toChild[c]))
               H1 == [H EXCEPT ![c] = m]
    <2>1. held[c] = << >>
        BY <1>6 DEF ChildRead, Chained
    <2>2. F[c] = H[c]
        BY <1>0, <2>1, SegSize
    <2>3. /\ m \in Nat /\ Seg(Take(toChild[c], ChildBufSize), H[c], m)
          /\ Seg(Leave(toChild[c], ChildBufSize), m, A[c])
        BY <1>0, SegCut, Sizes
    <2>4. /\ held'[c] = Take(toChild[c], ChildBufSize) /\ toChild'[c] = Leave(toChild[c], ChildBufSize)
          /\ \A d \in Children : d # c => held'[d] = held[d] /\ toChild'[d] = toChild[d]
          /\ UNCHANGED <<unread, buf, fromChild, output>>
        BY <1>6 DEF ChildRead, DataTypes
    <2> HIDE DEF m
    <2>5. H1 \in [Children -> Nat] /\ H1[c] = m /\ \A d \in Children : d # c => H1[d] = H[d]
        BY <2>3
    <2> HIDE DEF H1
    <2>6. \A d \in Children : Seg(held'[d], F[d], H1[d]) /\ Seg(toChild'[d], H1[d], A[d])
        BY <1>0, <2>2, <2>3, <2>4, <2>5
    <2> QED  BY <1>0, <2>4, <2>5, <2>6, NowPlaced
<1>7. ASSUME NEW c \in Children, ChildWrite(c)
      PROVE  Placed'
    <2> DEFINE n == PipeSize - Len(fromChild[c])
               m == F[c] + Min2(n, Len(held[c]))
               F1 == [F EXCEPT ![c] = m]
    <2>1. n \in Nat
        BY Sizes, PiecesJoined DEF DataTypes
    <2>2. /\ m \in Nat /\ Seg(Take(held[c], n), F[c], m) /\ Seg(Leave(held[c], n), m, H[c])
        BY <1>0, <2>1, SegCut
    <2>3. /\ fromChild'[c] = fromChild[c] \o Take(held[c], n) /\ held'[c] = Leave(held[c], n)
          /\ \A d \in Children : d # c => held'[d] = held[d] /\ fromChild'[d] = fromChild[d]
          /\ UNCHANGED <<unread, buf, toChild, output>>
        BY <1>7 DEF ChildWrite, DataTypes
    <2> HIDE DEF n, m
    <2>4. F1 \in [Children -> Nat] /\ F1[c] = m /\ \A d \in Children : d # c => F1[d] = F[d]
        BY <2>2
    <2> HIDE DEF F1
    <2>5. Seg(fromChild'[c], B[c + 1], F1[c])
        BY <1>0, <2>2, <2>3, <2>4, SegJoin
    <2>6. \A d \in Children : Seg(held'[d], F1[d], H[d]) /\ Seg(fromChild'[d], B[d + 1], F1[d])
        BY <1>0, <2>2, <2>3, <2>4, <2>5
    <2>7. /\ \A d \in Children : Seg(held'[d], F1[d], H[d])
          /\ \A d \in Children : Seg(fromChild'[d], B[d + 1], F1[d])
          /\ \A d \in Children : Seg(toChild'[d], H[d], A[d])
          /\ \A d \in Buffers : Seg(buf'[d], A[d], B[d])
          /\ Seg(output', 0, A[ChildNr]) /\ Seg(unread', B[0], FileLen)
        BY <1>0, <2>3, <2>6
    <2> QED  BY <2>4, <2>7, NowPlaced
<1>8. CASE WriteOut
    <2>1. \/ UNCHANGED <<output, toChild, buf>>
          \/ /\ be.buf = ChildNr /\ UNCHANGED toChild
             /\ output' = output \o buf[be.buf] /\ buf' = [buf EXCEPT ![be.buf] = << >>]
          \/ /\ be.buf # ChildNr /\ UNCHANGED output
             /\ toChild' = [toChild EXCEPT ![be.buf] = @ \o Take(buf[be.buf], PipeSize - Len(toChild[be.buf]))]
             /\ buf' = [buf EXCEPT ![be.buf] = Leave(@, PipeSize - Len(toChild[be.buf]))]
        BY <1>8 DEF WriteOut
    <2>2. be.buf \in Buffers
        BY <1>8, InHand DEF WriteOut, InTurn
    <2>3. be.buf # ChildNr => be.buf \in Children
        BY <2>2, Neighbours
    <2> QED  BY <1>2, <1>3, <1>4, <1>8, <2>1, <2>3
<1> QED
    BY <1>1, <1>5, <1>6, <1>7, <1>8
    DEF Next, vars, data, Turn, EpollWait, Close, WaitForChildren, ChildStep, ChildEof,
        Sigchld, Kill, Finished

-----------------------------------------------------------------------------
(* The invariant holds *)

\* At the start.
LEMMA InvInit == Init => LoopInv
<1> SUFFICES ASSUME Init PROVE LoopInv
    OBVIOUS
<1>1. TypeOK /\ Placed
    BY InitTypes, InitPlaced, TypeParts
<1>2. Chained
    BY Ends0 DEF Init, Chained, Dead
<1>3. TurnInv /\ NoErrors
    BY DEF Init, TurnInv, InTurn, NoErrors
<1> QED  BY <1>1, <1>2, <1>3 DEF LoopInv

\* And after each step.
LEMMA InvNext == LoopInv /\ [Next]_vars => LoopInv'
<1> SUFFICES ASSUME LoopInv, [Next]_vars PROVE LoopInv'
    OBVIOUS
<1>1. DataTypes /\ StateTypes /\ Chained /\ TurnInv /\ NoErrors /\ Placed
    BY TypeParts DEF LoopInv
<1>2. DataTypes' /\ StateTypes'
    BY <1>1, DataStep, StateStep
<1>3. TypeOK'
    BY <1>2 DEF TypeOK, DataTypes, StateTypes, Modes, Running, InTurn, Pieces
<1>4. Chained'
    BY <1>1, ChainedStep
<1>5. TurnInv'
    BY <1>1, TurnStep
<1>6. NoErrors'
    BY <1>1, ErrorStep
<1>7. Placed'
    BY <1>1, PlacedStep
<1> QED  BY <1>3, <1>4, <1>5, <1>6, <1>7 DEF LoopInv

\* Everything the theorems below need of a state of the program.
THEOREM LoopInvariant == Spec => []LoopInv
BY InvInit, InvNext, PTL DEF Spec

\* Every variable keeps its type, and neither a pipe nor a buffer ever holds
\* more than it can (task.c:150-181, 417).
THEOREM TypeCorrect == Spec => []TypeOK
<1>1. LoopInv => TypeOK
    BY DEF LoopInv
<1> QED  BY <1>1, LoopInvariant, PTL

\* No descriptor is closed while there is something to pass, and while the
\* children live no operation on one fails (task.c:463-516).
THEOREM DownstreamTheorem == Spec => []ClosedDownstream
<1>1. LoopInv => ClosedDownstream
    BY DEF LoopInv, ClosedDownstream, Chained, Dead
<1> QED  BY <1>1, LoopInvariant, PTL

-----------------------------------------------------------------------------
(* The file *)

\* The cuts do not go beyond the file.
LEMMA CutsInFile ==
    ASSUME NEW A \in [Buffers -> Nat], NEW B \in [Buffers -> Nat],
           NEW F \in [Children -> Nat], NEW H \in [Children -> Nat], Cuts(A, B, F, H)
    PROVE  \A b \in Buffers : A[b] <= B[b] /\ B[b] <= FileLen
<1> DEFINE T == {b \in Buffers : ~ (B[b] <= FileLen)}
<1>1. /\ \A b \in Buffers : A[b] <= B[b]
      /\ \A c \in Children : B[c + 1] <= F[c] /\ F[c] <= H[c] /\ H[c] <= A[c]
      /\ B[0] <= FileLen
    BY SegSize DEF Cuts
<1>2. ASSUME T # {} PROVE FALSE
    <2>1. T \subseteq Nat
        BY DEF Buffers
    <2>2. PICK n \in T : \A m \in T : n <= m
        BY <1>2, <2>1, LeastNatural
    <2>3. n \in Buffers /\ n \in Nat /\ ~ (B[n] <= FileLen) /\ n # 0
        BY <1>1, <2>1, <2>2
    <2>4. n - 1 \in Children /\ n - 1 \in Buffers /\ n - 1 + 1 = n
        BY <2>3, Neighbours
    <2>5. B[n] <= B[n - 1]
        <3>1. B[n] <= F[n - 1] /\ F[n - 1] <= H[n - 1] /\ H[n - 1] <= A[n - 1] /\ A[n - 1] <= B[n - 1]
            BY <1>1, <2>4
        <3>2. /\ B[n] \in Nat /\ F[n - 1] \in Nat /\ H[n - 1] \in Nat /\ A[n - 1] \in Nat
              /\ B[n - 1] \in Nat
            BY <2>3, <2>4
        <3> QED  BY <3>1, <3>2
    <2>6. n - 1 \notin T
        BY <2>2, <2>3
    <2>7. B[n - 1] <= FileLen
        BY <2>4, <2>6
    <2> QED  BY <2>3, <2>4, <2>5, <2>7, Sizes
<1> QED  BY <1>1, <1>2

\* The pieces from a cut to the end of the file.
Rest(lo) == [i \in 1 .. FileLen - lo |-> lo + i]

\* It is made of what is between these two cuts.
LEMMA SegRest ==
    ASSUME NEW lo \in Nat, lo <= FileLen
    PROVE  Seg(Rest(lo), lo, FileLen)
BY Sizes DEF Seg, Rest

\* The recursion of InFlight has a solution: what is behind each buffer is the
\* rest of the file.
LEMMA InFlightIsRest ==
    ASSUME NEW A \in [Buffers -> Nat], NEW B \in [Buffers -> Nat],
           NEW F \in [Children -> Nat], NEW H \in [Children -> Nat], Cuts(A, B, F, H)
    PROVE  Seg(InFlight, A[ChildNr], FileLen)
<1> DEFINE stage(c) == fromChild[c] \o held[c] \o toChild[c] \o buf[c]
           D == -1 .. ChildNr - 1
           Is(f) == f = [c \in D |-> IF c = -1 THEN unread ELSE stage(c) \o f[c - 1]]
           g == [c \in D |-> Rest(B[c + 1])]
<1>1. InFlight = buf[ChildNr] \o (CHOOSE f : Is(f))[ChildNr - 1]
    BY DEF InFlight
<1>2. \A b \in Buffers : A[b] <= B[b] /\ B[b] <= FileLen
    BY CutsInFile
<1>3. ASSUME NEW c \in Children
      PROVE  Seg(stage(c), B[c + 1], B[c])
    <2>1. /\ Seg(fromChild[c], B[c + 1], F[c]) /\ Seg(held[c], F[c], H[c])
          /\ Seg(toChild[c], H[c], A[c]) /\ Seg(buf[c], A[c], B[c])
        BY Neighbours DEF Cuts
    <2>2. Seg(fromChild[c] \o held[c], B[c + 1], H[c])
        BY <2>1, SegJoin
    <2>3. Seg(fromChild[c] \o held[c] \o toChild[c], B[c + 1], A[c])
        BY <2>1, <2>2, SegJoin
    <2> QED  BY <2>1, <2>3, SegJoin
<1>4. Seg(unread, B[0], FileLen)
    BY DEF Cuts
<1>5. /\ -1 \in D /\ ChildNr - 1 \in D
      /\ \A c \in D : c # -1 => c \in Children /\ c - 1 \in D /\ c - 1 + 1 = c
      /\ \A c \in D : c + 1 \in Buffers
    BY Sizes DEF Children, Buffers
<1> HIDE DEF stage, D
<1>6. Is(g)
    <2>1. ASSUME NEW c \in D
          PROVE  Rest(B[c + 1]) = IF c = -1 THEN unread ELSE stage(c) \o g[c - 1]
        <3>0. B[c + 1] \in Nat /\ Seg(Rest(B[c + 1]), B[c + 1], FileLen)
            BY <1>2, <1>5, SegRest
        <3>1. CASE c = -1
            <4>1. c + 1 = 0
                BY <3>1
            <4> QED  BY <3>0, <3>1, <4>1, <1>4, SegSame
        <3>2. CASE c # -1
            <4>1. c \in Children /\ c \in Buffers /\ g[c - 1] = Rest(B[c])
                BY <3>2, <1>5, Neighbours
            <4>2. Seg(Rest(B[c]), B[c], FileLen)
                BY <4>1, <1>2, SegRest
            <4>3. Seg(stage(c) \o Rest(B[c]), B[c + 1], FileLen)
                BY <4>1, <4>2, <1>3, SegJoin
            <4> QED  BY <3>0, <3>2, <4>1, <4>3, SegSame
        <3> QED  BY <3>1, <3>2
    <2>2. g = [c \in D |-> IF c = -1 THEN unread ELSE stage(c) \o g[c - 1]]
        BY <2>1
    <2> QED  BY <2>2
<1>7. ASSUME NEW f, Is(f)
      PROVE  Seg(f[ChildNr - 1], B[ChildNr], FileLen)
    <2> DEFINE T == {n \in Buffers : ~ Seg(f[n - 1], B[n], FileLen)}
    <2>1. \A c \in D : f[c] = IF c = -1 THEN unread ELSE stage(c) \o f[c - 1]
        BY <1>7
    <2> HIDE DEF Is
    <2>2. ASSUME T # {} PROVE FALSE
        <3>1. T \subseteq Nat
            BY DEF Buffers
        <3>2. PICK n \in T : \A m \in T : n <= m
            BY <2>2, <3>1, LeastNatural
        <3>3. n \in Buffers /\ n \in Nat /\ ~ Seg(f[n - 1], B[n], FileLen)
            BY <3>1, <3>2
        <3>4. n # 0
            <4>1. f[0 - 1] = unread
                BY <2>1, <1>5
            <4> QED  BY <4>1, <3>3, <1>4
        <3>5. n - 1 \in Children /\ n - 1 \in Buffers /\ n - 1 + 1 = n /\ n - 1 # -1 /\ n - 1 \in D
            BY <3>3, <3>4, Neighbours DEF D, Children
        <3>6. n - 1 \notin T
            BY <3>2, <3>3
        <3>7. Seg(f[n - 1 - 1], B[n - 1], FileLen)
            BY <3>5, <3>6
        <3>8. Seg(stage(n - 1), B[n], B[n - 1])
            BY <3>5, <1>3
        <3>9. f[n - 1] = stage(n - 1) \o f[n - 1 - 1]
            BY <2>1, <3>5
        <3>10. Seg(f[n - 1], B[n], FileLen)
            BY <3>7, <3>8, <3>9, SegJoin
        <3> QED  BY <3>3, <3>10
    <2> QED  BY <2>2, Ends0
<1> DEFINE u == CHOOSE f : Is(f)
<1>8. Is(u)
    <2>1. \E f : Is(f)
        <3> HIDE DEF g
        <3> QED  BY <1>6
    <2> QED  BY <2>1, Zenon
<1>9. Seg(u[ChildNr - 1], B[ChildNr], FileLen)
    <2> HIDE DEF u, Is
    <2> QED  BY <1>7, <1>8
<1>10. Seg(buf[ChildNr], A[ChildNr], B[ChildNr])
    BY Ends0 DEF Cuts
<1>11. InFlight = buf[ChildNr] \o u[ChildNr - 1]
    BY <1>1
<1> HIDE DEF u
<1> QED  BY <1>9, <1>10, <1>11, SegJoin

\* While the children live, no piece of the file is lost, doubled or overtaken
\* between the input and the output; and whoever is killed, what was written is
\* the beginning of the file (task.c:411-461).
THEOREM ConservationTheorem == Spec => []FileIsConserved
<1>1. LoopInv => FileIsConserved
    <2> SUFFICES ASSUME LoopInv PROVE FileIsConserved
        OBVIOUS
    <2>1. PICK A \in [Buffers -> Nat], B \in [Buffers -> Nat],
               F \in [Children -> Nat], H \in [Children -> Nat] : Cuts(A, B, F, H)
        BY DEF LoopInv, Placed
    <2>2. Seg(output, 0, A[ChildNr])
        BY <2>1 DEF Cuts
    <2>3. Seg(InFlight, A[ChildNr], FileLen)
        BY <2>1, InFlightIsRest
    <2>4. Seg(File, 0, FileLen)
        BY Sizes DEF Seg, File
    <2>5. output \o InFlight = File
        <3>1. Seg(output \o InFlight, 0, FileLen)
            BY <2>2, <2>3, SegJoin
        <3> QED  BY <3>1, <2>4, SegSame
    <2>6. Len(output) = A[ChildNr] /\ A[ChildNr] \in Nat /\ A[ChildNr] <= FileLen
        BY <2>2, <2>3, SegSize
    <2>7. output = SubSeq(File, 1, Len(output))
        <3>1. Seg(Take(File, A[ChildNr]), 0, A[ChildNr])
            <4>1. Len(File) = FileLen /\ Min2(A[ChildNr], Len(File)) = A[ChildNr]
                BY <2>4, <2>6, SegSize, Sizes DEF Min2
            <4>2. Seg(Take(File, A[ChildNr]), 0, 0 + Min2(A[ChildNr], Len(File)))
                BY <2>4, <2>6, SegCut
            <4> QED  BY <4>1, <4>2, <2>6
        <3>2. Take(File, A[ChildNr]) = SubSeq(File, 1, A[ChildNr])
            BY <2>4, <2>6, SegSize, Sizes DEF Take, Min2
        <3> QED  BY <3>1, <3>2, <2>2, <2>6, SegSame
    <2> QED  BY <2>5, <2>6, <2>7 DEF FileIsConserved
<1> QED  BY <1>1, LoopInvariant, PTL

\* A parent that ends with status 0 has written the whole file, if no child was
\* killed (task.c:501-520).
THEOREM SuccessTheorem == Spec => []SuccessIsComplete
<1>1. LoopInv => SuccessIsComplete
    <2> SUFFICES ASSUME LoopInv, parent = "ok", killed = {} PROVE output = File
        BY DEF SuccessIsComplete
    <2>1. PICK A \in [Buffers -> Nat], B \in [Buffers -> Nat],
               F \in [Children -> Nat], H \in [Children -> Nat] : Cuts(A, B, F, H)
        BY DEF LoopInv, Placed
    <2>2. Chained
        BY DEF LoopInv
    <2> DEFINE T == {b \in Buffers : ~ wrOpen[b] /\ B[b] = A[ChildNr]}
    <2>3. ChildNr \in T
        <3>1. ~ wrOpen[ChildNr]
            BY <2>2 DEF Chained
        <3>2. buf[ChildNr] = << >>
            BY <2>2, <3>1, Ends0 DEF Chained
        <3>3. A[ChildNr] = B[ChildNr]
            BY <2>1, <3>2, Ends0, SegSize DEF Cuts
        <3> QED  BY <3>1, <3>3, Ends0
    <2>4. ASSUME NEW n \in T, n # 0 PROVE n - 1 \in T
        <3>1. n \in Buffers /\ n - 1 \in Children /\ n - 1 \in Buffers /\ n - 1 + 1 = n
              /\ ~ wrOpen[n] /\ B[n] = A[ChildNr]
            BY <2>4, Neighbours
        <3>2. fromChild[n - 1] = << >> /\ Dead(n - 1)
            BY <2>2, <2>4, <3>1 DEF Chained
        <3>3. ~ wrOpen[n - 1] /\ toChild[n - 1] = << >> /\ held[n - 1] = << >>
            BY <2>2, <3>1, <3>2 DEF Chained
        <3>4. buf[n - 1] = << >>
            BY <2>2, <3>1, <3>3 DEF Chained
        <3>5. /\ Seg(fromChild[n - 1], B[n], F[n - 1]) /\ Seg(held[n - 1], F[n - 1], H[n - 1])
              /\ Seg(toChild[n - 1], H[n - 1], A[n - 1]) /\ Seg(buf[n - 1], A[n - 1], B[n - 1])
            BY <2>1, <3>1 DEF Cuts
        <3>6. B[n] = F[n - 1] /\ F[n - 1] = H[n - 1] /\ H[n - 1] = A[n - 1] /\ A[n - 1] = B[n - 1]
            BY <3>2, <3>3, <3>4, <3>5, SegSize
        <3> QED  BY <3>1, <3>3, <3>6
    <2>5. 0 \in T
        <3>1. T \subseteq Nat /\ T # {}
            BY <2>3 DEF Buffers
        <3>2. PICK n \in T : \A m \in T : n <= m
            BY <3>1, LeastNatural
        <3>3. n = 0
            <4>1. ASSUME n # 0 PROVE FALSE
                <5>1. n - 1 \in T
                    BY <2>4, <3>2, <4>1
                <5>2. n <= n - 1 /\ n \in Nat
                    BY <3>1, <3>2, <5>1
                <5> QED  BY <5>2
            <4> QED  BY <4>1
        <3> QED  BY <3>2, <3>3
    <2>6. unread = << >>
        BY <2>2, <2>5 DEF Chained
    <2>7. A[ChildNr] = FileLen
        <3>1. B[0] = FileLen
            BY <2>1, <2>6, SegSize DEF Cuts
        <3> QED  BY <2>5, <3>1
    <2>8. Seg(output, 0, FileLen)
        BY <2>1, <2>7 DEF Cuts
    <2>9. Seg(File, 0, FileLen)
        BY Sizes DEF Seg, File
    <2> QED  BY <2>8, <2>9, SegSame
<1> QED  BY <1>1, LoopInvariant, PTL
=============================================================================

----------------------------- MODULE MPMC_proofs -----------------------------
(***************************************************************************)
(* Proofs about MPMC, for every set of producers and consumers, every      *)
(* amount of documents and every queue size (zero included).               *)
(*                                                                         *)
(* The inductive invariant IInv joins the typing, the ownership of the     *)
(* mutex, what a thread holds at each place (HandsMatch), the window of    *)
(* the ring, and what is settled once main has joined the producers        *)
(* (EndMatch). None of the parts is inductive alone: a take is well typed  *)
(* only because the window holds documents, and the window is only kept    *)
(* because the thread that moves it found room in the same step.           *)
(*                                                                         *)
(* Two more invariants stand on it: one that counts the threads that wait, *)
(* signal and look (no wakeup is lost), and one that follows the documents *)
(* from producers' hands to the printout.                                  *)
(***************************************************************************)
EXTENDS MPMC, SequenceTheorems, FiniteSetTheorems, TLAPS

\* No step touches anything when vars is unchanged.
LEMMA Stutter == IInv /\ UNCHANGED vars => IInv'
BY DEF IInv, vars, TypeOK, PlacesOK, CriticalSection, HandsMatch, RingConsistent,
       EndMatch, SlotAt

\* Init establishes the invariant.
LEMMA InitInv == Init => IInv
<1> SUFFICES ASSUME Init PROVE IInv
  OBVIOUS
<1> USE ThreadsAssumption, NumbersAssumption DEF Init
<1>1. TypeOK
  <2>1. PlacesOK
    BY DEF PlacesOK, Threads, ProducerPlaces, ConsumerPlaces, MainPlaces
  <2>2. queue \in [0 .. QueueSize - 1 -> Documents \cup {NoDoc}]
    OBVIOUS
  <2>3. /\ docCounter \in [Producers -> 0 .. Amount]
        /\ hand \in [Producers \cup Consumers -> Documents \cup {NoDoc}]
    OBVIOUS
  <2>4. /\ delivered \in Seq(Documents)
        /\ scanned \subseteq Documents
        /\ interrupts \in 0 .. MaxInterrupts
        /\ spurious \in 0 .. MaxSpurious
    OBVIOUS
  <2> QED
    BY <2>1, <2>2, <2>3, <2>4 DEF TypeOK
<1>2. CriticalSection
  BY DEF CriticalSection, Threads
<1>3. HandsMatch
  BY DEF HandsMatch, Threads
<1>4. RingConsistent
  BY DEF RingConsistent, SlotAt
<1>5. EndMatch
  BY DEF EndMatch, Threads
<1> QED
  BY <1>1, <1>2, <1>3, <1>4, <1>5 DEF IInv

\* A take or an insert happens only while the queue exists, so its indices
\* are inside the array.
LEMMA IndicesInRange ==
    ASSUME IInv, QueueSize > 0
    PROVE  head \in 0 .. QueueSize - 1 /\ tail \in 0 .. QueueSize - 1
BY NumbersAssumption DEF IInv, TypeOK, RingConsistent

\* The insert fills the one slot after the window: the documents in the window
\* stay where they are.
LEMMA InsertInv == ASSUME IInv, NEW p \in Producers, Insert(p) PROVE IInv'
<1> USE ThreadsAssumption, NumbersAssumption DEF IInv, Insert, Goto, Threads
<1>0. /\ QueueSize > 0
      /\ head \in 0 .. QueueSize - 1 /\ tail \in 0 .. QueueSize - 1
  BY IndicesInRange DEF TypeOK
<1>1. hand[p] \in Documents
  BY DEF TypeOK, HandsMatch, Documents
<1>2. TypeOK'
  <2>1. PlacesOK'
    BY DEF TypeOK, PlacesOK, ProducerPlaces, ConsumerPlaces, MainPlaces
  <2>2. /\ queue' \in [0 .. QueueSize - 1 -> Documents \cup {NoDoc}]
        /\ hand' \in [Producers \cup Consumers -> Documents \cup {NoDoc}]
    BY <1>1 DEF TypeOK
  <2>3. tail' \in Nat /\ used' \in Nat
    BY DEF TypeOK, Advance
  <2> QED
    BY <2>1, <2>2, <2>3 DEF TypeOK, counters
<1>3. CriticalSection'
  BY DEF TypeOK, PlacesOK, CriticalSection
<1>4. HandsMatch'
  BY DEF TypeOK, PlacesOK, HandsMatch
<1>5. RingConsistent'
  <2>1. used' <= QueueSize /\ head' < QueueSize /\ tail' < QueueSize
    BY <1>0 DEF TypeOK, RingConsistent, Advance
  <2>2. tail' = SlotAt(IF used = QueueSize THEN 0 ELSE used)'
    BY <1>0 DEF TypeOK, RingConsistent, Advance, SlotAt
  <2>3. ASSUME NEW k \in 1 .. used' PROVE queue'[SlotAt(k - 1)'] \in Documents
    <3>1. CASE k = used'
      <4>1. SlotAt(k - 1)' = tail
        BY <3>1 DEF TypeOK, RingConsistent, SlotAt
      <4> QED
        BY <4>1, <1>0, <1>1 DEF TypeOK
    <3>2. CASE k # used'
      <4>1. k \in 1 .. used /\ SlotAt(k - 1)' = SlotAt(k - 1)
        BY <3>2 DEF TypeOK, RingConsistent, SlotAt
      <4>2. SlotAt(k - 1) # tail
        BY <4>1 DEF TypeOK, RingConsistent, SlotAt
      <4> QED
        BY <4>1, <4>2 DEF TypeOK, RingConsistent
    <3> QED
      BY <3>1, <3>2
  <2> QED
    BY <2>1, <2>2, <2>3 DEF RingConsistent
<1>6. EndMatch'
  BY DEF TypeOK, PlacesOK, EndMatch
<1> QED
  BY <1>2, <1>3, <1>4, <1>5, <1>6

\* The take shortens the window at its head.
LEMMA TakeInv == ASSUME IInv, NEW c \in Consumers, Take(c) PROVE IInv'
<1> USE ThreadsAssumption, NumbersAssumption DEF IInv, Take, Goto, Threads
<1>0. /\ QueueSize > 0
      /\ head \in 0 .. QueueSize - 1 /\ tail \in 0 .. QueueSize - 1
  BY IndicesInRange DEF TypeOK, RingConsistent
<1>1. queue[head] \in Documents
  <2>1. 1 \in 1 .. used /\ SlotAt(1 - 1) = head
    BY <1>0 DEF TypeOK, SlotAt
  <2> QED
    BY <2>1 DEF RingConsistent
<1>2. TypeOK'
  <2>1. PlacesOK'
    BY DEF TypeOK, PlacesOK, ProducerPlaces, ConsumerPlaces, MainPlaces
  <2>2. hand' \in [Producers \cup Consumers -> Documents \cup {NoDoc}]
    BY <1>1 DEF TypeOK
  <2>3. delivered' \in Seq(Documents)
    BY <1>1 DEF TypeOK
  <2>4. head' \in Nat /\ used' \in Nat
    BY DEF TypeOK, Advance
  <2> QED
    BY <2>1, <2>2, <2>3, <2>4 DEF TypeOK, counters
<1>3. CriticalSection'
  BY DEF TypeOK, PlacesOK, CriticalSection
<1>4. HandsMatch'
  BY <1>1 DEF TypeOK, PlacesOK, HandsMatch
<1>5. RingConsistent'
  <2>1. used' <= QueueSize /\ head' < QueueSize /\ tail' < QueueSize
    BY <1>0 DEF TypeOK, RingConsistent, Advance
  <2>2. tail' = SlotAt(IF used = QueueSize THEN 0 ELSE used)'
    BY <1>0 DEF TypeOK, RingConsistent, Advance, SlotAt
  <2>3. ASSUME NEW k \in 1 .. used' PROVE queue'[SlotAt(k - 1)'] \in Documents
    <3>1. k + 1 \in 1 .. used /\ SlotAt(k - 1)' = SlotAt((k + 1) - 1)
      BY <1>0 DEF TypeOK, RingConsistent, SlotAt, Advance
    <3> QED
      BY <3>1 DEF RingConsistent
  <2> QED
    BY <2>1, <2>2, <2>3 DEF RingConsistent
<1>6. EndMatch'
  BY DEF TypeOK, PlacesOK, EndMatch
<1> QED
  BY <1>2, <1>3, <1>4, <1>5, <1>6

\* What producers and consumers do alike.
LEMMA AnyThreadInv ==
    ASSUME IInv, NEW t \in Producers \cup Consumers
    PROVE  (Lock(t) \/ Reacquire(t) \/ SpuriousWakeup(t)) => IInv'
<1> USE ThreadsAssumption, NumbersAssumption
       DEF IInv, Goto, ring, counters, Threads
<1>1. ASSUME Lock(t) PROVE IInv'
  <2> USE <1>1 DEF Lock, Acquire
  <2>1. PlacesOK'
    BY DEF TypeOK, PlacesOK, ProducerPlaces, ConsumerPlaces, MainPlaces
  <2>2. TypeOK'
    BY <2>1 DEF TypeOK, HandsMatch, PlacesOK
  <2>3. CriticalSection'
    BY DEF TypeOK, PlacesOK, CriticalSection
  <2>4. HandsMatch'
    BY DEF TypeOK, PlacesOK, HandsMatch
  <2>5. RingConsistent'
    BY DEF RingConsistent, SlotAt
  <2>6. EndMatch'
    BY DEF TypeOK, PlacesOK, EndMatch
  <2> QED
    BY <2>2, <2>3, <2>4, <2>5, <2>6
<1>2. ASSUME Reacquire(t) PROVE IInv'
  <2> USE <1>2 DEF Reacquire, Acquire
  <2>1. PlacesOK'
    BY DEF TypeOK, PlacesOK, ProducerPlaces, ConsumerPlaces, MainPlaces
  <2>2. TypeOK'
    BY <2>1 DEF TypeOK, HandsMatch, PlacesOK
  <2>3. CriticalSection'
    BY DEF TypeOK, PlacesOK, CriticalSection
  <2>4. HandsMatch'
    BY DEF TypeOK, PlacesOK, HandsMatch
  <2>5. RingConsistent'
    BY DEF RingConsistent, SlotAt
  <2>6. EndMatch'
    BY DEF TypeOK, PlacesOK, EndMatch
  <2> QED
    BY <2>2, <2>3, <2>4, <2>5, <2>6
<1>3. ASSUME SpuriousWakeup(t) PROVE IInv'
  <2> USE <1>3 DEF SpuriousWakeup
  <2>1. PlacesOK'
    BY DEF TypeOK, PlacesOK, ProducerPlaces, ConsumerPlaces, MainPlaces
  <2>2. TypeOK'
    BY <2>1 DEF TypeOK, HandsMatch, PlacesOK
  <2>3. CriticalSection'
    BY DEF TypeOK, PlacesOK, CriticalSection
  <2>4. HandsMatch'
    BY DEF TypeOK, PlacesOK, HandsMatch
  <2>5. RingConsistent'
    BY DEF RingConsistent, SlotAt
  <2>6. EndMatch'
    BY DEF TypeOK, PlacesOK, EndMatch
  <2> QED
    BY <2>2, <2>3, <2>4, <2>5, <2>6
<1> QED
  BY <1>1, <1>2, <1>3

\* The steps of a producer that leave the ring alone.
LEMMA ProducerInv ==
    ASSUME IInv, NEW p \in Producers
    PROVE  (Prepare(p) \/ WaitOverflow(p) \/ ProducerUnlock(p) \/
           SignalUnderflow(p) \/ ProducerReturn(p) \/
           ProducerInterrupted(p) \/ SpawnProducer(p)) => IInv'
<1> USE ThreadsAssumption, NumbersAssumption
       DEF IInv, Goto, ring, counters, Threads
<1>1. ASSUME Prepare(p) PROVE IInv'
  <2> USE <1>1 DEF Prepare
  <2>1. PlacesOK'
    BY DEF TypeOK, PlacesOK, ProducerPlaces, ConsumerPlaces, MainPlaces
  <2>2. TypeOK'
    <3>1. hand' \in [Producers \cup Consumers -> Documents \cup {NoDoc}]
      BY DEF TypeOK, Documents
    <3>2. docCounter' \in [Producers -> 0 .. Amount]
      BY DEF TypeOK
    <3> QED
      BY <2>1, <3>1, <3>2 DEF TypeOK
  <2>3. CriticalSection'
    BY DEF TypeOK, PlacesOK, CriticalSection
  <2>4. HandsMatch'
    <3>1. ASSUME NEW q \in Producers, q # p
          PROVE  /\ pc'[q] = pc[q] /\ hand'[q] = hand[q]
                 /\ docCounter'[q] = docCounter[q]
      BY <3>1 DEF TypeOK, PlacesOK
    <3>2. /\ pc'[p] = "lock" /\ docCounter'[p] = docCounter[p] + 1
          /\ docCounter[p] \in Nat
          /\ hand'[p] = [prod |-> p, doc |-> docCounter[p]]
      BY DEF TypeOK, PlacesOK
    <3>3. ASSUME NEW c \in Consumers
          PROVE  pc'[c] = pc[c] /\ hand'[c] = hand[c]
      BY DEF TypeOK, PlacesOK
    <3> QED
      BY <3>1, <3>2, <3>3 DEF HandsMatch
  <2>5. RingConsistent'
    BY DEF RingConsistent, SlotAt
  <2>6. EndMatch'
    BY DEF TypeOK, PlacesOK, EndMatch
  <2> QED
    BY <2>2, <2>3, <2>4, <2>5, <2>6
<1>2. ASSUME WaitOverflow(p) PROVE IInv'
  <2> USE <1>2 DEF WaitOverflow, Release
  <2>1. PlacesOK'
    BY DEF TypeOK, PlacesOK, ProducerPlaces, ConsumerPlaces, MainPlaces
  <2>2. TypeOK'
    BY <2>1 DEF TypeOK, HandsMatch, PlacesOK
  <2>3. CriticalSection'
    BY DEF TypeOK, PlacesOK, CriticalSection
  <2>4. HandsMatch'
    BY DEF TypeOK, PlacesOK, HandsMatch
  <2>5. RingConsistent'
    BY DEF RingConsistent, SlotAt
  <2>6. EndMatch'
    BY DEF TypeOK, PlacesOK, EndMatch
  <2> QED
    BY <2>2, <2>3, <2>4, <2>5, <2>6
<1>3. ASSUME ProducerUnlock(p) PROVE IInv'
  <2> USE <1>3 DEF ProducerUnlock, Release
  <2>1. PlacesOK'
    BY DEF TypeOK, PlacesOK, ProducerPlaces, ConsumerPlaces, MainPlaces
  <2>2. TypeOK'
    BY <2>1 DEF TypeOK, HandsMatch, PlacesOK
  <2>3. CriticalSection'
    BY DEF TypeOK, PlacesOK, CriticalSection
  <2>4. HandsMatch'
    BY DEF TypeOK, PlacesOK, HandsMatch
  <2>5. RingConsistent'
    BY DEF RingConsistent, SlotAt
  <2>6. EndMatch'
    BY DEF TypeOK, PlacesOK, EndMatch
  <2> QED
    BY <2>2, <2>3, <2>4, <2>5, <2>6
<1>4. ASSUME SignalUnderflow(p) PROVE IInv'
  <2> USE <1>4 DEF SignalUnderflow, SignalOne, Waiting
  <2>1. PlacesOK'
    <3>1. CASE Waiting(Consumers) = {}
      BY <3>1 DEF TypeOK, PlacesOK, ProducerPlaces, ConsumerPlaces, MainPlaces
    <3>2. CASE Waiting(Consumers) # {}
      BY <3>2 DEF TypeOK, PlacesOK, ProducerPlaces, ConsumerPlaces, MainPlaces
    <3> QED
      BY <3>1, <3>2
  <2>2. TypeOK'
    BY <2>1 DEF TypeOK, HandsMatch, PlacesOK
  <2>3. CriticalSection'
    BY DEF TypeOK, PlacesOK, CriticalSection
  <2>4. HandsMatch'
    BY DEF TypeOK, PlacesOK, HandsMatch
  <2>5. RingConsistent'
    BY DEF RingConsistent, SlotAt
  <2>6. EndMatch'
    BY DEF TypeOK, PlacesOK, EndMatch
  <2> QED
    BY <2>2, <2>3, <2>4, <2>5, <2>6
<1>5. ASSUME ProducerReturn(p) PROVE IInv'
  <2> USE <1>5 DEF ProducerReturn
  <2>1. PlacesOK'
    BY DEF TypeOK, PlacesOK, ProducerPlaces, ConsumerPlaces, MainPlaces
  <2>2. TypeOK'
    BY <2>1 DEF TypeOK, HandsMatch, PlacesOK
  <2>3. CriticalSection'
    BY DEF TypeOK, PlacesOK, CriticalSection
  <2>4. HandsMatch'
    BY DEF TypeOK, PlacesOK, HandsMatch
  <2>5. RingConsistent'
    BY DEF RingConsistent, SlotAt
  <2>6. EndMatch'
    BY DEF TypeOK, PlacesOK, EndMatch
  <2> QED
    BY <2>2, <2>3, <2>4, <2>5, <2>6
<1>6. ASSUME ProducerInterrupted(p) PROVE IInv'
  <2> USE <1>6 DEF ProducerInterrupted
  <2>1. PlacesOK'
    BY DEF TypeOK, PlacesOK, ProducerPlaces, ConsumerPlaces, MainPlaces
  <2>2. TypeOK'
    BY <2>1 DEF TypeOK, HandsMatch, PlacesOK
  <2>3. CriticalSection'
    BY DEF TypeOK, PlacesOK, CriticalSection
  <2>4. HandsMatch'
    BY DEF TypeOK, PlacesOK, HandsMatch
  <2>5. RingConsistent'
    BY DEF RingConsistent, SlotAt
  <2>6. EndMatch'
    BY DEF TypeOK, PlacesOK, EndMatch
  <2> QED
    BY <2>2, <2>3, <2>4, <2>5, <2>6
<1>7. ASSUME SpawnProducer(p) PROVE IInv'
  <2> USE <1>7 DEF SpawnProducer
  <2>1. PlacesOK'
    BY DEF TypeOK, PlacesOK, ProducerPlaces, ConsumerPlaces, MainPlaces
  <2>2. TypeOK'
    BY <2>1 DEF TypeOK, HandsMatch, PlacesOK
  <2>3. CriticalSection'
    BY DEF TypeOK, PlacesOK, CriticalSection
  <2>4. HandsMatch'
    BY DEF TypeOK, PlacesOK, HandsMatch
  <2>5. RingConsistent'
    BY DEF RingConsistent, SlotAt
  <2>6. EndMatch'
    BY DEF TypeOK, PlacesOK, EndMatch
  <2> QED
    BY <2>2, <2>3, <2>4, <2>5, <2>6
<1> QED
  BY <1>1, <1>2, <1>3, <1>4, <1>5, <1>6, <1>7

\* The steps of a consumer that leave the ring alone.
LEMMA ConsumerInv ==
    ASSUME IInv, NEW c \in Consumers
    PROVE  (WaitUnderflow(c) \/ Leave(c) \/ ConsumerReturn(c) \/
           ConsumerUnlock(c) \/ SignalOverflow(c) \/ Scan(c) \/
           ConsumerInterrupted(c) \/ SpawnConsumer(c)) => IInv'
<1> USE ThreadsAssumption, NumbersAssumption
       DEF IInv, Goto, ring, counters, Threads
<1>1. ASSUME WaitUnderflow(c) PROVE IInv'
  <2> USE <1>1 DEF WaitUnderflow, Release
  <2>1. PlacesOK'
    BY DEF TypeOK, PlacesOK, ProducerPlaces, ConsumerPlaces, MainPlaces
  <2>2. TypeOK'
    BY <2>1 DEF TypeOK, HandsMatch, PlacesOK
  <2>3. CriticalSection'
    BY DEF TypeOK, PlacesOK, CriticalSection
  <2>4. HandsMatch'
    BY DEF TypeOK, PlacesOK, HandsMatch
  <2>5. RingConsistent'
    BY DEF RingConsistent, SlotAt
  <2>6. EndMatch'
    BY DEF TypeOK, PlacesOK, EndMatch
  <2> QED
    BY <2>2, <2>3, <2>4, <2>5, <2>6
<1>2. ASSUME Leave(c) PROVE IInv'
  <2> USE <1>2 DEF Leave
  <2>1. PlacesOK'
    BY DEF TypeOK, PlacesOK, ProducerPlaces, ConsumerPlaces, MainPlaces
  <2>2. TypeOK'
    BY <2>1 DEF TypeOK, HandsMatch, PlacesOK
  <2>3. CriticalSection'
    BY DEF TypeOK, PlacesOK, CriticalSection
  <2>4. HandsMatch'
    BY DEF TypeOK, PlacesOK, HandsMatch
  <2>5. RingConsistent'
    BY DEF RingConsistent, SlotAt
  <2>6. EndMatch'
    BY DEF TypeOK, PlacesOK, EndMatch
  <2> QED
    BY <2>2, <2>3, <2>4, <2>5, <2>6
<1>3. ASSUME ConsumerReturn(c) PROVE IInv'
  <2> USE <1>3 DEF ConsumerReturn, Release
  <2>1. PlacesOK'
    BY DEF TypeOK, PlacesOK, ProducerPlaces, ConsumerPlaces, MainPlaces
  <2>2. TypeOK'
    BY <2>1 DEF TypeOK, HandsMatch, PlacesOK
  <2>3. CriticalSection'
    BY DEF TypeOK, PlacesOK, CriticalSection
  <2>4. HandsMatch'
    BY DEF TypeOK, PlacesOK, HandsMatch
  <2>5. RingConsistent'
    BY DEF RingConsistent, SlotAt
  <2>6. EndMatch'
    BY DEF TypeOK, PlacesOK, EndMatch
  <2> QED
    BY <2>2, <2>3, <2>4, <2>5, <2>6
<1>4. ASSUME ConsumerUnlock(c) PROVE IInv'
  <2> USE <1>4 DEF ConsumerUnlock, Release
  <2>1. PlacesOK'
    BY DEF TypeOK, PlacesOK, ProducerPlaces, ConsumerPlaces, MainPlaces
  <2>2. TypeOK'
    BY <2>1 DEF TypeOK, HandsMatch, PlacesOK
  <2>3. CriticalSection'
    BY DEF TypeOK, PlacesOK, CriticalSection
  <2>4. HandsMatch'
    BY DEF TypeOK, PlacesOK, HandsMatch
  <2>5. RingConsistent'
    BY DEF RingConsistent, SlotAt
  <2>6. EndMatch'
    BY DEF TypeOK, PlacesOK, EndMatch
  <2> QED
    BY <2>2, <2>3, <2>4, <2>5, <2>6
<1>5. ASSUME SignalOverflow(c) PROVE IInv'
  <2> USE <1>5 DEF SignalOverflow, SignalOne, Waiting
  <2>1. PlacesOK'
    <3>1. CASE Waiting(Producers) = {}
      BY <3>1 DEF TypeOK, PlacesOK, ProducerPlaces, ConsumerPlaces, MainPlaces
    <3>2. CASE Waiting(Producers) # {}
      BY <3>2 DEF TypeOK, PlacesOK, ProducerPlaces, ConsumerPlaces, MainPlaces
    <3> QED
      BY <3>1, <3>2
  <2>2. TypeOK'
    BY <2>1 DEF TypeOK, HandsMatch, PlacesOK
  <2>3. CriticalSection'
    BY DEF TypeOK, PlacesOK, CriticalSection
  <2>4. HandsMatch'
    BY DEF TypeOK, PlacesOK, HandsMatch
  <2>5. RingConsistent'
    BY DEF RingConsistent, SlotAt
  <2>6. EndMatch'
    BY DEF TypeOK, PlacesOK, EndMatch
  <2> QED
    BY <2>2, <2>3, <2>4, <2>5, <2>6
<1>6. ASSUME Scan(c) PROVE IInv'
  <2> USE <1>6 DEF Scan
  <2>1. PlacesOK'
    BY DEF TypeOK, PlacesOK, ProducerPlaces, ConsumerPlaces, MainPlaces
  <2>2. TypeOK'
    BY <2>1 DEF TypeOK, HandsMatch, PlacesOK
  <2>3. CriticalSection'
    BY DEF TypeOK, PlacesOK, CriticalSection
  <2>4. HandsMatch'
    BY DEF TypeOK, PlacesOK, HandsMatch
  <2>5. RingConsistent'
    BY DEF RingConsistent, SlotAt
  <2>6. EndMatch'
    BY DEF TypeOK, PlacesOK, EndMatch
  <2> QED
    BY <2>2, <2>3, <2>4, <2>5, <2>6
<1>7. ASSUME ConsumerInterrupted(c) PROVE IInv'
  <2> USE <1>7 DEF ConsumerInterrupted
  <2>1. PlacesOK'
    BY DEF TypeOK, PlacesOK, ProducerPlaces, ConsumerPlaces, MainPlaces
  <2>2. TypeOK'
    BY <2>1 DEF TypeOK, HandsMatch, PlacesOK
  <2>3. CriticalSection'
    BY DEF TypeOK, PlacesOK, CriticalSection
  <2>4. HandsMatch'
    BY DEF TypeOK, PlacesOK, HandsMatch
  <2>5. RingConsistent'
    BY DEF RingConsistent, SlotAt
  <2>6. EndMatch'
    BY DEF TypeOK, PlacesOK, EndMatch
  <2> QED
    BY <2>2, <2>3, <2>4, <2>5, <2>6
<1>8. ASSUME SpawnConsumer(c) PROVE IInv'
  <2> USE <1>8 DEF SpawnConsumer
  <2>1. PlacesOK'
    BY DEF TypeOK, PlacesOK, ProducerPlaces, ConsumerPlaces, MainPlaces
  <2>2. TypeOK'
    BY <2>1 DEF TypeOK, HandsMatch, PlacesOK
  <2>3. CriticalSection'
    BY DEF TypeOK, PlacesOK, CriticalSection
  <2>4. HandsMatch'
    BY DEF TypeOK, PlacesOK, HandsMatch
  <2>5. RingConsistent'
    BY DEF RingConsistent, SlotAt
  <2>6. EndMatch'
    BY DEF TypeOK, PlacesOK, EndMatch
  <2> QED
    BY <2>2, <2>3, <2>4, <2>5, <2>6
<1> QED
  BY <1>1, <1>2, <1>3, <1>4, <1>5, <1>6, <1>7, <1>8

\* The steps of main on its own.
LEMMA MainInv ==
    ASSUME IInv
    PROVE  (SpawnedAll \/ JoinProducers \/ MainLock \/ Announce \/
           MainUnlock \/ Broadcast \/ JoinConsumers) => IInv'
<1> USE ThreadsAssumption, NumbersAssumption
       DEF IInv, Goto, ring, counters, Threads
<1>1. ASSUME SpawnedAll PROVE IInv'
  <2> USE <1>1 DEF SpawnedAll
  <2>1. PlacesOK'
    BY DEF TypeOK, PlacesOK, ProducerPlaces, ConsumerPlaces, MainPlaces
  <2>2. TypeOK'
    BY <2>1 DEF TypeOK, HandsMatch, PlacesOK
  <2>3. CriticalSection'
    BY DEF TypeOK, PlacesOK, CriticalSection
  <2>4. HandsMatch'
    BY DEF TypeOK, PlacesOK, HandsMatch
  <2>5. RingConsistent'
    BY DEF RingConsistent, SlotAt
  <2>6. EndMatch'
    BY DEF TypeOK, PlacesOK, EndMatch
  <2> QED
    BY <2>2, <2>3, <2>4, <2>5, <2>6
<1>2. ASSUME JoinProducers PROVE IInv'
  <2> USE <1>2 DEF JoinProducers
  <2>1. PlacesOK'
    BY DEF TypeOK, PlacesOK, ProducerPlaces, ConsumerPlaces, MainPlaces
  <2>2. TypeOK'
    BY <2>1 DEF TypeOK, HandsMatch, PlacesOK
  <2>3. CriticalSection'
    BY DEF TypeOK, PlacesOK, CriticalSection
  <2>4. HandsMatch'
    BY DEF TypeOK, PlacesOK, HandsMatch
  <2>5. RingConsistent'
    BY DEF RingConsistent, SlotAt
  <2>6. EndMatch'
    BY DEF TypeOK, PlacesOK, EndMatch
  <2> QED
    BY <2>2, <2>3, <2>4, <2>5, <2>6
<1>3. ASSUME MainLock PROVE IInv'
  <2> USE <1>3 DEF MainLock, Acquire
  <2>1. PlacesOK'
    BY DEF TypeOK, PlacesOK, ProducerPlaces, ConsumerPlaces, MainPlaces
  <2>2. TypeOK'
    BY <2>1 DEF TypeOK, HandsMatch, PlacesOK
  <2>3. CriticalSection'
    BY DEF TypeOK, PlacesOK, CriticalSection
  <2>4. HandsMatch'
    BY DEF TypeOK, PlacesOK, HandsMatch
  <2>5. RingConsistent'
    BY DEF RingConsistent, SlotAt
  <2>6. EndMatch'
    BY DEF TypeOK, PlacesOK, EndMatch
  <2> QED
    BY <2>2, <2>3, <2>4, <2>5, <2>6
<1>4. ASSUME Announce PROVE IInv'
  <2> USE <1>4 DEF Announce
  <2>1. PlacesOK'
    BY DEF TypeOK, PlacesOK, ProducerPlaces, ConsumerPlaces, MainPlaces
  <2>2. TypeOK'
    BY <2>1 DEF TypeOK, HandsMatch, PlacesOK
  <2>3. CriticalSection'
    BY DEF TypeOK, PlacesOK, CriticalSection
  <2>4. HandsMatch'
    BY DEF TypeOK, PlacesOK, HandsMatch
  <2>5. RingConsistent'
    BY DEF RingConsistent, SlotAt
  <2>6. EndMatch'
    BY DEF TypeOK, PlacesOK, EndMatch
  <2> QED
    BY <2>2, <2>3, <2>4, <2>5, <2>6
<1>5. ASSUME MainUnlock PROVE IInv'
  <2> USE <1>5 DEF MainUnlock, Release
  <2>1. PlacesOK'
    BY DEF TypeOK, PlacesOK, ProducerPlaces, ConsumerPlaces, MainPlaces
  <2>2. TypeOK'
    BY <2>1 DEF TypeOK, HandsMatch, PlacesOK
  <2>3. CriticalSection'
    BY DEF TypeOK, PlacesOK, CriticalSection
  <2>4. HandsMatch'
    BY DEF TypeOK, PlacesOK, HandsMatch
  <2>5. RingConsistent'
    BY DEF RingConsistent, SlotAt
  <2>6. EndMatch'
    BY DEF TypeOK, PlacesOK, EndMatch
  <2> QED
    BY <2>2, <2>3, <2>4, <2>5, <2>6
<1>6. ASSUME Broadcast PROVE IInv'
  <2> USE <1>6 DEF Broadcast, Waiting
  <2>1. PlacesOK'
    BY DEF TypeOK, PlacesOK, ProducerPlaces, ConsumerPlaces, MainPlaces
  <2>2. TypeOK'
    BY <2>1 DEF TypeOK, HandsMatch, PlacesOK
  <2>3. CriticalSection'
    BY DEF TypeOK, PlacesOK, CriticalSection
  <2>4. HandsMatch'
    BY DEF TypeOK, PlacesOK, HandsMatch
  <2>5. RingConsistent'
    BY DEF RingConsistent, SlotAt
  <2>6. EndMatch'
    BY DEF TypeOK, PlacesOK, EndMatch
  <2> QED
    BY <2>2, <2>3, <2>4, <2>5, <2>6
<1>7. ASSUME JoinConsumers PROVE IInv'
  <2> USE <1>7 DEF JoinConsumers
  <2>1. PlacesOK'
    BY DEF TypeOK, PlacesOK, ProducerPlaces, ConsumerPlaces, MainPlaces
  <2>2. TypeOK'
    BY <2>1 DEF TypeOK, HandsMatch, PlacesOK
  <2>3. CriticalSection'
    BY DEF TypeOK, PlacesOK, CriticalSection
  <2>4. HandsMatch'
    BY DEF TypeOK, PlacesOK, HandsMatch
  <2>5. RingConsistent'
    BY DEF RingConsistent, SlotAt
  <2>6. EndMatch'
    BY DEF TypeOK, PlacesOK, EndMatch
  <2> QED
    BY <2>2, <2>3, <2>4, <2>5, <2>6
<1> QED
  BY <1>1, <1>2, <1>3, <1>4, <1>5, <1>6, <1>7

\* Every step keeps the invariant.
LEMMA NextInv == IInv /\ [Next]_vars => IInv'
<1> SUFFICES ASSUME IInv, [Next]_vars PROVE IInv'
  OBVIOUS
<1>1. CASE UNCHANGED vars
  BY <1>1, Stutter
<1>2. ASSUME NEW p \in Producers, ProducerStep(p) PROVE IInv'
  BY <1>2, ProducerInv, AnyThreadInv, InsertInv DEF ProducerStep
<1>3. ASSUME NEW c \in Consumers, ConsumerStep(c) PROVE IInv'
  BY <1>3, ConsumerInv, AnyThreadInv, TakeInv DEF ConsumerStep
<1>4. CASE MainStep
  BY <1>4, MainInv, ProducerInv, ConsumerInv DEF MainStep
<1>5. CASE Disturbance
  BY <1>5, ProducerInv, ConsumerInv, AnyThreadInv DEF Disturbance
<1>6. CASE Finished
  BY <1>6, Stutter DEF Finished
<1> QED
  BY <1>1, <1>2, <1>3, <1>4, <1>5, <1>6 DEF Next

\* The inductive invariant holds of every behaviour of mpmc.c.
THEOREM Invariance == Spec => []IInv
<1> QED
  BY InitInv, NextInv, PTL DEF Spec

\* Every variable keeps its type.
THEOREM TypeCorrect == Spec => []TypeOK
<1>1. IInv => TypeOK
  BY DEF IInv
<1> QED
  BY <1>1, Invariance, PTL

\* Whoever works on the queue owns queue_mutex.
THEOREM MutualExclusion == Spec => []CriticalSection
<1>1. IInv => CriticalSection
  BY DEF IInv
<1> QED
  BY <1>1, Invariance, PTL

\* The ring never overflows, never overwrites a document nobody took, and
\* never hands out a slot nobody filled.
THEOREM RingSafe == Spec => []RingConsistent
<1>1. IInv => RingConsistent
  BY DEF IInv
<1> QED
  BY <1>1, Invariance, PTL

\* A consumer leaves only when every document has been taken.
THEOREM NothingLeft == Spec => []NothingLeftBehind
<1>1. IInv => NothingLeftBehind
  BY DEF IInv, NothingLeftBehind, EndMatch, HandsMatch
<1> QED
  BY <1>1, Invariance, PTL

-----------------------------------------------------------------------------
(* The ring implements the first-in first-out buffer. *)

\* The window, read from head, is a sequence of documents.
LEMMA BufferIsSequence == IInv => Buffer \in Seq(Documents) /\ Len(Buffer) = used
<1> SUFFICES ASSUME IInv PROVE Buffer \in Seq(Documents) /\ Len(Buffer) = used
  OBVIOUS
<1>1. used \in Nat /\ \A k \in 1 .. used : queue[SlotAt(k - 1)] \in Documents
  BY DEF IInv, TypeOK, RingConsistent
<1> QED
  BY <1>1 DEF Buffer

\* Steps that leave the ring alone leave the buffer alone.
LEMMA BufferKept == UNCHANGED ring => UNCHANGED Buffer
BY DEF ring, Buffer, SlotAt

\* An insert appends the document to the buffer.
LEMMA BufferInsert ==
    ASSUME IInv, NEW p \in Producers, Insert(p)
    PROVE  Buffer' = Append(Buffer, hand[p])
<1> USE ThreadsAssumption, NumbersAssumption
<1>0. /\ used \in Nat /\ used < QueueSize /\ used' = used + 1
      /\ head \in 0 .. QueueSize - 1 /\ tail \in 0 .. QueueSize - 1
      /\ head' = head
      /\ queue' = [queue EXCEPT ![tail] = hand[p]]
      /\ DOMAIN queue = 0 .. QueueSize - 1
  BY IndicesInRange DEF IInv, TypeOK, Insert
<1>1. Buffer \in Seq(Documents) /\ Len(Buffer) = used
  BY BufferIsSequence
<1>2. Buffer' = [k \in 1 .. used + 1 |-> queue'[SlotAt(k - 1)']]
  BY <1>0 DEF Buffer
<1>3. ASSUME NEW k \in 1 .. used
      PROVE  queue'[SlotAt(k - 1)'] = Buffer[k]
  <2>1. SlotAt(k - 1)' = SlotAt(k - 1) /\ SlotAt(k - 1) # tail
    BY <1>0 DEF IInv, TypeOK, RingConsistent, SlotAt
  <2> QED
    BY <2>1, <1>0 DEF Buffer
<1>4. ASSUME NEW k \in 1 .. used + 1, k = used + 1
      PROVE  queue'[SlotAt(k - 1)'] = hand[p]
  <2>1. SlotAt(k - 1)' = tail
    BY <1>0, <1>4 DEF IInv, RingConsistent, SlotAt
  <2> QED
    BY <2>1, <1>0
<1>5. Append(Buffer, hand[p])
        = [k \in 1 .. used + 1 |-> IF k \in 1 .. used THEN Buffer[k] ELSE hand[p]]
  BY <1>0, <1>1
<1>6. ASSUME NEW k \in 1 .. used + 1
      PROVE  queue'[SlotAt(k - 1)']
               = IF k \in 1 .. used THEN Buffer[k] ELSE hand[p]
  BY <1>0, <1>3, <1>4
<1> QED
  BY <1>2, <1>5, <1>6

\* A take removes the first document of the buffer.
LEMMA BufferTake ==
    ASSUME IInv, NEW c \in Consumers, Take(c)
    PROVE  /\ Buffer # << >> /\ Head(Buffer) = queue[head]
           /\ Buffer' = Tail(Buffer)
<1> USE ThreadsAssumption, NumbersAssumption
<1>0. /\ used \in Nat /\ used >= 1 /\ used <= QueueSize /\ used' = used - 1
      /\ head \in 0 .. QueueSize - 1 /\ head' = Advance(head)
      /\ queue' = queue
  BY IndicesInRange DEF IInv, TypeOK, RingConsistent, Take
<1>1. Buffer \in Seq(Documents) /\ Len(Buffer) = used
  BY BufferIsSequence
<1>2. Buffer[1] = queue[head]
  BY <1>0 DEF Buffer, SlotAt
<1>3. Buffer' = [k \in 1 .. used - 1 |-> queue[SlotAt(k - 1)']]
  BY <1>0 DEF Buffer
<1>4. ASSUME NEW k \in 1 .. used - 1
      PROVE  queue[SlotAt(k - 1)'] = Buffer[k + 1]
  <2>1. k + 1 \in 1 .. used /\ SlotAt(k - 1)' = SlotAt((k + 1) - 1)
    BY <1>0 DEF SlotAt, Advance
  <2> QED
    BY <2>1 DEF Buffer
<1>5. Buffer # << >> /\ Head(Buffer) = queue[head]
  BY <1>0, <1>1, <1>2
<1>6. Tail(Buffer) = [k \in 1 .. used - 1 |-> Buffer[k + 1]]
  <2>1. /\ Tail(Buffer) \in Seq(Documents)
        /\ Len(Tail(Buffer)) = used - 1
        /\ \A k \in 1 .. used - 1 : Tail(Buffer)[k] = Buffer[k + 1]
    BY <1>0, <1>1, <1>5, HeadTailProperties
  <2>2. Tail(Buffer) \in [1 .. used - 1 -> Documents]
    BY <2>1, LenProperties
  <2> QED
    BY <2>1, <2>2
<1> QED
  BY <1>3, <1>4, <1>5, <1>6

\* The program starts as the empty buffer.
LEMMA FifoInit == Init => Queue!AInit
<1> SUFFICES ASSUME Init PROVE Queue!AInit
  OBVIOUS
<1>1. Buffer = << >>
  BY DEF Init, Buffer
<1>2. Inserted = [p \in Producers |-> 0]
  BY DEF Init, Inserted
<1> QED
  BY <1>1, <1>2 DEF Init, Queue!AInit

\* Preparing a document is not seen: it is counted and carried at once.
LEMMA InsertedPrepare ==
    ASSUME IInv, NEW p \in Producers, Prepare(p)
    PROVE  Inserted' = Inserted
<1> USE ThreadsAssumption, NoDocAssumption DEF IInv, TypeOK, Prepare, Goto
<1>1. hand[p] = NoDoc
  BY DEF HandsMatch
<1>2. /\ docCounter[p] \in 0 .. Amount - 1
      /\ docCounter'[p] = docCounter[p] + 1
      /\ hand'[p] = [prod |-> p, doc |-> docCounter[p]]
  BY NumbersAssumption
<1>3. hand'[p] # NoDoc
  BY <1>2 DEF Documents
<1>4. ASSUME NEW q \in Producers, q # p
      PROVE  hand'[q] = hand[q] /\ docCounter'[q] = docCounter[q]
  BY <1>4
<1> QED
  BY <1>1, <1>2, <1>3, <1>4 DEF Inserted

\* An insert is the put of the producer's next document.
LEMMA InsertedInsert ==
    ASSUME IInv, NEW p \in Producers, Insert(p)
    PROVE  /\ Inserted[p] < Amount
           /\ hand[p] = [prod |-> p, doc |-> Inserted[p]]
           /\ Inserted' = [Inserted EXCEPT ![p] = @ + 1]
<1> USE ThreadsAssumption, NumbersAssumption, NoDocAssumption
       DEF IInv, TypeOK, Insert, Goto
<1>1. /\ docCounter[p] >= 1 /\ docCounter[p] \in 0 .. Amount
      /\ hand[p] = [prod |-> p, doc |-> docCounter[p] - 1]
  BY DEF HandsMatch
<1>2. hand[p] # NoDoc
  BY <1>1 DEF Documents
<1>3. Inserted[p] = docCounter[p] - 1
  BY <1>2 DEF Inserted
<1>4. hand'[p] = NoDoc /\ docCounter' = docCounter
  OBVIOUS
<1>5. ASSUME NEW q \in Producers, q # p PROVE hand'[q] = hand[q]
  BY <1>5
<1>6. Inserted[p] < Amount /\ hand[p] = [prod |-> p, doc |-> Inserted[p]]
  BY <1>1, <1>3
<1>7. Inserted' = [q \in Producers |->
                     IF q = p THEN docCounter[p] ELSE Inserted[q]]
  BY <1>4, <1>5 DEF Inserted
<1>8. Inserted \in [Producers -> Int]
  BY DEF Inserted
<1>9. Inserted' = [Inserted EXCEPT ![p] = @ + 1]
  <2>1. docCounter[p] = Inserted[p] + 1
    BY <1>1, <1>3
  <2>2. [Inserted EXCEPT ![p] = @ + 1]
          = [q \in Producers |->
               IF q = p THEN Inserted[p] + 1 ELSE Inserted[q]]
    BY <1>8
  <2> QED
    BY <1>7, <2>1, <2>2
<1> QED
  BY <1>6, <1>9

\* Other steps leave the producers' documents alone.
LEMMA InsertedKept ==
    ASSUME UNCHANGED docCounter, \A p \in Producers : hand'[p] = hand[p]
    PROVE  UNCHANGED Inserted
BY DEF Inserted

\* Every step is a put, a get, or not seen.
LEMMA FifoStep == IInv /\ [Next]_vars => [Queue!ANext]_(Queue!avars)
<1> SUFFICES ASSUME IInv, [Next]_vars
             PROVE  Queue!ANext \/ UNCHANGED <<Buffer, Inserted, delivered>>
  BY DEF Queue!avars
<1> USE ThreadsAssumption
<1>1. ASSUME UNCHANGED <<ring, docCounter, hand, delivered>>
      PROVE  UNCHANGED <<Buffer, Inserted, delivered>>
  BY <1>1, BufferKept, InsertedKept
<1>2. ASSUME NEW p \in Producers, Prepare(p)
      PROVE  UNCHANGED <<Buffer, Inserted, delivered>>
  BY <1>2, BufferKept, InsertedPrepare DEF Prepare
<1>3. ASSUME NEW p \in Producers, Insert(p) PROVE Queue!Put(p)
  <2>1. Len(Buffer) < QueueSize
    BY <1>3, BufferIsSequence DEF Insert
  <2> QED
    BY <1>3, <2>1, BufferInsert, InsertedInsert DEF Queue!Put, Insert
<1>4. ASSUME NEW c \in Consumers, Take(c) PROVE Queue!Get
  <2>1. UNCHANGED Inserted
    BY <1>4, InsertedKept DEF IInv, TypeOK, Take
  <2> QED
    BY <1>4, <2>1, BufferTake DEF Queue!Get, Take
<1>5. ASSUME NEW c \in Consumers, Scan(c) \/ ConsumerInterrupted(c)
      PROVE  UNCHANGED <<Buffer, Inserted, delivered>>
  <2>1. UNCHANGED Inserted
    BY <1>5, InsertedKept DEF IInv, TypeOK, Scan, ConsumerInterrupted
  <2> QED
    BY <1>5, <2>1, BufferKept DEF Scan, ConsumerInterrupted
<1>6. ASSUME NEW t \in Producers \cup Consumers,
             Lock(t) \/ Reacquire(t) \/ SpuriousWakeup(t)
      PROVE  UNCHANGED <<ring, docCounter, hand, delivered>>
  BY <1>6 DEF Lock, Reacquire, SpuriousWakeup
<1>7. ASSUME NEW p \in Producers, ProducerStep(p)
      PROVE  Queue!ANext \/ UNCHANGED <<Buffer, Inserted, delivered>>
  <2>1. ASSUME WaitOverflow(p) \/ ProducerUnlock(p) \/ SignalUnderflow(p)
                 \/ ProducerReturn(p)
        PROVE  UNCHANGED <<ring, docCounter, hand, delivered>>
    BY <2>1 DEF WaitOverflow, ProducerUnlock, SignalUnderflow, ProducerReturn
  <2> QED
    BY <1>1, <1>2, <1>3, <1>6, <1>7, <2>1 DEF ProducerStep, Queue!ANext
<1>8. ASSUME NEW c \in Consumers, ConsumerStep(c)
      PROVE  Queue!ANext \/ UNCHANGED <<Buffer, Inserted, delivered>>
  <2>1. ASSUME WaitUnderflow(c) \/ Leave(c) \/ ConsumerReturn(c)
                 \/ ConsumerUnlock(c) \/ SignalOverflow(c)
        PROVE  UNCHANGED <<ring, docCounter, hand, delivered>>
    BY <2>1 DEF WaitUnderflow, Leave, ConsumerReturn, ConsumerUnlock,
                SignalOverflow
  <2> QED
    BY <1>1, <1>4, <1>5, <1>6, <1>8, <2>1 DEF ConsumerStep, Queue!ANext
<1>9. ASSUME MainStep PROVE UNCHANGED <<ring, docCounter, hand, delivered>>
  BY <1>9 DEF MainStep, SpawnConsumer, SpawnProducer, SpawnedAll,
     JoinProducers, MainLock, Announce, MainUnlock, Broadcast, JoinConsumers
<1>10. ASSUME Disturbance
       PROVE  UNCHANGED <<Buffer, Inserted, delivered>>
  <2>1. ASSUME NEW p \in Producers, ProducerInterrupted(p)
        PROVE  UNCHANGED <<ring, docCounter, hand, delivered>>
    BY <2>1 DEF ProducerInterrupted
  <2> QED
    BY <1>1, <1>5, <1>6, <1>10, <2>1 DEF Disturbance
<1>11. ASSUME UNCHANGED vars
       PROVE  UNCHANGED <<ring, docCounter, hand, delivered>>
  BY <1>11 DEF vars, ring
<1> QED
  BY <1>1, <1>7, <1>8, <1>9, <1>10, <1>11 DEF Next, Finished

\* The program is a first-in first-out buffer: documents come out once each,
\* in the order they were inserted, and each producer's in its own order.
THEOREM Fifo == Spec => FifoSpec
<1> QED
  BY FifoInit, FifoStep, Invariance, PTL DEF Spec, FifoSpec, Queue!ASpec

-----------------------------------------------------------------------------
(***************************************************************************)
(* Counting threads: no wakeup is lost.                                    *)
(*                                                                         *)
(* What one condition variable owes is stated once, for a group that waits *)
(* and the others who signal: while somebody of the group waits, there are *)
(* at least as many threads that are going to signal, or to test, as there *)
(* is something to do.  Consumers wait for documents and producers for     *)
(* room.                                                                   *)
(***************************************************************************)

Sending == {"unlock", "signal"}
Testing == {"relock", "check"}

\* How many of G are at one of the places P when f says where threads are.
Count(f, G, P) == Cardinality({t \in G : f[t] \in P})

\* For n things to do, enough threads will signal or look.
Covered(f, G, O, n) ==
    {t \in G : f[t] = "wait"} # {}
        => n <= Count(f, O, Sending) + Count(f, G, Testing)

\* Some places of f differ from those of g in that thread t is at v.
Moved(f, g, t, v) ==
    g[t] = v /\ \A u \in Threads : u # t => g[u] = f[u]

\* A count is a number.
LEMMA CountType ==
    ASSUME NEW f, NEW G, IsFiniteSet(G), NEW P
    PROVE  Count(f, G, P) \in Nat
<1>1. IsFiniteSet({t \in G : f[t] \in P})
  BY FS_Subset
<1> QED
  BY <1>1, FS_CardinalityType DEF Count

\* One thread of the group moves: it may enter the places, or leave them.
LEMMA CountMoved ==
    ASSUME NEW f, NEW g, NEW G \in SUBSET Threads, IsFiniteSet(G), NEW P,
           NEW t \in G, NEW v, Moved(f, g, t, v)
    PROVE  Count(g, G, P) = IF f[t] \in P
                            THEN IF v \in P THEN Count(f, G, P) ELSE Count(f, G, P) - 1
                            ELSE IF v \in P THEN Count(f, G, P) + 1 ELSE Count(f, G, P)
<1> DEFINE F == {u \in G : f[u] \in P}
           H == {u \in G : g[u] \in P}
<1>1. IsFiniteSet(F)
  BY FS_Subset
<1>2. g[t] = v /\ \A u \in G : u # t => g[u] = f[u]
  BY DEF Moved
<1>3. CASE v \in P
  <2>1. H = F \cup {t}
    BY <1>2, <1>3
  <2> QED
    BY <1>1, <1>3, <2>1, FS_AddElement DEF Count
<1>4. CASE v \notin P
  <2>1. H = F \ {t}
    BY <1>2, <1>4
  <2>2. Cardinality(F \ {t}) = IF t \in F THEN Cardinality(F) - 1 ELSE Cardinality(F)
    BY <1>1, FS_RemoveElement
  <2> QED
    BY <1>4, <2>1, <2>2 DEF Count
<1> QED
  BY <1>3, <1>4

\* A thread outside the group moves: the group is where it was.
LEMMA CountKept ==
    ASSUME NEW f, NEW g, NEW G \in SUBSET Threads, NEW P,
           NEW t, t \notin G, NEW v, Moved(f, g, t, v)
    PROVE  Count(g, G, P) = Count(f, G, P)
<1>1. {u \in G : f[u] \in P} = {u \in G : g[u] \in P}
  BY DEF Moved
<1> QED
  BY <1>1 DEF Count

\* A group and those who signal to it.
Pair(G, O) ==
    /\ G \in SUBSET Threads /\ O \in SUBSET Threads /\ G \cap O = {}
    /\ IsFiniteSet(G) /\ IsFiniteSet(O)

LEMMA Pairs == Pair(Consumers, Producers) /\ Pair(Producers, Consumers)
BY ThreadsAssumption DEF Pair, Threads

\* A thread that neither begins to wait nor gives up signalling or testing
\* leaves everything covered.
LEMMA QuietMove ==
    ASSUME NEW f, NEW g, NEW G, NEW O, Pair(G, O), NEW n \in Int,
           NEW t \in Threads, NEW v, Moved(f, g, t, v),
           t \in G => v # "wait" /\ (f[t] \in Testing => v \in Testing),
           t \in O => (f[t] \in Sending => v \in Sending),
           Covered(f, G, O, n)
    PROVE  Covered(g, G, O, n)
<1> USE DEF Pair
<1>1. /\ Count(f, O, Sending) \in Nat /\ Count(g, O, Sending) \in Nat
      /\ Count(f, G, Testing) \in Nat /\ Count(g, G, Testing) \in Nat
  BY CountType
<1>2. Count(f, O, Sending) <= Count(g, O, Sending)
  BY <1>1, CountMoved, CountKept
<1>3. Count(f, G, Testing) <= Count(g, G, Testing)
  BY <1>1, CountMoved, CountKept
<1>4. {u \in G : g[u] = "wait"} \subseteq {u \in G : f[u] = "wait"}
  BY DEF Moved
<1> QED
  BY <1>1, <1>2, <1>3, <1>4 DEF Covered

\* One more thing to do, and one more thread that will signal it.
LEMMA Gain ==
    ASSUME NEW f, NEW g, NEW G, NEW O, Pair(G, O), NEW n \in Int,
           NEW t \in O, NEW v \in Sending, Moved(f, g, t, v), f[t] \notin Sending,
           Covered(f, G, O, n)
    PROVE  Covered(g, G, O, n + 1)
<1> USE DEF Pair
<1>1. /\ Count(f, O, Sending) \in Nat /\ Count(g, O, Sending) \in Nat
      /\ Count(f, G, Testing) \in Nat /\ Count(g, G, Testing) \in Nat
  BY CountType
<1>2. Count(g, O, Sending) = Count(f, O, Sending) + 1
  BY CountMoved
<1>3. Count(g, G, Testing) = Count(f, G, Testing)
  BY CountKept
<1>4. {u \in G : g[u] = "wait"} = {u \in G : f[u] = "wait"}
  BY DEF Moved
<1> QED
  BY <1>1, <1>2, <1>3, <1>4 DEF Covered

\* Who tests and does something leaves one thing less to do.
LEMMA Spend ==
    ASSUME NEW f, NEW g, NEW G, NEW O, Pair(G, O), NEW n \in Int,
           NEW t \in G, NEW v, v # "wait", v \notin Testing,
           Moved(f, g, t, v), f[t] \in Testing, Covered(f, G, O, n)
    PROVE  Covered(g, G, O, n - 1)
<1> USE DEF Pair
<1>1. /\ Count(f, O, Sending) \in Nat /\ Count(g, O, Sending) \in Nat
      /\ Count(f, G, Testing) \in Nat /\ Count(g, G, Testing) \in Nat
  BY CountType
<1>2. Count(g, O, Sending) = Count(f, O, Sending)
  BY CountKept
<1>3. Count(g, G, Testing) = Count(f, G, Testing) - 1
  BY CountMoved
<1>4. {u \in G : g[u] = "wait"} \subseteq {u \in G : f[u] = "wait"}
  BY DEF Moved
<1> QED
  BY <1>1, <1>2, <1>3, <1>4 DEF Covered

\* A signal is taken over by the thread it wakes.
LEMMA HandOver ==
    ASSUME NEW f, NEW h, NEW g, NEW G, NEW O, Pair(G, O), NEW n \in Int,
           NEW t \in O, NEW v, Moved(f, h, t, v),
           NEW w \in G, f[w] = "wait", Moved(h, g, w, "relock"),
           Covered(f, G, O, n)
    PROVE  Covered(g, G, O, n)
<1> USE DEF Pair
<1>1. /\ Count(f, O, Sending) \in Nat /\ Count(h, O, Sending) \in Nat
      /\ Count(f, G, Testing) \in Nat
  BY CountType
<1>2. /\ Count(h, O, Sending) >= Count(f, O, Sending) - 1
      /\ Count(h, G, Testing) = Count(f, G, Testing)
  BY <1>1, CountMoved, CountKept
<1>3. h[w] = "wait"
  BY DEF Moved
<1>4. Count(g, O, Sending) = Count(h, O, Sending)
  BY CountKept
<1>5. Count(g, G, Testing) = Count(h, G, Testing) + 1
  BY <1>3, CountMoved DEF Testing
<1>6. {u \in G : f[u] = "wait"} # {}
  OBVIOUS
<1> QED
  BY <1>1, <1>2, <1>4, <1>5, <1>6 DEF Covered

\* With nothing to do, or nobody who waits, nothing is owed.
LEMMA NothingOwed ==
    ASSUME NEW g, NEW G, NEW O, Pair(G, O), NEW n \in Int,
           n <= 0 \/ \A u \in G : g[u] # "wait"
    PROVE  Covered(g, G, O, n)
<1>1. Count(g, O, Sending) \in Nat /\ Count(g, G, Testing) \in Nat
  BY CountType DEF Pair
<1> QED
  BY <1>1 DEF Covered

-----------------------------------------------------------------------------
(* No wakeup is lost. *)

\* Consumers are owed documents, producers room, and consumers the broadcast.
WakeInv ==
    /\ Covered(pc, Consumers, Producers, used)
    /\ Covered(pc, Producers, Consumers, QueueSize - used)
    /\ NobodySleepsThroughTheEnd

LEMMA WakeIsNoLostWakeup == WakeInv => NoLostWakeup
BY DEF WakeInv, NoLostWakeup, WakeupsCoverDocuments, WakeupsCoverRoom,
       Covered, Count, Waiting, Sending, Testing

LEMMA WakeInit == Init => WakeInv
<1> SUFFICES ASSUME Init PROVE WakeInv
  OBVIOUS
<1> USE ThreadsAssumption, NumbersAssumption
<1>1. \A t \in Producers \cup Consumers : pc[t] # "wait"
  BY DEF Init, Threads
<1>2. used \in Int /\ QueueSize - used \in Int
  BY DEF Init
<1>3. /\ Covered(pc, Consumers, Producers, used)
      /\ Covered(pc, Producers, Consumers, QueueSize - used)
  BY <1>1, <1>2, NothingOwed, Pairs
<1>4. NobodySleepsThroughTheEnd
  BY DEF Init, NobodySleepsThroughTheEnd
<1> QED
  BY <1>3, <1>4 DEF WakeInv

\* One thread goes from one place to another.
LEMMA GotoMoved ==
    ASSUME TypeOK, NEW t \in Threads, NEW v, pc' = [pc EXCEPT ![t] = v]
    PROVE  Moved(pc, pc', t, v)
BY DEF TypeOK, PlacesOK, Moved

\* The numbers the invariant speaks of, and that main is neither a producer
\* nor a consumer.
LEMMA Basics ==
    ASSUME IInv
    PROVE  /\ used \in Int /\ QueueSize - used \in Int /\ TypeOK
           /\ Main \in Threads /\ Main \notin Producers \cup Consumers
           /\ Producers \subseteq Threads /\ Consumers \subseteq Threads
           /\ Producers \cap Consumers = {}
BY ThreadsAssumption, NumbersAssumption DEF IInv, TypeOK, Threads

\* The broadcast is still due as long as no consumer begins to wait and main
\* goes on to it.
LEMMA EndKept ==
    ASSUME IInv, NobodySleepsThroughTheEnd,
           \A c \in Consumers : pc'[c] = "wait" => pc[c] = "wait",
           pc[Main] \in {"unlock", "broadcast"} => pc'[Main] \in {"unlock", "broadcast"},
           goingAway' = goingAway \/ pc'[Main] \in {"unlock", "broadcast"}
    PROVE  NobodySleepsThroughTheEnd'
BY DEF NobodySleepsThroughTheEnd, Waiting

\* The steps that neither wait, signal, nor touch the queue.
LEMMA QuietStep ==
    ASSUME IInv, WakeInv, NEW t \in Threads, NEW v,
           pc' = [pc EXCEPT ![t] = v], used' = used,
           t # Main => /\ v # "wait" /\ goingAway' = goingAway
                       /\ pc[t] \in Testing => v \in Testing
                       /\ pc[t] \in Sending => v \in Sending,
           t = Main => /\ pc[t] \in {"unlock", "broadcast"}
                            => v \in {"unlock", "broadcast"}
                       /\ goingAway' = goingAway \/ v \in {"unlock", "broadcast"}
    PROVE  WakeInv'
<1> USE Basics
<1>1. Moved(pc, pc', t, v)
  BY GotoMoved
<1>2. Covered(pc', Consumers, Producers, used)
  BY <1>1, QuietMove, Pairs DEF WakeInv
<1>3. Covered(pc', Producers, Consumers, QueueSize - used)
  BY <1>1, QuietMove, Pairs DEF WakeInv
<1>4. NobodySleepsThroughTheEnd'
  BY <1>1, EndKept DEF WakeInv, Moved
<1> QED
  BY <1>2, <1>3, <1>4 DEF WakeInv

\* What a thread does at a test.
LEMMA TestStep ==
    ASSUME IInv, WakeInv
    PROVE  /\ \A p \in Producers : Insert(p) \/ WaitOverflow(p) => WakeInv'
           /\ \A c \in Consumers : Take(c) \/ WaitUnderflow(c) \/ Leave(c) => WakeInv'
<1> USE Basics
<1>1. ASSUME NEW p \in Producers, Insert(p) PROVE WakeInv'
  <2>1. Moved(pc, pc', p, "unlock") /\ pc[p] = "check" /\ used' = used + 1
        /\ goingAway' = goingAway
    BY <1>1, GotoMoved DEF Insert, Goto
  <2>2. Covered(pc', Consumers, Producers, used + 1)
    BY <2>1, Gain, Pairs DEF WakeInv, Sending
  <2>3. Covered(pc', Producers, Consumers, (QueueSize - used) - 1)
    BY <2>1, Spend, Pairs DEF WakeInv, Testing
  <2>4. (QueueSize - used) - 1 = QueueSize - used'
    BY <2>1, NumbersAssumption
  <2>5. NobodySleepsThroughTheEnd'
    BY <2>1, EndKept DEF WakeInv, Moved
  <2> QED
    BY <2>1, <2>2, <2>3, <2>4, <2>5 DEF WakeInv
<1>2. ASSUME NEW c \in Consumers, Take(c) PROVE WakeInv'
  <2>1. Moved(pc, pc', c, "unlock") /\ pc[c] = "check" /\ used' = used - 1
        /\ goingAway' = goingAway
    BY <1>2, GotoMoved DEF Take, Goto
  <2>2. Covered(pc', Producers, Consumers, (QueueSize - used) + 1)
    BY <2>1, Gain, Pairs DEF WakeInv, Sending
  <2>3. Covered(pc', Consumers, Producers, used - 1)
    BY <2>1, Spend, Pairs DEF WakeInv, Testing
  <2>4. (QueueSize - used) + 1 = QueueSize - used'
    BY <2>1, NumbersAssumption
  <2>5. NobodySleepsThroughTheEnd'
    BY <2>1, EndKept DEF WakeInv, Moved
  <2> QED
    BY <2>1, <2>2, <2>3, <2>4, <2>5 DEF WakeInv
<1>3. ASSUME NEW p \in Producers, WaitOverflow(p) PROVE WakeInv'
  <2>0. pc[p] = "check" /\ pc' = [pc EXCEPT ![p] = "wait"] /\ used >= QueueSize
    BY <1>3 DEF WaitOverflow, Release, Goto
  <2>1. /\ Moved(pc, pc', p, "wait") /\ pc[p] = "check" /\ used' = used
        /\ goingAway' = goingAway /\ QueueSize - used <= 0
    <3>1. QueueSize - used <= 0
      BY <2>0, NumbersAssumption
    <3>2. used' = used /\ goingAway' = goingAway
      BY <1>3 DEF WaitOverflow, ring
    <3> QED
      BY <2>0, <3>1, <3>2, GotoMoved
  <2>2. Covered(pc', Producers, Consumers, QueueSize - used)
    BY <2>1, NothingOwed, Pairs
  <2>3. Covered(pc', Consumers, Producers, used)
    BY <2>1, QuietMove, Pairs DEF WakeInv, Sending
  <2>4. NobodySleepsThroughTheEnd'
    BY <2>1, EndKept DEF WakeInv, Moved
  <2> QED
    BY <2>1, <2>2, <2>3, <2>4 DEF WakeInv
<1>4. ASSUME NEW c \in Consumers, WaitUnderflow(c) PROVE WakeInv'
  <2>0. pc[c] = "check" /\ pc' = [pc EXCEPT ![c] = "wait"] /\ used < 1
    BY <1>4 DEF WaitUnderflow, Release, Goto
  <2>1. /\ Moved(pc, pc', c, "wait") /\ pc[c] = "check" /\ used' = used
        /\ goingAway' = goingAway /\ ~goingAway /\ used <= 0
    <3>1. used <= 0
      BY <2>0
    <3>2. used' = used /\ goingAway' = goingAway /\ ~goingAway
      BY <1>4 DEF WaitUnderflow, ring
    <3> QED
      BY <2>0, <3>1, <3>2, GotoMoved
  <2>2. Covered(pc', Consumers, Producers, used)
    BY <2>1, NothingOwed, Pairs
  <2>3. Covered(pc', Producers, Consumers, QueueSize - used)
    BY <2>1, QuietMove, Pairs DEF WakeInv, Sending
  <2>4. NobodySleepsThroughTheEnd'
    BY <2>1 DEF NobodySleepsThroughTheEnd
  <2> QED
    BY <2>1, <2>2, <2>3, <2>4 DEF WakeInv
<1>5. ASSUME NEW c \in Consumers, Leave(c) PROVE WakeInv'
  <2>0. pc[c] = "check" /\ pc' = [pc EXCEPT ![c] = "leave"] /\ used < 1
    BY <1>5 DEF Leave, Goto
  <2>1. /\ Moved(pc, pc', c, "leave") /\ pc[c] = "check" /\ used' = used
        /\ goingAway' = goingAway /\ used <= 0
    <3>1. used <= 0
      BY <2>0
    <3>2. used' = used /\ goingAway' = goingAway
      BY <1>5 DEF Leave, ring
    <3> QED
      BY <2>0, <3>1, <3>2, GotoMoved
  <2>2. Covered(pc', Consumers, Producers, used)
    BY <2>1, NothingOwed, Pairs
  <2>3. Covered(pc', Producers, Consumers, QueueSize - used)
    BY <2>1, QuietMove, Pairs DEF WakeInv, Sending
  <2>4. NobodySleepsThroughTheEnd'
    BY <2>1, EndKept DEF WakeInv, Moved
  <2> QED
    BY <2>1, <2>2, <2>3, <2>4 DEF WakeInv
<1> QED
  BY <1>1, <1>2, <1>3, <1>4, <1>5

\* A signal: it wakes one of the group, or there is nobody to wake.
LEMMA SignalCovered ==
    ASSUME IInv, NEW G, NEW O, Pair(G, O), NEW n \in Int, NEW m \in Int,
           NEW t \in O, NEW v, v # "wait", SignalOne(t, G, v),
           Covered(pc, G, O, n), Covered(pc, O, G, m)
    PROVE  /\ Covered(pc', G, O, n) /\ Covered(pc', O, G, m)
           /\ \A u \in Threads : pc'[u] = "wait" => pc[u] = "wait"
           /\ \A u \in Threads \ (G \cup O) : pc'[u] = pc[u]
<1> DEFINE h == [pc EXCEPT ![t] = v]
<1>0. /\ TypeOK /\ Pair(O, G) /\ pc[t] = "signal" /\ DOMAIN pc = Threads
      /\ t \in Threads /\ t \notin G
  BY Basics DEF SignalOne, TypeOK, PlacesOK, Pair
<1>1. Moved(pc, h, t, v)
  BY <1>0 DEF Moved
<1>2. Covered(h, O, G, m)
  BY <1>0, <1>1, QuietMove DEF Testing
<1>3. CASE Waiting(G) = {}
  <2>1. pc' = h /\ \A u \in G : h[u] # "wait"
    BY <1>0, <1>1, <1>3 DEF SignalOne, Waiting, Moved, Pair
  <2>2. Covered(h, G, O, n)
    BY <2>1, NothingOwed
  <2> QED
    BY <2>1, <2>2, <1>1, <1>2 DEF Moved
<1>4. CASE Waiting(G) # {}
  <2>1. PICK w \in Waiting(G) : pc' = [pc EXCEPT ![t] = v, ![w] = "relock"]
    BY <1>4 DEF SignalOne
  <2>2. w \in G /\ w \in Threads /\ w # t /\ pc[w] = "wait" /\ h[w] = "wait"
    BY <1>0 DEF Waiting, Pair
  <2>3. Moved(h, pc', w, "relock")
    BY <1>0, <2>1, <2>2 DEF Moved
  <2>4. Covered(pc', G, O, n)
    BY <1>1, <2>2, <2>3, HandOver
  <2>5. Covered(pc', O, G, m)
    BY <1>0, <1>2, <2>2, <2>3, QuietMove DEF Sending, Pair
  <2> QED
    BY <1>1, <2>2, <2>3, <2>4, <2>5, <1>0 DEF Moved, Pair
<1> QED
  BY <1>3, <1>4

LEMMA SignalStep ==
    ASSUME IInv, WakeInv
    PROVE  /\ \A p \in Producers : SignalUnderflow(p) => WakeInv'
           /\ \A c \in Consumers : SignalOverflow(c) => WakeInv'
<1> USE Basics, Pairs
<1>1. ASSUME NEW p \in Producers, SignalUnderflow(p) PROVE WakeInv'
  <2>1. SignalOne(p, Consumers, "loop") /\ used' = used /\ goingAway' = goingAway
    BY <1>1 DEF SignalUnderflow, ring
  <2>2. /\ Covered(pc', Consumers, Producers, used)
        /\ Covered(pc', Producers, Consumers, QueueSize - used)
        /\ \A u \in Threads : pc'[u] = "wait" => pc[u] = "wait"
        /\ pc'[Main] = pc[Main]
    BY <2>1, SignalCovered DEF WakeInv
  <2>3. NobodySleepsThroughTheEnd'
    BY <2>1, <2>2, EndKept DEF WakeInv
  <2> QED
    BY <2>1, <2>2, <2>3 DEF WakeInv
<1>2. ASSUME NEW c \in Consumers, SignalOverflow(c) PROVE WakeInv'
  <2>1. SignalOne(c, Producers, "scan") /\ used' = used /\ goingAway' = goingAway
    BY <1>2 DEF SignalOverflow, ring
  <2>2. /\ Covered(pc', Consumers, Producers, used)
        /\ Covered(pc', Producers, Consumers, QueueSize - used)
        /\ \A u \in Threads : pc'[u] = "wait" => pc[u] = "wait"
        /\ pc'[Main] = pc[Main]
    BY <2>1, SignalCovered DEF WakeInv
  <2>3. NobodySleepsThroughTheEnd'
    BY <2>1, <2>2, EndKept DEF WakeInv
  <2> QED
    BY <2>1, <2>2, <2>3 DEF WakeInv
<1> QED
  BY <1>1, <1>2

\* The broadcast leaves no consumer asleep.
LEMMA BroadcastStep == ASSUME IInv, WakeInv, Broadcast PROVE WakeInv'
<1> USE Basics, Pairs
<1>1. /\ \A c \in Consumers : pc'[c] # "wait"
      /\ \A p \in Producers : pc'[p] = pc[p]
      /\ \A c \in Consumers : pc'[c] \in Sending <=> pc[c] \in Sending
      /\ used' = used
  BY DEF Broadcast, Waiting, ring, Sending
<1>2. Covered(pc', Consumers, Producers, used)
  BY <1>1, NothingOwed
<1>3. Covered(pc', Producers, Consumers, QueueSize - used)
  <2>1. /\ {c \in Consumers : pc'[c] \in Sending} = {c \in Consumers : pc[c] \in Sending}
        /\ {p \in Producers : pc'[p] \in Testing} = {p \in Producers : pc[p] \in Testing}
        /\ {p \in Producers : pc'[p] = "wait"} = {p \in Producers : pc[p] = "wait"}
    BY <1>1
  <2> QED
    BY <2>1 DEF WakeInv, Covered, Count
<1>4. NobodySleepsThroughTheEnd'
  BY <1>1 DEF NobodySleepsThroughTheEnd, Waiting
<1> QED
  BY <1>1, <1>2, <1>3, <1>4 DEF WakeInv

LEMMA WakeNext == IInv /\ WakeInv /\ [Next]_vars => WakeInv'
<1> SUFFICES ASSUME IInv, WakeInv, [Next]_vars PROVE WakeInv'
  OBVIOUS
<1> USE Basics
<1>1. ASSUME UNCHANGED <<pc, used, goingAway>> PROVE WakeInv'
  BY <1>1 DEF WakeInv, NobodySleepsThroughTheEnd, Waiting
<1>2. ASSUME NEW t \in Producers \cup Consumers,
             Lock(t) \/ Reacquire(t) \/ SpuriousWakeup(t)
      PROVE  WakeInv'
  <2>1. CASE Lock(t)
    BY <2>1, QuietStep DEF Lock, Acquire, Goto, ring, Testing, Sending
  <2>2. CASE Reacquire(t)
    BY <2>2, QuietStep DEF Reacquire, Acquire, Goto, ring, Testing, Sending
  <2>3. CASE SpuriousWakeup(t)
    BY <2>3, QuietStep DEF SpuriousWakeup, Goto, ring, Testing, Sending
  <2> QED
    BY <1>2, <2>1, <2>2, <2>3
<1>3. ASSUME NEW p \in Producers,
             Prepare(p) \/ ProducerUnlock(p) \/ ProducerReturn(p) \/ SpawnProducer(p)
      PROVE  WakeInv'
  <2>1. CASE Prepare(p)
    BY <2>1, QuietStep DEF Prepare, Goto, ring, Testing, Sending
  <2>2. CASE ProducerUnlock(p)
    BY <2>2, QuietStep DEF ProducerUnlock, Release, Goto, ring, Testing, Sending
  <2>3. CASE ProducerReturn(p)
    BY <2>3, QuietStep DEF ProducerReturn, Goto, ring, Testing, Sending
  <2>4. CASE SpawnProducer(p)
    BY <2>4, QuietStep DEF SpawnProducer, Goto, ring, Testing, Sending
  <2> QED
    BY <1>3, <2>1, <2>2, <2>3, <2>4
<1>4. ASSUME NEW c \in Consumers,
             \/ ConsumerReturn(c) \/ ConsumerUnlock(c) \/ Scan(c)
             \/ ConsumerInterrupted(c) \/ SpawnConsumer(c)
      PROVE  WakeInv'
  <2>1. CASE ConsumerReturn(c)
    BY <2>1, QuietStep DEF ConsumerReturn, Release, Goto, ring, Testing, Sending
  <2>2. CASE ConsumerUnlock(c)
    BY <2>2, QuietStep DEF ConsumerUnlock, Release, Goto, ring, Testing, Sending
  <2>3. CASE Scan(c)
    BY <2>3, QuietStep DEF Scan, Goto, ring, Testing, Sending
  <2>4. CASE ConsumerInterrupted(c)
    BY <2>4, QuietStep DEF ConsumerInterrupted, Goto, ring, Testing, Sending
  <2>5. CASE SpawnConsumer(c)
    BY <2>5, QuietStep DEF SpawnConsumer, Goto, ring, Testing, Sending
  <2> QED
    BY <1>4, <2>1, <2>2, <2>3, <2>4, <2>5
<1>5. ASSUME SpawnedAll \/ JoinProducers \/ MainLock \/ MainUnlock \/ JoinConsumers
      PROVE  WakeInv'
  <2>1. PICK v : /\ pc' = [pc EXCEPT ![Main] = v]
                 /\ pc[Main] \in {"unlock", "broadcast"} => v \in {"unlock", "broadcast"}
    BY <1>5 DEF SpawnedAll, JoinProducers, MainLock, MainUnlock, JoinConsumers,
                Acquire, Release, Goto
  <2>2. used' = used /\ goingAway' = goingAway
    BY <1>5 DEF SpawnedAll, JoinProducers, MainLock, MainUnlock, JoinConsumers, ring
  <2> QED
    BY <2>1, <2>2, QuietStep
<1>6. ASSUME Announce PROVE WakeInv'
  BY <1>6, QuietStep DEF Announce, Goto, ring
<1>7. ASSUME NEW p \in Producers, ProducerStep(p) PROVE WakeInv'
  BY <1>7, <1>2, <1>3, TestStep, SignalStep DEF ProducerStep
<1>8. ASSUME NEW c \in Consumers, ConsumerStep(c) PROVE WakeInv'
  BY <1>8, <1>2, <1>4, TestStep, SignalStep DEF ConsumerStep
<1>9. ASSUME MainStep PROVE WakeInv'
  BY <1>9, <1>3, <1>4, <1>5, <1>6, BroadcastStep DEF MainStep
<1>10. ASSUME Disturbance PROVE WakeInv'
  <2>1. ASSUME NEW p \in Producers, ProducerInterrupted(p) PROVE WakeInv'
    BY <2>1, <1>1 DEF ProducerInterrupted, ring
  <2> QED
    BY <1>10, <1>2, <1>4, <2>1 DEF Disturbance
<1>11. ASSUME UNCHANGED vars PROVE WakeInv'
  BY <1>11, <1>1 DEF vars
<1> QED
  BY <1>7, <1>8, <1>9, <1>10, <1>11 DEF Next, Finished

\* One signal each, sent after the unlock and forgotten when nobody waits, is
\* enough: nobody sleeps while there is something to do that nobody is going
\* to look for.
THEOREM NoWakeupLost == Spec => []NoLostWakeup
<1>1. Spec => []WakeInv
  BY WakeInit, WakeNext, Invariance, PTL DEF Spec
<1> QED
  BY <1>1, WakeIsNoLostWakeup, PTL

-----------------------------------------------------------------------------
(***************************************************************************)
(* Following the documents: at any moment the documents made are those     *)
(* that producers carry, those in the ring and those that were taken, each *)
(* of them once; and of those taken, no more are missing from what was     *)
(* printed than sleeps were interrupted.                                   *)
(***************************************************************************)

\* The documents that left producers' hands, in the order they did.
Flow == delivered \o Buffer

\* No two places of a sequence hold the same.
Exact(s) == IsFiniteSet(Elements(s)) /\ Cardinality(Elements(s)) = Len(s)

\* Taken, but neither printed nor in a consumer's hand.
Lost == Elements(delivered) \ (scanned \cup {hand[c] : c \in Consumers})

\* Nothing is doubled, and nothing missing but what interrupts account for.
OnceInv ==
    /\ Exact(Flow)
    /\ Elements(Flow) \cap Carried = {}
    /\ Elements(Flow) \cup Carried = Made
    /\ IsFiniteSet(Lost) /\ Cardinality(Lost) <= interrupts

LEMMA OnceIsEveryDocumentOnce == OnceInv => EveryDocumentOnce
BY DEF OnceInv, EveryDocumentOnce, LossesAreInterrupts, Exact, Flow, Lost

-----------------------------------------------------------------------------
(* Sequences of documents *)

LEMMA ElementsAppend ==
    ASSUME NEW S, NEW s \in Seq(S), NEW x \in S
    PROVE  Elements(Append(s, x)) = Elements(s) \cup {x}
<1> DEFINE a == Append(s, x)
<1>1. /\ DOMAIN s = 1 .. Len(s) /\ Len(s) \in Nat
      /\ DOMAIN a = 1 .. Len(s) + 1
      /\ \A i \in 1 .. Len(s) : a[i] = s[i]
      /\ a[Len(s) + 1] = x
  BY AppendProperties, LenProperties
<1> HIDE DEF a
<1>2. ASSUME NEW e \in Elements(a) PROVE e \in Elements(s) \cup {x}
  <2>1. PICK i \in 1 .. Len(s) + 1 : e = a[i]
    BY <1>1 DEF Elements
  <2>2. CASE i = Len(s) + 1
    BY <1>1, <2>1, <2>2
  <2>3. CASE i # Len(s) + 1
    <3>1. i \in 1 .. Len(s)
      BY <1>1, <2>3
    <3> QED
      BY <1>1, <2>1, <3>1 DEF Elements
  <2> QED
    BY <2>2, <2>3
<1>3. ASSUME NEW e \in Elements(s) PROVE e \in Elements(a)
  <2>1. PICK i \in 1 .. Len(s) : e = s[i]
    BY <1>1 DEF Elements
  <2>2. i \in DOMAIN a /\ a[i] = e
    BY <1>1, <2>1
  <2> QED
    BY <2>2 DEF Elements
<1>4. x \in Elements(a)
  <2>1. Len(s) + 1 \in DOMAIN a
    BY <1>1
  <2> QED
    BY <1>1, <2>1 DEF Elements
<1> QED
  BY <1>2, <1>3, <1>4 DEF a

\* A document that was not there makes the sequence longer by one.
LEMMA ExactAppend ==
    ASSUME NEW S, NEW s \in Seq(S), NEW x \in S, Exact(s), x \notin Elements(s)
    PROVE  Exact(Append(s, x))
<1>1. /\ IsFiniteSet(Elements(s) \cup {x})
      /\ Cardinality(Elements(s) \cup {x}) = Cardinality(Elements(s)) + 1
  BY FS_AddElement DEF Exact
<1>2. Len(Append(s, x)) = Len(s) + 1
  BY AppendProperties
<1>3. Elements(Append(s, x)) = Elements(s) \cup {x}
  BY ElementsAppend
<1>4. Cardinality(Elements(s)) = Len(s)
  BY DEF Exact
<1> QED
  BY <1>1, <1>2, <1>3, <1>4 DEF Exact

\* What leaves the ring at its head enters the list of what was taken.
LEMMA TakeKeepsOrder ==
    ASSUME NEW S, NEW d \in Seq(S), NEW b \in Seq(S), b # << >>
    PROVE  Append(d, Head(b)) \o Tail(b) = d \o b
<1>1. /\ Head(b) \in S /\ Tail(b) \in Seq(S) /\ Len(Tail(b)) = Len(b) - 1
      /\ \A i \in 1 .. Len(Tail(b)) : Tail(b)[i] = b[i + 1]
      /\ Head(b) = b[1]
      /\ Len(b) \in Nat \ {0} /\ Len(d) \in Nat
  BY HeadTailProperties, EmptySeq, LenProperties
<1> DEFINE a == Append(d, Head(b))
           t == Tail(b)
<1>2. /\ a \in Seq(S) /\ Len(a) = Len(d) + 1
      /\ \A i \in 1 .. Len(d) : a[i] = d[i]
      /\ a[Len(d) + 1] = b[1]
  BY <1>1, AppendProperties
<1>3. /\ t \in Seq(S) /\ Len(t) = Len(b) - 1
      /\ \A i \in 1 .. Len(b) - 1 : t[i] = b[i + 1]
  BY <1>1
<1> HIDE DEF a, t
<1>4. /\ a \o t \in Seq(S) /\ Len(a \o t) = Len(d) + Len(b)
      /\ \A i \in 1 .. Len(d) + Len(b) :
            (a \o t)[i] = IF i <= Len(d) + 1 THEN a[i] ELSE t[i - (Len(d) + 1)]
  <2>1. /\ a \o t \in Seq(S) /\ Len(a \o t) = Len(a) + Len(t)
        /\ \A i \in 1 .. Len(a) + Len(t) :
              (a \o t)[i] = IF i <= Len(a) THEN a[i] ELSE t[i - Len(a)]
    BY <1>2, <1>3, ConcatProperties
  <2>2. Len(a) + Len(t) = Len(d) + Len(b)
    BY <1>1, <1>2, <1>3
  <2> QED
    BY <2>1, <2>2, <1>2
<1>5. /\ d \o b \in Seq(S) /\ Len(d \o b) = Len(d) + Len(b)
      /\ \A i \in 1 .. Len(d) + Len(b) :
            (d \o b)[i] = IF i <= Len(d) THEN d[i] ELSE b[i - Len(d)]
  BY ConcatProperties
<1>6. ASSUME NEW i \in 1 .. Len(d) + Len(b) PROVE (a \o t)[i] = (d \o b)[i]
  <2>1. CASE i <= Len(d)
    <3>1. i \in 1 .. Len(d) /\ i <= Len(d) + 1
      BY <1>1, <2>1
    <3> QED
      BY <1>2, <1>4, <1>5, <2>1, <3>1
  <2>2. CASE i = Len(d) + 1
    <3>1. i <= Len(d) + 1 /\ ~(i <= Len(d)) /\ i - Len(d) = 1
      BY <1>1, <2>2
    <3>2. (a \o t)[i] = a[i] /\ (d \o b)[i] = b[i - Len(d)]
      BY <1>4, <1>5, <3>1
    <3> QED
      BY <1>2, <2>2, <3>1, <3>2
  <2>3. CASE i > Len(d) + 1
    <3>1. /\ ~(i <= Len(d) + 1) /\ ~(i <= Len(d))
          /\ i - (Len(d) + 1) \in 1 .. Len(b) - 1
          /\ (i - (Len(d) + 1)) + 1 = i - Len(d)
      BY <1>1, <2>3
    <3> QED
      BY <1>3, <1>4, <1>5, <3>1
  <2>4. i <= Len(d) \/ i = Len(d) + 1 \/ i > Len(d) + 1
    BY <1>1
  <2> QED
    BY <2>1, <2>2, <2>3, <2>4
<1> QED
  BY <1>4, <1>5, <1>6, SeqEqual DEF a, t

-----------------------------------------------------------------------------
(* The steps *)

LEMMA FlowType ==
    ASSUME IInv
    PROVE  delivered \in Seq(Documents) /\ Buffer \in Seq(Documents)
             /\ Flow \in Seq(Documents)
BY BufferIsSequence, ConcatProperties DEF IInv, TypeOK, Flow

LEMMA OnceInit == Init => OnceInv
<1> SUFFICES ASSUME Init PROVE OnceInv
  OBVIOUS
<1>1. Flow = << >> /\ Elements(Flow) = {} /\ Elements(delivered) = {}
  BY DEF Init, Flow, Buffer, Elements
<1>2. Carried = {} /\ Made = {}
  BY DEF Init, Carried, Made, Documents
<1>3. Exact(Flow)
  BY <1>1, FS_EmptySet DEF Exact
<1>4. IsFiniteSet(Lost) /\ Cardinality(Lost) <= interrupts
  <2>1. Lost = {}
    BY <1>1 DEF Lost
  <2>2. interrupts = 0 /\ IsFiniteSet({}) /\ Cardinality({}) = 0
    BY FS_EmptySet DEF Init
  <2> QED
    BY <2>1, <2>2
<1> QED
  BY <1>1, <1>2, <1>3, <1>4 DEF OnceInv

\* Steps that leave all documents where they are.
LEMMA StillStep ==
    ASSUME IInv, OnceInv, UNCHANGED <<ring, docCounter, hand, delivered, scanned>>,
           interrupts' \in {interrupts, interrupts + 1}
    PROVE  OnceInv'
<1>1. Flow' = Flow /\ Carried' = Carried /\ Made' = Made /\ Lost' = Lost
  BY BufferKept DEF Flow, Carried, Made, Lost
<1>2. Cardinality(Lost) <= interrupts'
  BY FS_CardinalityType DEF IInv, TypeOK, OnceInv
<1> QED
  BY <1>1, <1>2 DEF OnceInv, Exact

\* A step that loses at most what it takes away leaves losses in bounds.
LEMMA FewerLost ==
    ASSUME IInv, OnceInv, NEW T \in SUBSET Lost
    PROVE  IsFiniteSet(T) /\ Cardinality(T) <= interrupts
<1>1. IsFiniteSet(T) /\ Cardinality(T) <= Cardinality(Lost)
  BY FS_Subset DEF OnceInv
<1>2. Cardinality(T) \in Nat /\ Cardinality(Lost) \in Nat
  BY <1>1, FS_CardinalityType DEF OnceInv
<1>3. interrupts \in Int
  BY DEF IInv, TypeOK
<1>4. Cardinality(Lost) <= interrupts
  BY DEF OnceInv
<1> QED
  BY <1>1, <1>2, <1>3, <1>4

\* The new document was never counted before, so it is new to all.
LEMMA PrepareOnce ==
    ASSUME IInv, OnceInv, NEW p \in Producers, Prepare(p)
    PROVE  OnceInv'
<1> USE ThreadsAssumption, NumbersAssumption, NoDocAssumption
<1> DEFINE new == [prod |-> p, doc |-> docCounter[p]]
<1>1. /\ docCounter[p] \in 0 .. Amount - 1 /\ new \in Documents /\ new # NoDoc
      /\ docCounter' = [docCounter EXCEPT ![p] = @ + 1]
      /\ hand' = [hand EXCEPT ![p] = new]
      /\ docCounter \in [Producers -> 0 .. Amount]
      /\ hand \in [Producers \cup Consumers -> Documents \cup {NoDoc}]
      /\ hand[p] = NoDoc
  <2>1. /\ docCounter \in [Producers -> 0 .. Amount]
        /\ hand \in [Producers \cup Consumers -> Documents \cup {NoDoc}]
        /\ pc[p] = "loop"
    BY DEF Prepare, Goto, IInv, TypeOK
  <2>2. docCounter[p] \in 0 .. Amount - 1
    BY <2>1 DEF Prepare
  <2>3. hand[p] = NoDoc
    BY <2>1 DEF IInv, HandsMatch
  <2>4. new \in Documents
    BY <2>2 DEF Documents
  <2> QED
    BY <2>1, <2>2, <2>3, <2>4 DEF Prepare
<1> HIDE DEF new
<1>2. Flow' = Flow
  BY BufferKept DEF Prepare, Flow
<1>3. Carried' = Carried \cup {new}
  <2>1. /\ hand'[p] = new
        /\ \A q \in Producers : q # p => hand'[q] = hand[q]
    BY <1>1
  <2> QED
    BY <1>1, <2>1 DEF Carried
<1>4. Made' = Made \cup {new} /\ new \notin Made
  <2>1. \A d \in Documents : d.doc < docCounter'[d.prod] <=> d.doc < docCounter[d.prod] \/ d = new
    BY <1>1 DEF Documents, new
  <2>2. ~(new.doc < docCounter[new.prod])
    BY <1>1 DEF new
  <2> QED
    BY <1>1, <2>1, <2>2 DEF Made
<1>5. Lost' = Lost
  BY <1>1 DEF Prepare, Lost
<1>6. interrupts' = interrupts
  BY DEF Prepare, counters
<1> QED
  BY <1>2, <1>3, <1>4, <1>5, <1>6 DEF OnceInv, Exact

\* The document goes from the hand into the flow.
LEMMA InsertOnce ==
    ASSUME IInv, OnceInv, NEW p \in Producers, Insert(p)
    PROVE  OnceInv'
<1> USE ThreadsAssumption, NoDocAssumption
<1>1. /\ hand \in [Producers \cup Consumers -> Documents \cup {NoDoc}]
      /\ hand' = [hand EXCEPT ![p] = NoDoc]
      /\ hand[p] = [prod |-> p, doc |-> docCounter[p] - 1]
      /\ hand[p] \in Documents /\ hand[p] # NoDoc
      /\ delivered' = delivered /\ interrupts' = interrupts
      /\ docCounter' = docCounter /\ scanned' = scanned
  BY NumbersAssumption DEF Insert, Goto, IInv, TypeOK, HandsMatch, Documents, counters
<1>2. Flow' = Append(Flow, hand[p])
  <2>1. Flow' = delivered \o Append(Buffer, hand[p])
    BY <1>1, BufferInsert DEF Flow
  <2>2. <<hand[p]>> \in Seq(Documents)
    BY <1>1
  <2>3. /\ Append(Buffer, hand[p]) = Buffer \o <<hand[p]>>
        /\ Append(Flow, hand[p]) = Flow \o <<hand[p]>>
    BY <1>1, FlowType, AppendIsConcat
  <2>4. delivered \o (Buffer \o <<hand[p]>>) = (delivered \o Buffer) \o <<hand[p]>>
    BY <2>2, FlowType, ConcatAssociative
  <2> QED
    BY <2>1, <2>3, <2>4 DEF Flow
<1>3. hand[p] \in Carried /\ hand[p] \notin Elements(Flow)
  BY <1>1 DEF Carried, OnceInv
<1>4. Carried' = Carried \ {hand[p]}
  <2>1. ASSUME NEW q \in Producers, q # p PROVE hand'[q] = hand[q] /\ hand[q] # hand[p]
    <3>1. hand[q] = NoDoc \/ hand[q] = [prod |-> q, doc |-> docCounter[q] - 1]
      BY DEF IInv, HandsMatch
    <3> QED
      BY <1>1, <2>1, <3>1
  <2>2. hand'[p] = NoDoc
    BY <1>1
  <2> QED
    BY <2>1, <2>2 DEF Carried
<1>5. Elements(Flow') = Elements(Flow) \cup {hand[p]} /\ Exact(Flow')
  BY <1>1, <1>2, <1>3, FlowType, ElementsAppend, ExactAppend DEF OnceInv
<1>6. Lost' = Lost /\ Made' = Made
  BY <1>1 DEF Lost, Made
<1>7. Exact(Flow)' /\ Elements(Flow)' = Elements(Flow) \cup {hand[p]}
  BY <1>5 DEF Exact, Elements
<1> QED
  BY <1>1, <1>3, <1>4, <1>6, <1>7 DEF OnceInv

\* The flow is the same before and after; the document is in a hand.
LEMMA TakeOnce ==
    ASSUME IInv, OnceInv, NEW c \in Consumers, Take(c)
    PROVE  OnceInv'
<1> USE ThreadsAssumption, NoDocAssumption
<1> DEFINE d == queue[head]
<1>1. /\ Buffer # << >> /\ Head(Buffer) = d /\ Buffer' = Tail(Buffer) /\ d \in Documents
  BY BufferTake, FlowType, HeadTailProperties
<1>2. /\ hand \in [Producers \cup Consumers -> Documents \cup {NoDoc}]
      /\ hand' = [hand EXCEPT ![c] = d] /\ hand[c] = NoDoc
      /\ delivered' = Append(delivered, d) /\ interrupts' = interrupts
      /\ docCounter' = docCounter /\ scanned' = scanned
  BY DEF Take, Goto, IInv, TypeOK, HandsMatch, counters
<1> HIDE DEF d
<1>3. Flow' = Flow
  BY <1>1, <1>2, FlowType, TakeKeepsOrder DEF Flow
<1>4. Carried' = Carried /\ Made' = Made
  BY <1>2 DEF Carried, Made
<1>5. Lost' \subseteq Lost
  <2>1. Elements(delivered') = Elements(delivered) \cup {d}
    BY <1>1, <1>2, FlowType, ElementsAppend
  <2>2. Elements(delivered)' = Elements(delivered) \cup {d}
    BY <2>1 DEF Elements
  <2>3. hand'[c] = d /\ \A b \in Consumers : b # c => hand'[b] = hand[b]
    BY <1>2
  <2>4. NoDoc \notin Elements(delivered)
    BY FlowType DEF Elements
  <2> QED
    BY <1>2, <2>2, <2>3, <2>4 DEF Lost
<1>6. IsFiniteSet(Lost') /\ Cardinality(Lost') <= interrupts
  BY <1>5, FewerLost
<1> QED
  BY <1>2, <1>3, <1>4, <1>6 DEF OnceInv, Exact

\* A document leaves a consumer's hand: printed, or lost to an interrupt.
LEMMA ScanOnce ==
    ASSUME IInv, OnceInv, NEW c \in Consumers, Scan(c) \/ ConsumerInterrupted(c)
    PROVE  OnceInv'
<1> USE ThreadsAssumption
<1>1. /\ hand \in [Producers \cup Consumers -> Documents \cup {NoDoc}]
      /\ hand' = [hand EXCEPT ![c] = NoDoc]
      /\ delivered' = delivered /\ docCounter' = docCounter
      /\ UNCHANGED ring
      /\ \/ scanned' = scanned \cup {hand[c]} /\ interrupts' = interrupts
         \/ scanned' = scanned /\ interrupts' = interrupts + 1
  BY DEF Scan, ConsumerInterrupted, Goto, IInv, TypeOK, counters
<1>2. Flow' = Flow /\ Made' = Made
  BY <1>1, BufferKept DEF Flow, Made
<1>3. Carried' = Carried
  BY <1>1 DEF Carried
<1>4. \A b \in Consumers : b # c => hand'[b] = hand[b]
  BY <1>1
<1>5. CASE scanned' = scanned \cup {hand[c]} /\ interrupts' = interrupts
  <2>1. Lost' \subseteq Lost
    BY <1>1, <1>4, <1>5 DEF Lost
  <2>2. IsFiniteSet(Lost') /\ Cardinality(Lost') <= interrupts
    BY <2>1, FewerLost
  <2> QED
    BY <1>2, <1>3, <1>5, <2>2 DEF OnceInv, Exact
<1>6. CASE scanned' = scanned /\ interrupts' = interrupts + 1
  <2>1. Lost' \subseteq Lost \cup {hand[c]}
    BY <1>1, <1>4, <1>6 DEF Lost
  <2>2. /\ IsFiniteSet(Lost \cup {hand[c]})
        /\ Cardinality(Lost \cup {hand[c]}) <= Cardinality(Lost) + 1
    <3>1. IsFiniteSet(Lost) /\ Cardinality(Lost) \in Nat
      BY FS_CardinalityType DEF OnceInv
    <3>2. /\ IsFiniteSet(Lost \cup {hand[c]})
          /\ Cardinality(Lost \cup {hand[c]})
               = IF hand[c] \in Lost THEN Cardinality(Lost) ELSE Cardinality(Lost) + 1
      BY <3>1, FS_AddElement
    <3> QED
      BY <3>1, <3>2
  <2>3. IsFiniteSet(Lost') /\ Cardinality(Lost') <= Cardinality(Lost \cup {hand[c]})
    BY <2>1, <2>2, FS_Subset
  <2>4. Cardinality(Lost') <= interrupts + 1
    BY <2>2, <2>3, FS_CardinalityType DEF OnceInv, IInv, TypeOK
  <2> QED
    BY <1>2, <1>3, <1>6, <2>3, <2>4 DEF OnceInv, Exact
<1> QED
  BY <1>1, <1>5, <1>6

LEMMA OnceNext == IInv /\ OnceInv /\ [Next]_vars => OnceInv'
<1> SUFFICES ASSUME IInv, OnceInv, [Next]_vars PROVE OnceInv'
  OBVIOUS
<1> DEFINE Still == /\ UNCHANGED <<ring, docCounter, hand, delivered, scanned>>
                    /\ interrupts' \in {interrupts, interrupts + 1}
<1>1. Still => OnceInv'
  BY StillStep
<1>2. ASSUME NEW t \in Producers \cup Consumers,
             Lock(t) \/ Reacquire(t) \/ SpuriousWakeup(t)
      PROVE  Still
  BY <1>2 DEF Lock, Reacquire, SpuriousWakeup, counters
<1>3. ASSUME NEW p \in Producers, ProducerStep(p) PROVE OnceInv'
  <2>1. ASSUME WaitOverflow(p) \/ ProducerUnlock(p) \/ SignalUnderflow(p)
                 \/ ProducerReturn(p)
        PROVE  Still
    BY <2>1 DEF WaitOverflow, ProducerUnlock, SignalUnderflow, ProducerReturn, counters
  <2> HIDE DEF Still
  <2> QED
    BY <1>1, <1>2, <1>3, <2>1, PrepareOnce, InsertOnce DEF ProducerStep
<1>4. ASSUME NEW c \in Consumers, ConsumerStep(c) PROVE OnceInv'
  <2>1. ASSUME WaitUnderflow(c) \/ Leave(c) \/ ConsumerReturn(c)
                 \/ ConsumerUnlock(c) \/ SignalOverflow(c)
        PROVE  Still
    BY <2>1 DEF WaitUnderflow, Leave, ConsumerReturn, ConsumerUnlock,
                SignalOverflow, counters
  <2> HIDE DEF Still
  <2> QED
    BY <1>1, <1>2, <1>4, <2>1, TakeOnce, ScanOnce DEF ConsumerStep
<1>5. ASSUME MainStep PROVE Still
  BY <1>5 DEF MainStep, SpawnConsumer, SpawnProducer, SpawnedAll, JoinProducers,
     MainLock, Announce, MainUnlock, Broadcast, JoinConsumers, counters
<1>6. ASSUME Disturbance PROVE OnceInv'
  <2>1. ASSUME NEW p \in Producers, ProducerInterrupted(p) PROVE Still
    BY <2>1 DEF ProducerInterrupted
  <2> HIDE DEF Still
  <2> QED
    BY <1>1, <1>2, <1>6, <2>1, ScanOnce DEF Disturbance
<1>7. ASSUME UNCHANGED vars PROVE Still
  BY <1>7 DEF vars, ring
<1> QED
  BY <1>1, <1>3, <1>4, <1>5, <1>6, <1>7 DEF Next, Finished

\* No document is lost or doubled between the producer that makes it and the
\* consumer that takes it, and only interrupts keep one from being printed.
THEOREM OnceEach == Spec => []EveryDocumentOnce
<1>1. Spec => []OnceInv
  BY OnceInit, OnceNext, Invariance, PTL DEF Spec
<1> QED
  BY <1>1, OnceIsEveryDocumentOnce, PTL

=============================================================================

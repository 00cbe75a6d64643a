-------------------------------- MODULE MPMC --------------------------------
(***************************************************************************)
(* course2-1/__non_canonical/For575/mpmc/mpmc.c: producers and consumers   *)
(* sharing one circular queue of documents, guarded by a mutex and two     *)
(* condition variables, with a main thread that starts them, waits for the *)
(* producers, announces the end and waits for the consumers.               *)
(*                                                                         *)
(* One action per stretch of code between two points where another thread  *)
(* can be observed: everything a thread does while it owns queue_mutex up  *)
(* to the next mutex or condition-variable call is one step.               *)
(***************************************************************************)
EXTENDS Integers, Sequences, FiniteSets

CONSTANTS
    Producers,      \* prod_nr threads running producer_main
    Consumers,      \* cons_nr threads running consumer_main
    Main,           \* the thread running main
    Amount,         \* prod_amount, documents each producer makes
    QueueSize,      \* queue_size, the capacity of the circular buffer
    NoThread,       \* "nobody owns queue_mutex"
    NoDoc,          \* the contents of a slot malloc() returned
    MaxInterrupts,  \* bound: how many nanosleep() calls fail with EINTR
    MaxSpurious     \* bound: how many pthread_cond_wait() return unsignalled

ASSUME ThreadsAssumption ==
    /\ IsFiniteSet(Producers) /\ IsFiniteSet(Consumers)
    /\ Producers \cap Consumers = {}
    /\ Main \notin Producers \cup Consumers
    /\ NoThread \notin Producers \cup Consumers \cup {Main}

ASSUME NumbersAssumption ==
    /\ Amount \in Nat
    /\ QueueSize \in Nat
    /\ MaxInterrupts \in Nat
    /\ MaxSpurious \in Nat

Threads   == Producers \cup Consumers \cup {Main}
Documents == [prod : Producers, doc : 0 .. Amount - 1]

ASSUME NoDocAssumption == NoDoc \notin Documents

VARIABLES
    queue,       \* slot -> document, the malloc()ed array
    head,        \* queue_head, as an index: the next slot to read
    tail,        \* queue_tail, as an index: the next slot to write
    used,        \* queue_used
    goingAway,   \* queue_going_away
    owner,       \* the thread that holds queue_mutex
    pc,          \* where each thread is
    docCounter,  \* doc_counter of each producer
    hand,        \* the local variable `doc' of each producer and consumer
    delivered,   \* history: documents in the order consumers took them
    scanned,     \* history: documents printed as scanned
    interrupts,  \* EINTRs so far
    spurious     \* spurious wakeups so far

ring     == <<queue, head, tail, used>>
counters == <<interrupts, spurious>>
vars == <<queue, head, tail, used, goingAway, owner, pc, docCounter, hand,
          delivered, scanned, interrupts, spurious>>

ProducerPlaces == {"unborn", "loop", "lock", "check", "wait", "relock",
                   "unlock", "signal", "done"}
ConsumerPlaces == {"unborn", "lock", "check", "wait", "relock", "unlock",
                   "signal", "scan", "leave", "done"}
MainPlaces     == {"spawn", "joinProducers", "lock", "announce", "unlock",
                   "broadcast", "joinConsumers", "done"}

-----------------------------------------------------------------------------
(* The circular buffer *)

\* queue_get_and_advance(): the slot after i, going round at the end.
Advance(i) == IF i + 1 < QueueSize THEN i + 1 ELSE 0

-----------------------------------------------------------------------------
(* The mutex and the condition variables, as the threads use them *)

\* Thread t moves from one place to another.
Goto(t, from, to) == pc[t] = from /\ pc' = [pc EXCEPT ![t] = to]

\* pthread_mutex_lock() returns, or pthread_cond_wait() gets its mutex back.
Acquire(t, from, to) ==
    /\ owner = NoThread
    /\ owner' = t
    /\ Goto(t, from, to)

\* pthread_mutex_unlock(), or the release inside pthread_cond_wait().
Release(t, from, to) ==
    /\ owner' = NoThread
    /\ Goto(t, from, to)

\* Who waits on queue_cond_overflow (producers) or underflow (consumers).
Waiting(group) == {t \in group : pc[t] = "wait"}

\* pthread_cond_signal() by thread t: one thread of the group, if any waits,
\* goes on to reacquire the mutex.
SignalOne(t, group, to) ==
    /\ pc[t] = "signal"
    /\ IF Waiting(group) = {}
         THEN pc' = [pc EXCEPT ![t] = to]
         ELSE \E w \in Waiting(group) :
                 pc' = [pc EXCEPT ![t] = to, ![w] = "relock"]

\* POSIX lets pthread_cond_wait() return without a signal.
SpuriousWakeup(t) ==
    /\ spurious < MaxSpurious
    /\ spurious' = spurious + 1
    /\ Goto(t, "wait", "relock")
    /\ UNCHANGED <<ring, goingAway, owner, docCounter, hand, delivered,
                   scanned, interrupts>>

\* Mutant of Reacquire: a waiter goes on without the mutex.
ReacquireUnlocked(t) ==
    /\ Goto(t, "relock", "check")
    /\ UNCHANGED <<ring, goingAway, owner, docCounter, hand, delivered,
                   scanned, counters>>

\* A waiter that was woken takes the mutex again and re-tests its condition.
Reacquire(t) ==
    /\ Acquire(t, "relock", "check")
    /\ UNCHANGED <<ring, goingAway, docCounter, hand, delivered, scanned,
                   counters>>

Lock(t) ==
    /\ Acquire(t, "lock", "check")
    /\ UNCHANGED <<ring, goingAway, docCounter, hand, delivered, scanned,
                   counters>>

-----------------------------------------------------------------------------
(* producer_main *)

\* nanosleep() ended: the next document is made and counted.
Prepare(p) ==
    /\ Goto(p, "loop", "lock")
    /\ docCounter[p] < Amount
    /\ hand' = [hand EXCEPT ![p] = [prod |-> p, doc |-> docCounter[p]]]
    /\ docCounter' = [docCounter EXCEPT ![p] = @ + 1]
    /\ UNCHANGED <<ring, goingAway, owner, delivered, scanned, counters>>

\* nanosleep() failed with EINTR: back to the loop head, nothing was made.
ProducerInterrupted(p) ==
    /\ pc[p] = "loop"
    /\ docCounter[p] < Amount
    /\ interrupts < MaxInterrupts
    /\ interrupts' = interrupts + 1
    /\ UNCHANGED <<ring, goingAway, owner, pc, docCounter, hand, delivered,
                   scanned, spurious>>

\* The queue is full: pthread_cond_wait() on queue_cond_overflow.
WaitOverflow(p) ==
    /\ used >= QueueSize
    /\ Release(p, "check", "wait")
    /\ UNCHANGED <<ring, goingAway, docCounter, hand, delivered, scanned,
                   counters>>

\* Mutant of Insert: the test lets one document too many in.
InsertOffByOne(p) ==
    /\ Goto(p, "check", "unlock")
    /\ used <= QueueSize
    /\ queue' = [queue EXCEPT ![tail] = hand[p]]
    /\ tail' = Advance(tail)
    /\ used' = used + 1
    /\ hand' = [hand EXCEPT ![p] = NoDoc]
    /\ UNCHANGED <<head, goingAway, owner, docCounter, delivered, scanned,
                   counters>>

\* There is room: the document goes into the tail slot.
Insert(p) ==
    /\ Goto(p, "check", "unlock")
    /\ used < QueueSize
    /\ queue' = [queue EXCEPT ![tail] = hand[p]]
    /\ tail' = Advance(tail)
    /\ used' = used + 1
    /\ hand' = [hand EXCEPT ![p] = NoDoc]
    /\ UNCHANGED <<head, goingAway, owner, docCounter, delivered, scanned,
                   counters>>

ProducerUnlock(p) ==
    /\ Release(p, "unlock", "signal")
    /\ UNCHANGED <<ring, goingAway, docCounter, hand, delivered, scanned,
                   counters>>

\* Mutant of SignalUnderflow: a signal for the first document only.
SignalWhenFirst(p) ==
    /\ IF used = 1 THEN SignalOne(p, Consumers, "loop")
                   ELSE Goto(p, "signal", "loop")
    /\ UNCHANGED <<ring, goingAway, owner, docCounter, hand, delivered,
                   scanned, counters>>

\* The mutex is already free: the signal races with other threads.
SignalUnderflow(p) ==
    /\ SignalOne(p, Consumers, "loop")
    /\ UNCHANGED <<ring, goingAway, owner, docCounter, hand, delivered,
                   scanned, counters>>

ProducerReturn(p) ==
    /\ Goto(p, "loop", "done")
    /\ docCounter[p] >= Amount
    /\ UNCHANGED <<ring, goingAway, owner, docCounter, hand, delivered,
                   scanned, counters>>

ProducerStep(p) ==
    \/ Prepare(p) \/ Lock(p) \/ WaitOverflow(p) \/ Reacquire(p) \/ Insert(p)
    \/ ProducerUnlock(p) \/ SignalUnderflow(p) \/ ProducerReturn(p)

-----------------------------------------------------------------------------
(* consumer_main *)

\* Empty and no end announced: pthread_cond_wait() on queue_cond_underflow.
WaitUnderflow(c) ==
    /\ used < 1
    /\ ~ goingAway
    /\ Release(c, "check", "wait")
    /\ UNCHANGED <<ring, goingAway, docCounter, hand, delivered, scanned,
                   counters>>

\* Mutant of Leave: the loop is started over instead of left.
LeaveNever(c) ==
    /\ Release(c, "check", "lock")
    /\ used < 1
    /\ goingAway
    /\ UNCHANGED <<ring, goingAway, docCounter, hand, delivered, scanned,
                   counters>>

\* Empty and the end announced: leave the loop, still owning the mutex.
Leave(c) ==
    /\ Goto(c, "check", "leave")
    /\ used < 1
    /\ goingAway
    /\ UNCHANGED <<ring, goingAway, owner, docCounter, hand, delivered,
                   scanned, counters>>

ConsumerReturn(c) ==
    /\ Release(c, "leave", "done")
    /\ UNCHANGED <<ring, goingAway, docCounter, hand, delivered, scanned,
                   counters>>

\* Mutants of Take: queue_head is not advanced, and the newest document is
\* taken.
TakeAgain(c) ==
    /\ Goto(c, "check", "unlock")
    /\ used >= 1
    /\ hand' = [hand EXCEPT ![c] = queue[head]]
    /\ delivered' = Append(delivered, queue[head])
    /\ used' = used - 1
    /\ UNCHANGED <<queue, head, tail, goingAway, owner, docCounter, scanned,
                   counters>>

TakeNewest(c) ==
    /\ Goto(c, "check", "unlock")
    /\ used >= 1
    /\ tail' = IF tail > 0 THEN tail - 1 ELSE QueueSize - 1
    /\ hand' = [hand EXCEPT ![c] = queue[tail']]
    /\ delivered' = Append(delivered, queue[tail'])
    /\ used' = used - 1
    /\ UNCHANGED <<queue, head, goingAway, owner, docCounter, scanned,
                   counters>>

\* The document of the head slot is copied out.
Take(c) ==
    /\ Goto(c, "check", "unlock")
    /\ used >= 1
    /\ hand' = [hand EXCEPT ![c] = queue[head]]
    /\ delivered' = Append(delivered, queue[head])
    /\ head' = Advance(head)
    /\ used' = used - 1
    /\ UNCHANGED <<queue, tail, goingAway, owner, docCounter, scanned,
                   counters>>

ConsumerUnlock(c) ==
    /\ Release(c, "unlock", "signal")
    /\ UNCHANGED <<ring, goingAway, docCounter, hand, delivered, scanned,
                   counters>>

SignalOverflow(c) ==
    /\ SignalOne(c, Producers, "scan")
    /\ UNCHANGED <<ring, goingAway, owner, docCounter, hand, delivered,
                   scanned, counters>>

\* nanosleep() ended: the document is printed, and the loop starts over.
Scan(c) ==
    /\ Goto(c, "scan", "lock")
    /\ scanned' = scanned \cup {hand[c]}
    /\ hand' = [hand EXCEPT ![c] = NoDoc]
    /\ UNCHANGED <<ring, goingAway, owner, docCounter, delivered, counters>>

\* nanosleep() failed with EINTR: `continue' leaves the block that holds doc.
ConsumerInterrupted(c) ==
    /\ Goto(c, "scan", "lock")
    /\ interrupts < MaxInterrupts
    /\ interrupts' = interrupts + 1
    /\ hand' = [hand EXCEPT ![c] = NoDoc]
    /\ UNCHANGED <<ring, goingAway, owner, docCounter, delivered, scanned,
                   spurious>>

ConsumerStep(c) ==
    \/ Lock(c) \/ WaitUnderflow(c) \/ Reacquire(c) \/ Leave(c) \/ Take(c)
    \/ ConsumerReturn(c) \/ ConsumerUnlock(c) \/ SignalOverflow(c) \/ Scan(c)

-----------------------------------------------------------------------------
(* main *)

\* pthread_create(): all consumers first, then all producers.
SpawnConsumer(c) ==
    /\ pc[Main] = "spawn"
    /\ Goto(c, "unborn", "lock")
    /\ UNCHANGED <<ring, goingAway, owner, docCounter, hand, delivered,
                   scanned, counters>>

SpawnProducer(p) ==
    /\ pc[Main] = "spawn"
    /\ \A c \in Consumers : pc[c] # "unborn"
    /\ Goto(p, "unborn", "loop")
    /\ UNCHANGED <<ring, goingAway, owner, docCounter, hand, delivered,
                   scanned, counters>>

\* Everything started, main blocks in pthread_join() of the producers.
SpawnedAll ==
    /\ Goto(Main, "spawn", "joinProducers")
    /\ \A t \in Producers \cup Consumers : pc[t] # "unborn"
    /\ UNCHANGED <<ring, goingAway, owner, docCounter, hand, delivered,
                   scanned, counters>>

\* Mutant of JoinProducers: main goes on after the first producer.
JoinOneProducer ==
    /\ Goto(Main, "joinProducers", "lock")
    /\ \E p \in Producers : pc[p] = "done"
    /\ UNCHANGED <<ring, goingAway, owner, docCounter, hand, delivered,
                   scanned, counters>>

JoinProducers ==
    /\ Goto(Main, "joinProducers", "lock")
    /\ \A p \in Producers : pc[p] = "done"
    /\ UNCHANGED <<ring, goingAway, owner, docCounter, hand, delivered,
                   scanned, counters>>

MainLock ==
    /\ Acquire(Main, "lock", "announce")
    /\ UNCHANGED <<ring, goingAway, docCounter, hand, delivered, scanned,
                   counters>>

Announce ==
    /\ Goto(Main, "announce", "unlock")
    /\ goingAway' = TRUE
    /\ UNCHANGED <<ring, owner, docCounter, hand, delivered, scanned,
                   counters>>

MainUnlock ==
    /\ Release(Main, "unlock", "broadcast")
    /\ UNCHANGED <<ring, goingAway, docCounter, hand, delivered, scanned,
                   counters>>

\* pthread_cond_broadcast() on queue_cond_underflow.
Broadcast ==
    /\ pc[Main] = "broadcast"
    /\ pc' = [t \in Threads |->
                IF t = Main THEN "joinConsumers"
                ELSE IF t \in Waiting(Consumers) THEN "relock" ELSE pc[t]]
    /\ UNCHANGED <<ring, goingAway, owner, docCounter, hand, delivered,
                   scanned, counters>>

JoinConsumers ==
    /\ Goto(Main, "joinConsumers", "done")
    /\ \A c \in Consumers : pc[c] = "done"
    /\ UNCHANGED <<ring, goingAway, owner, docCounter, hand, delivered,
                   scanned, counters>>

MainStep ==
    \/ \E c \in Consumers : SpawnConsumer(c)
    \/ \E p \in Producers : SpawnProducer(p)
    \/ SpawnedAll \/ JoinProducers \/ MainLock \/ Announce \/ MainUnlock
    \/ Broadcast \/ JoinConsumers

-----------------------------------------------------------------------------
Init ==
    /\ queue = [i \in 0 .. QueueSize - 1 |-> NoDoc]
    /\ head = 0 /\ tail = 0 /\ used = 0
    /\ goingAway = FALSE
    /\ owner = NoThread
    /\ pc = [t \in Threads |-> IF t = Main THEN "spawn" ELSE "unborn"]
    /\ docCounter = [p \in Producers |-> 0]
    /\ hand = [t \in Producers \cup Consumers |-> NoDoc]
    /\ delivered = << >>
    /\ scanned = {}
    /\ interrupts = 0 /\ spurious = 0

\* What the machine does to the program: EINTR and spurious wakeups.
Disturbance ==
    \/ \E p \in Producers : ProducerInterrupted(p)
    \/ \E c \in Consumers : ConsumerInterrupted(c)
    \/ \E t \in Producers \cup Consumers : SpuriousWakeup(t)

\* main returned: the process is gone.
Finished == pc[Main] = "done" /\ UNCHANGED vars

Next ==
    \/ \E p \in Producers : ProducerStep(p)
    \/ \E c \in Consumers : ConsumerStep(c)
    \/ MainStep
    \/ Disturbance
    \/ Finished

Spec == Init /\ [][Next]_vars

\* Every thread that can go on does so. Disturbances are owed nothing.
Fairness ==
    /\ \A p \in Producers : WF_vars(ProducerStep(p))
    /\ \A c \in Consumers : WF_vars(ConsumerStep(c))
    /\ WF_vars(MainStep)

FairSpec == Spec /\ Fairness

-----------------------------------------------------------------------------
(* Properties *)

\* The slot of the k-th document from the head.
SlotAt(k) == IF head + k < QueueSize THEN head + k ELSE head + k - QueueSize

\* What is in the queue, oldest first.
Buffer == [k \in 1 .. used |-> queue[SlotAt(k - 1)]]

\* How many documents each producer has inserted: those it made, except the
\* one it still carries.
Inserted == [p \in Producers |->
               IF hand[p] = NoDoc THEN docCounter[p] ELSE docCounter[p] - 1]

Elements(s) == {s[i] : i \in DOMAIN s}

\* Documents that exist, and those a producer has made but not inserted.
Made    == {d \in Documents : d.doc < docCounter[d.prod]}
Carried == {hand[p] : p \in Producers} \ {NoDoc}

\* Each kind of thread stays in its own code.
PlacesOK ==
    /\ pc \in [Threads -> ProducerPlaces \cup ConsumerPlaces \cup MainPlaces]
    /\ \A p \in Producers : pc[p] \in ProducerPlaces
    /\ \A c \in Consumers : pc[c] \in ConsumerPlaces
    /\ pc[Main] \in MainPlaces

\* Every variable keeps its type: indices stay inside the array and the
\* counters inside their bounds.
TypeOK ==
    /\ queue \in [0 .. QueueSize - 1 -> Documents \cup {NoDoc}]
    /\ head \in Nat /\ tail \in Nat /\ used \in Nat
    /\ goingAway \in BOOLEAN
    /\ owner \in Threads \cup {NoThread}
    /\ PlacesOK
    /\ docCounter \in [Producers -> 0 .. Amount]
    /\ hand \in [Producers \cup Consumers -> Documents \cup {NoDoc}]
    /\ delivered \in Seq(Documents)
    /\ scanned \subseteq Documents
    /\ interrupts \in 0 .. MaxInterrupts
    /\ spurious \in 0 .. MaxSpurious

\* Whoever is between a lock (or a return from a cond_wait) and the next
\* unlock (or cond_wait) owns queue_mutex, so the ring is only ever touched by
\* one thread (mpmc.c:78 "serializes access to the queue").
CriticalSection ==
    \A t \in Threads :
        pc[t] \in {"check", "leave", "announce"}
            \/ (pc[t] = "unlock") => owner = t

\* head, tail and used describe the same window of the ring: it never holds
\* more than queue_size documents, an insert never lands on a document nobody
\* took, and a take never reads a slot nobody filled.
RingConsistent ==
    /\ used <= QueueSize
    /\ QueueSize > 0 => /\ head < QueueSize /\ tail < QueueSize
                        /\ tail = SlotAt(IF used = QueueSize THEN 0 ELSE used)
    /\ \A k \in 1 .. used : queue[SlotAt(k - 1)] \in Documents

\* A thread holds a document exactly between making or taking it and passing
\* it on, and a producer holds the last one it counted.
HandsMatch ==
    /\ \A p \in Producers :
         IF pc[p] \in {"lock", "check", "wait", "relock"}
           THEN /\ docCounter[p] >= 1
                /\ hand[p] = [prod |-> p, doc |-> docCounter[p] - 1]
           ELSE hand[p] = NoDoc
    /\ \A c \in Consumers :
         IF pc[c] \in {"unlock", "signal", "scan"}
           THEN hand[c] \in Documents
           ELSE hand[c] = NoDoc

\* What is settled when producers, and then consumers, are done.
EndMatch ==
    /\ \A p \in Producers : pc[p] = "done" => docCounter[p] = Amount
    /\ pc[Main] \notin {"spawn", "joinProducers"}
         => \A p \in Producers : pc[p] = "done"
    /\ goingAway => pc[Main] \notin {"spawn", "joinProducers"}
    /\ \A c \in Consumers :
         pc[c] \in {"leave", "done"} => used = 0 /\ goingAway

\* The inductive invariant: together, the parts carry over from step to step.
IInv == TypeOK /\ CriticalSection /\ HandsMatch /\ RingConsistent /\ EndMatch

\* A document that was taken is printed as scanned, is being scanned, or fell
\* to an interrupted nanosleep(): never more of them than interrupts.
LossesAreInterrupts ==
    Cardinality(Elements(delivered) \ (scanned \cup {hand[c] : c \in Consumers}))
        <= interrupts

\* No document is lost or doubled on the way: each one made is in exactly one
\* of a producer's hand, the queue, and the list of what consumers took; and what
\* was taken is printed but for interrupts.
EveryDocumentOnce ==
    LET flow == delivered \o Buffer
    IN  /\ Cardinality(Elements(flow)) = Len(flow)
        /\ Elements(flow) \cap Carried = {}
        /\ Elements(flow) \cup Carried = Made
        /\ LossesAreInterrupts

\* When a consumer leaves, the queue is empty and will stay so: every producer
\* has inserted all it had (the test of queue_going_away under used < 1).
NothingLeftBehind ==
    /\ goingAway => \A p \in Producers : pc[p] = "done"
    /\ (\E c \in Consumers : pc[c] \in {"leave", "done"}) =>
          /\ used = 0
          /\ \A p \in Producers : docCounter[p] = Amount /\ hand[p] = NoDoc

\* Signals are sent after the unlock, to one waiter, and forgotten when nobody
\* waits; still, no document stays in the queue unseen: while consumers wait,
\* each document is matched by a signal still to be sent or a consumer on its
\* way to test the queue.
WakeupsCoverDocuments ==
    Waiting(Consumers) # {} =>
        used <= Cardinality({p \in Producers : pc[p] \in {"unlock", "signal"}})
              + Cardinality({c \in Consumers : pc[c] \in {"relock", "check"}})

\* The same for room: while producers wait, each free slot is matched by a
\* signal still to be sent or a producer on its way to test the queue.
WakeupsCoverRoom ==
    Waiting(Producers) # {} =>
        QueueSize - used
           <= Cardinality({c \in Consumers : pc[c] \in {"unlock", "signal"}})
            + Cardinality({p \in Producers : pc[p] \in {"relock", "check"}})

\* No consumer sleeps through the end: once queue_going_away is set, consumers
\* wait only until the broadcast that is still due.
NobodySleepsThroughTheEnd ==
    goingAway /\ Waiting(Consumers) # {} => pc[Main] \in {"unlock", "broadcast"}

\* One signal each, sent late and to whoever waits, is enough for everybody.
NoLostWakeup ==
    WakeupsCoverDocuments /\ WakeupsCoverRoom /\ NobodySleepsThroughTheEnd

\* The program ends: all documents made and taken, all threads joined.
Termination == <>(pc[Main] = "done")

\* The program is a first-in first-out buffer of its documents: the ring read
\* from head is the buffer.
Queue == INSTANCE DocumentQueue WITH
    Capacity <- QueueSize, buffer <- Buffer, put <- Inserted,
    delivered <- delivered

FifoSpec == Queue!ASpec
=============================================================================

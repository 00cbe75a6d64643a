------------------------- MODULE MCProcesses_proofs -------------------------
(***************************************************************************)
(* Theorems about the smaller programs, as MCProcesses puts them together. *)
(* Those of LineRunner, MessageOrder, ForkOrder, SessionTransfer, Backup   *)
(* and Listing are proved here, those of FifoTransfer and RequestServer in *)
(* modules of their own. They are about the same definitions under another *)
(* name, and hold of the program a behaviour is one of: it stays the same. *)
(***************************************************************************)
EXTENDS MCProcesses, SequenceTheorems, FiniteSetTheorems, TLAPS

FifoP   == INSTANCE FifoTransfer_proofs
ServerP == INSTANCE RequestServer_proofs

-----------------------------------------------------------------------------
(* LineRunner: the units are conserved, those left in the semaphore and those *)
(* the kernel will give back make up the limit.                               *)

\* Types, and the lines that were not read have no child.
RunnerTypes ==
    /\ kind \in {"runsim", "useless"} /\ line \in 0 .. NrLines
    /\ pc \in [Runner!Lines -> {"none", "take", "sleep", "run", "ran", "refused"}]
    /\ sem \in Nat /\ held \in SUBSET Runner!Lines
    /\ \A l \in Runner!Lines : pc[l] = "none" <=> l > line
    /\ wait \in {"wait", "done"} => line = NrLines

\* The inductive invariant.
RunnerInv ==
    /\ RunnerTypes
    /\ sem + Cardinality(held) = Tasks
    /\ kind = "runsim" => held = Runner!Running /\ \A l \in Runner!Lines : pc[l] # "sleep"
    /\ kind = "useless" => \A l \in Runner!Lines : pc[l] # "take"
    /\ \A r \in refused : r[2] = Tasks
    /\ wait = "done" => \A l \in Runner!Lines : pc[l] \in {"ran", "refused"}

\* The sets of children are finite.
LEMMA HeldFinite ==
    ASSUME NrLines \in Nat, RunnerTypes
    PROVE  IsFiniteSet(held) /\ Cardinality(held) \in Nat
<1>1. IsFiniteSet(Runner!Lines)
  BY FS_Interval DEF Runner!Lines
<1> QED BY <1>1, FS_Subset, FS_CardinalityType DEF RunnerTypes

\* The instance counts as everybody does.
LEMMA RunnerCounts == ASSUME NEW S PROVE Runner!Cardinality(S) = Cardinality(S)
BY DEF Runner!Cardinality, Cardinality

\* Every step moves a unit, or leaves them alone.
LEMMA RunnerKeeps ==
    ASSUME NrLines \in Nat, Tasks \in Nat, RunnerInv, [Runner!Next]_(Runner!vars)
    PROVE  RunnerInv'
<1>0. IsFiniteSet(held) /\ Cardinality(held) \in Nat
  BY HeldFinite DEF RunnerInv
<1> USE DEF Runner!Lines
<1>1. CASE Runner!ForkLine
  BY <1>1 DEF Runner!ForkLine, RunnerInv, RunnerTypes, Runner!Running
<1>2. CASE Runner!EndOfInput
  BY <1>2 DEF Runner!EndOfInput, RunnerInv, RunnerTypes, Runner!Running
<1>3. CASE Runner!Fails
  BY <1>3 DEF Runner!Fails, RunnerInv, RunnerTypes, Runner!Running
<1>4. CASE Runner!Wait
  BY <1>4 DEF Runner!Wait, RunnerInv, RunnerTypes, Runner!Running
<1>5. ASSUME NEW l \in Runner!Lines, Runner!Take(l) PROVE RunnerInv'
  <2>1. kind = "runsim" /\ l \notin held
    BY <1>5 DEF Runner!Take, RunnerInv, RunnerTypes, Runner!Running
  <2>2. held' = held \cup {l} /\ sem' = sem - 1 /\ sem > 0
    BY <1>5 DEF Runner!Take
  <2>3. Cardinality(held') = Cardinality(held) + 1
    BY <1>0, <2>1, <2>2, FS_AddElement
  <2>4. held' = Runner!Running'
    BY <1>5, <2>1, <2>2 DEF Runner!Take, RunnerInv, RunnerTypes, Runner!Running
  <2>5. sem' + Cardinality(held') = Tasks
    BY <1>0, <2>2, <2>3 DEF RunnerInv, RunnerTypes
  <2> QED BY <1>5, <2>1, <2>2, <2>4, <2>5 DEF Runner!Take, RunnerInv, RunnerTypes
<1>6. ASSUME NEW l \in Runner!Lines, Runner!Refuse(l) PROVE RunnerInv'
  <2>1. kind = "runsim" /\ sem = 0 /\ held = Runner!Running
    BY <1>6 DEF Runner!Refuse, RunnerInv, RunnerTypes
  <2>2. Cardinality(Runner!Running) = Tasks
    BY <1>0, <2>1 DEF RunnerInv
  <2>3. refused' = refused \cup {<<l, Tasks>>}
    BY <1>6, <2>2, RunnerCounts DEF Runner!Refuse, Runner!Running
  <2>4. Runner!Running' = Runner!Running
    BY <1>6 DEF Runner!Refuse, Runner!Running, RunnerInv, RunnerTypes
  <2> QED BY <1>6, <2>1, <2>3, <2>4 DEF Runner!Refuse, RunnerInv, RunnerTypes
<1>7. ASSUME NEW l \in Runner!Lines, Runner!Awake(l) PROVE RunnerInv'
  BY <1>7 DEF Runner!Awake, RunnerInv, RunnerTypes, Runner!Running
<1>8. ASSUME NEW l \in Runner!Lines, Runner!Ends(l) PROVE RunnerInv'
  <2>1. held' = held \ {l} /\ sem' = IF l \in held THEN sem + 1 ELSE sem
    BY <1>8 DEF Runner!Ends
  <2>2. Cardinality(held') = IF l \in held THEN Cardinality(held) - 1
                             ELSE Cardinality(held)
    BY <1>0, <2>1, FS_RemoveElement
  <2>3. sem' + Cardinality(held') = Tasks
    BY <1>0, <2>1, <2>2 DEF RunnerInv, RunnerTypes
  <2>4. kind = "runsim" => held' = Runner!Running'
    BY <1>8, <2>1 DEF Runner!Ends, RunnerInv, RunnerTypes, Runner!Running
  <2> QED BY <1>8, <2>1, <2>3, <2>4 DEF Runner!Ends, RunnerInv, RunnerTypes
<1>9. CASE UNCHANGED Runner!vars
  BY <1>9 DEF Runner!vars, RunnerInv, RunnerTypes, Runner!Running
<1> QED
  BY <1>1, <1>2, <1>3, <1>4, <1>5, <1>6, <1>7, <1>8, <1>9 DEF Runner!Next

\* runsim never runs more than its limit of commands and refuses a line only
\* while it runs as many: SEM_UNDO gives back the unit of every command, however
\* it ends; and a parent that reports success ended after all its children.
LEMMA LimitIsHeld ==
    ASSUME NrLines \in Nat, Tasks \in Nat
    PROVE  Runner!Init /\ [][Runner!Next]_(Runner!vars) => []Runner!LimitHeld
<1>1. Runner!Init => RunnerInv
  BY FS_EmptySet DEF Runner!Init, RunnerInv, RunnerTypes, Runner!Running, Runner!Lines
<1>2. RunnerInv /\ [Runner!Next]_(Runner!vars) => RunnerInv'
  BY RunnerKeeps
<1>3. RunnerInv => Runner!LimitHeld
  <2> SUFFICES ASSUME RunnerInv PROVE Runner!LimitHeld
    OBVIOUS
  <2>1. Cardinality(held) <= Tasks
    BY HeldFinite DEF RunnerInv, RunnerTypes
  <2> QED BY <2>1, RunnerCounts DEF RunnerInv, Runner!LimitHeld
<1> QED BY <1>1, <1>2, <1>3, PTL

-----------------------------------------------------------------------------
(* MessageOrder: the message in the queue is a baton, there is one of it,  *)
(* either as a message or in the child the parent is waiting for.          *)

\* A child that has the baton.
Busy(c) == pc[c] \in {"print", "reply"}

\* Types, as far as the argument needs them.
OrderTypes ==
    /\ pc \in [Order!Children \cup {Order!Parent} ->
                 {"none", "fork", "send", "answer", "wait", "receive", "print",
                  "reply", "done"}]
    /\ queue \in Seq(Int) /\ out \in Seq(Int)
    /\ next \in 0 .. NrChildren

\* Where the baton is while the parent waits for the child `next'.
Baton ==
    \/ queue = <<next + 1>> /\ ~ Busy(next) /\ Len(out) = next
    \/ queue = <<>> /\ pc[next] = "print" /\ Len(out) = next
    \/ queue = <<>> /\ pc[next] = "reply" /\ Len(out) = next + 1
    \/ queue = <<Order!LONG_MAX>> /\ ~ Busy(next) /\ Len(out) = next + 1

\* The inductive invariant.
OrderInv ==
    /\ OrderTypes
    /\ Order!PrintedInOrder
    /\ pc[Order!Parent] = "fork" => out = <<>>
    /\ pc[Order!Parent] = "send" => Len(out) = next
    /\ pc[Order!Parent] = "answer" => next \in Order!Children /\ Baton
    /\ pc[Order!Parent] # "answer" => queue = <<>>
    /\ \A c \in Order!Children : Busy(c) => pc[Order!Parent] = "answer" /\ c = next

\* msgrcv() from a queue of one message takes that one.
LEMMA ReceiveOnly ==
    ASSUME NEW x, NEW type, queue = <<x>>, Order!Receive(type)
    PROVE  x = type /\ queue' = <<>>
<1>1. PICK i \in DOMAIN queue :
        /\ queue[i] = type
        /\ queue' = SubSeq(queue, 1, i - 1) \o SubSeq(queue, i + 1, Len(queue))
  BY DEF Order!Receive
<1>2. i = 1 /\ Len(queue) = 1 /\ x = type
  BY <1>1
<1>3. SubSeq(queue, 1, 0) = <<>> /\ SubSeq(queue, 2, 1) = <<>>
  BY SubSeqEmpty
<1> QED BY <1>1, <1>2, <1>3

\* Nothing is received from an empty queue.
LEMMA ReceiveNothing == ASSUME NEW type, queue = <<>> PROVE ~ Order!Receive(type)
BY DEF Order!Receive

\* Every step hands the baton on, or leaves it where it is.
LEMMA OrderKeeps ==
    ASSUME NrChildren \in Nat, OrderInv, [Order!Next]_(Order!vars)
    PROVE  OrderInv'
<1> USE DEF Order!Children, Order!Parent
<1>1. CASE Order!Fork
  <2>1. CASE next < NrChildren
    BY <1>1, <2>1 DEF Order!Fork, OrderInv, OrderTypes, Order!PrintedInOrder, Busy
  <2>2. CASE ~ next < NrChildren
    BY <1>1, <2>2
      DEF Order!Fork, Order!Goto, OrderInv, OrderTypes, Order!PrintedInOrder,
          Busy
  <2> QED BY <2>1, <2>2
<1>2. CASE Order!ForkFails
  BY <1>2
    DEF Order!ForkFails, Order!Out, Order!Goto, OrderInv, OrderTypes,
        Order!PrintedInOrder, Busy
<1>3. CASE Order!Send
  <2>1. CASE next < NrChildren
    <3>1. queue' = <<next + 1>>
      BY <1>3, <2>1 DEF Order!Send, OrderInv
    <3> QED BY <1>3, <2>1, <3>1
           
              DEF Order!Send, Order!Goto, OrderInv, OrderTypes,
                  Order!PrintedInOrder, Busy, Baton
  <2>2. CASE ~ next < NrChildren
    BY <1>3, <2>2
      DEF Order!Send, Order!Goto, OrderInv, OrderTypes, Order!PrintedInOrder,
          Busy
  <2> QED BY <2>1, <2>2
<1>4. CASE Order!Answer
  <2>1. pc[Order!Parent] = "answer" /\ next \in Order!Children /\ Baton
    BY <1>4 DEF Order!Answer, Order!Goto, OrderInv
  <2>2. queue # <<>> /\ Order!Receive(Order!LONG_MAX)
    BY <1>4, ReceiveNothing DEF Order!Answer
  <2>3. queue # <<next + 1>>
    BY <2>1, <2>2, ReceiveOnly DEF Order!LONG_MAX
  <2>4. queue = <<Order!LONG_MAX>> /\ ~ Busy(next) /\ Len(out) = next + 1
    BY <2>1, <2>2, <2>3 DEF Baton
  <2>5. queue' = <<>>
    BY <2>2, <2>4, ReceiveOnly
  <2> QED BY <1>4, <2>1, <2>4, <2>5
          DEF Order!Answer, Order!Goto, OrderInv, OrderTypes, Order!PrintedInOrder, Busy
<1>5. CASE Order!Wait
  BY <1>5
    DEF Order!Wait, Order!Out, Order!Goto, OrderInv, OrderTypes,
        Order!PrintedInOrder, Busy
<1>6. ASSUME NEW c \in Order!Children, Order!ChildReceive(c) PROVE OrderInv'
  <2>1. queue # <<>> /\ Order!Receive(c + 1)
    BY <1>6, ReceiveNothing DEF Order!ChildReceive
  <2>2. pc[Order!Parent] = "answer" /\ next \in Order!Children /\ Baton
    BY <2>1 DEF OrderInv
  <2>3. queue # <<Order!LONG_MAX>>
    BY <2>1, ReceiveOnly DEF Order!LONG_MAX
  <2>4. queue = <<next + 1>> /\ Len(out) = next
    BY <2>1, <2>2, <2>3 DEF Baton
  <2>5. c = next /\ queue' = <<>>
    BY <2>1, <2>2, <2>4, ReceiveOnly
  <2> QED BY <1>6, <2>2, <2>4, <2>5
         
            DEF Order!ChildReceive, Order!Goto, OrderInv, OrderTypes,
                Order!PrintedInOrder, Busy,
              Baton
<1>7. ASSUME NEW c \in Order!Children, Order!PrintNumber(c) PROVE OrderInv'
  <2>1. pc[c] = "print" /\ pc[Order!Parent] = "answer" /\ c = next
    BY <1>7 DEF Order!PrintNumber, Order!Goto, OrderInv, Busy
  <2>2. queue = <<>> /\ Len(out) = next
    BY <2>1 DEF OrderInv, Baton, Busy
  <2>3. /\ out' \in Seq(Int) /\ Len(out') = next + 1
        /\ \A i \in 1 .. Len(out) : out'[i] = out[i]
        /\ out'[next + 1] = next
    BY <1>7, <2>1, <2>2, AppendProperties DEF Order!PrintNumber, OrderInv, OrderTypes
  <2>4. Order!PrintedInOrder'
    BY <2>2, <2>3 DEF Order!PrintedInOrder, OrderInv, OrderTypes
  <2> QED BY <1>7, <2>1, <2>2, <2>3, <2>4
          DEF Order!PrintNumber, Order!Goto, OrderInv, OrderTypes, Busy, Baton
<1>8. ASSUME NEW c \in Order!Children, Order!Reply(c) PROVE OrderInv'
  <2>1. pc[c] = "reply" /\ pc[Order!Parent] = "answer" /\ c = next
    BY <1>8 DEF Order!Reply, Order!Goto, OrderInv, Busy
  <2>2. queue = <<>> /\ Len(out) = next + 1
    BY <2>1 DEF OrderInv, Baton, Busy
  <2>3. queue' = <<Order!LONG_MAX>>
    BY <1>8, <2>2 DEF Order!Reply
  <2>4. queue' \in Seq(Int)
    BY <2>3 DEF Order!LONG_MAX
  <2> QED BY <1>8, <2>1, <2>2, <2>3, <2>4
         
            DEF Order!Reply, Order!Goto, OrderInv, OrderTypes,
                Order!PrintedInOrder, Busy, Baton,
              Order!LONG_MAX
<1>9. CASE UNCHANGED Order!vars
  BY <1>9
    DEF Order!vars, OrderInv, OrderTypes, Order!PrintedInOrder, Busy, Baton,
        Order!LONG_MAX
<1>10. ASSUME NEW c \in Order!Children, Order!ChildFails(c) PROVE OrderInv'
  <2>1. pc[Order!Parent] = "done"
    BY <1>10 DEF Order!ChildFails, Order!Removed
  <2> QED BY <1>10, <2>1
          DEF Order!ChildFails, OrderInv, OrderTypes, Order!PrintedInOrder, Busy
<1> QED
  BY <1>1, <1>2, <1>3, <1>4, <1>5, <1>6, <1>7, <1>8, <1>9, <1>10
  DEF Order!Next, Order!ParentStep, Order!ChildStep

\* The children of task.c print their numbers in order, however many there are,
\* however they are scheduled, and whichever fork() fails.
LEMMA OrderIsKept ==
    ASSUME NrChildren \in Nat
    PROVE  Order!Init /\ [][Order!Next]_(Order!vars) => []Order!PrintedInOrder
<1>1. Order!Init => OrderInv
  <2> SUFFICES ASSUME Order!Init PROVE OrderInv
    OBVIOUS
  <2>1. queue \in Seq(Int) /\ out \in Seq(Int) /\ DOMAIN out = {}
    BY DEF Order!Init
  <2>2. OrderTypes
    BY <2>1 DEF Order!Init, OrderTypes, Order!Parent
  <2>3. pc[Order!Parent] = "fork" /\ \A c \in Order!Children : ~ Busy(c)
    BY DEF Order!Init, Busy, Order!Children, Order!Parent
  <2> QED BY <2>1, <2>2, <2>3 DEF Order!Init, OrderInv, Order!PrintedInOrder
<1>2. OrderInv /\ [Order!Next]_(Order!vars) => OrderInv'
  BY OrderKeeps
<1>3. OrderInv => Order!PrintedInOrder
  BY DEF OrderInv
<1> QED BY <1>1, <1>2, <1>3, PTL

-----------------------------------------------------------------------------
(* ForkOrder *)

\* Types, and the children that are not forked yet.
ForkTypes ==
    /\ WAIT \in BOOLEAN /\ waiting \in BOOLEAN /\ next \in 0 .. NrChildren
    /\ pc \in [Forks!Children -> {"none", "print", "done"}]
    /\ out \in Seq(Forks!Children)
    /\ \A c \in Forks!Children : c >= next => pc[c] = "none"

\* Who printed has ended; with WAIT only the last child is there.
ForkInv ==
    /\ ForkTypes
    /\ \A i \in DOMAIN out : pc[out[i]] = "done"
    /\ WAIT => \A c \in Forks!Children : pc[c] = "print" => waiting /\ c = next - 1
    /\ Forks!InOrder

\* A number that is printed follows those that were.
LEMMA ForksKeep ==
    ASSUME NrChildren \in Nat, ForkInv, [Forks!Next]_(Forks!vars)
    PROVE  ForkInv'
<1> USE DEF Forks!Children
<1>1. CASE Forks!Fork
  <2>1. /\ next < NrChildren /\ ~ waiting /\ next' = next + 1 /\ waiting' = WAIT
        /\ pc' = [pc EXCEPT ![next] = "print"] /\ UNCHANGED <<WAIT, out>>
    BY <1>1 DEF Forks!Fork
  <2>2. ForkTypes'
    BY <2>1 DEF ForkInv, ForkTypes
  <2>3. \A i \in DOMAIN out : out[i] \in 0 .. NrChildren - 1 /\ out[i] # next
    BY <2>1 DEF ForkInv, ForkTypes
  <2>4. \A i \in DOMAIN out : pc'[out[i]] = "done"
    BY <2>1, <2>3 DEF ForkInv, ForkTypes
  <2>5. WAIT => \A c \in Forks!Children : pc'[c] = "print" => c = next
    BY <2>1 DEF ForkInv, ForkTypes
  <2> QED BY <2>1, <2>2, <2>4, <2>5 DEF ForkInv, ForkTypes, Forks!InOrder
<1>2. CASE Forks!ForkFails
  BY <1>2 DEF Forks!ForkFails, ForkInv, ForkTypes, Forks!InOrder
<1>3. CASE Forks!WaitChild
  BY <1>3 DEF Forks!WaitChild, ForkInv, ForkTypes, Forks!InOrder
<1>4. CASE Forks!Return
  BY <1>4 DEF Forks!Return, ForkInv, ForkTypes, Forks!InOrder
<1>5. ASSUME NEW c \in Forks!Children, Forks!PrintNumber(c) PROVE ForkInv'
  <2>1. /\ pc[c] = "print" /\ pc' = [pc EXCEPT ![c] = "done"] /\ out' = Append(out, c)
        /\ UNCHANGED <<WAIT, next, waiting>>
    BY <1>5 DEF Forks!PrintNumber
  <2>2. /\ out' \in Seq(Forks!Children) /\ DOMAIN out = 1 .. Len(out) /\ Len(out) \in Nat
        /\ DOMAIN out' = 1 .. Len(out) + 1 /\ out'[Len(out) + 1] = c
        /\ \A i \in 1 .. Len(out) : out'[i] = out[i] /\ out[i] \in 0 .. NrChildren - 1
    BY <2>1, AppendProperties DEF ForkInv, ForkTypes
  <2>3. \A i \in 1 .. Len(out) : out[i] # c /\ out[i] < next
    <3>1. \A d \in 0 .. NrChildren - 1 : pc[d] = "done" => d # c /\ ~ d >= next
      BY <2>1 DEF ForkInv, ForkTypes
    <3>2. \A i \in 1 .. Len(out) : pc[out[i]] = "done" /\ out[i] \in 0 .. NrChildren - 1
      BY <2>2 DEF ForkInv
    <3>3. next \in Nat
      BY DEF ForkInv, ForkTypes
    <3> QED BY <3>1, <3>2, <3>3
  <2>4. WAIT => c = next - 1
    BY <2>1 DEF ForkInv
  <2>5. \A i \in 1 .. Len(out) : WAIT => out[i] < c
    BY <2>2, <2>3, <2>4 DEF ForkInv, ForkTypes
  <2>6. Forks!InOrder'
    BY <2>1, <2>2, <2>3, <2>5 DEF ForkInv, ForkTypes, Forks!InOrder
  <2>7. \A i \in DOMAIN out' : pc'[out'[i]] = "done"
    BY <2>1, <2>2 DEF ForkInv, ForkTypes
  <2> QED BY <2>1, <2>2, <2>6, <2>7 DEF ForkInv, ForkTypes
<1>6. ASSUME NEW c \in Forks!Children, Forks!Kill(c) PROVE ForkInv'
  BY <1>6 DEF Forks!Kill, ForkInv, ForkTypes, Forks!InOrder
<1>7. CASE UNCHANGED Forks!vars
  BY <1>7 DEF Forks!vars, ForkInv, ForkTypes, Forks!InOrder
<1> QED BY <1>1, <1>2, <1>3, <1>4, <1>5, <1>6, <1>7 DEF Forks!Next

\* The children of seminar2/task1.c print in order with WAIT, and once without,
\* whichever fork() fails and whichever child is killed.
LEMMA ForksInOrder ==
    ASSUME NrChildren \in Nat
    PROVE  Forks!Init /\ [][Forks!Next]_(Forks!vars) => []Forks!InOrder
<1>1. Forks!Init => ForkInv
  <2>1. << >> \in Seq(Forks!Children)
    OBVIOUS
  <2> SUFFICES ASSUME Forks!Init PROVE ForkInv
    OBVIOUS
  <2>2. DOMAIN out = {} /\ next = 0 /\ \A c \in Forks!Children : pc[c] = "none"
    BY DEF Forks!Init
  <2>3. ForkTypes
    <3>1. WAIT \in BOOLEAN /\ waiting \in BOOLEAN
      BY Zenon DEF Forks!Init
    <3>2. pc \in [Forks!Children -> {"none", "print", "done"}] /\ out = << >>
      BY DEF Forks!Init
    <3>3. next \in 0 .. NrChildren
      BY <2>2
    <3> QED BY <2>1, <2>2, <3>1, <3>2, <3>3 DEF ForkTypes
  <2> QED BY <2>2, <2>3 DEF ForkInv, Forks!InOrder
<1>2. ForkInv /\ [Forks!Next]_(Forks!vars) => ForkInv'
  BY ForksKeep
<1>3. ForkInv => Forks!InOrder
  BY DEF ForkInv
<1> QED BY <1>1, <1>2, <1>3, PTL

-----------------------------------------------------------------------------
(* SessionTransfer: who has the session, and how far its file is in the      *)
(* output.                                                                   *)

\* The arguments.
SessionSetting == Session!Receiver \notin Senders /\ FileLen \in Nat

\* Types.
Results == {"running", "ok", "failed", "killed"}
Signs == {"OK", "NOT_DONE", "EOF", "IOERROR"}
Records == [from : Senders \cup {"none"}, nr : 0 .. FileLen]
Memories == [rcv_state : Signs, snd_state : Signs, data : Records]
InSessionAt == {"memory", "test", "read", "reset", "testEof", "vData", "vLast"}
SenderAt == InSessionAt \cup {"start", "session", "exit", "done"}
ReceiverAt == {"loop", "pData", "testSender", "write", "ack", "reset", "vSession", "vMemory", "done"}
Labels == SenderAt \cup ReceiverAt
SessionTypes ==
    /\ sem \in [Session!Semaphores -> Nat] /\ adj \in [Session!Processes -> [Session!Semaphores -> Int]]
    /\ removed \in BOOLEAN /\ mem \in Memories
    /\ pc \in [Session!Processes -> Labels] /\ status \in [Session!Processes -> Results]
    /\ pos \in [Senders -> 0 .. FileLen] /\ out \in Seq(Records)
    /\ hasEof \in BOOLEAN

\* What a process gives back when it ends, and what the ends leave.
Sides ==
    /\ \A s \in Senders :
          /\ pc[s] \in SenderAt
          /\ adj[s][Session!SESSION] = 0 /\ adj[s][Session!MEMORY] = 0
          /\ pc[s] \in {"start", "exit", "done"} => adj[s][Session!DATA] = 0
          /\ pc[s] \in InSessionAt \cup {"session"} => adj[s][Session!DATA] = 2
    /\ pc[Session!Receiver] \in ReceiverAt
    /\ status[Session!Receiver] = "running" <=> pc[Session!Receiver] # "done"
    /\ removed => pc[Session!Receiver] = "done"
    /\ pc[Session!Receiver] \in {"pData", "testSender", "write"} => ~ hasEof

\* The chunks of s are the first n of its file, from place a.
Piece(s, a, n) == \A i \in 1 .. Len(out) :
    IF a <= i /\ i < a + n THEN out[i] = [from |-> s, nr |-> i - a + 1] ELSE out[i].from # s
Follows(s) == \/ \A i \in 1 .. Len(out) : out[i].from # s
              \/ \E a, n \in 1 .. Len(out) :
                    /\ Piece(s, a, n) /\ a + n <= Len(out) + 1
                    /\ a + n = Len(out) + 1 \/ n = FileLen
Complete(s) == \/ \A i \in 1 .. Len(out) : out[i].from # s
               \/ \E a \in 1 .. Len(out) : Piece(s, a, FileLen) /\ a + FileLen <= Len(out) + 1
AtEnd(s, n) == n <= Len(out) /\ Piece(s, Len(out) + 1 - n, n)

\* A sender is in its session; a chunk is in the memory.
Inside(s) == pc[s] \in InSessionAt
Pending == mem.snd_state = "OK" /\ pc[Session!Receiver] \notin {"ack", "reset"}
Content(s) == \E n \in 0 .. FileLen :
    /\ AtEnd(s, n)
    /\ IF Pending THEN pos[s] = n + 1 /\ mem.data = [from |-> s, nr |-> n + 1] ELSE pos[s] = n

\* Where everybody is, by who has the session: nobody, ...
Idle == pc[Session!Receiver] \in {"loop", "pData"}
NobodyInside == \A s \in Senders : ~ Inside(s)
FreeSession ==
    /\ NobodyInside /\ sem[Session!SESSION] = 1 /\ sem[Session!DATA] = 0
    /\ mem.snd_state = "NOT_DONE"
    /\ \/ Idle /\ sem[Session!MEMORY] = 1
       \/ pc[Session!Receiver] = "vMemory" /\ sem[Session!MEMORY] = 0
    /\ \A t \in Senders : Complete(t)

\* ... a sender, whose turn it is, or the receiver's, ...
SenderTurn(s) == Idle /\ sem[Session!DATA] = 0 /\
    \/ pc[s] = "memory" /\ sem[Session!MEMORY] = 1 /\ mem.snd_state = "NOT_DONE"
    \/ /\ sem[Session!MEMORY] = 0
       /\ \/ pc[s] \in {"test", "read"} /\ mem.snd_state = "NOT_DONE"
          \/ pc[s] \in {"reset", "testEof", "vData"} /\ mem.snd_state = "OK"
          \/ pc[s] \in {"reset", "testEof", "vLast"} /\ mem.snd_state = "EOF" /\ pos[s] = FileLen
ReceiverTurn(s) == pc[s] = "memory" /\ sem[Session!MEMORY] = 0 /\
    \/ Idle /\ sem[Session!DATA] = 1 /\ mem.snd_state = "OK"
    \/ /\ sem[Session!DATA] = 0
       /\ \/ pc[Session!Receiver] \in {"testSender", "write"} /\ mem.snd_state = "OK"
          \/ pc[Session!Receiver] \in {"ack", "reset"} /\ mem.snd_state = "OK" /\ ~ hasEof
          \/ pc[Session!Receiver] = "vMemory" /\ mem.snd_state = "NOT_DONE"
OwnSession(s) ==
    /\ Inside(s) /\ sem[Session!SESSION] = 0
    /\ \A t \in Senders : t # s => ~ Inside(t) /\ Complete(t)
    /\ SenderTurn(s) \/ ReceiverTurn(s)
    /\ Content(s)

\* ... the receiver, which is to give it back, ...
ClosingSession ==
    /\ NobodyInside /\ sem[Session!SESSION] = 0 /\ sem[Session!MEMORY] = 0
    /\ \/ Idle /\ sem[Session!DATA] = 1 /\ mem.snd_state = "EOF"
       \/ pc[Session!Receiver] = "testSender" /\ sem[Session!DATA] = 0 /\ mem.snd_state = "EOF"
       \/ pc[Session!Receiver] \in {"ack", "reset"} /\ hasEof /\ sem[Session!DATA] = 0
       \/ pc[Session!Receiver] = "vSession" /\ sem[Session!DATA] = 0 /\ mem.snd_state = "NOT_DONE"
    /\ \A t \in Senders : Complete(t)

\* ... or a dead sender, and then nobody gets it any more.
LostSession(s) ==
    /\ NobodyInside /\ pc[s] = "done" /\ sem[Session!SESSION] = 0
    /\ mem.snd_state # "EOF" /\ pc[Session!Receiver] # "vSession"
    /\ pc[Session!Receiver] \in {"ack", "reset"} => ~ hasEof
    /\ pc[Session!Receiver] = "write" => mem.snd_state = "OK"
    /\ \A t \in Senders : t # s => Complete(t)
    /\ Content(s)

BeforeSession == {"start", "session"}
SessionMode ==
    \/ FreeSession \/ ClosingSession
    \/ \E s \in Senders : OwnSession(s) \/ LostSession(s)

\* The inductive invariant.
SessionInv ==
    /\ SessionTypes /\ Sides
    /\ \A s \in Senders : Follows(s)
    /\ \A s \in Senders : pc[s] \in BeforeSession =>
          pos[s] = 0 /\ \A i \in 1 .. Len(out) : out[i].from # s
    /\ pc[Session!Receiver] # "done" => SessionMode

-----------------------------------------------------------------------------
\* A semop() of one operation without SEM_UNDO.
LEMMA OneOperation ==
    ASSUME SessionTypes, NEW p \in Session!Processes, NEW i \in Session!Semaphores, NEW k \in {-1, 1},
           Session!SemOps(p, Session!Op(i, k))
    PROVE  /\ ~ removed /\ sem[i] + k >= 0
           /\ sem' = [sem EXCEPT ![i] = @ + k] /\ UNCHANGED adj
<1> DEFINE s0 == [val |-> sem, adj |-> adj[p], ok |-> TRUE]
           s1 == Session!Perform(s0, Session!semop_entry(i, k, "none"))
           Is(f) == f = [n \in 0 .. 1 |-> IF n = 0 THEN s0
                                          ELSE Session!Perform(f[n - 1], Session!Op(i, k)[n])]
<1>0. sem \in [Session!Semaphores -> Nat] /\ adj[p] \in [Session!Semaphores -> Int] /\ adj \in [Session!Processes -> [Session!Semaphores -> Int]]
  BY DEF SessionTypes
<1>1. Session!Semop(sem, adj[p], Session!Op(i, k)) = (CHOOSE f : Is(f))[1]
  <2>1. Len(Session!Op(i, k)) = 1
    BY DEF Session!Op
  <2> QED BY <2>1 DEF Session!Semop
<1>2. Session!Op(i, k)[1] = Session!semop_entry(i, k, "none")
  BY DEF Session!Op
<1> HIDE DEF s0
<1>3. \E f : Is(f)
  <2> DEFINE f == [n \in 0 .. 1 |-> IF n = 0 THEN s0 ELSE s1]
  <2>1. ASSUME NEW n \in 0 .. 1
        PROVE  f[n] = IF n = 0 THEN s0 ELSE Session!Perform(f[n - 1], Session!Op(i, k)[n])
    <3>1. n = 0 \/ n = 1
      OBVIOUS
    <3> QED BY <1>2, <3>1
  <2>2. Is(f)
    BY <2>1
  <2> QED BY <2>2
<1>4. ASSUME NEW g, Is(g) PROVE g[1] = s1
  <2>1. g[0] = s0
    BY <1>4
  <2>2. g[1] = Session!Perform(g[0], Session!Op(i, k)[1])
    BY <1>4
  <2> QED BY <1>2, <2>1, <2>2
<1>5. Is(CHOOSE f : Is(f))
  BY <1>3
<1>6. (CHOOSE f : Is(f))[1] = s1
  BY <1>4, <1>5
<1>7. Session!Semop(sem, adj[p], Session!Op(i, k)) = s1
  BY <1>1, <1>6
<1> HIDE DEF s1
<1>8. ~ removed /\ s1.ok /\ sem' = s1.val /\ adj' = [adj EXCEPT ![p] = s1.adj]
  BY <1>7 DEF Session!SemOps
<1>9. sem[i] + k >= 0
  BY <1>0, <1>8 DEF s1, s0, Session!Perform, Session!semop_entry
<1>10. s1 = [s0 EXCEPT !.val[i] = @ + k, !.adj[i] = @]
  BY <1>0, <1>8, <1>9 DEF s1, s0, Session!Perform, Session!semop_entry
<1>11. s1.val = [sem EXCEPT ![i] = @ + k] /\ s1.adj = adj[p]
  BY <1>0, <1>10 DEF s0
<1>12. adj' = adj
  BY <1>0, <1>8, <1>11
<1> QED BY <1>8, <1>9, <1>11, <1>12

\* What the end of a process does.
LEMMA Ending ==
    ASSUME SessionTypes, NEW p \in Session!Processes, NEW how \in Results, Session!End(p, how)
    PROVE  /\ sem' \in [Session!Semaphores -> Nat] /\ adj' \in [Session!Processes -> [Session!Semaphores -> Int]]
           /\ \A i \in Session!Semaphores : adj[p][i] = 0 => sem'[i] = sem[i]
           /\ \A i \in Session!Semaphores : adj'[p][i] = 0
           /\ \A q \in Session!Processes : q # p => adj'[q] = adj[q] /\ pc'[q] = pc[q] /\ status'[q] = status[q]
           /\ pc'[p] = "done" /\ status'[p] = how
           /\ pc' = [pc EXCEPT ![p] = "done"] /\ status' = [status EXCEPT ![p] = how]
           /\ removed' = (removed \/ (p = Session!Receiver /\ how # "killed"))
<1>1. /\ sem \in [Session!Semaphores -> Nat] /\ adj[p] \in [Session!Semaphores -> Int]
      /\ adj \in [Session!Processes -> [Session!Semaphores -> Int]] /\ pc \in [Session!Processes -> Labels]
      /\ status \in [Session!Processes -> Results]
  BY DEF SessionTypes
<1>2. sem' = [i \in Session!Semaphores |-> IF sem[i] + adj[p][i] < 0 THEN 0 ELSE sem[i] + adj[p][i]]
  BY <1>1 DEF Session!End, Session!Undo
<1>3. sem' \in [Session!Semaphores -> Nat] /\ \A i \in Session!Semaphores : adj[p][i] = 0 => sem'[i] = sem[i]
  BY <1>1, <1>2
<1>4. Session!NoAdj \in [Session!Semaphores -> Int] /\ \A i \in Session!Semaphores : Session!NoAdj[i] = 0
  BY DEF Session!NoAdj
<1>5. adj' = [adj EXCEPT ![p] = Session!NoAdj]
  BY DEF Session!End
<1>6. /\ pc' = [pc EXCEPT ![p] = "done"] /\ status' = [status EXCEPT ![p] = how]
      /\ removed' = (removed \/ (p = Session!Receiver /\ how # "killed"))
  BY DEF Session!End
<1> QED BY <1>1, <1>3, <1>4, <1>5, <1>6

\* A step of p to another place.
Moves(p, to) == pc' = [pc EXCEPT ![p] = to]

\* The calls of semop() of a sender.
LEMMA SenderOperations ==
    ASSUME SessionSetting, SessionTypes, NEW s \in Senders
    PROVE  /\ Session!PSession(s) => /\ ~ removed /\ sem[Session!SESSION] > 0 /\ sem' = [sem EXCEPT ![Session!SESSION] = @ - 1]
                                     /\ pc[s] = "session" /\ Moves(s, "memory")
                                     /\ UNCHANGED <<adj, mem, Session!rest>>
           /\ Session!PMemory(s) => /\ ~ removed /\ sem[Session!MEMORY] > 0 /\ sem' = [sem EXCEPT ![Session!MEMORY] = @ - 1]
                                    /\ pc[s] = "memory" /\ Moves(s, "test")
                                    /\ UNCHANGED <<adj, mem, Session!rest>>
           /\ Session!VData(s) => /\ ~ removed /\ sem' = [sem EXCEPT ![Session!DATA] = @ + 1]
                                  /\ pc[s] = "vData" /\ Moves(s, "memory")
                                  /\ UNCHANGED <<adj, mem, Session!rest>>
<1>1. s \in Session!Processes /\ Session!SESSION \in Session!Semaphores /\ Session!MEMORY \in Session!Semaphores /\ Session!DATA \in Session!Semaphores
  BY DEF Session!Processes, Session!Semaphores, Session!SESSION, Session!MEMORY, Session!DATA
<1>2. sem[Session!SESSION] \in Nat /\ sem[Session!MEMORY] \in Nat
  BY <1>1 DEF SessionTypes
<1>3. ASSUME Session!PSession(s)
      PROVE  ~ removed /\ sem[Session!SESSION] + (-1) >= 0 /\ sem' = [sem EXCEPT ![Session!SESSION] = @ + (-1)] /\ adj' = adj
  BY <1>1, <1>3, OneOperation DEF Session!PSession
<1>4. ASSUME Session!PMemory(s)
      PROVE  ~ removed /\ sem[Session!MEMORY] + (-1) >= 0 /\ sem' = [sem EXCEPT ![Session!MEMORY] = @ + (-1)] /\ adj' = adj
  BY <1>1, <1>4, OneOperation DEF Session!PMemory
<1>5. ASSUME Session!VData(s)
      PROVE  ~ removed /\ sem' = [sem EXCEPT ![Session!DATA] = @ + 1] /\ adj' = adj
  BY <1>1, <1>5, OneOperation DEF Session!VData
<1>6. Session!PSession(s) => /\ ~ removed /\ sem[Session!SESSION] > 0 /\ sem' = [sem EXCEPT ![Session!SESSION] = @ - 1]
                             /\ pc[s] = "session" /\ Moves(s, "memory")
                             /\ UNCHANGED <<adj, mem, Session!rest>>
  BY <1>2, <1>3 DEF Session!PSession, Session!Goto, Moves
<1>7. Session!PMemory(s) => /\ ~ removed /\ sem[Session!MEMORY] > 0 /\ sem' = [sem EXCEPT ![Session!MEMORY] = @ - 1]
                            /\ pc[s] = "memory" /\ Moves(s, "test")
                            /\ UNCHANGED <<adj, mem, Session!rest>>
  BY <1>2, <1>4 DEF Session!PMemory, Session!Goto, Moves
<1>8. Session!VData(s) => /\ ~ removed /\ sem' = [sem EXCEPT ![Session!DATA] = @ + 1]
                          /\ pc[s] = "vData" /\ Moves(s, "memory")
                          /\ UNCHANGED <<adj, mem, Session!rest>>
  BY <1>5 DEF Session!VData, Session!Goto, Moves
<1> QED BY <1>6, <1>7, <1>8

\* What the steps of the receiver change.
LEMMA ReceiverOperations ==
    ASSUME SessionTypes
    PROVE  /\ Session!PData => /\ sem[Session!DATA] > 0 /\ sem' = [sem EXCEPT ![Session!DATA] = @ - 1]
                               /\ pc[Session!Receiver] = "pData" /\ Moves(Session!Receiver, "testSender")
                               /\ UNCHANGED <<adj, mem, Session!rest>>
           /\ Session!VSession => /\ sem' = [sem EXCEPT ![Session!SESSION] = @ + 1]
                                  /\ pc[Session!Receiver] = "vSession" /\ Moves(Session!Receiver, "vMemory")
                                  /\ UNCHANGED <<adj, mem, Session!rest>>
           /\ Session!VMemory => /\ sem' = [sem EXCEPT ![Session!MEMORY] = @ + 1]
                                 /\ pc[Session!Receiver] = "vMemory" /\ Moves(Session!Receiver, "loop")
                                 /\ UNCHANGED <<adj, mem, Session!rest>>
<1>1. Session!Receiver \in Session!Processes /\ Session!SESSION \in Session!Semaphores /\ Session!MEMORY \in Session!Semaphores /\ Session!DATA \in Session!Semaphores
  BY DEF Session!Processes, Session!Semaphores, Session!SESSION, Session!MEMORY, Session!DATA
<1>2. sem[Session!DATA] \in Nat
  BY <1>1 DEF SessionTypes
<1>3. ASSUME Session!PData
      PROVE  sem[Session!DATA] + (-1) >= 0 /\ sem' = [sem EXCEPT ![Session!DATA] = @ + (-1)] /\ adj' = adj
  BY <1>1, <1>3, OneOperation DEF Session!PData
<1>4. ASSUME Session!VSession PROVE sem' = [sem EXCEPT ![Session!SESSION] = @ + 1] /\ adj' = adj
  BY <1>1, <1>4, OneOperation DEF Session!VSession
<1>5. ASSUME Session!VMemory PROVE sem' = [sem EXCEPT ![Session!MEMORY] = @ + 1] /\ adj' = adj
  BY <1>1, <1>5, OneOperation DEF Session!VMemory
<1>6. Session!PData => /\ sem[Session!DATA] > 0 /\ sem' = [sem EXCEPT ![Session!DATA] = @ - 1]
                       /\ pc[Session!Receiver] = "pData" /\ Moves(Session!Receiver, "testSender")
                       /\ UNCHANGED <<adj, mem, Session!rest>>
  BY <1>2, <1>3 DEF Session!PData, Session!Goto, Moves
<1>7. Session!VSession => /\ sem' = [sem EXCEPT ![Session!SESSION] = @ + 1]
                          /\ pc[Session!Receiver] = "vSession" /\ Moves(Session!Receiver, "vMemory")
                          /\ UNCHANGED <<adj, mem, Session!rest>>
  BY <1>4 DEF Session!VSession, Session!Goto, Moves
<1>8. Session!VMemory => /\ sem' = [sem EXCEPT ![Session!MEMORY] = @ + 1]
                         /\ pc[Session!Receiver] = "vMemory" /\ Moves(Session!Receiver, "loop")
                         /\ UNCHANGED <<adj, mem, Session!rest>>
  BY <1>5 DEF Session!VMemory, Session!Goto, Moves
<1> QED BY <1>6, <1>7, <1>8

\* The types, when the values of the semaphores and the adjustments keep theirs.
LEMMA TypesKept ==
    ASSUME SessionTypes, NEW p \in Session!Processes, NEW to \in Labels, Moves(p, to),
           sem' \in [Session!Semaphores -> Nat], adj' \in [Session!Processes -> [Session!Semaphores -> Int]],
           removed' \in BOOLEAN, mem' \in Memories,
           status' = status, pos' \in [Senders -> 0 .. FileLen], out' \in Seq(Records), hasEof' \in BOOLEAN
    PROVE  SessionTypes'
<1>1. pc' \in [Session!Processes -> Labels] /\ status' \in [Session!Processes -> Results]
  BY DEF SessionTypes, Moves
<1> QED BY <1>1 DEF SessionTypes

\* The end of any process keeps types and sides.
LEMMA EndKeeps ==
    ASSUME SessionSetting, SessionTypes, Sides, NEW p \in Session!Processes, NEW how \in Results \ {"running"},
           Session!End(p, how), mem' \in Memories, UNCHANGED <<pos, out, hasEof>>
    PROVE  SessionTypes' /\ Sides'
<1>1. "done" \in Labels /\ how \in Results
  BY DEF Labels, SenderAt
<1>2. /\ sem' \in [Session!Semaphores -> Nat] /\ adj' \in [Session!Processes -> [Session!Semaphores -> Int]]
      /\ \A i \in Session!Semaphores : adj'[p][i] = 0
      /\ \A q \in Session!Processes : q # p => adj'[q] = adj[q] /\ pc'[q] = pc[q] /\ status'[q] = status[q]
      /\ pc'[p] = "done" /\ status'[p] = how /\ Moves(p, "done")
      /\ status' = [status EXCEPT ![p] = how]
      /\ removed' = (removed \/ (p = Session!Receiver /\ how # "killed"))
  BY <1>1, Ending DEF Moves
<1>3. removed' \in BOOLEAN
  BY <1>2, Zenon DEF SessionTypes
<1>4. SessionTypes'
  <2>1. pos' \in [Senders -> 0 .. FileLen] /\ out' \in Seq(Records) /\ hasEof' \in BOOLEAN
    BY Zenon DEF SessionTypes
  <2>2. status' \in [Session!Processes -> Results] /\ pc' \in [Session!Processes -> Labels]
    BY <1>1, <1>2 DEF SessionTypes, Moves
  <2> QED BY <1>2, <1>3, <2>1, <2>2 DEF SessionTypes
<1>5. ASSUME NEW s \in Senders
      PROVE  /\ pc'[s] \in SenderAt
             /\ adj'[s][Session!SESSION] = 0 /\ adj'[s][Session!MEMORY] = 0
             /\ pc'[s] \in {"start", "exit", "done"} => adj'[s][Session!DATA] = 0
             /\ pc'[s] \in InSessionAt \cup {"session"} => adj'[s][Session!DATA] = 2
  <2>1. s \in Session!Processes /\ Session!SESSION \in Session!Semaphores /\ Session!MEMORY \in Session!Semaphores /\ Session!DATA \in Session!Semaphores
    BY DEF Session!Processes, Session!Semaphores, Session!SESSION, Session!MEMORY, Session!DATA
  <2>2. CASE s = p
    BY <1>2, <2>1, <2>2 DEF SenderAt, InSessionAt
  <2>3. CASE s # p
    BY <1>2, <2>1, <2>3 DEF Sides
  <2> QED BY <2>2, <2>3
<1>6. /\ pc'[Session!Receiver] \in ReceiverAt
      /\ status'[Session!Receiver] = "running" <=> pc'[Session!Receiver] # "done"
      /\ removed' => pc'[Session!Receiver] = "done"
      /\ pc'[Session!Receiver] \in {"pData", "testSender", "write"} => ~ hasEof'
  <2>1. Session!Receiver \in Session!Processes
    BY DEF Session!Processes
  <2>2. CASE p = Session!Receiver
    BY <1>2, <2>1, <2>2 DEF ReceiverAt
  <2>3. CASE p # Session!Receiver
    BY <1>2, <2>1, <2>3 DEF Sides
  <2> QED BY <2>2, <2>3
<1> QED BY <1>4, <1>5, <1>6 DEF Sides

\* A sender goes on.
LEMMA SenderMoves ==
    ASSUME SessionSetting, SessionTypes, Sides, NEW s \in Senders, NEW to \in SenderAt, Moves(s, to),
           UNCHANGED <<status, removed, hasEof>>,
           adj' \in [Session!Processes -> [Session!Semaphores -> Int]],
           \A q \in Session!Processes : q # s => adj'[q] = adj[q],
           adj'[s][Session!SESSION] = 0, adj'[s][Session!MEMORY] = 0,
           to \in {"start", "exit", "done"} => adj'[s][Session!DATA] = 0,
           to \in InSessionAt \cup {"session"} => adj'[s][Session!DATA] = 2
    PROVE  Sides'
<1>1. s \in Session!Processes /\ Session!Receiver \in Session!Processes /\ s # Session!Receiver
  BY DEF Session!Processes, SessionSetting
<1>2. pc'[s] = to /\ \A q \in Session!Processes : q # s => pc'[q] = pc[q]
  BY <1>1 DEF Moves, SessionTypes
<1>3. \A t \in Senders : t \in Session!Processes
  BY DEF Session!Processes
<1> QED BY <1>1, <1>2, <1>3 DEF Sides

\* The receiver goes on.
LEMMA ReceiverMoves ==
    ASSUME SessionSetting, SessionTypes, Sides, NEW to \in ReceiverAt \ {"done"}, Moves(Session!Receiver, to),
           UNCHANGED <<status, removed, adj>>, pc[Session!Receiver] # "done",
           to \in {"pData", "testSender", "write"} => ~ hasEof'
    PROVE  Sides'
<1>1. Session!Receiver \in Session!Processes /\ \A t \in Senders : t \in Session!Processes /\ t # Session!Receiver
  BY DEF Session!Processes, SessionSetting
<1>2. pc'[Session!Receiver] = to /\ \A q \in Session!Processes : q # Session!Receiver => pc'[q] = pc[q]
  BY <1>1 DEF Moves, SessionTypes
<1> QED BY <1>1, <1>2 DEF Sides

\* The types of what is in the memory.
LEMMA MemoryFields ==
    ASSUME SessionTypes
    PROVE  /\ mem.snd_state \in Signs /\ mem.rcv_state \in Signs /\ mem.data \in Records
           /\ \A x \in Signs : /\ [mem EXCEPT !.rcv_state = x] \in Memories
                               /\ [mem EXCEPT !.snd_state = x] \in Memories
BY DEF SessionTypes, Memories

\* Each step keeps types and sides.
LEMMA SenderTypes ==
    ASSUME SessionSetting, SessionTypes, Sides, NEW s \in Senders,
           Session!SenderStep(s) \/ Session!ReadFails(s) \/ Session!KillSender(s)
    PROVE  SessionTypes' /\ Sides'
<1>0. /\ s \in Session!Processes /\ Session!SESSION \in Session!Semaphores /\ Session!MEMORY \in Session!Semaphores /\ Session!DATA \in Session!Semaphores
      /\ Session!DATA # Session!SESSION /\ Session!DATA # Session!MEMORY
      /\ SenderAt \subseteq Labels /\ InSessionAt \subseteq SenderAt
  BY DEF Session!Processes, Session!Semaphores, Session!SESSION, Session!MEMORY, Session!DATA, Labels,
         SenderAt
<1>1. /\ sem \in [Session!Semaphores -> Nat] /\ adj \in [Session!Processes -> [Session!Semaphores -> Int]]
      /\ adj[s] \in [Session!Semaphores -> Int]
      /\ pos \in [Senders -> 0 .. FileLen] /\ out \in Seq(Records) /\ mem \in Memories
  BY <1>0 DEF SessionTypes
<1>2. removed \in BOOLEAN /\ hasEof \in BOOLEAN
  BY Zenon DEF SessionTypes
<1>3. /\ adj[s][Session!SESSION] = 0 /\ adj[s][Session!MEMORY] = 0
      /\ pc[s] \in {"start", "exit", "done"} => adj[s][Session!DATA] = 0
      /\ pc[s] \in InSessionAt \cup {"session"} => adj[s][Session!DATA] = 2
  BY DEF Sides
<1>4. /\ {"killed", "failed", "ok"} \subseteq Results \ {"running"}
      /\ {"OK", "EOF", "IOERROR", "NOT_DONE"} \subseteq Signs
  BY DEF Results, Signs
<1>5. CASE Session!Register(s)
  <2>1. /\ Moves(s, "session") /\ adj' = [adj EXCEPT ![s][Session!DATA] = 2] /\ UNCHANGED <<sem, mem, Session!rest>>
    BY <1>5 DEF Session!Register, Session!Goto, Moves
  <2>2. /\ adj' \in [Session!Processes -> [Session!Semaphores -> Int]] /\ adj'[s][Session!DATA] = 2
        /\ adj'[s][Session!SESSION] = 0 /\ adj'[s][Session!MEMORY] = 0
        /\ \A q \in Session!Processes : q # s => adj'[q] = adj[q]
    BY <1>0, <1>1, <1>3, <2>1
  <2>3. "session" \in SenderAt /\ "session" \notin {"start", "exit", "done"}
    BY DEF SenderAt
  <2>4. UNCHANGED <<sem, mem, removed, status, pos, out, hasEof>>
    BY <2>1 DEF Session!rest
  <2>5. Sides'
    BY <2>1, <2>2, <2>3, <2>4, SenderMoves
  <2>6. SessionTypes'
    BY <1>0, <1>1, <1>2, <2>1, <2>2, <2>3, <2>4, TypesKept
  <2> QED BY <2>5, <2>6
<1>6. ASSUME NEW to \in InSessionAt, Moves(s, to), pc[s] \in InSessionAt \cup {"session"},
             UNCHANGED <<adj, removed, status, out, hasEof>>, sem' \in [Session!Semaphores -> Nat],
             mem' \in Memories, pos' \in [Senders -> 0 .. FileLen]
      PROVE  SessionTypes' /\ Sides'
  <2>1. to \in SenderAt /\ to \in Labels /\ to \notin {"start", "exit", "done"}
    BY <1>0, <1>6 DEF InSessionAt
  <2>2. Sides'
    BY <1>1, <1>3, <1>6, <2>1, SenderMoves
  <2>3. SessionTypes'
    BY <1>0, <1>1, <1>2, <1>6, <2>1, TypesKept
  <2> QED BY <2>2, <2>3
<1>7. CASE Session!PSession(s) \/ Session!PMemory(s) \/ Session!VData(s)
  <2>1. /\ \E to \in {"memory", "test"} : Moves(s, to)
        /\ pc[s] \in {"session", "memory", "vData"}
        /\ UNCHANGED <<adj, mem, Session!rest>>
        /\ \/ sem[Session!SESSION] > 0 /\ sem' = [sem EXCEPT ![Session!SESSION] = @ - 1]
           \/ sem[Session!MEMORY] > 0 /\ sem' = [sem EXCEPT ![Session!MEMORY] = @ - 1]
           \/ sem' = [sem EXCEPT ![Session!DATA] = @ + 1]
    BY <1>7, SenderOperations
  <2>2. sem' \in [Session!Semaphores -> Nat]
    <3>1. CASE sem[Session!SESSION] > 0 /\ sem' = [sem EXCEPT ![Session!SESSION] = @ - 1]
      <4>1. sem[Session!SESSION] - 1 \in Nat
        BY <1>0, <1>1, <3>1
      <4> QED BY <1>1, <3>1, <4>1
    <3>2. CASE sem[Session!MEMORY] > 0 /\ sem' = [sem EXCEPT ![Session!MEMORY] = @ - 1]
      <4>1. sem[Session!MEMORY] - 1 \in Nat
        BY <1>0, <1>1, <3>2
      <4> QED BY <1>1, <3>2, <4>1
    <3>3. CASE sem' = [sem EXCEPT ![Session!DATA] = @ + 1]
      BY <1>0, <1>1, <3>3
    <3> QED BY <2>1, <3>1, <3>2, <3>3
  <2>3. UNCHANGED <<adj, mem, removed, status, pos, out, hasEof>>
    BY <2>1 DEF Session!rest
  <2> QED BY <1>1, <1>6, <2>1, <2>2, <2>3 DEF InSessionAt
<1>8. CASE Session!TestReceiver(s)
  <2>1. CASE mem.rcv_state = "OK"
    <3>1. Moves(s, "read") /\ pc[s] = "test" /\ UNCHANGED <<sem, adj, removed, status, mem, pos, out, hasEof>>
      BY <1>8, <2>1 DEF Session!TestReceiver, Session!Goto, Moves
    <3> QED BY <1>1, <1>6, <3>1 DEF InSessionAt
  <2>2. CASE mem.rcv_state # "OK"
    <3>1. Session!End(s, "failed") /\ UNCHANGED <<mem, pos, out, hasEof>>
      BY <1>8, <2>2 DEF Session!TestReceiver
    <3> QED BY <1>0, <1>1, <1>4, <3>1, EndKeeps
  <2> QED BY <2>1, <2>2
<1>9. CASE Session!Read(s)
  <2>1. Moves(s, "reset") /\ pc[s] = "read" /\ UNCHANGED <<sem, adj, removed, status, out, hasEof>>
    BY <1>9 DEF Session!Read, Session!Goto, Moves
  <2>2. mem' \in Memories /\ pos' \in [Senders -> 0 .. FileLen]
    <3>1. CASE pos[s] < FileLen
      <4>1. pos[s] + 1 \in 0 .. FileLen
        BY <1>1, <3>1 DEF SessionSetting
      <4>2. [from |-> s, nr |-> pos[s] + 1] \in Records
        BY <4>1 DEF Records
      <4>3. mem' = [mem EXCEPT !.data = [from |-> s, nr |-> pos[s] + 1], !.snd_state = "OK"]
            /\ pos' = [pos EXCEPT ![s] = @ + 1]
        BY <1>9, <3>1 DEF Session!Read
      <4> QED BY <1>1, <1>4, <4>1, <4>2, <4>3 DEF Memories
    <3>2. CASE ~ pos[s] < FileLen
      <4>1. mem' = [mem EXCEPT !.snd_state = "EOF"] /\ pos' = pos
        BY <1>9, <3>2 DEF Session!Read
      <4> QED BY <1>1, <1>4, <4>1, MemoryFields
    <3> QED BY <3>1, <3>2
  <2> QED BY <1>1, <1>6, <2>1, <2>2 DEF InSessionAt
<1>10. CASE Session!ReadFails(s)
  <2>1. Session!End(s, "failed") /\ mem' = [mem EXCEPT !.snd_state = "IOERROR"] /\ UNCHANGED <<pos, out, hasEof>>
    BY <1>10 DEF Session!ReadFails
  <2>2. mem' \in Memories
    BY <1>4, <2>1, MemoryFields
  <2> QED BY <1>0, <1>4, <2>1, <2>2, EndKeeps
<1>11. CASE Session!ResetReceiver(s) \/ Session!TestEof(s)
  <2>1. /\ \E to \in {"testEof", "vLast", "vData"} : Moves(s, to)
        /\ pc[s] \in {"reset", "testEof"} /\ UNCHANGED <<sem, adj, Session!rest>>
        /\ mem' = mem \/ mem' = [mem EXCEPT !.rcv_state = "NOT_DONE"]
    BY <1>11 DEF Session!ResetReceiver, Session!TestEof, Session!Goto, Moves
  <2>2. mem' \in Memories
    BY <1>1, <1>4, <2>1, MemoryFields
  <2>3. UNCHANGED <<sem, adj, removed, status, pos, out, hasEof>>
    BY <2>1 DEF Session!rest
  <2> QED BY <1>1, <1>6, <2>1, <2>2, <2>3 DEF InSessionAt
<1>12. CASE Session!VLast(s)
  <2>1. /\ Moves(s, "exit") /\ pc[s] = "vLast" /\ UNCHANGED <<mem, Session!rest>>
        /\ sem' = [sem EXCEPT ![Session!DATA] = @ + 1] /\ adj' = [adj EXCEPT ![s][Session!DATA] = @ - 2]
    BY <1>12 DEF Session!VLast, Session!Goto, Moves
  <2>2. adj[s][Session!DATA] = 2
    BY <1>3, <2>1 DEF InSessionAt
  <2>3. /\ adj' \in [Session!Processes -> [Session!Semaphores -> Int]] /\ adj'[s][Session!DATA] = 0
        /\ adj'[s][Session!SESSION] = 0 /\ adj'[s][Session!MEMORY] = 0
        /\ \A q \in Session!Processes : q # s => adj'[q] = adj[q]
    BY <1>0, <1>1, <1>3, <2>1, <2>2
  <2>4. sem' \in [Session!Semaphores -> Nat]
    BY <1>0, <1>1, <2>1
  <2>5. UNCHANGED <<mem, removed, status, pos, out, hasEof>>
    BY <2>1 DEF Session!rest
  <2>6. "exit" \in SenderAt /\ "exit" \notin InSessionAt \cup {"session"}
    BY DEF SenderAt, InSessionAt
  <2>7. Sides'
    BY <2>1, <2>3, <2>5, <2>6, SenderMoves
  <2>8. SessionTypes'
    BY <1>0, <1>1, <1>2, <2>1, <2>3, <2>4, <2>5, <2>6, TypesKept
  <2> QED BY <2>7, <2>8
<1>13. CASE Session!Return(s) \/ Session!NoSemaphores(s) \/ Session!KillSender(s)
  <2>1. /\ \E how \in {"ok", "failed", "killed"} : Session!End(s, how)
        /\ UNCHANGED <<mem, pos, out, hasEof>>
    BY <1>13 DEF Session!Return, Session!NoSemaphores, Session!KillSender
  <2> QED BY <1>0, <1>1, <1>4, <2>1, EndKeeps
<1> QED BY <1>5, <1>7, <1>8, <1>9, <1>10, <1>11, <1>12, <1>13 DEF Session!SenderStep

\* So does the receiver.
LEMMA ReceiverTypes ==
    ASSUME SessionSetting, SessionTypes, Sides, Session!ReceiverStep \/ Session!WriteFails \/ Session!ExitSignal \/ Session!ReceiverDeath
    PROVE  SessionTypes' /\ Sides'
<1>0. /\ Session!Receiver \in Session!Processes /\ Session!SESSION \in Session!Semaphores /\ Session!MEMORY \in Session!Semaphores /\ Session!DATA \in Session!Semaphores
      /\ ReceiverAt \subseteq Labels
  BY DEF Session!Processes, Session!Semaphores, Session!SESSION, Session!MEMORY, Session!DATA, Labels
<1>1. /\ sem \in [Session!Semaphores -> Nat] /\ adj \in [Session!Processes -> [Session!Semaphores -> Int]]
      /\ pos \in [Senders -> 0 .. FileLen] /\ out \in Seq(Records) /\ mem \in Memories
  BY DEF SessionTypes
<1>2. removed \in BOOLEAN /\ hasEof \in BOOLEAN
  BY Zenon DEF SessionTypes
<1>4. /\ {"killed", "failed", "ok"} \subseteq Results \ {"running"}
      /\ {"OK", "EOF", "IOERROR", "NOT_DONE"} \subseteq Signs
  BY DEF Results, Signs
<1>5. ASSUME NEW to \in ReceiverAt \ {"done"}, Moves(Session!Receiver, to), pc[Session!Receiver] # "done",
             UNCHANGED <<adj, removed, status, pos>>, sem' \in [Session!Semaphores -> Nat],
             mem' \in Memories, out' \in Seq(Records), hasEof' \in BOOLEAN,
             to \in {"pData", "testSender", "write"} => ~ hasEof'
      PROVE  SessionTypes' /\ Sides'
  <2>1. Sides'
    BY <1>5, ReceiverMoves
  <2>2. SessionTypes'
    BY <1>0, <1>1, <1>2, <1>5, TypesKept
  <2> QED BY <2>1, <2>2
<1>6. CASE Session!Loop
  <2>1. CASE exiting
    <3>1. Session!End(Session!Receiver, "ok") /\ UNCHANGED <<mem, pos, out, hasEof>>
      BY <1>6, <2>1 DEF Session!Loop
    <3> QED BY <1>0, <1>1, <1>4, <3>1, EndKeeps
  <2>2. CASE ~ exiting
    <3>1. /\ Moves(Session!Receiver, "pData") /\ pc[Session!Receiver] = "loop" /\ hasEof' = FALSE
          /\ UNCHANGED <<sem, adj, removed, status, mem, pos, out>>
      BY <1>6, <2>2 DEF Session!Loop, Session!Goto, Moves
    <3>2. ~ hasEof' /\ hasEof' \in BOOLEAN
      BY <3>1, Zenon
    <3> QED BY <1>1, <1>5, <3>1, <3>2 DEF ReceiverAt
  <2> QED BY <2>1, <2>2
<1>7. CASE Session!PData \/ Session!VSession \/ Session!VMemory
  <2>1. /\ \E to \in {"testSender", "vMemory", "loop"} :
               Moves(Session!Receiver, to) /\ (to = "testSender" => pc[Session!Receiver] = "pData")
        /\ pc[Session!Receiver] \in {"pData", "vSession", "vMemory"}
        /\ UNCHANGED <<adj, mem, Session!rest>>
        /\ \/ sem[Session!DATA] > 0 /\ sem' = [sem EXCEPT ![Session!DATA] = @ - 1]
           \/ sem' = [sem EXCEPT ![Session!SESSION] = @ + 1]
           \/ sem' = [sem EXCEPT ![Session!MEMORY] = @ + 1]
    BY <1>7, ReceiverOperations
  <2>2. sem' \in [Session!Semaphores -> Nat]
    BY <1>0, <1>1, <2>1
  <2>3. UNCHANGED <<adj, mem, removed, status, pos, out, hasEof>>
    BY <2>1 DEF Session!rest
  <2>4. pc[Session!Receiver] = "pData" => ~ hasEof
    BY DEF Sides
  <2> QED BY <1>1, <1>2, <1>5, <2>1, <2>2, <2>3, <2>4 DEF ReceiverAt
<1>8. CASE Session!TestSender
  <2>0. pc[Session!Receiver] = "testSender" /\ ~ hasEof
    BY <1>8 DEF Session!TestSender, Sides
  <2>1. CASE mem.snd_state = "OK"
    <3>1. Moves(Session!Receiver, "write") /\ UNCHANGED <<sem, adj, removed, status, hasEof, mem, pos, out>>
      BY <1>8, <2>1 DEF Session!TestSender, Session!Goto, Moves
    <3> QED BY <1>1, <1>2, <1>5, <2>0, <3>1 DEF ReceiverAt
  <2>2. CASE mem.snd_state = "EOF"
    <3>1. Moves(Session!Receiver, "ack") /\ hasEof' = TRUE /\ UNCHANGED <<sem, adj, removed, status, mem, pos, out>>
      BY <1>8, <2>2 DEF Session!TestSender, Session!Goto, Moves
    <3>2. hasEof' \in BOOLEAN
      BY <3>1, Zenon
    <3> QED BY <1>1, <1>5, <2>0, <3>1, <3>2 DEF ReceiverAt
  <2>3. CASE mem.snd_state \notin {"OK", "EOF"}
    <3>1. Session!End(Session!Receiver, "failed") /\ UNCHANGED <<mem, pos, out, hasEof>>
      BY <1>8, <2>3 DEF Session!TestSender
    <3> QED BY <1>0, <1>1, <1>4, <3>1, EndKeeps
  <2> QED BY <2>1, <2>2, <2>3
<1>9. CASE Session!Write
  <2>1. /\ Moves(Session!Receiver, "ack") /\ pc[Session!Receiver] = "write" /\ out' = Append(out, mem.data)
        /\ UNCHANGED <<sem, adj, removed, status, hasEof, mem, pos>>
    BY <1>9 DEF Session!Write, Session!Goto, Moves
  <2>2. out' \in Seq(Records)
    BY <1>1, <2>1, MemoryFields, AppendProperties
  <2> QED BY <1>1, <1>2, <1>5, <2>1, <2>2 DEF ReceiverAt
<1>10. CASE Session!WriteFails
  <2>1. /\ Session!End(Session!Receiver, "failed") /\ mem' = [mem EXCEPT !.rcv_state = "IOERROR"]
        /\ UNCHANGED <<pos, out, hasEof>>
    BY <1>10 DEF Session!WriteFails
  <2>2. mem' \in Memories
    BY <1>4, <2>1, MemoryFields
  <2> QED BY <1>0, <1>4, <2>1, <2>2, EndKeeps
<1>11. CASE Session!Acknowledge \/ Session!ResetSender
  <2>1. /\ \E to \in {"reset", "vSession", "vMemory"} : Moves(Session!Receiver, to)
        /\ pc[Session!Receiver] \in {"ack", "reset"} /\ UNCHANGED <<sem, adj, Session!rest>>
        /\ mem' = [mem EXCEPT !.rcv_state = "OK"] \/ mem' = [mem EXCEPT !.snd_state = "NOT_DONE"]
    BY <1>11 DEF Session!Acknowledge, Session!ResetSender, Session!Goto, Moves
  <2>2. mem' \in Memories
    BY <1>4, <2>1, MemoryFields
  <2>3. UNCHANGED <<sem, adj, removed, status, pos, out, hasEof>>
    BY <2>1 DEF Session!rest
  <2> QED BY <1>1, <1>2, <1>5, <2>1, <2>2, <2>3 DEF ReceiverAt
<1>12. CASE Session!ExitSignal
  <2>1. /\ \E to \in ReceiverAt \ {"done"} :
               Moves(Session!Receiver, to) /\ (to \in {"pData", "testSender", "write"} => to = pc[Session!Receiver])
        /\ pc[Session!Receiver] # "done" /\ UNCHANGED <<sem, adj, removed, mem, status, pos, out, hasEof>>
    <3>1. pc[Session!Receiver] \in ReceiverAt \ {"done"}
      BY <1>12 DEF Session!ExitSignal, Sides
    <3>2. CASE pc[Session!Receiver] = "pData"
      <4>1. Moves(Session!Receiver, "loop")
        BY <1>12, <3>2 DEF Session!ExitSignal, Moves
      <4> QED BY <1>12, <4>1, <3>1 DEF Session!ExitSignal, ReceiverAt
    <3>3. CASE pc[Session!Receiver] # "pData"
      <4>1. Moves(Session!Receiver, pc[Session!Receiver])
        BY <1>12, <3>3 DEF Session!ExitSignal, Moves
      <4> QED BY <1>12, <4>1, <3>1 DEF Session!ExitSignal
    <3> QED BY <3>2, <3>3
  <2>2. pc[Session!Receiver] \in {"pData", "testSender", "write"} => ~ hasEof
    BY DEF Sides
  <2> QED BY <1>1, <1>2, <1>5, <2>1, <2>2
<1>13. CASE Session!ReceiverDeath
  <2>1. Session!End(Session!Receiver, "killed") /\ UNCHANGED <<mem, pos, out, hasEof>>
    BY <1>13 DEF Session!ReceiverDeath
  <2> QED BY <1>0, <1>1, <1>4, <2>1, EndKeeps
<1>14. CASE Session!SessionOverflow
  <2>1. Session!End(Session!Receiver, "failed") /\ UNCHANGED <<mem, pos, out, hasEof>>
    BY <1>14 DEF Session!SessionOverflow
  <2> QED BY <1>0, <1>1, <1>4, <2>1, EndKeeps
<1> QED BY <1>6, <1>7, <1>8, <1>9, <1>10, <1>11, <1>12, <1>13, <1>14 DEF Session!ReceiverStep

-----------------------------------------------------------------------------
\* The output: what is added to one file leaves the others as they are.
LEMMA OutputSame ==
    ASSUME out' = out
    PROVE  \A t \in Senders : /\ Complete(t) <=> Complete(t)'
                              /\ Follows(t) <=> Follows(t)'
                              /\ \A n \in 0 .. FileLen : AtEnd(t, n) <=> AtEnd(t, n)'
BY DEF Complete, Follows, AtEnd, Piece

\* One more chunk of s.
LEMMA OutputGrows ==
    ASSUME SessionTypes, NEW s \in Senders, NEW n \in Nat, AtEnd(s, n), FileLen \in Nat,
           out' = Append(out, [from |-> s, nr |-> n + 1])
    PROVE  /\ AtEnd(s, n + 1)'
           /\ \A t \in Senders : t # s /\ Complete(t) => Complete(t)'
           /\ \A t \in Senders : t # s /\ (\A i \in 1 .. Len(out) : out[i].from # t)
                 => \A i \in 1 .. Len(out') : out'[i].from # t
<1> DEFINE e == [from |-> s, nr |-> n + 1]
<1>1. /\ out \in Seq(Records) /\ Len(out) \in Nat /\ Len(out') = Len(out) + 1
      /\ \A i \in 1 .. Len(out) : out'[i] = out[i]
      /\ out'[Len(out) + 1] = e
  BY AppendProperties DEF SessionTypes
<1>2. n <= Len(out) /\ Piece(s, Len(out) + 1 - n, n)
  BY DEF AtEnd
<1>3. AtEnd(s, n + 1)'
  <2>1. \A i \in 1 .. Len(out') :
           IF Len(out') - n <= i /\ i < Len(out') + 1 THEN out'[i] = [from |-> s, nr |-> i - (Len(out') - n) + 1]
                                                      ELSE out'[i].from # s
    <3> SUFFICES ASSUME NEW i \in 1 .. Len(out')
                 PROVE  IF Len(out') - n <= i /\ i < Len(out') + 1
                          THEN out'[i] = [from |-> s, nr |-> i - (Len(out') - n) + 1]
                          ELSE out'[i].from # s
      OBVIOUS
    <3>1. CASE i = Len(out) + 1
      <4>1. i - (Len(out') - n) + 1 = n + 1
        BY <1>1, <3>1
      <4> QED BY <1>1, <1>2, <3>1, <4>1
    <3>2. CASE i # Len(out) + 1
      <4>1. i \in 1 .. Len(out) /\ out'[i] = out[i]
        BY <1>1, <3>2
      <4>2. /\ (Len(out') - n <= i) <=> (Len(out) + 1 - n <= i)
            /\ i < Len(out) + 1 - n + n /\ i < Len(out') + 1
            /\ i - (Len(out') - n) + 1 = i - (Len(out) + 1 - n) + 1
        BY <1>1, <4>1
      <4>3. IF Len(out) + 1 - n <= i /\ i < Len(out) + 1 - n + n
              THEN out[i] = [from |-> s, nr |-> i - (Len(out) + 1 - n) + 1] ELSE out[i].from # s
        BY <1>2, <4>1 DEF Piece
      <4> QED BY <4>1, <4>2, <4>3
    <3> QED BY <3>1, <3>2
  <2>2. ASSUME NEW i \in 1 .. Len(out')
        PROVE  IF Len(out') + 1 - (n + 1) <= i /\ i < Len(out') + 1 - (n + 1) + (n + 1)
                 THEN out'[i] = [from |-> s, nr |-> i - (Len(out') + 1 - (n + 1)) + 1] ELSE out'[i].from # s
    <3>1. /\ Len(out') + 1 - (n + 1) = Len(out') - n /\ Len(out') + 1 - (n + 1) + (n + 1) = Len(out') + 1
      BY <1>1
    <3> QED BY <2>1, <3>1
  <2>3. n + 1 <= Len(out')
    BY <1>1, <1>2
  <2> QED BY <2>2, <2>3 DEF AtEnd, Piece
<1>4. ASSUME NEW t \in Senders, t # s, \A i \in 1 .. Len(out) : out[i].from # t
      PROVE  \A i \in 1 .. Len(out') : out'[i].from # t
  <2>1. \A i \in 1 .. Len(out') : i \in 1 .. Len(out) \/ i = Len(out) + 1
    BY <1>1
  <2> QED BY <1>1, <1>4, <2>1
<1>5. ASSUME NEW t \in Senders, t # s, NEW a \in 1 .. Len(out), Piece(t, a, FileLen), a + FileLen <= Len(out) + 1
      PROVE  a \in 1 .. Len(out') /\ Piece(t, a, FileLen)' /\ a + FileLen <= Len(out') + 1
  <2>1. a \in 1 .. Len(out') /\ a + FileLen <= Len(out') + 1
    BY <1>1, <1>5
  <2>2. ASSUME NEW i \in 1 .. Len(out')
        PROVE  IF a <= i /\ i < a + FileLen THEN out'[i] = [from |-> t, nr |-> i - a + 1] ELSE out'[i].from # t
    <3>1. CASE i = Len(out) + 1
      <4>1. ~ (a <= i /\ i < a + FileLen)
        BY <1>1, <1>5, <3>1
      <4> QED BY <1>1, <1>5, <3>1, <4>1
    <3>2. CASE i # Len(out) + 1
      <4>1. i \in 1 .. Len(out) /\ out'[i] = out[i]
        BY <1>1, <3>2
      <4> QED BY <1>5, <4>1 DEF Piece
    <3> QED BY <3>1, <3>2
  <2> QED BY <2>1, <2>2 DEF Piece
<1>6. ASSUME NEW t \in Senders, t # s, Complete(t)
      PROVE  Complete(t)'
  BY <1>4, <1>5, <1>6 DEF Complete
<1> QED BY <1>3, <1>4, <1>6

-----------------------------------------------------------------------------
\* Who has the session: the steps that leave everybody where he is.
LEMMA Numbers ==
    /\ Session!MEMORY \in Session!Semaphores /\ Session!DATA \in Session!Semaphores /\ Session!SESSION \in Session!Semaphores
    /\ Session!MEMORY # Session!DATA /\ Session!DATA # Session!SESSION /\ Session!MEMORY # Session!SESSION
BY DEF Session!MEMORY, Session!DATA, Session!SESSION, Session!Semaphores

\* A file's part in the output is the same.
LEMMA ContentSame ==
    ASSUME NEW s \in Senders, Content(s), out' = out, pos'[s] = pos[s],
           Pending <=> Pending', Pending => mem'.data = mem.data
    PROVE  Content(s)'
BY OutputSame DEF Content

\* The receiver may also go from one idle place to another.
LEMMA ModeKept ==
    ASSUME SessionMode, \A i \in Session!Semaphores : sem'[i] = sem[i],
           mem'.snd_state = mem.snd_state, mem'.data = mem.data, UNCHANGED <<pos, out>>,
           \A t \in Senders : pc'[t] = pc[t] \/ (pc[t] \notin InSessionAt \cup {"done"} /\ pc'[t] \notin InSessionAt),
           \/ pc'[Session!Receiver] = pc[Session!Receiver] /\ hasEof' = hasEof
           \/ Idle /\ Idle'
    PROVE  SessionMode'
<1>1. /\ \A t \in Senders : /\ Inside(t) <=> Inside(t)'
                            /\ Inside(t) => pc'[t] = pc[t]
                            /\ pc[t] = "done" => pc'[t] = "done"
                            /\ Complete(t) <=> Complete(t)'
      /\ Pending <=> Pending'
  <2>1. Pending <=> Pending'
    BY DEF Pending, Idle
  <2>2. ASSUME NEW t \in Senders
        PROVE  /\ Inside(t) <=> Inside(t)'
               /\ Inside(t) => pc'[t] = pc[t]
               /\ pc[t] = "done" => pc'[t] = "done"
    BY DEF Inside
  <2> QED BY <2>1, <2>2, OutputSame
<1>2. \A s \in Senders : Content(s) => Content(s)'
  BY <1>1, ContentSame
<1>3. CASE FreeSession
  BY <1>1, <1>3, Numbers DEF FreeSession, SessionMode, NobodyInside, Idle
<1>4. CASE ClosingSession
  BY <1>1, <1>4, Numbers DEF ClosingSession, SessionMode, NobodyInside, Idle
<1>5. ASSUME NEW s \in Senders, OwnSession(s)
      PROVE  OwnSession(s)'
  <2>1. SenderTurn(s) => SenderTurn(s)'
    BY <1>1, <1>5, Numbers DEF SenderTurn, OwnSession, Idle
  <2>2. ReceiverTurn(s) => ReceiverTurn(s)'
    BY <1>1, <1>5, Numbers DEF ReceiverTurn, OwnSession, Idle
  <2> QED BY <1>1, <1>2, <1>5, <2>1, <2>2, Numbers DEF OwnSession
<1>6. ASSUME NEW s \in Senders, LostSession(s)
      PROVE  LostSession(s)'
  BY <1>1, <1>2, <1>6, Numbers DEF LostSession, NobodyInside, Idle
<1> QED BY <1>3, <1>4, <1>5, <1>6 DEF SessionMode

\* The one semaphore a step changes.
LEMMA Changed ==
    ASSUME SessionTypes, NEW i \in Session!Semaphores, NEW k, sem' = [sem EXCEPT ![i] = k]
    PROVE  sem'[i] = k /\ \A j \in Session!Semaphores : j # i => sem'[j] = sem[j]
BY DEF SessionTypes
\* A process goes on, the others stay.
LEMMA Placed ==
    ASSUME SessionSetting, SessionTypes, NEW p \in Session!Processes, NEW to, Moves(p, to)
    PROVE  /\ pc'[p] = to /\ \A q \in Session!Processes : q # p => pc'[q] = pc[q]
           /\ \A t \in Senders : t \in Session!Processes /\ t # Session!Receiver
           /\ Session!Receiver \in Session!Processes
BY DEF SessionTypes, Moves, Session!Processes, SessionSetting

\* A sender that is inside has the session.
LEMMA Owner ==
    ASSUME SessionMode, NEW s \in Senders, Inside(s)
    PROVE  OwnSession(s)
BY DEF SessionMode, FreeSession, ClosingSession, OwnSession, LostSession, NobodyInside

\* Its session goes on, ...
LEMMA OwnGoesOn ==
    ASSUME NEW s \in Senders, OwnSession(s), sem'[Session!SESSION] = sem[Session!SESSION], out' = out,
           \A t \in Senders : t # s => pc'[t] = pc[t],
           Inside(s)', SenderTurn(s)' \/ ReceiverTurn(s)', Content(s)'
    PROVE  SessionMode'
<1>1. ASSUME NEW t \in Senders, t # s
      PROVE  ~ Inside(t)' /\ Complete(t)'
  BY <1>1, OutputSame DEF OwnSession, Inside
<1>2. OwnSession(s)'
  BY <1>1 DEF OwnSession
<1> QED BY <1>2 DEF SessionMode

\* ... or is lost, when it ends before the last V.
LEMMA OwnEnds ==
    ASSUME SessionSetting, SessionTypes, Sides, SessionMode, pc[Session!Receiver] # "done",
           NEW s \in Senders, Inside(s), NEW how \in Results, Session!End(s, how), UNCHANGED <<pos, out, hasEof>>,
           mem'.data = mem.data, mem'.snd_state # "EOF",
           \/ mem'.snd_state = mem.snd_state
           \/ Idle /\ mem.snd_state = "NOT_DONE" /\ mem'.snd_state # "OK"
    PROVE  SessionMode'
<1>1. OwnSession(s)
  BY Owner
<1>2. s \in Session!Processes /\ s # Session!Receiver /\ Session!Receiver \in Session!Processes /\ \A t \in Senders : t \in Session!Processes
  BY DEF Session!Processes, SessionSetting
<1>3. /\ adj[s][Session!SESSION] = 0 /\ sem'[Session!SESSION] = sem[Session!SESSION]
      /\ pc'[s] = "done" /\ \A q \in Session!Processes : q # s => pc'[q] = pc[q]
  BY <1>2, Ending, Numbers DEF Sides
<1>4. pc'[Session!Receiver] = pc[Session!Receiver] /\ \A t \in Senders : t # s => pc'[t] = pc[t]
  BY <1>2, <1>3
<1>5. NobodyInside'
  BY <1>1, <1>3, <1>4 DEF NobodyInside, Inside, OwnSession, InSessionAt
<1>6. \A t \in Senders : t # s => Complete(t)'
  BY <1>1, OutputSame DEF OwnSession
<1>7. Content(s)'
  <2>1. Pending <=> Pending'
    BY <1>4 DEF Pending
  <2> QED BY <1>1, <2>1, ContentSame DEF OwnSession
<1>8. /\ pc[Session!Receiver] # "vSession" /\ (pc[Session!Receiver] \in {"ack", "reset"} => ~ hasEof)
      /\ pc[Session!Receiver] = "write" => mem'.snd_state = "OK"
  BY <1>1 DEF OwnSession, SenderTurn, ReceiverTurn, Idle
<1>9. LostSession(s)'
  BY <1>1, <1>3, <1>4, <1>5, <1>6, <1>7, <1>8 DEF LostSession, OwnSession
<1> QED BY <1>9 DEF SessionMode

\* What a sender does outside of its session leaves it to whoever has it.
LEMMA OutsideMode ==
    ASSUME SessionSetting, SessionTypes, Sides, SessionMode, pc[Session!Receiver] # "done", NEW s \in Senders,
           Session!Register(s) \/ Session!Return(s) \/ (Session!KillSender(s) /\ ~ Inside(s)),
           strays' = {}
    PROVE  SessionMode'
<1>1. s \in Session!Processes /\ s # Session!Receiver /\ Session!Receiver \in Session!Processes /\ \A t \in Senders : t \in Session!Processes
  BY DEF Session!Processes, SessionSetting
<1>2. /\ UNCHANGED <<mem, pos, out, hasEof>>
      /\ pc[s] \notin InSessionAt \cup {"done"} /\ pc'[s] \notin InSessionAt
      /\ \A q \in Session!Processes : q # s => pc'[q] = pc[q]
      /\ \A i \in Session!Semaphores : sem'[i] = sem[i]
  <2>1. CASE Session!Register(s)
    BY <1>1, <2>1 DEF Session!Register, Session!Goto, Session!rest, InSessionAt, SessionTypes
  <2>2. CASE Session!Return(s) \/ (Session!KillSender(s) /\ ~ Inside(s))
    <3>1. /\ \E how \in Results : Session!End(s, how)
          /\ UNCHANGED <<mem, pos, out, hasEof>>
          /\ pc[s] \notin InSessionAt \cup {"done", "session"}
      BY <2>2 DEF Session!Return, Session!KillSender, Session!Stray, Inside, Results, InSessionAt
    <3>2. \A i \in Session!Semaphores : adj[s][i] = 0
      <4>1. pc[s] \in {"start", "exit"}
        BY <3>1 DEF Sides, SenderAt
      <4> QED BY <4>1 DEF Sides, Session!Semaphores, Session!MEMORY, Session!DATA, Session!SESSION
    <3> QED BY <1>1, <3>1, <3>2, Ending DEF InSessionAt
  <2> QED BY <2>1, <2>2
<1>3. \A t \in Senders : pc'[t] = pc[t] \/ (pc[t] \notin InSessionAt \cup {"done"} /\ pc'[t] \notin InSessionAt)
  BY <1>1, <1>2
<1> QED BY <1>1, <1>2, <1>3, ModeKept

\* A sender gets the session only when nobody has it.
LEMMA EnterMode ==
    ASSUME SessionSetting, SessionTypes, Sides, SessionMode, pc[Session!Receiver] # "done", NEW s \in Senders, Session!PSession(s),
           pos[s] = 0, \A i \in 1 .. Len(out) : out[i].from # s
    PROVE  SessionMode'
<1>1. /\ sem[Session!SESSION] > 0 /\ sem' = [sem EXCEPT ![Session!SESSION] = @ - 1]
      /\ pc[s] = "session" /\ Moves(s, "memory") /\ UNCHANGED <<adj, mem, Session!rest>>
  BY SenderOperations
<1>2. s \in Session!Processes
  BY DEF Session!Processes
<1>3. /\ pc'[s] = "memory" /\ \A q \in Session!Processes : q # s => pc'[q] = pc[q]
      /\ \A t \in Senders : t \in Session!Processes /\ t # Session!Receiver
      /\ Session!Receiver \in Session!Processes
  BY <1>1, <1>2, Placed
<1>4. sem'[Session!SESSION] = sem[Session!SESSION] - 1 /\ sem'[Session!MEMORY] = sem[Session!MEMORY] /\ sem'[Session!DATA] = sem[Session!DATA]
  BY <1>1, Numbers, Changed
<1>5. FreeSession
  BY <1>1 DEF SessionMode, ClosingSession, OwnSession, LostSession
<1>6. UNCHANGED <<mem, pos, out, hasEof>>
  BY <1>1 DEF Session!rest
<1>7. \A t \in Senders : t # s => ~ Inside(t)' /\ Complete(t)'
  BY <1>3, <1>5, <1>6, OutputSame DEF FreeSession, NobodyInside, Inside
<1>8. SenderTurn(s)' \/ ReceiverTurn(s)'
  BY <1>3, <1>4, <1>5, <1>6 DEF FreeSession, SenderTurn, ReceiverTurn, Idle
<1>9. Content(s)'
  <2>1. ~ Pending'
    BY <1>5, <1>6 DEF FreeSession, Pending
  <2>2. AtEnd(s, 0)
    <3>1. out \in Seq(Records)
      BY DEF SessionTypes
    <3> QED BY <3>1 DEF AtEnd, Piece
  <2>3. 0 \in 0 .. FileLen
    BY DEF SessionSetting
  <2>4. AtEnd(s, 0)' /\ pos'[s] = 0
    BY <1>6, <2>2, <2>3, OutputSame
  <2> QED BY <2>1, <2>3, <2>4 DEF Content
<1>10. Inside(s)' /\ sem'[Session!SESSION] = 0
  BY <1>3, <1>4, <1>5 DEF Inside, InSessionAt, FreeSession
<1>11. OwnSession(s)'
  BY <1>7, <1>8, <1>9, <1>10 DEF OwnSession
<1> QED BY <1>11 DEF SessionMode

\* In its session a sender has its turn, or waits for the receiver.
LEMMA TurnMode ==
    ASSUME SessionSetting, SessionTypes, Sides, SessionMode, pc[Session!Receiver] # "done", NEW s \in Senders,
           Session!PMemory(s) \/ Session!Read(s) \/ Session!ResetReceiver(s) \/ Session!TestEof(s) \/ Session!VData(s)
              \/ (Session!TestReceiver(s) /\ mem.rcv_state = "OK")
    PROVE  SessionMode'
<1>1. s \in Session!Processes
  BY DEF Session!Processes
<1>2. /\ pc[s] \in InSessionAt \ {"vLast"} /\ sem'[Session!SESSION] = sem[Session!SESSION] /\ UNCHANGED <<out, hasEof>>
      /\ \E to \in InSessionAt : Moves(s, to)
  <2>1. CASE Session!PMemory(s) \/ Session!VData(s)
    BY <2>1, SenderOperations, Numbers, Changed DEF Session!rest, InSessionAt
  <2>2. CASE Session!Read(s) \/ (Session!TestReceiver(s) /\ mem.rcv_state = "OK")
    BY <2>2 DEF Session!Read, Session!TestReceiver, Session!Goto, Moves, InSessionAt
  <2>3. CASE Session!ResetReceiver(s) \/ Session!TestEof(s)
    BY <2>3 DEF Session!ResetReceiver, Session!TestEof, Session!Goto, Moves, InSessionAt, Session!rest
  <2> QED BY <2>1, <2>2, <2>3
<1>3. PICK to \in InSessionAt : Moves(s, to)
  BY <1>2
<1>4. /\ pc'[s] = to /\ \A t \in Senders : t # s => pc'[t] = pc[t]
      /\ pc'[Session!Receiver] = pc[Session!Receiver]
  BY <1>1, <1>3, Placed
<1>5. OwnSession(s) /\ Inside(s)'
  BY <1>2, <1>4, Owner DEF Inside
<1>6. mem \in Memories /\ mem.snd_state \in Signs
  BY MemoryFields DEF SessionTypes
<1>7. CASE Session!PMemory(s)
  <2>1. /\ sem[Session!MEMORY] > 0 /\ sem' = [sem EXCEPT ![Session!MEMORY] = @ - 1]
        /\ pc[s] = "memory" /\ Moves(s, "test") /\ UNCHANGED <<adj, mem, Session!rest>>
    BY <1>7, SenderOperations
  <2>2. /\ pc'[s] = "test" /\ sem'[Session!MEMORY] = sem[Session!MEMORY] - 1 /\ sem'[Session!DATA] = sem[Session!DATA]
        /\ UNCHANGED <<mem, pos, out>>
    BY <1>1, <2>1, Placed, Changed, Numbers DEF Session!rest
  <2>3. SenderTurn(s)'
    BY <1>4, <1>5, <2>1, <2>2 DEF OwnSession, SenderTurn, ReceiverTurn, Idle
  <2>4. Content(s)'
    BY <1>4, <1>5, <2>2, ContentSame DEF OwnSession, Pending
  <2> QED BY <1>2, <1>4, <1>5, <2>3, <2>4, OwnGoesOn
<1>8. CASE Session!TestReceiver(s) /\ mem.rcv_state = "OK"
  <2>1. /\ pc[s] = "test" /\ Moves(s, "read") /\ UNCHANGED <<sem, mem, pos, out>>
    BY <1>8 DEF Session!TestReceiver, Session!Goto, Moves
  <2>2. pc'[s] = "read"
    BY <1>1, <2>1, Placed
  <2>3. SenderTurn(s)'
    BY <1>4, <1>5, <2>1, <2>2 DEF OwnSession, SenderTurn, ReceiverTurn, Idle
  <2>4. Content(s)'
    BY <1>4, <1>5, <2>1, ContentSame DEF OwnSession, Pending
  <2> QED BY <1>2, <1>4, <1>5, <2>3, <2>4, OwnGoesOn
<1>9. CASE Session!Read(s)
  <2>1. pc[s] = "read" /\ Moves(s, "reset") /\ UNCHANGED <<sem, out>>
    BY <1>9 DEF Session!Read, Session!Goto, Moves
  <2>2. pc'[s] = "reset"
    BY <1>1, <2>1, Placed
  <2>3. Idle /\ Idle' /\ sem[Session!DATA] = 0 /\ sem[Session!MEMORY] = 0 /\ mem.snd_state = "NOT_DONE" /\ ~ Pending
    BY <1>4, <1>5, <2>1 DEF OwnSession, SenderTurn, ReceiverTurn, Idle, Pending
  <2>4. PICK n \in 0 .. FileLen : AtEnd(s, n) /\ pos[s] = n
    BY <1>5, <2>3 DEF OwnSession, Content
  <2>5. AtEnd(s, n)'
    BY <2>1, <2>4, OutputSame
  <2>6. pos \in [Senders -> 0 .. FileLen] /\ FileLen \in Nat
    BY DEF SessionTypes, SessionSetting
  <2>7. CASE pos[s] < FileLen
    <3>1. /\ mem' = [mem EXCEPT !.data = [from |-> s, nr |-> pos[s] + 1], !.snd_state = "OK"]
          /\ pos' = [pos EXCEPT ![s] = @ + 1]
      BY <1>9, <2>7 DEF Session!Read
    <3>2. mem'.snd_state = "OK" /\ mem'.data = [from |-> s, nr |-> n + 1] /\ pos'[s] = n + 1
      BY <1>6, <2>4, <2>6, <3>1 DEF Memories
    <3>3. SenderTurn(s)'
      BY <2>1, <2>2, <2>3, <3>2 DEF SenderTurn
    <3>4. Content(s)'
      BY <2>3, <2>5, <3>2 DEF Content, Pending, Idle
    <3> QED BY <1>2, <1>4, <1>5, <2>1, <3>3, <3>4, OwnGoesOn
  <2>8. CASE ~ pos[s] < FileLen
    <3>1. mem' = [mem EXCEPT !.snd_state = "EOF"] /\ pos' = pos
      BY <1>9, <2>8 DEF Session!Read
    <3>2. mem'.snd_state = "EOF" /\ pos'[s] = n /\ pos'[s] = FileLen
      BY <1>6, <2>4, <2>6, <2>8, <3>1 DEF Memories
    <3>3. SenderTurn(s)'
      BY <2>1, <2>2, <2>3, <3>2 DEF SenderTurn
    <3>4. Content(s)'
      BY <2>5, <3>2 DEF Content, Pending
    <3> QED BY <1>2, <1>4, <1>5, <2>1, <3>3, <3>4, OwnGoesOn
  <2> QED BY <2>7, <2>8
<1>10. CASE Session!ResetReceiver(s) \/ Session!TestEof(s)
  <2>1. /\ pc[s] \in {"reset", "testEof"} /\ UNCHANGED <<sem, pos, out>>
        /\ mem'.snd_state = mem.snd_state /\ mem'.data = mem.data
    BY <1>6, <1>10 DEF Session!ResetReceiver, Session!TestEof, Session!Goto, Session!rest, Memories
  <2>2. /\ pc'[s] \in {"testEof", "vLast", "vData"}
        /\ pc'[s] = "vLast" => mem.snd_state = "EOF"
        /\ pc'[s] = "vData" => mem.snd_state # "EOF"
    <3>1. \/ Moves(s, "testEof")
          \/ Moves(s, "vLast") /\ mem.snd_state = "EOF"
          \/ Moves(s, "vData") /\ mem.snd_state # "EOF"
      BY <1>10 DEF Session!ResetReceiver, Session!TestEof, Session!Goto, Moves
    <3> QED BY <1>1, <3>1, Placed
  <2>3. SenderTurn(s)'
    BY <1>4, <1>5, <2>1, <2>2 DEF OwnSession, SenderTurn, ReceiverTurn, Idle
  <2>4. Content(s)'
    BY <1>4, <1>5, <2>1, ContentSame DEF OwnSession, Pending
  <2> QED BY <1>2, <1>4, <1>5, <2>1, <2>3, <2>4, OwnGoesOn
<1>11. CASE Session!VData(s)
  <2>1. /\ sem' = [sem EXCEPT ![Session!DATA] = @ + 1]
        /\ pc[s] = "vData" /\ Moves(s, "memory") /\ UNCHANGED <<adj, mem, Session!rest>>
    BY <1>11, SenderOperations
  <2>2. /\ pc'[s] = "memory" /\ sem'[Session!DATA] = sem[Session!DATA] + 1 /\ sem'[Session!MEMORY] = sem[Session!MEMORY]
        /\ UNCHANGED <<mem, pos, out>>
    <3>1. sem'[Session!DATA] = sem[Session!DATA] + 1 /\ sem'[Session!MEMORY] = sem[Session!MEMORY]
      BY <2>1, Changed, Numbers
    <3> QED BY <1>1, <2>1, <3>1, Placed DEF Session!rest
  <2>3. ReceiverTurn(s)'
    BY <1>4, <1>5, <2>1, <2>2 DEF OwnSession, SenderTurn, ReceiverTurn, Idle
  <2>4. Content(s)'
    BY <1>4, <1>5, <2>2, ContentSame DEF OwnSession, Pending
  <2> QED BY <1>2, <1>4, <1>5, <2>2, <2>3, <2>4, OwnGoesOn
<1> QED BY <1>7, <1>8, <1>9, <1>10, <1>11

\* The last V leaves the session to the receiver: all of the file has arrived.
LEMMA LastMode ==
    ASSUME SessionSetting, SessionTypes, Sides, SessionMode, pc[Session!Receiver] # "done", NEW s \in Senders, Session!VLast(s)
    PROVE  SessionMode'
<1>1. /\ Moves(s, "exit") /\ pc[s] = "vLast" /\ UNCHANGED <<mem, pos, out, hasEof>>
      /\ sem' = [sem EXCEPT ![Session!DATA] = @ + 1]
  BY DEF Session!VLast, Session!Goto, Moves, Session!rest
<1>2. s \in Session!Processes
  BY DEF Session!Processes
<1>3. /\ pc'[s] = "exit" /\ \A t \in Senders : t # s => pc'[t] = pc[t]
      /\ pc'[Session!Receiver] = pc[Session!Receiver]
  BY <1>1, <1>2, Placed
<1>4. sem'[Session!DATA] = sem[Session!DATA] + 1 /\ sem'[Session!MEMORY] = sem[Session!MEMORY] /\ sem'[Session!SESSION] = sem[Session!SESSION]
  BY <1>1, Changed, Numbers
<1>5. OwnSession(s)
  BY <1>1, Owner DEF Inside, InSessionAt
<1>6. Idle /\ sem[Session!DATA] = 0 /\ sem[Session!MEMORY] = 0 /\ mem.snd_state = "EOF" /\ pos[s] = FileLen
  BY <1>1, <1>5 DEF OwnSession, SenderTurn, ReceiverTurn
<1>7. AtEnd(s, FileLen)
  BY <1>5, <1>6 DEF OwnSession, Content, Pending
<1>8. Complete(s)
  <2>1. out \in Seq(Records) /\ Len(out) \in Nat /\ FileLen \in Nat
    BY DEF SessionTypes, SessionSetting
  <2>2. CASE FileLen = 0
    <3>1. ASSUME NEW i \in 1 .. Len(out)
          PROVE  out[i].from # s
      <4>1. ~ (Len(out) + 1 - FileLen <= i)
        BY <2>1, <2>2
      <4> QED BY <1>7, <4>1 DEF AtEnd, Piece
    <3> QED BY <3>1 DEF Complete
  <2>3. CASE FileLen > 0
    <3>1. Len(out) + 1 - FileLen \in 1 .. Len(out) /\ Len(out) + 1 - FileLen + FileLen <= Len(out) + 1
      BY <1>7, <2>1, <2>3 DEF AtEnd
    <3>2. Piece(s, Len(out) + 1 - FileLen, FileLen)
      BY <1>7 DEF AtEnd
    <3>3. \E a \in 1 .. Len(out) : Piece(s, a, FileLen) /\ a + FileLen <= Len(out) + 1
      BY <3>1, <3>2
    <3> QED BY <3>3 DEF Complete
  <2> QED BY <2>1, <2>2, <2>3
<1>9. \A t \in Senders : Complete(t)' /\ ~ Inside(t)'
  <2>1. \A t \in Senders : Complete(t)'
    BY <1>1, <1>5, <1>8, OutputSame DEF OwnSession
  <2>2. \A t \in Senders : ~ Inside(t)'
    BY <1>3, <1>5 DEF OwnSession, Inside, InSessionAt
  <2> QED BY <2>1, <2>2
<1>10. ClosingSession'
  BY <1>1, <1>3, <1>4, <1>5, <1>6, <1>9 DEF ClosingSession, NobodyInside, Idle, OwnSession
<1> QED BY <1>10 DEF SessionMode

\* A sender fails or is killed in its session.
LEMMA FailMode ==
    ASSUME SessionSetting, SessionTypes, Sides, SessionMode, pc[Session!Receiver] # "done", NEW s \in Senders,
           Session!ReadFails(s) \/ (Session!TestReceiver(s) /\ mem.rcv_state # "OK") \/ (Session!KillSender(s) /\ Inside(s)),
           strays' = {}
    PROVE  SessionMode'
<1>1. mem \in Memories
  BY DEF SessionTypes
<1>2. pc[s] \in InSessionAt /\ Inside(s)
  BY DEF Session!ReadFails, Session!TestReceiver, Session!KillSender, Inside, InSessionAt
<1>3. OwnSession(s)
  BY <1>2, Owner
<1>4. "failed" \in Results /\ "killed" \in Results
  BY DEF Results
<1>5. CASE Session!ReadFails(s)
  <2>1. /\ pc[s] = "read" /\ Session!End(s, "failed") /\ UNCHANGED <<pos, out, hasEof>>
        /\ mem' = [mem EXCEPT !.snd_state = "IOERROR"]
    BY <1>5 DEF Session!ReadFails
  <2>2. mem'.snd_state = "IOERROR" /\ mem'.data = mem.data
    BY <1>1, <2>1 DEF Memories
  <2>3. Idle /\ mem.snd_state = "NOT_DONE"
    BY <1>3, <2>1 DEF OwnSession, SenderTurn, ReceiverTurn
  <2> QED BY <1>2, <1>4, <2>1, <2>2, <2>3, OwnEnds
<1>6. CASE Session!TestReceiver(s) /\ mem.rcv_state # "OK"
  <2>1. pc[s] = "test" /\ Session!End(s, "failed") /\ UNCHANGED <<mem, pos, out, hasEof>>
    BY <1>6 DEF Session!TestReceiver
  <2>2. mem.snd_state = "NOT_DONE"
    BY <1>3, <2>1 DEF OwnSession, SenderTurn, ReceiverTurn
  <2>3. mem'.data = mem.data /\ mem'.snd_state = mem.snd_state /\ mem'.snd_state # "EOF"
    BY <2>1, <2>2
  <2> QED BY <1>2, <1>4, <2>1, <2>3, OwnEnds
<1>7. CASE Session!KillSender(s) /\ Inside(s)
  <2>1. /\ Session!End(s, "killed") /\ UNCHANGED <<mem, pos, out, hasEof>>
        /\ ~ (pc[s] \in {"reset", "testEof", "vLast"} /\ mem.snd_state = "EOF")
    BY <1>7 DEF Session!KillSender, Session!Stray
  <2>2. mem.snd_state # "EOF"
    BY <1>3, <2>1 DEF OwnSession, SenderTurn, ReceiverTurn
  <2>3. mem'.data = mem.data /\ mem'.snd_state = mem.snd_state /\ mem'.snd_state # "EOF"
    BY <2>1, <2>2
  <2> QED BY <1>2, <1>4, <2>1, <2>3, OwnEnds
<1> QED BY <1>5, <1>6, <1>7

\* What the receiver does between two rounds.
LEMMA IdleMode ==
    ASSUME SessionSetting, SessionTypes, SessionMode, pc'[Session!Receiver] # "done", Session!Loop \/ Session!ExitSignal
    PROVE  SessionMode'
<1>1. Session!Receiver \in Session!Processes
  BY DEF Session!Processes
<1>2. /\ UNCHANGED <<sem, mem, pos, out>>
      /\ \/ Moves(Session!Receiver, pc[Session!Receiver]) /\ hasEof' = hasEof
         \/ \E to \in {"loop", "pData"} : Idle /\ Moves(Session!Receiver, to)
  <2>1. CASE Session!Loop
    <3>1. ~ exiting
      BY <1>1, <2>1 DEF Session!Loop, Session!End, SessionTypes
    <3> QED BY <2>1, <3>1 DEF Session!Loop, Session!Goto, Moves, Idle
  <2>2. CASE Session!ExitSignal
    BY <2>2 DEF Session!ExitSignal, Moves, Idle
  <2> QED BY <2>1, <2>2
<1>3. /\ \A t \in Senders : pc'[t] = pc[t]
      /\ \/ pc'[Session!Receiver] = pc[Session!Receiver] /\ hasEof' = hasEof
         \/ Idle /\ Idle'
  <2>1. CASE Moves(Session!Receiver, pc[Session!Receiver]) /\ hasEof' = hasEof
    BY <1>1, <2>1, Placed
  <2>2. ASSUME NEW to \in {"loop", "pData"}, Idle, Moves(Session!Receiver, to)
        PROVE  (\A t \in Senders : pc'[t] = pc[t]) /\ Idle /\ Idle'
    <3>1. pc'[Session!Receiver] = to /\ \A t \in Senders : pc'[t] = pc[t]
      BY <1>1, <2>2, Placed
    <3> QED BY <2>2, <3>1 DEF Idle
  <2> QED BY <1>2, <2>1, <2>2
<1>4. /\ \A i \in Session!Semaphores : sem'[i] = sem[i]
      /\ mem'.snd_state = mem.snd_state /\ mem'.data = mem.data /\ UNCHANGED <<pos, out>>
  BY <1>2
<1> QED BY <1>3, <1>4, ModeKept

\* The receiver in a session, when it moves from one place to the next and the
\* memory and the semaphores are not those of another one.
LEMMA ReceiverGoesOn ==
    ASSUME SessionSetting, SessionTypes, SessionMode, NEW to \in ReceiverAt, Moves(Session!Receiver, to),
           UNCHANGED <<pos, out>>, sem'[Session!SESSION] = sem[Session!SESSION], mem'.data = mem.data,
           Pending <=> Pending',
           FreeSession => FreeSession', ClosingSession => ClosingSession',
           \A s \in Senders : OwnSession(s) => SenderTurn(s)' \/ ReceiverTurn(s)',
           \A s \in Senders : LostSession(s) =>
              /\ mem'.snd_state # "EOF" /\ to # "vSession"
              /\ to \in {"ack", "reset"} => ~ hasEof'
              /\ to = "write" => mem'.snd_state = "OK"
    PROVE  SessionMode'
<1>1. /\ pc'[Session!Receiver] = to
      /\ \A t \in Senders : pc'[t] = pc[t] /\ (Inside(t) <=> Inside(t)') /\ (Complete(t) <=> Complete(t)')
  <2>1. Session!Receiver \in Session!Processes
    BY DEF Session!Processes
  <2> QED BY <2>1, Placed, OutputSame DEF Inside
<1>2. \A s \in Senders : Content(s) => Content(s)'
  BY ContentSame
<1>3. ASSUME NEW s \in Senders, OwnSession(s)
      PROVE  SessionMode'
  <2>1. Inside(s)' /\ (\A t \in Senders : t # s => pc'[t] = pc[t])
    BY <1>1, <1>3 DEF OwnSession
  <2>2. Content(s)'
    BY <1>2, <1>3 DEF OwnSession
  <2>3. SenderTurn(s)' \/ ReceiverTurn(s)'
    BY <1>3
  <2> QED BY <1>3, <2>1, <2>2, <2>3, OwnGoesOn
<1>4. ASSUME NEW s \in Senders, LostSession(s)
      PROVE  LostSession(s)'
  BY <1>1, <1>2, <1>4 DEF LostSession, NobodyInside
<1> QED BY <1>3, <1>4 DEF SessionMode

\* The receiver in its round.
LEMMA RoundMode ==
    ASSUME SessionSetting, SessionTypes, Sides, SessionMode, pc'[Session!Receiver] # "done",
           Session!PData \/ Session!TestSender \/ Session!Acknowledge \/ Session!ResetSender \/ Session!VMemory
    PROVE  SessionMode'
<1>1. Session!Receiver \in Session!Processes /\ pc \in [Session!Processes -> Labels]
  BY DEF Session!Processes, SessionTypes
<1>2. mem \in Memories
  BY DEF SessionTypes
<1>3. sem[Session!DATA] \in Nat /\ sem[Session!MEMORY] \in Nat
  BY Numbers DEF SessionTypes
<1>4. CASE Session!PData
  <2>1. /\ sem[Session!DATA] > 0 /\ sem' = [sem EXCEPT ![Session!DATA] = @ - 1]
        /\ pc[Session!Receiver] = "pData" /\ Moves(Session!Receiver, "testSender") /\ UNCHANGED <<adj, mem, Session!rest>>
    BY <1>4, ReceiverOperations
  <2>2. UNCHANGED <<mem, pos, out, hasEof>>
    BY <2>1 DEF Session!rest
  <2>3. sem'[Session!SESSION] = sem[Session!SESSION] /\ sem'[Session!MEMORY] = sem[Session!MEMORY] /\ sem'[Session!DATA] = sem[Session!DATA] - 1
    BY <2>1, Changed, Numbers
  <2>4. pc'[Session!Receiver] = "testSender" /\ \A t \in Senders : pc'[t] = pc[t]
    BY <1>1, <2>1, Placed
  <2>5. ~ FreeSession
    BY <2>1 DEF FreeSession
  <2>6. ClosingSession => ClosingSession'
    <3> SUFFICES ASSUME ClosingSession PROVE ClosingSession'
      OBVIOUS
    <3>1. \A t \in Senders : Complete(t)' /\ ~ Inside(t)'
      BY <2>2, <2>4, OutputSame DEF ClosingSession, NobodyInside, Inside
    <3> QED BY <2>1, <2>2, <2>3, <2>4, <3>1 DEF ClosingSession, NobodyInside
  <2>7. ASSUME NEW s \in Senders, OwnSession(s) PROVE ReceiverTurn(s)'
    BY <2>1, <2>2, <2>3, <2>4, <2>7 DEF OwnSession, SenderTurn, ReceiverTurn, Idle
  <2>8. Pending <=> Pending'
    BY <2>1, <2>2, <2>4 DEF Pending
  <2>9. "testSender" \in ReceiverAt
    BY DEF ReceiverAt
  <2>10. \A s \in Senders : LostSession(s) => mem'.snd_state # "EOF"
    BY <2>2 DEF LostSession
  <2> QED BY <2>1, <2>2, <2>3, <2>5, <2>6, <2>7, <2>8, <2>9, <2>10, ReceiverGoesOn
<1>5. CASE Session!TestSender
  <2>1. pc[Session!Receiver] = "testSender" /\ ~ hasEof
    BY <1>5 DEF Session!TestSender, Sides
  <2>2. mem.snd_state \in {"OK", "EOF"}
    BY <1>1, <1>5 DEF Session!TestSender, Session!End
  <2>3. UNCHANGED <<sem, mem, pos, out>>
    BY <1>5, <2>2 DEF Session!TestSender
  <2>4. ~ FreeSession
    BY <2>1 DEF FreeSession, Idle
  <2>5. CASE mem.snd_state = "OK"
    <3>1. Moves(Session!Receiver, "write") /\ hasEof' = hasEof
      BY <1>5, <2>5 DEF Session!TestSender, Session!Goto, Moves
    <3>2. pc'[Session!Receiver] = "write" /\ \A t \in Senders : pc'[t] = pc[t]
      BY <1>1, <3>1, Placed
    <3>3. ~ ClosingSession
      BY <2>1, <2>5 DEF ClosingSession, Idle
    <3>4. ASSUME NEW s \in Senders, OwnSession(s) PROVE ReceiverTurn(s)'
      BY <2>1, <2>3, <2>5, <3>2, <3>4 DEF OwnSession, SenderTurn, ReceiverTurn, Idle
    <3>5. Pending <=> Pending'
      BY <2>1, <2>3, <3>2 DEF Pending
    <3>6. "write" \in ReceiverAt
      BY DEF ReceiverAt
    <3>7. mem'.snd_state # "EOF" /\ mem'.snd_state = "OK"
      BY <2>3, <2>5
    <3> QED BY <2>3, <2>4, <3>1, <3>3, <3>4, <3>5, <3>6, <3>7, ReceiverGoesOn
  <2>6. CASE mem.snd_state = "EOF"
    <3>1. Moves(Session!Receiver, "ack") /\ hasEof' = TRUE
      BY <1>5, <2>6 DEF Session!TestSender, Session!Goto, Moves
    <3>2. pc'[Session!Receiver] = "ack" /\ \A t \in Senders : pc'[t] = pc[t]
      BY <1>1, <3>1, Placed
    <3>3. ClosingSession
      BY <2>1, <2>4, <2>6 DEF SessionMode, OwnSession, SenderTurn, ReceiverTurn, Idle, LostSession
    <3>4. \A t \in Senders : Complete(t)' /\ ~ Inside(t)'
      BY <2>3, <3>2, <3>3, OutputSame DEF ClosingSession, NobodyInside, Inside
    <3>5. ClosingSession'
      <4>1. sem[Session!SESSION] = 0 /\ sem[Session!MEMORY] = 0 /\ sem[Session!DATA] = 0
        BY <2>1, <3>3 DEF ClosingSession, Idle
      <4> QED BY <2>3, <3>1, <3>2, <3>4, <4>1 DEF ClosingSession, NobodyInside
    <3> QED BY <3>5 DEF SessionMode
  <2> QED BY <2>2, <2>5, <2>6
<1>6. CASE Session!Acknowledge
  <2>1. /\ pc[Session!Receiver] = "ack" /\ Moves(Session!Receiver, "reset") /\ UNCHANGED <<sem, pos, out, hasEof>>
        /\ mem' = [mem EXCEPT !.rcv_state = "OK"]
    BY <1>6 DEF Session!Acknowledge, Session!Goto, Moves, Session!rest
  <2>2. mem'.snd_state = mem.snd_state /\ mem'.data = mem.data
    BY <1>2, <2>1 DEF Memories
  <2>3. pc'[Session!Receiver] = "reset" /\ \A t \in Senders : pc'[t] = pc[t]
    BY <1>1, <2>1, Placed
  <2>4. ~ FreeSession
    BY <2>1 DEF FreeSession, Idle
  <2>5. ClosingSession => ClosingSession'
    <3> SUFFICES ASSUME ClosingSession PROVE ClosingSession'
      OBVIOUS
    <3>1. \A t \in Senders : Complete(t)' /\ ~ Inside(t)'
      BY <2>1, <2>3, OutputSame DEF ClosingSession, NobodyInside, Inside
    <3> QED BY <2>1, <2>2, <2>3, <3>1 DEF ClosingSession, NobodyInside, Idle
  <2>6. ASSUME NEW s \in Senders, OwnSession(s) PROVE ReceiverTurn(s)'
    BY <2>1, <2>2, <2>3, <2>6 DEF OwnSession, SenderTurn, ReceiverTurn, Idle
  <2>7. Pending <=> Pending'
    BY <2>1, <2>2, <2>3 DEF Pending
  <2>8. "reset" \in ReceiverAt
    BY DEF ReceiverAt
  <2>9. \A s \in Senders : LostSession(s) => mem'.snd_state # "EOF" /\ ~ hasEof'
    BY <2>1, <2>2 DEF LostSession
  <2> QED BY <2>1, <2>2, <2>4, <2>5, <2>6, <2>7, <2>8, <2>9, ReceiverGoesOn
<1>7. CASE Session!ResetSender
  <2>1. /\ pc[Session!Receiver] = "reset" /\ UNCHANGED <<sem, pos, out, hasEof>>
        /\ mem' = [mem EXCEPT !.snd_state = "NOT_DONE"]
        /\ hasEof => Moves(Session!Receiver, "vSession")
        /\ ~ hasEof => Moves(Session!Receiver, "vMemory")
    BY <1>7 DEF Session!ResetSender, Session!Goto, Moves, Session!rest
  <2>2. mem'.snd_state = "NOT_DONE" /\ mem'.data = mem.data
    BY <1>2, <2>1 DEF Memories
  <2>3. ~ FreeSession
    BY <2>1 DEF FreeSession, Idle
  <2>4. ~ Pending /\ ~ Pending'
    BY <2>1, <2>2 DEF Pending
  <2>5. CASE hasEof
    <3>1. pc'[Session!Receiver] = "vSession" /\ \A t \in Senders : pc'[t] = pc[t]
      BY <1>1, <2>1, <2>5, Placed
    <3>2. ClosingSession
      BY <2>1, <2>3, <2>5 DEF SessionMode, OwnSession, SenderTurn, ReceiverTurn, Idle, LostSession
    <3>3. \A t \in Senders : Complete(t)' /\ ~ Inside(t)'
      BY <2>1, <3>1, <3>2, OutputSame DEF ClosingSession, NobodyInside, Inside
    <3>4. sem[Session!SESSION] = 0 /\ sem[Session!MEMORY] = 0 /\ sem[Session!DATA] = 0
      BY <2>1, <3>2 DEF ClosingSession, Idle
    <3>5. ClosingSession'
      BY <2>1, <2>2, <3>1, <3>3, <3>4 DEF ClosingSession, NobodyInside
    <3> QED BY <3>5 DEF SessionMode
  <2>6. CASE ~ hasEof
    <3>1. Moves(Session!Receiver, "vMemory") /\ pc'[Session!Receiver] = "vMemory" /\ \A t \in Senders : pc'[t] = pc[t]
      BY <1>1, <2>1, <2>6, Placed
    <3>2. ~ ClosingSession
      BY <2>1, <2>6 DEF ClosingSession, Idle
    <3>3. ASSUME NEW s \in Senders, OwnSession(s) PROVE ReceiverTurn(s)'
      BY <2>1, <2>2, <3>1, <3>3 DEF OwnSession, SenderTurn, ReceiverTurn, Idle
    <3>4. "vMemory" \in ReceiverAt
      BY DEF ReceiverAt
    <3>5. mem'.snd_state # "EOF"
      BY <2>2
    <3> QED BY <2>1, <2>2, <2>3, <2>4, <3>1, <3>2, <3>3, <3>4, <3>5, ReceiverGoesOn
  <2> QED BY <2>5, <2>6
<1>8. CASE Session!VMemory
  <2>1. /\ sem' = [sem EXCEPT ![Session!MEMORY] = @ + 1]
        /\ pc[Session!Receiver] = "vMemory" /\ Moves(Session!Receiver, "loop") /\ UNCHANGED <<adj, mem, Session!rest>>
    BY <1>8, ReceiverOperations
  <2>2. UNCHANGED <<mem, pos, out, hasEof>>
    BY <2>1 DEF Session!rest
  <2>3. sem'[Session!SESSION] = sem[Session!SESSION] /\ sem'[Session!MEMORY] = sem[Session!MEMORY] + 1 /\ sem'[Session!DATA] = sem[Session!DATA]
    BY <2>1, Changed, Numbers
  <2>4. pc'[Session!Receiver] = "loop" /\ \A t \in Senders : pc'[t] = pc[t]
    BY <1>1, <2>1, Placed
  <2>5. ~ ClosingSession
    BY <2>1 DEF ClosingSession, Idle
  <2>6. FreeSession => FreeSession'
    <3> SUFFICES ASSUME FreeSession PROVE FreeSession'
      OBVIOUS
    <3>1. \A t \in Senders : Complete(t)' /\ ~ Inside(t)'
      BY <2>2, <2>4, OutputSame DEF FreeSession, NobodyInside, Inside
    <3>2. Idle' /\ ~ Idle
      BY <2>1, <2>4 DEF Idle
    <3> QED BY <2>2, <2>3, <3>1, <3>2 DEF FreeSession, NobodyInside
  <2>7. ASSUME NEW s \in Senders, OwnSession(s) PROVE SenderTurn(s)'
    BY <2>1, <2>2, <2>3, <2>4, <2>7 DEF OwnSession, SenderTurn, ReceiverTurn, Idle
  <2>8. Pending <=> Pending'
    BY <2>1, <2>2, <2>4 DEF Pending
  <2>9. "loop" \in ReceiverAt
    BY DEF ReceiverAt
  <2>10. \A s \in Senders : LostSession(s) => mem'.snd_state # "EOF"
    BY <2>2 DEF LostSession
  <2> QED BY <2>1, <2>2, <2>3, <2>5, <2>6, <2>7, <2>8, <2>9, <2>10, ReceiverGoesOn
<1> QED BY <1>4, <1>5, <1>6, <1>7, <1>8

\* The receiver gives the session to the next sender.
LEMMA FreeMode ==
    ASSUME SessionSetting, SessionTypes, SessionMode, Session!VSession
    PROVE  SessionMode'
<1>1. /\ sem' = [sem EXCEPT ![Session!SESSION] = @ + 1]
      /\ pc[Session!Receiver] = "vSession" /\ Moves(Session!Receiver, "vMemory") /\ UNCHANGED <<adj, mem, Session!rest>>
  BY ReceiverOperations
<1>2. UNCHANGED <<mem, pos, out, hasEof>>
  BY <1>1 DEF Session!rest
<1>3. sem'[Session!SESSION] = sem[Session!SESSION] + 1 /\ sem'[Session!MEMORY] = sem[Session!MEMORY] /\ sem'[Session!DATA] = sem[Session!DATA]
  BY <1>1, Changed, Numbers
<1>4. pc'[Session!Receiver] = "vMemory" /\ \A t \in Senders : pc'[t] = pc[t]
  <2>1. Session!Receiver \in Session!Processes
    BY DEF Session!Processes
  <2> QED BY <1>1, <2>1, Placed
<1>5. ClosingSession
  BY <1>1 DEF SessionMode, FreeSession, OwnSession, SenderTurn, ReceiverTurn, Idle, LostSession
<1>6. \A t \in Senders : Complete(t)' /\ ~ Inside(t)'
  BY <1>2, <1>4, <1>5, OutputSame DEF ClosingSession, NobodyInside, Inside
<1>7. sem[Session!SESSION] = 0 /\ sem[Session!MEMORY] = 0 /\ sem[Session!DATA] = 0 /\ mem.snd_state = "NOT_DONE"
  BY <1>1, <1>5 DEF ClosingSession, Idle
<1>8. FreeSession'
  BY <1>2, <1>3, <1>4, <1>6, <1>7 DEF FreeSession, NobodyInside
<1> QED BY <1>8 DEF SessionMode

\* A write: the chunk in the memory is the next one of the file at the end of
\* the output, whose sender is in its session or died there.
LEMMA WriteMode ==
    ASSUME SessionSetting, SessionTypes, Sides, SessionMode, \A t \in Senders : Follows(t), Session!Write
    PROVE  /\ SessionMode' /\ \A t \in Senders : Follows(t)'
           /\ \A t \in Senders : pc[t] \in BeforeSession /\ (\A i \in 1 .. Len(out) : out[i].from # t)
                 => \A i \in 1 .. Len(out') : out'[i].from # t
<1>1. /\ pc[Session!Receiver] = "write" /\ Moves(Session!Receiver, "ack") /\ out' = Append(out, mem.data)
      /\ UNCHANGED <<sem, mem, pos, hasEof>>
  BY DEF Session!Write, Session!Goto, Moves
<1>2. pc'[Session!Receiver] = "ack" /\ \A t \in Senders : pc'[t] = pc[t]
  <2>1. Session!Receiver \in Session!Processes
    BY DEF Session!Processes
  <2> QED BY <1>1, <2>1, Placed
<1>3. ~ hasEof /\ ~ Pending' /\ FileLen \in Nat
  BY <1>1, <1>2 DEF Sides, Pending, SessionSetting
<1>4. PICK s \in Senders : OwnSession(s) \/ LostSession(s)
  BY <1>1 DEF SessionMode, FreeSession, ClosingSession, Idle
<1>5. mem.snd_state = "OK" /\ Pending /\ Content(s) /\ pc[s] \notin BeforeSession
  BY <1>1, <1>4 DEF OwnSession, LostSession, SenderTurn, ReceiverTurn, Idle, Pending, BeforeSession
<1>6. PICK n \in 0 .. FileLen : AtEnd(s, n) /\ pos[s] = n + 1 /\ mem.data = [from |-> s, nr |-> n + 1]
  BY <1>5 DEF Content
<1>7. n \in Nat /\ n + 1 \in 1 .. FileLen
  <2>1. pos[s] \in 0 .. FileLen
    BY DEF SessionTypes
  <2> QED BY <1>3, <1>6, <2>1
<1>8. /\ AtEnd(s, n + 1)'
      /\ \A t \in Senders : t # s /\ Complete(t) => Complete(t)'
      /\ \A t \in Senders : t # s /\ (\A i \in 1 .. Len(out) : out[i].from # t)
            => \A i \in 1 .. Len(out') : out'[i].from # t
  BY <1>1, <1>3, <1>6, <1>7, OutputGrows
<1>9. \A t \in Senders : t # s => Complete(t)'
  BY <1>4, <1>8 DEF OwnSession, LostSession
<1>10. Content(s)'
  <2>1. n + 1 \in 0 .. FileLen /\ pos'[s] = n + 1
    BY <1>1, <1>6, <1>7
  <2> QED BY <1>3, <1>8, <2>1 DEF Content
<1>11. SessionMode'
  <2>1. CASE OwnSession(s)
    <3>1. \A t \in Senders : t # s => ~ Inside(t)'
      BY <1>2, <2>1 DEF OwnSession, Inside
    <3>2. Inside(s)' /\ sem'[Session!SESSION] = 0
      BY <1>1, <1>2, <2>1 DEF OwnSession, Inside
    <3>3. ReceiverTurn(s)'
      BY <1>1, <1>2, <1>3, <2>1 DEF OwnSession, SenderTurn, ReceiverTurn, Idle
    <3>4. OwnSession(s)'
      BY <1>9, <1>10, <3>1, <3>2, <3>3 DEF OwnSession
    <3> QED BY <3>4 DEF SessionMode
  <2>2. CASE LostSession(s)
    <3>1. NobodyInside'
      BY <1>2, <2>2 DEF LostSession, NobodyInside, Inside
    <3>2. LostSession(s)'
      BY <1>1, <1>2, <1>3, <1>9, <1>10, <2>2, <3>1 DEF LostSession
    <3> QED BY <3>2 DEF SessionMode
  <2> QED BY <1>4, <2>1, <2>2
<1>12. Follows(s)'
  <2>1. out' \in Seq(Records) \/ Len(out') \in Nat
    BY <1>1, MemoryFields, AppendProperties DEF SessionTypes
  <2>2. Len(out') \in Nat /\ n + 1 <= Len(out')
    BY <1>1, <1>8, AppendProperties, MemoryFields DEF AtEnd, SessionTypes
  <2> DEFINE a == Len(out') + 1 - (n + 1)
  <2>3. a \in 1 .. Len(out') /\ n + 1 \in 1 .. Len(out') /\ a + (n + 1) = Len(out') + 1 /\ a + (n + 1) <= Len(out') + 1
    BY <1>7, <2>2
  <2>4. \A i \in 1 .. Len(out') : IF a <= i /\ i < a + (n + 1)
           THEN out'[i] = [from |-> s, nr |-> i - a + 1] ELSE out'[i].from # s
    BY <1>8 DEF AtEnd, Piece
  <2> HIDE DEF a
  <2> QED BY <2>3, <2>4 DEF Follows, Piece
<1>13. ASSUME NEW t \in Senders, t # s
       PROVE  Follows(t)'
  <2>1. Complete(t)'
    BY <1>9, <1>13
  <2>2. CASE \A i \in 1 .. Len(out') : out'[i].from # t
    BY <2>2 DEF Follows
  <2>3. ASSUME NEW a \in 1 .. Len(out'), Piece(t, a, FileLen)', a + FileLen <= Len(out') + 1
        PROVE  Follows(t)'
    <3>1. Len(out') \in Nat /\ FileLen \in Nat
      BY <1>1, <1>3, AppendProperties, MemoryFields DEF SessionTypes
    <3>2. FileLen \in 1 .. Len(out')
      BY <1>7, <2>3, <3>1
    <3> QED BY <2>3, <3>2 DEF Follows
  <2> QED BY <2>1, <2>2, <2>3 DEF Complete
<1> QED BY <1>5, <1>8, <1>11, <1>12, <1>13

-----------------------------------------------------------------------------
\* The invariant holds at the start.
LEMMA SessionStart == ASSUME SessionSetting, Session!Init PROVE SessionInv
<1>1. /\ Session!MEMORY \in Session!Semaphores /\ Session!DATA \in Session!Semaphores /\ Session!SESSION \in Session!Semaphores
      /\ Session!MEMORY # Session!DATA /\ Session!DATA # Session!SESSION /\ Session!MEMORY # Session!SESSION
      /\ Session!Receiver \in Session!Processes /\ \A s \in Senders : s \in Session!Processes /\ s # Session!Receiver
  BY Numbers DEF Session!Processes, SessionSetting
<1>2. /\ Session!NoAdj \in [Session!Semaphores -> Int] /\ \A i \in Session!Semaphores : Session!NoAdj[i] = 0
  BY DEF Session!NoAdj
<1>3. /\ adj \in [Session!Processes -> [Session!Semaphores -> Int]]
      /\ \A s \in Senders : adj[s] = Session!NoAdj
  BY <1>1, <1>2 DEF Session!Init
<1>4. /\ sem \in [Session!Semaphores -> Nat] /\ sem[Session!DATA] = 0 /\ sem[Session!MEMORY] = 1 /\ sem[Session!SESSION] = 1
  BY <1>1 DEF Session!Init
<1>5. /\ pc \in [Session!Processes -> Labels] /\ pc[Session!Receiver] = "loop" /\ \A s \in Senders : pc[s] = "start"
      /\ status \in [Session!Processes -> Results] /\ status[Session!Receiver] = "running"
  BY <1>1 DEF Session!Init, Labels, SenderAt, ReceiverAt, Results
<1>6. mem \in Memories /\ mem.snd_state = "NOT_DONE"
  BY DEF Session!Init, Memories, Records, Signs, Session!NoChunk, SessionSetting
<1>7. pos \in [Senders -> 0 .. FileLen] /\ \A s \in Senders : pos[s] = 0
  BY DEF Session!Init, SessionSetting
<1>8. out \in Seq(Records) /\ Len(out) = 0 /\ ~ removed /\ ~ hasEof
  BY DEF Session!Init
<1>9. removed \in BOOLEAN /\ hasEof \in BOOLEAN
  BY Zenon DEF Session!Init
<1>10. SessionTypes
  BY <1>3, <1>4, <1>5, <1>6, <1>7, <1>8, <1>9 DEF SessionTypes
<1>11. Sides
  BY <1>1, <1>2, <1>3, <1>5, <1>8 DEF Sides, SenderAt, ReceiverAt, InSessionAt
<1>12. \A s \in Senders : Follows(s) /\ Complete(s) /\ \A i \in 1 .. Len(out) : out[i].from # s
  BY <1>8 DEF Follows, Complete
<1>13. FreeSession
  BY <1>4, <1>5, <1>6, <1>12 DEF FreeSession, NobodyInside, Inside, InSessionAt, Idle
<1> QED BY <1>7, <1>10, <1>11, <1>12, <1>13 DEF SessionInv, SessionMode

\* What a sender changes of others, and of itself before its session.
LEMMA SenderFrame ==
    ASSUME SessionSetting, SessionTypes, NEW s \in Senders, Session!SenderStep(s) \/ Session!ReadFails(s) \/ Session!KillSender(s)
    PROVE  /\ out' = out /\ pc'[Session!Receiver] = pc[Session!Receiver]
           /\ \A t \in Senders : pc'[t] \in BeforeSession => pc[t] \in BeforeSession /\ pos'[t] = pos[t]
<1>1. s \in Session!Processes /\ s # Session!Receiver /\ Session!Receiver \in Session!Processes /\ \A t \in Senders : t \in Session!Processes
  BY DEF Session!Processes, SessionSetting
<1>2. pc \in [Session!Processes -> Labels] /\ pos \in [Senders -> 0 .. FileLen]
  BY DEF SessionTypes
<1>3. out' = out
  BY DEF Session!SenderStep, Session!Register, Session!PSession, Session!PMemory, Session!TestReceiver,
         Session!Read, Session!ResetReceiver, Session!TestEof, Session!VData, Session!VLast,
         Session!Return, Session!NoSemaphores, Session!ReadFails, Session!KillSender, Session!rest
<1>4. \/ Moves(s, "session") /\ pc[s] = "start" /\ pos' = pos
      \/ \E to \in SenderAt \ BeforeSession : Moves(s, to) /\ pos' = pos
      \/ Moves(s, "reset") /\ (pos' = pos \/ pos' = [pos EXCEPT ![s] = @ + 1])
  <2>1. CASE Session!Register(s)
    BY <2>1 DEF Session!Register, Session!Goto, Moves, Session!rest
  <2>2. CASE Session!PSession(s) \/ Session!PMemory(s) \/ Session!VData(s)
    BY <2>2, SenderOperations DEF Session!rest, SenderAt, InSessionAt, BeforeSession
  <2>3. CASE Session!ResetReceiver(s) \/ Session!TestEof(s) \/ Session!VLast(s)
    BY <2>3 DEF Session!ResetReceiver, Session!TestEof, Session!VLast, Session!Goto, Moves,
                Session!rest, SenderAt, InSessionAt, BeforeSession
  <2>4. CASE Session!TestReceiver(s) \/ Session!Return(s) \/ Session!NoSemaphores(s) \/ Session!ReadFails(s) \/ Session!KillSender(s)
    BY <2>4 DEF Session!TestReceiver, Session!Return, Session!NoSemaphores, Session!ReadFails,
                Session!KillSender, Session!End, Session!Goto, Moves, SenderAt,
                InSessionAt, BeforeSession
  <2>5. CASE Session!Read(s)
    BY <2>5 DEF Session!Read, Session!Goto, Moves
  <2> QED BY <2>1, <2>2, <2>3, <2>4, <2>5 DEF Session!SenderStep
<1> QED BY <1>1, <1>2, <1>3, <1>4 DEF Moves, BeforeSession

\* No death is forgotten.
LEMMA StraysStay == ASSUME [Session!Next]_(Session!vars), strays' = {} PROVE strays = {}
<1>1. ASSUME NEW s \in Senders, Session!SenderStep(s) PROVE strays' = strays
  BY <1>1 DEF Session!SenderStep, Session!Register, Session!PSession, Session!PMemory, Session!TestReceiver,
              Session!Read, Session!ResetReceiver, Session!TestEof, Session!VData, Session!VLast,
              Session!Return, Session!NoSemaphores, Session!rest
<1>2. ASSUME NEW s \in Senders, Session!KillSender(s) PROVE strays = {}
  BY <1>2 DEF Session!KillSender
<1>3. CASE Session!ReceiverStep
  BY <1>3 DEF Session!ReceiverStep, Session!Loop, Session!PData, Session!TestSender, Session!Write,
              Session!Acknowledge, Session!ResetSender, Session!VSession, Session!SessionOverflow,
              Session!VMemory, Session!rest
<1>4. CASE \/ Session!WriteFails \/ Session!ExitSignal \/ Session!ReceiverDeath
           \/ \E s \in Senders : Session!ReadFails(s)
  BY <1>4 DEF Session!WriteFails, Session!ExitSignal, Session!ReceiverDeath, Session!ReadFails
<1>5. CASE UNCHANGED Session!vars
  BY <1>5 DEF Session!vars
<1> QED BY <1>1, <1>2, <1>3, <1>4, <1>5 DEF Session!Next

\* The invariant is inductive, as long as no sender is killed that leaves its
\* adjustments to another session.
LEMMA SessionKeeps ==
    ASSUME SessionSetting, SessionInv, [Session!Next]_(Session!vars), strays' = {}
    PROVE  SessionInv'
<1>1. SessionTypes /\ Sides
  BY DEF SessionInv
<1>2. ASSUME NEW s \in Senders, Session!SenderStep(s) \/ Session!ReadFails(s) \/ Session!KillSender(s)
      PROVE  SessionInv'
  <2>1. SessionTypes' /\ Sides'
    BY <1>1, <1>2, SenderTypes
  <2>2. /\ out' = out /\ pc'[Session!Receiver] = pc[Session!Receiver]
        /\ \A t \in Senders : pc'[t] \in BeforeSession => pc[t] \in BeforeSession /\ pos'[t] = pos[t]
    BY <1>1, <1>2, SenderFrame
  <2>3. \A t \in Senders : Follows(t)'
    BY <2>2, OutputSame DEF SessionInv
  <2>4. \A t \in Senders : pc'[t] \in BeforeSession =>
           pos'[t] = 0 /\ \A i \in 1 .. Len(out') : out'[i].from # t
    BY <2>2 DEF SessionInv
  <2>5. ASSUME pc'[Session!Receiver] # "done"
        PROVE  SessionMode'
    <3>1. SessionMode /\ pc[Session!Receiver] # "done" /\ ~ removed
      BY <2>2, <2>5 DEF SessionInv, Sides
    <3>2. CASE Session!Register(s) \/ Session!Return(s) \/ (Session!KillSender(s) /\ ~ Inside(s))
      BY <1>1, <3>1, <3>2, OutsideMode
    <3>3. CASE Session!PSession(s)
      <4>1. pc[s] \in BeforeSession
        BY <3>3 DEF Session!PSession, Session!Goto, BeforeSession
      <4>2. pos[s] = 0 /\ \A i \in 1 .. Len(out) : out[i].from # s
        BY <4>1 DEF SessionInv
      <4> QED BY <1>1, <3>1, <3>3, <4>2, EnterMode
    <3>4. CASE \/ Session!PMemory(s) \/ Session!Read(s) \/ Session!ResetReceiver(s) \/ Session!TestEof(s) \/ Session!VData(s)
               \/ (Session!TestReceiver(s) /\ mem.rcv_state = "OK")
      BY <1>1, <3>1, <3>4, TurnMode
    <3>5. CASE Session!VLast(s)
      BY <1>1, <3>1, <3>5, LastMode
    <3>6. CASE Session!ReadFails(s) \/ (Session!TestReceiver(s) /\ mem.rcv_state # "OK") \/ (Session!KillSender(s) /\ Inside(s))
      BY <1>1, <3>1, <3>6, FailMode
    <3>7. CASE Session!NoSemaphores(s)
      BY <3>1, <3>7 DEF Session!NoSemaphores
    <3> QED BY <1>2, <3>2, <3>3, <3>4, <3>5, <3>6, <3>7 DEF Session!SenderStep
  <2> QED BY <2>1, <2>3, <2>4, <2>5 DEF SessionInv
<1>3. ASSUME Session!ReceiverStep \/ Session!WriteFails \/ Session!ExitSignal \/ Session!ReceiverDeath
      PROVE  SessionInv'
  <2>1. SessionTypes' /\ Sides'
    BY <1>1, <1>3, ReceiverTypes
  <2>2. UNCHANGED pos /\ \A t \in Senders : pc'[t] = pc[t]
    <3>1. Session!Receiver \in Session!Processes /\ \A t \in Senders : t \in Session!Processes /\ t # Session!Receiver
      BY DEF Session!Processes, SessionSetting
    <3>2. UNCHANGED pos /\ \E to : Moves(Session!Receiver, to)
      <4>1. CASE Session!PData \/ Session!VSession \/ Session!VMemory
        BY <1>1, <4>1, ReceiverOperations DEF Session!rest
      <4>2. CASE Session!Loop \/ Session!TestSender \/ Session!Write
        BY <4>2 DEF Session!Loop, Session!TestSender, Session!Write, Session!End, Session!Goto, Moves
      <4>3. CASE Session!Acknowledge \/ Session!ResetSender
        BY <4>3 DEF Session!Acknowledge, Session!ResetSender, Session!Goto, Moves, Session!rest
      <4>4. CASE Session!WriteFails \/ Session!ExitSignal \/ Session!ReceiverDeath \/ Session!SessionOverflow
        BY <4>4 DEF Session!WriteFails, Session!ExitSignal, Session!ReceiverDeath, Session!SessionOverflow,
                    Session!End, Moves
      <4> QED BY <1>3, <4>1, <4>2, <4>3, <4>4 DEF Session!ReceiverStep
    <3> QED BY <1>1, <3>1, <3>2, Placed
  <2>3. CASE Session!Write
    <3>1. pc[Session!Receiver] = "write" /\ pc[Session!Receiver] # "done"
      BY <2>3 DEF Session!Write, Session!Goto
    <3>2. SessionMode /\ \A t \in Senders : Follows(t)
      BY <3>1 DEF SessionInv
    <3>3. /\ SessionMode' /\ \A t \in Senders : Follows(t)'
          /\ \A t \in Senders : pc[t] \in BeforeSession /\ (\A i \in 1 .. Len(out) : out[i].from # t)
                 => \A i \in 1 .. Len(out') : out'[i].from # t
      BY <1>1, <2>3, <3>2, WriteMode
    <3>4. \A t \in Senders : pc'[t] \in BeforeSession =>
             pos'[t] = 0 /\ \A i \in 1 .. Len(out') : out'[i].from # t
      BY <2>2, <3>3 DEF SessionInv
    <3> QED BY <2>1, <3>3, <3>4 DEF SessionInv
  <2>4. CASE ~ Session!Write
    <3>1. out' = out
      <4>1. CASE Session!PData \/ Session!VSession \/ Session!VMemory
        BY <1>1, <4>1, ReceiverOperations DEF Session!rest
      <4>2. CASE Session!Loop \/ Session!TestSender \/ Session!Acknowledge \/ Session!ResetSender \/ Session!WriteFails \/ Session!ExitSignal \/ Session!ReceiverDeath \/ Session!SessionOverflow
        BY <4>2 DEF Session!Loop, Session!TestSender, Session!Acknowledge, Session!ResetSender,
                    Session!WriteFails, Session!ExitSignal, Session!ReceiverDeath, Session!SessionOverflow, Session!rest
      <4> QED BY <1>3, <2>4, <4>1, <4>2 DEF Session!ReceiverStep
    <3>2. \A t \in Senders : Follows(t)'
      BY <3>1, OutputSame DEF SessionInv
    <3>3. \A t \in Senders : pc'[t] \in BeforeSession =>
             pos'[t] = 0 /\ \A i \in 1 .. Len(out') : out'[i].from # t
      BY <2>2, <3>1 DEF SessionInv
    <3>4. ASSUME pc'[Session!Receiver] # "done"
          PROVE  SessionMode'
      <4>1. Session!Receiver \in Session!Processes /\ pc \in [Session!Processes -> Labels]
        BY DEF Session!Processes, SessionInv, SessionTypes
      <4>2. pc[Session!Receiver] # "done" /\ ~ Session!WriteFails /\ ~ Session!ReceiverDeath /\ ~ Session!SessionOverflow
        BY <1>3, <3>4, <4>1 DEF Session!WriteFails, Session!ReceiverDeath, Session!SessionOverflow, Session!End,
                                Session!ReceiverStep, Session!Loop, Session!PData, Session!TestSender,
                                Session!Write, Session!Acknowledge,
                           Session!ResetSender, Session!VSession, Session!VMemory, Session!ExitSignal, Session!Goto
      <4>3. SessionMode
        BY <4>2 DEF SessionInv
      <4>4. CASE Session!Loop \/ Session!ExitSignal
        BY <1>1, <3>4, <4>3, <4>4, IdleMode
      <4>5. CASE Session!PData \/ Session!TestSender \/ Session!Acknowledge \/ Session!ResetSender \/ Session!VMemory
        BY <1>1, <3>4, <4>3, <4>5, RoundMode
      <4>6. CASE Session!VSession
        BY <1>1, <4>3, <4>6, FreeMode
      <4> QED BY <1>3, <2>4, <4>2, <4>4, <4>5, <4>6 DEF Session!ReceiverStep
    <3> QED BY <2>1, <3>2, <3>3, <3>4 DEF SessionInv
  <2> QED BY <2>3, <2>4
<1>4. CASE UNCHANGED Session!vars
  <2>1. UNCHANGED <<sem, adj, removed, mem, pc, status, pos, out, hasEof>>
    BY <1>4 DEF Session!vars
  <2>2. SessionTypes' /\ Sides'
    BY <1>1, <2>1 DEF SessionTypes, Sides
  <2>3. SessionMode => SessionMode'
    <3>1. mem'.snd_state = mem.snd_state /\ mem'.data = mem.data /\ UNCHANGED <<pos, out>>
      BY <2>1
    <3>2. \A i \in Session!Semaphores : sem'[i] = sem[i]
      BY <2>1
    <3>3. \A t \in Senders : pc'[t] = pc[t]
      BY <2>1
    <3>4. pc'[Session!Receiver] = pc[Session!Receiver] /\ hasEof' = hasEof
      BY <2>1
    <3> QED BY <3>1, <3>2, <3>3, <3>4, ModeKept
  <2>4. \A t \in Senders : Follows(t)'
    BY <2>1, OutputSame DEF SessionInv
  <2>5. \A s \in Senders : pc'[s] \in BeforeSession =>
           pos'[s] = 0 /\ \A i \in 1 .. Len(out') : out'[i].from # s
    BY <2>1 DEF SessionInv
  <2>6. pc'[Session!Receiver] # "done" => SessionMode'
    BY <2>1, <2>3 DEF SessionInv
  <2> QED BY <2>2, <2>4, <2>5, <2>6 DEF SessionInv
<1> QED BY <1>2, <1>3, <1>4 DEF Session!Next

\* Its consequences. The files follow one another.
LEMMA SessionFollows ==
    ASSUME SessionSetting, SessionInv
    PROVE  Session!FilesFollow
<1> SUFFICES ASSUME NEW s \in Senders, Session!Places(s) # {}
             PROVE  /\ \E a, n \in 1 .. Len(out) :
                          Session!Places(s) = a .. a + n - 1 /\ SubSeq(out, a, a + n - 1) = SubSeq(Session!File(s), 1, n)
                    /\ Len(out) \notin Session!Places(s) => Session!Cardinality(Session!Places(s)) = FileLen
  BY DEF Session!FilesFollow
<1>1. out \in Seq(Records) /\ Len(out) \in Nat /\ DOMAIN out = 1 .. Len(out) /\ FileLen \in Nat
  BY DEF SessionInv, SessionTypes, SessionSetting
<1>2. \E i \in 1 .. Len(out) : out[i].from = s
  BY <1>1 DEF Session!Places
<1>3. PICK a, n \in 1 .. Len(out) :
         Piece(s, a, n) /\ a + n <= Len(out) + 1 /\ (a + n = Len(out) + 1 \/ n = FileLen)
  BY <1>2 DEF SessionInv, Follows
<1>4. Session!Places(s) = a .. a + n - 1
  <2>1. ASSUME NEW i \in 1 .. Len(out)
        PROVE  out[i].from = s <=> (a <= i /\ i < a + n)
    <3>1. IF a <= i /\ i < a + n THEN out[i] = [from |-> s, nr |-> i - a + 1] ELSE out[i].from # s
      BY <1>3 DEF Piece
    <3> QED BY <3>1
  <2> QED BY <1>1, <1>3, <2>1 DEF Session!Places
<1>5. n <= FileLen
  <2>1. a + n - 1 \in 1 .. Len(out) /\ out[a + n - 1].nr = n
    BY <1>1, <1>3 DEF Piece
  <2>2. out[a + n - 1] \in Records
    BY <1>1, <2>1, ElementOfSeq
  <2> QED BY <1>1, <2>1, <2>2 DEF Records
<1>6. SubSeq(out, a, a + n - 1) = SubSeq(Session!File(s), 1, n)
  <2> DEFINE u == SubSeq(out, a, a + n - 1)
             v == SubSeq(Session!File(s), 1, n)
  <2>1. Session!File(s) \in Seq(Records) /\ Len(Session!File(s)) = FileLen /\ \A i \in 1 .. FileLen : Session!File(s)[i] = [from |-> s, nr |-> i]
    <3>1. \A i \in 1 .. FileLen : [from |-> s, nr |-> i] \in Records
      BY <1>1 DEF Records
    <3> QED BY <1>1, <3>1 DEF Session!File
  <2>2. u \in Seq(Records) /\ Len(u) = n /\ \A i \in 1 .. n : u[i] = out[a + i - 1]
    BY <1>1, <1>3, SubSeqProperties
  <2>3. v \in Seq(Records) /\ Len(v) = n /\ \A i \in 1 .. n : v[i] = Session!File(s)[i]
    BY <1>1, <1>3, <1>5, <2>1, SubSeqProperties
  <2>4. ASSUME NEW i \in 1 .. n
        PROVE  u[i] = v[i]
    <3>1. i \in 1 .. FileLen /\ a + i - 1 \in 1 .. Len(out) /\ a <= a + i - 1 /\ a + i - 1 < a + n
          /\ a + i - 1 - a + 1 = i
      BY <1>1, <1>3, <1>5
    <3>2. out[a + i - 1] = [from |-> s, nr |-> i]
      BY <1>3, <3>1 DEF Piece
    <3> QED BY <2>1, <2>2, <2>3, <3>1, <3>2
  <2> HIDE DEF u, v
  <2>5. u = v
    BY <2>2, <2>3, <2>4, SeqEqual
  <2> QED BY <2>5 DEF u, v
<1>7. Len(out) \notin Session!Places(s) => Session!Cardinality(Session!Places(s)) = FileLen
  <2> SUFFICES ASSUME Len(out) \notin Session!Places(s) PROVE Session!Cardinality(Session!Places(s)) = FileLen
    OBVIOUS
  <2>1. n = FileLen
    BY <1>1, <1>3, <1>4
  <2>2. Session!Cardinality(a .. a + n - 1) = n
    <3>1. a \in Int /\ a + n - 1 \in Int /\ a <= a + n - 1 /\ (a + n - 1) - a + 1 = n
      BY <1>1, <1>3
    <3>2. Cardinality(a .. a + n - 1) = n
      BY <3>1, FS_Interval
    <3> QED BY <3>2 DEF Session!Cardinality, Cardinality
  <2> QED BY <1>4, <2>1, <2>2
<1> QED BY <1>3, <1>4, <1>6, <1>7

\* The memory is in one hand.
LEMMA SessionOneHand == ASSUME SessionSetting, SessionInv PROVE Session!OneHand
<1> SUFFICES ASSUME status[Session!Receiver] = "running"
             PROVE  /\ Session!Draining => \A s \in Senders : ~ Session!Filling(s)
                    /\ \A s, t \in Senders : Session!Filling(s) /\ Session!Filling(t) => s = t
  BY DEF Session!OneHand
<1>1. SessionMode
  BY DEF SessionInv, Sides
<1>2. \A s \in Senders : Session!Filling(s) => Inside(s)
  BY DEF Session!Filling, Inside, InSessionAt
<1>3. CASE NobodyInside
  BY <1>2, <1>3 DEF NobodyInside
<1>4. ASSUME NEW s \in Senders, OwnSession(s)
      PROVE  /\ Session!Draining => ~ Session!Filling(s)
             /\ \A t \in Senders : Session!Filling(t) => t = s
  BY <1>2, <1>4 DEF OwnSession, SenderTurn, ReceiverTurn, Idle, Session!Draining, Session!Filling
<1> QED BY <1>1, <1>3, <1>4 DEF SessionMode, FreeSession, ClosingSession, LostSession

\* Both, in every behaviour.
LEMMA SessionSound ==
    ASSUME SessionSetting
    PROVE  Session!Init /\ [][Session!Next]_(Session!vars) => []Session!FilesInOneHand
<1> DEFINE I == strays = {} => SessionInv
<1>1. Session!Init => I
  BY SessionStart
<1>2. I /\ [Session!Next]_(Session!vars) => I'
  BY SessionKeeps, StraysStay
<1>3. I => Session!FilesInOneHand
  BY SessionFollows, SessionOneHand DEF Session!FilesInOneHand
<1> QED BY <1>1, <1>2, <1>3, PTL

-----------------------------------------------------------------------------
(* Backup: a file without an archive as good as it was when the run began is *)
(* in a directory not read to its end, is the one the backup is at, was      *)
(* removed, or an error is on record.                                        *)

\* The tree: kinds of entries are disjoint, and all files are somewhere below
\* the root.
TreeEntries == Files \cup Others \cup Dirs
ArchiveSetting ==
    /\ Root \in Dirs /\ Contents \in [Dirs -> SUBSET TreeEntries]
    /\ Files \cap Others = {} /\ Files \cap Dirs = {} /\ Others \cap Dirs = {}
    /\ \A W \in SUBSET TreeEntries :
          Root \in W /\ (\A d \in W \cap Dirs : Contents[d] \subseteq W)
              => Files \subseteq W

\* Types, as far as the argument needs them.
Versions == [ver : Int, mtime : Int]
Frames == [dir : Dirs, todo : SUBSET TreeEntries, errors : Nat]
AtFile == {"compare", "open", "read", "write", "fork", "gzip"}
ArchiveTypes ==
    /\ exists \subseteq TreeEntries /\ Dirs \subseteq exists
    /\ in \in [Files -> Versions] /\ copy \in [Files -> Versions]
    /\ arch \in [Files -> Versions] /\ base \in [Files -> Int]
    /\ clock \in Nat /\ seen \in Int /\ unlinked \in Int /\ buffer \in Int
    /\ gzips \subseteq Files /\ spoilt \subseteq Files
    /\ stack \in Seq(Frames)
    /\ pc \in {"off", "loop", "stat"} \cup AtFile
    /\ pc = "off" <=> stack = <<>>
    /\ pc = "off" <=> exit # "running"
    /\ pc = "stat" => cur \in TreeEntries
    /\ pc \in AtFile => cur \in Files

\* The clock is ahead of all times; a file that is not there was never asked for.
Times == 0 <= buffer /\ 0 <= unlinked /\ \A f \in Files :
    /\ 0 <= in[f].mtime /\ in[f].mtime <= clock /\ 1 <= in[f].ver
    /\ -1 <= arch[f].ver /\ arch[f].mtime <= clock
    /\ -1 <= copy[f].ver /\ copy[f].mtime <= clock
    /\ base[f] <= in[f].ver
    /\ f \notin exists => base[f] = -1

\* A copy or an archive that does not look older is not older.
NotOlder(r, f) == r.mtime >= in[f].mtime => r.ver >= in[f].ver

\* What is known of a file that did not escape the comparison of times.
TimesTell == \A f \in Files \ spoilt :
    /\ f \in gzips => pc = "gzip" /\ cur = f
    /\ f \notin gzips => NotOlder(arch[f], f)
    /\ pc = "compare" /\ cur = f => (arch[f].mtime >= seen => arch[f].ver >= base[f])
    /\ (pc = "fork" \/ f \in gzips) /\ cur = f
          => copy[f].ver >= base[f] /\ copy[f].ver >= 0 /\ NotOlder(copy[f], f)
    /\ pc = "gzip" /\ cur = f /\ f \notin gzips /\ copy[f] = Archive!NoFile
          => arch[f].ver >= base[f]

\* What the run has done, V, and what is left of the directories it was in.
Kept(f) == f \in spoilt \/ arch[f].ver >= base[f]
At(e) == pc # "loop" /\ e = cur
Ahead(e) == \E i \in 1 .. Len(stack) : e \in stack[i].todo
Gone(e) == e \notin Dirs /\ (e \in Files => base[e] = -1)
Covers(V) ==
    /\ Root \in V
    /\ \A d \in V \cap Dirs : \A e \in Contents[d] :
          e \in V \/ At(e) \/ Ahead(e) \/ Gone(e)
    /\ \A f \in V \cap Files : Kept(f) /\ ~ At(f)
Erred == \E i \in 1 .. Len(stack) : stack[i].errors > 0
Progress == pc # "off" => Erred \/ \E V \in SUBSET TreeEntries : Covers(V)

\* The inductive invariant.
ArchiveInv == ArchiveTypes /\ Times /\ TimesTell /\ Progress /\ Archive!SuccessIsCurrent

\* A frame with other errors, or without an entry.
LEMMA FrameErrors ==
    ASSUME NEW t \in Frames, NEW n \in Nat
    PROVE  LET g == [t EXCEPT !.errors = @ + n]
           IN  /\ g \in Frames /\ g.todo = t.todo
               /\ g.errors = t.errors + n /\ t.errors \in Nat
BY DEF Frames
LEMMA FrameTodo ==
    ASSUME NEW t \in Frames, NEW e
    PROVE  LET g == [t EXCEPT !.todo = @ \ {e}]
           IN  /\ g \in Frames /\ g.todo = t.todo \ {e} /\ g.errors = t.errors
               /\ t.todo \subseteq TreeEntries
BY DEF Frames

\* The innermost frame.
LEMMA TopFrame ==
    ASSUME ArchiveTypes, pc # "off"
    PROVE  /\ Len(stack) \in Nat \ {0} /\ DOMAIN stack = 1 .. Len(stack)
           /\ Archive!Top = stack[Len(stack)] /\ Archive!Top \in Frames
           /\ \A i \in 1 .. Len(stack) : stack[i] \in Frames
BY DEF ArchiveTypes, Archive!Top

\* The innermost frame with errors added.
LEMMA GoneOn ==
    ASSUME ArchiveTypes, pc # "off", NEW n \in Nat, Archive!GoOn(n)
    PROVE  /\ stack' \in Seq(Frames) /\ stack' # <<>> /\ Len(stack') = Len(stack)
           /\ \A i \in 1 .. Len(stack) :
                 stack'[i].todo = stack[i].todo /\ stack'[i].errors >= stack[i].errors
           /\ n > 0 => stack'[Len(stack)].errors > 0
<1> DEFINE t == Archive!Top
           g == [t EXCEPT !.errors = @ + n]
<1>1. /\ stack \in Seq(Frames) /\ Len(stack) \in 1 .. Len(stack)
      /\ t = stack[Len(stack)] /\ t \in Frames
      /\ \A i \in 1 .. Len(stack) : stack[i] \in Frames
  BY TopFrame DEF ArchiveTypes
<1>2. stack' = [stack EXCEPT ![Len(stack)] = g]
  BY <1>1 DEF Archive!GoOn
<1>3. g \in Frames /\ g.todo = t.todo /\ g.errors = t.errors + n /\ t.errors \in Nat
  BY <1>1, FrameErrors
<1> HIDE DEF t, g
<1>4. /\ stack' \in Seq(Frames) /\ Len(stack') = Len(stack)
      /\ \A j \in 1 .. Len(stack) : stack'[j] = IF j = Len(stack) THEN g ELSE stack[j]
  BY <1>1, <1>2, <1>3, ExceptSeq
<1> QED BY <1>1, <1>3, <1>4 DEF Frames

\* The innermost frame after an entry was read.
LEMMA EntryRead ==
    ASSUME ArchiveTypes, Archive!ReadDir
    PROVE  /\ stack' \in Seq(Frames) /\ stack' # <<>> /\ Len(stack') = Len(stack)
           /\ cur' \in TreeEntries
           /\ \A i \in 1 .. Len(stack) : /\ stack[i].todo \ {cur'} \subseteq stack'[i].todo
                                         /\ stack'[i].errors = stack[i].errors
<1> DEFINE t == Archive!Top
           g == [t EXCEPT !.todo = @ \ {cur'}]
<1>1. /\ stack \in Seq(Frames) /\ Len(stack) \in 1 .. Len(stack)
      /\ t = stack[Len(stack)] /\ t \in Frames
      /\ \A i \in 1 .. Len(stack) : stack[i] \in Frames
  BY TopFrame DEF ArchiveTypes, Archive!ReadDir
<1>2. stack' = [stack EXCEPT ![Len(stack)] = g] /\ cur' \in t.todo
  BY <1>1 DEF Archive!ReadDir
<1>3. g \in Frames /\ g.todo = t.todo \ {cur'} /\ g.errors = t.errors /\ cur' \in TreeEntries
  BY <1>1, <1>2, FrameTodo
<1> HIDE DEF t, g
<1>4. /\ stack' \in Seq(Frames) /\ Len(stack') = Len(stack)
      /\ \A j \in 1 .. Len(stack) : stack'[j] = IF j = Len(stack) THEN g ELSE stack[j]
  BY <1>1, <1>2, <1>3, ExceptSeq
<1> QED BY <1>1, <1>3, <1>4

\* The frames after a directory was left.
LEMMA DirLeft ==
    ASSUME ArchiveTypes, Archive!EndOfDir, Len(stack) # 1
    PROVE  /\ stack' \in Seq(Frames) /\ stack' # <<>> /\ Len(stack') = Len(stack) - 1
           /\ \A i \in 1 .. Len(stack) - 1 :
                 stack'[i].todo = stack[i].todo /\ stack'[i].errors >= stack[i].errors
           /\ Archive!Top.errors > 0 => stack'[Len(stack) - 1].errors > 0
<1> DEFINE top == Archive!Top
           n == Len(stack) - 1
           s == SubSeq(stack, 1, n)
           more == IF top.errors = 0 THEN 0 ELSE 1
           g == [s[n] EXCEPT !.errors = @ + more]
<1>1. /\ stack \in Seq(Frames) /\ n \in Int /\ 1 <= n /\ top \in Frames
      /\ \A i \in 1 .. n : stack[i] \in Frames
  <2>1. /\ stack \in Seq(Frames) /\ Len(stack) \in Nat /\ Len(stack) # 0 /\ top \in Frames
        /\ \A i \in 1 .. Len(stack) : stack[i] \in Frames
    BY TopFrame DEF ArchiveTypes, Archive!EndOfDir
  <2>2. \A m \in Nat : m # 0 /\ m # 1 => m - 1 \in Int /\ 1 <= m - 1
    OBVIOUS
  <2>3. n \in Int /\ 1 <= n
    BY <2>1, <2>2
  <2> QED BY <2>1, <2>3
<1>2. stack' = [s EXCEPT ![n].errors = IF top.errors = 0 THEN @ ELSE @ + 1]
  BY DEF Archive!EndOfDir
<1>3. Len(stack) - 1 = n /\ n = Len(stack) - 1
  OBVIOUS
<1> HIDE DEF n, top
<1>4. /\ s \in Seq(Frames) /\ Len(s) = n
      /\ \A i \in 1 .. n : s[i] = stack[i]
  BY <1>1, SubSeqProperties
<1> HIDE DEF s
<1>5. more \in {0, 1} /\ (top.errors > 0 => more = 1)
  OBVIOUS
<1>6. s[n] \in Frames /\ n \in 1 .. Len(s)
  BY <1>1, <1>4
<1>7. /\ g \in Frames /\ g.todo = s[n].todo
      /\ g.errors = s[n].errors + more /\ s[n].errors \in Nat
  <2> more \in Nat
    BY <1>5
  <2> HIDE DEF more
  <2> QED BY <1>6, FrameErrors
<1>8. stack' = [s EXCEPT ![n] = g]
  <2>1. (IF top.errors = 0 THEN s[n].errors ELSE s[n].errors + 1) = s[n].errors + more
    BY <1>7
  <2> HIDE DEF more
  <2> QED BY <1>2, <2>1, <1>6
<1> HIDE DEF g, more
<1>9. /\ stack' \in Seq(Frames) /\ Len(stack') = n
      /\ \A j \in 1 .. n : stack'[j] = IF j = n THEN g ELSE s[j]
  BY <1>4, <1>6, <1>7, <1>8, ExceptSeq
<1>10. \A j \in 1 .. n : stack[j].errors \in Nat
  BY <1>1, FrameErrors
<1>11. n \in 1 .. n /\ s[n] = stack[n]
  BY <1>1, <1>4
<1>12. \A i \in 1 .. n : stack'[i].todo = stack[i].todo /\ stack'[i].errors >= stack[i].errors
  BY <1>4, <1>5, <1>7, <1>9, <1>10, <1>11
<1>13. top.errors > 0 => stack'[n].errors > 0
  BY <1>5, <1>7, <1>9, <1>11
<1> QED BY <1>1, <1>3, <1>9, <1>12, <1>13 DEF top

\* A file that was not there was asked for with the version -1.
LEMMA ArchiveStart == ASSUME ArchiveSetting, Archive!Init PROVE ArchiveInv
<1>1. ArchiveTypes
  BY DEF Archive!Init, ArchiveTypes, ArchiveSetting, TreeEntries, AtFile, Versions, Archive!NoFile
<1>2. Times
  BY DEF Archive!Init, Times, Archive!NoFile
<1>3. TimesTell
  BY DEF Archive!Init, TimesTell, NotOlder, Archive!NoFile
<1>4. Progress
  BY DEF Archive!Init, Progress
<1>5. Archive!SuccessIsCurrent
  BY DEF Archive!Init, Archive!SuccessIsCurrent
<1> QED BY <1>1, <1>2, <1>3, <1>4, <1>5 DEF ArchiveInv

\* Types are kept.
LEMMA ArchiveTypesKept ==
    ASSUME ArchiveSetting, ArchiveTypes, [Archive!Next]_(Archive!vars)
    PROVE  ArchiveTypes'
<1> USE DEF ArchiveTypes
<1>0. \A d \in Dirs : Archive!Frame(d) \in Frames
  BY DEF Archive!Frame, Frames, ArchiveSetting
<1>1. CASE Archive!Start
  <2>1. stack' = <<Archive!Frame(Root)>> /\ stack' \in Seq(Frames) /\ stack' # <<>>
    BY <1>0, <1>1 DEF Archive!Start, ArchiveSetting
  <2> QED BY <1>1, <2>1 DEF Archive!Start, Archive!user, AtFile, Versions
<1>2. CASE Archive!ReadDir
  <2> USE DEF Archive!ReadDir, Archive!tree, Archive!bounds, AtFile
  <2> QED BY <1>2, EntryRead
<1>3. CASE Archive!EndOfDir
  <2> USE DEF Archive!EndOfDir, Archive!tree, Archive!bounds, AtFile, Archive!Exit
  <2>1. CASE Len(stack) = 1
    BY <1>3, <2>1
  <2>2. CASE Len(stack) # 1
    <3>1. /\ stack' \in Seq(Frames) /\ stack' # <<>>
      BY <1>3, <2>2, DirLeft
    <3> QED BY <1>3, <2>2, <3>1
  <2> QED BY <2>1, <2>2
<1>4. CASE Archive!Vanished
  BY <1>4 DEF Archive!Vanished, Archive!tree, Archive!bounds, AtFile, Archive!Exit
<1>5. CASE Archive!EnterDir
  <2>1. stack' \in Seq(Frames) /\ stack' # <<>>
    BY <1>0, <1>5 DEF Archive!EnterDir
  <2> QED BY <1>5, <2>1 DEF Archive!EnterDir, Archive!tree, Archive!bounds, AtFile
<1>6. CASE Archive!StatFile
  BY <1>6 DEF Archive!StatFile, Archive!tree, Archive!bounds, AtFile, Versions
<1>7. CASE Archive!StatOther
  BY <1>7, GoneOn DEF Archive!StatOther, Archive!tree, Archive!bounds, AtFile, Archive!GoOn
<1>8. CASE Archive!Compare
  <2>1. CASE pc' = "open" /\ UNCHANGED <<stack, cur>>
    BY <1>8, <2>1 DEF Archive!Compare, Archive!tree, Archive!bounds, AtFile
  <2>2. CASE Archive!GoOn(0)
    BY <1>8, <2>2, GoneOn DEF Archive!Compare, Archive!tree, Archive!bounds, AtFile, Archive!GoOn
  <2> QED BY <1>8, <2>1, <2>2 DEF Archive!Compare
<1>9. CASE Archive!OpenFails
  BY <1>9 DEF Archive!OpenFails, Archive!tree, Archive!bounds, AtFile, Archive!Exit
<1>10. CASE Archive!OpenCopy
  BY <1>10 DEF Archive!OpenCopy, Archive!user, AtFile, Versions, Archive!Partial
<1>11. CASE Archive!Read
  BY <1>11 DEF Archive!Read, Archive!tree, Archive!bounds, AtFile, Versions
<1>12. CASE Archive!Write \/ Archive!ShortWrite
  <2>1. \E v \in Int : copy' = [copy EXCEPT ![cur] = [ver |-> v, mtime |-> clock']]
    <3>1. CASE Archive!Write
      BY <3>1 DEF Archive!Write
    <3>2. CASE Archive!ShortWrite
      <4>1. copy' = [copy EXCEPT ![cur] = [ver |-> 0, mtime |-> clock']]
        BY <3>2 DEF Archive!ShortWrite, Archive!Partial
      <4> WITNESS 0 \in Int
      <4> QED BY <4>1
    <3> QED BY <1>12, <3>1, <3>2
  <2>2. /\ pc = "write" /\ pc' = "fork" /\ clock' = clock + 1 /\ buffer' = 0 /\ spoilt' \subseteq spoilt \cup {cur}
        /\ UNCHANGED <<Archive!user, arch, stack, cur, seen, unlinked, gzips, exit, base>>
    BY <1>12 DEF Archive!Write, Archive!ShortWrite
  <2>3. cur \in Files /\ spoilt' \subseteq Files /\ clock' \in Nat
    BY <2>2 DEF AtFile
  <2>4. copy' \in [Files -> Versions]
    BY <2>1, <2>3 DEF Versions
  <2> QED BY <2>2, <2>3, <2>4 DEF Archive!user, AtFile
<1>13. CASE Archive!ForkGzip
  BY <1>13 DEF Archive!ForkGzip, Archive!user, AtFile, Versions, Archive!Partial
<1>14. CASE Archive!GzipEnded
  <2>1. PICK n \in {0, 1} : Archive!GoOn(n)
    BY <1>14 DEF Archive!GzipEnded
  <2> QED BY <1>14, <2>1, GoneOn DEF Archive!GzipEnded, Archive!tree, Archive!bounds, AtFile, Archive!GoOn
<1>15. CASE Archive!CopyFails \/ Archive!ExecFails
  <2>1. stack' \in Seq(Frames) /\ stack' # <<>>
    BY <1>15, GoneOn DEF Archive!CopyFails, Archive!ExecFails, AtFile
  <2> QED BY <1>15, <2>1 DEF Archive!CopyFails, Archive!ExecFails, Archive!tree, AtFile, Archive!GoOn
<1>16. CASE Archive!ForkFails
  BY <1>16 DEF Archive!ForkFails, Archive!tree, AtFile, Archive!Exit
<1>17. CASE Archive!Kill
  BY <1>17 DEF Archive!Kill, Archive!user, AtFile, Archive!Exit
<1>18. ASSUME NEW f \in Files, Archive!GzipDone(f) PROVE ArchiveTypes'
  BY <1>18 DEF Archive!GzipDone, Archive!user, AtFile, Versions, Archive!NoFile
<1>19. ASSUME NEW f \in Files, Archive!GzipFails(f) PROVE ArchiveTypes'
  <2>0. Archive!NoFile \in Versions
    BY DEF Versions, Archive!NoFile
  <2>1. arch' \in [Files -> Versions] /\ spoilt' \subseteq Files
    BY <1>19, <2>0 DEF Archive!GzipFails
  <2> QED BY <1>19, <2>1 DEF Archive!GzipFails, Archive!user, AtFile
<1>20. ASSUME NEW f \in Files, Archive!Modify(f) \/ Archive!Replace(f) PROVE ArchiveTypes'
  <2>0. [ver |-> in[f].ver + 1, mtime |-> clock'] \in Versions /\ clock' \in Nat
    BY <1>20 DEF Archive!Modify, Archive!Replace, Versions
  <2>1. in' \in [Files -> Versions]
    BY <1>20, <2>0 DEF Archive!Modify, Archive!Replace
  <2>2. unlinked' \in Int
    BY <1>20 DEF Archive!Modify, Archive!Replace, Archive!Unlink, Versions
  <2> QED BY <1>20, <2>0, <2>1, <2>2 DEF Archive!Modify, Archive!Replace, AtFile, TreeEntries
<1>21. ASSUME NEW e \in Files \cup Others, Archive!Remove(e) PROVE ArchiveTypes'
  <2>1. unlinked' \in Int
    BY <1>21 DEF Archive!Remove, Archive!Unlink, Versions, AtFile
  <2> QED BY <1>21, <2>1 DEF Archive!Remove, AtFile, Versions, TreeEntries
<1>22. CASE UNCHANGED Archive!vars
  BY <1>22 DEF Archive!vars, AtFile
<1> QED
  BY <1>1, <1>2, <1>3, <1>4, <1>5, <1>6, <1>7, <1>8, <1>9, <1>10, <1>11, <1>12, <1>13, <1>14,
     <1>15, <1>16, <1>17, <1>18, <1>19, <1>20, <1>21, <1>22 DEF Archive!Next, Archive!BackupStep

\* The steps that leave the tree, the archives and the copies alone.
Looking ==
    \/ Archive!ReadDir \/ Archive!EndOfDir \/ Archive!Vanished \/ Archive!EnterDir
    \/ Archive!StatFile \/ Archive!StatOther \/ Archive!Compare \/ Archive!OpenFails
    \/ Archive!Read \/ Archive!GzipEnded \/ Archive!CopyFails \/ Archive!ForkFails
    \/ Archive!ExecFails
LEMMA LookingOnly == ASSUME Looking PROVE UNCHANGED Archive!tree
BY DEF Looking, Archive!ReadDir, Archive!EndOfDir, Archive!Vanished, Archive!EnterDir,
       Archive!StatFile, Archive!StatOther, Archive!Compare, Archive!OpenFails, Archive!Read,
       Archive!GzipEnded, Archive!CopyFails, Archive!ForkFails, Archive!ExecFails

\* The clock stays ahead.
LEMMA TimesKept ==
    ASSUME ArchiveSetting, ArchiveTypes, Times, [Archive!Next]_(Archive!vars)
    PROVE  Times'
<1>0. /\ clock \in Nat /\ buffer \in Int /\ unlinked \in Int
      /\ \A f \in Files : /\ in[f].mtime \in Int /\ in[f].ver \in Int
                          /\ copy[f].mtime \in Int /\ copy[f].ver \in Int
                          /\ arch[f].mtime \in Int /\ arch[f].ver \in Int
                          /\ base[f] \in Int
  BY DEF ArchiveTypes, Versions
<1>1. CASE Archive!Start
  BY <1>0, <1>1 DEF Archive!Start, Archive!user, Times
<1>2. CASE Looking
  <2>1. /\ buffer' \in {buffer, unlinked, 0} \/ (cur \in Files /\ buffer' = in[cur].ver)
        /\ unlinked' \in {unlinked, 0}
    BY <1>2 DEF Looking, Archive!ReadDir, Archive!EndOfDir, Archive!Vanished,
         Archive!EnterDir, Archive!StatFile, Archive!StatOther, Archive!Compare,
         Archive!OpenFails, Archive!Read, Archive!GzipEnded, Archive!CopyFails,
         Archive!ForkFails, Archive!ExecFails, Archive!Exit, ArchiveTypes, AtFile
  <2>2. 0 <= buffer' /\ 0 <= unlinked'
    BY <1>0, <2>1 DEF Times
  <2> QED BY <1>0, <1>2, <2>2, LookingOnly DEF Archive!tree, Times
<1>3. CASE Archive!OpenCopy
  <2>1. clock' = clock + 1 /\ UNCHANGED <<exists, in, arch, base, unlinked, buffer>>
    BY <1>3 DEF Archive!OpenCopy, Archive!user
  <2>2. \A f \in Files : (copy'[f].mtime = clock' /\ copy'[f].ver = 0) \/ copy'[f] = copy[f]
    BY <1>3 DEF Archive!OpenCopy, ArchiveTypes, Archive!Partial
  <2> QED BY <1>0, <2>1, <2>2 DEF Times
<1>4. CASE Archive!Write \/ Archive!ShortWrite
  <2>1. clock' = clock + 1 /\ UNCHANGED <<exists, in, arch, base, unlinked>> /\ buffer' = 0
    BY <1>4 DEF Archive!Write, Archive!ShortWrite, Archive!user
  <2>2. \A f \in Files : (copy'[f].mtime = clock' /\ copy'[f].ver \in {buffer, 0}) \/ copy'[f] = copy[f]
    BY <1>4 DEF Archive!Write, Archive!ShortWrite, Archive!Partial, ArchiveTypes
  <2> QED BY <1>0, <2>1, <2>2 DEF Times
<1>5. CASE Archive!ForkGzip
  <2>1. clock' = clock + 1 /\ UNCHANGED <<exists, in, copy, base, unlinked, buffer>>
    BY <1>5 DEF Archive!ForkGzip, Archive!user
  <2>2. \A f \in Files : (arch'[f].mtime = clock' /\ arch'[f].ver = 0) \/ arch'[f] = arch[f]
    BY <1>5 DEF Archive!ForkGzip, ArchiveTypes, Archive!Partial
  <2> QED BY <1>0, <2>1, <2>2 DEF Times
<1>6. CASE Archive!Kill
  BY <1>6 DEF Archive!Kill, Archive!user, Archive!Exit, Times
<1>7. ASSUME NEW f \in Files, Archive!GzipDone(f) PROVE Times'
  <2>1. \A g \in Files : /\ arch'[g] = arch[g] \/ arch'[g] = copy[g]
                         /\ copy'[g] = copy[g] \/ (copy'[g].ver = -1 /\ copy'[g].mtime = -1)
    BY <1>7 DEF Archive!GzipDone, ArchiveTypes, Archive!NoFile
  <2>2. UNCHANGED <<exists, in, base, unlinked, buffer, clock>>
    BY <1>7 DEF Archive!GzipDone, Archive!user
  <2> QED BY <1>0, <2>1, <2>2 DEF Times
<1>8. ASSUME NEW f \in Files, Archive!GzipFails(f) PROVE Times'
  <2>1. \A g \in Files : arch'[g] = arch[g] \/ (arch'[g].ver = -1 /\ arch'[g].mtime = -1)
    BY <1>8 DEF Archive!GzipFails, ArchiveTypes, Archive!NoFile
  <2>2. UNCHANGED <<exists, in, base, unlinked, buffer, clock, copy>>
    BY <1>8 DEF Archive!GzipFails, Archive!user
  <2> QED BY <1>0, <2>1, <2>2 DEF Times
<1>9. ASSUME NEW f \in Files, Archive!Modify(f) \/ Archive!Replace(f) PROVE Times'
  <2>1. \A g \in Files : in'[g] = in[g] \/ (in'[g].ver = in[g].ver + 1 /\ in'[g].mtime = clock')
    BY <1>9 DEF Archive!Modify, Archive!Replace, ArchiveTypes
  <2>2. clock' = clock + 1 /\ exists \subseteq exists' /\ UNCHANGED <<arch, copy, base, buffer>>
    BY <1>9 DEF Archive!Modify, Archive!Replace
  <2>3. unlinked' \in {unlinked, in[f].ver}
    BY <1>9 DEF Archive!Modify, Archive!Replace, Archive!Unlink
  <2> QED BY <1>0, <2>1, <2>2, <2>3 DEF Times
<1>10. ASSUME NEW e \in Files \cup Others, Archive!Remove(e) PROVE Times'
  <2>1. unlinked' = unlinked \/ (e \in Files /\ unlinked' = in[e].ver)
    BY <1>10 DEF Archive!Remove, Archive!Unlink, ArchiveTypes, AtFile
  <2> QED BY <1>0, <1>10, <2>1 DEF Archive!Remove, Times
<1>11. CASE UNCHANGED Archive!vars
  BY <1>11 DEF Archive!vars, Times
<1> QED
  BY <1>1, <1>2, <1>3, <1>4, <1>5, <1>6, <1>7, <1>8, <1>9, <1>10, <1>11
  DEF Archive!Next, Archive!BackupStep, Looking

\* What the times tell is kept.
LEMMA TimesTellKept ==
    ASSUME ArchiveSetting, ArchiveTypes, ArchiveTypes', Times, TimesTell,
           [Archive!Next]_(Archive!vars)
    PROVE  TimesTell'
<1>0. /\ clock \in Nat /\ buffer \in Int /\ seen \in Int
      /\ \A f \in Files : /\ in[f].mtime \in Int /\ in[f].ver \in Int
                          /\ copy[f].mtime \in Int /\ copy[f].ver \in Int
                          /\ arch[f].mtime \in Int /\ arch[f].ver \in Int
                          /\ base[f] \in Int
  BY DEF ArchiveTypes, Versions
<1> USE DEF TimesTell, NotOlder
<1>1. CASE Archive!Start
  BY <1>0, <1>1 DEF Archive!Start, Archive!user, Times, Archive!timespec_less
<1>2. CASE Looking
  <2>0. UNCHANGED Archive!tree
    BY <1>2, LookingOnly
  <2>1. CASE Archive!StatFile
    BY <1>0, <2>1 DEF Archive!StatFile, Archive!tree, Times
  <2>2. CASE Archive!Read
    BY <1>0, <2>2 DEF Archive!Read, Archive!tree, Times
  <2>3. CASE pc' \in {"loop", "off", "stat", "open"} /\ (pc = "gzip" => cur \notin gzips)
    BY <1>0, <2>0, <2>3 DEF Archive!tree
  <2>4. pc' \in {"loop", "off", "stat", "open"} \/ Archive!StatFile \/ Archive!Read
    BY <1>2 DEF Looking, Archive!ReadDir, Archive!EndOfDir, Archive!Vanished,
         Archive!EnterDir, Archive!StatOther, Archive!Compare, Archive!OpenFails,
         Archive!GzipEnded, Archive!CopyFails, Archive!ForkFails, Archive!ExecFails, Archive!Exit, Archive!GoOn
  <2>5. pc = "gzip" => cur \notin gzips
    BY <1>2 DEF Looking, Archive!ReadDir, Archive!EndOfDir, Archive!Vanished,
         Archive!EnterDir, Archive!StatFile, Archive!StatOther, Archive!Compare,
         Archive!OpenFails, Archive!Read, Archive!GzipEnded, Archive!CopyFails,
         Archive!ForkFails, Archive!ExecFails
  <2> QED BY <2>1, <2>2, <2>3, <2>4, <2>5
<1>3. CASE Archive!OpenCopy
  <2>1. /\ pc = "open" /\ pc' = "read"
        /\ UNCHANGED <<in, arch, base, gzips, spoilt, cur, seen, buffer>>
    BY <1>3 DEF Archive!OpenCopy, Archive!user
  <2> QED BY <2>1
<1>4. CASE Archive!Write \/ Archive!ShortWrite
  <2>1. /\ pc = "write" /\ pc' = "fork" /\ clock' = clock + 1 /\ cur \in Files
        /\ spoilt \subseteq spoilt' /\ copy'[cur].mtime = clock'
        /\ cur \notin spoilt' => buffer = in[cur].ver /\ copy'[cur].ver = buffer
        /\ UNCHANGED <<in, arch, base, gzips, cur, seen>>
    BY <1>4 DEF Archive!Write, Archive!ShortWrite, Archive!user, ArchiveTypes, AtFile
  <2> QED BY <1>0, <2>1 DEF Times
<1>5. CASE Archive!ForkGzip
  <2>1. /\ pc = "fork" /\ pc' = "gzip" /\ cur \in Files /\ gzips' = gzips \cup {cur}
        /\ \A f \in Files \ {cur} : arch'[f] = arch[f]
        /\ UNCHANGED <<in, copy, base, spoilt, cur, seen, buffer>>
    BY <1>5 DEF Archive!ForkGzip, Archive!user, ArchiveTypes, AtFile
  <2> QED BY <1>0, <2>1
<1>6. CASE Archive!Kill
  BY <1>6 DEF Archive!Kill, Archive!user, Archive!Exit
<1>7. ASSUME NEW f \in Files, Archive!GzipDone(f) PROVE TimesTell'
  <2>1. /\ f \in gzips /\ gzips' = gzips \ {f} /\ arch'[f] = copy[f]
        /\ \A g \in Files \ {f} : arch'[g] = arch[g] /\ copy'[g] = copy[g]
        /\ UNCHANGED <<in, base, spoilt, cur, seen, buffer, pc>>
    BY <1>7 DEF Archive!GzipDone, Archive!user, ArchiveTypes
  <2> QED BY <1>0, <2>1
<1>8. ASSUME NEW f \in Files, Archive!GzipFails(f) PROVE TimesTell'
  <2>1. /\ f \in gzips /\ gzips' = gzips \ {f} /\ spoilt \subseteq spoilt'
        /\ f \notin spoilt' => arch'[f].ver = -1 /\ arch'[f].mtime = -1
        /\ \A g \in Files \ {f} : arch'[g] = arch[g]
        /\ UNCHANGED <<in, base, cur, seen, buffer, pc, copy>>
    BY <1>8 DEF Archive!GzipFails, Archive!user, ArchiveTypes, Archive!NoFile
  <2>2. copy[f].ver >= 0 => copy[f] # Archive!NoFile
    BY DEF Archive!NoFile
  <2> QED BY <1>0, <2>1, <2>2 DEF Times
<1>9. ASSUME NEW f \in Files, Archive!Modify(f) \/ Archive!Replace(f) PROVE TimesTell'
  <2>1. /\ clock' = clock + 1 /\ spoilt' = spoilt
        /\ in'[f].ver = in[f].ver + 1 /\ in'[f].mtime = clock'
        /\ \A g \in Files \ {f} : in'[g] = in[g]
        /\ UNCHANGED <<arch, copy, base, gzips, cur, seen, buffer, pc>>
    BY <1>9 DEF Archive!Modify, Archive!Replace, ArchiveTypes
  <2> QED BY <1>0, <2>1 DEF Times
<1>10. ASSUME NEW e \in Files \cup Others, Archive!Remove(e) PROVE TimesTell'
  <2>1. /\ \A f \in Files : base'[f] = base[f] \/ base'[f] = -1
        /\ UNCHANGED <<in, arch, copy, gzips, spoilt, cur, seen, buffer, pc>>
    BY <1>10 DEF Archive!Remove
  <2> QED BY <1>0, <2>1 DEF Times
<1>11. CASE UNCHANGED Archive!vars
  BY <1>11 DEF Archive!vars
<1> QED
  BY <1>1, <1>2, <1>3, <1>4, <1>5, <1>6, <1>7, <1>8, <1>9, <1>10, <1>11
  DEF Archive!Next, Archive!BackupStep, Looking

\* The steps of the user and of gzip, and those of the backup that stay at a file.
LEMMA SameFrames ==
    ASSUME UNCHANGED stack, pc # "off", pc' # "off", cur' = cur,
           pc = "loop" <=> pc' = "loop", Progress,
           \A f \in Files : Kept(f) /\ ~ At(f) => Kept(f)',
           \A f \in Files : base[f] = -1 => base'[f] = -1
    PROVE  Progress'
<1>1. CASE Erred
  BY <1>1 DEF Erred, Progress
<1>2. CASE ~ Erred
  <2>1. PICK V \in SUBSET TreeEntries : Covers(V)
    BY <1>2 DEF Progress
  <2>2. Covers(V)'
    BY <2>1 DEF Covers, At, Ahead, Gone
  <2> QED BY <2>2 DEF Progress
<1> QED BY <1>1, <1>2

\* The backup is done with a file.
LEMMA FileDone ==
    ASSUME ArchiveSetting, ArchiveTypes, pc \in AtFile, pc' = "loop", Progress, NEW n \in Nat,
           Archive!GoOn(n), n = 0 => Kept(cur), UNCHANGED Archive!tree
    PROVE  Progress'
<1>1. /\ Len(stack') = Len(stack)
      /\ \A i \in 1 .. Len(stack) :
            stack'[i].todo = stack[i].todo /\ stack'[i].errors >= stack[i].errors
      /\ n > 0 => stack'[Len(stack)].errors > 0
      /\ Len(stack) \in 1 .. Len(stack)
      /\ \A i \in 1 .. Len(stack) : stack'[i].errors \in Nat /\ stack[i].errors \in Nat
  <2>1. pc # "off"
    BY DEF AtFile
  <2>2. stack' \in Seq(Frames) /\ Len(stack') = Len(stack)
    BY <2>1, GoneOn
  <2>3. \A i \in 1 .. Len(stack) : stack'[i] \in Frames /\ stack[i] \in Frames
    BY <2>1, <2>2, TopFrame
  <2> QED BY <2>1, <2>3, GoneOn, TopFrame DEF Frames
<1>2. CASE n > 0
  BY <1>1, <1>2 DEF Progress, Erred
<1>3. CASE Erred
  BY <1>1, <1>3 DEF Progress, Erred
<1>4. CASE n = 0 /\ ~ Erred
  <2>1. PICK V \in SUBSET TreeEntries : Covers(V)
    BY <1>4 DEF Progress, AtFile
  <2>2. cur \in Files /\ cur \notin Dirs
    BY DEF ArchiveTypes, ArchiveSetting
  <2>3. PICK W \in SUBSET TreeEntries : W = V \cup {cur}
    BY <2>2 DEF TreeEntries
  <2>4. Covers(W)'
    <3>1. \A e : Ahead(e) => Ahead(e)'
      BY <1>1 DEF Ahead
    <3>2. \A e : Gone(e) => Gone(e)'
      BY DEF Gone, Archive!tree
    <3>3. \A f \in W \cap Files : Kept(f)' /\ ~ At(f)'
      BY <1>4, <2>1, <2>2, <2>3 DEF Covers, Kept, At, Archive!tree
    <3>4. \A d \in W \cap Dirs : d \in V
      BY <2>2, <2>3
    <3> QED BY <2>1, <2>3, <3>1, <3>2, <3>3, <3>4 DEF Covers, At
  <2> QED BY <2>4 DEF Progress
<1> QED BY <1>2, <1>3, <1>4

\* What the run has done, and what is left, is kept together.
LEMMA ProgressKept ==
    ASSUME ArchiveSetting, ArchiveInv, ArchiveTypes', Times', TimesTell',
           [Archive!Next]_(Archive!vars)
    PROVE  Progress'
<1> SUFFICES ASSUME pc' # "off" PROVE Progress'
  BY DEF Progress
<1>0. ArchiveTypes /\ Times /\ TimesTell /\ Progress
  BY DEF ArchiveInv
<1>1. CASE Archive!Start
  <2>1. /\ stack' = <<Archive!Frame(Root)>> /\ pc' = "loop"
        /\ \A f \in Files \ exists : base'[f] = -1
    BY <1>1 DEF Archive!Start, Archive!user
  <2>2. Len(stack') = 1 /\ stack'[1].todo = Contents[Root] \cap exists
    BY <2>1 DEF Archive!Frame
  <2>3. \A e \in Contents[Root] : Ahead(e)' \/ Gone(e)'
    BY <1>0, <2>1, <2>2 DEF Ahead, Gone, ArchiveTypes
  <2>4. Covers({Root})'
    BY <2>1, <2>3 DEF Covers, ArchiveSetting
  <2> QED BY <2>4 DEF Progress, ArchiveSetting, TreeEntries
<1>2. CASE Archive!ReadDir
  <2>1. /\ pc = "loop" /\ pc' = "stat" /\ Len(stack') = Len(stack)
        /\ \A i \in 1 .. Len(stack) : /\ stack[i].todo \ {cur'} \subseteq stack'[i].todo
                                      /\ stack'[i].errors = stack[i].errors
    BY <1>0, <1>2, EntryRead DEF Archive!ReadDir
  <2>2. CASE Erred
    BY <2>1, <2>2 DEF Erred, Progress
  <2>3. CASE ~ Erred
    <3>1. PICK V \in SUBSET TreeEntries : Covers(V)
      BY <1>0, <2>1, <2>3 DEF Progress
    <3>2. PICK W \in SUBSET TreeEntries : W = V \ ({cur'} \cap Files)
      OBVIOUS
    <3>3. \A e : Ahead(e) => Ahead(e)' \/ At(e)'
      BY <2>1 DEF Ahead, At
    <3>4. \A e : Gone(e)' <=> Gone(e)
      BY <1>2 DEF Archive!ReadDir, Archive!tree, Gone
    <3>5. \A d \in W \cap Dirs : \A e \in Contents[d] :
             e \in W \/ At(e)' \/ Ahead(e)' \/ Gone(e)'
      BY <2>1, <3>1, <3>2, <3>3, <3>4 DEF Covers, At
    <3>6. \A f \in W \cap Files : Kept(f)' /\ ~ At(f)'
      BY <1>2, <3>1, <3>2 DEF Covers, At, Kept, Archive!ReadDir, Archive!tree
    <3>7. Covers(W)'
      BY <3>1, <3>2, <3>5, <3>6 DEF Covers, ArchiveSetting
    <3> QED BY <3>7 DEF Progress
  <2> QED BY <2>2, <2>3
<1>3. CASE Archive!EndOfDir
  <2>1. Len(stack) # 1 /\ pc = "loop" /\ pc' = pc /\ Archive!Top.todo \cap exists = {}
    BY <1>3 DEF Archive!EndOfDir, Archive!Exit
  <2>2. /\ Len(stack') = Len(stack) - 1
        /\ \A i \in 1 .. Len(stack) - 1 :
              stack'[i].todo = stack[i].todo /\ stack'[i].errors >= stack[i].errors
        /\ Archive!Top.errors > 0 => stack'[Len(stack) - 1].errors > 0
    BY <1>0, <1>3, <2>1, DirLeft
  <2>3. /\ Len(stack) \in Nat \ {0} /\ Archive!Top = stack[Len(stack)]
        /\ Len(stack) - 1 \in 1 .. Len(stack) - 1
        /\ \A i \in 1 .. Len(stack) : stack[i].errors \in Nat
        /\ \A i \in 1 .. Len(stack') : stack'[i].errors \in Nat
    <3>1. Len(stack) \in Nat /\ Len(stack) # 0 /\ Archive!Top = stack[Len(stack)]
          /\ \A i \in 1 .. Len(stack) : stack[i] \in Frames
      BY <1>0, <2>1, TopFrame
    <3>2. \A m \in Nat : m # 0 /\ m # 1 => m - 1 \in 1 .. m - 1
      OBVIOUS
    <3>3. Len(stack) - 1 \in 1 .. Len(stack) - 1
      BY <2>1, <3>1, <3>2
    <3>4. \A i \in 1 .. Len(stack') : stack'[i] \in Frames
      BY <1>0, <1>3, <2>1, DirLeft
    <3> QED BY <3>1, <3>3, <3>4 DEF Frames
  <2>4. CASE Erred
    <3>1. PICK i \in 1 .. Len(stack) : stack[i].errors > 0
      BY <2>4 DEF Erred
    <3>2. i = Len(stack) \/ i \in 1 .. Len(stack) - 1
      BY <2>3
    <3> QED BY <2>2, <2>3, <3>1, <3>2 DEF Progress, Erred
  <2>5. CASE ~ Erred
    <3>1. PICK V \in SUBSET TreeEntries : Covers(V)
      BY <1>0, <2>1, <2>5 DEF Progress
    <3>2. \A e : e \in Archive!Top.todo => Gone(e)
      BY <1>0, <2>1 DEF Gone, Times, ArchiveTypes
    <3>3. \A e : Ahead(e) => Ahead(e)' \/ Gone(e)
      <4> SUFFICES ASSUME NEW e, NEW i \in 1 .. Len(stack), e \in stack[i].todo
                   PROVE  Ahead(e)' \/ Gone(e)
        BY DEF Ahead
      <4>1. i = Len(stack) \/ i \in 1 .. Len(stack) - 1
        BY <2>3
      <4> QED BY <2>2, <2>3, <3>2, <4>1 DEF Ahead
    <3>4. UNCHANGED <<spoilt, arch, base>>
      BY <1>3 DEF Archive!EndOfDir, Archive!tree
    <3>5. Covers(V)'
      BY <2>1, <3>1, <3>3, <3>4 DEF Covers, At, Kept, Gone
    <3> QED BY <3>5 DEF Progress
  <2> QED BY <2>4, <2>5
<1>4. CASE Archive!EnterDir
  <2>1. /\ pc = "stat" /\ pc' = "loop" /\ cur \in Dirs
        /\ stack' = Append(stack, Archive!Frame(cur))
        /\ UNCHANGED <<spoilt, arch, base>>
    BY <1>4 DEF Archive!EnterDir, Archive!tree
  <2>2. /\ Len(stack) \in Nat /\ Len(stack') = Len(stack) + 1
        /\ \A i \in 1 .. Len(stack) : stack'[i] = stack[i]
        /\ stack'[Len(stack) + 1] = Archive!Frame(cur)
    <3>1. stack \in Seq(Frames) /\ Archive!Frame(cur) \in Frames
      BY <1>0, <2>1 DEF ArchiveTypes, Archive!Frame, Frames, ArchiveSetting
    <3> QED BY <2>1, <3>1, AppendProperties
  <2>3. CASE Erred
    BY <2>2, <2>3 DEF Erred, Progress
  <2>4. CASE ~ Erred
    <3>1. PICK V \in SUBSET TreeEntries : Covers(V)
      BY <1>0, <2>1, <2>4 DEF Progress
    <3>2. PICK W \in SUBSET TreeEntries : W = V \cup {cur}
      BY <2>1 DEF TreeEntries
    <3>3. \A e : Ahead(e) => Ahead(e)'
      BY <2>2 DEF Ahead
    <3>4. \A e \in Contents[cur] : Ahead(e)' \/ Gone(e)
      <4>1. \A e \in Contents[cur] \cap exists : e \in stack'[Len(stack) + 1].todo
        BY <2>2 DEF Archive!Frame
      <4>2. \A e \in Contents[cur] \ exists : Gone(e)
        BY <1>0 DEF Gone, Times, ArchiveTypes
      <4>3. Len(stack) + 1 \in 1 .. Len(stack')
        BY <2>2
      <4> QED BY <4>1, <4>2, <4>3 DEF Ahead
    <3>5. \A e : Gone(e) => Gone(e)'
      BY <2>1 DEF Gone
    <3>6. \A f \in W \cap Files : Kept(f)' /\ ~ At(f)'
      BY <2>1, <3>1, <3>2 DEF Covers, At, Kept, ArchiveSetting
    <3>7. \A d \in W \cap Dirs : \A e \in Contents[d] :
             e \in W \/ At(e)' \/ Ahead(e)' \/ Gone(e)'
      BY <2>1, <3>1, <3>2, <3>3, <3>4, <3>5 DEF Covers, At
    <3>8. Covers(W)'
      BY <3>1, <3>2, <3>6, <3>7 DEF Covers
    <3> QED BY <3>8 DEF Progress
  <2> QED BY <2>3, <2>4
<1>5. CASE Archive!StatOther
  <2>1. pc = "stat" /\ Archive!GoOn(1)
    BY <1>5 DEF Archive!StatOther
  <2>2. /\ Len(stack') = Len(stack) /\ stack'[Len(stack)].errors > 0
        /\ Len(stack) \in 1 .. Len(stack)
    BY <1>0, <2>1, GoneOn, TopFrame
  <2> QED BY <2>2 DEF Progress, Erred
<1>6. CASE Archive!Compare
  <2>1. pc = "compare" /\ pc \in AtFile /\ UNCHANGED Archive!tree /\ cur \in Files
    BY <1>0, <1>6 DEF Archive!Compare, AtFile, ArchiveTypes
  <2>2. CASE pc' = "open" /\ UNCHANGED <<stack, cur>>
    BY <1>0, <2>1, <2>2, SameFrames DEF Archive!tree, Kept
  <2>3. CASE ~ (arch[cur].mtime < seen) /\ Archive!GoOn(0)
    <3>1. Kept(cur)
      <4>1. arch[cur].mtime \in Int /\ seen \in Int
        BY <1>0, <2>1 DEF ArchiveTypes, Versions
      <4> QED BY <1>0, <2>1, <2>3, <4>1 DEF TimesTell, Kept
    <3> QED BY <1>0, <2>1, <2>3, <3>1, FileDone DEF Archive!GoOn
  <2> QED BY <1>6, <2>2, <2>3 DEF Archive!Compare, Archive!timespec_less
<1>7. CASE Archive!GzipEnded
  <2>1. pc = "gzip" /\ pc \in AtFile /\ UNCHANGED Archive!tree /\ cur \in Files /\ cur \notin gzips
    BY <1>0, <1>7 DEF Archive!GzipEnded, AtFile, ArchiveTypes
  <2>2. CASE copy[cur] = Archive!NoFile /\ Archive!GoOn(0)
    <3>1. Kept(cur)
      BY <1>0, <2>1, <2>2 DEF TimesTell, Kept
    <3> QED BY <1>0, <2>1, <2>2, <3>1, FileDone DEF Archive!GoOn
  <2>3. CASE Archive!GoOn(1)
    <3>1. pc' = "loop" /\ 1 \in Nat /\ (1 = 0 => Kept(cur))
      BY <2>3 DEF Archive!GoOn
    <3> QED BY <1>0, <2>1, <2>3, <3>1, FileDone
  <2> QED BY <1>7, <2>2, <2>3 DEF Archive!GzipEnded
<1>8. CASE Archive!CopyFails \/ Archive!ExecFails
  <2>1. /\ pc' = "loop" /\ 1 \in Nat /\ (1 = 0 => Kept(cur)) /\ Archive!GoOn(1)
        /\ pc \in AtFile /\ UNCHANGED Archive!tree
    BY <1>8 DEF Archive!CopyFails, Archive!ExecFails, Archive!GoOn, AtFile, Archive!tree
  <2> QED BY <1>0, <2>1, FileDone
<1>9. CASE Archive!StatFile \/ Archive!Read
  BY <1>0, <1>9, SameFrames DEF Archive!StatFile, Archive!Read, Archive!tree, Kept
<1>10. CASE Archive!OpenCopy \/ Archive!Write \/ Archive!ShortWrite
  <2>1. spoilt \subseteq spoilt' /\ UNCHANGED <<stack, cur, arch, base>> /\ pc \notin {"off", "loop"} /\ pc' # "loop"
    BY <1>10 DEF Archive!OpenCopy, Archive!Write, Archive!ShortWrite, Archive!user
  <2> QED BY <1>0, <2>1, SameFrames DEF Kept
<1>11. CASE Archive!ForkGzip
  <2>1. \A f \in Files : Kept(f) /\ ~ At(f) => Kept(f)'
    BY <1>0, <1>11 DEF Archive!ForkGzip, Kept, At, ArchiveTypes
  <2> QED BY <1>0, <1>11, <2>1, SameFrames DEF Archive!ForkGzip
<1>12. CASE Archive!Vanished \/ Archive!OpenFails \/ Archive!ForkFails \/ Archive!Kill
  BY <1>12 DEF Archive!Vanished, Archive!OpenFails, Archive!ForkFails, Archive!Kill, Archive!Exit
<1>13. ASSUME NEW g \in Files, Archive!GzipDone(g) \/ Archive!GzipFails(g) PROVE Progress'
  <2>1. \A f \in Files : Kept(f) /\ ~ At(f) => Kept(f)'
    <3>1. /\ g \in gzips /\ spoilt \subseteq spoilt' /\ base' = base
          /\ \A f \in Files \ {g} : arch'[f] = arch[f]
      BY <1>0, <1>13 DEF Archive!GzipDone, Archive!GzipFails, ArchiveTypes
    <3>2. g \in spoilt \/ At(g)
      BY <1>0, <3>1 DEF TimesTell, At
    <3> QED BY <3>1, <3>2 DEF Kept
  <2> QED BY <1>0, <1>13, <2>1, SameFrames DEF Archive!GzipDone, Archive!GzipFails
<1>14. ASSUME NEW g \in Files, Archive!Modify(g) \/ Archive!Replace(g) PROVE Progress'
  <2>1. UNCHANGED <<spoilt, stack, pc, cur, arch, base>>
    BY <1>14 DEF Archive!Modify, Archive!Replace
  <2> QED BY <1>0, <2>1, SameFrames DEF Kept
<1>15. ASSUME NEW e \in Files \cup Others, Archive!Remove(e) PROVE Progress'
  <2>1. /\ \A f \in Files : base'[f] = base[f] \/ base'[f] = -1
        /\ UNCHANGED <<spoilt, stack, pc, cur, arch>>
    BY <1>15 DEF Archive!Remove
  <2>2. \A f \in Files : arch[f].ver >= -1
    BY <1>0 DEF Times, ArchiveTypes, Versions
  <2> QED BY <1>0, <2>1, <2>2, SameFrames DEF Kept
<1>16. CASE UNCHANGED Archive!vars
  BY <1>0, <1>16, SameFrames DEF Archive!vars, Kept
<1> QED
  BY <1>1, <1>2, <1>3, <1>4, <1>5, <1>6, <1>7, <1>8, <1>9, <1>10, <1>11, <1>12, <1>13, <1>14,
     <1>15, <1>16 DEF Archive!Next, Archive!BackupStep

\* A run that says that nothing went wrong has been everywhere.
LEMMA SuccessKept ==
    ASSUME ArchiveSetting, ArchiveInv, ArchiveTypes', Times', [Archive!Next]_(Archive!vars)
    PROVE  Archive!SuccessIsCurrent'
<1> SUFFICES ASSUME exit' = "ok", NEW f \in Files, f \notin spoilt'
             PROVE  arch'[f].ver >= base'[f]
  BY DEF Archive!SuccessIsCurrent
<1>0. ArchiveTypes /\ Times /\ TimesTell /\ Progress /\ Archive!SuccessIsCurrent
  BY DEF ArchiveInv
<1>1. CASE Archive!EndOfDir /\ pc' = "off"
  <2>1. /\ Len(stack) = 1 /\ Archive!Top.errors = 0 /\ pc = "loop"
        /\ Archive!Top.todo \cap exists = {}
    BY <1>0, <1>1 DEF Archive!EndOfDir, Archive!Exit
  <2>2. ~ Erred /\ \A e : Ahead(e) => e \in Archive!Top.todo
    BY <1>0, <2>1, TopFrame DEF Erred, Ahead
  <2>3. PICK V \in SUBSET TreeEntries : Covers(V)
    BY <1>0, <2>1, <2>2 DEF Progress
  <2>4. \A e : Ahead(e) => Gone(e)
    BY <1>0, <2>1, <2>2 DEF Gone, Times, ArchiveTypes
  <2>5. PICK W \in SUBSET TreeEntries : W = V \cup {e \in TreeEntries : Gone(e)}
    OBVIOUS
  <2>6. Root \in W /\ \A d \in W \cap Dirs : Contents[d] \subseteq W
    BY <2>1, <2>3, <2>4, <2>5 DEF Covers, At, Gone, ArchiveSetting
  <2>7. f \in W
    BY <2>6 DEF ArchiveSetting
  <2>8. UNCHANGED <<spoilt, arch, base>> /\ arch[f].ver >= -1
    BY <1>0, <1>1 DEF Archive!EndOfDir, Archive!tree, Times, ArchiveTypes, Versions
  <2> QED BY <2>3, <2>5, <2>7, <2>8 DEF Covers, Kept, Gone
<1>2. CASE pc = "off" /\ exit = "ok"
  <2>1. pc' = "off"
    BY DEF ArchiveTypes
  <2>2. \/ \E g \in Files : Archive!GzipDone(g) \/ Archive!GzipFails(g)
        \/ UNCHANGED <<spoilt, arch, base>>
        \/ \E g \in Files : Archive!Modify(g) \/ Archive!Replace(g)
        \/ \E e \in Files \cup Others : Archive!Remove(e)
    BY <1>2 DEF Archive!Next, Archive!BackupStep, Archive!Start, Archive!ReadDir, Archive!EndOfDir,
         Archive!Vanished, Archive!EnterDir, Archive!StatFile, Archive!StatOther, Archive!Compare,
         Archive!OpenFails, Archive!OpenCopy, Archive!Read, Archive!Write, Archive!ForkGzip,
         Archive!GzipEnded, Archive!ShortWrite, Archive!CopyFails, Archive!ForkFails, Archive!ExecFails,
         Archive!Kill, Archive!vars
  <2>3. spoilt \subseteq spoilt' /\ (base'[f] = base[f] \/ base'[f] = -1) /\ (arch'[f] = arch[f] \/ f \in gzips)
    BY <2>2 DEF Archive!GzipDone, Archive!GzipFails, Archive!Modify, Archive!Replace, Archive!Remove, ArchiveTypes
  <2>4. f \notin spoilt /\ arch'[f] = arch[f]
    BY <1>0, <1>2, <2>3 DEF TimesTell
  <2>5. arch[f].ver >= -1
    BY <1>0 DEF Times, ArchiveTypes, Versions
  <2> QED BY <1>0, <1>2, <2>3, <2>4, <2>5 DEF Archive!SuccessIsCurrent
<1>3. (Archive!EndOfDir /\ pc' = "off") \/ exit' # "ok" \/ UNCHANGED exit
  BY DEF Archive!Next, Archive!BackupStep, Archive!Start, Archive!ReadDir, Archive!EndOfDir,
         Archive!Vanished, Archive!EnterDir, Archive!StatFile, Archive!StatOther, Archive!Compare,
         Archive!OpenFails, Archive!OpenCopy, Archive!Read, Archive!Write, Archive!ForkGzip,
         Archive!GzipEnded, Archive!ShortWrite, Archive!CopyFails, Archive!ForkFails, Archive!ExecFails,
         Archive!Kill, Archive!vars, Archive!GzipDone, Archive!GzipFails, Archive!Modify,
         Archive!Replace, Archive!Remove, Archive!Exit, Archive!GoOn
<1>4. UNCHANGED exit => pc = "off" /\ exit = "ok"
  BY <1>0 DEF ArchiveTypes
<1> QED BY <1>1, <1>2, <1>3, <1>4

\* After a run of the backup that reports success every file but the spoilt ones
\* has an archive as new as the file was when the run began, whatever happened
\* to the runs before.
LEMMA ArchiveSound ==
    ASSUME ArchiveSetting
    PROVE  Archive!Init /\ [][Archive!Next]_(Archive!vars) => []Archive!SuccessIsCurrent
<1>1. Archive!Init => ArchiveInv
  BY ArchiveStart
<1>2. ArchiveInv /\ [Archive!Next]_(Archive!vars) => ArchiveInv'
  <2> SUFFICES ASSUME ArchiveInv, [Archive!Next]_(Archive!vars) PROVE ArchiveInv'
    OBVIOUS
  <2>1. ArchiveTypes' /\ Times'
    BY ArchiveTypesKept, TimesKept DEF ArchiveInv
  <2>2. TimesTell'
    BY <2>1, TimesTellKept DEF ArchiveInv
  <2> QED BY <2>1, <2>2, ProgressKept, SuccessKept DEF ArchiveInv
<1>3. ArchiveInv => Archive!SuccessIsCurrent
  BY DEF ArchiveInv
<1> QED BY <1>1, <1>2, <1>3, PTL

-----------------------------------------------------------------------------
(* Listing: an entry is in one place, still to be read, in the list of items *)
(* of a directory, or printed; and what was never met is in a directory that *)
(* is still to be listed, or an error is on record.                          *)

\* The tree, finite and with no entry in two directories; arguments are
\* distinct, and no argument is below another one.
ListEntries == Files \cup Others \cup (Dirs \ {Root})
Below(names, B) ==
    /\ names \cap B = {}
    /\ \A d \in (names \cup B) \cap Dirs : Contents[d] \subseteq B
ListSetting ==
    /\ Root \notin Files \cup Others /\ Root \in Dirs /\ IsFiniteSet(ListEntries)
    /\ Contents \in [Dirs -> SUBSET ListEntries]
    /\ \A d, e \in Dirs : d # e => Contents[d] \cap Contents[e] = {}
    /\ \A a \in ArgLists :
          /\ a \in Seq(ListEntries)
          /\ \A i, j \in 1 .. Len(a) : a[i] = a[j] => i = j
          /\ a # <<>> => \E B \in SUBSET ListEntries : Below({a[i] : i \in 1 .. Len(a)}, B)

\* Types; all frames but the innermost one are past the reading of their
\* directory, and what they have in their list is printed.
Calls == [todo : Seq(ListEntries), items : Seq(ListEntries), had_errors : {0, -1}]
Has(s, e) == \E n \in 1 .. Len(s) : s[n] = e
Distinct(s) == \A m, n \in 1 .. Len(s) : s[m] = s[n] => m = n
Printed(e) == Has(lines, e)
Passed(i) == i < Len(stack) \/ pc = "list"
ListTypes ==
    /\ args \in ArgLists /\ lines \in Seq(ListEntries) /\ stack \in Seq(Calls)
    /\ exists \subseteq ListEntries /\ always \subseteq exists
    /\ pc \in {"fill", "list", "done"} /\ status \in {0, -1}
    /\ pc = "done" <=> stack = <<>>

\* Where an entry is.
ToRead(e) == \E i \in 1 .. Len(stack) : Has(stack[i].todo, e)
ToList(e) == \E i \in 1 .. Len(stack) : Has(stack[i].items, e)
Met(e) == Printed(e) \/ ToRead(e) \/ ToList(e)
OnceToRead == \A i \in 1 .. Len(stack) :
    /\ Passed(i) => stack[i].todo = <<>>
    /\ Distinct(stack[i].todo)
    /\ \A e \in ListEntries : Has(stack[i].todo, e) => ~ Printed(e) /\ ~ ToList(e)
OnceToList == \A i \in 1 .. Len(stack) :
    /\ Distinct(stack[i].items)
    /\ \A e \in ListEntries : Has(stack[i].items, e) =>
          /\ Printed(e) <=> Passed(i)
          /\ \A j \in 1 .. Len(stack) : Has(stack[j].items, e) => i = j

\* Nothing below a directory that was not listed yet was met.
ListNames == IF args = <<>> THEN Contents[Root] ELSE {args[i] : i \in 1 .. Len(args)}
Fresh(B) ==
    /\ Below(ListNames, B)
    /\ \A e \in ListEntries : Met(e) => e \in ListNames \cup B
    /\ \A d \in (ListNames \cup B) \cap Dirs :
          ~ Printed(d) \/ ToList(d) => \A e \in Contents[d] : ~ Met(e)
Untouched == \E B \in SUBSET ListEntries : Fresh(B)

\* An error is on record, or everything that is there all the time and should
\* have been met was.
ListErred == \/ \E i \in 1 .. Len(stack) : stack[i].had_errors # 0
             \/ pc = "done" /\ status # 0
Overlooked == ~ ListErred =>
    /\ \A e \in ListNames \cap always : Met(e)
    /\ \A d \in ListEntries \cap Dirs : Printed(d) /\ ~ ToList(d)
          => \A e \in Contents[d] \cap always : Met(e)
Rooted == \A d \in ListEntries \cap Dirs : Contents[d] \cap always # {} => d \in always

\* The inductive invariant.
ListInv == /\ ListTypes /\ Distinct(lines) /\ OnceToRead /\ OnceToList
           /\ Untouched /\ Overlooked /\ Rooted

\* What is in a sequence, after its head was taken off or something was added.
LEMMA HasTail ==
    ASSUME NEW S, NEW s \in Seq(S), s # <<>>
    PROVE  /\ Head(s) \in S /\ Tail(s) \in Seq(S)
           /\ \A e : Has(s, e) <=> e = Head(s) \/ Has(Tail(s), e)
           /\ Distinct(s) => Distinct(Tail(s)) /\ ~ Has(Tail(s), Head(s))
<1>1. /\ Head(s) \in S /\ Tail(s) \in Seq(S) /\ Len(Tail(s)) = Len(s) - 1
      /\ Len(s) \in Nat /\ Len(s) # 0 /\ Head(s) = s[1]
      /\ \A m \in 1 .. Len(Tail(s)) : Tail(s)[m] = s[m + 1]
  BY HeadTailProperties
<1> DEFINE t == Tail(s)
           n == Len(s)
<1>2. \A m \in 1 .. n : m = 1 \/ (m - 1 \in 1 .. Len(t) /\ t[m - 1] = s[m])
  BY <1>1
<1>3. \A m \in 1 .. Len(t) : m + 1 \in 1 .. n /\ t[m] = s[m + 1] /\ m + 1 # 1
  BY <1>1
<1>4. 1 \in 1 .. n /\ Len(t) \in Nat /\ \A m, k \in 1 .. Len(t) : m + 1 = k + 1 => m = k
  BY <1>1
<1>5. s[1] = Head(s)
  BY <1>1
<1> HIDE DEF t, n
<1>6. \A e : Has(s, e) <=> e = Head(s) \/ Has(t, e)
  <2> TAKE e
  <2>1. Has(s, e) => e = Head(s) \/ Has(t, e)
    BY <1>2, <1>5 DEF Has, n
  <2>2. Has(t, e) => Has(s, e)
    BY <1>3 DEF Has, n
  <2>3. Has(s, Head(s))
    BY <1>4, <1>5 DEF Has, n
  <2> QED BY <2>1, <2>2, <2>3
<1>7. Distinct(s) => Distinct(t)
  BY <1>3, <1>4 DEF Distinct, n
<1>8. Distinct(s) => ~ Has(t, Head(s))
  BY <1>3, <1>4, <1>5 DEF Distinct, Has, n
<1> QED BY <1>1, <1>6, <1>7, <1>8 DEF t

LEMMA HasAppend ==
    ASSUME NEW S, NEW s \in Seq(S), NEW x \in S
    PROVE  /\ Append(s, x) \in Seq(S)
           /\ \A e : Has(Append(s, x), e) <=> e = x \/ Has(s, e)
           /\ Distinct(s) /\ ~ Has(s, x) => Distinct(Append(s, x))
<1> DEFINE t == Append(s, x)
<1>1. /\ t \in Seq(S) /\ Len(s) \in Nat /\ Len(t) = Len(s) + 1 /\ t[Len(s) + 1] = x
      /\ \A m \in 1 .. Len(s) : t[m] = s[m]
  BY AppendProperties
<1> HIDE DEF t
<1>2. /\ \A m \in 1 .. Len(t) : m = Len(s) + 1 \/ m \in 1 .. Len(s)
      /\ \A m \in 1 .. Len(s) : m \in 1 .. Len(t)
      /\ Len(s) + 1 \in 1 .. Len(t)
  BY <1>1
<1>3. \A e : Has(t, e) <=> e = x \/ Has(s, e)
  BY <1>1, <1>2 DEF Has
<1>4. Distinct(s) /\ ~ Has(s, x) => Distinct(t)
  BY <1>1, <1>2 DEF Has, Distinct
<1> QED BY <1>1, <1>3, <1>4 DEF t

LEMMA HasConcat ==
    ASSUME NEW S, NEW s \in Seq(S), NEW t \in Seq(S)
    PROVE  /\ s \o t \in Seq(S)
           /\ \A e : Has(s \o t, e) <=> Has(s, e) \/ Has(t, e)
           /\ Distinct(s) /\ Distinct(t) /\ (\A e \in S : ~ (Has(s, e) /\ Has(t, e)))
                 => Distinct(s \o t)
<1> DEFINE u == s \o t
<1>1. /\ u \in Seq(S) /\ Len(s) \in Nat /\ Len(t) \in Nat /\ Len(u) = Len(s) + Len(t)
      /\ \A m \in 1 .. Len(u) : u[m] = IF m <= Len(s) THEN s[m] ELSE t[m - Len(s)]
  BY ConcatProperties
<1> HIDE DEF u
<1>2. \A m \in 1 .. Len(u) : \/ m \in 1 .. Len(s) /\ u[m] = s[m]
                             \/ /\ m - Len(s) \in 1 .. Len(t) /\ u[m] = t[m - Len(s)]
                                /\ m = Len(s) + (m - Len(s))
  BY <1>1
<1>3. /\ \A m \in 1 .. Len(s) : m \in 1 .. Len(u) /\ u[m] = s[m]
      /\ \A m \in 1 .. Len(t) : Len(s) + m \in 1 .. Len(u) /\ u[Len(s) + m] = t[m]
  <2>1. \A m \in 1 .. Len(s) : m \in 1 .. Len(u) /\ u[m] = s[m]
    BY <1>1
  <2>2. ASSUME NEW m \in 1 .. Len(t)
        PROVE  Len(s) + m \in 1 .. Len(u) /\ u[Len(s) + m] = t[m]
    <3>1. Len(s) + m \in 1 .. Len(u) /\ ~ (Len(s) + m <= Len(s)) /\ (Len(s) + m) - Len(s) = m
      BY <1>1
    <3> QED BY <1>1, <3>1
  <2> QED BY <2>1, <2>2
<1>4. \A e : Has(u, e) <=> Has(s, e) \/ Has(t, e)
  BY <1>2, <1>3 DEF Has
<1>5. (\A m \in 1 .. Len(s) : s[m] \in S) /\ (\A m \in 1 .. Len(t) : t[m] \in S)
  OBVIOUS
<1>6. ASSUME Distinct(s), Distinct(t), \A e \in S : ~ (Has(s, e) /\ Has(t, e)),
             NEW m \in 1 .. Len(u), NEW k \in 1 .. Len(u), u[m] = u[k]
      PROVE  m = k
  <2>1. CASE m \in 1 .. Len(s) /\ u[m] = s[m] /\ k \in 1 .. Len(s) /\ u[k] = s[k]
    BY <1>6, <2>1 DEF Distinct
  <2>2. CASE /\ m - Len(s) \in 1 .. Len(t) /\ u[m] = t[m - Len(s)]
             /\ k - Len(s) \in 1 .. Len(t) /\ u[k] = t[k - Len(s)]
    <3>1. m - Len(s) = k - Len(s)
      BY <1>6, <2>2 DEF Distinct
    <3> QED BY <1>1, <3>1
  <2>3. \A i \in 1 .. Len(s), j \in 1 .. Len(t) : s[i] # t[j]
    BY <1>5, <1>6 DEF Has
  <2> QED BY <1>2, <1>6, <2>1, <2>2, <2>3
<1>7. Distinct(s) /\ Distinct(t) /\ (\A e \in S : ~ (Has(s, e) /\ Has(t, e))) => Distinct(u)
  BY <1>6 DEF Distinct
<1> QED BY <1>1, <1>4, <1>7 DEF u

\* A directory, read in some order.
LEMMA HasOrder ==
    ASSUME ListSetting, NEW T \in SUBSET ListEntries, NEW s \in List!Orders(T)
    PROVE  /\ s \in Seq(ListEntries) /\ Distinct(s)
           /\ \A e : Has(s, e) <=> e \in T
<1>1. IsFiniteSet(T) /\ Cardinality(T) \in Nat
  BY FS_Subset, FS_CardinalityType DEF ListSetting
<1>2. List!Cardinality(T) = Cardinality(T)
  BY DEF List!Cardinality, Cardinality
<1>3. s \in [1 .. Cardinality(T) -> T] /\ \A i, j \in DOMAIN s : s[i] = s[j] => i = j
  BY <1>2 DEF List!Orders
<1> DEFINE n == Cardinality(T)
<1> HIDE DEF n
<1>4. n \in Nat /\ s \in [1 .. n -> T] /\ DOMAIN s = 1 .. n /\ s \in Seq(T) /\ Len(s) = n
  BY <1>1, <1>3 DEF n
<1>5. s \in Seq(ListEntries)
  BY <1>4
<1>6. s \in Injection(1 .. n, T)
  BY <1>3, <1>4 DEF Injection, IsInjective
<1>7. IsFiniteSet(1 .. n) /\ Cardinality(1 .. n) = n
  BY <1>4, FS_Interval
<1>8. s \in Surjection(1 .. n, T)
  BY <1>1, <1>6, <1>7, FS_Injection DEF n
<1>9. \A e \in T : \E m \in 1 .. n : s[m] = e
  BY <1>8 DEF Surjection
<1>10. \A e : Has(s, e) <=> e \in T
  BY <1>4, <1>9 DEF Has
<1> QED BY <1>3, <1>4, <1>5, <1>10 DEF Distinct

\* The innermost call.
LEMMA TopCall ==
    ASSUME ListTypes, pc # "done"
    PROVE  /\ Len(stack) \in Nat /\ Len(stack) # 0 /\ Len(stack) \in 1 .. Len(stack)
           /\ List!Top = stack[Len(stack)]
           /\ \A i \in 1 .. Len(stack) :
                 /\ stack[i] \in Calls /\ stack[i].had_errors \in {0, -1}
                 /\ stack[i].todo \in Seq(ListEntries) /\ stack[i].items \in Seq(ListEntries)
                 /\ Len(stack[i].todo) \in Nat /\ Len(stack[i].items) \in Nat
<1>1. stack \in Seq(Calls) /\ stack # <<>> /\ List!Top = stack[Len(stack)]
  BY DEF ListTypes, List!Top
<1>2. \A c \in Calls : /\ c.had_errors \in {0, -1} /\ c.todo \in Seq(ListEntries)
                       /\ c.items \in Seq(ListEntries)
  BY DEF Calls
<1>3. \A i \in 1 .. Len(stack) : stack[i] \in Calls
  BY <1>1
<1>4. \A s \in Seq(ListEntries) : Len(s) \in Nat
  OBVIOUS
<1>5. Len(stack) \in Nat /\ Len(stack) # 0 /\ Len(stack) \in 1 .. Len(stack)
  BY <1>1
<1> QED BY <1>1, <1>2, <1>3, <1>4, <1>5

\* A change of the innermost call.
LEMMA CallChanged ==
    ASSUME ListTypes, pc # "done", NEW g \in Calls, stack' = [stack EXCEPT ![Len(stack)] = g]
    PROVE  /\ stack' \in Seq(Calls) /\ stack' # <<>> /\ Len(stack') = Len(stack)
           /\ stack'[Len(stack)] = g
           /\ \A i \in 1 .. Len(stack) : i # Len(stack) => stack'[i] = stack[i]
<1>1. stack \in Seq(Calls) /\ Len(stack) \in 1 .. Len(stack)
  BY TopCall DEF ListTypes
<1>2. /\ stack' \in Seq(Calls) /\ Len(stack') = Len(stack)
      /\ \A j \in 1 .. Len(stack) : stack'[j] = IF j = Len(stack) THEN g ELSE stack[j]
  BY <1>1, ExceptSeq
<1>3. stack' # <<>>
  BY <1>1, <1>2
<1> QED BY <1>1, <1>2, <1>3

\* readdir_r() and fstatat(), of an entry that is there.
LEMMA Filled ==
    ASSUME ListTypes, List!FillItem, Head(List!Top.todo) \in exists
    PROVE  LET n == Len(stack) IN
           /\ stack' \in Seq(Calls) /\ stack' # <<>> /\ Len(stack') = n
           /\ \A i \in 1 .. n : i # n => stack'[i] = stack[i]
           /\ stack[n].todo # <<>> /\ pc = "fill" /\ pc' = pc /\ status' = status
           /\ stack'[n].todo = Tail(stack[n].todo)
           /\ stack'[n].items = Append(stack[n].items, Head(stack[n].todo))
           /\ stack'[n].had_errors = stack[n].had_errors
<1> DEFINE c == stack[Len(stack)]
           e == Head(c.todo)
           t == Tail(c.todo)
           s == Append(c.items, e)
           g == [c EXCEPT !.todo = t, !.items = s]
<1>1. pc = "fill" /\ pc # "done" /\ c.todo # <<>> /\ pc' = pc /\ status' = status
  BY TopCall DEF List!FillItem
<1>2. /\ c \in Calls /\ c.todo \in Seq(ListEntries) /\ c.items \in Seq(ListEntries)
      /\ Len(stack) \in 1 .. Len(stack)
  BY <1>1, TopCall
<1>3. stack' = [stack EXCEPT ![Len(stack)].todo = t, ![Len(stack)].items = s]
  BY <1>1, TopCall DEF List!FillItem
<1>4. t \in Seq(ListEntries) /\ s \in Seq(ListEntries)
  BY <1>1, <1>2, HeadTailProperties, AppendProperties
<1>5. stack' = [stack EXCEPT ![Len(stack)] = g]
  BY <1>2, <1>3 DEF ListTypes
<1>6. g \in Calls /\ g.todo = t /\ g.items = s /\ g.had_errors = c.had_errors
  BY <1>2, <1>4 DEF Calls
<1> HIDE DEF g
<1>7. /\ stack' \in Seq(Calls) /\ stack' # <<>> /\ Len(stack') = Len(stack)
      /\ stack'[Len(stack)] = g
      /\ \A i \in 1 .. Len(stack) : i # Len(stack) => stack'[i] = stack[i]
  BY <1>1, <1>5, <1>6, CallChanged
<1> QED BY <1>1, <1>6, <1>7

\* readdir_r(), of an entry that is not.
LEMMA WasOverlooked ==
    ASSUME ListTypes, List!Overlook
    PROVE  LET n == Len(stack) IN
           /\ stack' \in Seq(Calls) /\ stack' # <<>> /\ Len(stack') = n
           /\ \A i \in 1 .. n : i # n => stack'[i] = stack[i]
           /\ stack[n].todo # <<>> /\ pc = "fill" /\ Head(stack[n].todo) \notin exists
           /\ stack'[n].todo = Tail(stack[n].todo)
           /\ stack'[n].items = stack[n].items
           /\ stack'[n].had_errors = stack[n].had_errors
<1> DEFINE c == stack[Len(stack)]
           t == Tail(c.todo)
           g == [c EXCEPT !.todo = t, !.items = c.items]
<1>1. pc = "fill" /\ pc # "done" /\ c.todo # <<>> /\ Head(c.todo) \notin exists
  BY TopCall DEF List!Overlook
<1>2. /\ c \in Calls /\ c.todo \in Seq(ListEntries) /\ c.items \in Seq(ListEntries)
      /\ Len(stack) \in 1 .. Len(stack)
  BY <1>1, TopCall
<1>3. stack' = [stack EXCEPT ![Len(stack)].todo = t]
  BY <1>1, TopCall DEF List!Overlook
<1>4. t \in Seq(ListEntries)
  BY <1>1, <1>2, HeadTailProperties
<1>5. stack' = [stack EXCEPT ![Len(stack)] = [c EXCEPT !.todo = t]]
  BY <1>2, <1>3 DEF ListTypes
<1>6. g \in Calls /\ g.todo = t /\ g.items = c.items /\ g.had_errors = c.had_errors
  BY <1>2, <1>4 DEF Calls
<1>7. [c EXCEPT !.todo = t] = g
  BY <1>2 DEF Calls
<1>8. stack' = [stack EXCEPT ![Len(stack)] = g]
  BY <1>5, <1>7
<1> HIDE DEF g
<1>9. /\ stack' \in Seq(Calls) /\ stack' # <<>> /\ Len(stack') = Len(stack)
      /\ stack'[Len(stack)] = g
      /\ \A i \in 1 .. Len(stack) : i # Len(stack) => stack'[i] = stack[i]
  BY <1>1, <1>6, <1>8, CallChanged
<1> QED BY <1>1, <1>6, <1>9

\* list_items(), of an item that is no directory or cannot be opened.
LEMMA ItemDone ==
    ASSUME ListTypes, List!NoDir \/ List!OpenFails
    PROVE  LET n == Len(stack) IN
           /\ stack' \in Seq(Calls) /\ stack' # <<>> /\ Len(stack') = n
           /\ \A i \in 1 .. n : i # n => stack'[i] = stack[i]
           /\ stack[n].items # <<>> /\ pc = "list"
           /\ stack'[n].todo = stack[n].todo
           /\ stack'[n].items = Tail(stack[n].items)
           /\ \/ Head(stack[n].items) \notin Dirs /\ stack'[n].had_errors = stack[n].had_errors
              \/ stack'[n].had_errors = -1
<1> DEFINE c == stack[Len(stack)]
           s == Tail(c.items)
           g == [c EXCEPT !.todo = c.todo, !.items = s]
           h == [c EXCEPT !.items = s, !.had_errors = -1]
<1>1. pc = "list" /\ pc # "done" /\ c.items # <<>>
  BY TopCall DEF List!NoDir, List!OpenFails
<1>2. /\ c \in Calls /\ c.todo \in Seq(ListEntries) /\ c.items \in Seq(ListEntries)
      /\ Len(stack) \in 1 .. Len(stack)
  BY <1>1, TopCall
<1>3. s \in Seq(ListEntries)
  BY <1>1, <1>2, HeadTailProperties
<1>4. /\ g \in Calls /\ g.todo = c.todo /\ g.items = s /\ g.had_errors = c.had_errors
      /\ h \in Calls /\ h.todo = c.todo /\ h.items = s /\ h.had_errors = -1
  BY <1>2, <1>3 DEF Calls
<1>5. [c EXCEPT !.items = s] = g
  BY <1>2 DEF Calls
<1>6. List!NoDir => stack' = [stack EXCEPT ![Len(stack)] = g] /\ Head(c.items) \notin Dirs
  <2>1. List!NoDir => /\ stack' = [stack EXCEPT ![Len(stack)].items = s]
                      /\ Head(c.items) \notin Dirs
    BY <1>1, TopCall DEF List!NoDir
  <2>2. List!NoDir => stack' = [stack EXCEPT ![Len(stack)] = [c EXCEPT !.items = s]]
    BY <1>2, <2>1 DEF ListTypes
  <2> QED BY <1>5, <2>1, <2>2
<1>7. List!OpenFails => stack' = [stack EXCEPT ![Len(stack)] = h]
  <2>1. List!OpenFails =>
          stack' = [stack EXCEPT ![Len(stack)].items = s, ![Len(stack)].had_errors = -1]
    BY <1>1, TopCall DEF List!OpenFails
  <2> QED BY <1>2, <2>1 DEF ListTypes
<1> HIDE DEF g, h
<1>8. CASE List!NoDir
  <2>1. /\ stack' \in Seq(Calls) /\ stack' # <<>> /\ Len(stack') = Len(stack)
        /\ stack'[Len(stack)] = g
        /\ \A i \in 1 .. Len(stack) : i # Len(stack) => stack'[i] = stack[i]
    BY <1>1, <1>4, <1>6, <1>8, CallChanged
  <2> QED BY <1>1, <1>4, <1>6, <1>8, <2>1
<1>9. CASE List!OpenFails
  <2>1. /\ stack' \in Seq(Calls) /\ stack' # <<>> /\ Len(stack') = Len(stack)
        /\ stack'[Len(stack)] = h
        /\ \A i \in 1 .. Len(stack) : i # Len(stack) => stack'[i] = stack[i]
    BY <1>1, <1>4, <1>7, <1>9, CallChanged
  <2> QED BY <1>1, <1>4, <2>1
<1> QED BY <1>8, <1>9

\* list_dir(), of a directory that can be opened.
LEMMA DirOpened ==
    ASSUME ListSetting, ListTypes, List!OpenDir
    PROVE  LET n == Len(stack)
               d == Head(stack[n].items)
           IN
           /\ stack' \in Seq(Calls) /\ stack' # <<>> /\ Len(stack') = n + 1
           /\ \A i \in 1 .. n : i # n => stack'[i] = stack[i]
           /\ stack[n].items # <<>> /\ pc = "list" /\ pc' = "fill" /\ d \in Dirs
           /\ stack'[n].todo = stack[n].todo
           /\ stack'[n].items = Tail(stack[n].items)
           /\ stack'[n].had_errors = stack[n].had_errors
           /\ stack'[n + 1].items = <<>> /\ stack'[n + 1].had_errors = 0
           /\ Distinct(stack'[n + 1].todo)
           /\ \A e : Has(stack'[n + 1].todo, e) <=> e \in Contents[d] \cap exists
<1> DEFINE n == Len(stack)
           c == stack[Len(stack)]
           d == Head(c.items)
           s == Tail(c.items)
           g == [c EXCEPT !.todo = c.todo, !.items = s]
           rest == [stack EXCEPT ![Len(stack)] = g]
<1>1. pc = "list" /\ pc # "done" /\ c.items # <<>> /\ d \in Dirs /\ pc' = "fill"
  BY TopCall DEF List!OpenDir
<1>2. /\ c \in Calls /\ c.todo \in Seq(ListEntries) /\ c.items \in Seq(ListEntries)
      /\ Len(stack) \in 1 .. Len(stack) /\ n \in Nat
  BY <1>1, TopCall
<1>3. s \in Seq(ListEntries)
  BY <1>1, <1>2, HeadTailProperties
<1>4. /\ g \in Calls /\ g.todo = c.todo /\ g.items = s /\ g.had_errors = c.had_errors
  BY <1>2, <1>3 DEF Calls
<1>5. [c EXCEPT !.items = s] = g
  BY <1>2 DEF Calls
<1>6. PICK todo \in List!Orders(Contents[d] \cap exists) :
         stack' = Append([stack EXCEPT ![Len(stack)].items = s], List!Frame(todo))
  BY <1>1, TopCall DEF List!OpenDir
<1>7. [stack EXCEPT ![Len(stack)].items = s] = rest
  BY <1>2, <1>5 DEF ListTypes
<1>8. Contents[d] \cap exists \in SUBSET ListEntries
  BY <1>1 DEF ListSetting
<1>9. /\ todo \in Seq(ListEntries) /\ Distinct(todo)
      /\ \A e : Has(todo, e) <=> e \in Contents[d] \cap exists
  BY <1>8, HasOrder
<1> HIDE DEF g, s
<1>10. /\ rest \in Seq(Calls) /\ Len(rest) = n
       /\ \A j \in 1 .. n : rest[j] = IF j = n THEN g ELSE stack[j]
  BY <1>2, <1>4, ExceptSeq DEF ListTypes
<1> DEFINE f == List!Frame(todo)
<1>11. f \in Calls /\ f.todo = todo /\ f.items = <<>> /\ f.had_errors = 0
  BY <1>9 DEF List!Frame, Calls
<1>12. stack' = Append(rest, f)
  BY <1>6, <1>7
<1> HIDE DEF rest, f
<1>13. /\ stack' \in Seq(Calls) /\ Len(stack') = n + 1 /\ stack'[n + 1] = f
       /\ \A j \in 1 .. n : stack'[j] = rest[j]
  BY <1>10, <1>11, <1>12, AppendProperties
<1>14. stack'[n] = g /\ \A j \in 1 .. n : j # n => stack'[j] = stack[j]
  BY <1>2, <1>10, <1>13
<1>15. stack' # <<>>
  BY <1>2, <1>13
<1> QED BY <1>1, <1>4, <1>9, <1>11, <1>13, <1>14, <1>15 DEF s

\* A function returns to the one that called it.
LEMMA Returned ==
    ASSUME ListTypes, pc # "done", NEW r \in {0, -1}, List!Return(r)
    PROVE  LET n == Len(stack) IN
           /\ stack' \in Seq(Calls) /\ Len(stack') = n - 1 /\ status' \in {0, -1}
           /\ \A i \in 1 .. n - 1 :
                 /\ stack'[i].todo = stack[i].todo /\ stack'[i].items = stack[i].items
                 /\ stack[i].had_errors # 0 => stack'[i].had_errors # 0
           /\ n = 1 => stack' = <<>> /\ pc' = "done" /\ status' = r
           /\ n # 1 => stack' # <<>> /\ pc' = "list" /\ n - 1 \in 1 .. n - 1
           /\ n # 1 /\ r # 0 => stack'[n - 1].had_errors # 0
<1> DEFINE n == Len(stack)
           s == SubSeq(stack, 1, n - 1)
           h == IF r < 0 THEN -1 ELSE stack[n - 1].had_errors
           g == [stack[n - 1] EXCEPT !.had_errors = h]
<1>1. /\ n \in Nat /\ n # 0 /\ stack \in Seq(Calls)
      /\ \A i \in 1 .. n : stack[i] \in Calls /\ stack[i].had_errors \in {0, -1}
  BY TopCall DEF ListTypes
<1>2. CASE n = 1
  <2>1. stack' = <<>> /\ pc' = "done" /\ status' = r
    BY <1>2 DEF List!Return
  <2> QED BY <1>1, <1>2, <2>1
<1>3. CASE n # 1
  <2>0. \A m \in Nat : m # 0 /\ m # 1 =>
          /\ m - 1 \in Nat /\ m - 1 \in 1 .. m - 1 /\ m - 1 \in 1 .. m
          /\ \A i \in 1 .. m - 1 : i \in 1 .. m
    OBVIOUS
  <2>1. /\ n - 1 \in Nat /\ n - 1 \in 1 .. n - 1 /\ n - 1 \in 1 .. n
        /\ \A i \in 1 .. n - 1 : i \in 1 .. n
    BY <1>1, <1>3, <2>0
  <2>2. /\ s \in Seq(Calls) /\ Len(s) = n - 1
        /\ \A i \in 1 .. n - 1 : s[i] = stack[i]
    BY <1>1, <2>1
  <2>3. /\ g \in Calls /\ g.todo = stack[n - 1].todo /\ g.items = stack[n - 1].items
        /\ g.had_errors = h
    BY <1>1, <2>1 DEF Calls
  <2>4. /\ stack' = [s EXCEPT ![n - 1].had_errors = IF r < 0 THEN -1 ELSE @]
        /\ pc' = "list" /\ status' = status
    BY <1>3 DEF List!Return
  <2>5. stack' = [s EXCEPT ![n - 1] = g]
    BY <2>1, <2>2, <2>4
  <2> HIDE DEF s, g
  <2>6. /\ stack' \in Seq(Calls) /\ Len(stack') = n - 1
        /\ \A j \in 1 .. n - 1 : stack'[j] = IF j = n - 1 THEN g ELSE s[j]
    BY <2>1, <2>2, <2>3, <2>5, ExceptSeq
  <2>7. /\ h = IF r = 0 THEN stack[n - 1].had_errors ELSE -1
    OBVIOUS
  <2>8. \A i \in 1 .. n - 1 :
                 /\ stack'[i].todo = stack[i].todo /\ stack'[i].items = stack[i].items
                 /\ stack[i].had_errors # 0 => stack'[i].had_errors # 0
    BY <2>2, <2>3, <2>6, <2>7
  <2>9. stack' # <<>>
    BY <2>1, <2>6
  <2>10. r # 0 => stack'[n - 1].had_errors # 0
    BY <2>1, <2>3, <2>6, <2>7
  <2> QED BY <1>3, <2>1, <2>4, <2>6, <2>8, <2>9, <2>10 DEF ListTypes
<1> QED BY <1>2, <1>3

\* Where the entries are after a step.
LEMMA FillMoves ==
    ASSUME ListTypes, List!FillItem, Head(List!Top.todo) \in exists
    PROVE  LET x == Head(stack[Len(stack)].todo) IN
           /\ x \in ListEntries /\ ToRead(x) /\ pc = "fill" /\ pc' = "fill"
           /\ Has(stack[Len(stack)].todo, x)
           /\ \A e : /\ Printed(e)' <=> Printed(e)
                     /\ ToList(e)' <=> e = x \/ ToList(e)
                     /\ ToRead(e)' => ToRead(e)
                     /\ ToRead(e) => e = x \/ ToRead(e)'
<1> DEFINE n == Len(stack)
           x == Head(stack[n].todo)
<1>1. /\ stack' \in Seq(Calls) /\ stack' # <<>> /\ Len(stack') = n
      /\ \A i \in 1 .. n : i # n => stack'[i] = stack[i]
      /\ stack[n].todo # <<>> /\ pc = "fill" /\ pc' = pc /\ status' = status
      /\ stack'[n].todo = Tail(stack[n].todo)
      /\ stack'[n].items = Append(stack[n].items, x)
  BY Filled
<1>2. n \in 1 .. n /\ stack[n].todo \in Seq(ListEntries) /\ stack[n].items \in Seq(ListEntries)
  BY <1>1, TopCall
<1>3. /\ x \in ListEntries
      /\ \A e : Has(stack[n].todo, e) <=> e = x \/ Has(Tail(stack[n].todo), e)
  BY <1>1, <1>2, HasTail
<1>4. \A e : Has(Append(stack[n].items, x), e) <=> e = x \/ Has(stack[n].items, e)
  BY <1>2, <1>3, HasAppend
<1>5. \A e : Printed(e)' <=> Printed(e)
  BY DEF Printed, List!FillItem
<1> HIDE DEF n, x
<1>6. ASSUME NEW e
      PROVE  /\ ToList(e)' <=> e = x \/ ToList(e)
             /\ ToRead(e)' => ToRead(e)
             /\ ToRead(e) => e = x \/ ToRead(e)'
  <2>1. \A i \in 1 .. n : Has(stack'[i].items, e) <=> Has(stack[i].items, e) \/ (i = n /\ e = x)
    BY <1>1, <1>4
  <2>2. \A i \in 1 .. n : Has(stack[i].todo, e) <=> Has(stack'[i].todo, e) \/ (i = n /\ e = x)
    BY <1>1, <1>3
  <2> QED BY <1>1, <1>2, <2>1, <2>2 DEF ToList, ToRead, n
<1>7. ToRead(x) /\ Has(stack[n].todo, x)
  BY <1>2, <1>3 DEF ToRead, n
<1> QED BY <1>1, <1>3, <1>5, <1>6, <1>7 DEF n, x

LEMMA OverlookMoves ==
    ASSUME ListTypes, List!Overlook
    PROVE  LET x == Head(stack[Len(stack)].todo) IN
           /\ x \in ListEntries \ exists /\ pc = "fill" /\ pc' = "fill"
           /\ \A e : /\ Printed(e)' <=> Printed(e)
                     /\ ToList(e)' <=> ToList(e)
                     /\ ToRead(e)' => ToRead(e)
                     /\ ToRead(e) => e = x \/ ToRead(e)'
<1> DEFINE n == Len(stack)
           x == Head(stack[n].todo)
<1>1. /\ stack' \in Seq(Calls) /\ stack' # <<>> /\ Len(stack') = n
      /\ \A i \in 1 .. n : i # n => stack'[i] = stack[i]
      /\ stack[n].todo # <<>> /\ pc = "fill" /\ x \notin exists
      /\ stack'[n].todo = Tail(stack[n].todo)
      /\ stack'[n].items = stack[n].items
  BY WasOverlooked
<1>2. n \in 1 .. n /\ stack[n].todo \in Seq(ListEntries)
  BY <1>1, TopCall
<1>3. /\ x \in ListEntries
      /\ \A e : Has(stack[n].todo, e) <=> e = x \/ Has(Tail(stack[n].todo), e)
  BY <1>1, <1>2, HasTail
<1>4. pc' = "fill" /\ \A e : Printed(e)' <=> Printed(e)
  BY <1>1 DEF Printed, List!Overlook
<1> HIDE DEF n, x
<1>5. ASSUME NEW e
      PROVE  /\ ToList(e)' <=> ToList(e)
             /\ ToRead(e)' => ToRead(e)
             /\ ToRead(e) => e = x \/ ToRead(e)'
  <2>1. \A i \in 1 .. n : Has(stack'[i].items, e) <=> Has(stack[i].items, e)
    BY <1>1
  <2>2. \A i \in 1 .. n : Has(stack[i].todo, e) <=> Has(stack'[i].todo, e) \/ (i = n /\ e = x)
    BY <1>1, <1>3
  <2> QED BY <1>1, <1>2, <2>1, <2>2 DEF ToList, ToRead, n
<1> QED BY <1>1, <1>3, <1>4, <1>5 DEF n, x

LEMMA PrintMoves ==
    ASSUME ListTypes, List!print_items
    PROVE  /\ pc = "fill" /\ pc' = "list" /\ stack' = stack /\ List!Top.todo = <<>>
           /\ List!Top = stack[Len(stack)]
           /\ \A e : /\ Printed(e)' <=> Printed(e) \/ Has(stack[Len(stack)].items, e)
                     /\ ToList(e)' <=> ToList(e)
                     /\ ToRead(e)' <=> ToRead(e)
<1>1. /\ pc = "fill" /\ pc' = "list" /\ stack' = stack /\ List!Top.todo = <<>>
      /\ lines' = lines \o List!Top.items
  BY DEF List!print_items
<1>2. /\ List!Top = stack[Len(stack)] /\ List!Top.items \in Seq(ListEntries)
      /\ lines \in Seq(ListEntries)
  BY <1>1, TopCall DEF ListTypes
<1>3. \A e : Has(lines \o List!Top.items, e) <=> Has(lines, e) \/ Has(List!Top.items, e)
  BY <1>2, HasConcat
<1> QED BY <1>1, <1>2, <1>3 DEF Printed, ToRead, ToList

LEMMA ItemMoves ==
    ASSUME ListTypes, List!NoDir \/ List!OpenFails
    PROVE  LET x == Head(stack[Len(stack)].items) IN
           /\ x \in ListEntries /\ ToList(x) /\ pc = "list" /\ pc' = "list"
           /\ Has(stack[Len(stack)].items, x)
           /\ \A e : /\ Printed(e)' <=> Printed(e)
                     /\ ToRead(e)' <=> ToRead(e)
                     /\ ToList(e)' => ToList(e)
                     /\ ToList(e) => e = x \/ ToList(e)'
<1> DEFINE n == Len(stack)
           x == Head(stack[n].items)
<1>1. /\ stack' \in Seq(Calls) /\ stack' # <<>> /\ Len(stack') = n
      /\ \A i \in 1 .. n : i # n => stack'[i] = stack[i]
      /\ stack[n].items # <<>> /\ pc = "list"
      /\ stack'[n].items = Tail(stack[n].items)
      /\ stack'[n].todo = stack[n].todo
  BY ItemDone
<1>2. n \in 1 .. n /\ stack[n].items \in Seq(ListEntries)
  BY <1>1, TopCall
<1>3. /\ x \in ListEntries
      /\ \A e : Has(stack[n].items, e) <=> e = x \/ Has(Tail(stack[n].items), e)
  BY <1>1, <1>2, HasTail
<1>4. pc' = "list" /\ \A e : Printed(e)' <=> Printed(e)
  BY <1>1 DEF Printed, List!NoDir, List!OpenFails
<1> HIDE DEF n, x
<1>5. ASSUME NEW e
      PROVE  /\ ToRead(e)' <=> ToRead(e)
             /\ ToList(e)' => ToList(e)
             /\ ToList(e) => e = x \/ ToList(e)'
  <2>1. \A i \in 1 .. n : Has(stack'[i].todo, e) <=> Has(stack[i].todo, e)
    BY <1>1
  <2>2. \A i \in 1 .. n : Has(stack[i].items, e) <=> Has(stack'[i].items, e) \/ (i = n /\ e = x)
    BY <1>1, <1>3
  <2> QED BY <1>1, <1>2, <2>1, <2>2 DEF ToList, ToRead, n
<1>6. ToList(x) /\ Has(stack[n].items, x)
  BY <1>2, <1>3 DEF ToList, n
<1> QED BY <1>1, <1>3, <1>4, <1>5, <1>6 DEF n, x

LEMMA OpenMoves ==
    ASSUME ListSetting, ListTypes, List!OpenDir
    PROVE  LET x == Head(stack[Len(stack)].items) IN
           /\ x \in ListEntries /\ x \in Dirs /\ ToList(x) /\ pc = "list" /\ pc' = "fill"
           /\ Has(stack[Len(stack)].items, x)
           /\ \A e : /\ Printed(e)' <=> Printed(e)
                     /\ ToRead(e)' <=> ToRead(e) \/ e \in Contents[x] \cap exists
                     /\ ToList(e)' => ToList(e)
                     /\ ToList(e) => e = x \/ ToList(e)'
<1> DEFINE n == Len(stack)
           x == Head(stack[n].items)
<1>1. /\ stack' \in Seq(Calls) /\ stack' # <<>> /\ Len(stack') = n + 1
      /\ \A i \in 1 .. n : i # n => stack'[i] = stack[i]
      /\ stack[n].items # <<>> /\ pc = "list" /\ pc' = "fill" /\ x \in Dirs
      /\ stack'[n].items = Tail(stack[n].items)
      /\ stack'[n].todo = stack[n].todo
      /\ stack'[n + 1].items = <<>>
      /\ \A e : Has(stack'[n + 1].todo, e) <=> e \in Contents[x] \cap exists
  BY DirOpened
<1>2. n \in 1 .. n /\ n \in Nat /\ stack[n].items \in Seq(ListEntries)
  BY <1>1, TopCall
<1>3. /\ x \in ListEntries
      /\ \A e : Has(stack[n].items, e) <=> e = x \/ Has(Tail(stack[n].items), e)
  BY <1>1, <1>2, HasTail
<1>4. \A e : Printed(e)' <=> Printed(e)
  BY <1>1 DEF Printed, List!OpenDir
<1> HIDE DEF n, x
<1>5. /\ \A i \in 1 .. n + 1 : i = n + 1 \/ i \in 1 .. n
      /\ \A i \in 1 .. n : i \in 1 .. n + 1 /\ i # n + 1
      /\ n + 1 \in 1 .. n + 1
  BY <1>2
<1>6. ASSUME NEW e
      PROVE  /\ ToRead(e)' <=> ToRead(e) \/ e \in Contents[x] \cap exists
             /\ ToList(e)' => ToList(e)
             /\ ToList(e) => e = x \/ ToList(e)'
  <2>1. \A i \in 1 .. n : Has(stack'[i].todo, e) <=> Has(stack[i].todo, e)
    BY <1>1
  <2>2. \A i \in 1 .. n : Has(stack[i].items, e) <=> Has(stack'[i].items, e) \/ (i = n /\ e = x)
    BY <1>1, <1>3
  <2>3. ~ Has(stack'[n + 1].items, e)
    BY <1>1 DEF Has
  <2>4. ToRead(e)' <=> ToRead(e) \/ e \in Contents[x] \cap exists
    BY <1>1, <1>5, <2>1 DEF ToRead, n
  <2>5. /\ ToList(e)' => ToList(e)
        /\ ToList(e) => e = x \/ ToList(e)'
    BY <1>1, <1>5, <2>2, <2>3 DEF ToList, n
  <2> QED BY <2>4, <2>5
<1>7. ToList(x) /\ Has(stack[n].items, x)
  BY <1>2, <1>3 DEF ToList, n
<1> QED BY <1>1, <1>3, <1>4, <1>6, <1>7 DEF n, x

LEMMA ReturnMoves ==
    ASSUME ListTypes, pc # "done", NEW r \in {0, -1}, List!Return(r), lines' = lines
    PROVE  \A e : /\ Printed(e)' <=> Printed(e)
                  /\ ToRead(e)' => ToRead(e)
                  /\ ToList(e)' => ToList(e)
                  /\ ToRead(e) => ToRead(e)' \/ Has(stack[Len(stack)].todo, e)
                  /\ ToList(e) => ToList(e)' \/ Has(stack[Len(stack)].items, e)
<1> DEFINE n == Len(stack)
<1>1. /\ n \in Nat /\ n # 0
      /\ Len(stack') = n - 1
      /\ \A i \in 1 .. n - 1 :
            stack'[i].todo = stack[i].todo /\ stack'[i].items = stack[i].items
  BY Returned, TopCall
<1>2. /\ \A i \in 1 .. n : i = n \/ i \in 1 .. n - 1
      /\ \A i \in 1 .. n - 1 : i \in 1 .. n
  BY <1>1
<1>3. \A e : Printed(e)' <=> Printed(e)
  BY DEF Printed
<1>4. TAKE e
<1>5. /\ ToRead(e)' => ToRead(e)
      /\ ToRead(e) => ToRead(e)' \/ Has(stack[Len(stack)].todo, e)
  BY <1>1, <1>2 DEF ToRead
<1>6. /\ ToList(e)' => ToList(e)
      /\ ToList(e) => ToList(e)' \/ Has(stack[Len(stack)].items, e)
  BY <1>1, <1>2 DEF ToList
<1> QED BY <1>3, <1>5, <1>6

\* The end of a function, after an error or with that of its directory.
LEMMA Leaves ==
    ASSUME ListTypes, (List!FillItem /\ Head(List!Top.todo) \notin exists) \/ List!EndOfItems
    PROVE  /\ pc # "done" /\ lines' = lines
           /\ \E r \in {0, -1} :
                 /\ List!Return(r)
                 /\ \/ pc = "fill" /\ r # 0
                    \/ /\ pc = "list" /\ stack[Len(stack)].items = <<>>
                       /\ r = stack[Len(stack)].had_errors
<1>1. pc # "done" /\ lines' = lines
  BY DEF List!FillItem, List!EndOfItems
<1>2. /\ List!Top = stack[Len(stack)] /\ stack[Len(stack)].had_errors \in {0, -1}
  BY <1>1, TopCall
<1>3. CASE List!FillItem /\ Head(List!Top.todo) \notin exists
  BY <1>1, <1>3 DEF List!FillItem
<1>4. CASE List!EndOfItems
  BY <1>1, <1>2, <1>4 DEF List!EndOfItems
<1> QED BY <1>3, <1>4

\* What a step is.
LEMMA ListSteps ==
    ASSUME [List!Next]_(List!vars), ListTypes
    PROVE  \/ List!FillItem /\ Head(List!Top.todo) \in exists
           \/ List!Overlook \/ List!print_items \/ List!NoDir \/ List!OpenDir \/ List!OpenFails
           \/ (List!FillItem /\ Head(List!Top.todo) \notin exists) \/ List!EndOfItems
           \/ \E e \in ListEntries : List!Remove(e)
           \/ UNCHANGED List!vars
BY DEF List!Next, ListEntries

\* The types.
LEMMA ListTypesKept ==
    ASSUME ListSetting, ListTypes, [List!Next]_(List!vars)
    PROVE  ListTypes'
<1>1. CASE List!FillItem /\ Head(List!Top.todo) \in exists
  <2>1. stack' \in Seq(Calls) /\ stack' # <<>> /\ pc = "fill" /\ pc' = pc /\ status' = status
    BY <1>1, Filled
  <2> QED BY <1>1, <2>1 DEF List!FillItem, ListTypes
<1>2. CASE List!Overlook
  <2>1. stack' \in Seq(Calls) /\ stack' # <<>> /\ pc = "fill"
    BY <1>2, WasOverlooked
  <2> QED BY <1>2, <2>1 DEF List!Overlook, ListTypes
<1>3. CASE List!print_items
  <2>1. /\ pc = "fill" /\ pc' = "list" /\ stack' = stack /\ lines' = lines \o List!Top.items
        /\ UNCHANGED <<args, exists, status, always>>
    BY <1>3 DEF List!print_items
  <2>2. List!Top.items \in Seq(ListEntries) /\ lines \in Seq(ListEntries)
    BY <2>1, TopCall DEF ListTypes
  <2>3. lines' \in Seq(ListEntries)
    BY <2>1, <2>2, HasConcat
  <2> QED BY <2>1, <2>3 DEF ListTypes
<1>4. CASE List!NoDir \/ List!OpenFails
  <2>1. stack' \in Seq(Calls) /\ stack' # <<>> /\ pc = "list"
    BY <1>4, ItemDone
  <2> QED BY <1>4, <2>1 DEF List!NoDir, List!OpenFails, ListTypes
<1>5. CASE List!OpenDir
  <2>1. stack' \in Seq(Calls) /\ stack' # <<>> /\ pc' = "fill"
    BY <1>5, DirOpened
  <2> QED BY <1>5, <2>1 DEF List!OpenDir, ListTypes
<1>6. CASE (List!FillItem /\ Head(List!Top.todo) \notin exists) \/ List!EndOfItems
  <2>1. /\ stack' \in Seq(Calls) /\ status' \in {0, -1}
        /\ \/ stack' = <<>> /\ pc' = "done"
           \/ stack' # <<>> /\ pc' = "list"
    BY <1>6, Leaves, Returned
  <2> QED BY <1>6, <2>1 DEF List!FillItem, List!EndOfItems, ListTypes
<1>7. CASE \E e \in ListEntries : List!Remove(e)
  BY <1>7 DEF List!Remove, ListTypes
<1>8. CASE UNCHANGED List!vars
  BY <1>8 DEF List!vars, ListTypes
<1> QED BY <1>1, <1>2, <1>3, <1>4, <1>5, <1>6, <1>7, <1>8, ListSteps

\* A step that moves nothing.
LEMMA Nothing ==
    ASSUME (\E e \in ListEntries : List!Remove(e)) \/ UNCHANGED List!vars
    PROVE  UNCHANGED <<args, pc, stack, lines, status>>
BY DEF List!Remove, List!vars

\* No entry is printed twice.
LEMMA PrintedOnce ==
    ASSUME ListSetting, ListInv, [List!Next]_(List!vars)
    PROVE  Distinct(lines)'
<1>0. ListTypes /\ Distinct(lines) /\ OnceToList
  BY DEF ListInv
<1>1. CASE lines' = lines
  BY <1>0, <1>1 DEF Distinct
<1>2. CASE List!print_items
  <2> DEFINE s == stack[Len(stack)].items
  <2>1. /\ pc = "fill" /\ lines' = lines \o s /\ lines \in Seq(ListEntries) /\ s \in Seq(ListEntries)
        /\ Len(stack) \in 1 .. Len(stack) /\ Len(stack) \in Nat
    BY <1>0, <1>2, TopCall DEF List!print_items, ListTypes
  <2>2. ~ Passed(Len(stack))
    BY <2>1 DEF Passed
  <2>3. Distinct(s) /\ \A e \in ListEntries : Has(s, e) => ~ Has(lines, e)
    BY <1>0, <2>1, <2>2 DEF OnceToList, Printed
  <2>4. Distinct(lines \o s)
    BY <1>0, <2>1, <2>3, HasConcat
  <2> QED BY <2>1, <2>4
<1>3. List!print_items \/ lines' = lines
  BY <1>0, ListSteps DEF List!FillItem, List!Overlook, List!NoDir, List!OpenDir, List!OpenFails,
       List!EndOfItems, List!Remove, List!vars
<1> QED BY <1>1, <1>2, <1>3

\* What is still to be read was met nowhere else.
LEMMA ToReadOnce ==
    ASSUME ListSetting, ListInv, ListTypes', [List!Next]_(List!vars)
    PROVE  OnceToRead'
<1> DEFINE n == Len(stack)
<1>0. ListTypes /\ OnceToRead /\ OnceToList /\ Untouched
  BY DEF ListInv
<1>1. CASE List!FillItem /\ Head(List!Top.todo) \in exists
  <2> DEFINE x == Head(stack[n].todo)
  <2>1. /\ stack' \in Seq(Calls) /\ Len(stack') = n
        /\ \A i \in 1 .. n : i # n => stack'[i] = stack[i]
        /\ stack[n].todo # <<>> /\ pc = "fill" /\ pc' = pc
        /\ stack'[n].todo = Tail(stack[n].todo)
    BY <1>0, <1>1, Filled
  <2>2. /\ x \in ListEntries
        /\ \A e : /\ Printed(e)' <=> Printed(e)
                  /\ ToList(e)' <=> e = x \/ ToList(e)
    BY <1>0, <1>1, FillMoves
  <2>3. n \in 1 .. n /\ stack[n].todo \in Seq(ListEntries) /\ n \in Nat
    BY <1>0, <2>1, TopCall
  <2>4. Distinct(stack[n].todo)
    BY <1>0, <2>3 DEF OnceToRead
  <2>5. /\ Distinct(Tail(stack[n].todo)) /\ ~ Has(Tail(stack[n].todo), x)
        /\ \A e : Has(Tail(stack[n].todo), e) => Has(stack[n].todo, e)
    BY <2>1, <2>3, <2>4, HasTail
  <2> HIDE DEF n, x
  <2>6. ASSUME NEW i \in 1 .. n
        PROVE  /\ Passed(i)' => stack'[i].todo = <<>>
               /\ Distinct(stack'[i].todo)
               /\ \A e \in ListEntries : Has(stack'[i].todo, e) => ~ Printed(e)' /\ ~ ToList(e)'
    <3>1. CASE i # n
      <4>1. Passed(i) /\ stack'[i] = stack[i]
        BY <2>1, <2>3, <3>1 DEF Passed, n
      <4>2. stack'[i].todo = <<>>
        BY <1>0, <4>1 DEF OnceToRead, n
      <4> QED BY <4>2 DEF Distinct, Has
    <3>2. CASE i = n
      <4>1. ~ Passed(i)'
        BY <2>1, <2>3, <3>2 DEF Passed, n
      <4>2. \A e \in ListEntries : Has(stack'[i].todo, e) => ~ Printed(e)' /\ ~ ToList(e)'
        BY <1>0, <2>1, <2>2, <2>3, <2>5, <3>2 DEF OnceToRead, n
      <4> QED BY <2>1, <2>5, <3>2, <4>1, <4>2
    <3> QED BY <3>1, <3>2
  <2> QED BY <2>1, <2>6 DEF OnceToRead, n
<1>2. CASE List!Overlook
  <2>1. /\ stack' \in Seq(Calls) /\ Len(stack') = n
        /\ \A i \in 1 .. n : i # n => stack'[i] = stack[i]
        /\ stack[n].todo # <<>> /\ pc = "fill"
        /\ stack'[n].todo = Tail(stack[n].todo)
    BY <1>0, <1>2, WasOverlooked
  <2>2. pc' = "fill" /\ \A e : /\ Printed(e)' <=> Printed(e)
                               /\ ToList(e)' <=> ToList(e)
    BY <1>0, <1>2, OverlookMoves
  <2>3. n \in 1 .. n /\ stack[n].todo \in Seq(ListEntries) /\ n \in Nat
    BY <1>0, <2>1, TopCall
  <2>4. Distinct(stack[n].todo)
    BY <1>0, <2>3 DEF OnceToRead
  <2>5. /\ Distinct(Tail(stack[n].todo))
        /\ \A e : Has(Tail(stack[n].todo), e) => Has(stack[n].todo, e)
    BY <2>1, <2>3, <2>4, HasTail
  <2> HIDE DEF n
  <2>6. ASSUME NEW i \in 1 .. n
        PROVE  /\ Passed(i)' => stack'[i].todo = <<>>
               /\ Distinct(stack'[i].todo)
               /\ \A e \in ListEntries : Has(stack'[i].todo, e) => ~ Printed(e)' /\ ~ ToList(e)'
    <3>1. CASE i # n
      <4>1. Passed(i) /\ stack'[i] = stack[i]
        BY <2>1, <2>3, <3>1 DEF Passed, n
      <4>2. stack'[i].todo = <<>>
        BY <1>0, <4>1 DEF OnceToRead, n
      <4> QED BY <4>2 DEF Distinct, Has
    <3>2. CASE i = n
      <4>1. ~ Passed(i)'
        BY <2>1, <2>2, <2>3, <3>2 DEF Passed, n
      <4>2. \A e \in ListEntries : Has(stack'[i].todo, e) => ~ Printed(e)' /\ ~ ToList(e)'
        BY <1>0, <2>1, <2>2, <2>3, <2>5, <3>2 DEF OnceToRead, n
      <4> QED BY <2>1, <2>5, <3>2, <4>1, <4>2
    <3> QED BY <3>1, <3>2
  <2> QED BY <2>1, <2>6 DEF OnceToRead, n
<1>3. ASSUME Len(stack') \in Nat,
             \A i \in 1 .. Len(stack') : stack'[i].todo = <<>>
      PROVE  OnceToRead'
  BY <1>3 DEF OnceToRead, Distinct, Has
<1>4. ASSUME pc # "done"
      PROVE  /\ n \in Nat /\ \A i \in 1 .. n : i # n => stack[i].todo = <<>>
             /\ pc = "list" => stack[n].todo = <<>>
  <2>1. n \in Nat /\ n \in 1 .. n
    BY <1>0, <1>4, TopCall
  <2>2. \A i \in 1 .. n : (i # n \/ pc = "list") => Passed(i)
    BY <2>1 DEF Passed
  <2> QED BY <1>0, <2>1, <2>2 DEF OnceToRead
<1>5. CASE List!print_items
  <2>1. pc # "done" /\ stack' = stack /\ stack[n].todo = <<>>
    BY <1>0, <1>5, PrintMoves
  <2> QED BY <1>3, <1>4, <2>1
<1>6. CASE List!NoDir \/ List!OpenFails
  <2>1. /\ pc = "list" /\ Len(stack') = n /\ stack'[n].todo = stack[n].todo
        /\ \A i \in 1 .. n : i # n => stack'[i] = stack[i]
    BY <1>0, <1>6, ItemDone
  <2> QED BY <1>3, <1>4, <2>1
<1>7. CASE List!OpenDir
  <2> DEFINE x == Head(stack[n].items)
  <2>1. /\ pc = "list" /\ Len(stack') = n + 1 /\ stack'[n].todo = stack[n].todo
        /\ \A i \in 1 .. n : i # n => stack'[i] = stack[i]
        /\ pc' = "fill" /\ Distinct(stack'[n + 1].todo)
        /\ \A e : Has(stack'[n + 1].todo, e) <=> e \in Contents[x] \cap exists
    BY <1>0, <1>7, DirOpened
  <2>2. /\ x \in ListEntries /\ x \in Dirs /\ ToList(x) /\ Has(stack[n].items, x)
        /\ \A e : (Printed(e)' <=> Printed(e)) /\ (ToList(e)' => ToList(e))
    BY <1>0, <1>7, OpenMoves
  <2>3. PICK B \in SUBSET ListEntries : Fresh(B)
    BY <1>0 DEF Untouched
  <2>4. \A e \in Contents[x] : ~ Met(e)
    BY <2>2, <2>3 DEF Fresh, Met
  <2>5. n \in Nat /\ n \in 1 .. n /\ \A i \in 1 .. n : stack'[i].todo = <<>>
    BY <1>0, <1>4, <2>1, TopCall
  <2> HIDE DEF n, x
  <2>6. ASSUME NEW i \in 1 .. n + 1
        PROVE  /\ Passed(i)' => stack'[i].todo = <<>>
               /\ Distinct(stack'[i].todo)
               /\ \A e \in ListEntries : Has(stack'[i].todo, e) => ~ Printed(e)' /\ ~ ToList(e)'
    <3>1. CASE i = n + 1
      <4>1. ~ Passed(i)'
        BY <2>1, <2>5, <3>1 DEF Passed
      <4>2. \A e \in ListEntries : Has(stack'[i].todo, e) => ~ Printed(e)' /\ ~ ToList(e)'
        BY <2>1, <2>2, <2>4, <3>1 DEF Met
      <4> QED BY <2>1, <3>1, <4>1, <4>2
    <3>2. CASE i \in 1 .. n
      BY <2>5, <3>2 DEF Distinct, Has
    <3> QED BY <2>5, <3>1, <3>2
  <2> QED BY <2>1, <2>6 DEF OnceToRead, n
<1>8. CASE (List!FillItem /\ Head(List!Top.todo) \notin exists) \/ List!EndOfItems
  <2>1. /\ pc # "done" /\ Len(stack') = n - 1
        /\ \A i \in 1 .. n - 1 : stack'[i].todo = stack[i].todo
    BY <1>0, <1>8, Leaves, Returned
  <2>2. n \in Nat /\ n # 0
    BY <1>0, <2>1, TopCall
  <2>3. n - 1 \in Nat /\ \A i \in 1 .. n - 1 : i \in 1 .. n /\ i # n
    BY <2>2
  <2> QED BY <1>3, <1>4, <2>1, <2>3
<1>9. CASE (\E e \in ListEntries : List!Remove(e)) \/ UNCHANGED List!vars
  BY <1>0, <1>9, Nothing DEF OnceToRead, Passed, Distinct, Has, Printed, ToList
<1> QED BY <1>0, <1>1, <1>2, <1>5, <1>6, <1>7, <1>8, <1>9, ListSteps

\* An item is in one list.
LEMMA ToListOnce ==
    ASSUME ListSetting, ListInv, ListTypes', [List!Next]_(List!vars)
    PROVE  OnceToList'
<1> DEFINE n == Len(stack)
<1>0. ListTypes /\ OnceToRead /\ OnceToList
  BY DEF ListInv
<1>1. CASE List!FillItem /\ Head(List!Top.todo) \in exists
  <2> DEFINE x == Head(stack[n].todo)
  <2>1. /\ stack' \in Seq(Calls) /\ Len(stack') = n
        /\ \A i \in 1 .. n : i # n => stack'[i] = stack[i]
        /\ stack[n].todo # <<>> /\ pc = "fill" /\ pc' = pc
        /\ stack'[n].items = Append(stack[n].items, x)
    BY <1>0, <1>1, Filled
  <2>2. /\ x \in ListEntries /\ Has(stack[n].todo, x)
        /\ \A e : Printed(e)' <=> Printed(e)
    BY <1>0, <1>1, FillMoves
  <2>3. n \in 1 .. n /\ stack[n].items \in Seq(ListEntries) /\ n \in Nat
    BY <1>0, <2>1, TopCall
  <2>4. ~ Printed(x) /\ ~ ToList(x)
    BY <1>0, <2>2, <2>3 DEF OnceToRead
  <2>5. Distinct(stack[n].items) /\ \A i \in 1 .. n : ~ Has(stack[i].items, x)
    BY <1>0, <2>3, <2>4 DEF OnceToList, ToList
  <2>6. /\ Distinct(stack'[n].items)
        /\ \A e : Has(stack'[n].items, e) <=> e = x \/ Has(stack[n].items, e)
    BY <2>1, <2>2, <2>3, <2>5, HasAppend
  <2>7. \A i \in 1 .. n : Passed(i)' <=> Passed(i)
    BY <2>1 DEF Passed
  <2>8. ~ Passed(n)
    BY <2>1, <2>3 DEF Passed
  <2> HIDE DEF n, x
  <2>9. ASSUME NEW i \in 1 .. n
        PROVE  /\ Distinct(stack'[i].items)
               /\ \A e \in ListEntries : Has(stack'[i].items, e) =>
                     /\ Printed(e)' <=> Passed(i)'
                     /\ \A j \in 1 .. n : Has(stack'[j].items, e) => i = j
    <3>1. \A j \in 1 .. n : \A e : Has(stack'[j].items, e) <=> Has(stack[j].items, e) \/ (j = n /\ e = x)
      BY <2>1, <2>6
    <3>2. Distinct(stack'[i].items)
      BY <1>0, <2>1, <2>6 DEF OnceToList, n
    <3>3. ASSUME NEW e \in ListEntries, Has(stack'[i].items, e)
          PROVE  /\ Printed(e)' <=> Passed(i)'
                 /\ \A j \in 1 .. n : Has(stack'[j].items, e) => i = j
      <4>1. CASE i = n /\ e = x
        BY <2>2, <2>4, <2>5, <2>7, <2>8, <3>1, <4>1
      <4>2. CASE e # x
        <5>1. Has(stack[i].items, e) /\ \A j \in 1 .. n : Has(stack'[j].items, e) => Has(stack[j].items, e)
          BY <3>1, <3>3, <4>2
        <5> QED BY <1>0, <2>2, <2>7, <5>1 DEF OnceToList, n
      <4> QED BY <2>5, <3>1, <3>3, <4>1, <4>2
    <3> QED BY <3>2, <3>3
  <2> QED BY <2>1, <2>9 DEF OnceToList, n
<1>2. ASSUME Len(stack') \in Nat, ListTypes, OnceToList,
             \A i \in 1 .. Len(stack') :
                /\ i \in 1 .. n /\ (Passed(i)' <=> Passed(i)) /\ Distinct(stack'[i].items)
                /\ \A e : Has(stack'[i].items, e) => Has(stack[i].items, e),
             \A e : Printed(e)' <=> Printed(e)
      PROVE  OnceToList'
  BY <1>2 DEF OnceToList
<1>3. CASE List!Overlook
  <2>1. /\ stack' \in Seq(Calls) /\ Len(stack') = n
        /\ \A i \in 1 .. n : i # n => stack'[i] = stack[i]
        /\ pc = "fill"
        /\ stack'[n].items = stack[n].items
    BY <1>0, <1>3, WasOverlooked
  <2>2. pc' = "fill" /\ \A e : Printed(e)' <=> Printed(e)
    BY <1>0, <1>3, OverlookMoves
  <2>3. n \in Nat
    BY <1>0, <2>1, TopCall
  <2>4. \A i \in 1 .. n : /\ stack'[i].items = stack[i].items /\ Passed(i)' <=> Passed(i)
                          /\ Distinct(stack[i].items)
    BY <1>0, <2>1, <2>2 DEF Passed, OnceToList
  <2> QED BY <1>0, <1>2, <2>1, <2>2, <2>3, <2>4
<1>4. CASE List!print_items
  <2>1. /\ pc = "fill" /\ pc' = "list" /\ stack' = stack
        /\ \A e : Printed(e)' <=> Printed(e) \/ Has(stack[n].items, e)
    BY <1>0, <1>4, PrintMoves
  <2>2. n \in 1 .. n /\ n \in Nat
    BY <1>0, <2>1, TopCall
  <2>3. \A i \in 1 .. n : Passed(i)' /\ (i # n => Passed(i)) /\ ~ Passed(n)
    BY <2>1, <2>2 DEF Passed
  <2> HIDE DEF n
  <2> QED BY <1>0, <2>1, <2>2, <2>3 DEF OnceToList, n
<1>5. CASE List!NoDir \/ List!OpenFails
  <2>1. /\ stack' \in Seq(Calls) /\ Len(stack') = n
        /\ \A i \in 1 .. n : i # n => stack'[i] = stack[i]
        /\ pc = "list" /\ stack[n].items # <<>>
        /\ stack'[n].items = Tail(stack[n].items)
    BY <1>0, <1>5, ItemDone
  <2>2. pc' = "list" /\ \A e : Printed(e)' <=> Printed(e)
    BY <1>0, <1>5, ItemMoves
  <2>3. n \in Nat /\ n \in 1 .. n /\ stack[n].items \in Seq(ListEntries)
    BY <1>0, <2>1, TopCall
  <2>4. Distinct(stack[n].items)
    BY <1>0, <2>3 DEF OnceToList
  <2>5. Distinct(stack'[n].items) /\ \A e : Has(stack'[n].items, e) => Has(stack[n].items, e)
    BY <2>1, <2>3, <2>4, HasTail
  <2>6. \A i \in 1 .. n : /\ Passed(i)' <=> Passed(i)
                          /\ Distinct(stack'[i].items)
                          /\ \A e : Has(stack'[i].items, e) => Has(stack[i].items, e)
    BY <1>0, <2>1, <2>2, <2>5 DEF Passed, OnceToList
  <2> QED BY <1>0, <1>2, <2>1, <2>2, <2>3, <2>6
<1>6. CASE List!OpenDir
  <2> DEFINE x == Head(stack[n].items)
  <2>1. /\ stack' \in Seq(Calls) /\ Len(stack') = n + 1
        /\ \A i \in 1 .. n : i # n => stack'[i] = stack[i]
        /\ pc = "list" /\ pc' = "fill" /\ stack[n].items # <<>>
        /\ stack'[n].items = Tail(stack[n].items)
        /\ stack'[n + 1].items = <<>>
    BY <1>0, <1>6, DirOpened
  <2>2. \A e : Printed(e)' <=> Printed(e)
    BY <1>0, <1>6, OpenMoves
  <2>3. n \in Nat /\ n \in 1 .. n /\ stack[n].items \in Seq(ListEntries)
    BY <1>0, <2>1, TopCall
  <2>4. Distinct(stack[n].items)
    BY <1>0, <2>3 DEF OnceToList
  <2>5. Distinct(stack'[n].items) /\ \A e : Has(stack'[n].items, e) => Has(stack[n].items, e)
    BY <2>1, <2>3, <2>4, HasTail
  <2>6. \A i \in 1 .. n : /\ Passed(i)' /\ Passed(i)
                          /\ Distinct(stack'[i].items)
                          /\ \A e : Has(stack'[i].items, e) => Has(stack[i].items, e)
    BY <1>0, <2>1, <2>3, <2>5 DEF Passed, OnceToList
  <2>7. Distinct(stack'[n + 1].items) /\ \A e : ~ Has(stack'[n + 1].items, e)
    BY <2>1 DEF Distinct, Has
  <2>8. \A i \in 1 .. n + 1 : i = n + 1 \/ i \in 1 .. n
    BY <2>3
  <2> HIDE DEF n
  <2>9. \A i \in 1 .. n + 1 : Distinct(stack'[i].items)
    BY <2>6, <2>7, <2>8
  <2>10. ASSUME NEW i \in 1 .. n + 1, NEW e \in ListEntries, Has(stack'[i].items, e)
         PROVE  /\ Printed(e)' <=> Passed(i)'
                /\ \A j \in 1 .. n + 1 : Has(stack'[j].items, e) => i = j
    <3>1. i \in 1 .. n /\ Has(stack[i].items, e)
      BY <2>6, <2>7, <2>8, <2>10
    <3>2. \A j \in 1 .. n + 1 : Has(stack'[j].items, e) => j \in 1 .. n /\ Has(stack[j].items, e)
      BY <2>6, <2>7, <2>8
    <3>3. Printed(e) /\ \A j \in 1 .. n : Has(stack[j].items, e) => i = j
      BY <1>0, <2>6, <3>1 DEF OnceToList, n
    <3> QED BY <2>2, <2>6, <3>1, <3>2, <3>3
  <2> QED BY <2>1, <2>9, <2>10 DEF OnceToList, n
<1>7. CASE (List!FillItem /\ Head(List!Top.todo) \notin exists) \/ List!EndOfItems
  <2>1. PICK r \in {0, -1} : pc # "done" /\ List!Return(r) /\ lines' = lines
    BY <1>0, <1>7, Leaves
  <2>2. /\ Len(stack') = n - 1
        /\ \A i \in 1 .. n - 1 : stack'[i].items = stack[i].items
        /\ n = 1 => stack' = <<>>
        /\ n # 1 => pc' = "list"
    BY <1>0, <2>1, Returned
  <2>3. n \in Nat /\ n # 0
    BY <1>0, <2>1, TopCall
  <2>4. n - 1 \in Nat /\ \A i \in 1 .. n - 1 : i \in 1 .. n /\ i < n
    BY <2>3
  <2>5. \A e : Printed(e)' <=> Printed(e)
    BY <2>1 DEF Printed
  <2>6. CASE n = 1
    BY <2>2, <2>6 DEF OnceToList
  <2>7. CASE n # 1
    <3>1. \A i \in 1 .. n - 1 : /\ Passed(i)' /\ Passed(i)
                                /\ Distinct(stack[i].items)
      BY <1>0, <2>2, <2>4, <2>7 DEF Passed, OnceToList
    <3> QED BY <1>0, <1>2, <2>2, <2>4, <2>5, <3>1
  <2> QED BY <2>6, <2>7
<1>8. CASE (\E e \in ListEntries : List!Remove(e)) \/ UNCHANGED List!vars
  BY <1>0, <1>8, Nothing DEF OnceToList, Passed, Distinct, Has, Printed
<1> QED BY <1>0, <1>1, <1>3, <1>4, <1>5, <1>6, <1>7, <1>8, ListSteps

\* The entries a listing may meet are entries of the tree.
LEMMA NamesThere ==
    ASSUME ListSetting, ListTypes
    PROVE  ListNames \subseteq ListEntries
<1>1. args = <<>> \/ args \in Seq(ListEntries)
  BY DEF ListTypes, ListSetting
<1> QED BY <1>1 DEF ListNames, ListSetting

\* Steps that meet nothing new, and those that lose nothing.
LEMMA UntouchedStays ==
    ASSUME ListSetting, ListTypes, Untouched, args' = args,
           \A e : Met(e)' => Met(e),
           \A d \in ListEntries : ~ Printed(d)' \/ ToList(d)' => ~ Printed(d) \/ ToList(d)
    PROVE  Untouched'
<1>1. PICK B \in SUBSET ListEntries : Fresh(B)
  BY DEF Untouched
<1>2. ListNames' = ListNames /\ ListNames \subseteq ListEntries
  BY NamesThere DEF ListNames
<1>3. Below(ListNames, B)' /\ \A e \in ListEntries : Met(e)' => e \in ListNames' \cup B
  BY <1>1, <1>2 DEF Fresh, Below
<1>4. \A d \in (ListNames \cup B) \cap Dirs :
          ~ Printed(d)' \/ ToList(d)' => \A e \in Contents[d] : ~ Met(e)'
  BY <1>1, <1>2 DEF Fresh
<1> QED BY <1>2, <1>3, <1>4 DEF Untouched, Fresh

LEMMA OverlookedStays ==
    ASSUME ListSetting, Overlooked, args' = args, always' \subseteq always,
           ~ ListErred' => ~ ListErred,
           ~ ListErred' => \A e \in always' : Met(e) => Met(e)',
           ~ ListErred' => \A d \in ListEntries \cap Dirs :
                Printed(d)' /\ ~ ToList(d)' => Printed(d) /\ ~ ToList(d)
    PROVE  Overlooked'
<1> SUFFICES ASSUME ~ ListErred'
             PROVE  /\ \A e \in ListNames' \cap always' : Met(e)'
                    /\ \A d \in ListEntries \cap Dirs : Printed(d)' /\ ~ ToList(d)'
                          => \A e \in Contents[d] \cap always' : Met(e)'
  BY DEF Overlooked
<1>1. ListNames' = ListNames
  BY DEF ListNames
<1> QED BY <1>1 DEF Overlooked

\* What is not below an open directory stays unmet.
LEMMA UntouchedKept ==
    ASSUME ListSetting, ListInv, ListTypes', [List!Next]_(List!vars)
    PROVE  Untouched'
<1>0. ListTypes /\ OnceToRead /\ OnceToList /\ Untouched
  BY DEF ListInv
<1>1. CASE List!FillItem /\ Head(List!Top.todo) \in exists
  <2> DEFINE x == Head(stack[Len(stack)].todo)
  <2>1. /\ x \in ListEntries /\ ToRead(x) /\ Has(stack[Len(stack)].todo, x) /\ pc = "fill"
        /\ \A e : /\ Printed(e)' <=> Printed(e)
                  /\ ToList(e)' <=> e = x \/ ToList(e)
                  /\ ToRead(e)' => ToRead(e)
    BY <1>0, <1>1, FillMoves
  <2>2. ~ Printed(x)
    BY <1>0, <2>1, TopCall DEF OnceToRead
  <2> HIDE DEF x
  <2>3. args' = args
    BY <1>1 DEF List!FillItem
  <2> QED BY <1>0, <2>1, <2>2, <2>3, UntouchedStays DEF Met
<1>2. CASE List!Overlook
  <2>1. args' = args
    BY <1>2 DEF List!Overlook
  <2>2. \A e : /\ Printed(e)' <=> Printed(e)
               /\ ToList(e)' <=> ToList(e)
               /\ ToRead(e)' => ToRead(e)
    BY <1>0, <1>2, OverlookMoves
  <2> QED BY <1>0, <2>1, <2>2, UntouchedStays DEF Met
<1>3. CASE List!print_items
  <2>1. args' = args
    BY <1>3 DEF List!print_items
  <2>2. /\ pc = "fill"
        /\ \A e : /\ Printed(e)' <=> Printed(e) \/ Has(stack[Len(stack)].items, e)
                  /\ ToList(e)' <=> ToList(e)
                  /\ ToRead(e)' <=> ToRead(e)
    BY <1>0, <1>3, PrintMoves
  <2>3. \A e : Has(stack[Len(stack)].items, e) => ToList(e)
    BY <1>0, <2>2, TopCall DEF ToList
  <2> QED BY <1>0, <2>1, <2>2, <2>3, UntouchedStays DEF Met
<1>4. CASE List!NoDir \/ List!OpenFails
  <2>1. args' = args
    BY <1>4 DEF List!NoDir, List!OpenFails
  <2>2. \A e : /\ Printed(e)' <=> Printed(e)
               /\ ToRead(e)' <=> ToRead(e)
               /\ ToList(e)' => ToList(e)
    BY <1>0, <1>4, ItemMoves
  <2> QED BY <1>0, <2>1, <2>2, UntouchedStays DEF Met
<1>5. CASE List!OpenDir
  <2>0. PICK x \in ListEntries : x = Head(stack[Len(stack)].items)
    BY <1>0, <1>5, OpenMoves
  <2>1. /\ x \in ListEntries /\ x \in Dirs /\ ToList(x) /\ pc = "list"
        /\ Has(stack[Len(stack)].items, x)
        /\ \A e : /\ Printed(e)' <=> Printed(e)
                  /\ ToRead(e)' <=> ToRead(e) \/ e \in Contents[x] \cap exists
                  /\ ToList(e)' => ToList(e)
    BY <1>0, <1>5, <2>0, OpenMoves
  <2>2. ~ ToList(x)'
    <3> DEFINE n == Len(stack)
    <3>1. /\ Len(stack') = n + 1
          /\ \A i \in 1 .. n : i # n => stack'[i] = stack[i]
          /\ stack[n].items # <<>>
          /\ stack'[n].items = Tail(stack[n].items) /\ stack'[n + 1].items = <<>>
      BY <1>0, <1>5, DirOpened
    <3>2. n \in Nat /\ n \in 1 .. n /\ stack[n].items \in Seq(ListEntries)
      BY <1>0, <2>1, TopCall
    <3>3. /\ Distinct(stack[n].items)
          /\ \A i \in 1 .. n : Has(stack[i].items, x) => i = n
      BY <1>0, <2>1, <3>2 DEF OnceToList
    <3>4. ~ Has(stack'[n].items, x) /\ ~ Has(stack'[n + 1].items, x)
      <4>1. ~ Has(Tail(stack[n].items), x)
        BY <2>0, <3>1, <3>2, <3>3, HasTail
      <4> QED BY <3>1, <4>1 DEF Has
    <3>5. \A i \in 1 .. n + 1 : i = n + 1 \/ i \in 1 .. n
      BY <3>2
    <3> HIDE DEF n
    <3>6. \A i \in 1 .. n + 1 : ~ Has(stack'[i].items, x)
      BY <3>1, <3>3, <3>4, <3>5
    <3> QED BY <3>1, <3>6 DEF ToList
  <2>3. Printed(x)
    BY <1>0, <2>1, TopCall DEF OnceToList, Passed
  <2>4. PICK B \in SUBSET ListEntries : Fresh(B)
    BY <1>0 DEF Untouched
  <2>5. args' = args /\ ListNames' = ListNames /\ ListNames \subseteq ListEntries
    BY <1>0, <1>5, NamesThere DEF List!OpenDir, ListNames
  <2>6. x \in ListNames \cup B /\ Contents[x] \subseteq B
    BY <2>1, <2>4 DEF Fresh, Below, Met
  <2>7. \A e : Met(e)' => Met(e) \/ e \in Contents[x]
    BY <2>1 DEF Met
  <2>8. Below(ListNames, B)' /\ \A e \in ListEntries : Met(e)' => e \in ListNames \cup B
    BY <2>4, <2>5, <2>6, <2>7 DEF Fresh, Below
  <2>9. ASSUME NEW d \in (ListNames \cup B) \cap Dirs, ~ Printed(d)' \/ ToList(d)',
               NEW e \in Contents[d]
        PROVE  ~ Met(e)'
    <3>1. d # x /\ ~ Met(e)
      BY <2>1, <2>2, <2>3, <2>4, <2>9 DEF Fresh
    <3>2. e \notin Contents[x]
      BY <2>1, <3>1 DEF ListSetting
    <3> QED BY <2>7, <3>1, <3>2
  <2> QED BY <2>5, <2>8, <2>9 DEF Untouched, Fresh
<1>6. CASE (List!FillItem /\ Head(List!Top.todo) \notin exists) \/ List!EndOfItems
  <2>1. PICK r \in {0, -1} : pc # "done" /\ List!Return(r) /\ lines' = lines
    BY <1>0, <1>6, Leaves
  <2>2. args' = args
    BY <1>6 DEF List!FillItem, List!EndOfItems
  <2>3. \A e : /\ Printed(e)' <=> Printed(e)
               /\ ToRead(e)' => ToRead(e)
               /\ ToList(e)' => ToList(e)
    BY <1>0, <2>1, ReturnMoves
  <2> QED BY <1>0, <2>2, <2>3, UntouchedStays DEF Met
<1>7. CASE (\E e \in ListEntries : List!Remove(e)) \/ UNCHANGED List!vars
  <2>1. args' = args /\ lines' = lines /\ stack' = stack
    BY <1>7, Nothing
  <2>2. \A e : /\ Printed(e)' <=> Printed(e)
               /\ ToRead(e)' <=> ToRead(e)
               /\ ToList(e)' <=> ToList(e)
    BY <2>1 DEF Printed, ToRead, ToList
  <2> QED BY <1>0, <2>1, <2>2, UntouchedStays DEF Met
<1> QED BY <1>0, <1>1, <1>2, <1>3, <1>4, <1>5, <1>6, <1>7, ListSteps

\* An error stays on record.
LEMMA ErrorsStay ==
    ASSUME pc # "done",
           \A i \in 1 .. Len(stack) : /\ i \in 1 .. Len(stack')
                                      /\ stack[i].had_errors # 0 => stack'[i].had_errors # 0
    PROVE  ListErred => ListErred'
BY DEF ListErred

LEMMA ReturnErrs ==
    ASSUME ListTypes, (List!FillItem /\ Head(List!Top.todo) \notin exists) \/ List!EndOfItems,
           ~ ListErred'
    PROVE  ~ ListErred /\ pc = "list" /\ stack[Len(stack)].items = <<>>
<1> DEFINE n == Len(stack)
<1>1. PICK r \in {0, -1} :
         /\ pc # "done" /\ List!Return(r)
         /\ \/ pc = "fill" /\ r # 0
            \/ pc = "list" /\ stack[n].items = <<>> /\ r = stack[n].had_errors
  BY Leaves
<1>2. /\ Len(stack') = n - 1
      /\ \A i \in 1 .. n - 1 : stack[i].had_errors # 0 => stack'[i].had_errors # 0
      /\ n = 1 => stack' = <<>> /\ pc' = "done" /\ status' = r
      /\ n # 1 => n - 1 \in 1 .. n - 1
      /\ n # 1 /\ r # 0 => stack'[n - 1].had_errors # 0
  BY <1>1, Returned
<1>3. n \in Nat /\ n # 0 /\ \A i \in 1 .. n : i = n \/ i \in 1 .. n - 1
  BY <1>1, TopCall
<1> HIDE DEF n
<1>4. r = 0
  BY <1>2 DEF ListErred
<1>5. pc = "list" /\ stack[n].items = <<>> /\ stack[n].had_errors = 0
  BY <1>1, <1>4
<1>6. \A i \in 1 .. n - 1 : stack[i].had_errors = 0
  BY <1>2 DEF ListErred
<1>7. \A i \in 1 .. n : stack[i].had_errors = 0
  BY <1>3, <1>5, <1>6
<1> QED BY <1>5, <1>7 DEF ListErred, n

\* What was there all the time is not overlooked.
LEMMA OverlookedKept ==
    ASSUME ListSetting, ListInv, ListTypes', [List!Next]_(List!vars)
    PROVE  Overlooked'
<1>0. ListTypes /\ OnceToRead /\ OnceToList /\ Overlooked
  BY DEF ListInv
<1> DEFINE n == Len(stack)
<1>1. CASE List!FillItem /\ Head(List!Top.todo) \in exists
  <2>0. PICK x \in ListEntries : x = Head(stack[n].todo)
    BY <1>0, <1>1, FillMoves
  <2>1. /\ pc = "fill"
        /\ \A e : /\ Printed(e)' <=> Printed(e)
                  /\ ToList(e)' <=> e = x \/ ToList(e)
                  /\ ToRead(e) => e = x \/ ToRead(e)'
    BY <1>0, <1>1, <2>0, FillMoves
  <2>2. /\ Len(stack') = n /\ stack'[n].had_errors = stack[n].had_errors
        /\ \A i \in 1 .. n : i # n => stack'[i] = stack[i]
    BY <1>0, <1>1, Filled
  <2>3. ListErred => ListErred'
    BY <2>1, <2>2, ErrorsStay
  <2>4. args' = args /\ always' = always
    BY <1>1 DEF List!FillItem
  <2> QED BY <1>0, <2>1, <2>3, <2>4, OverlookedStays DEF Met
<1>2. CASE List!Overlook
  <2>0. PICK x \in ListEntries \ exists : x = Head(stack[n].todo)
    BY <1>0, <1>2, OverlookMoves
  <2>1. /\ pc = "fill"
        /\ \A e : /\ Printed(e)' <=> Printed(e)
                  /\ ToList(e)' <=> ToList(e)
                  /\ ToRead(e) => e = x \/ ToRead(e)'
    BY <1>0, <1>2, <2>0, OverlookMoves
  <2>2. /\ Len(stack') = n /\ stack'[n].had_errors = stack[n].had_errors
        /\ \A i \in 1 .. n : i # n => stack'[i] = stack[i]
    BY <1>0, <1>2, WasOverlooked
  <2>3. ListErred => ListErred'
    BY <2>1, <2>2, ErrorsStay
  <2>4. args' = args /\ always' = always /\ always \subseteq exists
    BY <1>0, <1>2 DEF List!Overlook, ListTypes
  <2>5. \A e \in always' : Met(e) => Met(e)'
    BY <2>0, <2>1, <2>4 DEF Met
  <2> QED BY <1>0, <2>1, <2>3, <2>4, <2>5, OverlookedStays
<1>3. CASE List!print_items
  <2>1. /\ pc = "fill" /\ stack' = stack
        /\ \A e : /\ Printed(e)' <=> Printed(e) \/ Has(stack[n].items, e)
                  /\ ToList(e)' <=> ToList(e)
                  /\ ToRead(e)' <=> ToRead(e)
    BY <1>0, <1>3, PrintMoves
  <2>2. ListErred => ListErred'
    BY <2>1, ErrorsStay
  <2>3. args' = args /\ always' = always
    BY <1>3 DEF List!print_items
  <2>4. \A e : Has(stack[n].items, e) => ToList(e)
    BY <1>0, <2>1, TopCall DEF ToList
  <2> QED BY <1>0, <2>1, <2>2, <2>3, <2>4, OverlookedStays DEF Met
<1>4. CASE List!NoDir \/ List!OpenFails
  <2>0. PICK x \in ListEntries : x = Head(stack[n].items)
    BY <1>0, <1>4, ItemMoves
  <2>1. /\ pc = "list" /\ Has(stack[n].items, x)
        /\ \A e : /\ Printed(e)' <=> Printed(e)
                  /\ ToRead(e)' <=> ToRead(e)
                  /\ ToList(e)' => ToList(e)
                  /\ ToList(e) => e = x \/ ToList(e)'
    BY <1>0, <1>4, <2>0, ItemMoves
  <2>2. /\ Len(stack') = n
        /\ \A i \in 1 .. n : i # n => stack'[i] = stack[i]
        /\ \/ x \notin Dirs /\ stack'[n].had_errors = stack[n].had_errors
           \/ stack'[n].had_errors = -1
    BY <1>0, <1>4, <2>0, ItemDone
  <2>3. n \in 1 .. n
    BY <1>0, <2>1, TopCall
  <2>4. ListErred => ListErred'
    BY <2>1, <2>2, ErrorsStay
  <2>5. args' = args /\ always' = always
    BY <1>4 DEF List!NoDir, List!OpenFails
  <2>6. Printed(x)
    BY <1>0, <2>1, <2>3 DEF OnceToList, Passed
  <2>7. ~ ListErred' => x \notin Dirs
    <3>1. stack'[n].had_errors # 0 => ListErred'
      BY <2>2, <2>3 DEF ListErred
    <3> QED BY <2>2, <3>1
  <2>8. \A e : Met(e) => Met(e)'
    BY <2>1, <2>6 DEF Met
  <2> QED BY <1>0, <2>1, <2>4, <2>5, <2>7, <2>8, OverlookedStays
<1>5. CASE List!OpenDir
  <2>0. PICK x \in ListEntries : x = Head(stack[n].items)
    BY <1>0, <1>5, OpenMoves
  <2>1. /\ x \in Dirs /\ pc = "list" /\ Has(stack[n].items, x)
        /\ \A e : /\ Printed(e)' <=> Printed(e)
                  /\ ToRead(e)' <=> ToRead(e) \/ e \in Contents[x] \cap exists
                  /\ ToList(e)' => ToList(e)
                  /\ ToList(e) => e = x \/ ToList(e)'
    BY <1>0, <1>5, <2>0, OpenMoves
  <2>2. /\ Len(stack') = n + 1 /\ stack'[n].had_errors = stack[n].had_errors
        /\ \A i \in 1 .. n : i # n => stack'[i] = stack[i]
    BY <1>0, <1>5, DirOpened
  <2>3. n \in 1 .. n /\ n \in Nat /\ \A i \in 1 .. n : i \in 1 .. n + 1
    BY <1>0, <2>1, TopCall
  <2>4. ListErred => ListErred'
    <3>1. \A i \in 1 .. n : /\ i \in 1 .. Len(stack')
                            /\ stack[i].had_errors # 0 => stack'[i].had_errors # 0
      BY <2>2, <2>3
    <3> QED BY <2>1, <3>1, ErrorsStay
  <2>5. /\ args' = args /\ always' = always /\ always \subseteq exists
        /\ ListNames' = ListNames
    BY <1>0, <1>5 DEF List!OpenDir, ListTypes, ListNames
  <2>6. Printed(x)
    BY <1>0, <2>1, <2>3 DEF OnceToList, Passed
  <2>7. \A e : Met(e) => Met(e)'
    BY <2>1, <2>6 DEF Met
  <2>8. \A e \in Contents[x] \cap always' : Met(e)'
    BY <2>1, <2>5 DEF Met
  <2>9. ASSUME ~ ListErred', NEW d \in ListEntries \cap Dirs, Printed(d)', ~ ToList(d)',
               NEW e \in Contents[d] \cap always'
        PROVE  Met(e)'
    BY <1>0, <2>1, <2>4, <2>5, <2>7, <2>8, <2>9 DEF Overlooked
  <2>10. ~ ListErred' => \A e \in ListNames' \cap always' : Met(e)'
    BY <1>0, <2>4, <2>5, <2>7 DEF Overlooked
  <2> QED BY <2>9, <2>10 DEF Overlooked
<1>6. CASE (List!FillItem /\ Head(List!Top.todo) \notin exists) \/ List!EndOfItems
  <2>1. PICK r \in {0, -1} : pc # "done" /\ List!Return(r) /\ lines' = lines
    BY <1>0, <1>6, Leaves
  <2>2. args' = args /\ always' = always
    BY <1>6 DEF List!FillItem, List!EndOfItems
  <2>3. \A e : /\ Printed(e)' <=> Printed(e)
               /\ ToRead(e) => ToRead(e)' \/ Has(stack[n].todo, e)
               /\ ToList(e) => ToList(e)' \/ Has(stack[n].items, e)
               /\ ToList(e)' => ToList(e)
    BY <1>0, <2>1, ReturnMoves
  <2>4. ~ ListErred' => ~ ListErred /\ pc = "list" /\ stack[n].items = <<>>
    BY <1>0, <1>6, ReturnErrs
  <2>5. n \in 1 .. n /\ n \in Nat
    BY <1>0, <2>1, TopCall
  <2>6. pc = "list" => stack[n].todo = <<>>
    BY <1>0, <2>5 DEF OnceToRead, Passed
  <2>7. ~ ListErred' => \A e : ~ Has(stack[n].todo, e) /\ ~ Has(stack[n].items, e)
    BY <2>4, <2>6 DEF Has
  <2>8. ~ ListErred' => \A e : (Met(e) => Met(e)') /\ (~ ToList(e)' => ~ ToList(e))
    BY <2>3, <2>7 DEF Met
  <2> QED BY <1>0, <2>2, <2>3, <2>4, <2>8, OverlookedStays
<1>7. CASE (\E e \in ListEntries : List!Remove(e)) \/ UNCHANGED List!vars
  <2>1. UNCHANGED <<args, pc, lines, stack, status>>
    BY <1>7, Nothing
  <2>2. \A e : /\ Printed(e)' <=> Printed(e)
               /\ ToRead(e)' <=> ToRead(e)
               /\ ToList(e)' <=> ToList(e)
    BY <2>1 DEF Printed, ToRead, ToList
  <2>3. always' \subseteq always /\ (ListErred <=> ListErred')
    BY <1>7, <2>1 DEF List!Remove, List!vars, ListErred
  <2> QED BY <1>0, <2>1, <2>2, <2>3, OverlookedStays DEF Met
<1> QED BY <1>0, <1>1, <1>2, <1>3, <1>4, <1>5, <1>6, <1>7, ListSteps

\* A directory is removed after all that was in it.
LEMMA RootedKept ==
    ASSUME ListSetting, ListInv, [List!Next]_(List!vars)
    PROVE  Rooted'
<1>0. ListTypes /\ Rooted
  BY DEF ListInv
<1>1. CASE \E e \in ListEntries : List!Remove(e)
  <2>1. PICK x \in ListEntries : List!Remove(x)
    BY <1>1
  <2>2. /\ always' = always \ {x} /\ always \subseteq exists
        /\ x \in Dirs => Contents[x] \cap exists = {}
    BY <1>0, <2>1 DEF List!Remove, ListTypes
  <2> QED BY <1>0, <2>2 DEF Rooted
<1>2. (\E e \in ListEntries : List!Remove(e)) \/ always' = always
  BY <1>0, ListSteps DEF List!FillItem, List!Overlook, List!print_items, List!NoDir, List!OpenDir,
     List!OpenFails, List!EndOfItems, List!vars
<1>3. CASE always' = always
  BY <1>0, <1>3 DEF Rooted
<1> QED BY <1>1, <1>2, <1>3

\* The first call.
LEMMA ListStart == ASSUME ListSetting, List!Init PROVE ListInv
<1>1. /\ args \in ArgLists /\ exists = ListEntries /\ always = ListEntries
      /\ pc = "fill" /\ lines = <<>> /\ status = 0
      /\ \E todo \in IF args = <<>> THEN List!Orders(Contents[Root]) ELSE {args} :
            stack = <<List!Frame(todo)>>
  BY DEF List!Init, ListEntries
<1>2. PICK todo : /\ stack = <<List!Frame(todo)>>
                  /\ todo \in IF args = <<>> THEN List!Orders(Contents[Root]) ELSE {args}
  BY <1>1
<1>3. /\ todo \in Seq(ListEntries) /\ Distinct(todo)
      /\ \A e : Has(todo, e) <=> e \in ListNames
  <2>1. CASE args = <<>>
    <3>1. Contents[Root] \in SUBSET ListEntries
      BY DEF ListSetting
    <3> QED BY <1>2, <2>1, <3>1, HasOrder DEF ListNames
  <2>2. CASE args # <<>>
    BY <1>1, <1>2, <2>2 DEF ListSetting, ListNames, Has, Distinct
  <2> QED BY <2>1, <2>2
<1> DEFINE f == List!Frame(todo)
<1>4. /\ f \in Calls /\ f.todo = todo /\ f.items = <<>> /\ f.had_errors = 0
  BY <1>3 DEF List!Frame, Calls
<1> HIDE DEF f
<1>5. /\ stack \in Seq(Calls) /\ Len(stack) = 1 /\ stack[1] = f /\ stack # <<>>
      /\ \A i \in 1 .. Len(stack) : i = 1
      /\ 1 \in 1 .. Len(stack)
  BY <1>2, <1>4 DEF f
<1>6. ListTypes
  BY <1>1, <1>5 DEF ListTypes
<1>7. \A e : /\ ~ Printed(e) /\ ~ ToList(e) /\ (ToRead(e) <=> e \in ListNames)
  BY <1>1, <1>3, <1>4, <1>5 DEF Printed, ToList, ToRead, Has
<1>8. ~ Passed(1)
  BY <1>1, <1>5 DEF Passed
<1>9. Distinct(lines) /\ OnceToRead /\ OnceToList
  BY <1>1, <1>3, <1>4, <1>5, <1>7, <1>8 DEF OnceToRead, OnceToList, Distinct, Has
<1>10. \E B \in SUBSET ListEntries : Below(ListNames, B)
  <2>1. CASE args = <<>>
    <3>1. ListNames = Contents[Root]
      BY <2>1 DEF ListNames
    <3>2. \A d \in ListEntries \cap Dirs : d # Root
      BY DEF ListSetting, ListEntries
    <3>3. Below(ListNames, ListEntries \ Contents[Root])
      BY <3>1, <3>2 DEF Below, ListSetting
    <3> QED BY <3>3
  <2>2. CASE args # <<>>
    BY <1>1, <2>2 DEF ListSetting, ListNames
  <2> QED BY <2>1, <2>2
<1>11. PICK B \in SUBSET ListEntries : Below(ListNames, B)
  BY <1>10
<1>12. Fresh(B)
  BY <1>7, <1>11 DEF Fresh, Below, Met
<1>13. Overlooked
  BY <1>7 DEF Overlooked, Met
<1>14. Rooted
  BY <1>1 DEF Rooted
<1> QED BY <1>6, <1>9, <1>12, <1>13, <1>14 DEF ListInv, Untouched

\* What the invariant says of the output.
LEMMA ListShows == ASSUME ListSetting, ListInv PROVE List!ListedOnce
<1>0. ListTypes /\ Distinct(lines) /\ Overlooked /\ Rooted
  BY DEF ListInv
<1>1. ASSUME NEW e
      PROVE  /\ List!Times(e) \in {0, 1}
             /\ Printed(e) => List!Times(e) = 1
  <2> DEFINE P == {i \in DOMAIN lines : lines[i] = e}
  <2>1. \A S : List!Cardinality(S) = Cardinality(S)
    BY DEF List!Cardinality, Cardinality
  <2>2. P = {} \/ \E i \in 1 .. Len(lines) : P = {i}
    BY <1>0 DEF Distinct, ListTypes
  <2>3. P = {} => Cardinality(P) = 0
    BY FS_EmptySet
  <2>4. \A i : Cardinality({i}) = 1
    BY FS_Singleton
  <2>5. Printed(e) => P # {}
    BY <1>0 DEF Printed, Has, ListTypes
  <2>6. List!Times(e) = Cardinality(P)
    BY <2>1 DEF List!Times
  <2> HIDE DEF P
  <2> QED BY <2>2, <2>3, <2>4, <2>5, <2>6
<1>2. ASSUME pc = "done", status = 0, NEW e \in List!Wanted \cap always
      PROVE  List!Times(e) = 1
  <2>1. stack = <<>>
    BY <1>0, <1>2 DEF ListTypes
  <2>2. /\ ~ ListErred /\ \A d : ~ ToList(d) /\ ~ ToRead(d)
    BY <1>2, <2>1 DEF ListErred, ToList, ToRead
  <2>3. PICK W \in SUBSET ListEntries : W = {d \in ListEntries : d \in always => Printed(d)}
    OBVIOUS
  <2>4. ListNames \subseteq W
    BY <1>0, <2>2, <2>3, NamesThere DEF Overlooked, Met
  <2>5. ASSUME NEW d \in W \cap Dirs PROVE Contents[d] \subseteq W
    <3>1. Contents[d] \subseteq ListEntries
      BY DEF ListSetting
    <3>2. Contents[d] \cap always # {} => Printed(d)
      BY <1>0, <2>3, <2>5 DEF Rooted
    <3> QED BY <1>0, <2>2, <2>3, <3>1, <3>2 DEF Overlooked, Met
  <2>6. List!Named = ListNames
    <3>1. args # <<>> => DOMAIN args = 1 .. Len(args)
      BY <1>0 DEF ListTypes, ListSetting
    <3> QED BY <3>1 DEF List!Named, ListNames
  <2>7. e \in W
    BY <2>4, <2>5, <2>6 DEF List!Wanted, ListEntries
  <2> QED BY <1>1, <2>3, <2>7
<1> QED BY <1>1, <1>2 DEF List!ListedOnce

\* A listing that reports success has shown everything that was there all the
\* time, and no listing shows anything twice.
LEMMA ListSound ==
    ASSUME ListSetting
    PROVE  List!Init /\ [][List!Next]_(List!vars) => []List!ListedOnce
<1>1. List!Init => ListInv
  BY ListStart
<1>2. ListInv /\ [List!Next]_(List!vars) => ListInv'
  <2> SUFFICES ASSUME ListInv, [List!Next]_(List!vars) PROVE ListInv'
    OBVIOUS
  <2>1. ListTypes'
    BY ListTypesKept DEF ListInv
  <2> QED BY <2>1, PrintedOnce, ToReadOnce, ToListOnce, UntouchedKept, OverlookedKept, RootedKept
          DEF ListInv
<1>3. ListInv => List!ListedOnce
  BY ListShows
<1> QED BY <1>1, <1>2, <1>3, PTL

-----------------------------------------------------------------------------
(* FifoTransfer and RequestServer: what their own modules prove is about the *)
(* same definitions.                                                         *)

\* What is defined twice is the same.
LEMMA FifoSame ==
    /\ FifoP!Init <=> Fifo!Init
    /\ FifoP!Next <=> Fifo!Next
    /\ FifoP!vars = Fifo!vars
    /\ FifoP!OutputIsPrefix <=> Fifo!OutputIsPrefix
    /\ FifoP!SuccessIsDelivery <=> Fifo!SuccessIsDelivery
    /\ FifoP!SuccessHadReader <=> Fifo!SuccessHadReader
<1>1. FifoP!Init <=> Fifo!Init
  BY DEF Fifo!Init, FifoP!Init, Fifo!Processes, FifoP!Processes, Fifo!Nobody,
         FifoP!Nobody
<1>2. FifoP!Next <=> Fifo!Next
  BY DEF Fifo!Next, FifoP!Next, Fifo!WriterArrives, FifoP!WriterArrives,
         Fifo!WriterStep, FifoP!WriterStep, Fifo!ReaderArrives,
         FifoP!ReaderArrives, Fifo!ReaderStep, FifoP!ReaderStep, Fifo!Processes,
         FifoP!Processes, Fifo!Kill, FifoP!Kill, Fifo!Arrive, FifoP!Arrive,
         Fifo!Meet, FifoP!Meet, Fifo!OpenFifo, FifoP!OpenFifo, Fifo!SendPid,
         FifoP!SendPid, Fifo!PidBreaksPipe, FifoP!PidBreaksPipe, Fifo!ReadFile,
         FifoP!ReadFile, Fifo!WriteChunk, FifoP!WriteChunk, Fifo!RetryWrite,
         FifoP!RetryWrite, Fifo!WriteFails, FifoP!WriteFails, Fifo!CloseAll,
         FifoP!CloseAll, Fifo!ReadPid, FifoP!ReadPid, Fifo!NoPid, FifoP!NoPid,
         Fifo!OpenPipe, FifoP!OpenPipe, Fifo!PipeIsGone, FifoP!PipeIsGone,
         Fifo!Copy, FifoP!Copy, Fifo!PipeEnds, FifoP!PipeEnds, Fifo!Exit,
         FifoP!Exit, Fifo!Goto, FifoP!Goto, Fifo!CtlHolders, FifoP!CtlHolders,
         Fifo!CtlReaders, FifoP!CtlReaders, Fifo!Readable, FifoP!Readable,
         Fifo!CtlWriters, FifoP!CtlWriters, Fifo!FifoWriter, FifoP!FifoWriter,
         Fifo!Closed, FifoP!Closed, Fifo!FifoReaders, FifoP!FifoReaders
<1>3. FifoP!vars = Fifo!vars
  BY DEF Fifo!vars, FifoP!vars
<1>4. FifoP!OutputIsPrefix <=> Fifo!OutputIsPrefix
  BY DEF Fifo!OutputIsPrefix, FifoP!OutputIsPrefix, Fifo!TypeOK, FifoP!TypeOK,
         Fifo!Nobody, FifoP!Nobody, Fifo!File, FifoP!File, Fifo!Processes,
         FifoP!Processes
<1>5. FifoP!SuccessIsDelivery <=> Fifo!SuccessIsDelivery
  BY DEF Fifo!SuccessIsDelivery, FifoP!SuccessIsDelivery, Fifo!File, FifoP!File
<1>6. FifoP!SuccessHadReader <=> Fifo!SuccessHadReader
  BY DEF Fifo!SuccessHadReader, FifoP!SuccessHadReader
<1> QED BY <1>1, <1>2, <1>3, <1>4, <1>5, <1>6

\* The same for the server and its clients.
LEMMA ServerSame ==
    /\ ServerP!Init <=> Server!Init
    /\ ServerP!Next <=> Server!Next
    /\ ServerP!vars = Server!vars
    /\ ServerP!OutputIsPrefix <=> Server!OutputIsPrefix
    /\ ServerP!SuccessIsComplete <=> Server!SuccessIsComplete
    /\ ServerP!EndsForCause <=> Server!EndsForCause
<1>1. ServerP!Init <=> Server!Init
  BY DEF Server!Init, ServerP!Init, Server!NoClient, ServerP!NoClient
<1>2. ServerP!Next <=> Server!Next
  BY DEF Server!Next, ServerP!Next, Server!StartServer, ServerP!StartServer,
         Server!ServerStep, ServerP!ServerStep, Server!ClientStep,
         ServerP!ClientStep, Server!SignalServer, ServerP!SignalServer,
         Server!SignalClient, ServerP!SignalClient, Server!SrvGoto,
         ServerP!SrvGoto, Server!cltVars, ServerP!cltVars, Server!MakeGuard,
         ServerP!MakeGuard, Server!MakeMaster, ServerP!MakeMaster,
         Server!OpenMaster, ServerP!OpenMaster, Server!MasterOpened,
         ServerP!MasterOpened, Server!ReadRequest, ServerP!ReadRequest,
         Server!MasterEof, ServerP!MasterEof, Server!CloseMaster,
         ServerP!CloseMaster, Server!NoFile, ServerP!NoFile, Server!OpenSlave,
         ServerP!OpenSlave, Server!DeadClient, ServerP!DeadClient,
         Server!NoSlave, ServerP!NoSlave, Server!SendChunk, ServerP!SendChunk,
         Server!Answer, ServerP!Answer, Server!OpenFails, ServerP!OpenFails,
         Server!OpenToWrite, ServerP!OpenToWrite, Server!NoGuard,
         ServerP!NoGuard, Server!OpenGuard, ServerP!OpenGuard, Server!MakeSlave,
         ServerP!MakeSlave, Server!SendRequest, ServerP!SendRequest,
         Server!SendFails, ServerP!SendFails, Server!PollGuard,
         ServerP!PollGuard, Server!PollSlave, ServerP!PollSlave, Server!Copy,
         ServerP!Copy, Server!SlaveEof, ServerP!SlaveEof, Server!EndServer,
         ServerP!EndServer, Server!EndClient, ServerP!EndClient,
         Server!MasterHolders, ServerP!MasterHolders, Server!SlaveOpen,
         ServerP!SlaveOpen, Server!Answered, ServerP!Answered, Server!Listening,
         ServerP!Listening, Server!Goto, ServerP!Goto, Server!srvVars,
         ServerP!srvVars, Server!HungUp, ServerP!HungUp, Server!SlaveReady,
         ServerP!SlaveReady, Server!Written, ServerP!Written, Server!NoClient,
         ServerP!NoClient
<1>3. ServerP!vars = Server!vars
  BY DEF Server!vars, ServerP!vars, Server!srvVars, ServerP!srvVars,
         Server!cltVars, ServerP!cltVars
<1>4. ServerP!OutputIsPrefix <=> Server!OutputIsPrefix
  BY DEF Server!OutputIsPrefix, ServerP!OutputIsPrefix, Server!TypeOK,
         ServerP!TypeOK, Server!File, ServerP!File, Server!NoClient,
         ServerP!NoClient, Server!Statuses, ServerP!Statuses
<1>5. ServerP!SuccessIsComplete <=> Server!SuccessIsComplete
  BY DEF Server!SuccessIsComplete, ServerP!SuccessIsComplete, Server!File,
         ServerP!File
<1>6. ServerP!EndsForCause <=> Server!EndsForCause
  BY DEF Server!EndsForCause, ServerP!EndsForCause, Server!AskedInVain,
         ServerP!AskedInVain, Server!TookItsPipe, ServerP!TookItsPipe
<1> QED BY <1>1, <1>2, <1>3, <1>4, <1>5, <1>6

-----------------------------------------------------------------------------
(* A behaviour is one of the program it starts as. *)

\* The program stays the same.
LEMMA OneProgram == ASSUME [Next]_vars PROVE UNCHANGED program
BY DEF Next, SessionStep, OnlySession, OrderStep, OnlyOrder, ForksStep, OnlyForks, RunnerStep,
   OnlyRunner, ArchiveStep, OnlyArchive, ListStep, OnlyList, FifoStep, OnlyFifo, ServerStep,
   OnlyServer, vars

\* It starts as a behaviour of that program, ...
LEMMA Starts ==
    ASSUME Init
    PROVE  /\ program = "session" => Session!Init
           /\ program = "order" => Order!Init
           /\ program = "forks" => Forks!Init
           /\ program = "runner" => Runner!Init
           /\ program = "archive" => Archive!Init
           /\ program = "list" => List!Init
           /\ program = "fifo" => FifoP!Init
           /\ program = "server" => ServerP!Init
BY FifoSame, ServerSame DEF Init

\* ... and each step is one of its steps, or leaves its variables alone.
LEMMA StepsOf ==
    ASSUME [Next]_vars
    PROVE  /\ program = "session" => [Session!Next]_(Session!vars)
           /\ program = "order" => [Order!Next]_(Order!vars)
           /\ program = "forks" => [Forks!Next]_(Forks!vars)
           /\ program = "runner" => [Runner!Next]_(Runner!vars)
           /\ program = "archive" => [Archive!Next]_(Archive!vars)
           /\ program = "list" => [List!Next]_(List!vars)
           /\ program = "fifo" => [FifoP!Next]_(FifoP!vars)
           /\ program = "server" => [ServerP!Next]_(ServerP!vars)
<1>1. CASE Next
  BY <1>1, FifoSame, ServerSame DEF Next, SessionStep, OnlySession, OrderStep, OnlyOrder, ForksStep,
     OnlyForks, RunnerStep, OnlyRunner, ArchiveStep, OnlyArchive, ListStep, OnlyList, FifoStep,
     OnlyFifo, ServerStep, OnlyServer
<1>2. CASE UNCHANGED vars
  <2>1. UNCHANGED Order!vars /\ UNCHANGED Forks!vars /\ UNCHANGED Runner!vars
    BY <1>2 DEF vars, forksOnly, runnerOnly, Order!vars, Forks!vars, Runner!vars
  <2>2. UNCHANGED FifoP!vars
    BY <1>2 DEF vars, fifoOnly, FifoP!vars
  <2>3. UNCHANGED ServerP!vars
    BY <1>2 DEF vars, serverOnly, ServerP!vars, ServerP!srvVars, ServerP!cltVars
  <2>4. UNCHANGED Session!vars
    BY <1>2 DEF vars, sessionOnly, Session!vars
  <2>5. UNCHANGED Archive!vars
    BY <1>2 DEF vars, archiveOnly, Archive!vars, Archive!tree
  <2>6. UNCHANGED List!vars
    BY <1>2 DEF vars, listOnly, List!vars
  <2> QED BY <2>1, <2>2, <2>3, <2>4, <2>5, <2>6
<1> QED BY <1>1, <1>2

\* The files of the senders follow one another in the output, whole but for the
\* last, and while one of them fills the memory nobody else looks at it; what is
\* read from a pipe is a beginning of the file. The first part ends with the death
\* of a sender that waits for its session or has announced its end: its
\* adjustments fall into another session.
THEOREM OutputFollowsTheorem ==
    ASSUME SessionSetting, FifoP!Setting, ServerP!Setting
    PROVE  Spec => []OutputFollows
<1> DEFINE P == program = "session"
           Q == program = "fifo"
           R == program = "server"
<1>1. Init => (P => Session!Init) /\ (Q => FifoP!Init) /\ (R => ServerP!Init)
  BY Starts
<1>2. [Next]_vars => /\ P => [Session!Next]_(Session!vars)
                     /\ Q => [FifoP!Next]_(FifoP!vars)
                     /\ R => [ServerP!Next]_(ServerP!vars)
  BY StepsOf
<1>3. [Next]_vars => (P' <=> P) /\ (Q' <=> Q) /\ (R' <=> R)
  BY OneProgram
<1>4. Session!Init /\ [][Session!Next]_(Session!vars) => []Session!FilesInOneHand
  BY SessionSound
<1>5. FifoP!Init /\ [][FifoP!Next]_(FifoP!vars) => []FifoP!OutputIsPrefix
  BY FifoP!BeginningOnly
<1>6. ServerP!Init /\ [][ServerP!Next]_(ServerP!vars) => []ServerP!OutputIsPrefix
  BY ServerP!PrefixTheorem
<1>7. (P => Session!FilesInOneHand) /\ (Q => FifoP!OutputIsPrefix)
        /\ (R => ServerP!OutputIsPrefix) => OutputFollows
  BY FifoSame, ServerSame DEF OutputFollows
<1> QED BY <1>1, <1>2, <1>3, <1>4, <1>5, <1>6, <1>7, PTL DEF Spec

\* Whatever the children of task.c and task1.c do, whichever fork() fails and
\* whichever child is killed, the numbers come out in order.
THEOREM PrintedInOrderTheorem ==
    ASSUME NrChildren \in Nat
    PROVE  Spec => []PrintedInOrder
<1> DEFINE P == program = "order"
           Q == program = "forks"
<1>1. Init => (P => Order!Init) /\ (Q => Forks!Init)
  BY Starts
<1>2. [Next]_vars => (P => [Order!Next]_(Order!vars)) /\ (Q => [Forks!Next]_(Forks!vars))
  BY StepsOf
<1>3. [Next]_vars => (P' <=> P) /\ (Q' <=> Q)
  BY OneProgram
<1>4. Order!Init /\ [][Order!Next]_(Order!vars) => []Order!PrintedInOrder
  BY OrderIsKept
<1>5. Forks!Init /\ [][Forks!Next]_(Forks!vars) => []Forks!InOrder
  BY ForksInOrder
<1>6. (P => Order!PrintedInOrder) /\ (Q => Forks!InOrder) => PrintedInOrder
  BY DEF PrintedInOrder
<1> QED BY <1>1, <1>2, <1>3, <1>4, <1>5, <1>6, PTL DEF Spec

\* runsim never runs more than its limit of commands and refuses a line only
\* while it runs as many: SEM_UNDO gives back the unit of every command, however
\* it ends; and a parent that reports success ended after all its children.
THEOREM LimitTheorem ==
    ASSUME NrLines \in Nat, Tasks \in Nat
    PROVE  Spec => []LimitHeld
<1> DEFINE P == program = "runner"
<1>1. Init => (P => Runner!Init)
  BY Starts
<1>2. [Next]_vars => (P => [Runner!Next]_(Runner!vars))
  BY StepsOf
<1>3. [Next]_vars => (P' <=> P)
  BY OneProgram
<1>4. Runner!Init /\ [][Runner!Next]_(Runner!vars) => []Runner!LimitHeld
  BY LimitIsHeld
<1>5. (P => Runner!LimitHeld) => LimitHeld
  BY DEF LimitHeld
<1> QED BY <1>1, <1>2, <1>3, <1>4, <1>5, PTL DEF Spec

\* A writer and a reader of a pipe that both report success have copied the
\* whole file, and a writer that does had a reader; a client of the server that
\* reports success has its whole file unless the server that answered ended.
THEOREM DeliveryTheorem ==
    ASSUME FifoP!Setting, ServerP!Setting
    PROVE  Spec => []SuccessIsDelivery
<1> DEFINE P == program = "fifo"
           Q == program = "server"
<1>1. Init => (P => FifoP!Init) /\ (Q => ServerP!Init)
  BY Starts
<1>2. [Next]_vars => (P => [FifoP!Next]_(FifoP!vars)) /\ (Q => [ServerP!Next]_(ServerP!vars))
  BY StepsOf
<1>3. [Next]_vars => (P' <=> P) /\ (Q' <=> Q)
  BY OneProgram
<1>4. FifoP!Init /\ [][FifoP!Next]_(FifoP!vars)
        => []FifoP!SuccessIsDelivery /\ []FifoP!SuccessHadReader
  BY FifoP!Delivery, FifoP!HadReader, PTL
<1>5. ServerP!Init /\ [][ServerP!Next]_(ServerP!vars) => []ServerP!SuccessIsComplete
  BY ServerP!SuccessTheorem
<1>6. (P => FifoP!SuccessIsDelivery /\ FifoP!SuccessHadReader) /\ (Q => ServerP!SuccessIsComplete)
        => SuccessIsDelivery
  BY FifoSame, ServerSame DEF SuccessIsDelivery
<1> QED BY <1>1, <1>2, <1>3, <1>4, <1>5, <1>6, PTL DEF Spec

\* After a backup that reports success every file that is not spoilt has an
\* archive as new as the file was when the run began; spoilt is a file written or
\* replaced while it was copied, cut off by a short write(), or left to a gzip
\* that was killed or outlived its backup, until it is written again. A listing
\* that reports success has shown all that was there throughout, once.
THEOREM SuccessTrueTheorem ==
    ASSUME ArchiveSetting, ListSetting
    PROVE  Spec => []SuccessIsTrue
<1> DEFINE P == program = "archive"
           Q == program = "list"
<1>1. Init => (P => Archive!Init) /\ (Q => List!Init)
  BY Starts
<1>2. [Next]_vars => (P => [Archive!Next]_(Archive!vars)) /\ (Q => [List!Next]_(List!vars))
  BY StepsOf
<1>3. [Next]_vars => (P' <=> P) /\ (Q' <=> Q)
  BY OneProgram
<1>4. Archive!Init /\ [][Archive!Next]_(Archive!vars) => []Archive!SuccessIsCurrent
  BY ArchiveSound
<1>5. List!Init /\ [][List!Next]_(List!vars) => []List!ListedOnce
  BY ListSound
<1>6. (P => Archive!SuccessIsCurrent) /\ (Q => List!ListedOnce) => SuccessIsTrue
  BY DEF SuccessIsTrue
<1> QED BY <1>1, <1>2, <1>3, <1>4, <1>5, <1>6, PTL DEF Spec

\* A server that was not sent a signal ends only of a client that asked for a
\* file that cannot be opened, or that was terminated before its answer, as a
\* property of the programs put together.
THEOREM EndsForCauseTheorem ==
    ASSUME ServerP!Setting
    PROVE  Spec => []EndsForCause
<1> DEFINE P == program = "server"
<1>1. Init => (P => ServerP!Init)
  BY Starts
<1>2. [Next]_vars => (P => [ServerP!Next]_(ServerP!vars))
  BY StepsOf
<1>3. [Next]_vars => (P' <=> P)
  BY OneProgram
<1>4. ServerP!Init /\ [][ServerP!Next]_(ServerP!vars) => []ServerP!EndsForCause
  BY ServerP!EndsForCauseTheorem
<1>5. (P => ServerP!EndsForCause) => EndsForCause
  BY ServerSame DEF EndsForCause
<1> QED BY <1>1, <1>2, <1>3, <1>4, <1>5, PTL DEF Spec
=============================================================================

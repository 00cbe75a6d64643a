---------------------------- MODULE MCProcesses -----------------------------
(* Instances of the smaller programs for TLC: a behaviour is one of one      *)
(* program, which is chosen at the start; the variables that program does    *)
(* not have stay 0.                                                          *)
EXTENDS Integers, Sequences, FiniteSets, TLC

CONSTANTS
    Senders, FileLen, SEMVMX,                      \* SessionTransfer
    NrChildren, MayFail,                           \* MessageOrder, ForkOrder
    NrLines, Tasks,                                \* LineRunner
    Files, Others, Dirs, Root, MaxRuns, MaxWrites, \* Backup, Listing
    MaxFaults, Contents, ArgLists, Deaths,
    Writers, Readers, FileLens, Retries, MaxKills, \* FifoTransfer
    Clients, Missing, Signals, MaxSignals, MaxServers, \* RequestServer
    f1, f2, o1, d1, d2

VARIABLES
    program, pc,
    sem, status, out, faults, next, exists, stack, pos, cur, data,
                                                   \* of more than one
    adj, removed, mem, hasEof, exiting, strays,    \* SessionTransfer
    queue, id,                                     \* MessageOrder
    WAIT, waiting, fork_failed,                    \* ForkOrder
    kind, line, wait, held, refused,               \* LineRunner
    in, copy, arch, made, clock, seen, unlinked, buffer, gzips, exit, base,
    spoilt, runs, writes,                          \* Backup
    args, closed, lines, always,                   \* Listing
    len, woken, ctl, got, fifos, tries, opened, kills, \* FifoTransfer
    srv, inc, ended, guardAt, masterAt, awake, master, sent, myMaster, myGuard,
    guarded, slaves, served, signals               \* RequestServer

sessionOnly == <<adj, removed, mem, hasEof, exiting, strays>>
forksOnly   == <<WAIT, waiting, fork_failed>>
runnerOnly  == <<kind, line, wait, held, refused>>
archiveOnly == <<in, copy, arch, made, clock, seen, unlinked, buffer, gzips,
                 exit, base, spoilt, runs, writes>>
listOnly    == <<args, closed, lines, always>>
fifoOnly    == <<len, woken, ctl, got, fifos, tries, opened, kills>>
serverOnly  == <<srv, inc, ended, guardAt, masterAt, awake, master, sent,
                 myMaster, myGuard, guarded, slaves, served, signals>>
vars == <<program, pc, sem, status, out, faults, next, exists, stack, pos,
          cur, data, queue, id, sessionOnly, forksOnly, runnerOnly, archiveOnly,
          listOnly, fifoOnly, serverOnly>>

\* A small tree, and the arguments a listing may get.
SmallTree == (Root :> {f1, d1, d2}) @@ (d1 :> {f2}) @@ (d2 :> {o1})
SmallArgs == {<<>>, <<f1>>, <<d1, f1>>}

Session == INSTANCE SessionTransfer WITH MaxFaults <- Deaths
Order   == INSTANCE MessageOrder
Forks   == INSTANCE ForkOrder
Runner  == INSTANCE LineRunner
Archive == INSTANCE Backup
List    == INSTANCE Listing WITH Entries <- Files \cup Others \cup (Dirs \ {Root})
Fifo    == INSTANCE FifoTransfer
Server  == INSTANCE RequestServer

NoSession == /\ adj = 0 /\ removed = 0 /\ mem = 0 /\ hasEof = 0 /\ exiting = 0
             /\ strays = 0
NoForks   == WAIT = 0 /\ waiting = 0 /\ fork_failed = 0
NoRunner  == kind = 0 /\ line = 0 /\ wait = 0 /\ held = 0 /\ refused = 0
NoArchive == /\ in = 0 /\ copy = 0 /\ arch = 0 /\ made = 0 /\ clock = 0
             /\ seen = 0 /\ unlinked = 0 /\ buffer = 0 /\ gzips = 0 /\ exit = 0
             /\ base = 0 /\ spoilt = 0 /\ runs = 0 /\ writes = 0
NoList    == args = 0 /\ closed = 0 /\ lines = 0 /\ always = 0
NoFifo    == /\ len = 0 /\ woken = 0 /\ ctl = 0 /\ got = 0 /\ fifos = 0
             /\ tries = 0 /\ opened = 0 /\ kills = 0
NoServer  == /\ srv = 0 /\ inc = 0 /\ ended = 0 /\ guardAt = 0 /\ masterAt = 0
             /\ awake = 0 /\ master = 0 /\ sent = 0 /\ myMaster = 0
             /\ myGuard = 0 /\ guarded = 0 /\ slaves = 0 /\ served = 0
             /\ signals = 0

Init ==
    \/ /\ program = "session" /\ Session!Init
       /\ next = 0 /\ exists = 0 /\ stack = 0 /\ queue = 0 /\ id = 0
       /\ NoForks /\ NoRunner /\ NoArchive /\ NoList /\ NoFifo
       /\ NoServer /\ cur = 0 /\ data = 0
    \/ /\ program = "order" /\ Order!Init
       /\ sem = 0 /\ status = 0 /\ faults = 0 /\ exists = 0 /\ stack = 0
       /\ NoSession /\ NoForks /\ NoRunner /\ NoArchive /\ NoList
       /\ pos = 0 /\ NoFifo
       /\ NoServer /\ cur = 0 /\ data = 0
    \/ /\ program = "forks" /\ Forks!Init
       /\ sem = 0 /\ faults = 0 /\ exists = 0 /\ stack = 0 /\ queue = 0 /\ id = 0
       /\ NoSession /\ NoRunner /\ NoArchive /\ NoList
       /\ pos = 0 /\ NoFifo
       /\ NoServer /\ cur = 0 /\ data = 0
    \/ /\ program = "runner" /\ Runner!Init
       /\ status = 0 /\ out = 0 /\ faults = 0 /\ next = 0 /\ exists = 0
       /\ stack = 0 /\ queue = 0 /\ id = 0
       /\ NoSession /\ NoForks /\ NoArchive /\ NoList
       /\ pos = 0 /\ NoFifo
       /\ NoServer /\ cur = 0 /\ data = 0
    \/ /\ program = "archive" /\ Archive!Init
       /\ sem = 0 /\ status = 0 /\ out = 0 /\ next = 0 /\ queue = 0 /\ id = 0
       /\ NoSession /\ NoForks /\ NoRunner /\ NoList
       /\ pos = 0 /\ NoFifo
       /\ NoServer /\ data = 0
    \/ /\ program = "list" /\ List!Init
       /\ sem = 0 /\ out = 0 /\ faults = 0 /\ next = 0 /\ queue = 0 /\ id = 0
       /\ NoSession /\ NoForks /\ NoRunner /\ NoArchive
       /\ pos = 0 /\ NoFifo
       /\ NoServer /\ cur = 0 /\ data = 0
    \/ /\ program = "fifo" /\ Fifo!Init
       /\ sem = 0 /\ faults = 0 /\ next = 0 /\ exists = 0 /\ stack = 0
       /\ queue = 0 /\ id = 0
       /\ NoSession /\ NoForks /\ NoRunner /\ NoArchive /\ NoList
       /\ NoServer /\ cur = 0
    \/ /\ program = "server" /\ Server!Init
       /\ sem = 0 /\ faults = 0 /\ next = 0 /\ exists = 0 /\ stack = 0
       /\ pos = 0 /\ queue = 0 /\ id = 0
       /\ NoSession /\ NoForks /\ NoRunner /\ NoArchive /\ NoList /\ NoFifo

OnlySession ==
    /\ program = "session"
    /\ UNCHANGED <<program, next, exists, stack, queue, id, forksOnly, runnerOnly,
                   archiveOnly, listOnly, fifoOnly,
                   serverOnly, cur, data>>
SessionStep == OnlySession /\ Session!Next
OnlyOrder ==
    /\ program = "order"
    /\ UNCHANGED <<program, sem, status, faults, exists, stack, sessionOnly,
                   forksOnly, runnerOnly, archiveOnly, listOnly, pos, fifoOnly,
                   serverOnly, cur, data>>
OrderStep == OnlyOrder /\ Order!Next
OnlyForks ==
    /\ program = "forks"
    /\ UNCHANGED <<program, sem, faults, exists, stack, queue, id, sessionOnly,
                   runnerOnly, archiveOnly, listOnly, pos, fifoOnly,
                   serverOnly, cur, data>>
ForksStep == OnlyForks /\ Forks!Next
OnlyRunner ==
    /\ program = "runner"
    /\ UNCHANGED <<program, status, out, faults, next, exists, stack, queue, id,
                   sessionOnly, forksOnly, archiveOnly, listOnly, pos, fifoOnly,
                   serverOnly, cur, data>>
RunnerStep == OnlyRunner /\ Runner!Next
OnlyArchive ==
    /\ program = "archive"
    /\ UNCHANGED <<program, sem, status, out, next, queue, id, sessionOnly,
                   forksOnly, runnerOnly, listOnly, pos, fifoOnly,
                   serverOnly, data>>
ArchiveStep == OnlyArchive /\ Archive!Next
OnlyList ==
    /\ program = "list"
    /\ UNCHANGED <<program, sem, out, faults, next, queue, id, sessionOnly,
                   forksOnly, runnerOnly, archiveOnly, pos, fifoOnly,
                   serverOnly, cur, data>>
ListStep == OnlyList /\ List!Next
OnlyFifo ==
    /\ program = "fifo"
    /\ UNCHANGED <<program, sem, faults, next, exists, stack, queue, id,
                   sessionOnly, forksOnly, runnerOnly, archiveOnly, listOnly,
                   serverOnly, cur>>
FifoStep == OnlyFifo /\ Fifo!Next
OnlyServer ==
    /\ program = "server"
    /\ UNCHANGED <<program, sem, faults, next, exists, stack, pos, queue, id,
                   sessionOnly, forksOnly, runnerOnly, archiveOnly, listOnly,
                   fifoOnly>>
ServerStep == OnlyServer /\ Server!Next

Next ==
    \/ SessionStep \/ OrderStep \/ ForksStep \/ RunnerStep \/ ArchiveStep
    \/ ListStep \/ FifoStep \/ ServerStep

\* The processes of the programs with liveness properties are scheduled; to
\* start a reader or a writer of a pipe, or a server, is up to the user.
Spec ==
    /\ Init /\ [][Next]_vars
    /\ WF_vars(OnlySession /\ Session!ReceiverStep)
    /\ \A s \in Senders : WF_vars(OnlySession /\ Session!SenderStep(s))
    /\ WF_vars(OnlyOrder /\ Order!ParentStep)
    /\ \A c \in 0 .. NrChildren - 1 : WF_vars(OnlyOrder /\ Order!ChildStep(c))
    /\ \A w \in Writers : WF_vars(OnlyFifo /\ Fifo!WriterStep(w))
    /\ \A r \in Readers : WF_vars(OnlyFifo /\ Fifo!ReaderStep(r))
    /\ WF_vars(OnlyServer /\ Server!ServerStep)
    /\ \A c \in Clients : WF_vars(OnlyServer /\ Server!ClientStep(c))

-----------------------------------------------------------------------------
\* SessionTransfer, FifoTransfer, RequestServer: a reader's output is what its
\* writer sent, in order; while a sender writes, the memory is in one hand.
OutputFollows ==
    /\ program = "session" => Session!FilesInOneHand
    /\ program = "fifo" => Fifo!OutputIsPrefix
    /\ program = "server" => Server!OutputIsPrefix

\* MessageOrder, ForkOrder: the children print in order.
PrintedInOrder ==
    /\ program = "order" => Order!PrintedInOrder
    /\ program = "forks" => Forks!InOrder

\* LineRunner: the limit is kept, and refusals are justified.
LimitHeld == program = "runner" => Runner!LimitHeld

\* Backup, Listing: success means that the archives are current, and that
\* everything is listed once.
SuccessIsTrue ==
    /\ program = "archive" => Archive!SuccessIsCurrent
    /\ program = "list" => List!ListedOnce

\* FifoTransfer, RequestServer: success means that the file has arrived.
SuccessIsDelivery ==
    /\ program = "fifo" => Fifo!SuccessIsDelivery /\ Fifo!SuccessHadReader
    /\ program = "server" => Server!SuccessIsComplete

\* RequestServer: what ends a server is a signal, a request for a file that
\* cannot be opened, or a client that was terminated before its answer.
EndsForCause == program = "server" => Server!EndsForCause

\* SessionTransfer, FifoTransfer, RequestServer: in the end nobody is left in a
\* session, nobody who met the other side waits, whoever died.
Parted ==
    /\ program = "session" => \A s \in Senders : ~Session!InSession(s)
    /\ program = "fifo" => Fifo!AllEnded
    /\ program = "server" => Server!NobodyWaits
NobodyWaitsForTheDead == <>[]Parted

\* MessageOrder: parent and children end, whichever fork() fails.
EverybodyEnds == <>[](program = "order" => Order!AllEnded)
=============================================================================

---------------------------- MODULE RequestServer ----------------------------
(***************************************************************************)
(* course2-1/__non_canonical/For478/task1: a server answers requests for   *)
(* files over named pipes. A client writes its request into the master     *)
(* pipe, reads the answer from a slave pipe of its own, and watches the    *)
(* guard pipe, which nobody writes to: it hangs up when the server dies.   *)
(* The server has to reopen the master pipe whenever its last client went. *)
(*                                                                         *)
(* A server that ended may be started again, under the same names; its     *)
(* pipes are numbered by incarnation. Clients and server may be killed     *)
(* (nothing is cleaned up) or terminated (the handler removes their pipes) *)
(* between two steps.                                                      *)
(***************************************************************************)
EXTENDS Integers, Sequences, FiniteSets

CONSTANTS
    Clients,
    Missing,      \* clients that ask for a file that cannot be opened
    FileLen,      \* chunks of the other files
    Signals,      \* what may hit a process: "KILL", "TERM"
    MaxSignals,   \* bound: signals sent
    MaxServers    \* bound: incarnations of the server

NoClient == "no client"

VARIABLES
    srv,      \* where the server is; "down" when there is none
    inc,      \* its incarnation
    ended,    \* how each earlier incarnation ended
    guardAt, masterAt, \* the incarnations whose pipes bear these names
    awake,    \* open() of the master pipe has seen a client
    master,   \* requests in the server's master pipe
    cur,      \* the client the server answers
    sent,     \* chunks it has written to that client
    pc, status,
    myMaster, myGuard, \* the incarnations whose pipes a client has open
    guarded,  \* clients whose guard pipe had its writer
    slaves,   \* clients whose slave pipe is in the directory
    data,     \* chunks in each slave pipe
    served,   \* the incarnation that opened each slave pipe, or 0
    out,      \* chunks each client wrote to its stdout
    signals

srvVars == <<srv, inc, ended, guardAt, masterAt, awake, cur, sent>>
cltVars == <<pc, status, myMaster, myGuard, guarded, out>>
vars == <<srvVars, cltVars, master, slaves, data, served, signals>>

\* Clients that hold the server's master pipe open for writing.
MasterHolders == {c \in Clients : myMaster[c] = inc /\ inc # 0}

\* The server has the reading end of it open; open() counts while it waits.
Listening == srv \in {"opening", "reading", "eof", "serve", "cat"}

\* c has the reading end of its slave pipe open.
SlaveOpen(c) == pc[c] \in {"send", "poll", "cat"}

\* The server writes to c's slave pipe; it is being written to by its server.
Written(c) == srv = "cat" /\ cur = c

SrvGoto(from, to) == srv = from /\ srv' = to

-----------------------------------------------------------------------------
(* server.c *)

StartServer ==
    /\ SrvGoto("down", "guard") /\ inc < MaxServers
    /\ inc' = inc + 1 /\ master' = <<>> /\ awake' = FALSE
    /\ UNCHANGED <<ended, guardAt, masterAt, cur, sent, cltVars, slaves,
                   data, served, signals>>

\* unlink_and_mkfifo() and open_wronly_nonblock() of the guard pipe
MakeGuard ==
    /\ SrvGoto("guard", "master") /\ guardAt' = inc
    /\ UNCHANGED <<inc, ended, masterAt, awake, master, cur, sent, cltVars,
                   slaves, data, served, signals>>

MakeMaster ==
    /\ SrvGoto("master", "closed") /\ masterAt' = inc
    /\ UNCHANGED <<inc, ended, guardAt, awake, master, cur, sent, cltVars,
                   slaves, data, served, signals>>

\* open() of the master pipe waits for a client, unless one has it open.
OpenMaster ==
    /\ SrvGoto("closed", "opening")
    /\ awake' = (MasterHolders # {})
    /\ UNCHANGED <<inc, ended, guardAt, masterAt, master, cur, sent, cltVars,
                   slaves, data, served, signals>>

MasterOpened ==
    /\ SrvGoto("opening", "reading") /\ awake
    /\ UNCHANGED <<inc, ended, guardAt, masterAt, awake, master, cur, sent,
                   cltVars, slaves, data, served, signals>>

\* read_request(): requests are written, and so read, in one piece.
ReadRequest ==
    /\ SrvGoto("reading", "serve") /\ master # <<>>
    /\ cur' = Head(master) /\ master' = Tail(master) /\ sent' = 0
    /\ UNCHANGED <<inc, ended, guardAt, masterAt, awake, cltVars, slaves,
                   data, served, signals>>

\* An end of file: the last client closed the pipe.
MasterEof ==
    /\ SrvGoto("reading", "eof") /\ master = <<>> /\ MasterHolders = {}
    /\ UNCHANGED <<inc, ended, guardAt, masterAt, awake, master, cur, sent,
                   cltVars, slaves, data, served, signals>>

\* Requests of clients that came in meanwhile stay in the pipe.
CloseMaster ==
    /\ SrvGoto("eof", "closed")
    /\ master' = IF MasterHolders = {} THEN <<>> ELSE master
    /\ UNCHANGED <<inc, ended, guardAt, masterAt, awake, cur, sent, cltVars,
                   slaves, data, served, signals>>

\* The server's end: its pipes lose the server, and their names if its
\* handlers run.
EndServer(how) ==
    /\ srv' = "down" /\ ended' = [ended EXCEPT ![inc] = how]
    /\ cur' = NoClient /\ sent' = 0 /\ master' = <<>> /\ awake' = FALSE
    /\ IF how = "KILL" THEN UNCHANGED <<guardAt, masterAt>>
                       ELSE guardAt' = 0 /\ masterAt' = 0
    /\ UNCHANGED <<inc, cltVars, slaves, data, served>>

\* process_request(): no such file, and the server dies of it.
NoFile ==
    /\ srv = "serve" /\ cur \in Missing
    /\ EndServer("no file") /\ UNCHANGED signals

\* open() of the slave pipe finds its reader ...
OpenSlave ==
    /\ SrvGoto("serve", "cat") /\ cur \notin Missing
    /\ cur \in slaves /\ SlaveOpen(cur)
    /\ served' = [served EXCEPT ![cur] = inc]
    /\ UNCHANGED <<inc, ended, guardAt, masterAt, awake, master, cur, sent,
                   cltVars, slaves, data, signals>>

Answered(from) ==
    /\ SrvGoto(from, "reading")
    /\ cur' = NoClient /\ sent' = 0
    /\ UNCHANGED <<inc, ended, guardAt, masterAt, awake, master, cltVars,
                   slaves, served, signals>>

\* Mutant of DeadClient: any failing open() is an error.
FatalDeadClient ==
    /\ srv = "serve" /\ cur \notin Missing /\ ~ SlaveOpen(cur)
    /\ EndServer("no slave") /\ UNCHANGED signals

\* ... or none, ENXIO: the client was killed ...
DeadClient ==
    /\ cur \notin Missing /\ cur \in slaves /\ ~ SlaveOpen(cur)
    /\ Answered("serve") /\ UNCHANGED data

\* ... or no pipe, ENOENT, which is fatal: the client removed it.
NoSlave ==
    /\ srv = "serve" /\ cur \notin Missing /\ cur \notin slaves
    /\ EndServer("no slave") /\ UNCHANGED signals

\* fd_cat(): a write() waits for room in the pipe.
SendChunk ==
    /\ srv = "cat" /\ sent < FileLen /\ SlaveOpen(cur) /\ data[cur] = <<>>
    /\ sent' = sent + 1
    /\ data' = [data EXCEPT ![cur] = <<sent'>>]
    /\ UNCHANGED <<srv, inc, ended, guardAt, masterAt, awake, master, cur,
                   cltVars, slaves, served, signals>>

\* The whole file is written, or the client is gone, EPIPE.
Answer ==
    /\ Answered("cat") /\ (sent = FileLen \/ ~ SlaveOpen(cur))
    /\ data' = [data EXCEPT ![cur] = IF SlaveOpen(cur) THEN @ ELSE <<>>]

ServerStep ==
    \/ MakeGuard \/ MakeMaster \/ OpenMaster \/ MasterOpened \/ ReadRequest
    \/ MasterEof \/ CloseMaster \/ NoFile \/ OpenSlave \/ DeadClient
    \/ NoSlave \/ SendChunk \/ Answer

-----------------------------------------------------------------------------
(* client.c *)

Goto(c, from, to) == pc[c] = from /\ pc' = [pc EXCEPT ![c] = to]

\* exit() of a client: its pipes are closed; what nobody holds is forgotten.
EndClient(c, how) ==
    /\ pc' = [pc EXCEPT ![c] = "done"]
    /\ status' = [status EXCEPT ![c] = how]
    /\ myMaster' = [myMaster EXCEPT ![c] = 0]
    /\ myGuard' = [myGuard EXCEPT ![c] = 0]
    /\ slaves' = IF how = "KILL" THEN slaves ELSE slaves \ {c}
    /\ data' = [data EXCEPT ![c] = IF Written(c) THEN @ ELSE <<>>]
    /\ master' = IF Listening \/ MasterHolders \ {c} # {} THEN master
                                                          ELSE <<>>
    /\ UNCHANGED <<srvVars, guarded, served, out>>

\* open() of the master pipe: no name, or nobody who listens.
OpenFails(c) ==
    /\ pc[c] = "start" /\ (masterAt = 0 \/ masterAt # inc \/ ~ Listening)
    /\ EndClient(c, "no server") /\ UNCHANGED signals

OpenToWrite(c) ==
    /\ masterAt # 0 /\ masterAt = inc /\ Listening
    /\ Goto(c, "start", "guard")
    /\ myMaster' = [myMaster EXCEPT ![c] = inc]
    /\ awake' = TRUE
    /\ UNCHANGED <<srv, inc, ended, guardAt, masterAt, master, cur, sent,
                   status, myGuard, guarded, slaves, data, served, out,
                   signals>>

NoGuard(c) ==
    /\ pc[c] = "guard" /\ guardAt = 0
    /\ EndClient(c, "no server") /\ UNCHANGED signals

\* Opened without its server the guard pipe will never hang up.
OpenGuard(c) ==
    /\ guardAt # 0 /\ Goto(c, "guard", "slave")
    /\ myGuard' = [myGuard EXCEPT ![c] = guardAt]
    /\ guarded' = IF guardAt = inc /\ srv # "down" THEN guarded \cup {c}
                                                   ELSE guarded
    /\ UNCHANGED <<srvVars, master, status, myMaster, slaves, data, served,
                   out, signals>>

\* unlink_and_mkfifo() and open() of the slave pipe
MakeSlave(c) ==
    /\ Goto(c, "slave", "send")
    /\ slaves' = slaves \cup {c}
    /\ UNCHANGED <<srvVars, master, status, myMaster, myGuard, guarded, data,
                   served, out, signals>>

SendRequest(c) ==
    /\ Listening /\ myMaster[c] = inc
    /\ Goto(c, "send", "poll")
    /\ master' = Append(master, c)
    /\ UNCHANGED <<srvVars, status, myMaster, myGuard, guarded, slaves, data,
                   served, out, signals>>

\* EPIPE: the server is dead, or about to open the pipe again.
SendFails(c) ==
    /\ pc[c] = "send" /\ ~ (Listening /\ myMaster[c] = inc)
    /\ EndClient(c, "no server") /\ UNCHANGED signals

\* Mutant of HungUp: the guard pipe is not watched.
NeverHungUp(c) == FALSE

\* poll(): the guard pipe lost its writer ...
HungUp(c) == c \in guarded /\ (srv = "down" \/ myGuard[c] # inc)
\* ... the slave pipe has data, or had a writer and lost it.
SlaveReady(c) == data[c] # <<>> \/ (served[c] # 0 /\ ~ Written(c))

PollGuard(c) ==
    /\ pc[c] = "poll" /\ HungUp(c)
    /\ EndClient(c, "hangup") /\ UNCHANGED signals

PollSlave(c) ==
    /\ ~ HungUp(c) /\ SlaveReady(c)
    /\ Goto(c, "poll", "cat")
    /\ UNCHANGED <<srvVars, master, status, myMaster, myGuard, guarded,
                   slaves, data, served, out, signals>>

Copy(c) ==
    /\ pc[c] = "cat" /\ data[c] # <<>>
    /\ out' = [out EXCEPT ![c] = @ \o data[c]]
    /\ data' = [data EXCEPT ![c] = <<>>]
    /\ UNCHANGED <<srvVars, master, pc, status, myMaster, myGuard, guarded,
                   slaves, served, signals>>

\* The end of the slave pipe: success, whatever came through it.
SlaveEof(c) ==
    /\ pc[c] = "cat" /\ data[c] = <<>> /\ ~ Written(c)
    /\ EndClient(c, "ok") /\ UNCHANGED signals

ClientStep(c) ==
    \/ OpenFails(c) \/ OpenToWrite(c) \/ NoGuard(c) \/ OpenGuard(c)
    \/ MakeSlave(c) \/ SendRequest(c) \/ SendFails(c) \/ PollGuard(c)
    \/ PollSlave(c) \/ Copy(c) \/ SlaveEof(c)

-----------------------------------------------------------------------------
SignalServer(sig) ==
    /\ srv \notin {"down"} /\ signals < MaxSignals
    /\ signals' = signals + 1
    /\ EndServer(sig)

SignalClient(c, sig) ==
    /\ pc[c] \notin {"start", "done"} /\ signals < MaxSignals
    /\ signals' = signals + 1
    /\ EndClient(c, sig)

Init ==
    /\ srv = "down" /\ inc = 0
    /\ ended = [i \in 1 .. MaxServers |-> "not"]
    /\ guardAt = 0 /\ masterAt = 0 /\ awake = FALSE
    /\ master = <<>> /\ cur = NoClient /\ sent = 0
    /\ pc = [c \in Clients |-> "start"]
    /\ status = [c \in Clients |-> "running"]
    /\ myMaster = [c \in Clients |-> 0] /\ myGuard = [c \in Clients |-> 0]
    /\ guarded = {} /\ slaves = {}
    /\ data = [c \in Clients |-> <<>>]
    /\ served = [c \in Clients |-> 0]
    /\ out = [c \in Clients |-> <<>>]
    /\ signals = 0

Next ==
    \/ StartServer \/ ServerStep
    \/ \E c \in Clients : ClientStep(c)
    \/ \E sig \in Signals :
          SignalServer(sig) \/ \E c \in Clients : SignalClient(c, sig)

-----------------------------------------------------------------------------
Statuses == {"running", "ok", "no server", "hangup"} \cup Signals

TypeOK ==
    /\ srv \in {"down", "guard", "master", "closed", "opening", "reading",
               "eof", "serve", "cat"}
    /\ inc \in 0 .. MaxServers
    /\ ended \in [1 .. MaxServers ->
                  {"not", "no file", "no slave"} \cup Signals]
    /\ guardAt \in 0 .. inc /\ masterAt \in 0 .. inc
    /\ awake \in BOOLEAN
    /\ master \in Seq(Clients)
    /\ cur \in Clients \cup {NoClient} /\ sent \in 0 .. FileLen
    /\ pc \in [Clients -> {"start", "guard", "slave", "send", "poll", "cat",
                           "done"}]
    /\ status \in [Clients -> Statuses]
    /\ myMaster \in [Clients -> 0 .. inc] /\ myGuard \in [Clients -> 0 .. inc]
    /\ guarded \subseteq Clients /\ slaves \subseteq Clients
    /\ data \in [Clients -> Seq(1 .. FileLen)]
    /\ served \in [Clients -> 0 .. inc]
    /\ out \in [Clients -> Seq(1 .. FileLen)]
    /\ signals \in 0 .. MaxSignals

File == [i \in 1 .. FileLen |-> i]

\* A client writes a prefix of the file it asked for, whoever dies: nothing
\* twice after a restart of the server, nothing of another client's answer.
OutputIsPrefix == TypeOK /\ \A c \in Clients :
    \E n \in 0 .. FileLen : out[c] = SubSeq(File, 1, n)

\* A client that reports success has the whole file if the server that
\* answered it did not end since. (It cannot tell an end of the answer from
\* the end of the server: client.c:157-162.)
SuccessIsComplete == \A c \in Clients :
    status[c] = "ok" /\ ended[served[c]] = "not" => out[c] = File

\* c asked for a file that cannot be opened; it was terminated, with its
\* request unanswered.
AskedInVain(c) == /\ c \in Missing /\ served[c] = 0
                  /\ pc[c] = "poll" \/ status[c] \in {"hangup"} \cup Signals
TookItsPipe(c) == c \notin Missing /\ served[c] = 0 /\ status[c] = "TERM"

\* A server that was not sent a signal itself goes on for ever but for two
\* causes: a client, alive or not, that asked for a file that cannot be opened,
\* and one that was terminated before its answer, whose handler removed its
\* pipe (ENOENT is not taken for a dead client, server.c:40). Clients that were
\* killed, gave up, or are done never bring it down.
EndsForCause == \A i \in 1 .. MaxServers :
    /\ ended[i] = "no file" => \E c \in Clients : AskedInVain(c)
    /\ ended[i] = "no slave" => \E c \in Clients : TookItsPipe(c)

\* No client waits: not for a server that died with its request, not for one
\* that died between the client's two open() calls, and not for one that was
\* started again.
NobodyWaits == \A c \in Clients : pc[c] \in {"start", "done"}
=============================================================================

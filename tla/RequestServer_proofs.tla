------------------------ MODULE RequestServer_proofs ------------------------
(***************************************************************************)
(* Theorems about RequestServer, for any number of clients, files of any   *)
(* length, any number of signals and of servers that follow one another:   *)
(* what a client writes, what its success means, and what a server ends    *)
(* of.                                                                     *)
(*                                                                         *)
(* A request is in one place, the pipe or the server's hand, and is that   *)
(* of a client that was not served (Asked). What a client wrote and what   *)
(* is in its pipe are the beginning of the file, as far as its server got  *)
(* (Flow). A request whose client's pipe is gone is that of a terminated   *)
(* client (Pipes).                                                         *)
(***************************************************************************)
EXTENDS RequestServer, SequenceTheorems, TLAPS

\* What the arguments of the programs are.
Setting ==
    /\ NoClient \notin Clients /\ Signals \subseteq {"KILL", "TERM"}
    /\ FileLen \in Nat /\ MaxSignals \in Nat /\ MaxServers \in Nat

\* Before a client has sent its request; a request that waits in the pipe.
Before == {"start", "guard", "slave", "send"}
InMaster(c) == \E i \in 1 .. Len(master) : master[i] = c

\* Who asked, and is answered.
Asked ==
    /\ IF srv \in {"serve", "cat"} THEN cur \in Clients ELSE cur = NoClient
    /\ srv = "down" => master = << >>
    /\ srv # "down" => inc > 0
    /\ srv # "cat" => sent = 0
    /\ srv = "serve" => served[cur] = 0
    /\ srv = "cat" => served[cur] = inc
    /\ cur # NoClient => pc[cur] \notin Before
    /\ \A i, j \in 1 .. Len(master) : master[i] = master[j] => i = j
    /\ \A i \in 1 .. Len(master) : /\ master[i] # cur
                                   /\ served[master[i]] = 0
                                   /\ pc[master[i]] \notin Before

\* How far the clients are.
Stages == \A c \in Clients :
    /\ pc[c] \in Before => served[c] = 0
    /\ served[c] = 0 => data[c] = << >> /\ out[c] = << >>
    /\ pc[c] = "cat" => served[c] # 0
    /\ status[c] = "ok" => served[c] # 0
    /\ status[c] = "running" <=> pc[c] # "done"

\* The clients' pipes, and which server they belong to.
Pending(c) == InMaster(c) \/ (cur = c /\ srv = "serve")
Pipes == \A c \in Clients :
    /\ pc[c] \in {"send", "poll", "cat"} => c \in slaves
    /\ pc[c] \in {"start", "guard"} => c \notin guarded
    /\ pc[c] # "done" /\ c \in guarded => myMaster[c] <= myGuard[c]
    /\ Pending(c) => c \in slaves \/ status[c] = "TERM"
    /\ Pending(c) => pc[c] = "poll" \/ status[c] \in Signals
    /\ Pending(c) /\ pc[c] # "done" => myMaster[c] = inc

\* The first n chunks of the file.
Chunks(n) == [i \in 1 .. n |-> i]

\* What a client wrote, and what it will find in its pipe.
FlowOf(c) ==
    LET n == Len(out[c]) IN
    /\ n <= FileLen /\ out[c] = Chunks(n)
    /\ SlaveOpen(c) => data[c] = << >> \/ (n < FileLen /\ data[c] = <<n + 1>>)
    /\ SlaveOpen(c) /\ Written(c) => n + Len(data[c]) = sent
    /\ SlaveOpen(c) /\ ~ Written(c) /\ served[c] # 0 /\ ended[served[c]] = "not"
          => n + Len(data[c]) = FileLen
    /\ status[c] = "ok" /\ ended[served[c]] = "not" => n = FileLen
Flow == \A c \in Clients : FlowOf(c)

\* The inductive invariant.
ServerInv == TypeOK /\ Asked /\ Stages /\ Pipes /\ Flow /\ EndsForCause

-----------------------------------------------------------------------------
\* What the pipe holds after a request was read or written.
LEMMA RequestRead ==
    ASSUME TypeOK, master # << >>
    PROVE  /\ Head(master) \in Clients /\ Head(master) = master[1]
           /\ Tail(master) \in Seq(Clients) /\ Len(Tail(master)) = Len(master) - 1
           /\ Len(master) \in Nat /\ Len(master) > 0
           /\ \A i \in 1 .. Len(Tail(master)) : Tail(master)[i] = master[i + 1]
<1>1. master \in Seq(Clients)
  BY DEF TypeOK
<1> QED BY <1>1, HeadTailProperties

LEMMA RequestWritten ==
    ASSUME TypeOK, NEW c \in Clients
    PROVE  /\ Append(master, c) \in Seq(Clients)
           /\ Len(Append(master, c)) = Len(master) + 1 /\ Len(master) \in Nat
           /\ Append(master, c)[Len(master) + 1] = c
           /\ \A i \in 1 .. Len(master) : Append(master, c)[i] = master[i]
<1>1. master \in Seq(Clients)
  BY DEF TypeOK
<1> QED BY <1>1, AppendProperties

-----------------------------------------------------------------------------
\* The types of what the server has, and of what the clients have.
Posts == {"down", "guard", "master", "closed", "opening", "reading", "eof", "serve", "cat"}
Ends == {"not", "no file", "no slave"} \cup Signals
Places == Before \cup {"poll", "cat", "done"}
Incs == 0 .. inc
Answers == Seq(1 .. FileLen)
SrvTypes ==
    /\ srv \in Posts /\ inc \in 0 .. MaxServers
    /\ ended \in [1 .. MaxServers -> Ends]
    /\ guardAt \in Incs /\ masterAt \in Incs /\ awake \in BOOLEAN
    /\ master \in Seq(Clients) /\ cur \in Clients \cup {NoClient} /\ sent \in 0 .. FileLen
    /\ signals \in 0 .. MaxSignals
CltTypes ==
    /\ pc \in [Clients -> Places] /\ status \in [Clients -> Statuses]
    /\ myMaster \in [Clients -> Incs] /\ myGuard \in [Clients -> Incs]
    /\ guarded \subseteq Clients /\ slaves \subseteq Clients
    /\ data \in [Clients -> Answers] /\ out \in [Clients -> Answers]
    /\ served \in [Clients -> Incs]

LEMMA TypeParts == TypeOK <=> SrvTypes /\ CltTypes
BY DEF TypeOK, SrvTypes, CltTypes, Posts, Ends, Places, Incs, Answers, Before

\* What an end of the server, or of a client, is.
ServerEnds == \E how \in Ends \ {"not"} : EndServer(how)
ClientEnds(c) ==
    \/ pc[c] \in Before /\ EndClient(c, "no server")
    \/ pc[c] = "poll" /\ HungUp(c) /\ EndClient(c, "hangup")
    \/ pc[c] = "cat" /\ data[c] = << >> /\ ~ Written(c) /\ EndClient(c, "ok")
    \/ pc[c] # "done" /\ \E how \in Signals : EndClient(c, how)

LEMMA ClientEnd ==
    ASSUME NEW c \in Clients, Setting, ClientEnds(c)
    PROVE  /\ pc[c] # "done"
           /\ \E how \in Statuses \ {"running"} :
                 /\ EndClient(c, how)
                 /\ how = "ok" => pc[c] = "cat" /\ data[c] = << >> /\ ~ Written(c)
                 /\ how \notin {"KILL", "TERM"} =>
                       pc[c] \in Before \/ pc[c] = "cat" \/ (pc[c] = "poll" /\ HungUp(c))
BY DEF ClientEnds, Statuses, Setting, Before

\* Every step, by what it changes.
LEMMA Steps ==
    ASSUME Setting, TypeOK, Asked, [Next]_vars
    PROVE  \/ StartServer
           \/ MakeGuard \/ MakeMaster \/ OpenMaster \/ MasterOpened \/ MasterEof
           \/ ReadRequest \/ CloseMaster \/ OpenSlave \/ DeadClient \/ SendChunk \/ Answer
           \/ ServerEnds /\ inc > 0 /\ signals' \in 0 .. MaxSignals
           \/ \E c \in Clients :
                 \/ OpenToWrite(c) \/ OpenGuard(c) \/ MakeSlave(c) \/ SendRequest(c)
                 \/ PollSlave(c) \/ Copy(c)
                 \/ ClientEnds(c) /\ signals' \in 0 .. MaxSignals
           \/ UNCHANGED vars
<1>1. signals \in 0 .. MaxSignals /\ MaxSignals \in Nat
  BY DEF TypeOK, Setting
<1>2. ASSUME NoFile \/ NoSlave \/ \E sig \in Signals : SignalServer(sig)
      PROVE  ServerEnds /\ inc > 0 /\ signals' \in 0 .. MaxSignals
  <2>1. inc > 0
    BY <1>2 DEF NoFile, NoSlave, SignalServer, Asked
  <2>2. signals' = signals \/ (signals < MaxSignals /\ signals' = signals + 1)
    BY <1>2, Zenon DEF NoFile, NoSlave, SignalServer
  <2>3. ServerEnds
    BY <1>2 DEF NoFile, NoSlave, SignalServer, ServerEnds, Ends, Setting
  <2> QED BY <1>1, <2>1, <2>2, <2>3
<1>3. ASSUME NEW c \in Clients,
             \/ OpenFails(c) \/ NoGuard(c) \/ SendFails(c) \/ PollGuard(c) \/ SlaveEof(c)
             \/ \E sig \in Signals : SignalClient(c, sig)
      PROVE  ClientEnds(c) /\ signals' \in 0 .. MaxSignals
  <2>1. signals' = signals \/ (signals < MaxSignals /\ signals' = signals + 1)
    BY <1>3, Zenon DEF OpenFails, NoGuard, SendFails, PollGuard, SlaveEof, SignalClient
  <2>2. ClientEnds(c)
    BY <1>3 DEF OpenFails, NoGuard, SendFails, PollGuard, SlaveEof, SignalClient, Before,
                ClientEnds
  <2> QED BY <1>1, <2>1, <2>2
<1> QED BY <1>2, <1>3 DEF Next, ServerStep, ClientStep

-----------------------------------------------------------------------------
\* Each step keeps the types.
LEMMA SrvTypeStep ==
    ASSUME Setting, SrvTypes, Asked, [Next]_vars, TypeOK
    PROVE  SrvTypes'
<1>0. << >> \in Seq(Clients)
  OBVIOUS
<1> USE DEF Setting, SrvTypes, Incs
<1>1. CASE StartServer
  <2>1. inc' = inc + 1 /\ inc' \in 0 .. MaxServers
    BY <1>1 DEF StartServer
  <2>2. master' = << >> /\ srv' = "guard" /\ awake' = FALSE
        /\ UNCHANGED <<ended, guardAt, masterAt, cur, sent, signals>>
    BY <1>1 DEF StartServer, SrvGoto
  <2>3. guardAt' \in 0 .. inc' /\ masterAt' \in 0 .. inc'
    BY <2>1, <2>2
  <2>4. ended' \in [1 .. MaxServers -> Ends'] /\ srv' \in Posts'
    BY <2>2 DEF Posts, Ends
  <2>5. /\ master' \in Seq(Clients) /\ cur' \in Clients \cup {NoClient} /\ sent' \in 0 .. FileLen
        /\ awake' \in BOOLEAN /\ signals' \in 0 .. MaxSignals
    BY <1>0, <2>2
  <2> QED BY <2>1, <2>3, <2>4, <2>5
<1>2. CASE MakeGuard \/ MakeMaster \/ OpenMaster \/ MasterOpened \/ MasterEof
  <2>1. /\ srv' \in Posts /\ guardAt' \in {guardAt, inc} /\ masterAt' \in {masterAt, inc}
        /\ awake' \in BOOLEAN /\ UNCHANGED <<inc, ended, master, cur, sent, signals>>
    BY <1>2 DEF MakeGuard, MakeMaster, OpenMaster, MasterOpened, MasterEof, SrvGoto, Posts
  <2>2. inc' = inc /\ guardAt' \in 0 .. inc /\ masterAt' \in 0 .. inc
    BY <2>1
  <2> QED BY <2>1, <2>2
<1>3. CASE ReadRequest
  BY <1>3, RequestRead DEF ReadRequest, SrvGoto, Posts, cltVars
<1>4. CASE CloseMaster
  BY <1>4 DEF CloseMaster, SrvGoto, Posts, cltVars
<1>5. CASE OpenSlave
  BY <1>5 DEF OpenSlave, SrvGoto, Posts, cltVars
<1>6. CASE DeadClient \/ Answer
  BY <1>6 DEF DeadClient, Answer, Answered, SrvGoto, Posts, cltVars
<1>7. CASE SendChunk
  BY <1>7 DEF SendChunk, cltVars
<1>8. CASE ServerEnds /\ inc > 0 /\ signals' \in 0 .. MaxSignals
  <2>1. PICK how \in Ends : EndServer(how)
    BY <1>8 DEF ServerEnds
  <2>2. /\ srv' = "down" /\ ended' = [ended EXCEPT ![inc] = how] /\ inc' = inc
        /\ cur' = NoClient /\ sent' = 0 /\ master' = << >> /\ awake' = FALSE
        /\ guardAt' \in {guardAt, 0} /\ masterAt' \in {masterAt, 0}
    BY <2>1 DEF EndServer
  <2>3. ended' \in [1 .. MaxServers -> Ends]
    BY <1>8, <2>2
  <2>4. guardAt' \in 0 .. inc /\ masterAt' \in 0 .. inc
    BY <2>2
  <2>5. srv' \in Posts' /\ Ends' = Ends
    BY <2>2 DEF Posts, Ends
  <2>6. master' \in Seq(Clients) /\ cur' \in Clients \cup {NoClient} /\ sent' \in 0 .. FileLen
        /\ awake' \in BOOLEAN /\ inc' \in 0 .. MaxServers
    <3>1. 0 \in 0 .. FileLen
      OBVIOUS
    <3> QED BY <1>0, <2>2, <3>1
  <2> QED BY <1>8, <2>2, <2>3, <2>4, <2>5, <2>6
<1>9. ASSUME NEW c \in Clients, OpenToWrite(c) \/ OpenGuard(c) \/ MakeSlave(c) \/ PollSlave(c) \/ Copy(c)
      PROVE  SrvTypes'
  BY <1>9 DEF OpenToWrite, OpenGuard, MakeSlave, PollSlave, Copy, srvVars
<1>10. ASSUME NEW c \in Clients, SendRequest(c) PROVE SrvTypes'
  BY <1>10, RequestWritten DEF SendRequest, srvVars
<1>11. ASSUME NEW c \in Clients, ClientEnds(c), signals' \in 0 .. MaxSignals PROVE SrvTypes'
  <2>1. (master' = master \/ master' = << >>) /\ UNCHANGED srvVars
    BY <1>11, ClientEnd DEF EndClient
  <2>2. master' \in Seq(Clients)
    BY <1>0, <2>1
  <2> QED BY <1>11, <2>1, <2>2 DEF srvVars, Ends
<1>12. CASE UNCHANGED vars
  BY <1>12 DEF vars, srvVars
<1> QED BY <1>1, <1>2, <1>3, <1>4, <1>5, <1>6, <1>7, <1>8, <1>9, <1>10, <1>11, <1>12, Steps

LEMMA CltTypeStep ==
    ASSUME Setting, SrvTypes, CltTypes, Asked, [Next]_vars, TypeOK
    PROVE  CltTypes'
<1> USE DEF CltTypes
<1>0. inc \in Nat /\ inc' \in Nat /\ inc <= inc'
  <2>1. inc' \in {inc, inc + 1}
    BY Steps DEF StartServer, MakeGuard, MakeMaster, OpenMaster, MasterOpened, MasterEof, ReadRequest,
         CloseMaster, OpenSlave, DeadClient, Answer, Answered, SendChunk, ServerEnds, EndServer,
         OpenToWrite, OpenGuard, MakeSlave, PollSlave, Copy, SendRequest, ClientEnds, EndClient,
         srvVars, vars
  <2> QED BY <2>1 DEF SrvTypes, Setting
<1>1. CASE UNCHANGED <<cltVars, slaves, data, served>>
  BY <1>0, <1>1 DEF cltVars, Incs
<1>2. CASE OpenSlave
  BY <1>2 DEF OpenSlave, SrvTypes, Incs, cltVars, Setting
<1>3. CASE SendChunk
  <2>1. <<sent + 1>> \in Answers /\ sent' = sent + 1
    BY <1>3 DEF SendChunk, SrvTypes, Answers, Setting
  <2> QED BY <1>3, <2>1 DEF SendChunk, cltVars, Incs
<1>4. CASE Answer
  <2>1. << >> \in Answers
    BY DEF Answers
  <2> QED BY <1>4, <2>1 DEF Answer, Answered, cltVars, Incs
<1>5. ASSUME NEW c \in Clients,
             OpenToWrite(c) \/ OpenGuard(c) \/ MakeSlave(c) \/ PollSlave(c) \/ SendRequest(c)
      PROVE  CltTypes'
  <2>1. inc \in Incs /\ guardAt \in Incs /\ inc' = inc
    BY <1>0, <1>5 DEF OpenToWrite, OpenGuard, MakeSlave, PollSlave, SendRequest, srvVars, SrvTypes, Incs
  <2>2. \E to \in Places : pc' = [pc EXCEPT ![c] = to]
    BY <1>5 DEF OpenToWrite, OpenGuard, MakeSlave, PollSlave, SendRequest, Goto, Places, Before
  <2>3. /\ \E i \in Incs : myMaster' = [myMaster EXCEPT ![c] = i] \/ myMaster' = myMaster
        /\ \E i \in Incs : myGuard' = [myGuard EXCEPT ![c] = i] \/ myGuard' = myGuard
    BY <1>5, <2>1 DEF OpenToWrite, OpenGuard, MakeSlave, PollSlave, SendRequest
  <2>4. /\ guarded' \in {guarded, guarded \cup {c}} /\ slaves' \in {slaves, slaves \cup {c}}
        /\ UNCHANGED <<status, data, out, served>>
    BY <1>5 DEF OpenToWrite, OpenGuard, MakeSlave, PollSlave, SendRequest
  <2> HIDE DEF CltTypes
  <2>5. pc' \in [Clients -> Places]
    BY <2>2 DEF CltTypes
  <2>6. myMaster' \in [Clients -> Incs'] /\ myGuard' \in [Clients -> Incs']
    BY <2>1, <2>3 DEF CltTypes, Incs
  <2>7. served' \in [Clients -> Incs']
    BY <2>1, <2>4 DEF CltTypes, Incs
  <2> QED BY <2>4, <2>5, <2>6, <2>7 DEF CltTypes
<1>6. ASSUME NEW c \in Clients, Copy(c) PROVE CltTypes'
  <2>1. out[c] \o data[c] \in Answers /\ << >> \in Answers
    BY ConcatProperties DEF Answers
  <2> QED BY <1>6, <2>1 DEF Copy, srvVars, Incs
<1>7. ASSUME NEW c \in Clients, ClientEnds(c) PROVE CltTypes'
  <2>1. << >> \in Answers
    BY DEF Answers
  <2>2. PICK how \in Statuses : EndClient(c, how)
    BY <1>7, ClientEnd
  <2>3. /\ pc' = [pc EXCEPT ![c] = "done"] /\ status' = [status EXCEPT ![c] = how]
        /\ myMaster' = [myMaster EXCEPT ![c] = 0] /\ myGuard' = [myGuard EXCEPT ![c] = 0]
        /\ slaves' \in {slaves, slaves \ {c}}
        /\ (data' = [data EXCEPT ![c] = << >>] \/ data' = data)
        /\ UNCHANGED <<inc, guarded, served, out>>
    BY <2>2 DEF EndClient, srvVars
  <2>4. 0 \in Incs /\ Incs' = Incs
    BY <1>0, <2>3 DEF Incs
  <2>5. pc' \in [Clients -> Places] /\ status' \in [Clients -> Statuses]
    BY <2>3 DEF Places
  <2>6. myMaster' \in [Clients -> Incs] /\ myGuard' \in [Clients -> Incs]
    BY <2>3, <2>4
  <2>7. data' \in [Clients -> Answers]
    BY <2>1, <2>3
  <2> QED BY <2>3, <2>4, <2>5, <2>6, <2>7
<1>8. CASE StartServer \/ MakeGuard \/ MakeMaster \/ OpenMaster \/ MasterOpened \/ MasterEof
           \/ ReadRequest \/ CloseMaster \/ DeadClient \/ ServerEnds \/ UNCHANGED vars
  BY <1>1, <1>8 DEF StartServer, MakeGuard, MakeMaster, OpenMaster, MasterOpened, MasterEof, ReadRequest,
         CloseMaster, DeadClient, Answered, ServerEnds, EndServer, vars
<1> QED BY <1>2, <1>3, <1>4, <1>5, <1>6, <1>7, <1>8, Steps

-----------------------------------------------------------------------------
\* What does not change when a step is not about requests.
Quiet == MakeGuard \/ MakeMaster \/ OpenMaster \/ MasterOpened \/ MasterEof

LEMMA QuietFrame ==
    ASSUME Quiet
    PROVE  /\ srv \notin {"down", "serve", "cat"} /\ srv' \notin {"down", "serve", "cat"}
           /\ UNCHANGED <<inc, ended, master, cur, sent, cltVars, slaves, data, served, signals>>
BY DEF Quiet, MakeGuard, MakeMaster, OpenMaster, MasterOpened, MasterEof, SrvGoto

\* A request is in one place, and its client was not served yet.
LEMMA AskedStep ==
    ASSUME Setting, TypeOK, Asked, Stages, [Next]_vars
    PROVE  Asked'
<1> USE DEF Asked
<1>0. SrvTypes /\ CltTypes
  BY TypeParts
<1>1. CASE StartServer
  <2>1. /\ srv = "down" /\ srv' = "guard" /\ master' = << >> /\ inc' = inc + 1
        /\ UNCHANGED <<cur, sent, served, pc>>
    BY <1>1 DEF StartServer, SrvGoto, cltVars
  <2>2. inc' > 0 /\ Len(master') = 0
    BY <1>0, <2>1 DEF SrvTypes, Setting
  <2>3. cur' = NoClient /\ sent' = 0
    BY <2>1
  <2> QED BY <2>1, <2>2, <2>3
<1>2. CASE Quiet
  BY <1>2, QuietFrame, <1>0 DEF cltVars, SrvTypes
<1>3. CASE ReadRequest
  <2>1. /\ srv = "reading" /\ srv' = "serve" /\ cur' = Head(master) /\ master' = Tail(master)
        /\ sent' = 0 /\ UNCHANGED <<served, pc, inc>> /\ master # << >>
    BY <1>3 DEF ReadRequest, SrvGoto, cltVars
  <2>2. \A i \in 1 .. Len(master') : i + 1 \in 1 .. Len(master) /\ master'[i] = master[i + 1]
    BY <2>1, RequestRead
  <2>3. cur' = master[1] /\ 1 \in 1 .. Len(master) /\ cur' \in Clients
    BY <2>1, RequestRead
  <2>4. \A i \in 1 .. Len(master') : master'[i] # cur'
    BY <2>2, <2>3
  <2>5. \A i, j \in 1 .. Len(master') : master'[i] = master'[j] => i = j
    BY <2>2
  <2> QED BY <2>1, <2>2, <2>3, <2>4, <2>5
<1>4. CASE CloseMaster
  BY <1>4 DEF CloseMaster, SrvGoto, cltVars
<1>5. CASE OpenSlave
  BY <1>5, <1>0 DEF OpenSlave, SrvGoto, cltVars, CltTypes, Setting
<1>6. CASE DeadClient \/ Answer
  <2>1. /\ srv' = "reading" /\ srv \in {"serve", "cat"} /\ cur' = NoClient /\ sent' = 0
        /\ UNCHANGED <<served, pc, inc, master>>
    BY <1>6 DEF DeadClient, Answer, Answered, SrvGoto, cltVars
  <2>2. \A i \in 1 .. Len(master) : master[i] \in Clients
    BY <1>0 DEF SrvTypes
  <2> QED BY <2>1, <2>2 DEF Setting
<1>7. CASE SendChunk
  BY <1>7 DEF SendChunk, cltVars
<1>8. CASE ServerEnds
  BY <1>8 DEF ServerEnds, EndServer, cltVars
<1>9. ASSUME NEW c \in Clients, OpenToWrite(c) \/ OpenGuard(c) \/ MakeSlave(c) \/ PollSlave(c) \/ Copy(c)
      PROVE  Asked'
  <2>1. /\ UNCHANGED <<srv, inc, cur, sent, master, served>>
        /\ \A d \in Clients : pc[d] \notin Before => pc'[d] \notin Before
    BY <1>0, <1>9 DEF OpenToWrite, OpenGuard, MakeSlave, PollSlave, Copy, Goto, srvVars, Before, CltTypes
  <2>2. \A i \in 1 .. Len(master) : master[i] \in Clients
    BY <1>0 DEF SrvTypes
  <2> QED BY <2>1, <2>2
<1>10. ASSUME NEW c \in Clients, SendRequest(c) PROVE Asked'
  <2>1. /\ pc[c] = "send" /\ pc' = [pc EXCEPT ![c] = "poll"] /\ master' = Append(master, c)
        /\ UNCHANGED <<srv, inc, cur, sent, served>> /\ Listening
    BY <1>10 DEF SendRequest, Goto, srvVars
  <2>2. c # cur /\ served[c] = 0 /\ \A i \in 1 .. Len(master) : master[i] # c
    BY <2>1 DEF Before, Stages, Setting
  <2>3. \A d \in Clients : pc[d] \notin Before => pc'[d] \notin Before
    BY <1>0, <2>1 DEF Before, CltTypes
  <2>4. pc'[c] \notin Before
    BY <1>0, <2>1 DEF Before, CltTypes
  <2>5. /\ Len(master') = Len(master) + 1 /\ Len(master) \in Nat /\ master'[Len(master) + 1] = c
        /\ \A i \in 1 .. Len(master) : master'[i] = master[i] /\ master[i] \in Clients
    BY <1>0, <2>1, RequestWritten DEF SrvTypes
  <2>6. \A i \in 1 .. Len(master') : i \in 1 .. Len(master) \/ i = Len(master) + 1
    BY <2>5
  <2>7. \A i, j \in 1 .. Len(master') : master'[i] = master'[j] => i = j
    BY <2>2, <2>5, <2>6
  <2>8. \A i \in 1 .. Len(master') : /\ master'[i] # cur' /\ served'[master'[i]] = 0
                                     /\ pc'[master'[i]] \notin Before
    BY <2>1, <2>2, <2>3, <2>4, <2>5, <2>6
  <2>9. srv # "down"
    BY <2>1 DEF Listening
  <2> QED BY <2>1, <2>3, <2>7, <2>8, <2>9
<1>11. ASSUME NEW c \in Clients, ClientEnds(c) PROVE Asked'
  <2>1. /\ UNCHANGED <<srv, inc, cur, sent, served>> /\ (master' = master \/ master' = << >>)
        /\ pc' = [pc EXCEPT ![c] = "done"]
    BY <1>11, ClientEnd DEF EndClient, srvVars
  <2>2. \A d \in Clients : pc[d] \notin Before => pc'[d] \notin Before
    BY <1>0, <2>1 DEF Before, CltTypes
  <2>3. \A i \in 1 .. Len(master) : master[i] \in Clients
    BY <1>0 DEF SrvTypes
  <2> QED BY <2>1, <2>2, <2>3
<1>12. CASE UNCHANGED vars
  BY <1>12 DEF vars, srvVars, cltVars
<1> QED BY <1>1, <1>2, <1>3, <1>4, <1>5, <1>6, <1>7, <1>8, <1>9, <1>10, <1>11, <1>12, Steps DEF Quiet

\* A client is served after it asked, and succeeds only if it was.
LEMMA StagesStep ==
    ASSUME Setting, TypeOK, Asked, Stages, [Next]_vars
    PROVE  Stages'
<1> USE DEF Stages
<1>0. SrvTypes /\ CltTypes
  BY TypeParts
<1>1. CASE UNCHANGED <<pc, status, served, data, out>>
  BY <1>1
<1>2. CASE OpenSlave
  <2>1. /\ cur \in Clients /\ inc > 0 /\ pc[cur] \notin Before
        /\ served' = [served EXCEPT ![cur] = inc] /\ UNCHANGED <<pc, status, data, out>>
    BY <1>2 DEF OpenSlave, SrvGoto, cltVars, Asked, Setting
  <2> QED BY <1>0, <2>1 DEF CltTypes
<1>3. CASE SendChunk
  <2>1. /\ cur \in Clients /\ served[cur] = inc /\ inc > 0
        /\ \A d \in Clients : d # cur => data'[d] = data[d]
        /\ UNCHANGED <<pc, status, served, out>>
    BY <1>0, <1>3 DEF SendChunk, cltVars, Asked, CltTypes
  <2>2. served[cur] # 0
    BY <2>1, <1>0 DEF SrvTypes, Setting
  <2> QED BY <2>1, <2>2
<1>4. CASE Answer
  BY <1>0, <1>4 DEF Answer, Answered, cltVars, CltTypes
<1>5. ASSUME NEW c \in Clients, OpenToWrite(c) \/ OpenGuard(c) \/ MakeSlave(c) \/ SendRequest(c)
      PROVE  Stages'
  <2>1. /\ pc[c] \in Before /\ pc'[c] # "cat" /\ pc'[c] # "done"
        /\ \A d \in Clients : d # c => pc'[d] = pc[d]
        /\ UNCHANGED <<status, served, data, out>>
    BY <1>0, <1>5 DEF OpenToWrite, OpenGuard, MakeSlave, SendRequest, Goto, Before, CltTypes
  <2>2. pc[c] # "done"
    BY <2>1 DEF Before
  <2> QED BY <2>1, <2>2
<1>6. ASSUME NEW c \in Clients, PollSlave(c) PROVE Stages'
  <2>1. /\ pc[c] = "poll" /\ pc'[c] = "cat" /\ (data[c] # << >> \/ served[c] # 0)
        /\ \A d \in Clients : d # c => pc'[d] = pc[d]
        /\ UNCHANGED <<status, served, data, out>>
    BY <1>0, <1>6 DEF PollSlave, Goto, CltTypes, SlaveReady
  <2>2. served[c] # 0
    BY <2>1
  <2>3. pc'[c] \notin Before
    BY <2>1 DEF Before
  <2> QED BY <2>1, <2>2, <2>3
<1>7. ASSUME NEW c \in Clients, Copy(c) PROVE Stages'
  BY <1>0, <1>7 DEF Copy, CltTypes
<1>8. ASSUME NEW c \in Clients, ClientEnds(c) PROVE Stages'
  <2>1. PICK how \in Statuses \ {"running"} : EndClient(c, how) /\ (how = "ok" => pc[c] = "cat")
    BY <1>8, ClientEnd
  <2>2. /\ pc' = [pc EXCEPT ![c] = "done"] /\ status' = [status EXCEPT ![c] = how]
        /\ data' = [data EXCEPT ![c] = IF Written(c) THEN @ ELSE << >>] /\ UNCHANGED <<served, out>>
    BY <2>1 DEF EndClient
  <2>3. "done" \notin Before
    BY DEF Before
  <2>4. ASSUME NEW d \in Clients, d # c
        PROVE  pc'[d] = pc[d] /\ status'[d] = status[d] /\ data'[d] = data[d]
    BY <1>0, <2>2, <2>4 DEF CltTypes
  <2>5. pc'[c] = "done" /\ status'[c] = how /\ (data'[c] = data[c] \/ data'[c] = << >>)
    BY <1>0, <2>2 DEF CltTypes
  <2> QED BY <2>1, <2>2, <2>3, <2>4, <2>5
<1>9. CASE StartServer \/ Quiet \/ ReadRequest \/ CloseMaster \/ DeadClient \/ ServerEnds \/ UNCHANGED vars
  BY <1>1, <1>9, QuietFrame DEF StartServer, ReadRequest, CloseMaster, DeadClient, Answered,
       ServerEnds, EndServer, vars, cltVars
<1> QED BY <1>2, <1>3, <1>4, <1>5, <1>6, <1>7, <1>8, <1>9, Steps DEF Quiet

-----------------------------------------------------------------------------
\* A client that asked and was not answered has its pipe, or was terminated.
LEMMA PipesStep ==
    ASSUME Setting, TypeOK, Asked, Stages, Pipes, [Next]_vars
    PROVE  Pipes'
<1> USE DEF Pipes
<1>0. SrvTypes /\ CltTypes
  BY TypeParts
<1>1. ASSUME UNCHANGED <<pc, status, slaves, guarded, myMaster, myGuard>>, inc' = inc,
             \A c \in Clients : Pending(c)' => Pending(c)
      PROVE  Pipes'
  BY <1>1
<1>2. ASSUME master' = master \/ master' = << >>, NEW c \in Clients, InMaster(c)' PROVE InMaster(c)
  BY <1>2 DEF InMaster
<1>3. CASE StartServer
  <2>1. /\ srv = "down" /\ master' = << >> /\ srv' = "guard"
        /\ UNCHANGED <<pc, status, slaves, guarded, myMaster, myGuard>>
    BY <1>3 DEF StartServer, SrvGoto, cltVars
  <2>2. \A c \in Clients : ~ Pending(c)'
    BY <2>1 DEF Pending, InMaster
  <2> QED BY <2>1, <2>2
<1>4. CASE Quiet \/ UNCHANGED vars
  <2>1. /\ UNCHANGED <<pc, status, slaves, guarded, myMaster, myGuard, inc, master, cur>>
        /\ srv' = "serve" => srv = "serve"
    BY <1>4, QuietFrame DEF vars, srvVars, cltVars
  <2> QED BY <1>1, <2>1 DEF Pending, InMaster
<1>5. CASE ReadRequest
  <2>1. /\ UNCHANGED <<pc, status, slaves, guarded, myMaster, myGuard, inc>>
        /\ cur' = master[1] /\ 1 \in 1 .. Len(master)
        /\ \A i \in 1 .. Len(master') : i + 1 \in 1 .. Len(master) /\ master'[i] = master[i + 1]
    BY <1>5, RequestRead DEF ReadRequest, cltVars
  <2>2. \A c \in Clients : Pending(c)' => Pending(c)
    BY <2>1 DEF Pending, InMaster
  <2> QED BY <1>1, <2>1, <2>2
<1>6. CASE CloseMaster \/ DeadClient \/ Answer \/ OpenSlave \/ SendChunk \/ ServerEnds
  <2>1. /\ UNCHANGED <<pc, status, slaves, guarded, myMaster, myGuard, inc>>
        /\ (master' = master \/ master' = << >>) /\ srv' # "serve"
    BY <1>6 DEF CloseMaster, DeadClient, Answer, Answered, OpenSlave, SendChunk, ServerEnds, EndServer,
                SrvGoto, cltVars
  <2>2. \A c \in Clients : Pending(c)' => Pending(c)
    BY <1>2, <2>1 DEF Pending
  <2> QED BY <1>1, <2>1, <2>2
<1>7. ASSUME NEW c \in Clients, PollSlave(c) \/ Copy(c) PROVE Pipes'
  <2>1. /\ UNCHANGED <<status, slaves, guarded, myMaster, myGuard, inc, master, cur, srv>>
        /\ \A d \in Clients : pc'[d] = pc[d] \/ (pc[d] = "poll" /\ pc'[d] = "cat")
    BY <1>0, <1>7 DEF PollSlave, Copy, Goto, srvVars, CltTypes
  <2>2. \A d \in Clients : Pending(d)' = Pending(d)
    BY <2>1 DEF Pending, InMaster
  <2>3. \A d \in Clients : pc'[d] # pc[d] => pc[d] = "poll" /\ pc'[d] = "cat" /\ ~ Pending(d)
    <3>1. PollSlave(c) => SlaveReady(c) /\ \A d \in Clients : d # c => pc'[d] = pc[d]
      BY <1>0 DEF PollSlave, Goto, CltTypes
    <3>2. Copy(c) => UNCHANGED pc
      BY DEF Copy
    <3>3. SlaveReady(c) => served[c] # 0
      BY DEF SlaveReady, Stages
    <3>4. Pending(c) => served[c] = 0
      BY DEF Pending, InMaster, Asked
    <3> QED BY <1>7, <2>1, <3>1, <3>2, <3>3, <3>4
  <2> QED BY <2>1, <2>2, <2>3
<1>8. ASSUME NEW c \in Clients, OpenToWrite(c) PROVE Pipes'
  <2>1. /\ UNCHANGED <<status, slaves, guarded, myGuard, inc, master, cur, srv>>
        /\ pc[c] = "start" /\ pc'[c] = "guard" /\ c \notin guarded
        /\ \A d \in Clients : d # c => pc'[d] = pc[d] /\ myMaster'[d] = myMaster[d]
    BY <1>0, <1>8 DEF OpenToWrite, Goto, CltTypes
  <2>2. \A d \in Clients : Pending(d)' = Pending(d)
    BY <2>1 DEF Pending, InMaster
  <2>3. ~ Pending(c)
    BY <2>1 DEF Pending, InMaster, Asked, Before, Setting
  <2> QED BY <2>1, <2>2, <2>3
<1>9. ASSUME NEW c \in Clients, OpenGuard(c) PROVE Pipes'
  <2>1. /\ UNCHANGED <<status, slaves, myMaster, inc, master, cur, srv>>
        /\ pc[c] = "guard" /\ pc'[c] = "slave"
        /\ guarded' = (IF guardAt = inc /\ srv # "down" THEN guarded \cup {c} ELSE guarded)
        /\ myGuard'[c] = guardAt
        /\ \A d \in Clients : d # c => pc'[d] = pc[d] /\ myGuard'[d] = myGuard[d]
    BY <1>0, <1>9 DEF OpenGuard, Goto, CltTypes, srvVars
  <2>2. \A d \in Clients : Pending(d)' = Pending(d)
    BY <2>1 DEF Pending, InMaster
  <2>3. ~ Pending(c)
    BY <2>1 DEF Pending, InMaster, Asked, Before, Setting
  <2>4. c \in guarded' => myMaster[c] <= myGuard'[c]
    BY <1>0, <2>1 DEF SrvTypes, CltTypes, Incs, Setting
  <2>5. \A d \in Clients : d # c => (d \in guarded' <=> d \in guarded)
    BY <2>1
  <2> QED BY <2>1, <2>2, <2>3, <2>4, <2>5
<1>10. ASSUME NEW c \in Clients, MakeSlave(c) PROVE Pipes'
  <2>1. /\ UNCHANGED <<status, guarded, myMaster, myGuard, inc, master, cur, srv>>
        /\ pc[c] = "slave" /\ pc'[c] = "send" /\ slaves' = slaves \cup {c}
        /\ \A d \in Clients : d # c => pc'[d] = pc[d]
    BY <1>0, <1>10 DEF MakeSlave, Goto, CltTypes, srvVars
  <2>2. \A d \in Clients : Pending(d)' = Pending(d)
    BY <2>1 DEF Pending, InMaster
  <2> QED BY <2>1, <2>2
<1>11. ASSUME NEW c \in Clients, SendRequest(c) PROVE Pipes'
  <2>1. /\ UNCHANGED <<status, slaves, guarded, myMaster, myGuard, inc, cur, srv>>
        /\ pc[c] = "send" /\ pc'[c] = "poll" /\ myMaster[c] = inc
        /\ \A d \in Clients : d # c => pc'[d] = pc[d]
    BY <1>0, <1>11 DEF SendRequest, Goto, CltTypes, srvVars
  <2>2. \A d \in Clients : Pending(d)' => Pending(d) \/ d = c
    <3>1. \A i \in 1 .. Len(master') : \/ i \in 1 .. Len(master) /\ master'[i] = master[i]
                                       \/ master'[i] = c
      BY <1>11, RequestWritten DEF SendRequest
    <3> QED BY <2>1, <3>1 DEF Pending, InMaster
  <2> QED BY <2>1, <2>2
<1>12. ASSUME NEW c \in Clients, ClientEnds(c) PROVE Pipes'
  <2>1. PICK how \in Statuses \ {"running"} :
            /\ EndClient(c, how)
            /\ how \notin {"KILL", "TERM"} =>
                  pc[c] \in Before \/ pc[c] = "cat" \/ (pc[c] = "poll" /\ HungUp(c))
    BY <1>12, ClientEnd
  <2>2. /\ UNCHANGED <<guarded, inc, cur, srv>> /\ (master' = master \/ master' = << >>)
        /\ slaves' = IF how = "KILL" THEN slaves ELSE slaves \ {c}
        /\ pc'[c] = "done" /\ status'[c] = how
        /\ \A d \in Clients : d # c => /\ pc'[d] = pc[d] /\ status'[d] = status[d]
                                       /\ myMaster'[d] = myMaster[d] /\ myGuard'[d] = myGuard[d]
    BY <1>0, <2>1 DEF EndClient, srvVars, CltTypes
  <2>3. \A d \in Clients : Pending(d)' => Pending(d)
    BY <1>2, <2>2 DEF Pending
  <2>4. Pending(c) => how \in {"KILL", "TERM"}
    <3>1. pc[c] \in Before => ~ Pending(c)
      BY DEF Pending, InMaster, Asked, Setting
    <3>2. pc[c] = "cat" => ~ Pending(c)
      BY DEF Pending, InMaster, Asked, Stages
    <3>3. ASSUME Pending(c), pc[c] = "poll", HungUp(c) PROVE FALSE
      <4>1. srv # "down"
        BY <3>3 DEF Pending, InMaster, Asked
      <4>2. myGuard[c] # inc /\ c \in guarded
        BY <3>3, <4>1 DEF HungUp
      <4>3. myMaster[c] = inc /\ myMaster[c] <= myGuard[c]
        BY <3>3, <4>2
      <4> QED BY <1>0, <4>2, <4>3 DEF SrvTypes, CltTypes, Incs, Setting
    <3> QED BY <2>1, <3>1, <3>2, <3>3
  <2>5. Pending(c) => c \in slaves' \/ status'[c] = "TERM"
    <3>1. Pending(c) => c \in slaves \/ status[c] = "TERM"
      OBVIOUS
    <3>2. pc[c] # "done"
      BY <1>12, ClientEnd
    <3>3. Pending(c) => c \in slaves
      BY <1>0, <3>1, <3>2 DEF Stages
    <3> QED BY <2>2, <2>4, <3>3
  <2>6. Pending(c) => how \in Signals
    BY <2>1, <2>4 DEF Statuses
  <2> QED BY <2>2, <2>3, <2>5, <2>6
<1> QED BY <1>3, <1>4, <1>5, <1>6, <1>7, <1>8, <1>9, <1>10, <1>11, <1>12, Steps DEF Quiet

-----------------------------------------------------------------------------
(* What arrives *)

LEMMA ChunksProperties ==
    ASSUME Setting
    PROVE  /\ Chunks(0) = << >>
           /\ \A n \in Nat : /\ Chunks(n) \in Seq(Nat) /\ Len(Chunks(n)) = n
                             /\ Chunks(n) \o <<n + 1>> = Chunks(n + 1)
           /\ \A n \in 0 .. FileLen : SubSeq(File, 1, n) = Chunks(n)
           /\ Chunks(FileLen) = File
<1>1. Chunks(0) = << >>
  BY DEF Chunks
<1>2. ASSUME NEW n \in Nat PROVE Chunks(n) \in Seq(Nat) /\ Len(Chunks(n)) = n
  BY DEF Chunks
<1>3. ASSUME NEW n \in Nat PROVE Chunks(n) \o <<n + 1>> = Chunks(n + 1)
  <2>1. Chunks(n) \in Seq(Nat) /\ Chunks(n + 1) \in Seq(Nat) /\ <<n + 1>> \in Seq(Nat)
    BY <1>2
  <2>2. /\ Len(Chunks(n) \o <<n + 1>>) = n + 1 /\ Chunks(n) \o <<n + 1>> \in Seq(Nat)
        /\ \A i \in 1 .. n + 1 : (Chunks(n) \o <<n + 1>>)[i] = i
    BY <1>2, <2>1, ConcatProperties DEF Chunks
  <2>3. Len(Chunks(n + 1)) = n + 1 /\ \A i \in 1 .. n + 1 : Chunks(n + 1)[i] = i
    BY <1>2 DEF Chunks
  <2> QED BY <2>1, <2>2, <2>3, SeqEqual
<1>4. ASSUME NEW n \in 0 .. FileLen PROVE SubSeq(File, 1, n) = Chunks(n)
  <2>1. File \in Seq(Nat) /\ Len(File) = FileLen
    BY DEF File, Setting
  <2>2. /\ SubSeq(File, 1, n) \in Seq(Nat) /\ Len(SubSeq(File, 1, n)) = n
        /\ \A i \in 1 .. n : SubSeq(File, 1, n)[i] = i
    BY <2>1, SubSeqProperties DEF File, Setting
  <2>3. n \in Nat /\ Chunks(n) \in Seq(Nat) /\ Len(Chunks(n)) = n /\ \A i \in 1 .. n : Chunks(n)[i] = i
    BY <1>2 DEF Chunks, Setting
  <2> QED BY <2>2, <2>3, SeqEqual
<1>5. Chunks(FileLen) = File
  BY DEF Chunks, File
<1> QED BY <1>1, <1>2, <1>3, <1>4, <1>5

\* What was written and what is in the pipe follow the server.
LEMMA FlowStep ==
    ASSUME Setting, TypeOK, Asked, Stages, Flow, [Next]_vars
    PROVE  Flow'
<1>0. SrvTypes /\ CltTypes
  BY TypeParts
<1>1. ASSUME NEW c \in Clients,
             UNCHANGED <<out[c], data[c], served[c], status[c]>>,
             SlaveOpen(c)' => SlaveOpen(c), Written(c)' => Written(c), Written(c)' => sent' = sent,
             Written(c) /\ ~ Written(c)' => ended'[served[c]] # "not",
             served[c] # 0 => ended'[served[c]] # "not" \/ ended'[served[c]] = ended[served[c]]
      PROVE  FlowOf(c)'
  <2>1. FlowOf(c) /\ (status[c] = "ok" => served[c] # 0)
    BY DEF Flow, Stages
  <2> QED BY <1>1, <2>1 DEF FlowOf
<1>2. CASE UNCHANGED <<out, data, served, status, ended, pc>> /\ srv # "cat" /\ srv' # "cat"
  <2>1. \A c \in Clients : (SlaveOpen(c)' <=> SlaveOpen(c)) /\ ~ Written(c) /\ ~ Written(c)'
    BY <1>2 DEF SlaveOpen, Written
  <2> QED BY <1>1, <1>2, <2>1 DEF Flow
<1>3. CASE StartServer \/ Quiet \/ ReadRequest \/ CloseMaster \/ DeadClient
  BY <1>2, <1>3, QuietFrame DEF StartServer, ReadRequest, CloseMaster, DeadClient, Answered, SrvGoto, cltVars
<1>4. CASE OpenSlave
  <2>1. /\ srv = "serve" /\ srv' = "cat" /\ UNCHANGED <<out, data, status, ended, pc, cur, sent>>
        /\ cur \in Clients /\ served[cur] = 0 /\ sent = 0
        /\ \A d \in Clients : d # cur => served'[d] = served[d]
    BY <1>0, <1>4 DEF OpenSlave, SrvGoto, cltVars, Asked, CltTypes
  <2>2. ASSUME NEW d \in Clients, d # cur PROVE FlowOf(d)'
    BY <1>1, <2>1, <2>2 DEF SlaveOpen, Written
  <2>3. data[cur] = << >> /\ out[cur] = << >> /\ status[cur] # "ok"
    BY <2>1 DEF Stages
  <2>4. Len(out'[cur]) = 0 /\ Len(data'[cur]) = 0 /\ data'[cur] = << >> /\ out'[cur] = Chunks(0)
    BY <2>1, <2>3, ChunksProperties
  <2>5. FlowOf(cur)'
    BY <2>1, <2>3, <2>4 DEF FlowOf, Written, Setting
  <2> QED BY <2>1, <2>2, <2>5 DEF Flow
<1>5. CASE SendChunk
  <2>1. /\ srv = "cat" /\ srv' = "cat" /\ UNCHANGED <<out, status, ended, pc, cur, served>>
        /\ sent < FileLen /\ SlaveOpen(cur) /\ data[cur] = << >> /\ sent' = sent + 1
        /\ cur \in Clients /\ data'[cur] = <<sent + 1>>
        /\ \A d \in Clients : d # cur => data'[d] = data[d]
    BY <1>0, <1>5 DEF SendChunk, cltVars, Asked, CltTypes
  <2>2. ASSUME NEW d \in Clients, d # cur PROVE FlowOf(d)'
    BY <1>1, <2>1, <2>2 DEF SlaveOpen, Written
  <2>3. FlowOf(cur) /\ Written(cur) /\ Written(cur)'
    BY <2>1 DEF Flow, Written
  <2>4. Len(out[cur]) = sent /\ out[cur] = Chunks(sent)
    <3>1. Len(data[cur]) = 0 /\ Len(out[cur]) \in Nat
      BY <1>0, <2>1 DEF CltTypes, Answers
    <3> QED BY <2>1, <2>3, <3>1 DEF FlowOf
  <2>5. Len(data'[cur]) = 1 /\ sent \in Nat
    BY <2>1, <1>0 DEF SrvTypes, Setting
  <2>6. status[cur] # "ok"
    BY <1>0, <2>1 DEF Stages, SlaveOpen
  <2>7. FlowOf(cur)'
    BY <2>1, <2>3, <2>4, <2>5, <2>6 DEF FlowOf, Setting
  <2> QED BY <2>1, <2>2, <2>7 DEF Flow
<1>6. CASE Answer
  <2>1. /\ srv = "cat" /\ srv' = "reading" /\ UNCHANGED <<out, status, ended, pc, served>>
        /\ cur \in Clients /\ (sent = FileLen \/ ~ SlaveOpen(cur))
        /\ SlaveOpen(cur) => data'[cur] = data[cur]
        /\ \A d \in Clients : d # cur => data'[d] = data[d]
    BY <1>0, <1>6 DEF Answer, Answered, SrvGoto, cltVars, Asked, CltTypes
  <2>2. ASSUME NEW d \in Clients, d # cur PROVE FlowOf(d)'
    BY <1>1, <2>1, <2>2 DEF SlaveOpen, Written
  <2>3. ASSUME NEW c \in Clients, c = cur PROVE FlowOf(c)'
    <3>1. FlowOf(c) /\ Written(c) /\ ~ Written(c)' /\ (SlaveOpen(c)' <=> SlaveOpen(c))
      BY <2>1, <2>3 DEF Flow, Written, SlaveOpen
    <3>2. SlaveOpen(c) => data'[c] = data[c] /\ sent = FileLen
      BY <2>1, <2>3
    <3> QED BY <2>1, <3>1, <3>2 DEF FlowOf
  <2> QED BY <2>1, <2>2, <2>3 DEF Flow
<1>7. CASE ServerEnds
  <2>1. PICK how \in Ends \ {"not"} : EndServer(how)
    BY <1>7 DEF ServerEnds
  <2>2. /\ srv' = "down" /\ ended' = [ended EXCEPT ![inc] = how] /\ how # "not"
        /\ UNCHANGED <<out, data, served, status, pc>>
    BY <2>1 DEF EndServer, cltVars
  <2>3. \A i \in 1 .. MaxServers : ended'[i] = ended[i] \/ ended'[i] # "not"
    BY <1>0, <2>2 DEF SrvTypes
  <2>4. ASSUME NEW c \in Clients, Written(c) PROVE ended'[served[c]] # "not"
    <3>1. served[c] = inc /\ inc > 0 /\ inc \in 1 .. MaxServers
      BY <1>0, <2>4 DEF Written, Asked, SrvTypes, Setting
    <3> QED BY <1>0, <2>2, <3>1 DEF SrvTypes
  <2>5. ASSUME NEW c \in Clients PROVE served[c] = 0 \/ served[c] \in 1 .. MaxServers
    BY <1>0 DEF SrvTypes, CltTypes, Incs, Setting
  <2>6. \A c \in Clients : ~ Written(c)'
    BY <2>2 DEF Written
  <2>7. ASSUME NEW c \in Clients PROVE FlowOf(c)'
    BY <1>1, <2>2, <2>3, <2>4, <2>5, <2>6 DEF SlaveOpen
  <2> QED BY <2>7 DEF Flow
<1>8. ASSUME NEW c \in Clients, OpenToWrite(c) \/ OpenGuard(c) \/ SendRequest(c) \/ PollSlave(c)
      PROVE  Flow'
  <2>1. /\ UNCHANGED <<out, data, served, status, ended, srv, cur, sent>>
        /\ SlaveOpen(c)' => SlaveOpen(c)
        /\ \A d \in Clients : d # c => pc'[d] = pc[d]
    BY <1>0, <1>8 DEF OpenToWrite, OpenGuard, SendRequest, PollSlave, Goto, SlaveOpen, srvVars, CltTypes
  <2>2. \A d \in Clients : /\ SlaveOpen(d)' => SlaveOpen(d)
                           /\ Written(d)' <=> Written(d)
    <3>1. ASSUME NEW d \in Clients, d # c PROVE SlaveOpen(d)' => SlaveOpen(d)
      BY <2>1, <3>1 DEF SlaveOpen
    <3> QED BY <2>1, <3>1 DEF Written
  <2> QED BY <1>1, <2>1, <2>2 DEF Flow
<1>9. ASSUME NEW c \in Clients, MakeSlave(c) PROVE Flow'
  <2>1. /\ UNCHANGED <<out, data, served, status, ended, srv, cur, sent>> /\ pc[c] = "slave"
        /\ \A d \in Clients : d # c => pc'[d] = pc[d]
    BY <1>0, <1>9 DEF MakeSlave, Goto, srvVars, CltTypes
  <2>2. ASSUME NEW d \in Clients, d # c PROVE FlowOf(d)'
    BY <1>1, <2>1, <2>2 DEF SlaveOpen, Written
  <2>3. /\ data[c] = << >> /\ out[c] = << >> /\ served[c] = 0 /\ status[c] # "ok"
        /\ ~ Written(c)
    BY <2>1 DEF Stages, Before, Written, Asked, Setting
  <2>4. Len(out'[c]) = 0 /\ data'[c] = << >> /\ out'[c] = Chunks(0) /\ ~ Written(c)' /\ served'[c] = 0
    BY <2>1, <2>3, ChunksProperties DEF Written
  <2>5. FlowOf(c)'
    BY <2>1, <2>3, <2>4 DEF FlowOf, Setting
  <2> QED BY <2>2, <2>5 DEF Flow
<1>10. ASSUME NEW c \in Clients, Copy(c) PROVE Flow'
  <2>1. /\ UNCHANGED <<pc, served, status, ended, srv, cur, sent>> /\ pc[c] = "cat"
        /\ data[c] # << >> /\ out'[c] = out[c] \o data[c] /\ data'[c] = << >>
        /\ \A d \in Clients : d # c => out'[d] = out[d] /\ data'[d] = data[d]
    BY <1>0, <1>10 DEF Copy, Goto, srvVars, CltTypes
  <2>2. ASSUME NEW d \in Clients, d # c PROVE FlowOf(d)'
    BY <1>1, <2>1, <2>2 DEF SlaveOpen, Written
  <2> DEFINE n == Len(out[c])
  <2>3. FlowOf(c) /\ SlaveOpen(c) /\ n \in Nat
    BY <1>0, <2>1 DEF Flow, SlaveOpen, CltTypes, Answers
  <2>4. n < FileLen /\ data[c] = <<n + 1>> /\ out[c] = Chunks(n)
    BY <2>1, <2>3 DEF FlowOf
  <2>5. out'[c] = Chunks(n + 1) /\ Len(out'[c]) = n + 1
    BY <2>1, <2>3, <2>4, ChunksProperties
  <2>6. Len(data[c]) = 1 /\ Len(data'[c]) = 0
    BY <2>1, <2>4
  <2>7. /\ Written(c)' <=> Written(c)
        /\ SlaveOpen(c)' <=> SlaveOpen(c)
    BY <2>1 DEF SlaveOpen, Written
  <2>8. status[c] # "ok"
    BY <1>0, <2>1 DEF Stages
  <2> HIDE DEF n
  <2>9. /\ Written(c) => n + 1 = sent
        /\ ~ Written(c) /\ served[c] # 0 /\ ended[served[c]] = "not" => n + 1 = FileLen
    BY <2>3, <2>6 DEF FlowOf, n
  <2>10. FlowOf(c)'
    BY <2>1, <2>3, <2>4, <2>5, <2>6, <2>7, <2>8, <2>9 DEF FlowOf, Setting
  <2> QED BY <2>2, <2>10 DEF Flow
<1>11. ASSUME NEW c \in Clients, ClientEnds(c) PROVE Flow'
  <2>1. PICK how \in Statuses :
            EndClient(c, how) /\ (how = "ok" => pc[c] = "cat" /\ data[c] = << >> /\ ~ Written(c))
    BY <1>11, ClientEnd
  <2>2. /\ UNCHANGED <<out, served, ended, srv, cur, sent>> /\ pc'[c] = "done" /\ status'[c] = how
        /\ \A d \in Clients : d # c => pc'[d] = pc[d] /\ data'[d] = data[d] /\ status'[d] = status[d]
    BY <1>0, <2>1 DEF EndClient, srvVars, CltTypes
  <2>3. ASSUME NEW d \in Clients, d # c PROVE FlowOf(d)'
    BY <1>1, <2>2, <2>3 DEF SlaveOpen, Written
  <2>4. FlowOf(c) /\ (pc[c] = "cat" => served[c] # 0) /\ Len(out[c]) \in Nat
    BY <1>0 DEF Flow, Stages, CltTypes, Answers
  <2>5. how = "ok" /\ ended[served[c]] = "not" => Len(out[c]) = FileLen
    <3> SUFFICES ASSUME how = "ok", ended[served[c]] = "not" PROVE Len(out[c]) = FileLen
      OBVIOUS
    <3>1. Len(data[c]) = 0 /\ SlaveOpen(c) /\ ~ Written(c) /\ served[c] # 0
      BY <2>1, <2>4 DEF SlaveOpen
    <3>2. Len(out[c]) + Len(data[c]) = FileLen
      BY <2>4, <3>1 DEF FlowOf
    <3> QED BY <2>4, <3>1, <3>2
  <2>6. ~ SlaveOpen(c)'
    BY <2>2 DEF SlaveOpen
  <2>7. FlowOf(c)'
    BY <2>2, <2>4, <2>5, <2>6 DEF FlowOf
  <2> QED BY <2>3, <2>7 DEF Flow
<1>12. CASE UNCHANGED vars
  <2>1. \A c \in Clients : /\ SlaveOpen(c)' <=> SlaveOpen(c)
                           /\ Written(c)' <=> Written(c)
    BY <1>12 DEF vars, srvVars, cltVars, SlaveOpen, Written
  <2> QED BY <1>1, <1>12, <2>1 DEF vars, srvVars, cltVars, Flow
<1> QED BY <1>3, <1>4, <1>5, <1>6, <1>7, <1>8, <1>9, <1>10, <1>11, <1>12, Steps DEF Quiet

-----------------------------------------------------------------------------
\* Who is to blame stays so.
LEMMA BlameStays ==
    ASSUME Setting, TypeOK, Asked, Stages, [Next]_vars, NEW c \in Clients
    PROVE  /\ AskedInVain(c) => AskedInVain(c)'
           /\ TookItsPipe(c) => TookItsPipe(c)'
<1> SUFFICES ASSUME served[c] = 0,
                    \/ c \in Missing /\ (pc[c] = "poll" \/ status[c] \in {"hangup"} \cup Signals)
                    \/ c \notin Missing /\ status[c] = "TERM"
             PROVE  /\ served'[c] = 0
                    /\ status[c] \in {"hangup", "TERM"} \cup Signals => status'[c] = status[c]
                    /\ c \in Missing /\ pc[c] = "poll" =>
                          pc'[c] = "poll" \/ status'[c] \in {"hangup"} \cup Signals
  <2>1. AskedInVain(c)' <=> /\ c \in Missing /\ served'[c] = 0
                            /\ pc'[c] = "poll" \/ status'[c] \in {"hangup"} \cup Signals
    BY DEF AskedInVain
  <2>2. TookItsPipe(c)' <=> c \notin Missing /\ served'[c] = 0 /\ status'[c] = "TERM"
    BY DEF TookItsPipe
  <2> QED BY <2>1, <2>2 DEF AskedInVain, TookItsPipe
<1>0. SrvTypes /\ CltTypes
  BY TypeParts
<1>1. pc[c] # "poll" => status[c] # "running" /\ pc[c] = "done"
  BY DEF Stages, Setting
<1>2. pc[c] = "poll" => status[c] = "running" /\ c \in Missing
  BY DEF Stages, Setting
<1>3. ASSUME NEW d \in Clients, ClientEnds(d)
      PROVE  /\ served' = served /\ (d # c => pc'[c] = pc[c] /\ status'[c] = status[c])
             /\ d = c => pc[c] = "poll" /\ status'[c] \in {"hangup"} \cup Signals
  <2>1. pc[d] # "done" /\ \E how : EndClient(d, how)
    BY <1>3, ClientEnd
  <2>2. served' = served /\ (d # c => pc'[c] = pc[c] /\ status'[c] = status[c])
    BY <1>0, <2>1 DEF EndClient, CltTypes
  <2>3. ASSUME d = c PROVE pc[c] = "poll" /\ status'[c] \in {"hangup"} \cup Signals
    <3>1. pc[c] = "poll"
      BY <1>1, <2>1, <2>3
    <3>2. \E how \in {"hangup"} \cup Signals : EndClient(c, how)
      BY <1>3, <2>3, <3>1 DEF ClientEnds, Before
    <3> QED BY <1>0, <3>1, <3>2 DEF EndClient, CltTypes
  <2> QED BY <2>2, <2>3
<1>4. ASSUME NEW d \in Clients,
             OpenToWrite(d) \/ OpenGuard(d) \/ MakeSlave(d) \/ SendRequest(d) \/ PollSlave(d) \/ Copy(d)
      PROVE  UNCHANGED status /\ served' = served /\ (d # c \/ Copy(d) => pc'[c] = pc[c])
  BY <1>0, <1>4 DEF OpenToWrite, OpenGuard, MakeSlave, SendRequest, PollSlave, Copy, Goto, CltTypes
<1>5. ASSUME OpenToWrite(c) \/ OpenGuard(c) \/ MakeSlave(c) \/ SendRequest(c) \/ PollSlave(c)
      PROVE  FALSE
  <2>1. pc[c] = "poll" /\ SlaveReady(c)
    BY <1>1, <1>5 DEF OpenToWrite, OpenGuard, MakeSlave, SendRequest, PollSlave, Goto
  <2> QED BY <2>1 DEF SlaveReady, Stages
<1>6. ASSUME OpenSlave PROVE UNCHANGED <<status, pc>> /\ served'[c] = 0
  <2>1. /\ UNCHANGED <<status, pc>> /\ cur \notin Missing /\ SlaveOpen(cur)
        /\ served' = [served EXCEPT ![cur] = inc]
    BY <1>6 DEF OpenSlave, cltVars
  <2>2. cur # c
    BY <1>1, <1>2, <2>1 DEF SlaveOpen
  <2> QED BY <1>0, <2>1, <2>2 DEF CltTypes
<1>7. ASSUME StartServer \/ Quiet \/ ReadRequest \/ CloseMaster \/ DeadClient \/ SendChunk
             \/ Answer \/ ServerEnds \/ UNCHANGED vars
      PROVE  UNCHANGED <<status, pc, served>>
  BY <1>7, QuietFrame DEF StartServer, ReadRequest, CloseMaster, DeadClient, SendChunk,
     Answer, Answered, ServerEnds, EndServer, cltVars, vars
<1>8. CASE \E d \in Clients : ClientEnds(d)
  <2>1. PICK d \in Clients : ClientEnds(d)
    BY <1>8
  <2>2. CASE d = c
    BY <1>2, <1>3, <2>1, <2>2 DEF Setting
  <2>3. CASE d # c
    BY <1>3, <2>1, <2>3
  <2> QED BY <2>2, <2>3
<1>9. CASE OpenSlave \/ UNCHANGED <<status, pc, served>>
  BY <1>6, <1>9
<1>10. CASE \E d \in Clients : \/ OpenToWrite(d) \/ OpenGuard(d) \/ MakeSlave(d)
                              \/ SendRequest(d) \/ PollSlave(d) \/ Copy(d)
  BY <1>4, <1>5, <1>10
<1> QED BY <1>7, <1>8, <1>9, <1>10, Steps DEF Quiet

\* A server that ends of a request has it in its hand.
LEMMA HowItEnds ==
    ASSUME Setting, TypeOK, Asked, [Next]_vars, NEW i \in 1 .. MaxServers,
           ended'[i] \in {"no file", "no slave"}, ended[i] # ended'[i]
    PROVE  /\ srv = "serve" /\ UNCHANGED <<status, pc, served>>
           /\ ended'[i] = "no file" => cur \in Missing
           /\ ended'[i] = "no slave" => cur \notin Missing /\ cur \notin slaves
<1>0. ended \in [1 .. MaxServers -> Ends]
  BY TypeParts DEF SrvTypes
<1>1. ASSUME NEW how, EndServer(how)
      PROVE  how = ended'[i] /\ UNCHANGED <<status, pc, served>>
  BY <1>0, <1>1 DEF EndServer, cltVars
<1>2. ~ \E sig \in Signals : SignalServer(sig)
  BY <1>1 DEF SignalServer, Setting
<1>3. ~ UNCHANGED ended
  OBVIOUS
<1>4. NoSlave \/ NoFile
  <2>1. ~ StartServer /\ ~ UNCHANGED vars
    BY <1>3 DEF StartServer, vars, srvVars
  <2>2. ~ \E c \in Clients : ClientStep(c) \/ \E sig \in Signals : SignalClient(c, sig)
    BY <1>3, Zenon DEF ClientStep, OpenFails, OpenToWrite, NoGuard, OpenGuard, MakeSlave, SendRequest, SendFails,
       PollGuard, PollSlave, Copy, SlaveEof, SignalClient, EndClient, srvVars
  <2>3. ServerStep
    BY <1>2, <2>1, <2>2 DEF Next
  <2> QED BY <1>3, <2>3 DEF ServerStep, MakeGuard, MakeMaster, OpenMaster, MasterOpened, ReadRequest,
       MasterEof, CloseMaster, OpenSlave, DeadClient, SendChunk, Answer, Answered
<1>5. CASE NoSlave
  <2>1. srv = "serve" /\ cur \notin Missing /\ cur \notin slaves /\ EndServer("no slave")
    BY <1>5 DEF NoSlave
  <2>2. ended'[i] = "no slave" /\ UNCHANGED <<status, pc, served>>
    BY <1>1, <2>1
  <2> QED BY <2>1, <2>2
<1>6. CASE NoFile
  <2>1. srv = "serve" /\ cur \in Missing /\ EndServer("no file")
    BY <1>6 DEF NoFile
  <2>2. ended'[i] = "no file" /\ UNCHANGED <<status, pc, served>>
    BY <1>1, <2>1
  <2> QED BY <2>1, <2>2
<1> QED BY <1>4, <1>5, <1>6

LEMMA CauseStep ==
    ASSUME Setting, TypeOK, Asked, Stages, Pipes, EndsForCause, [Next]_vars
    PROVE  EndsForCause'
<1> SUFFICES ASSUME NEW i \in 1 .. MaxServers
             PROVE  /\ ended'[i] = "no file" => \E c \in Clients : AskedInVain(c)'
                    /\ ended'[i] = "no slave" => \E c \in Clients : TookItsPipe(c)'
  BY DEF EndsForCause
<1>1. CASE ended'[i] = ended[i]
  BY <1>1, BlameStays DEF EndsForCause
<1>2. CASE ended'[i] # ended[i] /\ ended'[i] \in {"no file", "no slave"}
  <2>1. /\ srv = "serve" /\ UNCHANGED <<status, pc, served>>
        /\ ended'[i] = "no file" => cur \in Missing
        /\ ended'[i] = "no slave" => cur \notin Missing /\ cur \notin slaves
    BY <1>2, HowItEnds
  <2>2. PICK c \in Clients : c = cur
    BY <2>1 DEF Asked
  <2>3. Pending(c) /\ served[c] = 0
    BY <2>1, <2>2 DEF Asked, Pending
  <2>4. /\ pc[c] = "poll" \/ status[c] \in Signals
        /\ c \in slaves \/ status[c] = "TERM"
    BY <2>3 DEF Pipes
  <2>5. ended'[i] = "no file" => AskedInVain(c)'
    BY <2>1, <2>2, <2>3, <2>4 DEF AskedInVain
  <2>6. ended'[i] = "no slave" => TookItsPipe(c)'
    BY <2>1, <2>2, <2>3, <2>4 DEF TookItsPipe
  <2> QED BY <2>5, <2>6
<1>3. CASE ended'[i] \notin {"no file", "no slave"}
  BY <1>3
<1> QED BY <1>1, <1>2, <1>3

-----------------------------------------------------------------------------
LEMMA ServerInit == ASSUME Setting, Init PROVE ServerInv
<1> USE DEF Init, Setting
<1>1. << >> \in Seq(Clients) /\ << >> \in Answers
  BY DEF Answers
<1>2. SrvTypes
  <2>1. 0 \in 0 .. MaxServers /\ 0 \in 0 .. FileLen /\ 0 \in 0 .. MaxSignals /\ 0 \in 0 .. 0
    OBVIOUS
  <2>2. ended \in [1 .. MaxServers -> Ends]
    BY DEF Ends
  <2>3. inc \in 0 .. MaxServers /\ signals \in 0 .. MaxSignals /\ sent \in 0 .. FileLen
    BY <2>1
  <2>4. srv \in Posts /\ awake \in BOOLEAN /\ cur \in Clients \cup {NoClient}
    BY DEF Posts
  <2>5. guardAt \in Incs /\ masterAt \in Incs
    BY <2>1 DEF Incs
  <2> QED BY <1>1, <2>2, <2>3, <2>4, <2>5 DEF SrvTypes
<1>3. CltTypes
  BY <1>1 DEF CltTypes, Places, Before, Statuses, Incs
<1>4. Asked
  BY DEF Asked
<1>5. Stages
  BY DEF Stages
<1>6. Pipes
  BY DEF Pipes, Pending, InMaster
<1>7. Flow
  BY ChunksProperties DEF Flow, FlowOf, SlaveOpen
<1>8. EndsForCause
  BY DEF EndsForCause
<1> QED BY <1>2, <1>3, <1>4, <1>5, <1>6, <1>7, <1>8, TypeParts DEF ServerInv

LEMMA ServerInvStep == ASSUME Setting, ServerInv, [Next]_vars PROVE ServerInv'
<1> USE DEF ServerInv
<1>1. SrvTypes /\ CltTypes
  BY TypeParts
<1>2. SrvTypes' /\ CltTypes'
  BY <1>1, SrvTypeStep, CltTypeStep
<1>3. TypeOK'
  BY <1>2 DEF TypeOK, SrvTypes, CltTypes, Posts, Ends, Places, Incs, Answers, Before, Statuses
<1> QED BY <1>3, AskedStep, StagesStep, PipesStep, FlowStep, CauseStep

LEMMA ServerInvAlways == ASSUME Setting PROVE Init /\ [][Next]_vars => []ServerInv
BY ServerInit, ServerInvStep, PTL

\* Whoever is killed, and however often the server is started again, a client
\* writes a beginning of the file it asked for.
THEOREM PrefixTheorem == ASSUME Setting PROVE Init /\ [][Next]_vars => []OutputIsPrefix
<1>1. ServerInv => OutputIsPrefix
  <2> SUFFICES ASSUME ServerInv, NEW c \in Clients
               PROVE  \E n \in 0 .. FileLen : out[c] = SubSeq(File, 1, n)
    BY DEF OutputIsPrefix, ServerInv
  <2>1. out[c] \in Seq(1 .. FileLen) /\ FlowOf(c)
    BY DEF ServerInv, TypeOK, Flow
  <2>2. Len(out[c]) \in 0 .. FileLen /\ out[c] = Chunks(Len(out[c]))
    BY <2>1 DEF FlowOf, Setting
  <2> QED BY <2>2, ChunksProperties
<1> QED BY <1>1, ServerInvAlways, PTL

\* A client that reports success has the whole file, unless the server that
\* answered it ended.
THEOREM SuccessTheorem == ASSUME Setting PROVE Init /\ [][Next]_vars => []SuccessIsComplete
<1>1. ServerInv => SuccessIsComplete
  BY ChunksProperties DEF ServerInv, Flow, FlowOf, SuccessIsComplete
<1> QED BY <1>1, ServerInvAlways, PTL

\* A server that was not sent a signal ends only of a client that asked for a
\* file that cannot be opened, or that was terminated before its answer.
THEOREM EndsForCauseTheorem == ASSUME Setting PROVE Init /\ [][Next]_vars => []EndsForCause
<1>1. ServerInv => EndsForCause
  BY DEF ServerInv
<1> QED BY <1>1, ServerInvAlways, PTL
=============================================================================

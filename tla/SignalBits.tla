----------------------------- MODULE SignalBits ------------------------------
(***************************************************************************)
(* course2-1/seminar7/signal.c: a parent (the receiver) and its child (the *)
(* sender) copy a file one bit per signal. The receiver asks with SIGUSR1, *)
(* the sender answers with SIGUSR1 for 0 and SIGUSR2 for 1, and SIGTERM    *)
(* ends the conversation from either side. Signals do not queue: a signal  *)
(* that is already pending is lost.                                        *)
(*                                                                         *)
(* The three signals are blocked and fetched with sigwait(); SIGCHLD and   *)
(* SIGALRM are not, and their handlers run between any two steps.          *)
(***************************************************************************)
EXTENDS Integers, Sequences

CONSTANTS
    TopBit,       \* the most significant bit of a byte: 0x80
    Files,        \* the files to send, as sequences of bytes
    MaxKills,     \* bound: processes killed by SIGKILL
    MaxIoErrors   \* bound: read() and write() calls that fail

Bytes == 0 .. 2 * TopBit - 1

\* A set of the values that the bits of a byte, and the place behind it, may
\* have: each is 1 or twice another one.
PlaceValues(W) ==
    /\ 2 * TopBit \in W
    /\ \A q \in W : q = 1 \/ \E h \in W : q = 2 * h

\* A byte has at least two bits.
ASSUME SignalAssumption ==
    /\ TopBit \in Nat \ {0, 1}
    /\ \E W \in SUBSET (1 .. 2 * TopBit) : PlaceValues(W)
    /\ Files \subseteq Seq(Bytes)
    /\ MaxKills \in Nat /\ MaxIoErrors \in Nat

Signals == {"USR1", "USR2", "TERM"}

VARIABLES
    file, pos,          \* the file and the sender's offset in it
    out,                \* what the receiver wrote
    rpc, rbuf, rbyte, rpending, rstatus,   \* the receiver: rcv_main
    spc, sbuf, needByte, sbit, spending, serrors, sstatus, \* the sender: snd_main
    listensToAlarm,     \* what the unterminated sigset_many() call made of it
    kills, ioErrors

rvars == <<out, rpc, rbuf, rbyte, rstatus>>
svars == <<pos, spc, sbuf, needByte, sbit, serrors, sstatus>>
env   == <<file, listensToAlarm, kills, ioErrors>>
vars  == <<file, pos, out, rpc, rbuf, rbyte, rpending, rstatus, spc, sbuf,
           needByte, sbit, spending, serrors, sstatus, listensToAlarm, kills,
           ioErrors>>

ReceiverGone == rpc = "gone"
SenderGone   == spc = "gone"

-----------------------------------------------------------------------------
(* The bit buffers: a byte whose sentinel 1 tells how full it is *)

HasTop(b)   == b >= TopBit
ShiftIn(b, bit) == (2 * b + bit) % (2 * TopBit)

EmptyIn  == 1        \* bitwise_init_rcv()
EmptyOut == TopBit   \* bitwise_init_snd()

-----------------------------------------------------------------------------
(* Exits *)

ReceiverExit(result) == rpc' = "gone" /\ rstatus' = result

\* snd_main's `out' label: leftover bits count as an error.
SenderExit(errors) ==
    /\ spc' = "gone"
    /\ sstatus' = IF errors \/ sbuf # EmptyOut THEN "failed" ELSE "ok"

-----------------------------------------------------------------------------
(* rcv_main *)

\* kill(snd_pid, SIGUSR1): a sender that has exited is a zombie, no error.
Kick ==
    /\ rpc = "kick" /\ rpc' = "wait"
    /\ spending' = spending \cup {"USR1"}
    /\ UNCHANGED <<svars, env, out, rbuf, rbyte, rpending, rstatus>>

\* sigwait() returned a bit: it is pushed; a full buffer gives a byte.
ReceiveBit(sig, bit) ==
    /\ rpc = "wait"
    /\ sig \in rpending
    /\ rpending' = rpending \ {sig}
    /\ IF HasTop(rbuf)
         THEN /\ rbyte' = ShiftIn(rbuf, bit)
              /\ rbuf' = EmptyIn
              /\ rpc' = "write"
         ELSE /\ rbuf' = ShiftIn(rbuf, bit)
              /\ rpc' = "kick"
              /\ UNCHANGED rbyte
    /\ UNCHANGED <<svars, env, out, spending, rstatus>>

\* sigwait() returned SIGTERM: `goto out' past bitwise_cleanup_rcv().
ReceiveTerm ==
    /\ rpc = "wait"
    /\ "TERM" \in rpending
    /\ rpending' = rpending \ {"TERM"}
    /\ rpc' = "return"
    /\ UNCHANGED <<svars, env, out, rbuf, rbyte, spending, rstatus>>

\* Mutant of Write: back to sigwait() instead of the loop head.
WriteUnasked ==
    /\ rpc = "write" /\ rpc' = "wait"
    /\ out' = Append(out, rbyte)
    /\ UNCHANGED <<svars, env, rbuf, rbyte, rpending, spending, rstatus>>

Write ==
    /\ rpc = "write" /\ rpc' = "kick"
    /\ out' = Append(out, rbyte)
    /\ UNCHANGED <<svars, env, rbuf, rbyte, rpending, spending, rstatus>>

WriteFails ==
    /\ rpc = "write" /\ rpc' = "deinit"
    /\ ioErrors < MaxIoErrors
    /\ ioErrors' = ioErrors + 1
    /\ UNCHANGED <<svars, file, listensToAlarm, kills, out, rbuf, rbyte,
                   rpending, spending, rstatus>>

\* deinit_bitwise: tell the sender, and return with an error.
Deinit ==
    /\ rpc = "deinit"
    /\ spending' = spending \cup {"TERM"}
    /\ ReceiverExit("failed")
    /\ UNCHANGED <<svars, env, out, rbuf, rbyte, rpending>>

ReceiverReturn ==
    /\ rpc = "return"
    /\ ReceiverExit("ok")
    /\ UNCHANGED <<svars, env, out, rbuf, rbyte, rpending, spending>>

\* Mutant of PeerDeath: the handler returns.
PeerDeathIgnored ==
    /\ ~ ReceiverGone /\ SenderGone
    /\ UNCHANGED vars

\* rcv_peer_death(): SIGCHLD came, whatever the receiver was doing.
PeerDeath ==
    /\ ~ ReceiverGone /\ SenderGone
    /\ ReceiverExit("failed")
    /\ UNCHANGED <<svars, env, out, rbuf, rbyte, rpending, spending>>

ReceiverStep ==
    \/ Kick \/ ReceiveBit("USR1", 0) \/ ReceiveBit("USR2", 1) \/ ReceiveTerm
    \/ Write \/ Deinit \/ ReceiverReturn

-----------------------------------------------------------------------------
(* snd_main *)

\* sigwait() returned SIGTERM.
ToldToExit ==
    /\ spc = "wait" /\ "TERM" \in spending
    /\ spending' = spending \ {"TERM"}
    /\ SenderExit(TRUE)
    /\ serrors' = TRUE
    /\ UNCHANGED <<rvars, env, rpending, pos, sbuf, needByte, sbit>>

\* sigwait() returned SIGUSR1: a bit is asked for.
Asked ==
    /\ spc = "wait" /\ "USR1" \in spending
    /\ spending' = spending \ {"USR1"}
    /\ spc' = IF needByte THEN "read" ELSE "pull"
    /\ UNCHANGED <<rvars, env, rpending, pos, sbuf, needByte, sbit, serrors,
                   sstatus>>

\* Mutant of ReadByte: the byte is shifted without its sentinel.
ReadBare ==
    /\ spc = "read" /\ pos < Len(file)
    /\ LET byte == file[pos + 1] IN
       /\ sbit' = HasTop(byte)
       /\ sbuf' = ShiftIn(byte, 0)
    /\ pos' = pos + 1
    /\ needByte' = FALSE
    /\ spc' = "reply"
    /\ UNCHANGED <<rvars, env, rpending, spending, serrors, sstatus>>

\* read() returned a byte: bitwise_pull_next_byte().
ReadByte ==
    /\ spc = "read" /\ pos < Len(file)
    /\ LET byte == file[pos + 1] IN
       /\ sbit' = HasTop(byte)
       /\ sbuf' = ShiftIn(byte, 1)
    /\ pos' = pos + 1
    /\ needByte' = FALSE
    /\ spc' = "reply"
    /\ UNCHANGED <<rvars, env, rpending, spending, serrors, sstatus>>

\* Mutant of ReadEnd: a short file is taken for an empty one.
ReadEndEarly ==
    /\ spc = "read" /\ pos <= Len(file)
    /\ spc' = "terminate"
    /\ UNCHANGED <<rvars, env, rpending, spending, pos, sbuf, needByte, sbit,
                   serrors, sstatus>>

ReadEnd ==
    /\ spc = "read" /\ pos = Len(file)
    /\ spc' = "terminate"
    /\ UNCHANGED <<rvars, env, rpending, spending, pos, sbuf, needByte, sbit,
                   serrors, sstatus>>

ReadFails ==
    /\ spc = "read"
    /\ ioErrors < MaxIoErrors
    /\ ioErrors' = ioErrors + 1
    /\ serrors' = TRUE
    /\ spc' = "terminate"
    /\ UNCHANGED <<rvars, file, listensToAlarm, kills, rpending, spending, pos,
                   sbuf, needByte, sbit, sstatus>>

\* Mutant of Pull: the emptiness is tested before the shift.
PullStale ==
    /\ spc = "pull"
    /\ sbit' = HasTop(sbuf)
    /\ sbuf' = ShiftIn(sbuf, 0)
    /\ needByte' = (sbuf = EmptyOut)
    /\ spc' = "reply"
    /\ UNCHANGED <<rvars, env, rpending, spending, pos, serrors, sstatus>>

\* bitwise_pull()
Pull ==
    /\ spc = "pull"
    /\ sbit' = HasTop(sbuf)
    /\ sbuf' = ShiftIn(sbuf, 0)
    /\ needByte' = (sbuf' = EmptyOut)
    /\ spc' = "reply"
    /\ UNCHANGED <<rvars, env, rpending, spending, pos, serrors, sstatus>>

Reply ==
    /\ spc = "reply" /\ spc' = "wait"
    /\ rpending' = rpending \cup {IF sbit THEN "USR2" ELSE "USR1"}
    /\ UNCHANGED <<rvars, env, spending, pos, sbuf, needByte, sbit, serrors,
                   sstatus>>

\* The receiver was reaped: kill() fails with ESRCH.
ReplyFails ==
    /\ spc = "reply" /\ ReceiverGone
    /\ serrors' = TRUE
    /\ spc' = "terminate"
    /\ UNCHANGED <<rvars, env, rpending, spending, pos, sbuf, needByte, sbit,
                   sstatus>>

\* kill_receiver: SIGTERM to the receiver, an error if it was reaped.
Terminate ==
    /\ spc = "terminate"
    /\ rpending' = rpending \cup {"TERM"}
    /\ \E reaped \in {FALSE, ReceiverGone} :
         /\ SenderExit(serrors \/ reaped)
         /\ serrors' = (serrors \/ reaped)
    /\ UNCHANGED <<rvars, env, spending, pos, sbuf, needByte, sbit>>

\* snd_peer_check(): a second passed; without a parent the sender dies.
PeerCheck ==
    /\ ~ SenderGone /\ ReceiverGone
    /\ spc' = "gone" /\ sstatus' = "failed"
    /\ UNCHANGED <<rvars, env, rpending, spending, pos, sbuf, needByte, sbit,
                   serrors>>

\* The alarm is handed to sigwait() when the signal set happens to have it.
AlarmInSigwait ==
    /\ spc = "wait" /\ listensToAlarm
    /\ spc' = "gone" /\ sstatus' = "failed"
    /\ UNCHANGED <<rvars, env, rpending, spending, pos, sbuf, needByte, sbit,
                   serrors>>

SenderStep ==
    \/ ToldToExit \/ Asked \/ ReadByte \/ ReadEnd \/ Pull \/ Reply
    \/ ReplyFails \/ Terminate

-----------------------------------------------------------------------------
(* SIGKILL from outside *)

KillReceiver ==
    /\ ~ ReceiverGone /\ kills < MaxKills
    /\ kills' = kills + 1
    /\ ReceiverExit("killed")
    /\ UNCHANGED <<svars, file, listensToAlarm, ioErrors, out, rbuf, rbyte,
                   rpending, spending>>

KillSender ==
    /\ ~ SenderGone /\ kills < MaxKills
    /\ kills' = kills + 1
    /\ spc' = "gone" /\ sstatus' = "killed"
    /\ UNCHANGED <<rvars, file, listensToAlarm, ioErrors, rpending, spending,
                   pos, sbuf, needByte, sbit, serrors>>

-----------------------------------------------------------------------------
\* Both processes after fork(), with the signals blocked before it. The
\* sender's signal set lacks its terminating 0, so it may hold anything.
Init ==
    /\ file \in Files /\ pos = 0 /\ out = << >>
    /\ rpc = "kick" /\ rbuf = EmptyIn /\ rbyte = 0
    /\ rpending = {} /\ rstatus = "running"
    /\ spc = "wait" /\ sbuf = EmptyOut /\ needByte = TRUE /\ sbit = FALSE
    /\ spending = {} /\ serrors = FALSE /\ sstatus = "running"
    /\ listensToAlarm \in BOOLEAN
    /\ kills = 0 /\ ioErrors = 0

Finished == ReceiverGone /\ SenderGone /\ UNCHANGED vars

Next ==
    \/ ReceiverStep \/ PeerDeath
    \/ SenderStep \/ PeerCheck \/ AlarmInSigwait
    \/ WriteFails \/ ReadFails \/ KillReceiver \/ KillSender
    \/ Finished

Spec == Init /\ [][Next]_vars

-----------------------------------------------------------------------------
(* Properties *)

\* Every variable keeps its type.
TypeOK ==
    /\ file \in Files /\ pos \in 0 .. Len(file)
    /\ out \in Seq(Bytes)
    /\ rpc \in {"kick", "wait", "write", "deinit", "return", "gone"}
    /\ spc \in {"wait", "read", "pull", "reply", "terminate", "gone"}
    /\ rbuf \in Bytes /\ rbyte \in Bytes /\ sbuf \in Bytes
    /\ rpending \subseteq Signals /\ spending \subseteq Signals
    /\ needByte \in BOOLEAN /\ sbit \in BOOLEAN /\ serrors \in BOOLEAN
    /\ listensToAlarm \in BOOLEAN
    /\ rstatus \in {"running", "ok", "failed", "killed"}
    /\ sstatus \in {"running", "ok", "failed", "killed"}
    /\ kills \in 0 .. MaxKills /\ ioErrors \in 0 .. MaxIoErrors

Token(condition) == IF condition THEN 1 ELSE 0

\* Questions and answers alternate: there is one thing under way, a question or
\* an answer, so no signal is ever sent while the same one is still pending and
\* no bit can be lost although signals do not queue.
OneSignalUnderWay ==
    ~ ReceiverGone /\ ~ SenderGone =>
        Token(rpc \in {"kick", "write", "deinit", "return"})
      + Token("USR1" \in spending)
      + Token(spc \in {"read", "pull", "reply", "terminate"})
      + Token("USR1" \in rpending) + Token("USR2" \in rpending) = 1

\* The asserts of bitwise_pull() (signal.c:98) and bitwise_pull_next_byte()
\* (signal.c:111) never fire: a byte is read exactly when the last one is out.
AssertsHold ==
    /\ TypeOK
    /\ spc = "pull" => sbuf # EmptyOut
    /\ spc = "read" => sbuf = EmptyOut

\* What was written is the beginning of the file, whole bytes, whatever dies.
OutputIsPrefix == Len(out) <= Len(file) /\ out = SubSeq(file, 1, Len(out))

\* The sender says SIGTERM to a living receiver between bytes only: the
\* receiver, which skips its own check on SIGTERM, has an empty buffer then.
EndsOnByteBoundary ==
    rpc = "return" => rbuf = EmptyIn /\ Len(out) = pos

\* A receiver that returns 0 wrote the whole file, unless the sender could not
\* read it, and returns between bytes.
SuccessIsComplete ==
    /\ EndsOnByteBoundary
    /\ rstatus = "ok" /\ ioErrors = 0 => out = file

=============================================================================

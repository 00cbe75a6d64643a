---------------------------- MODULE SignalBitsOld ----------------------------
(***************************************************************************)
(* course2-1/__non_canonical/For478/task4/signal.c: the earlier version of *)
(* the program of SignalBits. The bit buffers and the two loops are the    *)
(* same; but SIGCHLD is ignored, so that a sender that ended is reaped at  *)
(* once and kill() fails, and there is neither a handler for the death of  *)
(* the sender nor an alarm for that of the receiver.                       *)
(***************************************************************************)
EXTENDS SignalBits

\* bitwise_push_lsb() and what follows it; SIGTERM goes to `out'.
PushLsb == ReceiveBit("USR1", 0) \/ ReceiveBit("USR2", 1)

\* kill() finds no sender: clean up, and tell it again, in vain.
KickFails ==
    /\ rpc = "kick" /\ SenderGone /\ rpc' = "deinit"
    /\ UNCHANGED <<svars, env, out, rbuf, rbyte, rpending, spending, rstatus>>

OldReceiver ==
    \/ Kick /\ ~ SenderGone
    \/ KickFails \/ PushLsb \/ ReceiveTerm \/ Write \/ Deinit
    \/ ReceiverReturn

\* bitwise_pull() and bitwise_pull_next_byte()
PullBit == Pull \/ ReadByte

OldSender ==
    \/ ToldToExit \/ Asked \/ PullBit \/ ReadEnd \/ Reply \/ ReplyFails
    \/ Terminate

\* The process that outlives the other one may wait for it for ever.
Abandoned ==
    /\ kills > 0
    /\ \/ ReceiverGone /\ spc = "wait"
       \/ SenderGone /\ rpc = "wait"
    /\ UNCHANGED vars

\* main(); the sender's signal set still lacks its end.
OldInit == Init /\ ~ listensToAlarm

OldNext ==
    \/ OldReceiver \/ OldSender \/ WriteFails \/ ReadFails \/ KillReceiver
    \/ KillSender \/ Finished \/ Abandoned
=============================================================================

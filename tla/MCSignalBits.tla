---------------------------- MODULE MCSignalBits -----------------------------
(* Instances of both versions of the program for TLC. *)
EXTENDS SignalBitsOld, SequencesExt

VARIABLE version

\* Every file of at most two bytes of three bits.
SmallBytes == SeqOf(0 .. 7, 2)

MCInit ==
    \/ version = "new" /\ Init
    \/ version = "old" /\ OldInit

NewStep == version = "new" /\ Next /\ UNCHANGED version
OldStep == version = "old" /\ OldNext /\ UNCHANGED version

MCvars == <<vars, version>>

\* The old version has no handlers that could be counted on.
MCSpec ==
    /\ MCInit /\ [][NewStep \/ OldStep]_MCvars
    /\ WF_MCvars(NewStep /\ ReceiverStep) /\ WF_MCvars(NewStep /\ SenderStep)
    /\ WF_MCvars(NewStep /\ PeerDeath) /\ WF_MCvars(NewStep /\ PeerCheck)
    /\ WF_MCvars(OldStep /\ OldReceiver) /\ WF_MCvars(OldStep /\ OldSender)

\* Both processes end: in the new version whichever of them is killed, in the
\* old one if none is.
EitherEnds ==
    <>((ReceiverGone /\ SenderGone) \/ (version = "old" /\ kills > 0))
=============================================================================

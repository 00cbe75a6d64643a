-------------------------- MODULE SignalBits_proofs --------------------------
(***************************************************************************)
(* Theorems about SignalBits, for bytes of any number of bits, any set of  *)
(* files and any number of deaths and failing calls: the questions and the *)
(* answers alternate, the asserts of the bit buffers hold, and what the    *)
(* receiver writes is the file.                                            *)
(*                                                                         *)
(* The argument has two halves. One thing is under way at a time (a        *)
(* question, an answer, or a process that must give one): TokenInv. And    *)
(* between two steps of the conversation the receiver holds the upper bits *)
(* of the byte at the sender's position, the sender the lower ones: Sync,  *)
(* as arithmetic of the two sentinels.                                     *)
(***************************************************************************)
EXTENDS SignalBits, SequenceTheorems, TLAPS

-----------------------------------------------------------------------------
(* Bytes and bits *)

\* A set of place values of the bits of a byte (the assumption promises one).
Places == CHOOSE W \in SUBSET (1 .. 2 * TopBit) : PlaceValues(W)

\* The chosen set is one.
LEMMA PlacesSound ==
    /\ Places \in SUBSET (1 .. 2 * TopBit)
    /\ 2 * TopBit \in Places
    /\ \A q \in Places : q = 1 \/ \E h \in Places : q = 2 * h
BY SignalAssumption DEF Places, PlaceValues

\* The most significant bit is a place value, and even.
LEMMA TopSound ==
    /\ TopBit \in Nat /\ TopBit > 1
    /\ TopBit \in Places
    /\ \E h \in Nat : TopBit = 2 * h
<1>1. TopBit \in Nat /\ TopBit > 1
  BY SignalAssumption
<1>2. \E h \in Places : 2 * TopBit = 2 * h
  BY <1>1, PlacesSound
<1>3. TopBit \in Places
  BY <1>1, <1>2, PlacesSound
<1>4. \E h \in Places : TopBit = 2 * h
  <2>1. TopBit = 1 \/ \E h \in Places : TopBit = 2 * h
    BY <1>3, PlacesSound
  <2>2. TopBit # 1
    BY <1>1
  <2> QED BY <2>1, <2>2, Zenon
<1> QED BY <1>1, <1>3, <1>4, PlacesSound

\* Multiplication is monotone,
LEMMA TimesMonotone ==
    ASSUME NEW a \in Nat, NEW b \in Nat, NEW c \in Nat, a <= b
    PROVE  a * c <= b * c
BY SMT

\* and strictly so by a positive factor.
LEMMA TimesStrict ==
    ASSUME NEW a \in Nat, NEW b \in Nat, NEW c \in Nat, a < b, c > 0
    PROVE  a * c < b * c
BY SMT

\* bitwise_push() and the two pulls: doubling, without the bit that falls out.
LEMMA ShiftInValue ==
    ASSUME NEW b \in Bytes, NEW bit \in {0, 1}
    PROVE  /\ ShiftIn(b, bit) \in Bytes
           /\ ~ HasTop(b) => ShiftIn(b, bit) = 2 * b + bit
           /\ HasTop(b) => ShiftIn(b, bit) = 2 * b + bit - 2 * TopBit
<1>1. TopBit \in Nat /\ TopBit > 1
  BY TopSound
<1> DEFINE n == 2 * TopBit  a == 2 * b + bit
<1>2. n \in Nat \ {0} /\ a \in Nat /\ a < 2 * n
  BY <1>1 DEF Bytes
<1> HIDE DEF n, a
<1>3. a % n \in 0 .. n - 1 /\ a \div n \in Int /\ a = n * (a \div n) + (a % n)
  BY <1>2, SMT
<1>4. ASSUME NEW d \in Int, NEW r \in 0 .. n - 1, a = n * d + r
      PROVE  d = 0 \/ d = 1
  <2>1. CASE d > 1
    BY <1>2, <1>4, <2>1, SMT
  <2>2. CASE d < 0
    BY <1>2, <1>4, <2>2, SMT
  <2> QED BY <2>1, <2>2
<1>5. a % n = IF a < n THEN a ELSE a - n
  <2>1. a \div n = 0 \/ a \div n = 1
    BY <1>3, <1>4
  <2>2. a = a % n \/ a = n + (a % n)
    BY <1>2, <1>3, <2>1, SMT
  <2> QED BY <1>2, <1>3, <2>2, SMT
<1>6. ShiftIn(b, bit) = a % n
  BY DEF ShiftIn, a, n
<1> QED BY <1>1, <1>2, <1>5, <1>6 DEF HasTop, Bytes, a, n

-----------------------------------------------------------------------------
(* The two buffers *)

\* One byte in two buffers. With weight q for the last bit received, the
\* receiver's buffer is the byte's upper part hi under the sentinel p, and the
\* sender's is the lower part lo with the sentinel 1 behind it, at the top.
Sync(byte, received, left) ==
    \E p \in 2 .. 2 * TopBit, q \in Places :
      \E hi \in 0 .. p - 1, lo \in 0 .. q - 1 :
        /\ p * q = 2 * TopBit
        /\ byte = hi * q + lo
        /\ received = p + hi
        /\ 2 * left = (2 * lo + 1) * p

\* bitwise_pull_next_byte() starts a byte: one bit is out.
LEMMA SyncRead ==
    ASSUME NEW byte \in Bytes
    PROVE  Sync(byte, 2 * EmptyIn + Token(HasTop(byte)), ShiftIn(byte, 1))
<1> DEFINE hi == Token(HasTop(byte))  lo == byte - hi * TopBit
<1>1. /\ TopBit \in Nat /\ TopBit > 1 /\ TopBit \in Places
      /\ byte \in 0 .. 2 * TopBit - 1
  BY TopSound DEF Bytes
<1>2. /\ hi \in 0 .. 1 /\ lo \in 0 .. TopBit - 1
      /\ byte = hi * TopBit + lo
      /\ ShiftIn(byte, 1) = 2 * lo + 1
  <2>1. CASE HasTop(byte)
    <3>1. hi = 1 /\ lo = byte - TopBit
      BY <1>1, <2>1 DEF Token
    <3> QED BY <1>1, <2>1, <3>1, ShiftInValue DEF HasTop
  <2>2. CASE ~ HasTop(byte)
    <3>1. hi = 0 /\ lo = byte
      BY <1>1, <2>2 DEF Token
    <3> QED BY <1>1, <2>2, <3>1, ShiftInValue DEF HasTop
  <2> QED BY <2>1, <2>2
<1> HIDE DEF lo
<1>3. /\ 2 \in 2 .. 2 * TopBit /\ 2 * TopBit = 2 * TopBit
      /\ hi \in 0 .. 2 - 1
      /\ 2 * EmptyIn + hi = 2 + hi
      /\ 2 * ShiftIn(byte, 1) = (2 * lo + 1) * 2
  BY <1>1, <1>2 DEF EmptyIn
<1> QED BY <1>1, <1>2, <1>3 DEF Sync

\* bitwise_pull() moves a bit from the sender's part to the receiver's.
LEMMA SyncPull ==
    ASSUME NEW byte, NEW received \in Nat, NEW left \in Bytes,
           left # EmptyOut, Sync(byte, received, left)
    PROVE  Sync(byte, 2 * received + Token(HasTop(left)), ShiftIn(left, 0))
<1>1. TopBit \in Nat /\ TopBit > 1
  BY TopSound
<1>2. PICK p \in 2 .. 2 * TopBit, q \in Places :
        \E hi \in 0 .. p - 1, lo \in 0 .. q - 1 :
          /\ p * q = 2 * TopBit
          /\ byte = hi * q + lo
          /\ received = p + hi
          /\ 2 * left = (2 * lo + 1) * p
  BY DEF Sync
<1>3. PICK hi \in 0 .. p - 1, lo \in 0 .. q - 1 :
          /\ p * q = 2 * TopBit
          /\ byte = hi * q + lo
          /\ received = p + hi
          /\ 2 * left = (2 * lo + 1) * p
  BY <1>2
<1>4. p \in Nat /\ hi \in Nat /\ q \in 1 .. 2 * TopBit /\ lo \in Nat
  BY <1>1, <1>3, PlacesSound
<1>5. q # 1
  <2> SUFFICES ASSUME q = 1 PROVE FALSE
    OBVIOUS
  <2>1. lo = 0 /\ p = 2 * TopBit
    BY <1>1, <1>3, <1>4
  <2>2. left = TopBit
    BY <1>1, <1>3, <2>1 DEF Bytes
  <2> QED BY <2>2 DEF EmptyOut
<1>6. PICK g \in Places : q = 2 * g
  BY <1>5, PlacesSound
<1>7. g \in 1 .. 2 * TopBit /\ p * g = TopBit
  <2>1. g \in 1 .. 2 * TopBit
    BY PlacesSound
  <2>2. p * (2 * g) = 2 * (p * g)
    BY <1>4, <2>1
  <2> QED BY <1>1, <1>3, <1>4, <1>6, <2>1, <2>2
<1>8. left \in 0 .. 2 * TopBit - 1
  BY DEF Bytes
<1>9. 2 * p \in 2 .. 2 * TopBit /\ (2 * p) * g = 2 * TopBit
  <2>1. 1 * p <= g * p
    BY <1>4, <1>7, TimesMonotone
  <2> QED BY <1>1, <1>4, <1>7, <2>1
<1>10. HasTop(left) <=> lo >= g
  <2>1. ASSUME lo >= g PROVE left >= TopBit
    <3>1. (2 * g) * p <= (2 * lo + 1) * p
      BY <1>4, <1>7, <2>1, TimesMonotone
    <3>2. (2 * g) * p = 2 * TopBit
      BY <1>4, <1>7
    <3> QED BY <1>1, <1>3, <1>8, <3>1, <3>2
  <2>2. ASSUME lo < g PROVE left < TopBit
    <3>1. (2 * lo + 1) * p < (2 * g) * p
      BY <1>4, <1>7, <2>2, TimesStrict
    <3>2. (2 * g) * p = 2 * TopBit
      BY <1>4, <1>7
    <3> QED BY <1>1, <1>3, <1>8, <3>1, <3>2
  <2> QED BY <1>1, <1>4, <1>7, <1>8, <2>1, <2>2 DEF HasTop
<1>11. CASE HasTop(left)
  <2>1. Token(HasTop(left)) = 1 /\ lo >= g
    BY <1>10, <1>11 DEF Token
  <2>2. ShiftIn(left, 0) = 2 * left - 2 * TopBit
    BY <1>1, <1>8, <1>11, ShiftInValue
  <2>3. 2 * hi + 1 \in 0 .. 2 * p - 1 /\ lo - g \in 0 .. g - 1
    BY <1>3, <1>4, <1>6, <1>7, <2>1
  <2>4. byte = (2 * hi + 1) * g + (lo - g)
    BY <1>3, <1>4, <1>6, <1>7
  <2>5. 2 * received + 1 = 2 * p + (2 * hi + 1)
    BY <1>3, <1>4
  <2>6. 2 * ShiftIn(left, 0) = (2 * (lo - g) + 1) * (2 * p)
    <3>1. (2 * (lo - g) + 1) * (2 * p) = 2 * ((2 * lo + 1) * p) - 4 * (p * g)
      BY <1>4, <1>7
    <3> QED BY <1>1, <1>3, <1>7, <1>8, <2>2, <3>1
  <2> QED BY <1>9, <2>1, <2>3, <2>4, <2>5, <2>6 DEF Sync
<1>12. CASE ~ HasTop(left)
  <2>1. Token(HasTop(left)) = 0 /\ lo < g
    BY <1>4, <1>7, <1>10, <1>12 DEF Token
  <2>2. ShiftIn(left, 0) = 2 * left
    BY <1>1, <1>8, <1>12, ShiftInValue
  <2>3. 2 * hi \in 0 .. 2 * p - 1 /\ lo \in 0 .. g - 1
    BY <1>3, <1>4, <1>7, <2>1
  <2>4. byte = (2 * hi) * g + lo
    BY <1>3, <1>4, <1>6, <1>7
  <2>5. 2 * received + 0 = 2 * p + 2 * hi
    BY <1>3, <1>4
  <2>6. 2 * ShiftIn(left, 0) = (2 * lo + 1) * (2 * p)
    <3>1. (2 * lo + 1) * (2 * p) = 2 * ((2 * lo + 1) * p)
      BY <1>4
    <3> QED BY <1>3, <1>8, <2>2, <3>1
  <2> QED BY <1>9, <2>1, <2>3, <2>4, <2>5, <2>6 DEF Sync
<1> QED BY <1>11, <1>12

\* The bit that the receiver pushes completes its byte exactly when the
\* sender's buffer has become empty, and then the byte is the one sent.
LEMMA SyncReceive ==
    ASSUME NEW byte, NEW left \in Bytes, NEW b \in Bytes, NEW bit \in {0, 1},
           Sync(byte, 2 * b + bit, left)
    PROVE  IF HasTop(b) THEN ShiftIn(b, bit) = byte /\ left = EmptyOut
           ELSE ShiftIn(b, bit) = 2 * b + bit /\ left # EmptyOut
<1>1. TopBit \in Nat /\ TopBit > 1
  BY TopSound
<1>2. PICK p \in 2 .. 2 * TopBit, q \in Places :
        \E hi \in 0 .. p - 1, lo \in 0 .. q - 1 :
          /\ p * q = 2 * TopBit
          /\ byte = hi * q + lo
          /\ 2 * b + bit = p + hi
          /\ 2 * left = (2 * lo + 1) * p
  BY DEF Sync
<1>3. PICK hi \in 0 .. p - 1, lo \in 0 .. q - 1 :
          /\ p * q = 2 * TopBit
          /\ byte = hi * q + lo
          /\ 2 * b + bit = p + hi
          /\ 2 * left = (2 * lo + 1) * p
  BY <1>2
<1>4. p \in Nat /\ hi \in Nat /\ q \in 1 .. 2 * TopBit /\ lo \in Nat
  BY <1>1, <1>3, PlacesSound
<1>5. b \in Nat /\ left \in Nat
  BY <1>1 DEF Bytes
<1>6. CASE q = 1
  <2>1. lo = 0 /\ p = 2 * TopBit /\ byte = hi
    BY <1>1, <1>3, <1>4, <1>6
  <2>2. left = TopBit
    BY <1>1, <1>3, <1>5, <2>1
  <2>3. 2 * b + bit = 2 * TopBit + hi
    BY <1>3, <2>1
  <2>4. b >= TopBit
    BY <1>1, <1>4, <1>5, <2>3
  <2>5. HasTop(b)
    BY <2>4 DEF HasTop
  <2>6. ShiftIn(b, bit) = hi
    BY <1>1, <1>4, <1>5, <2>3, <2>5, ShiftInValue
  <2> QED BY <2>1, <2>2, <2>5, <2>6 DEF EmptyOut
<1>7. CASE q # 1
  <2>1. PICK g \in Places : q = 2 * g
    BY <1>7, PlacesSound
  <2>2. g \in 1 .. 2 * TopBit
    BY PlacesSound
  <2>3. p * (2 * g) = 2 * (p * g)
    BY <1>4, <2>2
  <2>4. p * g = TopBit
    BY <1>1, <1>3, <1>4, <2>1, <2>2, <2>3
  <2>5. 1 * p <= g * p
    BY <1>4, <2>2, TimesMonotone
  <2>6. b < TopBit
    BY <1>1, <1>3, <1>4, <1>5, <2>2, <2>4, <2>5
  <2>7. left # TopBit
    <3> SUFFICES ASSUME left = TopBit PROVE FALSE
      OBVIOUS
    <3>1. (2 * lo + 1) * p = (2 * g) * p
      BY <1>3, <1>4, <2>2, <2>4
    <3>2. 2 * lo + 1 # 2 * g
      BY <1>4, <2>2
    <3>3. CASE 2 * lo + 1 < 2 * g
      BY <1>4, <2>2, <3>1, <3>3, TimesStrict
    <3>4. CASE 2 * lo + 1 > 2 * g
      BY <1>4, <2>2, <3>1, <3>4, TimesStrict
    <3> QED BY <1>4, <2>2, <3>2, <3>3, <3>4
  <2>8. ~ HasTop(b)
    BY <1>1, <1>5, <2>6 DEF HasTop
  <2> QED BY <2>7, <2>8, ShiftInValue DEF EmptyOut
<1> QED BY <1>6, <1>7

-----------------------------------------------------------------------------
(* One signal at a time *)

\* What is under way: OneSignalUnderWay's sum, and the SIGTERM to the receiver.
Tokens ==
    Token(rpc \in {"kick", "write", "deinit", "return"})
  + Token("USR1" \in spending)
  + Token(spc \in {"read", "pull", "reply", "terminate"})
  + Token("USR1" \in rpending) + Token("USR2" \in rpending)
  + Token("TERM" \in rpending)

\* At most one of them while the receiver lives, exactly one while both do, and
\* a sender that said SIGTERM has exited.
TokenInv ==
    ~ ReceiverGone =>
        /\ Tokens <= 1
        /\ ~ SenderGone => Tokens = 1 /\ "TERM" \notin rpending

\* needByte tells whether the sender's buffer is empty.
BufferInv ==
    /\ needByte <=> sbuf = EmptyOut
    /\ spc = "pull" => ~ needByte
    /\ spc = "read" => needByte

\* The values that the buffers are set to are bytes.
LEMMA BytesSound == 0 \in Bytes /\ EmptyIn \in Bytes /\ EmptyOut \in Bytes
BY TopSound DEF Bytes, EmptyIn, EmptyOut

\* The file is a sequence of bytes with the sender's position in it.
LEMMA FileSound ==
    ASSUME TypeOK
    PROVE  /\ file \in Seq(Bytes) /\ Len(file) \in Nat /\ pos \in 0 .. Len(file)
           /\ \A i \in 1 .. Len(file) : file[i] \in Bytes
<1>1. file \in Seq(Bytes)
  BY SignalAssumption DEF TypeOK
<1> QED BY <1>1 DEF TypeOK

\* TypeOK holds at first,
LEMMA InitType == Init => TypeOK
<1> SUFFICES ASSUME Init PROVE TypeOK
  OBVIOUS
<1>1. /\ file \in Seq(Bytes) /\ Len(file) \in Nat
      /\ MaxKills \in Nat /\ MaxIoErrors \in Nat
  BY SignalAssumption DEF Init
<1>2. << >> \in Seq(Bytes)
  OBVIOUS
<1>3. file \in Files /\ pos \in 0 .. Len(file) /\ out \in Seq(Bytes)
  BY <1>1, <1>2 DEF Init
<1>4. kills \in 0 .. MaxKills /\ ioErrors \in 0 .. MaxIoErrors
  BY <1>1 DEF Init
<1>5. rbuf \in Bytes /\ rbyte \in Bytes /\ sbuf \in Bytes
  BY BytesSound DEF Init
<1> QED BY <1>3, <1>4, <1>5 DEF Init, TypeOK

\* and is preserved by every step.
LEMMA NextType == ASSUME TypeOK, [Next]_vars PROVE TypeOK'
<1>0. /\ Len(file) \in Nat /\ MaxKills \in Nat /\ MaxIoErrors \in Nat
      /\ kills \in Int /\ ioErrors \in Int
  BY SignalAssumption, FileSound DEF TypeOK
<1> USE <1>0, BytesSound
<1>1. CASE Kick
  BY <1>1 DEF Kick, Signals, rvars, svars, env, TypeOK
<1>2. CASE ReceiveBit("USR1", 0)
  <2>1. ShiftIn(rbuf, 0) \in Bytes /\ ShiftIn(rbuf, 1) \in Bytes
    BY ShiftInValue DEF TypeOK
  <2> QED BY <1>2, <2>1 DEF ReceiveBit, rvars, svars, env, TypeOK
<1>3. CASE ReceiveBit("USR2", 1)
  <2>1. ShiftIn(rbuf, 0) \in Bytes /\ ShiftIn(rbuf, 1) \in Bytes
    BY ShiftInValue DEF TypeOK
  <2> QED BY <1>3, <2>1 DEF ReceiveBit, rvars, svars, env, TypeOK
<1>4. CASE ReceiveTerm
  BY <1>4 DEF ReceiveTerm, rvars, svars, env, TypeOK
<1>5. CASE Write
  BY <1>5 DEF Write, rvars, svars, env, TypeOK
<1>6. CASE Deinit
  BY <1>6 DEF Deinit, Signals, rvars, svars, env, TypeOK, ReceiverExit
<1>7. CASE ReceiverReturn
  BY <1>7 DEF ReceiverReturn, rvars, svars, env, TypeOK, ReceiverExit
<1>8. CASE PeerDeath
  BY <1>8 DEF PeerDeath, rvars, svars, env, TypeOK, ReceiverExit
<1>9. CASE ToldToExit
  BY <1>9 DEF ToldToExit, rvars, svars, env, TypeOK, SenderExit
<1>10. CASE Asked
  BY <1>10 DEF Asked, rvars, svars, env, TypeOK
<1>11. CASE ReadByte
  <2>1. ShiftIn(file[pos + 1], 1) \in Bytes /\ pos + 1 \in 0 .. Len(file)
    BY <1>11, FileSound, ShiftInValue DEF ReadByte
  <2>2. pos' \in 0 .. Len(file) /\ sbuf' \in Bytes /\ sbit' \in BOOLEAN
    BY <1>11, <2>1 DEF ReadByte, HasTop
  <2> QED BY <1>11, <2>2 DEF ReadByte, rvars, svars, env, TypeOK
<1>12. CASE ReadEnd
  BY <1>12 DEF ReadEnd, rvars, svars, env, TypeOK
<1>13. CASE Pull
  <2>1. ShiftIn(sbuf, 0) \in Bytes
    BY ShiftInValue DEF TypeOK
  <2> QED BY <1>13, <2>1 DEF Pull, rvars, svars, env, TypeOK, HasTop
<1>14. CASE Reply
  BY <1>14 DEF Reply, Signals, rvars, svars, env, TypeOK
<1>15. CASE ReplyFails
  BY <1>15 DEF ReplyFails, rvars, svars, env, TypeOK
<1>16. CASE Terminate
  BY <1>16 DEF Terminate, Signals, rvars, svars, env, TypeOK, SenderExit
<1>17. CASE PeerCheck
  BY <1>17 DEF PeerCheck, rvars, svars, env, TypeOK
<1>18. CASE AlarmInSigwait
  BY <1>18 DEF AlarmInSigwait, rvars, svars, env, TypeOK
<1>19. CASE WriteFails
  BY <1>19 DEF WriteFails, rvars, svars, env, TypeOK
<1>20. CASE ReadFails
  BY <1>20 DEF ReadFails, rvars, svars, env, TypeOK
<1>21. CASE KillReceiver
  BY <1>21 DEF KillReceiver, rvars, svars, env, TypeOK, ReceiverExit
<1>22. CASE KillSender
  BY <1>22 DEF KillSender, rvars, svars, env, TypeOK
<1>23. CASE UNCHANGED vars
  BY <1>23 DEF vars, rvars, svars, env, TypeOK
<1> QED
  BY <1>1, <1>2, <1>3, <1>4, <1>5, <1>6, <1>7, <1>8, <1>9, <1>10, <1>11, <1>12,
     <1>13, <1>14, <1>15, <1>16, <1>17, <1>18, <1>19, <1>20, <1>21, <1>22,
     <1>23
  DEF Next, ReceiverStep, SenderStep, Finished

\* The receiver has the first word.
LEMMA InitTokens == Init => TokenInv
BY DEF Init, TokenInv, Tokens, Token, ReceiverGone

\* Every step hands the word over, or is a death.
LEMMA NextTokens == ASSUME TokenInv, [Next]_vars PROVE TokenInv'
<1>1. CASE Kick
  BY <1>1 DEF Kick, rvars, svars, env, TokenInv, Tokens, Token, ReceiverGone,
     SenderGone
<1>2. CASE ReceiveBit("USR1", 0)
  BY <1>2 DEF ReceiveBit, rvars, svars, env, TokenInv, Tokens, Token,
     ReceiverGone, SenderGone
<1>3. CASE ReceiveBit("USR2", 1)
  BY <1>3 DEF ReceiveBit, rvars, svars, env, TokenInv, Tokens, Token,
     ReceiverGone, SenderGone
<1>4. CASE ReceiveTerm
  BY <1>4 DEF ReceiveTerm, rvars, svars, env, TokenInv, Tokens, Token,
     ReceiverGone, SenderGone
<1>5. CASE Write
  BY <1>5 DEF Write, rvars, svars, env, TokenInv, Tokens, Token, ReceiverGone,
     SenderGone
<1>6. CASE Deinit
  BY <1>6 DEF Deinit, rvars, svars, env, TokenInv, Tokens, Token, ReceiverGone,
     SenderGone, ReceiverExit
<1>7. CASE ReceiverReturn
  BY <1>7 DEF ReceiverReturn, rvars, svars, env, TokenInv, Tokens, Token,
     ReceiverGone, SenderGone, ReceiverExit
<1>8. CASE PeerDeath
  BY <1>8 DEF PeerDeath, rvars, svars, env, TokenInv, Tokens, Token,
     ReceiverGone, SenderGone, ReceiverExit
<1>9. CASE ToldToExit
  BY <1>9 DEF ToldToExit, rvars, svars, env, TokenInv, Tokens, Token,
     ReceiverGone, SenderGone, SenderExit
<1>10. CASE Asked
  BY <1>10 DEF Asked, rvars, svars, env, TokenInv, Tokens, Token, ReceiverGone,
     SenderGone
<1>11. CASE ReadByte
  BY <1>11 DEF ReadByte, rvars, svars, env, TokenInv, Tokens, Token,
     ReceiverGone, SenderGone
<1>12. CASE ReadEnd
  BY <1>12 DEF ReadEnd, rvars, svars, env, TokenInv, Tokens, Token,
     ReceiverGone, SenderGone
<1>13. CASE Pull
  BY <1>13 DEF Pull, rvars, svars, env, TokenInv, Tokens, Token, ReceiverGone,
     SenderGone
<1>14. CASE Reply
  BY <1>14 DEF Reply, rvars, svars, env, TokenInv, Tokens, Token, ReceiverGone,
     SenderGone
<1>15. CASE ReplyFails
  BY <1>15 DEF ReplyFails, rvars, svars, env, TokenInv, Tokens, Token,
     ReceiverGone, SenderGone
<1>16. CASE Terminate
  BY <1>16 DEF Terminate, rvars, svars, env, TokenInv, Tokens, Token,
     ReceiverGone, SenderGone, SenderExit
<1>17. CASE PeerCheck
  BY <1>17 DEF PeerCheck, rvars, svars, env, TokenInv, Tokens, Token,
     ReceiverGone, SenderGone
<1>18. CASE AlarmInSigwait
  BY <1>18 DEF AlarmInSigwait, rvars, svars, env, TokenInv, Tokens, Token,
     ReceiverGone, SenderGone
<1>19. CASE WriteFails
  BY <1>19 DEF WriteFails, rvars, svars, env, TokenInv, Tokens, Token,
     ReceiverGone, SenderGone
<1>20. CASE ReadFails
  BY <1>20 DEF ReadFails, rvars, svars, env, TokenInv, Tokens, Token,
     ReceiverGone, SenderGone
<1>21. CASE KillReceiver
  BY <1>21 DEF KillReceiver, rvars, svars, env, TokenInv, Tokens, Token,
     ReceiverGone, SenderGone, ReceiverExit
<1>22. CASE KillSender
  BY <1>22 DEF KillSender, rvars, svars, env, TokenInv, Tokens, Token,
     ReceiverGone, SenderGone
<1>23. CASE UNCHANGED vars
  BY <1>23 DEF vars, rvars, svars, env, TokenInv, Tokens, Token, ReceiverGone,
     SenderGone
<1> QED
  BY <1>1, <1>2, <1>3, <1>4, <1>5, <1>6, <1>7, <1>8, <1>9, <1>10, <1>11, <1>12,
     <1>13, <1>14, <1>15, <1>16, <1>17, <1>18, <1>19, <1>20, <1>21, <1>22,
     <1>23
  DEF Next, ReceiverStep, SenderStep, Finished

\* The sender starts with an empty buffer,
LEMMA InitBuffer == Init => BufferInv
BY DEF Init, BufferInv

\* and notices when it is empty again.
LEMMA NextBuffer == ASSUME TypeOK, BufferInv, [Next]_vars PROVE BufferInv'
<1>1. CASE Kick
  BY <1>1 DEF Kick, rvars, svars, env, BufferInv
<1>2. CASE ReceiveBit("USR1", 0)
  BY <1>2 DEF ReceiveBit, rvars, svars, env, BufferInv
<1>3. CASE ReceiveBit("USR2", 1)
  BY <1>3 DEF ReceiveBit, rvars, svars, env, BufferInv
<1>4. CASE ReceiveTerm
  BY <1>4 DEF ReceiveTerm, rvars, svars, env, BufferInv
<1>5. CASE Write
  BY <1>5 DEF Write, rvars, svars, env, BufferInv
<1>6. CASE Deinit
  BY <1>6 DEF Deinit, rvars, svars, env, BufferInv, ReceiverExit
<1>7. CASE ReceiverReturn
  BY <1>7 DEF ReceiverReturn, rvars, svars, env, BufferInv, ReceiverExit
<1>8. CASE PeerDeath
  BY <1>8 DEF PeerDeath, rvars, svars, env, BufferInv, ReceiverExit
<1>9. CASE ToldToExit
  BY <1>9 DEF ToldToExit, rvars, svars, env, BufferInv, SenderExit
<1>10. CASE Asked
  BY <1>10 DEF Asked, rvars, svars, env, BufferInv
<1>11. CASE ReadByte
  <2>1. file[pos + 1] \in Bytes
    BY <1>11, FileSound DEF ReadByte
  <2>2. ShiftIn(file[pos + 1], 1) # EmptyOut
    <3>1. PICK h \in Nat : TopBit = 2 * h
      BY TopSound
    <3> QED BY <2>1, <3>1, ShiftInValue DEF EmptyOut, Bytes
  <2> QED BY <1>11, <2>2 DEF ReadByte, BufferInv
<1>12. CASE ReadEnd
  BY <1>12 DEF ReadEnd, rvars, svars, env, BufferInv
<1>13. CASE Pull
  BY <1>13 DEF Pull, rvars, svars, env, BufferInv
<1>14. CASE Reply
  BY <1>14 DEF Reply, rvars, svars, env, BufferInv
<1>15. CASE ReplyFails
  BY <1>15 DEF ReplyFails, rvars, svars, env, BufferInv
<1>16. CASE Terminate
  BY <1>16 DEF Terminate, rvars, svars, env, BufferInv, SenderExit
<1>17. CASE PeerCheck
  BY <1>17 DEF PeerCheck, rvars, svars, env, BufferInv
<1>18. CASE AlarmInSigwait
  BY <1>18 DEF AlarmInSigwait, rvars, svars, env, BufferInv
<1>19. CASE WriteFails
  BY <1>19 DEF WriteFails, rvars, svars, env, BufferInv
<1>20. CASE ReadFails
  BY <1>20 DEF ReadFails, rvars, svars, env, BufferInv
<1>21. CASE KillReceiver
  BY <1>21 DEF KillReceiver, rvars, svars, env, BufferInv, ReceiverExit
<1>22. CASE KillSender
  BY <1>22 DEF KillSender, rvars, svars, env, BufferInv
<1>23. CASE UNCHANGED vars
  BY <1>23 DEF vars, rvars, svars, env, BufferInv
<1> QED
  BY <1>1, <1>2, <1>3, <1>4, <1>5, <1>6, <1>7, <1>8, <1>9, <1>10, <1>11, <1>12,
     <1>13, <1>14, <1>15, <1>16, <1>17, <1>18, <1>19, <1>20, <1>21, <1>22,
     <1>23
  DEF Next, ReceiverStep, SenderStep, Finished

-----------------------------------------------------------------------------
(* The data *)

\* No bit is under way: a question is, or the end.
Quiet ==
    \/ rpc \in {"kick", "return"} \/ "USR1" \in spending
    \/ spc \in {"read", "pull", "terminate"} \/ "TERM" \in rpending
\* The sender has decided to end the conversation.
Ending == rpc = "return" \/ spc = "terminate" \/ "TERM" \in rpending

\* The byte at the sender's position is being sent; the receiver's buffer is,
\* or will be, `received'.
InByte(received) ==
    pos > 0 /\ Len(out) = pos - 1 /\ Sync(file[pos], received, sbuf)

\* All that was read was written.
Between == Len(out) = pos /\ rbuf = EmptyIn

\* The receiver has the byte at the sender's position, not yet written.
Held == pos > 0 /\ Len(out) = pos - 1 /\ rbyte = file[pos] /\ rbuf = EmptyIn

\* What a living receiver has, by what is under way.
DataInv ==
    ~ ReceiverGone =>
        /\ rpc = "write" => needByte /\ Held
        /\ spc = "reply" => InByte(2 * rbuf + Token(sbit))
        /\ "USR1" \in rpending => InByte(2 * rbuf + 0)
        /\ "USR2" \in rpending => InByte(2 * rbuf + 1)
        /\ Quiet /\ needByte => Between
        /\ Quiet /\ ~ needByte => InByte(rbuf)
        /\ Ending => needByte /\ (ioErrors = 0 => pos = Len(file))

\* OutputIsPrefix byte by byte, and what a return with 0 means.
PrefixInv ==
    /\ Len(out) <= Len(file) /\ \A i \in 1 .. Len(out) : out[i] = file[i]
    /\ rstatus = "ok" => ReceiverGone /\ (ioErrors = 0 => Len(out) = Len(file))

\* The inductive invariant: the properties of the run say nothing of the two
\* buffers in the middle of a byte, which every bit depends on.
BitsInv == TypeOK /\ TokenInv /\ BufferInv /\ DataInv /\ PrefixInv

\* Nothing was read or received at first,
LEMMA InitData == Init => DataInv
BY DEF Init, DataInv, Quiet, Ending, Between, ReceiverGone

\* nor written.
LEMMA InitPrefix == Init => PrefixInv
<1> SUFFICES ASSUME Init PROVE PrefixInv
  OBVIOUS
<1>1. file \in Seq(Bytes)
  BY SignalAssumption DEF Init
<1> QED BY <1>1 DEF Init, PrefixInv

\* What TokenInv excludes while one thing is under way.
LEMMA OneReason ==
    ASSUME TokenInv, ~ ReceiverGone
    PROVE  /\ rpc \in {"kick", "write", "deinit", "return"} =>
                /\ "USR1" \notin spending
                /\ spc \notin {"read", "pull", "reply", "terminate"}
                /\ "USR1" \notin rpending /\ "USR2" \notin rpending
                /\ "TERM" \notin rpending
           /\ spc \in {"read", "pull", "reply", "terminate"} =>
                /\ rpc \notin {"kick", "write", "deinit", "return"}
                /\ "USR1" \notin spending
                /\ "USR1" \notin rpending /\ "USR2" \notin rpending
                /\ "TERM" \notin rpending
           /\ \A sig \in Signals : sig \in rpending =>
                /\ rpc \notin {"kick", "write", "deinit", "return"}
                /\ "USR1" \notin spending
                /\ spc \notin {"read", "pull", "reply", "terminate"}
                /\ \A other \in Signals \ {sig} : other \notin rpending
BY DEF TokenInv, Tokens, Token, Signals

\* Every step keeps the two buffers in step.
LEMMA NextData ==
    ASSUME TypeOK, TokenInv, BufferInv, DataInv, [Next]_vars
    PROVE  DataInv'
<1> SUFFICES ASSUME ~ ReceiverGone, ~ ReceiverGone' PROVE DataInv'
  <2>1. CASE ReceiverGone
    <3>1. ReceiverGone'
      BY <2>1 DEF Next, ReceiverStep, SenderStep, Finished, vars, rvars, svars,
         env,
         Kick, ReceiveBit, ReceiveTerm, Write, Deinit, ReceiverReturn, PeerDeath,
         ToldToExit, Asked, ReadByte, ReadEnd, Pull, Reply, ReplyFails, Terminate,
         PeerCheck, AlarmInSigwait, WriteFails, ReadFails, KillReceiver, KillSender,
         ReceiverExit, ReceiverGone
    <3> QED BY <3>1 DEF DataInv
  <2> QED BY <2>1 DEF DataInv
<1>0. ioErrors \in Nat
  BY SignalAssumption DEF TypeOK
<1>1. CASE Kick
  BY <1>1 DEF Kick, rvars, svars, env, DataInv, InByte, Between, Held, Quiet,
     Ending
<1>2. CASE ReceiveBit("USR1", 0)
  <2>1. /\ rpc = "wait" /\ "USR1" \in rpending /\ InByte(2 * rbuf + 0)
        /\ "USR1" \notin spending /\ "TERM" \notin rpending'
        /\ "USR1" \notin rpending' /\ "USR2" \notin rpending'
        /\ spc \notin {"read", "pull", "reply", "terminate"}
    BY <1>2, OneReason DEF ReceiveBit, DataInv, Signals
  <2>2. /\ file[pos] \in Bytes /\ pos \in 1 .. Len(file)
    BY <2>1, FileSound DEF InByte
  <2>3. IF HasTop(rbuf) THEN ShiftIn(rbuf, 0) = file[pos] /\ sbuf = EmptyOut
        ELSE ShiftIn(rbuf, 0) = 2 * rbuf + 0 /\ sbuf # EmptyOut
    BY <2>1, <2>2, SyncReceive DEF InByte, TypeOK
  <2>4. CASE HasTop(rbuf)
    <3>1. needByte /\ ~ Quiet' /\ ~ Ending' /\ Held'
      BY <1>2, <2>1, <2>3, <2>4 DEF ReceiveBit, rvars, svars, env, InByte,
         Held, Quiet, Ending, BufferInv
    <3> QED BY <1>2, <2>1, <2>4, <3>1 DEF ReceiveBit, rvars, svars, env, DataInv
  <2>5. CASE ~ HasTop(rbuf)
    <3>1. ~ needByte /\ ~ Ending' /\ InByte(rbuf)'
      BY <1>2, <2>1, <2>3, <2>5 DEF ReceiveBit, rvars, svars, env, InByte,
         Ending, BufferInv
    <3> QED BY <1>2, <2>1, <2>5, <3>1 DEF ReceiveBit, rvars, svars, env, DataInv
  <2> QED BY <2>4, <2>5
<1>3. CASE ReceiveBit("USR2", 1)
  <2>1. /\ rpc = "wait" /\ "USR2" \in rpending /\ InByte(2 * rbuf + 1)
        /\ "USR1" \notin spending /\ "TERM" \notin rpending'
        /\ "USR1" \notin rpending' /\ "USR2" \notin rpending'
        /\ spc \notin {"read", "pull", "reply", "terminate"}
    BY <1>3, OneReason DEF ReceiveBit, DataInv, Signals
  <2>2. /\ file[pos] \in Bytes /\ pos \in 1 .. Len(file)
    BY <2>1, FileSound DEF InByte
  <2>3. IF HasTop(rbuf) THEN ShiftIn(rbuf, 1) = file[pos] /\ sbuf = EmptyOut
        ELSE ShiftIn(rbuf, 1) = 2 * rbuf + 1 /\ sbuf # EmptyOut
    BY <2>1, <2>2, SyncReceive DEF InByte, TypeOK
  <2>4. CASE HasTop(rbuf)
    <3>1. needByte /\ ~ Quiet' /\ ~ Ending' /\ Held'
      BY <1>3, <2>1, <2>3, <2>4 DEF ReceiveBit, rvars, svars, env, InByte,
         Held, Quiet, Ending, BufferInv
    <3> QED BY <1>3, <2>1, <2>4, <3>1 DEF ReceiveBit, rvars, svars, env, DataInv
  <2>5. CASE ~ HasTop(rbuf)
    <3>1. ~ needByte /\ ~ Ending' /\ InByte(rbuf)'
      BY <1>3, <2>1, <2>3, <2>5 DEF ReceiveBit, rvars, svars, env, InByte,
         Ending, BufferInv
    <3> QED BY <1>3, <2>1, <2>5, <3>1 DEF ReceiveBit, rvars, svars, env, DataInv
  <2> QED BY <2>4, <2>5
<1>4. CASE ReceiveTerm
  BY <1>4, OneReason DEF ReceiveTerm, rvars, svars, env, DataInv, InByte,
     Between, Held, Quiet, Ending
<1>5. CASE Write
  <2>1. /\ "USR1" \notin spending /\ rpending' = rpending
        /\ "USR1" \notin rpending /\ "USR2" \notin rpending
        /\ "TERM" \notin rpending /\ needByte' /\ rpc' = "kick"
        /\ spc' \notin {"read", "pull", "reply", "terminate"}
    BY <1>5, OneReason DEF Write, rvars, svars, env, DataInv
  <2>2. Between'
    <3>1. Held
      BY <1>5 DEF Write, DataInv
    <3>2. Len(out') = Len(out) + 1
      BY <1>5, AppendProperties DEF Write, TypeOK
    <3> QED BY <1>5, <3>1, <3>2, FileSound DEF Write, rvars, svars, env, Held,
        Between
  <2>3. ~ Ending'
    BY <2>1 DEF Ending
  <2> QED BY <2>1, <2>2, <2>3 DEF DataInv
<1>6. CASE Deinit
  BY <1>6 DEF Deinit, ReceiverExit, ReceiverGone
<1>7. CASE ReceiverReturn
  BY <1>7 DEF ReceiverReturn, ReceiverExit, ReceiverGone
<1>8. CASE PeerDeath
  BY <1>8 DEF PeerDeath, ReceiverExit, ReceiverGone
<1>9. CASE ToldToExit
  BY <1>9 DEF ToldToExit, rvars, svars, env, SenderExit, DataInv, InByte,
     Between, Held, Quiet, Ending
<1>10. CASE Asked
  BY <1>10 DEF Asked, rvars, svars, env, DataInv, InByte, Between, Held, Quiet,
     Ending
<1>11. CASE ReadByte
  <2>1. /\ rpc \notin {"kick", "write", "return"} /\ "USR1" \notin spending
        /\ "USR1" \notin rpending /\ "USR2" \notin rpending /\ "TERM" \notin rpending
    BY <1>11, OneReason DEF ReadByte
  <2>2. Between
    BY <1>11 DEF ReadByte, DataInv, Quiet, BufferInv
  <2>3. ~ Quiet' /\ ~ Ending'
    BY <1>11, <2>1 DEF ReadByte, rvars, svars, env, Quiet, Ending
  <2>4. InByte(2 * rbuf + Token(sbit))'
    <3>1. file[pos + 1] \in Bytes
      BY <1>11, FileSound DEF ReadByte
    <3>2. Sync(file[pos + 1], 2 * EmptyIn + Token(HasTop(file[pos + 1])),
               ShiftIn(file[pos + 1], 1))
      BY <3>1, SyncRead
    <3> QED BY <1>11, <2>2, <3>2, FileSound DEF ReadByte, rvars, svars, env,
        Between, InByte
  <2> QED BY <1>11, <2>1, <2>3, <2>4 DEF ReadByte, rvars, svars, env, DataInv
<1>12. CASE ReadEnd
  BY <1>12 DEF ReadEnd, rvars, svars, env, BufferInv, DataInv, InByte, Between,
     Held, Quiet, Ending
<1>13. CASE Pull
  <2>1. /\ rpc \notin {"kick", "write", "return"} /\ "USR1" \notin spending
        /\ "USR1" \notin rpending /\ "USR2" \notin rpending /\ "TERM" \notin rpending
    BY <1>13, OneReason DEF Pull
  <2>2. InByte(rbuf)
    BY <1>13 DEF Pull, DataInv, Quiet, BufferInv
  <2>3. ~ Quiet' /\ ~ Ending'
    BY <1>13, <2>1 DEF Pull, rvars, svars, env, Quiet, Ending
  <2>4. InByte(2 * rbuf + Token(sbit))'
    <3>1. sbuf # EmptyOut /\ rbuf \in Nat /\ sbuf \in Bytes
      BY <1>13, TopSound DEF Pull, BufferInv, TypeOK, Bytes
    <3>2. Sync(file[pos], 2 * rbuf + Token(HasTop(sbuf)), ShiftIn(sbuf, 0))
      BY <2>2, <3>1, SyncPull DEF InByte
    <3> QED BY <1>13, <2>2, <3>2 DEF Pull, rvars, svars, env, InByte
  <2> QED BY <1>13, <2>1, <2>3, <2>4 DEF Pull, rvars, svars, env, DataInv
<1>14. CASE Reply
  <2>1. InByte(2 * rbuf + Token(sbit))
    BY <1>14 DEF Reply, DataInv
  <2>2. /\ Token(sbit) = IF sbit THEN 1 ELSE 0
        /\ Quiet' => Quiet
        /\ Ending' => Ending
        /\ "USR1" \in rpending' => "USR1" \in rpending \/ ~ sbit
        /\ "USR2" \in rpending' => "USR2" \in rpending \/ sbit
    BY <1>14 DEF Reply, rvars, svars, env, Quiet, Ending, Token
  <2> QED BY <1>14, <2>1, <2>2 DEF Reply, rvars, svars, env, DataInv, InByte,
      Between, Held
<1>15. CASE ReplyFails
  BY <1>15 DEF ReplyFails
<1>16. CASE Terminate
  BY <1>16 DEF Terminate, rvars, svars, env, SenderExit, DataInv, InByte,
     Between, Held, Quiet, Ending
<1>17. CASE PeerCheck
  BY <1>17 DEF PeerCheck
<1>18. CASE AlarmInSigwait
  BY <1>18 DEF AlarmInSigwait, rvars, svars, env, DataInv, InByte, Between,
     Held, Quiet, Ending
<1>19. CASE WriteFails
  BY <1>19, <1>0 DEF WriteFails, rvars, svars, env, DataInv, InByte, Between,
     Held, Quiet, Ending
<1>20. CASE ReadFails
  BY <1>20, <1>0 DEF ReadFails, rvars, svars, env, BufferInv, DataInv, InByte,
     Between, Held, Quiet, Ending
<1>21. CASE KillReceiver
  BY <1>21 DEF KillReceiver, ReceiverExit, ReceiverGone
<1>22. CASE KillSender
  BY <1>22 DEF KillSender, rvars, svars, env, DataInv, InByte, Between, Held,
     Quiet, Ending
<1>23. CASE UNCHANGED vars
  BY <1>23 DEF vars, DataInv, InByte, Between, Held, Quiet, Ending
<1> QED
  BY <1>1, <1>2, <1>3, <1>4, <1>5, <1>6, <1>7, <1>8, <1>9, <1>10, <1>11, <1>12,
     <1>13, <1>14, <1>15, <1>16, <1>17, <1>18, <1>19, <1>20, <1>21, <1>22,
     <1>23
  DEF Next, ReceiverStep, SenderStep, Finished

\* Only Write() adds to the output, the byte that was held, and only
\* ReceiverReturn() gives 0, after the sender's SIGTERM.
LEMMA NextPrefix ==
    ASSUME TypeOK, TokenInv, BufferInv, DataInv, PrefixInv, [Next]_vars
    PROVE  PrefixInv'
<1>0. ioErrors \in Nat /\ Len(out) \in Nat /\ Len(file) \in Nat
  BY SignalAssumption, FileSound DEF TypeOK
<1>1. CASE Kick
  BY <1>1 DEF Kick, rvars, svars, env, PrefixInv, ReceiverGone
<1>2. CASE ReceiveBit("USR1", 0)
  BY <1>2 DEF ReceiveBit, rvars, svars, env, PrefixInv, ReceiverGone
<1>3. CASE ReceiveBit("USR2", 1)
  BY <1>3 DEF ReceiveBit, rvars, svars, env, PrefixInv, ReceiverGone
<1>4. CASE ReceiveTerm
  BY <1>4 DEF ReceiveTerm, rvars, svars, env, PrefixInv, ReceiverGone
<1>5. CASE Write
  <2>1. Held /\ rstatus # "ok"
    BY <1>5 DEF Write, DataInv, PrefixInv, ReceiverGone
  <2>2. /\ Len(out') = Len(out) + 1
        /\ \A i \in 1 .. Len(out) : out'[i] = out[i]
        /\ out'[Len(out) + 1] = rbyte
    BY <1>5, AppendProperties DEF Write, TypeOK
  <2>3. file' = file /\ rstatus' = rstatus
    BY <1>5 DEF Write, env
  <2> QED BY <1>0, <2>1, <2>2, <2>3, FileSound DEF Held, PrefixInv
<1>6. CASE Deinit
  BY <1>6 DEF Deinit, ReceiverExit, rvars, svars, env, PrefixInv, ReceiverGone
<1>7. CASE ReceiverReturn
  <2>1. ioErrors = 0 => Len(out) = Len(file)
    BY <1>7 DEF ReceiverReturn, ReceiverGone, DataInv, Ending, Quiet, Between
  <2> QED BY <1>7, <2>1 DEF ReceiverReturn, ReceiverExit, ReceiverGone, rvars,
      svars, env, PrefixInv
<1>8. CASE PeerDeath
  BY <1>8 DEF PeerDeath, ReceiverExit, rvars, svars, env, PrefixInv,
     ReceiverGone
<1>9. CASE ToldToExit
  BY <1>9 DEF ToldToExit, rvars, svars, env, PrefixInv, ReceiverGone
<1>10. CASE Asked
  BY <1>10 DEF Asked, rvars, svars, env, PrefixInv, ReceiverGone
<1>11. CASE ReadByte
  BY <1>11 DEF ReadByte, rvars, svars, env, PrefixInv, ReceiverGone
<1>12. CASE ReadEnd
  BY <1>12 DEF ReadEnd, rvars, svars, env, PrefixInv, ReceiverGone
<1>13. CASE Pull
  BY <1>13 DEF Pull, rvars, svars, env, PrefixInv, ReceiverGone
<1>14. CASE Reply
  BY <1>14 DEF Reply, rvars, svars, env, PrefixInv, ReceiverGone
<1>15. CASE ReplyFails
  BY <1>15 DEF ReplyFails, rvars, svars, env, PrefixInv, ReceiverGone
<1>16. CASE Terminate
  BY <1>16 DEF Terminate, rvars, svars, env, PrefixInv, ReceiverGone
<1>17. CASE PeerCheck
  BY <1>17 DEF PeerCheck, rvars, svars, env, PrefixInv, ReceiverGone
<1>18. CASE AlarmInSigwait
  BY <1>18 DEF AlarmInSigwait, rvars, svars, env, PrefixInv, ReceiverGone
<1>19. CASE WriteFails
  BY <1>19, <1>0 DEF WriteFails, rvars, svars, env, PrefixInv, ReceiverGone
<1>20. CASE ReadFails
  BY <1>20, <1>0 DEF ReadFails, rvars, svars, env, PrefixInv, ReceiverGone
<1>21. CASE KillReceiver
  BY <1>21 DEF KillReceiver, ReceiverExit, rvars, svars, env, PrefixInv,
     ReceiverGone
<1>22. CASE KillSender
  BY <1>22 DEF KillSender, rvars, svars, env, PrefixInv, ReceiverGone
<1>23. CASE UNCHANGED vars
  BY <1>23 DEF vars, PrefixInv, ReceiverGone
<1> QED
  BY <1>1, <1>2, <1>3, <1>4, <1>5, <1>6, <1>7, <1>8, <1>9, <1>10, <1>11, <1>12,
     <1>13, <1>14, <1>15, <1>16, <1>17, <1>18, <1>19, <1>20, <1>21, <1>22,
     <1>23
  DEF Next, ReceiverStep, SenderStep, Finished

-----------------------------------------------------------------------------
(* Theorems *)

\* The invariant holds in every state of every behaviour.
THEOREM BitsInvariant == Spec => []BitsInv
<1>1. Init => BitsInv
  BY InitType, InitTokens, InitBuffer, InitData, InitPrefix DEF BitsInv
<1>2. BitsInv /\ [Next]_vars => BitsInv'
  BY NextType, NextTokens, NextBuffer, NextData, NextPrefix DEF BitsInv
<1> QED BY <1>1, <1>2, PTL DEF Spec

\* The questions and the answers of signal.c alternate: no signal is sent while
\* the same one is pending, so none is lost.
THEOREM OneSignalTheorem == Spec => []OneSignalUnderWay
<1>1. BitsInv => OneSignalUnderWay
  BY DEF BitsInv, TokenInv, Tokens, Token, OneSignalUnderWay
<1> QED BY <1>1, BitsInvariant, PTL

\* The asserts of bitwise_pull() and bitwise_pull_next_byte() never fire, and
\* every variable keeps its type: no shift leaves a byte.
THEOREM AssertsTheorem == Spec => []AssertsHold
<1>1. BitsInv => AssertsHold
  BY DEF BitsInv, BufferInv, AssertsHold
<1> QED BY <1>1, BitsInvariant, PTL

\* PrefixInv in terms of sequences.
LEMMA PrefixOfFile ==
    ASSUME BitsInv
    PROVE  /\ OutputIsPrefix
           /\ Len(out) = Len(file) => out = file
<1>1. /\ file \in Seq(Bytes) /\ out \in Seq(Bytes)
      /\ Len(file) \in Nat /\ Len(out) \in 0 .. Len(file)
      /\ \A i \in 1 .. Len(out) : out[i] = file[i]
  BY FileSound, LenProperties DEF BitsInv, TypeOK, PrefixInv
<1>2. /\ SubSeq(file, 1, Len(out)) \in Seq(Bytes)
      /\ Len(SubSeq(file, 1, Len(out))) = Len(out)
      /\ \A i \in 1 .. Len(out) : SubSeq(file, 1, Len(out))[i] = file[i]
  BY <1>1, SubSeqProperties
<1>3. out = SubSeq(file, 1, Len(out))
  BY <1>1, <1>2, SeqEqual
<1>4. Len(out) = Len(file) => out = file
  BY <1>1, SeqEqual
<1> QED BY <1>1, <1>3, <1>4 DEF OutputIsPrefix

\* Whatever dies or fails, the receiver's output is the beginning of the file,
\* in whole bytes that survived the shifts on both sides.
THEOREM PrefixTheorem == Spec => []OutputIsPrefix
BY PrefixOfFile, BitsInvariant, PTL

\* The receiver returns on SIGTERM without its check for leftover bits, rightly:
\* there are none, and with 0 it has the whole file unless a read() failed.
THEOREM SuccessTheorem == Spec => []SuccessIsComplete
<1>1. BitsInv => EndsOnByteBoundary
  BY DEF BitsInv, DataInv, Quiet, Ending, Between, ReceiverGone,
     EndsOnByteBoundary
<1>2. BitsInv => SuccessIsComplete
  BY <1>1, PrefixOfFile DEF BitsInv, PrefixInv, SuccessIsComplete
<1> QED BY <1>2, BitsInvariant, PTL
=============================================================================

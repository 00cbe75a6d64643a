--------------------------- MODULE DocumentQueue ----------------------------
(***************************************************************************)
(* What mpmc.c promises to somebody who sees neither threads nor slots: a  *)
(* first-in first-out buffer of Capacity documents into which every        *)
(* producer puts its documents in order, once each, and from which every   *)
(* document is delivered once, in the order of the puts.                   *)
(***************************************************************************)
EXTENDS Naturals, Sequences

CONSTANTS Producers, Amount, Capacity

VARIABLES
    buffer,     \* the documents between put and get, oldest first
    put,        \* how many documents each producer has put
    delivered   \* the documents got so far, in order

avars == <<buffer, put, delivered>>

AInit ==
    /\ buffer = << >>
    /\ put = [p \in Producers |-> 0]
    /\ delivered = << >>

Put(p) ==
    /\ put[p] < Amount
    /\ Len(buffer) < Capacity
    /\ buffer' = Append(buffer, [prod |-> p, doc |-> put[p]])
    /\ put' = [put EXCEPT ![p] = @ + 1]
    /\ UNCHANGED delivered

Get ==
    /\ buffer # << >>
    /\ delivered' = Append(delivered, Head(buffer))
    /\ buffer' = Tail(buffer)
    /\ UNCHANGED put

ANext == Get \/ \E p \in Producers : Put(p)

ASpec == AInit /\ [][ANext]_avars
=============================================================================

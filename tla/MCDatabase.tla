----------------------------- MODULE MCDatabase ------------------------------
(* Instances of Database for TLC. *)
EXTENDS Database

\* In two buckets the keys of A collide, and one is negative; those of B do not.
SmallRecords == {[A |-> a, B |-> b] : a \in {-2, 0}, b \in {0, 1}}
=============================================================================

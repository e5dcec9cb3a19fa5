-------------------------- MODULE MCCassandraUpdate --------------------------
(****************************************************************************)
(* Small instances of CassandraUpdate for TLC: jobs that select one record, *)
(* the case in which they can disturb each other.                           *)
(****************************************************************************)
EXTENDS CassandraUpdate, TLC

CONSTANTS a, b, r1, p1, p2

MCSelected == [o \in {a, b} |-> r1]

MCSymmetry == Permutations({p1, p2}) \cup Permutations({a, b})
=============================================================================

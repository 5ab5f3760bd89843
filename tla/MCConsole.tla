----------------------------- MODULE MCConsole -----------------------------
(* Console sessions by themselves, for TLC. *)
EXTENDS Console, TLC

(* Records and sessions are interchangeable: the code picks the first free *)
(* one only because it has to pick one.                                    *)
Symmetry == Permutations(Member) \cup Permutations(Session)

=============================================================================

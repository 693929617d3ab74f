-------------------------- MODULE MCAfterMessages --------------------------
(* AfterMessages for TLC.  Messages differ in nothing but their rows, and    *)
(* call slots are interchangeable, so both sets are symmetric.               *)
EXTENDS AfterMessages, TLC

Symmetry == Permutations(Msgs) \cup Permutations(Calls)

=============================================================================

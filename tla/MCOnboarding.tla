---------------------------- MODULE MCOnboarding -----------------------------
(* Requests, names and symmetries for the runs of Onboarding. *)
EXTENDS Onboarding, TLC

CONSTANTS p1, p2, r1, r2, i1, s1, s2, j1, n1, n2, n3

Symmetry == Permutations(PasswordReqs) \cup Permutations(RegisterReqs)
              \cup Permutations(SignupReqs) \cup Permutations(Names)
=============================================================================

--------------------------- MODULE MCAuthServices ----------------------------
(* The services for TLC: two users, two callers; the lockout lasts longer the  *)
(* second time; callers, users, sessions and tokens are interchangeable.        *)
EXTENDS AuthServices

TwoDurations == <<1, 3>>

Symmetry ==
    Permutations(Callers) \cup Permutations(Users) \cup Permutations(Sessions)
        \cup Permutations(Tokens)
=============================================================================

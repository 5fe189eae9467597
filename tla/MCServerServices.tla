-------------------------- MODULE MCServerServices ---------------------------
(* The services for TLC.  A failure makes a finding when it is repeated, an     *)
(* attack on first sight.  Users are interchangeable.  Two of the three contents   *)
(* differ only in where one field ends and the next begins.                     *)
EXTENDS ServerServices

Thresholds == [k \in Kinds |-> IF k = "failure" THEN 2 ELSE 1]

Events ==
    { [description |-> "ab", user |-> "c"], [description |-> "a", user |-> "bc"],
      [description |-> "a", user |-> "c"] }

JoinedText == [content \in Events |-> content.description \o content.user]

Symmetry == Permutations(Users)
=============================================================================

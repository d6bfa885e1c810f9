---------------------------- MODULE MCDocuments ----------------------------
(* Documents for TLC: two postings that say the same, or differ in the job    *)
(* description and so in the base resume; one is a tie broken by its title.  *)
EXTENDS Documents, TLC

CONSTANTS chat, h1, h2, p1, p2, t1, other

MCText ==
  {[place |-> "acme swe", jd |-> 1, ml |-> 0, swe |-> 1, mlTitle |-> FALSE],
   [place |-> "acme swe", jd |-> 2, ml |-> 1, swe |-> 1, mlTitle |-> TRUE]}

MCSlices == [f \in Feature |-> IF f = draft THEN 1 ELSE 0]
MCRequests == [b \in BOOLEAN |-> IF b THEN 2 ELSE 4]

Handlers == Permutations({h1, h2})
=============================================================================

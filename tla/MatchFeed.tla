----------------------------- MODULE MatchFeed -----------------------------
(***************************************************************************)
(* What discovery promises about announcements, whatever runs concurrently:  *)
(* a posting is announced only once it is stored, at most once ever, and a   *)
(* stored posting is never forgotten - which is what keeps the promise for   *)
(* a posting the boards go on listing.                                      *)
(***************************************************************************)
EXTENDS Naturals

CONSTANT Item

VARIABLES stored,    \* items on record
          announced  \* how many announcements each item has had

feedVars == <<stored, announced>>

FeedInit == stored = {} /\ announced = [i \in Item |-> 0]

Store(S) ==
  /\ stored' = stored \cup S
  /\ UNCHANGED announced

Announce(S) ==
  /\ S \subseteq stored
  /\ \A i \in S : announced[i] = 0
  /\ announced' = [i \in Item |-> IF i \in S THEN 1 ELSE announced[i]]
  /\ UNCHANGED stored

FeedNext == \E S \in SUBSET Item : Store(S) \/ Announce(S)

FeedSpec == FeedInit /\ [][FeedNext]_feedVars
=============================================================================

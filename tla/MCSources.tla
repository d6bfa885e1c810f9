----------------------------- MODULE MCSources -----------------------------
(***************************************************************************)
(* Sources for TLC.  Three boards and one list of links: greenhouse is in the file   *)
(* and may be tracked, lever is in the catalog, and the smartrecruiters      *)
(* board is nobody's until a pass learns it, from a company name or from     *)
(* another user.  The list repeats a greenhouse job and the lever one.       *)
(* The profiles are those of the ranking mode: one to five skills  *)
(* beside a role, at every level.                                           *)
(***************************************************************************)
EXTENDS Sources, TLC

CONSTANTS acme, bolt, dash

Gh == [source |-> "greenhouse", token |-> 1]
Lv == [source |-> "lever", token |-> 1]
Sr == [source |-> "smartrecruiters", token |-> 1]
Swe == [source |-> "swelist", token |-> 1]

MCHolds == (Gh :> {acme}) @@ (Lv :> {bolt}) @@ (Sr :> {dash}) @@ (Swe :> {bolt})
MCHome == (acme :> Gh) @@ (bolt :> Lv) @@ (dash :> Sr)
MCFile == Gh :> 1
MCSectors == Lv :> {"software"}
MCCatalog == <<Lv>>
MCName == <<"dash">>
MCTrackable == {Gh}
MCFeed == {Swe}
MCAtsLinks == {Swe}
MCElsewhere == {Sr}
MCSlug == "dash" :> Sr

Plain(company, title, body, posted) ==
  [company |-> company, title |-> title, body |-> body, place |-> <<"remote">>, years |-> 0,
   degree |-> FALSE, credential |-> FALSE, tells |-> {}, age |-> 1, posted |-> posted]

MCAd ==
  (acme :> Plain("acme", <<"software", "engineer">>, <<"go", "sql">>, 1))
  @@ (bolt :> [Plain("bolt", <<"software", "engineer", "intern">>, <<"rust">>, 2)
               EXCEPT !.years = 3, !.age = 30])
  @@ (dash :> Plain("dash", <<"senior", "software", "engineer">>, <<"sql", "go">>, 4))

MCSynonyms == "swe" :> {<<"software", "engineer">>}
MCLevel == [intern |-> 1, junior |-> 1, senior |-> 3, staff |-> 4]
MCSectorWord == "software" :> {"software"}

Me(skills, seniority) ==
  [roles |-> {<<"software", "engineer">>}, keywords |-> skills, places |-> {<<"remote">>},
   seniority |-> seniority, summary |-> <<>>]

Skills == {<<"go">>, <<"sql">>, <<"rust">>, <<"java">>, <<"aws">>}

MCFirst == Me({<<"go">>}, <<"senior">>)

MCProfiles == {Me(s, <<l>>) : s \in SUBSET Skills, l \in {"junior", "senior", "staff"}}
=============================================================================

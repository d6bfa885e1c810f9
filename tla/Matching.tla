------------------------------ MODULE Matching ------------------------------
(***************************************************************************)
(* What discovery decides about one posting without paying for it: does it  *)
(* look real (quality, ghost), could this person be considered (eligibility),*)
(* does it mention what they want (matcher.prefilter), how well does it fit  *)
(* (the keyword heuristic), and which of two should be scored first          *)
(* (shortlist).  A text is a sequence of words and a term a short sequence,  *)
(* so a whole-word search is a search for a factor.  Scores are exact, in    *)
(* units of 1/One; the rounding to three decimals is left out.               *)
(***************************************************************************)
EXTENDS Integers, Sequences, FiniteSets, FiniteSetsExt, Functions

CONSTANTS Stopword,   \* seniority and filler words no match may rest on
          Generic,    \* words that only count inside a phrase, or too short to
                      \* be searched for alone
          Synonyms,   \* word -> phrases it also stands for
          LevelOf,    \* word of a title or profile -> rung 1..4, others absent
          TechWord,   \* words that make a title or profile technical
          OtherWord,  \* words of a clearly non-technical field
          TitleNoise  \* words that do not tell two titles apart

One == 60000

TermIn(term, text) ==
  \E i \in 1..Len(text) : i + Len(term) - 1 <= Len(text)
                          /\ SubSeq(text, i, i + Len(term) - 1) = term

EndsWith(phrase, w) == Len(phrase) > 1 /\ phrase[Len(phrase)] = w

Stem(phrase) == SubSeq(phrase, 1, Len(phrase) - 1)

(* "intern" stands for internship, co-op and coop too. *)
InternVariants(phrase) ==
  IF EndsWith(phrase, "engineer")
  THEN {Stem(phrase) \o tail : tail \in
          {<<"engineering">>, <<"engineer", "intern">>, <<"engineering", "intern">>}}
  ELSE {}

RoleVariants(phrase) ==
  {phrase} \cup InternVariants(phrase)
  \cup IF EndsWith(phrase, "intern")
       THEN {Stem(phrase) \o tail : tail \in
               {<<"engineering", "intern">>, <<"engineer", "intern">>}}
       ELSE {}

Terms(prof) == prof.roles \cup prof.keywords

MatchTerms(prof) ==
  UNION {LET sig == SelectSeq(c, LAMBDA w : w \notin Stopword)
             extra == UNION {Synonyms[w] : w \in Range(sig) \cap DOMAIN Synonyms}
         IN  (IF Len(sig) >= 2 THEN {sig} \cup InternVariants(sig) ELSE {})
             \cup {<<w>> : w \in Range(sig) \ Generic}
             \cup extra \cup UNION {InternVariants(e) : e \in extra}
         : c \in Terms(prof)}

Haystack(ad) == ad.title \o ad.place \o ad.body

(* matcher.prefilter keeps an ad that mentions any of the terms. *)
Mentioned(ad, prof) ==
  MatchTerms(prof) = {} \/ \E t \in MatchTerms(prof) : TermIn(t, Haystack(ad))

Saturation == 4

(* Mutated form of Coverage: the ratio of all skills, without the cap. *)
CoverageOfAll(skills, text) ==
  (One * Cardinality({t \in skills : TermIn(t, text)})) \div Cardinality(skills)

Coverage(skills, text) ==
  LET matched == Cardinality({t \in skills : TermIn(t, text)})
      needed  == Min({Cardinality(skills), Saturation})
  IN  Min({One, (One * matched) \div needed})

TitleFocus(forms, title) ==
  LET found == {Len(f) : f \in {g \in forms : TermIn(g, title)}}
  IN  IF title = <<>> \/ found = {} THEN 0
      ELSE Min({One, (One * Max(found)) \div Len(title)})

RoleComponent(forms, ad) ==
  IF \E f \in forms : TermIn(f, ad.title) THEN One
  ELSE IF \E f \in forms : TermIn(f, Haystack(ad)) THEN (45 * One) \div 100
  ELSE 0

Base(ad, prof) ==
  LET skills == prof.keywords \ prof.roles
      forms  == UNION {RoleVariants(r) : r \in prof.roles}
      role   == RoleComponent(forms, ad)
  IN  IF prof.roles # {}
      THEN IF skills # {}
           THEN (role + Coverage(skills, Haystack(ad))) \div 2
           ELSE (role + TitleFocus(forms, ad.title)) \div 2
      ELSE IF skills # {} THEN Coverage(skills, Haystack(ad))
      ELSE One \div 2

PlaceBonus(ad, prof) ==
  IF prof.places = {} THEN 0
  ELSE IF \E l \in prof.places : TermIn(l, Haystack(ad)) THEN (15 * One) \div 100
  ELSE IF TermIn(<<"remote">>, Haystack(ad)) THEN (5 * One) \div 100
  ELSE -((15 * One) \div 100)

HeuristicScore(ad, prof) == Max({0, Min({One, Base(ad, prof) + PlaceBonus(ad, prof)})})

(***************************************************************************)
(* eligibility                                                             *)
(***************************************************************************)
Ranks(words) == {LevelOf[w] : w \in words \cap DOMAIN LevelOf}

WordsOf(clauses) == UNION {Range(c) : c \in clauses}

(* seniority, then roles, then the resume summary; entry level if none says. *)
CandidateRank(prof) ==
  LET said == {s \in {Range(prof.seniority), WordsOf(prof.roles), Range(prof.summary)} :
                 Ranks(s) # {}}
  IN  IF Ranks(Range(prof.seniority)) # {} THEN Max(Ranks(Range(prof.seniority)))
      ELSE IF Ranks(WordsOf(prof.roles)) # {} THEN Max(Ranks(WordsOf(prof.roles)))
      ELSE IF said # {} THEN Max(Ranks(Range(prof.summary)))
      ELSE 1

RoleRank(title) == IF Ranks(Range(title)) = {} THEN 2 ELSE Max(Ranks(Range(title)))

LooksTechnical(prof) ==
  LET blob == WordsOf(Terms(prof)) \cup Range(prof.seniority) \cup Range(prof.summary)
  IN  blob \cap TechWord # {} \/ blob \cap OtherWord = {}

OutOfField(title) == Range(title) \cap OtherWord # {} /\ Range(title) \cap TechWord = {}

Eligible(ad, prof) ==
  /\ RoleRank(ad.title) - CandidateRank(prof) < 2
  /\ ad.years < 4 + 3 * (CandidateRank(prof) - 1)
  /\ ~(LooksTechnical(prof) /\ (ad.credential \/ OutOfField(ad.title)))
  /\ ~ad.degree

(***************************************************************************)
(* quality and ghost.  "tells" are the phrases found in an ad's text.        *)
(***************************************************************************)
FirstParty == {"greenhouse", "lever", "ashby", "workable", "smartrecruiters",
               "workday", "amazon", "netflix", "usajobs"}

Preferred == FirstParty \cup {"swelist"}

Reputable(source, ad) ==
  source \in FirstParty \/ ad.tells \cap {"placeholder", "nolink", "spam", "thread"} = {}

SameJob(ad, other) ==
  LET core(t) == SelectSeq(t, LAMBDA w : w \notin TitleNoise)
  IN  ad.company = other.company /\ core(ad.title) = core(other.title)

(* posting_match.titles_similar, with the company: looser than SameJob. *)
Similar(ad, other) ==
  LET words(t) == LET w == Range(t) \ TitleNoise
                  IN  w \cup UNION {WordsOf(Synonyms[x]) : x \in w \cap DOMAIN Synonyms}
      a == words(ad.title)
      b == words(other.title)
  IN  /\ ad.company = other.company
      /\ \/ TermIn(ad.title, other.title) \/ TermIn(other.title, ad.title)
         \/ /\ a # {} /\ b # {}
            /\ \/ Cardinality(a \cap b) >= 2
               \/ 2 * Cardinality(a \cap b) >= Cardinality(a \cup b)

(* quality.dedupe: of one job that arrives from several sources the first     *)
(* preferred source wins, or the first of all if none is preferred.  "before" *)
(* is the order the postings arrived in.                                     *)
Winner(copies, before(_, _)) ==
  LET direct == {c \in copies : c.source \in Preferred}
      pool   == IF direct = {} THEN copies ELSE direct
  IN  CHOOSE c \in pool : \A d \in pool \ {c} : before(c, d)

Weight == [notajob |-> 60, evergreen |-> 60, bump |-> 40, email |-> 60, hype |-> 50,
           stale |-> 40, thin |-> 25]

GhostScore(source, ad, reposts) ==
  IF "closed" \in ad.tells THEN 100
  ELSE LET heard == ad.tells \cap (IF source \in FirstParty
                                   THEN {"notajob", "evergreen", "bump"} ELSE DOMAIN Weight)
           again == IF source \in FirstParty THEN 0
                    ELSE IF reposts >= 3 THEN 60 ELSE IF reposts = 2 THEN 30 ELSE 0
       IN  Min({100, again + MapThenSumSet(LAMBDA t : Weight[t], heard)})

Ghost(source, ad, reposts) == GhostScore(source, ad, reposts) >= 60

(* shortlist.rank_tuple with the score left at 0, as the discovery cap sorts. *)
FillableSources == {"greenhouse", "lever", "ashby"}

(* An age nobody stated sorts as 9999 days and is not fresh. *)
Outranks(a, b) ==
  LET key(p) == <<IF p.ats \in FillableSources THEN 1 ELSE 0,
                  IF p.source \in FirstParty THEN 1 ELSE 0,
                  IF p.age <= 2 THEN 1 ELSE 0,
                  -p.age>>
  IN  \E i \in 1..4 : key(a)[i] > key(b)[i] /\ \A j \in 1..(i - 1) : key(a)[j] = key(b)[j]
=============================================================================

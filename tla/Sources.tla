------------------------------ MODULE Sources ------------------------------
(***************************************************************************)
(* Where postings come from.  One user's discovery pass polls the boards the *)
(* user tracks, the next slice of a rotating directory of boards, and the    *)
(* wide feeds; learns new boards from what it sees and from the catalog of   *)
(* company names; and sends what it has not stored before through the gates  *)
(* of Matching.  Meanwhile openings appear, close and vanish, the user       *)
(* tracks boards and pastes links, other users' passes learn boards, any     *)
(* fetch may come back empty, and the process may stop between two steps.    *)
(* A place (board or feed) is a record of source and token; tokens are        *)
(* numbers in their sorted order.                                           *)
(***************************************************************************)
EXTENDS Matching, Ordering

CONSTANTS Opening, Ad,     \* openings and the text each is advertised with
          Holds,           \* place -> the openings it advertises while open
          Home,            \* opening -> the board its apply URL is on
          FileBoard,       \* data/ats_boards.json: board -> place in its list
          Catalog,         \* the catalog's boards, in its order
          SectorsOf,       \* board -> sectors, where the catalog tags it
          Name, SlugBoard, \* catalog names, and the boards their slugs hit
          Trackable,       \* places the user may track
          Feed, AtsLinks,  \* the wide feeds this profile pulls, and those
                           \* whose links lead to the company's own board
          Elsewhere,       \* boards other users' passes may learn
          Unborn, Mortal,  \* openings that may still appear, and that may end
          Pasted,          \* openings whose link may be pasted
          Industry,        \* _EMPLOYER_INDUSTRIES
          SectorWord,      \* word -> sectors it stands for
          Profiles, FirstProfile,
          BoardsPerTick, NamesPerTick, MaxScored, Threshold,
          MaxStops,        \* bound: passes that die before they end
          NoBoard

AtsSources == <<"greenhouse", "lever", "ashby", "workable", "smartrecruiters">>

Wide == {"rss", "directory", "swelist", "yc", "amazon", "netflix", "usajobs"}

Board == {b \in DOMAIN Holds : b.source \notin Wide}

(* The boards the directory can poll and an apply URL can lead to. *)
AtsBoard == {b \in DOMAIN Holds : b.source \in Range(AtsSources)}

ASSUME SourcesAssumption ==
  /\ IsFiniteSet(Opening) /\ IsFiniteSet(DOMAIN Holds)
  /\ DOMAIN Holds \subseteq [source : STRING, token : Nat]
  /\ \A p \in DOMAIN Holds : Holds[p] \subseteq Opening
  \* An opening is advertised in one place of a source.
  /\ \A p, q \in DOMAIN Holds : p.source = q.source /\ Holds[p] \cap Holds[q] # {} => p = q
  /\ \A o \in Opening : Ad[o].age \in Int /\ Ad[o].posted \in Int
  \* "posted" is where the ad comes among those fetched with it.
  /\ \A o, q \in Opening : Ad[o].posted = Ad[q].posted => o = q
  /\ Feed \subseteq {p \in DOMAIN Holds : p.source \in Wide}
  /\ Trackable \subseteq DOMAIN Holds /\ Elsewhere \subseteq AtsBoard
  /\ Catalog \in Seq(AtsBoard) /\ Name \in Seq(Range(Name))
  /\ \A o \in Opening : Home[o] \in AtsBoard \cup {NoBoard}
  /\ \A n \in Range(Name) : SlugBoard[n] \in AtsBoard \cup {NoBoard}
  \* Each source's boards in the file are numbered from 1.
  /\ DOMAIN FileBoard \subseteq AtsBoard
  /\ \A b \in DOMAIN FileBoard :
       /\ FileBoard[b] \in 1..Cardinality({c \in DOMAIN FileBoard : c.source = b.source})
       /\ \A c \in DOMAIN FileBoard : c.source = b.source /\ FileBoard[c] = FileBoard[b] => c = b
  /\ \A q \in Profiles \cup {FirstProfile} : IsFiniteSet(q.keywords)
  /\ BoardsPerTick \in Nat \ {0} /\ NamesPerTick \in Nat \ {0}
  /\ MaxScored \in Nat /\ MaxStops \in Nat

VARIABLES life,     \* opening -> "unborn", "open", "closed" (listed, link dead), "gone"
          tracked,  \* tracked_companies
          learned,  \* directory_learned_boards
          cursor,   \* discovery_cursors: the directory's, for these sectors
          probed,   \* discovery_cursors: the catalog probe's
          rows,     \* job_postings
          profile,
          pc, selected, fresh, seen, \* the pass: where it is, boards of its slice,
                                     \* postings collected, keys already taken
          answered, \* places that answered the last fetch
          seeding,  \* places tracked whose backlog is not stored yet
          about, stops

pass == <<pc, selected, fresh, seen, answered>>
world == <<life, tracked, learned, rows, profile, seeding, about, stops>>
vars == <<life, tracked, learned, cursor, probed, rows, profile, pass, seeding, about, stops>>

Min2(a, b) == IF a < b THEN a ELSE b

SourceRank(b) == CHOOSE i \in DOMAIN AtsSources : AtsSources[i] = b.source

Listed(p) == {o \in Holds[p] : life[o] \in {"open", "closed"}}

(***************************************************************************)
(* The rotation.                                                           *)
(***************************************************************************)
(* Occupation searches rotate software boards too; an industry search stays *)
(* in its industry.                                                        *)
DirectorySectors(prof) ==
  LET blob == WordsOf(Terms(prof)) \cup Range(prof.seniority) \cup Range(prof.summary)
      hits == UNION {SectorWord[w] : w \in blob \cap DOMAIN SectorWord}
  IN  IF hits \cap Industry # {} THEN hits ELSE hits \cup {"software"}

InSector(b, prof) ==
  (IF b \in DOMAIN SectorsOf THEN SectorsOf[b] ELSE {"software"})
    \cap DirectorySectors(prof) # {}

(* A source's list: the file's boards, then the learned ones by token. *)
ListPlace(b) ==
  IF b \in DOMAIN FileBoard THEN FileBoard[b]
  ELSE Cardinality({c \in DOMAIN FileBoard : c.source = b.source})
       + Cardinality({c \in learned \ DOMAIN FileBoard :
                        c.source = b.source /\ c.token <= b.token})

CatalogPlace(b) == CHOOSE i \in DOMAIN Catalog : Catalog[i] = b

(* Round robin over the sources' lists, and after them the catalog's other boards. *)
Sooner(a, b) ==
  LET known == DOMAIN FileBoard \cup learned
  IN  IF b \in known
      THEN /\ a \in known
           /\ \/ ListPlace(a) < ListPlace(b)
              \/ ListPlace(a) = ListPlace(b) /\ SourceRank(a) < SourceRank(b)
      ELSE a \in known \/ CatalogPlace(a) < CatalogPlace(b)

Directory ==
  Ordered({b \in DOMAIN FileBoard \cup learned \cup Range(Catalog) : InSector(b, profile)}, Sooner)

(***************************************************************************)
(* Identity.  A tracked copy's id carries its board, in lower case; a        *)
(* directory copy's carries the board as it is written; a feed's is bare.    *)
(***************************************************************************)
Bare(p, o) == [source |-> p.source, form |-> "bare", token |-> 0, opening |-> o]

Cased == {"smartrecruiters", "workday"}

(* Mutated form of Id: a tracked posting keeps the id its board gave it. *)
IdBare(c) ==
  IF c.via = "tracked" \/ c.place \in Feed THEN Bare(c.place, c.opening)
  ELSE [source |-> c.place.source, token |-> c.place.token, opening |-> c.opening,
        form |-> IF c.place.source \in Cased THEN "Board" ELSE "board"]

Id(c) ==
  IF c.via = "wide" /\ c.place \in Feed THEN Bare(c.place, c.opening)
  ELSE [source |-> c.place.source, token |-> c.place.token, opening |-> c.opening,
        form |-> IF c.via = "wide" /\ c.place.source \in Cased THEN "Board" ELSE "board"]

Exists(id) == \E r \in rows : r.id = id

Copies(via, places) ==
  UNION {{[via |-> via, place |-> p, opening |-> o] : o \in Listed(p)} : p \in places}

Fits(o) == HeuristicScore(Ad[o], profile) >= Threshold

Row(id, how) == [id |-> id, how |-> how, good |-> how = "paste" \/ (how = "pass" /\ Fits(id.opening))]

Insert(ids, how) == rows \cup {Row(i, how) : i \in {j \in ids : ~Exists(j)}}

(***************************************************************************)
(* The world around a pass.                                                 *)
(***************************************************************************)
Appear(o) ==
  /\ about = "pipeline" /\ life[o] = "unborn"
  /\ life' = [life EXCEPT ![o] = "open"]
  /\ UNCHANGED <<tracked, learned, cursor, probed, rows, profile, pass, seeding, about, stops>>

Ends(o, how) ==
  /\ \/ how = "closed" /\ life[o] = "open"
     \/ how = "gone" /\ life[o] \in {"open", "closed"}
  /\ life' = [life EXCEPT ![o] = how]
  /\ UNCHANGED <<tracked, learned, cursor, probed, rows, profile, pass, seeding, about, stops>>

(* "track openings at ...": the board first, its backlog after. *)
Track(p) ==
  /\ p \notin tracked
  /\ tracked' = tracked \cup {p}
  /\ seeding' = IF p.source \in Wide THEN seeding ELSE seeding \cup {p}
  /\ UNCHANGED <<life, learned, cursor, probed, rows, profile, pass, about, stops>>

(* seed_board; "got": the fetch came back with the board's postings. *)
Seed(p, got) ==
  LET backlog == {o \in Listed(p) : got /\ ~Exists(Bare(p, o))}
  IN  /\ p \in seeding
      /\ seeding' = seeding \ {p}
      /\ rows' = Insert({Id(c) : c \in {d \in Copies("tracked", {p}) : d.opening \in backlog}},
                        "seed")
      /\ UNCHANGED <<life, tracked, learned, cursor, probed, profile, pass, about, stops>>

Untrack(p) ==
  /\ p \in tracked /\ p \notin seeding
  /\ tracked' = tracked \ {p}
  /\ UNCHANGED <<life, learned, cursor, probed, rows, profile, pass, seeding, about, stops>>

(* A pasted link is stored under the id in its URL. *)
Paste(o) ==
  /\ life[o] \in {"open", "closed"} /\ Home[o] # NoBoard
  /\ rows' = Insert({Bare(Home[o], o)}, "paste")
  /\ UNCHANGED <<life, tracked, learned, cursor, probed, profile, pass, seeding, about, stops>>

LearnElsewhere(b) ==
  /\ about = "pipeline" /\ b \notin learned /\ Listed(b) # {}
  /\ learned' = learned \cup {b}
  /\ UNCHANGED <<life, tracked, cursor, probed, rows, profile, pass, seeding, about, stops>>

EditProfile(q) ==
  /\ about = "ranking"
  /\ profile' = q
  /\ UNCHANGED <<life, tracked, learned, cursor, probed, rows, pass, seeding, about, stops>>

(***************************************************************************)
(* The pass.                                                               *)
(***************************************************************************)
(* The sector's company names whose board the catalog does not know. *)
Unplaced ==
  LET places == Ordered({i \in DOMAIN Name : SlugBoard[Name[i]] \notin Range(Catalog)}, <)
  IN  [k \in DOMAIN places |-> Name[places[k]]]

(* catalog_probe: the next names, each of which may turn out to be a board   *)
(* with openings on it.  The cursor moves after the fetches; a probe that     *)
(* raises leaves it where it was.                                          *)
Probe(hits) ==
  LET names == Unplaced
      size  == Len(names)
      batch == {names[((probed + i) % size) + 1] : i \in 0..(Min2(NamesPerTick, size) - 1)}
  IN  /\ about = "pipeline" /\ pc = "idle"
      /\ IF size = 0 THEN hits = {} /\ UNCHANGED <<learned, probed>>
         ELSE /\ hits \subseteq {SlugBoard[n] : n \in {m \in batch : SlugBoard[m] # NoBoard
                                                       /\ Listed(SlugBoard[m]) # {}}}
              /\ learned' = learned \cup hits
              /\ probed' \in {probed, ((probed % size) + NamesPerTick) % size}
      /\ pc' = "tracked"
      /\ UNCHANGED <<life, tracked, rows, profile, seeding, about, stops, cursor, selected, fresh, seen, answered>>

(* "up": the places whose fetch came back with something.  A posting stored  *)
(* under its bare id (a pasted link) is skipped here and only here.         *)
FetchTracked(up) ==
  LET got == {c \in Copies("tracked", tracked \cap up) : ~Exists(Bare(c.place, c.opening))}
  IN  /\ pc = "tracked"
      /\ fresh' = got
      /\ seen' = {Bare(c.place, c.opening) : c \in got}
      /\ pc' = "rotate" /\ answered' = up
      /\ UNCHANGED <<world, cursor, probed, selected>>

(* Mutated form of Rotate: the cursor wraps at the length of the file's list, *)
(* not of the list with the learned boards in it.                            *)
RotateFile ==
  LET list == Directory
      size == Len(list)
      start == cursor % Cardinality(DOMAIN FileBoard)
  IN  /\ pc = "rotate" /\ size > 0
      /\ selected' = {list[((start + i) % size) + 1] : i \in 0..(BoardsPerTick - 1)}
      /\ cursor' = start + BoardsPerTick
      /\ pc' = "wide"
      /\ UNCHANGED <<world, probed, fresh, seen, answered>>

(* The cursor has moved past the slice before its first board is fetched. *)
Rotate ==
  LET list == Directory
      size == Len(list)
      start == cursor % size
  IN  /\ pc = "rotate"
      /\ IF size = 0 THEN selected' = {} /\ UNCHANGED cursor
         ELSE /\ selected' = {list[((start + i) % size) + 1] : i \in 0..(BoardsPerTick - 1)}
              /\ cursor' = start + BoardsPerTick
      /\ pc' = "wide"
      /\ UNCHANGED <<world, probed, fresh, seen, answered>>

LinksHome(c) == Home[c.opening] # NoBoard /\ (c.place \in Feed => c.place \in AtsLinks)

(* learn_from_postings keeps the boards behind the apply URLs; one that is in *)
(* the file already changes nothing and is left out.                        *)
FetchWide(up) ==
  LET incoming == Copies("wide", (Feed \cup selected) \cap up)
      key(c) == IF c.place \in Feed THEN Bare(c.place, c.opening) ELSE Id(c)
  IN  /\ pc = "wide"
      /\ learned' = learned \cup ({Home[c.opening] : c \in {d \in incoming : LinksHome(d)}} \ DOMAIN FileBoard)
      /\ fresh' = fresh \cup {c \in incoming : key(c) \notin seen}
      /\ seen' = {}
      /\ pc' = "judge" /\ answered' = up
      /\ UNCHANGED <<life, tracked, rows, profile, seeding, about, stops, cursor, probed, selected>>

(* tracked boards, RSS, the directory, then the other feeds. *)
Arrival(c) == IF c.via = "tracked" THEN 1 ELSE IF c.place.source = "rss" THEN 2
              ELSE IF c.place \in Board THEN 3 ELSE 4

As(c) == [source |-> c.place.source, age |-> Ad[c.opening].age,
          ats |-> IF LinksHome(c) THEN Home[c.opening].source ELSE "none"]

Deduped(S) ==
  {c \in S :
     c.place.source = Winner({[source |-> d.place.source, at |-> Arrival(d)] :
                                d \in {e \in S : SameJob(Ad[c.opening], Ad[e.opening])}},
                             LAMBDA d, e : d.at < e.at).source}

Reposts(o) == Cardinality({r \in rows : Similar(Ad[o], Ad[r.id.opening])})

(* Mutated form of Gated: what is stored is told apart only when it is saved. *)
GatedAll(S) ==
  LET real   == Deduped({c \in S : Reputable(c.place.source, Ad[c.opening])})
  IN  {c \in real : /\ ~Ghost(c.place.source, Ad[c.opening], Reposts(c.opening))
                    /\ Eligible(Ad[c.opening], profile)
                    /\ Mentioned(Ad[c.opening], profile)}

(* Everything a pass lets through to the scorer, before the cap. *)
Gated(S) ==
  LET real   == Deduped({c \in S : ~Exists(Id(c)) /\ Reputable(c.place.source, Ad[c.opening])})
  IN  {c \in real : /\ ~Ghost(c.place.source, Ad[c.opening], Reposts(c.opening))
                    /\ Eligible(Ad[c.opening], profile)
                    /\ Mentioned(Ad[c.opening], profile)}

Before(c, d) == \/ Outranks(As(c), As(d))
                \/ ~Outranks(As(d), As(c)) /\ Arrival(c) < Arrival(d)
                \/ ~Outranks(As(d), As(c)) /\ Arrival(c) = Arrival(d) /\ Ad[c.opening].posted < Ad[d.opening].posted

(* Mutated form of Capped: one more than the scorer is paid for. *)
CappedOver(S) == {c \in S : Cardinality({d \in S : Before(d, c)}) <= MaxScored}

Capped(S) == {c \in S : Cardinality({d \in S : Before(d, c)}) < MaxScored}

(* alive.filter_open looks at the capped ones only and lets through a link it *)
(* cannot decide: "dead" are those it found closed.                          *)
Judge(dead) ==
  LET capped == Capped(Gated(fresh))
  IN  /\ pc = "judge"
      /\ dead \subseteq capped
      /\ fresh' = capped \ dead
      /\ pc' = IF capped = dead THEN "idle" ELSE "save"
      /\ selected' = {} /\ answered' = {}
      /\ UNCHANGED <<world, cursor, probed, seen>>

Save(c) ==
  /\ pc = "save" /\ c \in fresh
  /\ rows' = Insert({Id(c)}, "pass")
  /\ fresh' = fresh \ {c}
  /\ pc' = IF fresh = {c} THEN "idle" ELSE "save"
  /\ UNCHANGED <<life, tracked, learned, profile, seeding, about, stops, cursor, probed, selected, seen, answered>>

(* A pass raises, or the process stops; what it committed stays. *)
Stop ==
  /\ stops < MaxStops /\ pc # "idle"
  /\ stops' = stops + 1
  /\ pc' = "idle" /\ selected' = {} /\ fresh' = {} /\ seen' = {} /\ answered' = {}
  /\ UNCHANGED <<life, tracked, learned, rows, profile, seeding, about, cursor, probed>>

PassStep ==
  \/ \E hits \in SUBSET Range([n \in Range(Name) |-> SlugBoard[n]]) : Probe(hits)
  \/ \E up \in SUBSET tracked : FetchTracked(up)
  \/ Rotate
  \/ \E up \in SUBSET (Feed \cup selected) : FetchWide(up)
  \/ \E dead \in SUBSET {c \in fresh : life[c.opening] # "open"} : Judge(dead)
  \/ \E c \in fresh : Save(c)

Around ==
  \/ \E o \in Unborn : Appear(o)
  \/ \E o \in Mortal, how \in {"closed", "gone"} : Ends(o, how)
  \/ \E p \in Trackable : Track(p) \/ Untrack(p)
  \/ \E p \in seeding, got \in BOOLEAN : Seed(p, got)
  \/ \E o \in Pasted : Paste(o)
  \/ \E b \in Elsewhere : LearnElsewhere(b)
  \/ \E q \in Profiles : EditProfile(q)

Next == PassStep \/ Around \/ Stop

Asked(p) ==
  \/ pc = "tracked" /\ p \in tracked
  \/ pc = "wide" /\ p \in Feed \cup selected

(* Passes run in the user's kicks and in the scheduler's sweeps: one begins    *)
(* again and again, and each ends.  A place that is asked again and again      *)
(* answers now and then.                                                     *)
Fairness ==
  /\ about = "pipeline" => []<>(pc = "idle") /\ []<>(pc # "idle")
  /\ \A p \in DOMAIN Holds : []<>Asked(p) => []<>(p \in answered)

Init ==
  /\ about \in {"pipeline", "ranking"}
  /\ life = [o \in Opening |-> IF o \in Unborn THEN "unborn" ELSE "open"]
  /\ tracked = {} /\ learned = {} /\ seeding = {} /\ rows = {}
  /\ cursor = 0 /\ probed = 0 /\ stops = 0
  /\ profile = FirstProfile
  /\ pc = "idle" /\ selected = {} /\ fresh = {} /\ seen = {} /\ answered = {}

Spec == Init /\ [][Next]_vars

FairSpec == Spec /\ Fairness

-----------------------------------------------------------------------------
TypeOK ==
  /\ life \in [Opening -> {"unborn", "open", "closed", "gone"}]
  /\ tracked \subseteq Trackable /\ seeding \subseteq tracked
  /\ learned \subseteq Board
  /\ cursor \in 0..(Cardinality(Board) + BoardsPerTick)
  /\ probed \in 0..Len(Name)
  /\ pc \in {"idle", "tracked", "rotate", "wide", "judge", "save"}
  /\ selected \subseteq Board
  /\ \A c \in fresh : c.via \in {"tracked", "wide"} /\ c.opening \in Holds[c.place]
  /\ pc = "save" => fresh # {} /\ Cardinality(fresh) <= MaxScored

(* An opening that passes and seeding found on a board is one row, whether it *)
(* came from the tracked board or from the directory, first one and later the *)
(* other, unless the board's tokens keep their case.                         *)
OneRowPerListing ==
  \A r, s \in rows :
    /\ {r.how, s.how} \subseteq {"pass", "seed"}
    /\ r.id.source = s.id.source /\ r.id.source \notin Cased \cup Wide
    /\ r.id.opening = s.id.opening
    => r = s

InRotation(b) ==
  /\ about = "pipeline" /\ InSector(b, profile)
  /\ b \in DOMAIN FileBoard \cup learned \cup Range(Catalog)

(* However the list grows under the cursor, a board that is in it gets its    *)
(* turn again and again.                                                    *)
EveryBoardPolled ==
  \A b \in Board : []<>InRotation(b) => []<>(b \in selected)

(* Openings the gates let through on their own board. *)
Suitable ==
  {o \in Opening :
     /\ Home[o] # NoBoard /\ Home[o].source \in FirstParty
     /\ ~Ghost(Home[o].source, Ad[o], 0)
     /\ Eligible(Ad[o], FirstProfile) /\ Mentioned(Ad[o], FirstProfile)}

Welcome(o) ==
  life[o] = "open" /\ about = "pipeline" /\ (Home[o] \in tracked \/ InRotation(Home[o]))

(* Listed openings whose link is dead: they are collected again in every pass *)
(* and, if the link check always notices, never stored.                      *)
DeadCopies ==
  {c \in Copies("wide", DOMAIN Holds) \cup Copies("tracked", tracked) : life[c.opening] = "closed"}

(* An opening this person could take, on a board that is polled, is on file   *)
(* in the end, as itself or as the same job from another place - provided the *)
(* dead links are fewer than a pass has room for.                            *)
EveryOpenOneStored ==
  \A o \in Suitable :
    <>[](Welcome(o) /\ Cardinality(DeadCopies) < MaxScored)
      => []<>(\E r \in rows : SameJob(Ad[o], Ad[r.id.opening]))

(* Once four skills are listed, one more never makes an ad fit worse.         *)
NoSkillHurts ==
  [][/\ profile' # profile /\ profile'.roles = profile.roles /\ profile'.places = profile.places
     /\ profile.keywords \subseteq profile'.keywords
     /\ Cardinality(profile.keywords \ profile.roles) >= Saturation
     => \A o \in Opening : HeuristicScore(Ad[o], profile) <= HeuristicScore(Ad[o], profile')]_vars
=============================================================================

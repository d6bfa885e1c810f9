------------------------------- MODULE Forms -------------------------------
(***************************************************************************)
(* What one person has told the app about themselves and what a form gets    *)
(* of it: app/applicant.py (identity and degrees), profile.py (the search),   *)
(* onboarding.py (the quiz), knowledge.py (facts), profile_import.py (resume, *)
(* GitHub, LinkedIn) and filllearn.py (what Fill could not answer).           *)
(*                                                                         *)
(* Every route here is an async handler that awaits its body first and then   *)
(* runs to its end on the event loop, model and network calls included, so    *)
(* requests are atomic to each other.  An import writes in three steps, each  *)
(* a transaction of its own, and the process may die between them.            *)
(*                                                                         *)
(* A value is a number, 0 when empty.  Left out: full_name and location,      *)
(* joined from other fields when empty; how a document is read (an extract    *)
(* holds what was found); the kick that follows a save (DiscoveryKick).       *)
(***************************************************************************)
EXTENDS FieldMatch

CONSTANTS Key,          \* identity fields, EduKey among them
          NeverImported, \* BOOL_FIELDS and the EEO fields
          SearchKey,    \* fields of job_search_profile, "roles" and "keywords" among them
          Value,        \* what a field may hold
          Fact,         \* <<category, text>>
          ThisYear, MaxEducation, MaxKnowledge,
          Text,         \* [Key -> [Value -> text]]: how FieldMatch reads a value
          Noise,        \* values of "school" that are section headings
          Edits, Lists, Searches, Documents, Accounts, Links,   \* requests
          Box, Pages,   \* questions of forms, and forms
          MaxRequests   \* bound on requests

EduKey == {"school", "degree", "gpa", "grad_year"}   \* DERIVED_EDUCATION
EntryKey == EduKey \cup {"start_year", "status"}

(* Some of the fields K, each with what it holds. *)
Fields(g, K) == DOMAIN g \subseteq K /\ g \in [DOMAIN g -> Value]
Degrees == Seq([EntryKey -> Value])

(* What was found in a document, on GitHub or on LinkedIn. *)
Extract(fields, list, wanted, found) ==
  [fields |-> fields, list |-> list, search |-> wanted, facts |-> found]

Found(x) ==
  /\ x = Extract(x.fields, x.list, x.search, x.facts)
  /\ Fields(x.fields, Key) /\ Fields(x.search, SearchKey)
  /\ x.list \in Degrees /\ x.facts \in Seq(Fact)

(* What is read in a text, which opens with yes or with no or with neither, and  *)
(* what a page says of a question.                                          *)
Reading(w) ==
  /\ DOMAIN w = DOMAIN NoPick
  /\ IsFiniteSet(w.words) /\ IsFiniteSet(w.full) /\ w.nums \in Seq(Int)
  /\ w.lo \in Int /\ w.hi \in Int
  /\ ~({"opens yes", "opens no"} \subseteq w.says)

Signals(box) ==
  /\ {box.label, box.name, box.id} \subseteq Key \cup {"", "sensitive"}
  /\ {box.autocomplete, box.type} \subseteq Key \cup {""}
  /\ box.options \in Seq(ToSet(box.options))
  /\ \A o \in ToSet(box.options) : Reading(o)

ASSUME FormsAssumption ==
  /\ Value \subseteq Nat /\ 0 \in Value /\ ThisYear \in Nat
  /\ EduKey \subseteq Key /\ EduKey \cap NeverImported = {} /\ "github" \in Key
  /\ {"roles", "keywords"} \subseteq SearchKey
  /\ \A g \in Edits : Fields(g, Key)
  /\ \A g \in Searches : Fields(g, SearchKey)
  /\ Lists \subseteq Degrees
  /\ \A d \in Documents : Found(d.heuristic) /\ Found(d.model)
  /\ \A a \in Accounts : a.link \in Value /\ Found(a.profile)
  /\ \A l \in Links : Found(l)
  /\ \A k \in Key, x \in Value : Reading(Text[k][x])
  /\ \A box \in Box : Signals(box)
  \* A text is read the same wherever it stands.
  /\ \A k \in Key, x \in Value, box \in Box :
       \A o \in ToSet(box.options) : o.text = Text[k][x].text => o = Text[k][x]
  /\ MaxEducation \in Nat \ {0} /\ MaxKnowledge \in Nat /\ MaxRequests \in Nat

VARIABLES flat,      \* [Key -> Value]: applicant_json without its list
          degrees,   \* its "education" list
          search,    \* [SearchKey -> Value]: the profile row
          onboarding, \* the quiz's flag in prefs_json
          facts,     \* [Fact -> Nat]: rows of user_knowledge
          skips,     \* [Box -> Nat]: counts of fill_skips
          requests,
          last       \* history: what the last request was

vars == <<flat, degrees, search, onboarding, facts, skips, requests, last>>

TypeOK ==
  /\ flat \in [Key -> Value]
  /\ degrees \in Degrees /\ Len(degrees) <= MaxEducation
  /\ search \in [SearchKey -> Value]
  /\ onboarding \in {"", "started", "complete"}
  /\ facts \in [Fact -> Nat]
  /\ skips \in [Box -> Nat]
  /\ requests \in 0..MaxRequests
  /\ last \in {"", "save", "search", "setup", "import", "knowledge", "fill"}

---------------------------------------------------------------------------
(* Degrees. *)
InProgress == 1   \* a status: 0 when unsaid, 2 when completed
BlankEntry == [k \in EntryKey |-> 0]

(* Blank entries and repeated degrees are dropped, the first one kept. *)
CleanEducation(list) ==
  LET keep(i) == /\ list[i] # BlankEntry
                 /\ \A j \in 1..(i - 1) :
                      list[j] # BlankEntry => \E k \in {"school", "degree"} : list[j][k] # list[i][k]
      kept == Entries(list, {i \in DOMAIN list : keep(i)})
      few == IF Len(kept) > MaxEducation THEN MaxEducation ELSE Len(kept)
  IN [n \in 1..few |-> kept[n]]

IsInProgress(e) ==
  IF e["status"] # 0 THEN e["status"] = InProgress
  ELSE IF e["grad_year"] = 0 THEN e["start_year"] # 0
  ELSE e["grad_year"] > ThisYear

(* Most relevant first: in progress, then most recently finished; stable. *)
OrderEducation(list) ==
  LET late(i) == IF IsInProgress(list[i]) THEN 1 ELSE 0
      ahead(i, j) ==
        \/ late(i) > late(j)
        \/ /\ late(i) = late(j)
           /\ \/ list[i]["grad_year"] > list[j]["grad_year"]
              \/ list[i]["grad_year"] = list[j]["grad_year"] /\ i < j
      order == Ordered(DOMAIN list, ahead)
  IN [n \in DOMAIN list |-> list[order[n]]]

(* The degree a form asks about; only a GPA may come from another, if earned. *)
DerivedEducation(list) ==
  LET ordered == OrderEducation(list)
      earned == Entries(ordered, {i \in DOMAIN ordered :
                                    ordered[i]["gpa"] # 0 /\ ~IsInProgress(ordered[i])})
  IN [k \in EduKey |->
        IF k = "gpa" /\ ordered[1][k] = 0 /\ earned # <<>> THEN earned[1][k]
        ELSE ordered[1][k]]

Listed(list) == CleanEducation(list) # <<>>

(* get_identity: what is on file as a form sees it ... *)
GetIdentity(f, list) ==
  LET clean == CleanEducation(list)
      derived == DerivedEducation(clean)
  IN [k \in Key |-> IF k \in EduKey /\ clean # <<>> /\ derived[k] # 0 THEN derived[k] ELSE f[k]]

(* ... and its "education", one entry made of the flat fields when there is no list. *)
Schooling(f, list) ==
  LET single == [k \in EntryKey |-> IF k \in EduKey THEN f[k] ELSE 0]
  IN IF Listed(list) THEN OrderEducation(CleanEducation(list))
     ELSE IF single = BlankEntry THEN <<>> ELSE <<single>>

(* Flat education, written to the degree it describes. *)
Route(stored, fields) ==
  [OrderEducation(stored) EXCEPT ![1] =
     [k \in EntryKey |-> IF k \in DOMAIN fields \cap EduKey THEN fields[k] ELSE @[k]]]

(* Mutated form of SetIdentity: the flat fields stay beside the list. *)
SetIdentityBeside(f, list, fields, given, new) ==
  LET stored == IF given THEN CleanEducation(new) ELSE CleanEducation(list)
  IN [flat |-> [k \in Key |-> IF k \in DOMAIN fields /\ ~(stored # <<>> /\ k \in EduKey)
                              THEN fields[k] ELSE f[k]],
      degrees |-> IF given THEN stored
                  ELSE IF stored = <<>> \/ DOMAIN fields \cap EduKey = {} THEN list
                  ELSE Route(stored, fields)]

(* set_identity: a list replaces the list and the flat fields it stands for;    *)
(* without one, flat education is routed into the list there is.              *)
SetIdentity(f, list, fields, given, new) ==
  LET stored == IF given THEN CleanEducation(new) ELSE CleanEducation(list)
  IN [flat |-> [k \in Key |-> IF k \in DOMAIN fields /\ ~(stored # <<>> /\ k \in EduKey)
                              THEN fields[k]
                              ELSE IF given /\ k \in EduKey THEN 0 ELSE f[k]],
      degrees |-> IF given THEN stored
                  ELSE IF stored = <<>> \/ DOMAIN fields \cap EduKey = {} THEN list
                  ELSE Route(stored, fields)]

---------------------------------------------------------------------------
(* Imports. *)
Filled(g) == {k \in DOMAIN g : g[k] # 0}

(* The overlay wins where it says anything. *)
MergeExtracted(base, over) ==
  LET both(g, h) == [k \in DOMAIN g \cup DOMAIN h |->
                       IF k \in Filled(h) \/ k \notin DOMAIN g THEN h[k] ELSE g[k]]
      unsaid(i) == /\ over.facts[i] \notin ToSet(base.facts)
                   /\ \A j \in 1..(i - 1) : over.facts[j] # over.facts[i]
  IN Extract(both(base.fields, over.fields),
             IF over.list = <<>> THEN base.list ELSE over.list,
             both(base.search, over.search),
             base.facts \o Entries(over.facts, {i \in DOMAIN over.facts : unsaid(i)}))

SanitizeExtracted(x) ==
  [x EXCEPT !.fields = [k \in DOMAIN x.fields |->
     IF k = "school" /\ x.fields[k] \in Noise THEN 0 ELSE x.fields[k]]]

(* The model may be off, over its slice or broken: the basic parse stands. *)
LlmParse(doc) == {doc.heuristic, MergeExtracted(doc.heuristic, doc.model)}
ParseDocument(doc) == {SanitizeExtracted(x) : x \in LlmParse(doc)}

(* GitHub: the link alone when the API is out of reach. *)
FetchGithub(account) ==
  {Extract([github |-> account.link], <<>>, <<>>, <<>>), account.profile}

(* LinkedIn: the link, or a document with the link given put back over its own. *)
ImportLinkedin(link, doc) ==
  {SanitizeExtracted(MergeExtracted(x, link)) : x \in ParseDocument(doc)} \cup {link}

Extracts == UNION ({ParseDocument(d) : d \in Documents}
                     \cup {FetchGithub(a) : a \in Accounts}
                     \cup {ImportLinkedin(l, d) : l \in Links, d \in Documents})

(* Mutated form of ReplacesList: the degrees on file are not counted. *)
ReplacesListAlways(f, list, x) == Len(CleanEducation(x.list)) > 1

(* The identity an import writes: what is empty, and a list over at most one degree. *)
ReplacesList(f, list, x) ==
  Len(CleanEducation(x.list)) > 1 /\ Len(Schooling(f, list)) < 2

GapFields(f, list, x) ==
  LET current == GetIdentity(f, list)
  IN [k \in {k \in (Filled(x.fields) \cap Key) \ NeverImported : current[k] = 0} |-> x.fields[k]]

ApplyIdentity(f, list, x) ==
  SetIdentity(f, list, GapFields(f, list, x), ReplacesList(f, list, x), x.list)

ApplySearch(s, x) ==
  LET found == {k \in Filled(x.search) : s[k] = 0}
  IN [k \in SearchKey |->
        IF k \in found THEN x.search[k]
        ELSE IF k = "keywords" /\ "roles" \in found /\ s[k] = 0 THEN x.search["roles"]
        ELSE s[k]]

(* New facts in the document's order, no more than an import may add. *)
NewFacts(have, found, most) ==
  LET fresh(i) == have[found[i]] = 0 /\ \A j \in 1..(i - 1) : found[j] # found[i]
      new == Entries(found, {i \in DOMAIN found : fresh(i)})
  IN {new[n] : n \in {n \in DOMAIN new : n <= most}}

---------------------------------------------------------------------------
(* What Fill does with a question: "unmatched", "essay", "empty" and           *)
(* "no_option" are reported back, the rest is painted.                        *)
View == GetIdentity(flat, degrees)
Autofill(view, key) == Text[key][view[key]]
Pick(view, box) == SelectValue(box.options, Autofill(view, MatchField(box)))

Outcome(view, box) ==
  IF MatchField(box) = "" THEN IF IsEssayLabel(box) THEN "essay" ELSE "unmatched"
  ELSE IF view[MatchField(box)] = 0 THEN "empty"
  ELSE IF box.options = <<>> THEN "typed"
  ELSE IF Pick(view, box) = NoPick THEN "no_option" ELSE "picked"

RecordSkips(page) ==
  LET view == View
  IN [b \in Box |-> IF b \in page /\ Outcome(view, b) \notin {"typed", "picked"}
                    THEN skips[b] + 1 ELSE skips[b]]

---------------------------------------------------------------------------
Init ==
  /\ flat = [k \in Key |-> 0] /\ degrees = <<>>
  /\ search = [k \in SearchKey |-> 0] /\ onboarding = ""
  /\ facts = [x \in Fact |-> 0] /\ skips = [b \in Box |-> 0]
  /\ requests = 0 /\ last = ""

Request(kind) == requests < MaxRequests /\ requests' = requests + 1 /\ last' = kind

Identity(id) == flat' = id.flat /\ degrees' = id.degrees

(* POST /apply/identity from a client that has no list, and the chat's        *)
(* "change my ..."; then from one that has.                                 *)
SaveFields(fields) ==
  /\ Request("save")
  /\ Identity(SetIdentity(flat, degrees, fields, FALSE, <<>>))
  /\ UNCHANGED <<search, onboarding, facts, skips>>

SaveDegrees(list, fields) ==
  /\ Request("save")
  /\ Identity(SetIdentity(flat, degrees, fields, TRUE, list))
  /\ UNCHANGED <<search, onboarding, facts, skips>>

(* POST /apply/profile: what is left out is left alone; keywords stand in roles. *)
SaveSearch(fields) ==
  LET keywords == IF "keywords" \in DOMAIN fields /\ fields["keywords"] # 0 THEN fields["keywords"]
                  ELSE IF "roles" \in DOMAIN fields THEN fields["roles"] ELSE search["keywords"]
  IN /\ Request("search")
     /\ search' = [k \in SearchKey |-> IF k = "keywords" THEN keywords
                                       ELSE IF k \in DOMAIN fields THEN fields[k] ELSE search[k]]
     /\ UNCHANGED <<flat, degrees, onboarding, facts, skips>>

(* POST /apply/setup. *)
MarkStarted ==
  /\ Request("setup")
  /\ onboarding' = IF onboarding = "complete" THEN onboarding ELSE "started"
  /\ UNCHANGED <<flat, degrees, search, facts, skips>>

MarkComplete ==
  /\ Request("setup") /\ onboarding' = "complete"
  /\ UNCHANGED <<flat, degrees, search, facts, skips>>

(* POST /apply/import/*: identity, then search, then facts one at a time; the   *)
(* process may die between any two of these writes.                          *)
Import(x, searched, most) ==
  /\ Request("import") /\ (most > 0 => searched)
  /\ Identity(ApplyIdentity(flat, degrees, x))
  /\ search' = IF searched THEN ApplySearch(search, x) ELSE search
  /\ facts' = [f \in Fact |-> IF f \in NewFacts(facts, x.facts, most) THEN facts[f] + 1
                              ELSE facts[f]]
  /\ UNCHANGED <<onboarding, skips>>

(* POST /apply/knowledge and "remember ...", which look for no double; /remove. *)
Remember(f) ==
  /\ Request("knowledge") /\ facts' = [facts EXCEPT ![f] = @ + 1]
  /\ UNCHANGED <<flat, degrees, search, onboarding, skips>>

Forget(f) ==
  /\ facts[f] > 0 /\ Request("knowledge") /\ facts' = [facts EXCEPT ![f] = @ - 1]
  /\ UNCHANGED <<flat, degrees, search, onboarding, skips>>

(* POST /apply/fill-skips, after a page was filled; a question counts once a page. *)
Fill(page) ==
  /\ Request("fill") /\ skips' = RecordSkips(page)
  /\ UNCHANGED <<flat, degrees, search, onboarding, facts>>

Next ==
  \/ \E fields \in Edits : SaveFields(fields)
  \/ \E list \in Lists, fields \in Edits : SaveDegrees(list, fields)
  \/ \E fields \in Searches : SaveSearch(fields)
  \/ MarkStarted
  \/ MarkComplete
  \/ \E x \in Extracts, searched \in BOOLEAN, most \in 0..MaxKnowledge : Import(x, searched, most)
  \/ \E f \in Fact : Remember(f) \/ Forget(f)
  \/ \E page \in Pages : Fill(page)

Spec == Init /\ [][Next]_vars

---------------------------------------------------------------------------
(* How a value reads, and what a page offers. *)
YesOrNo(v) ==
  /\ v.level = 0 /\ v.nums = <<>> /\ v.year = 0 /\ v.months = {} /\ v.state # "code"
  /\ v.words # {} /\ v.says \in {{"opens yes"}, {"opens no"}}
  /\ "opens yes" \in v.says => "no" \notin v.words

Figure(v) ==
  /\ v.level = 0 /\ Len(v.nums) = 1 /\ v.year = 0 /\ v.months = {} /\ v.state # "code"
  /\ v.words # {} /\ v.says = {}

Wording(v, options) ==
  /\ v.level = 0 /\ v.nums = <<>> /\ v.year = 0 /\ v.months = {} /\ v.says = {} /\ v.full # {}
  /\ IF v.state = "code" THEN \E o \in options : o.state = "name" ELSE v.words = v.full

NamesLevel(o) == o.level # 0
NamesDegree(v) == NamesLevel(v) /\ v.state # "code" /\ v.words # {}

RealOptions(box) ==
  {box.options[i] : i \in {i \in DOMAIN box.options : box.options[i].text \notin Placeholder}}

IsSpan(o) == Spans(o, {"range", "plus", "under"})

(* At least two of the options do. *)
Lists2(box, Does(_)) ==
  \E i, j \in DOMAIN box.options :
    /\ i # j /\ {box.options[i].text, box.options[j].text} \cap Placeholder = {}
    /\ Does(box.options[i]) /\ Does(box.options[j])

---------------------------------------------------------------------------
(* A person with a list of degrees has no flat school, GPA or year beside it   *)
(* that a form could be given instead (applicant.py set_identity).            *)
ListSpeaksAlone == Listed(degrees) => \A k \in EduKey : flat[k] = 0

(* What lands on a form.  Where the page says anywhere that a question is      *)
(* sensitive nothing is filled and nothing drafted; elsewhere what is taken is  *)
(* one of the page's options, never a placeholder, or nothing.  On a list with  *)
(* options that open with yes and with no, a yes or a no takes one that does    *)
(* not open the other way and does not decline.  On a list of spans, a number   *)
(* takes one that holds it, if one does.  A value with no such reading takes an *)
(* option that says the same, spelled out or not, where there is one; and a    *)
(* degree one of its level (fieldmatch.py).                                 *)
FillsHonestly ==
  LET view == View
  IN \A box \in Box :
    LET options == RealOptions(box)
        v == Autofill(view, MatchField(box))
        pick == Pick(view, box)
        held == {o \in options : o.kind # "none" /\ Holds(o, v.nums[1])}
        opens(o) == {"opens yes", "opens no"} \cap o.says
        offered(side) == \E o \in options : side \in o.says /\ "decline" \notin o.says
    IN IF Sensitive(box) THEN Outcome(view, box) = "unmatched"
       ELSE (MatchField(box) # "" /\ view[MatchField(box)] # 0) =>
         /\ pick \in options \cup {NoPick}
         /\ YesOrNo(v) /\ offered("opens yes") /\ offered("opens no")
              => pick \in options /\ opens(pick) \subseteq opens(v) /\ "decline" \notin pick.says
         /\ Figure(v) /\ Lists2(box, IsSpan) /\ (\E o \in held : IsSpan(o))
              => pick \in held \/ pick.text = v.text
         /\ Wording(v, options) /\ (\E o \in options : o.words = v.full /\ o.full = v.full)
              => v.full \in {pick.words, pick.full}
         /\ NamesDegree(v) /\ Lists2(box, NamesLevel) /\ (\E o \in options : o.level = v.level)
              => pick.level = v.level

(* An import, cut short or not, writes over no field that has something in it,  *)
(* adds no fact that is on file, and leaves every degree of a list what it said *)
(* (profile_import.py apply_extracted).  A lone degree may give way to a list.  *)
ImportOnlyFillsGaps ==
  [][last' = "import" =>
       /\ \A k \in Key \ EduKey : View[k] # 0 => View'[k] = View[k]
       /\ \A k \in SearchKey : search[k] # 0 => search'[k] = search[k]
       /\ \A f \in Fact : facts[f] # 0 => facts'[f] = facts[f]
       /\ Len(Schooling(flat, degrees)) > 1 =>
            \A e \in ToSet(Schooling(flat, degrees)) : \E d \in ToSet(degrees') :
              \A k \in EntryKey : e[k] # 0 => d[k] = e[k]]_vars

(* "Imports only write *empty* fields so a quiz skip or a later edit is never   *)
(* overwritten" (profile_import.py:3-4).                                    *)
ImportKeepsEdits ==
  [][last' = "import" =>
       \A k \in Key : View[k] # 0 => View'[k] = View[k]]_vars
=============================================================================

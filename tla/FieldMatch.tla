----------------------------- MODULE FieldMatch -----------------------------
(***************************************************************************)
(* What a form asks and which of its answers to take (app/fieldmatch.py,    *)
(* mirrored by the phone's filler).  A label, a name or an id is what the    *)
(* patterns make of it: an identity key, "sensitive", or "" when no pattern  *)
(* matches.  A value or an option is a record of what the readers find in    *)
(* its text; numbers are in tenths.                                         *)
(***************************************************************************)
EXTENDS Integers, Sequences, FiniteSets, SequencesExt, Ordering

(* A text in which the readers find nothing, and the answer "none of these". *)
NoPick ==
  [text |-> "",         \* as written, trimmed and in lower case
   words |-> {},        \* _canonical_option
   full |-> {},         \* the same with state abbreviations spelled out
   head |-> "",         \* its first word that tells anything apart
   state |-> "no",      \* "code" for a bare two-letter state, "name" for a state
   comma |-> FALSE,     \* has ", IL" in it
   level |-> 0,         \* the highest degree it names, 0 for none
   nums |-> <<>>,       \* its numbers, in order
   kind |-> "none",     \* "range", "plus", "under" or "or under"
   lo |-> 0, hi |-> 0,  \* the ends of its span
   months |-> {}, year |-> 0,
   says |-> {}]         \* "decline", "opens yes", "opens no", "negates", "affirms"

Placeholder == {"", "select"}
Open == 100000       \* the width of a span without an end; floors are below 1000

FirstWhere(opts, Test(_)) ==
  LET i == SelectInSeq(opts, Test) IN IF i = 0 THEN NoPick ELSE opts[i]

(* The first of those with the smallest key: a stable sort's head. *)
LeastWhere(opts, Test(_), Key(_)) ==
  LET hits == {opts[i] : i \in {i \in DOMAIN opts : Test(opts[i])}}
  IN FirstWhere(opts, LAMBDA o : o \in hits /\ \A h \in hits : Key(o) <= Key(h))

CountWhere(opts, Test(_)) == Cardinality({i \in DOMAIN opts : Test(opts[i])})

Spans(o, kinds) == o.kind \in kinds
Holds(o, n) == o.lo <= n /\ n <= o.hi

---------------------------------------------------------------------------
(* Which field: a sensitive signal anywhere wins, then the label, the        *)
(* autocomplete token, the name, the id and the type of the input.           *)
Sensitive(box) == "sensitive" \in {box.label, box.name, box.id}

MatchField(box) ==
  LET signals == <<box.label, box.autocomplete, box.name, box.id, box.type>>
      i == SelectInSeq(signals, LAMBDA s : s # "")
  IN IF Sensitive(box) \/ i = 0 THEN "" ELSE signals[i]

(* A prompt worth a drafted answer. *)
IsEssayLabel(box) == box.asks /\ box.label = "" /\ ~Sensitive(box)

---------------------------------------------------------------------------
(* Which option, one reader after another. *)
ExpandBareState(v, opts) ==
  IF v.state = "code" /\ (\E i \in DOMAIN opts : opts[i].state = "name")
  THEN [v EXCEPT !.words = v.full] ELSE v

EducationPick(opts, v) ==
  IF CountWhere(opts, LAMBDA o : o.level # 0) < 2 \/ v.level = 0 THEN NoPick
  ELSE FirstWhere(opts, LAMBDA o : o.level = v.level)

GpaRangePick(opts, v) ==
  LET i == SelectInSeq(v.nums, LAMBDA n : n < 50)
      banded(o) == Spans(o, {"range", "or under"})
  IN IF i = 0 \/ CountWhere(opts, banded) < 2 THEN NoPick
     ELSE LeastWhere(opts, LAMBDA o : banded(o) /\ Holds(o, v.nums[i]),
                     LAMBDA o : IF o.kind = "range" THEN o.hi - o.lo ELSE 990)

MonthsOf(o) == [lo |-> CHOOSE m \in o.months : \A n \in o.months : m <= n,
                hi |-> CHOOSE m \in o.months : \A n \in o.months : m >= n]

DateBucketPick(opts, v) ==
  LET dated(o) == o.year # 0 \/ o.months # {}
      bucket(o) == o.year # 0 \/ Cardinality(o.months) > 1
      fits(o) ==
        /\ dated(o)
        /\ v.year = 0 \/ o.year = 0 \/ v.year = o.year
        /\ IF v.months # {} /\ o.months # {}
           THEN \E m \in v.months : MonthsOf(o).lo <= m /\ m <= MonthsOf(o).hi
           ELSE v.months = {} /\ v.year # 0 /\ o.year = v.year
      off(o) ==      \* twice the months from the middle of the bucket
        IF v.months = {} \/ o.months = {} THEN 0
        ELSE LET d == MonthsOf(o).lo + MonthsOf(o).hi - 2 * MonthsOf(v).lo
             IN IF d < 0 THEN 0 - d ELSE d
      monthOnly == \A i \in DOMAIN opts : opts[i].year = 0 /\ Cardinality(opts[i].months) = 1
  IN IF ~dated(v) \/ (CountWhere(opts, bucket) < 2 /\ ~monthOnly) THEN NoPick
     ELSE LeastWhere(opts, fits, off)

YearPick(opts, v) ==
  LET bare(o) == o.year # 0 /\ o.months = {} /\ o.nums = <<10 * o.year>>
  IN IF v.year = 0 \/ CountWhere(opts, bare) < 3 THEN NoPick
     ELSE FirstWhere(opts, LAMBDA o : bare(o) /\ o.year = v.year)

AsYesNo(v) ==
  IF "opens yes" \in v.says /\ "no" \notin v.words THEN "yes"
  ELSE IF "opens no" \in v.says \/ ("negates" \in v.says /\ "yes" \notin v.words) THEN "no"
  ELSE "none"

(* Mutated form of OptionYesNo: the shape of the rest decides first. *)
OptionYesNoByShape(o) ==
  IF "decline" \in o.says THEN "none"
  ELSE IF {"opens no", "negates"} \cap o.says # {} THEN "no"
  ELSE IF {"opens yes", "affirms"} \cap o.says # {} THEN "yes" ELSE "none"

(* The word an option opens with decides before the shape of the rest. *)
OptionYesNo(o) ==
  IF "decline" \in o.says THEN "none"
  ELSE IF "opens yes" \in o.says THEN "yes"
  ELSE IF {"opens no", "negates"} \cap o.says # {} THEN "no"
  ELSE IF "affirms" \in o.says THEN "yes" ELSE "none"

Offers(opts, side) == \E i \in DOMAIN opts : OptionYesNo(opts[i]) = side

YesNoPick(opts, v) ==
  IF AsYesNo(v) = "none" \/ ~Offers(opts, "yes") \/ ~Offers(opts, "no") THEN NoPick
  ELSE FirstWhere(opts, LAMBDA o : OptionYesNo(o) = AsYesNo(v))

ValueNumber(v) ==
  CHOOSE n \in ToSet(v.nums) : \A k \in ToSet(v.nums) : k <= n

(* The tightest span that holds the number; of the open ones, the highest floor. *)
NumericBucketPick(opts, v) ==
  LET spanned(o) == Spans(o, {"range", "plus", "under"})
      width(o) == (IF o.kind = "plus" THEN Open ELSE o.hi - o.lo) * 1000 - o.lo
  IN IF v.nums = <<>> \/ CountWhere(opts, spanned) < 2 THEN NoPick
     ELSE LeastWhere(opts, LAMBDA o : spanned(o) /\ Holds(o, ValueNumber(v)), width)

(* In sixtieths.  Lengths are counted in words; "no" is also found in "not". *)
OptionScore(want, words, head) ==
  LET negated(ws) == {"not", "no", "never", "none"} \cap ws # {}
      within(a, b) == \A w \in a : w \in b \/ (w = "no" /\ {"not", "none"} \cap b # {})
      shared == Cardinality(want \cap words)
      a == Cardinality(want)
      b == Cardinality(words)
  IN IF negated(want) # negated(words) THEN 0
     ELSE IF within(want, words) \/ within(words, want)
          THEN 180 + (60 * (IF a < b THEN a ELSE b)) \div (IF a < b THEN b ELSE a)
     ELSE IF head # "" /\ head \notin words THEN 0
     ELSE (60 * shared) \div a + (60 * shared) \div b

ScorePick(opts, v) ==
  LET expand == v.comma \/ v.state = "code" \/ \E i \in DOMAIN opts : opts[i].comma
      Words(o) == IF expand THEN o.full ELSE o.words
      score(o) == IF Words(o) = {} THEN 0
                  ELSE IF Words(o) = Words(v) THEN 600
                  ELSE OptionScore(Words(v), Words(o), v.head)
  IN LeastWhere(opts, LAMBDA o : score(o) >= 30, LAMBDA o : 0 - score(o))

(* An option that is the value wins before any of it. *)
SelectValue(options, value) ==
  LET opts == Entries(options, {i \in DOMAIN options : options[i].text \notin Placeholder})
      exact == FirstWhere(opts, LAMBDA o : o.text = value.text)
      v == ExpandBareState(value, opts)
      tries == <<EducationPick(opts, v), GpaRangePick(opts, v), DateBucketPick(opts, v),
                 YearPick(opts, v), YesNoPick(opts, v), NumericBucketPick(opts, v),
                 ScorePick(opts, v)>>
  IN IF exact # NoPick \/ v.words = {} THEN exact
     ELSE FirstWhere(tries, LAMBDA p : p # NoPick)
=============================================================================

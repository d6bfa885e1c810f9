------------------------------ MODULE MCForms ------------------------------
(***************************************************************************)
(* Forms for TLC: a person with an address, years of experience, a visa       *)
(* question and degrees; documents that name one degree or two; and the       *)
(* questions whose lists the readers of FieldMatch were written for.          *)
(***************************************************************************)
EXTENDS Forms

MCKey == EduKey \cup {"email", "github", "years", "sponsorship", "state"}
Past == 3
Later == 5

Degree(school, degree, gpa, year, status) ==
  (("school" :> school) @@ ("degree" :> degree) @@ ("gpa" :> gpa) @@ ("grad_year" :> year)
     @@ ("start_year" :> 0) @@ ("status" :> status))
Masters == Degree(2, 2, 0, Later, 0)
Bachelors == Degree(2, 1, 1, Past, 0)
Started == [Degree(1, 0, 0, 0, 0) EXCEPT !["start_year"] = 1]

MCEdits == {<<>>, "email" :> 1, "school" :> 1, "gpa" :> 0, "grad_year" :> Past,
            ("years" :> 2) @@ ("state" :> 1) @@ ("sponsorship" :> 1), "sponsorship" :> 2}
MCLists == {<<>>, <<Bachelors>>, <<Bachelors, BlankEntry, Masters, Masters, Started>>, <<Started, Bachelors>>}
MCSearches == {"roles" :> 1, ("roles" :> 1) @@ ("keywords" :> 0), "keywords" :> 2, "roles" :> 0}

Two == Extract(("email" :> 2) @@ ("school" :> 2) @@ ("degree" :> 1) @@ ("grad_year" :> Past) @@ ("sponsorship" :> 1),
               <<Masters, Bachelors>>, "roles" :> 2, <<"a", "b", "a">>)
One == Extract(("school" :> 4) @@ ("gpa" :> 2) @@ ("grad_year" :> Later), <<>>, "keywords" :> 1, <<"a">>)
Model == Extract(("school" :> 2) @@ ("years" :> 2), <<>>, "roles" :> 1, <<"c", "b">>)
Nothing == Extract(<<>>, <<>>, <<>>, <<>>)
MCDocuments == {[heuristic |-> Two, model |-> Model], [heuristic |-> One, model |-> Nothing]}
MCAccounts == {[link |-> 1,
                profile |-> Extract(("github" :> 1) @@ ("email" :> 1), <<>>, "keywords" :> 2, <<"b">>)]}
MCLinks == {Nothing}

---------------------------------------------------------------------------
T(text, words) == [NoPick EXCEPT !.text = text, !.words = words, !.full = words]
Number(t, n) == [T(t, {t}) EXCEPT !.nums = <<n>>]
Years(t, kind, lo, hi, nums) ==
  [T(t, {t, "years"}) EXCEPT !.kind = kind, !.lo = lo, !.hi = hi, !.nums = nums]
Word(t, words, says) == [T(t, words) EXCEPT !.says = says]
Level(t, words, n) == [T(t, words) EXCEPT !.level = n]
State(t) == [T(t, {t}) EXCEPT !.state = "name"]
Year(t, y) == [T(t, {t}) EXCEPT !.year = y, !.nums = <<10 * y>>]
Season(t, ms, y) == [T(t, {t}) EXCEPT !.months = ms, !.year = y, !.nums = <<10 * y>>]

Blank == [v \in Value |-> NoPick]
MCText ==
  [k \in MCKey |->
     CASE k = "years" -> [Blank EXCEPT ![1] = Number("3", 30), ![2] = Number("12", 120)]
       [] k = "gpa" -> [Blank EXCEPT ![1] = Number("3.5", 35), ![2] = Number("3.9", 39)]
       [] k = "sponsorship" -> [Blank EXCEPT ![1] = Word("yes", {"yes"}, {"opens yes"}),
                                             ![2] = Word("no", {"no"}, {"opens no"})]
       [] k = "grad_year" -> [Blank EXCEPT ![Past] = Year("2023", 2023),
                                           ![Later] = Season("may 2027", {5}, 2027)]
       [] k = "degree" -> [Blank EXCEPT ![1] = Level("b.s.", {"bachelor"}, 3),
                                        ![2] = Level("master of science", {"master", "science"}, 4)]
       [] k = "state" -> [Blank EXCEPT ![1] = [T("or", {}) EXCEPT !.state = "code", !.full = {"oregon"}]]
       [] k = "school" -> [Blank EXCEPT ![1] = T("university of minnesota", {"university", "minnesota"}),
                                        ![2] = T("iowa state", {"iowa", "state"})]
       [] k = "email" -> [Blank EXCEPT ![1] = T("a", {"a"}), ![2] = T("b", {"b"})]
       [] OTHER -> Blank]

Question(label, options) ==
  [label |-> label, name |-> "", id |-> "", autocomplete |-> "", type |-> "",
   asks |-> FALSE, options |-> options]

Experience == <<T("select", {}), Years("0-3", "range", 0, 30, <<0, 30>>),
                Years("3-5", "range", 30, 50, <<30, 50>>), Years("5+", "plus", 50, Open, <<50>>),
                Years("10+", "plus", 100, Open, <<100>>)>>
Visa == <<Word("i prefer not to say", {"prefer", "say"}, {"decline", "negates"}),
          Word("no, i need a visa", {"no", "need", "visa"}, {"opens no"}),
          Word("yes, i do not need a visa", {"yes", "not", "need", "visa"}, {"opens yes", "negates"}),
          Word("i need a visa", {"need", "visa"}, {})>>
Grades == <<Years("under 3", "under", 0, 30, <<30>>), Years("3.0-3.5", "range", 30, 35, <<30, 35>>),
            Years("3.5-4.0", "range", 35, 40, <<35, 40>>)>>
Terms == <<Season("spring 2027", {1, 5}, 2027), Season("fall 2027", {8, 12}, 2027), Year("2023", 2023)>>
Campus == <<T("iowa", {"iowa"}), T("university of minnesota, twin cities",
                                   {"university", "minnesota", "twin", "cities"})>>
States == <<State("maine"), State("oregon"), State("florida")>>
Studies == <<Level("master's degree", {"master", "degree"}, 4),
             Level("bachelor's degree", {"bachelor", "degree"}, 3)>>

MCBox ==
  {Question("years", Experience), Question("sponsorship", Visa), Question("gpa", Grades),
   Question("grad_year", Terms), Question("school", Campus), Question("email", <<>>),
   Question("state", States), Question("degree", Studies),
   [Question("sensitive", Visa) EXCEPT !.asks = TRUE],
   [Question("years", Experience) EXCEPT !.name = "sensitive"],
   [Question("", <<>>) EXCEPT !.id = "sensitive", !.asks = TRUE],
   [Question("", <<>>) EXCEPT !.asks = TRUE],
   [Question("", <<>>) EXCEPT !.type = "email"]}
MCPages == {MCBox}
=============================================================================

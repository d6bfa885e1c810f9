----------------------------- MODULE FormsProofs -----------------------------
(***************************************************************************)
(* For any fields, values, documents and requests of the model: types, a list  *)
(* of degrees that stands alone, imports that fill gaps only, and forms filled *)
(* with what the person said.                                              *)
(*                                                                         *)
(* Lists come first: dropping, choosing and ordering degrees only ever give    *)
(* degrees of the list.  Then what set_identity stores, and then the requests. *)
(* Choosing an option comes last: each of select_value's seven readers takes   *)
(* the first of some places or nothing, and for each way a value reads one of   *)
(* them is the first to take anything.                                      *)
(***************************************************************************)
EXTENDS Forms, FiniteSetTheorems, TLAPS

-----------------------------------------------------------------------------
(* Places in an order: every place of Ordered is somebody's. *)
Ahead(S, R, b) == {c \in S : <<c, b>> \in R}

TotalOn(S, R) ==
  /\ \A a \in S : <<a, a>> \notin R
  /\ \A a, b, c \in S : <<a, b>> \in R /\ <<b, c>> \in R => <<a, c>> \in R
  /\ \A a, b \in S : a # b => <<a, b>> \in R \/ <<b, a>> \in R

LEMMA AheadFewer ==
  ASSUME NEW S, IsFiniteSet(S), NEW R, TotalOn(S, R),
         NEW a \in S, NEW b \in S, <<a, b>> \in R
  PROVE  /\ Cardinality(Ahead(S, R, a)) < Cardinality(Ahead(S, R, b))
         /\ Cardinality(Ahead(S, R, a)) # Cardinality(Ahead(S, R, b))
<1>1. a \in Ahead(S, R, b) /\ Ahead(S, R, a) \subseteq Ahead(S, R, b) \ {a}
  BY DEF TotalOn, Ahead
<1>2. IsFiniteSet(Ahead(S, R, b))
  BY FS_Subset DEF Ahead
<1>3. /\ IsFiniteSet(Ahead(S, R, b) \ {a})
      /\ Cardinality(Ahead(S, R, b) \ {a}) = Cardinality(Ahead(S, R, b)) - 1
  BY <1>1, <1>2, FS_RemoveElement
<1>4. Cardinality(Ahead(S, R, a)) <= Cardinality(Ahead(S, R, b) \ {a})
  BY <1>1, <1>3, FS_Subset
<1>5. Cardinality(Ahead(S, R, b)) \in Nat
  BY <1>2, FS_CardinalityType
<1>6. IsFiniteSet(Ahead(S, R, a))
  BY <1>1, <1>3, FS_Subset
<1>7. Cardinality(Ahead(S, R, a)) \in Nat
  BY <1>6, FS_CardinalityType
<1> QED BY <1>3, <1>4, <1>5, <1>7

LEMMA PlaceTaken ==
  ASSUME NEW S, IsFiniteSet(S), NEW R, TotalOn(S, R), NEW k \in 1..Cardinality(S)
  PROVE  \E b \in S : Cardinality(Ahead(S, R, b)) = k - 1
<1> DEFINE N == Cardinality(S)
           T == 0..(N - 1)
           f == [b \in S |-> Cardinality(Ahead(S, R, b))]
<1>1. N \in Nat
  BY FS_CardinalityType
<1>2. ASSUME NEW b \in S PROVE Cardinality(Ahead(S, R, b)) \in T
  <2>1. Ahead(S, R, b) \subseteq S \ {b}
    BY DEF TotalOn, Ahead
  <2>2. IsFiniteSet(S \ {b}) /\ Cardinality(S \ {b}) = N - 1
    BY FS_RemoveElement
  <2>3. IsFiniteSet(Ahead(S, R, b)) /\ Cardinality(Ahead(S, R, b)) <= N - 1
    BY <2>1, <2>2, FS_Subset
  <2>4. Cardinality(Ahead(S, R, b)) \in Nat
    BY <2>3, FS_CardinalityType
  <2> HIDE DEF N
  <2> QED BY <1>1, <2>3, <2>4
<1>3. f \in Injection(S, T)
  <2>1. f \in [S -> T]
    BY <1>2
  <2>2. ASSUME NEW a \in S, NEW b \in S, f[a] = f[b] PROVE a = b
    <3>1. Cardinality(Ahead(S, R, a)) = Cardinality(Ahead(S, R, b))
      BY <2>2
    <3>2. <<a, b>> \notin R /\ <<b, a>> \notin R
      BY <3>1, AheadFewer
    <3> QED BY <3>2 DEF TotalOn
  <2> HIDE DEF f, T
  <2> QED BY <2>1, <2>2 DEF Injection, IsInjective
<1>4. IsFiniteSet(T) /\ Cardinality(T) = N
  <2>1. \A m \in Nat : IsFiniteSet(0..(m - 1)) /\ Cardinality(0..(m - 1)) = m
    BY FS_Interval
  <2> HIDE DEF N, f
  <2> QED BY <1>1, <2>1
<1>5. k - 1 \in T
  BY <1>1
<1> HIDE DEF f, T
<1>6. f \in Surjection(S, T)
  BY <1>3, <1>4, FS_Injection
<1>7. PICK b \in S : f[b] = k - 1
  BY <1>5, <1>6 DEF Surjection
<1> QED BY <1>7 DEF f

(* Entries gives elements of the sequence, at the places asked for. *)
LEMMA EntriesKept ==
  ASSUME NEW X, NEW s \in Seq(X), NEW I \in SUBSET DOMAIN s
  PROVE  /\ Cardinality(I) \in Nat
         /\ DOMAIN Entries(s, I) = 1..Cardinality(I)
         /\ \A n \in 1..Cardinality(I) : \E i \in I : Entries(s, I)[n] = s[i]
<1> DEFINE R == {p \in I \X I : p[1] < p[2]}
           at(n) == CHOOSE b \in I : Cardinality({c \in I : c < b}) = n - 1
<1>1. DOMAIN s = 1..Len(s) /\ Len(s) \in Nat
  OBVIOUS
<1>2. IsFiniteSet(I)
  <2>1. \A m \in Nat : IsFiniteSet(1..m)
    BY FS_Interval
  <2> QED BY <1>1, <2>1, FS_Subset
<1>3. Cardinality(I) \in Nat
  BY <1>2, FS_CardinalityType
<1>4. I \subseteq Int
  BY <1>1
<1>5. TotalOn(I, R)
  BY <1>4 DEF TotalOn
<1>6. \A b \in I : Ahead(I, R, b) = {c \in I : c < b}
  BY DEF Ahead
<1>7. ASSUME NEW n \in 1..Cardinality(I) PROVE at(n) \in I
  <2>1. \E b \in I : Cardinality(Ahead(I, R, b)) = n - 1
    BY <1>2, <1>5, PlaceTaken
  <2>2. \E b \in I : Cardinality({c \in I : c < b}) = n - 1
    BY <1>6, <2>1
  <2> QED BY <2>2
<1>8. Entries(s, I) = [n \in 1..Cardinality(I) |-> s[[k \in 1..Cardinality(I) |-> at(k)][n]]]
  BY DEF Entries, Ordered
<1> HIDE DEF at
<1>9. Entries(s, I) = [n \in 1..Cardinality(I) |-> s[at(n)]]
  BY <1>8
<1> QED BY <1>3, <1>7, <1>9

LEMMA EntriesTyped ==
  ASSUME NEW X, NEW s \in Seq(X), NEW I \in SUBSET DOMAIN s
  PROVE  Entries(s, I) \in Seq(X) /\ Len(Entries(s, I)) = Cardinality(I)
<1>1. Cardinality(I) \in Nat
  BY EntriesKept
<1>2. Entries(s, I) = [n \in 1..Cardinality(I) |-> Entries(s, I)[n]]
  BY DEF Entries
<1>3. \A n \in 1..Cardinality(I) : Entries(s, I)[n] \in X
  BY EntriesKept
<1> QED BY <1>1, <1>2, <1>3

(* Nothing asked for is left out, and two places stay two. *)
LEMMA EntriesAll ==
  ASSUME NEW X, NEW s \in Seq(X), NEW I \in SUBSET DOMAIN s
  PROVE  \E place \in [I -> DOMAIN Entries(s, I)] :
           /\ \A i \in I : Entries(s, I)[place[i]] = s[i]
           /\ \A i, j \in I : i # j => place[i] # place[j]
<1> DEFINE R == {p \in I \X I : p[1] < p[2]}
           at(n) == CHOOSE b \in I : Cardinality({c \in I : c < b}) = n - 1
           place == [i \in I |-> Cardinality(Ahead(I, R, i)) + 1]
<1>1. DOMAIN s = 1..Len(s) /\ Len(s) \in Nat
  OBVIOUS
<1>2. IsFiniteSet(I)
  <2>1. \A m \in Nat : IsFiniteSet(1..m)
    BY FS_Interval
  <2> QED BY <1>1, <2>1, FS_Subset
<1>3. Cardinality(I) \in Nat
  BY <1>2, FS_CardinalityType
<1>4. I \subseteq Int
  BY <1>1
<1>5. TotalOn(I, R)
  BY <1>4 DEF TotalOn
<1>6. \A b \in I : Ahead(I, R, b) = {c \in I : c < b}
  BY DEF Ahead
<1>7. \A i, j \in I : i # j => Cardinality(Ahead(I, R, i)) # Cardinality(Ahead(I, R, j))
  <2>1. \A i, j \in I : i # j => (<<i, j>> \in R \/ <<j, i>> \in R)
    BY <1>5 DEF TotalOn
  <2> HIDE DEF R
  <2> QED BY <1>2, <1>5, <2>1, AheadFewer
<1>8. ASSUME NEW i \in I
      PROVE  Cardinality(Ahead(I, R, i)) \in Nat /\ Cardinality(Ahead(I, R, i)) + 1 \in 1..Cardinality(I)
  <2>1. Ahead(I, R, i) \subseteq I \ {i}
    BY <1>5 DEF TotalOn, Ahead
  <2>2. IsFiniteSet(I \ {i}) /\ Cardinality(I \ {i}) = Cardinality(I) - 1
    BY <1>2, FS_RemoveElement
  <2>3. IsFiniteSet(Ahead(I, R, i)) /\ Cardinality(Ahead(I, R, i)) <= Cardinality(I) - 1
    BY <2>1, <2>2, FS_Subset
  <2>4. Cardinality(Ahead(I, R, i)) \in Nat
    BY <2>3, FS_CardinalityType
  <2> QED BY <1>3, <2>3, <2>4
<1>9. ASSUME NEW i \in I PROVE at(place[i]) = i
  <2>1. place[i] - 1 = Cardinality(Ahead(I, R, i))
    BY <1>8
  <2> HIDE DEF place, R
  <2>2. at(place[i]) = CHOOSE b \in I : Cardinality(Ahead(I, R, b)) = Cardinality(Ahead(I, R, i))
    BY <1>6, <2>1
  <2> QED BY <1>7, <2>2
<1>10. Entries(s, I) = [n \in 1..Cardinality(I) |-> s[[k \in 1..Cardinality(I) |-> at(k)][n]]]
  BY DEF Entries, Ordered
<1>11. place \in [I -> 1..Cardinality(I)]
  BY <1>8
<1>12. \A i, j \in I : i # j => place[i] # place[j]
  BY <1>7, <1>8
<1> HIDE DEF at, place
<1>13. Entries(s, I) = [n \in 1..Cardinality(I) |-> s[at(n)]]
  BY <1>10
<1>14. \A i \in I : Entries(s, I)[place[i]] = s[i]
  BY <1>9, <1>11, <1>13
<1> QED BY <1>11, <1>12, <1>13, <1>14

-----------------------------------------------------------------------------
(* Degrees. *)
LEMMA CleanKept ==
  ASSUME NEW list \in Degrees
  PROVE  /\ CleanEducation(list) \in Degrees /\ Len(CleanEducation(list)) <= MaxEducation
         /\ \A n \in DOMAIN CleanEducation(list) :
              \E i \in DOMAIN list : CleanEducation(list)[n] = list[i]
<1> DEFINE keep(i) == /\ list[i] # BlankEntry
                      /\ \A j \in 1..(i - 1) :
                           list[j] # BlankEntry => \E k \in {"school", "degree"} : list[j][k] # list[i][k]
           I == {i \in DOMAIN list : keep(i)}
           kept == Entries(list, I)
           few == IF Len(kept) > MaxEducation THEN MaxEducation ELSE Len(kept)
<1>1. CleanEducation(list) = [n \in 1..few |-> kept[n]]
  BY DEF CleanEducation
<1>2. I \in SUBSET DOMAIN list /\ list \in Seq([EntryKey -> Value])
  BY DEF Degrees
<1> HIDE DEF I, keep
<1>3. kept \in Seq([EntryKey -> Value]) /\ Len(kept) = Cardinality(I)
  BY <1>2, EntriesTyped
<1>4. \A n \in 1..Len(kept) : \E i \in I : kept[n] = list[i]
  BY <1>2, <1>3, EntriesKept
<1> HIDE DEF kept
<1>5. few \in Nat /\ few <= Len(kept) /\ few <= MaxEducation
  BY <1>3, FormsAssumption
<1> HIDE DEF few
<1>6. [n \in 1..few |-> kept[n]] \in Seq([EntryKey -> Value])
  BY <1>3, <1>5
<1>7. Len([n \in 1..few |-> kept[n]]) = few
  BY <1>5
<1>8. \A n \in 1..few : \E i \in DOMAIN list : kept[n] = list[i]
  BY <1>2, <1>4, <1>5, <1>3
<1> QED BY <1>1, <1>5, <1>6, <1>7, <1>8 DEF Degrees

(* The order, as a set of pairs of places. *)
Late(list, i) == IF IsInProgress(list[i]) THEN 1 ELSE 0
Before(list) ==
  {p \in (DOMAIN list) \X (DOMAIN list) :
     \/ Late(list, p[1]) > Late(list, p[2])
     \/ /\ Late(list, p[1]) = Late(list, p[2])
        /\ \/ list[p[1]]["grad_year"] > list[p[2]]["grad_year"]
           \/ list[p[1]]["grad_year"] = list[p[2]]["grad_year"] /\ p[1] < p[2]}

LEMMA BeforeTotal ==
  ASSUME NEW list \in Degrees
  PROVE  TotalOn(DOMAIN list, Before(list))
<1> DEFINE D == DOMAIN list
           late == [i \in D |-> Late(list, i)]
           year == [i \in D |-> list[i]["grad_year"]]
           ahead(i, j) == \/ late[i] > late[j]
                          \/ (late[i] = late[j] /\ (year[i] > year[j] \/ (year[i] = year[j] /\ i < j)))
<1>1. D \subseteq Int
  BY DEF Degrees
<1>2. late \in [D -> Int]
  BY DEF Late
<1>3. year \in [D -> Int]
  <2>1. list \in [D -> [EntryKey -> Value]]
    BY DEF Degrees
  <2>2. "grad_year" \in EntryKey /\ Value \subseteq Int
    BY FormsAssumption DEF EntryKey, EduKey
  <2> HIDE DEF D
  <2> QED BY <2>1, <2>2
<1>4. ASSUME NEW i \in D, NEW j \in D
      PROVE  <<i, j>> \in Before(list) <=> ahead(i, j)
  BY DEF Before
<1> HIDE DEF late, year, D
<1>5. \A i \in D : ~ahead(i, i)
  BY <1>1, <1>2, <1>3
<1>6. \A i, j, k \in D : ahead(i, j) /\ ahead(j, k) => ahead(i, k)
  BY <1>1, <1>2, <1>3
<1>7. \A i, j \in D : i # j => ahead(i, j) \/ ahead(j, i)
  BY <1>1, <1>2, <1>3
<1> HIDE DEF ahead
<1> QED BY <1>4, <1>5, <1>6, <1>7 DEF TotalOn, D

LEMMA OrderPlaces ==
  ASSUME NEW list \in Degrees
  PROVE  \E place \in [DOMAIN list -> DOMAIN list] :
           /\ OrderEducation(list) = [n \in DOMAIN list |-> list[place[n]]]
           /\ \A n \in DOMAIN list :
                Cardinality(Ahead(DOMAIN list, Before(list), place[n])) = n - 1
<1> DEFINE D == DOMAIN list
           late(i) == IF IsInProgress(list[i]) THEN 1 ELSE 0
           ahead(i, j) == \/ late(i) > late(j)
                          \/ /\ late(i) = late(j)
                             /\ \/ list[i]["grad_year"] > list[j]["grad_year"]
                                \/ list[i]["grad_year"] = list[j]["grad_year"] /\ i < j
           at(n) == CHOOSE b \in D : Cardinality({c \in D : ahead(c, b)}) = n - 1
<1>1. D = 1..Len(list) /\ Len(list) \in Nat
  BY DEF Degrees
<1>2. IsFiniteSet(D) /\ Cardinality(D) = Len(list)
  <2>1. \A m \in Nat : IsFiniteSet(1..m) /\ Cardinality(1..m) = m
    BY FS_Interval
  <2> QED BY <1>1, <2>1
<1>3. OrderEducation(list) = [n \in D |-> list[[k \in 1..Cardinality(D) |-> at(k)][n]]]
  BY DEF OrderEducation, Ordered
<1>4. ASSUME NEW b \in D PROVE {c \in D : ahead(c, b)} = Ahead(D, Before(list), b)
  BY DEF Before, Late, Ahead
<1> HIDE DEF ahead
<1>5. ASSUME NEW n \in D
      PROVE  at(n) \in D /\ Cardinality(Ahead(D, Before(list), at(n))) = n - 1
  <2>1. \E b \in D : Cardinality(Ahead(D, Before(list), b)) = n - 1
    BY <1>1, <1>2, BeforeTotal, PlaceTaken
  <2>2. \E b \in D : Cardinality({c \in D : ahead(c, b)}) = n - 1
    BY <1>4, <2>1
  <2>3. at(n) \in D /\ Cardinality({c \in D : ahead(c, at(n))}) = n - 1
    BY <2>2
  <2> HIDE DEF at
  <2> QED BY <1>4, <2>3
<1> HIDE DEF at
<1>6. OrderEducation(list) = [n \in D |-> list[at(n)]]
  BY <1>1, <1>2, <1>3
<1> DEFINE place == [n \in D |-> at(n)]
<1>7. place \in [D -> D] /\ \A n \in D : place[n] = at(n)
  BY <1>5
<1>8. OrderEducation(list) = [n \in D |-> list[place[n]]]
  BY <1>6
<1>9. \A n \in D : Cardinality(Ahead(D, Before(list), place[n])) = n - 1
  BY <1>5
<1> HIDE DEF place
<1> QED BY <1>7, <1>8, <1>9

LEMMA OrderKept ==
  ASSUME NEW list \in Degrees
  PROVE  /\ OrderEducation(list) \in Degrees
         /\ DOMAIN OrderEducation(list) = DOMAIN list
         /\ \A n \in DOMAIN list : \E i \in DOMAIN list : OrderEducation(list)[n] = list[i]
<1>1. PICK place \in [DOMAIN list -> DOMAIN list] :
             OrderEducation(list) = [n \in DOMAIN list |-> list[place[n]]]
  BY OrderPlaces
<1>2. DOMAIN list = 1..Len(list) /\ Len(list) \in Nat /\ list \in Seq([EntryKey -> Value])
  BY DEF Degrees
<1>3. [n \in DOMAIN list |-> list[place[n]]] \in Seq([EntryKey -> Value])
  BY <1>2
<1> QED BY <1>1, <1>3 DEF Degrees

(* One degree matters more to a form than another. *)
Sooner(d, e) ==
  \/ IsInProgress(d) /\ ~IsInProgress(e)
  \/ (IsInProgress(d) <=> IsInProgress(e)) /\ d["grad_year"] > e["grad_year"]

(* However many degrees a person lists, in whatever order: order_education drops *)
(* none and repeats none, no degree stands before one that matters more, and   *)
(* equals stay as they were listed.  The first is what a form is told about.   *)
THEOREM DegreesInOrder ==
  ASSUME NEW list \in Degrees
  PROVE  \E place \in [DOMAIN list -> DOMAIN list] :
           /\ \A n \in DOMAIN list : OrderEducation(list)[n] = list[place[n]]
           /\ \A i \in DOMAIN list : \E n \in DOMAIN list : place[n] = i
           /\ \A n, m \in DOMAIN list : n < m =>
                /\ place[n] # place[m]
                /\ \/ Sooner(list[place[n]], list[place[m]])
                   \/ ~Sooner(list[place[m]], list[place[n]]) /\ place[n] < place[m]
<1> DEFINE D == DOMAIN list
           R == Before(list)
<1>1. D = 1..Len(list) /\ Len(list) \in Nat
  BY DEF Degrees
<1>2. IsFiniteSet(D) /\ Cardinality(D) = Len(list)
  <2>1. \A m \in Nat : IsFiniteSet(1..m) /\ Cardinality(1..m) = m
    BY FS_Interval
  <2> QED BY <1>1, <2>1
<1>3. TotalOn(D, R)
  BY BeforeTotal
<1>4. PICK place \in [D -> D] :
        /\ OrderEducation(list) = [n \in D |-> list[place[n]]]
        /\ \A n \in D : Cardinality(Ahead(D, R, place[n])) = n - 1
  BY OrderPlaces
<1>5. ASSUME NEW i \in D, NEW j \in D, <<i, j>> \in R
      PROVE  \/ Sooner(list[i], list[j])
             \/ ~Sooner(list[j], list[i]) /\ i < j
  <2>1. /\ "grad_year" \in EntryKey /\ Value \subseteq Int
        /\ list \in [D -> [EntryKey -> Value]]
    <3>1. "grad_year" \in EntryKey /\ Value \subseteq Int
      BY FormsAssumption DEF EntryKey, EduKey
    <3>2. list \in [D -> [EntryKey -> Value]]
      BY DEF Degrees
    <3> QED BY <3>1, <3>2
  <2>2. PICK x \in Int : x = list[i]["grad_year"]
    BY <2>1
  <2>3. PICK y \in Int : y = list[j]["grad_year"]
    BY <2>1
  <2>4. \/ (IsInProgress(list[i]) /\ ~IsInProgress(list[j]))
        \/ ((IsInProgress(list[i]) <=> IsInProgress(list[j])) /\ (x > y \/ (x = y /\ i < j)))
    BY <1>5, <2>2, <2>3 DEF Before, Late
  <2> QED BY <2>2, <2>3, <2>4 DEF Sooner
<1> HIDE DEF R, D
<1>6. ASSUME NEW n \in D, NEW m \in D, n < m
      PROVE  place[n] # place[m] /\ <<place[n], place[m]>> \in R
  <2>1. n \in Nat /\ m \in Nat
    BY <1>1
  <2>2. place[n] # place[m]
    BY <1>4, <1>6, <2>1
  <2>3. CASE <<place[m], place[n]>> \in R
    <3>1. Cardinality(Ahead(D, R, place[m])) < Cardinality(Ahead(D, R, place[n]))
      BY <1>2, <1>3, <2>3, AheadFewer
    <3> QED BY <1>4, <1>6, <2>1, <3>1
  <2> QED BY <1>3, <2>2, <2>3 DEF TotalOn
<1>7. ASSUME NEW i \in D PROVE \E n \in D : place[n] = i
  <2>1. PICK c : c = Cardinality(Ahead(D, R, i))
    OBVIOUS
  <2>2. c + 1 \in D /\ (c + 1) - 1 = c
    <3>1. Ahead(D, R, i) \subseteq D \ {i}
      BY <1>3 DEF TotalOn, Ahead
    <3>2. IsFiniteSet(D \ {i}) /\ Cardinality(D \ {i}) = Len(list) - 1
      BY <1>2, FS_RemoveElement
    <3>3. IsFiniteSet(Ahead(D, R, i)) /\ Cardinality(Ahead(D, R, i)) <= Len(list) - 1
      BY <3>1, <3>2, FS_Subset
    <3>4. c \in Nat /\ c <= Len(list) - 1
      BY <2>1, <3>3, FS_CardinalityType
    <3> QED BY <1>1, <3>4
  <2>3. Cardinality(Ahead(D, R, place[c + 1])) = Cardinality(Ahead(D, R, i))
    BY <1>4, <2>1, <2>2
  <2>4. <<place[c + 1], i>> \notin R /\ <<i, place[c + 1]>> \notin R
    BY <1>2, <1>3, <2>2, <2>3, AheadFewer
  <2> QED BY <1>3, <2>2, <2>4 DEF TotalOn
<1>8. \A n, m \in D : n < m =>
        /\ place[n] # place[m]
        /\ \/ Sooner(list[place[n]], list[place[m]])
           \/ ~Sooner(list[place[m]], list[place[n]]) /\ place[n] < place[m]
  BY <1>5, <1>6
<1> QED BY <1>4, <1>7, <1>8 DEF D

-----------------------------------------------------------------------------
(* What set_identity stores. *)
LEMMA CleanEmpty == CleanEducation(<<>>) = <<>>
<1>1. <<>> \in Degrees /\ DOMAIN <<>> = {}
  BY DEF Degrees
<1>2. CleanEducation(<<>>) \in Degrees /\ DOMAIN CleanEducation(<<>>) = {}
  BY <1>1, CleanKept
<1> QED BY <1>2 DEF Degrees

LEMMA RouteTyped ==
  ASSUME NEW stored \in Degrees, stored # <<>>, NEW g, Fields(g, Key)
  PROVE  Route(stored, g) \in Degrees /\ Len(Route(stored, g)) = Len(stored)
<1> DEFINE o == OrderEducation(stored)
           e == [k \in EntryKey |-> IF k \in DOMAIN g \cap EduKey THEN g[k] ELSE o[1][k]]
<1>1. /\ o \in Seq([EntryKey -> Value]) /\ DOMAIN o = DOMAIN stored
      /\ stored \in Seq([EntryKey -> Value])
  BY OrderKept DEF Degrees
<1> HIDE DEF o
<1>2. Len(stored) \in Nat \ {0} /\ Len(o) = Len(stored) /\ 1 \in DOMAIN o
  BY <1>1
<1>3. e \in [EntryKey -> Value]
  <2>1. o[1] \in [EntryKey -> Value]
    BY <1>1, <1>2
  <2> QED BY <2>1 DEF Fields
<1> HIDE DEF e
<1>4. Route(stored, g) = [o EXCEPT ![1] = e]
  BY DEF Route, o, e
<1> QED BY <1>1, <1>2, <1>3, <1>4 DEF Degrees

LEMMA SetIdentityTyped ==
  ASSUME NEW f \in [Key -> Value], NEW list \in Degrees, Len(list) <= MaxEducation,
         NEW g, Fields(g, Key), NEW given \in BOOLEAN, NEW new \in Degrees,
         NEW id, id = SetIdentity(f, list, g, given, new)
  PROVE  /\ id.flat \in [Key -> Value]
         /\ id.degrees \in Degrees /\ Len(id.degrees) <= MaxEducation
<1> DEFINE stored == IF given THEN CleanEducation(new) ELSE CleanEducation(list)
<1>1. stored \in Degrees /\ Len(stored) <= MaxEducation
  BY CleanKept
<1>2. /\ id.flat = [k \in Key |-> IF k \in DOMAIN g /\ ~(stored # <<>> /\ k \in EduKey)
                                 THEN g[k]
                                 ELSE IF given /\ k \in EduKey THEN 0 ELSE f[k]]
      /\ id.degrees = IF given THEN stored
                      ELSE IF stored = <<>> \/ DOMAIN g \cap EduKey = {} THEN list
                      ELSE Route(stored, g)
  BY DEF SetIdentity
<1> HIDE DEF stored
<1>3. id.flat \in [Key -> Value]
  BY <1>2, FormsAssumption DEF Fields
<1>4. CASE id.degrees \in {stored, list}
  BY <1>1, <1>3, <1>4
<1>5. CASE stored # <<>> /\ id.degrees = Route(stored, g)
  BY <1>1, <1>3, <1>5, RouteTyped
<1> QED BY <1>2, <1>4, <1>5

(* Alone(f, list) is ListSpeaksAlone of what is stored. *)
Alone(f, list) == Listed(list) => \A k \in EduKey : f[k] = 0

LEMMA SetIdentityAlone ==
  ASSUME NEW f, NEW list, Alone(f, list), NEW g, NEW given \in BOOLEAN, NEW new,
         NEW id, id = SetIdentity(f, list, g, given, new)
  PROVE  Alone(id.flat, id.degrees)
<1> SUFFICES ASSUME Listed(id.degrees), NEW k \in EduKey PROVE id.flat[k] = 0
  BY DEF Alone
<1>1. k \in Key
  BY FormsAssumption
<1>2. CASE given
  <2>1. CleanEducation(new) # <<>>
    BY <1>2, CleanEmpty DEF SetIdentity, Listed
  <2> QED BY <1>1, <1>2, <2>1 DEF SetIdentity
<1>3. CASE ~given
  <2>1. CleanEducation(list) # <<>>
    BY <1>3 DEF SetIdentity, Listed
  <2>2. f[k] = 0
    BY <2>1 DEF Alone, Listed
  <2> QED BY <1>1, <1>3, <2>1, <2>2 DEF SetIdentity
<1> QED BY <1>2, <1>3

-----------------------------------------------------------------------------
(* What an import has in hand. *)
LEMMA MergeFound ==
  ASSUME NEW base, NEW over, Found(base), Found(over)
  PROVE  Found(MergeExtracted(base, over))
<1> DEFINE both(g, h) == [k \in DOMAIN g \cup DOMAIN h |->
                            IF k \in Filled(h) \/ k \notin DOMAIN g THEN h[k] ELSE g[k]]
           unsaid(i) == /\ over.facts[i] \notin ToSet(base.facts)
                        /\ \A j \in 1..(i - 1) : over.facts[j] # over.facts[i]
           I == {i \in DOMAIN over.facts : unsaid(i)}
           fields == both(base.fields, over.fields)
           list == IF over.list = <<>> THEN base.list ELSE over.list
           wanted == both(base.search, over.search)
           found == base.facts \o Entries(over.facts, I)
<1>1. MergeExtracted(base, over) = Extract(fields, list, wanted, found)
  BY DEF MergeExtracted
<1>2. ASSUME NEW K, NEW g, NEW h, Fields(g, K), Fields(h, K)
      PROVE  Fields(both(g, h), K)
  BY <1>2 DEF Fields, Filled
<1> HIDE DEF both
<1>3. Fields(fields, Key) /\ Fields(wanted, SearchKey)
  BY <1>2 DEF Found
<1>4. list \in Degrees
  BY DEF Found
<1>5. found \in Seq(Fact)
  <2>1. I \in SUBSET DOMAIN over.facts /\ over.facts \in Seq(Fact) /\ base.facts \in Seq(Fact)
    BY DEF Found
  <2> HIDE DEF I
  <2>2. Entries(over.facts, I) \in Seq(Fact)
    BY <2>1, EntriesTyped
  <2> QED BY <2>1, <2>2
<1> HIDE DEF fields, list, wanted, found
<1> QED BY <1>1, <1>3, <1>4, <1>5 DEF Found, Extract

LEMMA SanitizeFound ==
  ASSUME NEW x, Found(x)
  PROVE  Found(SanitizeExtracted(x))
<1> DEFINE fields == [k \in DOMAIN x.fields |->
                        IF k = "school" /\ x.fields[k] \in Noise THEN 0 ELSE x.fields[k]]
<1>1. Fields(fields, Key)
  BY FormsAssumption DEF Found, Fields
<1>2. SanitizeExtracted(x) = [x EXCEPT !.fields = fields]
  BY DEF SanitizeExtracted
<1> HIDE DEF fields
<1>3. SanitizeExtracted(x) = Extract(fields, x.list, x.search, x.facts)
  <2>1. x = [fields |-> x.fields, list |-> x.list, search |-> x.search, facts |-> x.facts]
    BY DEF Found, Extract
  <2> QED BY <1>2, <2>1 DEF Extract
<1> QED BY <1>1, <1>3 DEF Found, Extract

LEMMA ParsedFound ==
  ASSUME NEW d \in Documents, NEW x \in ParseDocument(d)
  PROVE  Found(x)
<1>1. Found(d.heuristic) /\ Found(d.model)
  BY FormsAssumption
<1>2. \A y \in LlmParse(d) : Found(y)
  BY <1>1, MergeFound DEF LlmParse
<1> QED BY <1>2, SanitizeFound DEF ParseDocument

LEMMA ExtractsFound ==
  ASSUME NEW x \in Extracts
  PROVE  Found(x)
<1>1. CASE \E d \in Documents : x \in ParseDocument(d)
  BY <1>1, ParsedFound
<1>2. ASSUME NEW a \in Accounts, x \in FetchGithub(a)
      PROVE  Found(x)
  <2>1. a.link \in Value /\ Found(a.profile) /\ "github" \in Key
    BY FormsAssumption
  <2> DEFINE g == [github |-> a.link]
             link == Extract(g, <<>>, <<>>, <<>>)
  <2>2. Fields(g, Key)
    BY <2>1 DEF Fields
  <2>3. Fields(<<>>, SearchKey)
    BY DEF Fields
  <2>4. <<>> \in Degrees /\ <<>> \in Seq(Fact)
    BY DEF Degrees
  <2> HIDE DEF g
  <2>5. Found(link)
    BY <2>2, <2>3, <2>4 DEF Found, Extract
  <2> QED BY <1>2, <2>1, <2>5 DEF FetchGithub, g
<1>3. ASSUME NEW l \in Links, NEW d \in Documents, x \in ImportLinkedin(l, d)
      PROVE  Found(x)
  <2>1. Found(l)
    BY FormsAssumption
  <2> QED BY <1>3, <2>1, ParsedFound, MergeFound, SanitizeFound DEF ImportLinkedin
<1> QED BY <1>1, <1>2, <1>3 DEF Extracts

LEMMA GapFieldsTyped ==
  ASSUME NEW f, NEW list, NEW x, Found(x)
  PROVE  Fields(GapFields(f, list, x), Key)
BY DEF GapFields, Found, Fields, Filled

LEMMA ApplyIdentityTyped ==
  ASSUME NEW f \in [Key -> Value], NEW list \in Degrees, Len(list) <= MaxEducation,
         NEW x, Found(x), NEW id, id = ApplyIdentity(f, list, x)
  PROVE  /\ id.flat \in [Key -> Value]
         /\ id.degrees \in Degrees /\ Len(id.degrees) <= MaxEducation
<1>1. x.list \in Degrees /\ Fields(GapFields(f, list, x), Key)
  BY GapFieldsTyped DEF Found
<1>2. ReplacesList(f, list, x) \in BOOLEAN
  BY DEF ReplacesList
<1> QED BY <1>1, <1>2, SetIdentityTyped DEF ApplyIdentity

-----------------------------------------------------------------------------
(* Types and the list. *)
FormsInv == TypeOK /\ Alone(flat, degrees)

LEMMA FormsInitial == Init => FormsInv
<1> SUFFICES ASSUME Init PROVE FormsInv
  OBVIOUS
<1>1. degrees \in Degrees /\ Len(degrees) <= MaxEducation
  <2>1. MaxEducation \in Nat \ {0}
    BY FormsAssumption
  <2>2. degrees = <<>>
    BY DEF Init
  <2>3. <<>> \in Degrees /\ Len(<<>>) = 0
    BY DEF Degrees
  <2> QED BY <2>1, <2>2, <2>3
<1>2. Alone(flat, degrees)
  BY CleanEmpty DEF Init, Alone, Listed
<1>3. TypeOK
  <2>1. MaxRequests \in Nat /\ 0 \in Value
    BY FormsAssumption
  <2>2. /\ flat = [k \in Key |-> 0] /\ search = [k \in SearchKey |-> 0]
        /\ facts = [x \in Fact |-> 0] /\ skips = [b \in Box |-> 0]
        /\ onboarding = "" /\ requests = 0 /\ last = ""
    BY DEF Init
  <2>3. flat \in [Key -> Value] /\ search \in [SearchKey -> Value]
    BY <2>1, <2>2
  <2>4. facts \in [Fact -> Nat] /\ skips \in [Box -> Nat] /\ requests \in 0..MaxRequests
    <3>1. [x \in Fact |-> 0] \in [Fact -> Nat] /\ [b \in Box |-> 0] \in [Box -> Nat]
      OBVIOUS
    <3>2. 0 \in 0..MaxRequests
      BY <2>1
    <3> QED BY <2>2, <3>1, <3>2
  <2> QED BY <1>1, <2>2, <2>3, <2>4 DEF TypeOK
<1> QED BY <1>2, <1>3 DEF FormsInv

LEMMA RequestTyped ==
  ASSUME TypeOK, NEW kind \in {"save", "search", "setup", "import", "knowledge", "fill"},
         Request(kind)
  PROVE  requests' \in 0..MaxRequests /\ last' = kind
<1>1. MaxRequests \in Nat
  BY FormsAssumption
<1>2. requests \in 0..MaxRequests
  BY DEF TypeOK
<1> QED BY <1>1, <1>2 DEF Request

LEMMA FormsStep == FormsInv /\ [Next]_vars => FormsInv'
<1> SUFFICES ASSUME FormsInv, [Next]_vars PROVE FormsInv'
  OBVIOUS
<1> USE DEF FormsInv
<1> DEFINE Rest == /\ search' \in [SearchKey -> Value] /\ facts' \in [Fact -> Nat]
                   /\ onboarding' \in {"", "started", "complete"} /\ skips' \in [Box -> Nat]
                   /\ requests' \in 0..MaxRequests
                   /\ last' \in {"", "save", "search", "setup", "import", "knowledge", "fill"}
           Stored == /\ flat' \in [Key -> Value] /\ degrees' \in Degrees
                     /\ Len(degrees') <= MaxEducation /\ Alone(flat, degrees)'
<1>1. ASSUME Rest, Stored PROVE FormsInv'
  BY <1>1 DEF TypeOK
<1>2. ASSUME UNCHANGED <<flat, degrees>> PROVE Stored
  BY <1>2 DEF TypeOK, Alone, Listed
<1>3. ASSUME NEW g, Fields(g, Key), NEW given \in BOOLEAN, NEW new \in Degrees,
             Identity(SetIdentity(flat, degrees, g, given, new))
      PROVE  Stored
  <2>1. PICK id : id = SetIdentity(flat, degrees, g, given, new)
    OBVIOUS
  <2>2. flat' = id.flat /\ degrees' = id.degrees
    BY <1>3, <2>1 DEF Identity
  <2>3. /\ id.flat \in [Key -> Value]
        /\ id.degrees \in Degrees /\ Len(id.degrees) <= MaxEducation
    BY <1>3, <2>1, SetIdentityTyped DEF TypeOK
  <2>4. Alone(id.flat, id.degrees)
    BY <2>1, SetIdentityAlone
  <2> QED BY <2>2, <2>3, <2>4 DEF Alone, Listed
<1>4. ASSUME NEW g \in Edits, SaveFields(g) PROVE FormsInv'
  <2>1. Fields(g, Key) /\ <<>> \in Degrees
    BY FormsAssumption DEF Degrees
  <2>2. Stored
    BY <1>3, <1>4, <2>1 DEF SaveFields
  <2>3. Rest
    BY <1>4, RequestTyped DEF SaveFields, TypeOK
  <2> QED BY <1>1, <2>2, <2>3
<1>5. ASSUME NEW list \in Lists, NEW g \in Edits, SaveDegrees(list, g) PROVE FormsInv'
  <2>1. Fields(g, Key) /\ list \in Degrees
    BY FormsAssumption
  <2>2. Stored
    BY <1>3, <1>5, <2>1 DEF SaveDegrees
  <2>3. Rest
    BY <1>5, RequestTyped DEF SaveDegrees, TypeOK
  <2> QED BY <1>1, <2>2, <2>3
<1>6. ASSUME NEW g \in Searches, SaveSearch(g) PROVE FormsInv'
  <2>1. Fields(g, SearchKey) /\ {"roles", "keywords"} \subseteq SearchKey
    BY FormsAssumption
  <2>2. search' \in [SearchKey -> Value]
    BY <1>6, <2>1 DEF SaveSearch, TypeOK, Fields
  <2>3. Rest
    BY <1>6, <2>2, RequestTyped DEF SaveSearch, TypeOK
  <2> QED BY <1>1, <1>2, <1>6, <2>3 DEF SaveSearch
<1>7. CASE MarkStarted
  <2>1. Rest
    BY <1>7, RequestTyped DEF MarkStarted, TypeOK
  <2> QED BY <1>1, <1>2, <1>7, <2>1 DEF MarkStarted
<1>8. CASE MarkComplete
  <2>1. Rest
    BY <1>8, RequestTyped DEF MarkComplete, TypeOK
  <2> QED BY <1>1, <1>2, <1>8, <2>1 DEF MarkComplete
<1>9. ASSUME NEW x \in Extracts, NEW searched \in BOOLEAN, NEW most \in 0..MaxKnowledge,
             Import(x, searched, most)
      PROVE  FormsInv'
  <2>1. Found(x)
    BY ExtractsFound
  <2>2. Stored
    <3>1. ReplacesList(flat, degrees, x) \in BOOLEAN /\ x.list \in Degrees
      BY <2>1 DEF ReplacesList, Found
    <3> QED BY <1>3, <1>9, <2>1, <3>1, GapFieldsTyped DEF Import, ApplyIdentity
  <2>3. search' \in [SearchKey -> Value]
    <3>1. Fields(x.search, SearchKey) /\ search \in [SearchKey -> Value]
      BY <2>1 DEF Found, TypeOK
    <3>2. ApplySearch(search, x) \in [SearchKey -> Value]
      BY <3>1 DEF ApplySearch, Fields, Filled
    <3> QED BY <1>9, <3>1, <3>2 DEF Import
  <2>4. facts' \in [Fact -> Nat]
    <3>1. \A f \in Fact : facts[f] \in Nat /\ facts[f] + 1 \in Nat
      <4>1. facts \in [Fact -> Nat]
        BY DEF TypeOK
      <4> QED BY <4>1
    <3>2. facts' = [f \in Fact |-> IF f \in NewFacts(facts, x.facts, most) THEN facts[f] + 1
                                   ELSE facts[f]]
      BY <1>9 DEF Import
    <3> QED BY <3>1, <3>2
  <2>5. Rest
    BY <1>9, <2>3, <2>4, RequestTyped DEF Import, TypeOK
  <2> QED BY <1>1, <2>2, <2>5
<1>10. ASSUME NEW f \in Fact, Remember(f) \/ Forget(f) PROVE FormsInv'
  <2>1. facts' \in [Fact -> Nat]
    <3>1. facts \in [Fact -> Nat]
      BY DEF TypeOK
    <3>2. facts' = [facts EXCEPT ![f] = @ + 1] \/ (facts[f] > 0 /\ facts' = [facts EXCEPT ![f] = @ - 1])
      BY <1>10 DEF Remember, Forget
    <3> QED BY <3>1, <3>2
  <2>2. Rest
    BY <1>10, <2>1, RequestTyped DEF Remember, Forget, TypeOK
  <2> QED BY <1>1, <1>2, <1>10, <2>2 DEF Remember, Forget
<1>11. ASSUME NEW page \in Pages, Fill(page) PROVE FormsInv'
  <2>1. skips' \in [Box -> Nat]
    <3>1. \A b \in Box : skips[b] \in Nat /\ skips[b] + 1 \in Nat
      <4>1. skips \in [Box -> Nat]
        BY DEF TypeOK
      <4> QED BY <4>1
    <3>2. PICK counted : counted =
            [b \in Box |-> b \in page /\ Outcome(View, b) \notin {"typed", "picked"}]
      OBVIOUS
    <3>3. skips' = [b \in Box |-> IF counted[b] THEN skips[b] + 1 ELSE skips[b]]
      BY <1>11, <3>2 DEF Fill, RecordSkips
    <3> QED BY <3>1, <3>3
  <2>2. Rest
    BY <1>11, <2>1, RequestTyped DEF Fill, TypeOK
  <2> QED BY <1>1, <1>2, <1>11, <2>2 DEF Fill
<1>12. CASE UNCHANGED vars
  BY <1>1, <1>2, <1>12 DEF vars, TypeOK
<1> QED BY <1>4, <1>5, <1>6, <1>7, <1>8, <1>9, <1>10, <1>11, <1>12 DEF Next

LEMMA FormsAlways == Spec => []FormsInv
BY FormsInitial, FormsStep, PTL DEF Spec

(* Whatever is saved and imported, in whatever order: fields and degrees are   *)
(* such, and there are never more degrees than a list may have.              *)
THEOREM FormsTyped == Spec => []TypeOK
<1>1. FormsInv => TypeOK
  BY DEF FormsInv
<1> QED BY <1>1, FormsAlways, PTL

(* Whichever client and import wrote what: beside a list of degrees no flat     *)
(* school, degree, GPA or year is left for a form to be given instead.        *)
THEOREM TheListSpeaks == Spec => []ListSpeaksAlone
<1>1. FormsInv => ListSpeaksAlone
  BY DEF FormsInv, Alone, ListSpeaksAlone
<1> QED BY <1>1, FormsAlways, PTL

-----------------------------------------------------------------------------
(* What an import leaves alone. *)
LEMMA GapsOnly ==
  ASSUME NEW f, NEW list, NEW x, NEW k \in DOMAIN GapFields(f, list, x)
  PROVE  GetIdentity(f, list)[k] = 0
BY DEF GapFields

(* A form sees a field of the first degree whenever that degree has one. *)
LEMMA FirstIsSeen ==
  ASSUME NEW f, NEW list, Listed(list), NEW k \in EduKey, GetIdentity(f, list)[k] = 0
  PROVE  OrderEducation(CleanEducation(list))[1][k] = 0
<1> DEFINE clean == CleanEducation(list)
           ordered == OrderEducation(clean)
<1>1. k \in Key
  BY FormsAssumption
<1>2. DerivedEducation(clean)[k] = 0
  BY <1>1 DEF GetIdentity, Listed
<1>3. ordered[1][k] # 0 => DerivedEducation(clean)[k] = ordered[1][k]
  BY DEF DerivedEducation
<1> QED BY <1>2, <1>3

LEMMA ImportKeepsFields ==
  ASSUME NEW f \in [Key -> Value], NEW list, NEW x, NEW id, id = ApplyIdentity(f, list, x),
         NEW k \in Key \ EduKey, GetIdentity(f, list)[k] # 0
  PROVE  GetIdentity(id.flat, id.degrees)[k] = GetIdentity(f, list)[k]
<1>1. k \notin DOMAIN GapFields(f, list, x)
  BY GapsOnly
<1>2. id.flat[k] = f[k]
  BY <1>1 DEF ApplyIdentity, SetIdentity
<1> QED BY <1>2 DEF GetIdentity

LEMMA ImportKeepsDegrees ==
  ASSUME NEW f, NEW list \in Degrees, NEW x, NEW id, id = ApplyIdentity(f, list, x),
         Len(Schooling(f, list)) > 1, NEW e \in ToSet(Schooling(f, list))
  PROVE  \E d \in ToSet(id.degrees) : \A k \in EntryKey : e[k] # 0 => d[k] = e[k]
<1> DEFINE g == GapFields(f, list, x)
           clean == CleanEducation(list)
           ordered == OrderEducation(clean)
<1>1. Listed(list) /\ Schooling(f, list) = ordered
  BY DEF Schooling
<1>2. /\ clean \in Degrees /\ DOMAIN ordered = DOMAIN clean
      /\ \A n \in DOMAIN clean : \E i \in DOMAIN clean : ordered[n] = clean[i]
      /\ \A n \in DOMAIN clean : \E i \in DOMAIN list : clean[n] = list[i]
  BY CleanKept, OrderKept
<1>3. PICK n \in DOMAIN clean : e = ordered[n]
  BY <1>1, <1>2 DEF ToSet
<1>4. ~ReplacesList(f, list, x)
  <2>1. \A m \in Int : m > 1 => ~(m < 2)
    OBVIOUS
  <2>2. Len(Schooling(f, list)) \in Int
    BY <1>1, <1>2, OrderKept DEF Degrees
  <2> QED BY <2>1, <2>2 DEF ReplacesList
<1>5. id.degrees = IF DOMAIN g \cap EduKey = {} THEN list ELSE Route(clean, g)
  BY <1>1, <1>4 DEF ApplyIdentity, SetIdentity, Listed
<1>6. CASE DOMAIN g \cap EduKey = {}
  <2>1. PICK i \in DOMAIN list : e = list[i]
    BY <1>2, <1>3
  <2>2. e \in ToSet(id.degrees)
    BY <1>5, <1>6, <2>1 DEF ToSet
  <2> QED BY <2>2
<1>7. CASE DOMAIN g \cap EduKey # {}
  <2> DEFINE first == [k \in EntryKey |-> IF k \in DOMAIN g \cap EduKey THEN g[k] ELSE ordered[1][k]]
  <2>1. id.degrees = [ordered EXCEPT ![1] = first]
    BY <1>5, <1>7 DEF Route
  <2>2. DOMAIN id.degrees = DOMAIN clean
    BY <1>2, <2>1
  <2>3. id.degrees[n] \in ToSet(id.degrees)
    BY <2>2 DEF ToSet
  <2>4. CASE n # 1
    BY <1>2, <1>3, <2>1, <2>3, <2>4
  <2>5. CASE n = 1
    <3>1. id.degrees[n] = first
      BY <1>2, <2>1, <2>5
    <3>2. ASSUME NEW k \in EntryKey, e[k] # 0 PROVE first[k] = e[k]
      <4>1. k \notin DOMAIN g \cap EduKey
        BY <1>1, <1>3, <2>5, <3>2, GapsOnly, FirstIsSeen
      <4> QED BY <1>3, <2>5, <4>1
    <3> QED BY <2>3, <3>1, <3>2
  <2> QED BY <2>4, <2>5
<1> QED BY <1>6, <1>7

LEMMA ImportKeepsFacts ==
  ASSUME NEW have, NEW found \in Seq(Fact), NEW most \in Int, NEW f \in NewFacts(have, found, most)
  PROVE  have[f] = 0
<1> DEFINE fresh(i) == have[found[i]] = 0 /\ \A j \in 1..(i - 1) : found[j] # found[i]
           I == {i \in DOMAIN found : fresh(i)}
<1>1. PICK n \in DOMAIN Entries(found, I) : f = Entries(found, I)[n]
  BY DEF NewFacts
<1>2. \E i \in I : Entries(found, I)[n] = found[i]
  <2>1. I \in SUBSET DOMAIN found
    OBVIOUS
  <2> HIDE DEF I
  <2> QED BY <1>1, <2>1, EntriesKept
<1> QED BY <1>1, <1>2

(* What ImportOnlyFillsGaps says of one step. *)
FillsGaps ==
  last' = "import" =>
    /\ \A k \in Key \ EduKey : View[k] # 0 => View'[k] = View[k]
    /\ \A k \in SearchKey : search[k] # 0 => search'[k] = search[k]
    /\ \A f \in Fact : facts[f] # 0 => facts'[f] = facts[f]
    /\ Len(Schooling(flat, degrees)) > 1 =>
         \A e \in ToSet(Schooling(flat, degrees)) : \E d \in ToSet(degrees') :
           \A k \in EntryKey : e[k] # 0 => d[k] = e[k]

LEMMA ImportFillsGaps ==
  ASSUME TypeOK, NEW x, Found(x), NEW searched \in BOOLEAN, NEW most \in 0..MaxKnowledge,
         Import(x, searched, most)
  PROVE  FillsGaps
<1>1. PICK id : id = ApplyIdentity(flat, degrees, x)
  OBVIOUS
<1>2. flat' = id.flat /\ degrees' = id.degrees
  BY <1>1 DEF Import, Identity
<1>3. flat \in [Key -> Value] /\ degrees \in Degrees /\ search \in [SearchKey -> Value]
  BY DEF TypeOK
<1>4. \A k \in Key \ EduKey : View[k] # 0 => View'[k] = View[k]
  <2>1. View = GetIdentity(flat, degrees) /\ View' = GetIdentity(id.flat, id.degrees)
    BY <1>2 DEF View
  <2> QED BY <1>1, <1>3, <2>1, ImportKeepsFields
<1>5. \A k \in SearchKey : search[k] # 0 => search'[k] = search[k]
  BY DEF Import, ApplySearch
<1>6. \A f \in Fact : facts[f] # 0 => facts'[f] = facts[f]
  <2>1. x.facts \in Seq(Fact) /\ most \in Int
    BY DEF Found
  <2> QED BY <2>1, ImportKeepsFacts DEF Import
<1>7. ASSUME Len(Schooling(flat, degrees)) > 1, NEW e \in ToSet(Schooling(flat, degrees))
      PROVE  \E d \in ToSet(degrees') : \A k \in EntryKey : e[k] # 0 => d[k] = e[k]
  BY <1>1, <1>2, <1>3, <1>7, ImportKeepsDegrees
<1> QED BY <1>4, <1>5, <1>6, <1>7 DEF FillsGaps

LEMMA OnlyImportsImport ==
  ASSUME TypeOK, Next, last' = "import"
  PROVE  \E x \in Extracts, searched \in BOOLEAN, most \in 0..MaxKnowledge :
           Import(x, searched, most)
BY DEF Next, Request, SaveFields, SaveDegrees, SaveSearch, MarkStarted, MarkComplete,
       Remember, Forget, Fill

(* Whatever a document, GitHub or LinkedIn says, however it is merged, and at    *)
(* whichever write an import is cut short: what was filled stays as it was,    *)
(* no fact is added twice, and a list of degrees keeps every word of each.     *)
THEOREM ImportsFillGaps == Spec => ImportOnlyFillsGaps
<1>1. FormsInv /\ [Next]_vars => [FillsGaps]_vars
  <2> SUFFICES ASSUME FormsInv, Next, last' = "import" PROVE FillsGaps
    BY DEF FillsGaps
  <2>1. TypeOK
    BY DEF FormsInv
  <2>2. PICK x \in Extracts, searched \in BOOLEAN, most \in 0..MaxKnowledge :
               Import(x, searched, most)
    BY <2>1, OnlyImportsImport
  <2> QED BY <2>1, <2>2, ExtractsFound, ImportFillsGaps
<1>2. ImportOnlyFillsGaps <=> [][FillsGaps]_vars
  BY DEF ImportOnlyFillsGaps, FillsGaps
<1> QED BY <1>1, <1>2, FormsAlways, PTL DEF Spec

-----------------------------------------------------------------------------
(* Choosing: the first of some places, the least of some keys. *)
LEMMA LeastKeyed ==
  ASSUME NEW I \in SUBSET Int, IsFiniteSet(I), I # {}, NEW key \in [I -> Int]
  PROVE  \E i \in I : \A j \in I : key[i] <= key[j]
<1> DEFINE R == {p \in I \X I : \/ key[p[1]] < key[p[2]]
                              \/ (key[p[1]] = key[p[2]] /\ p[1] < p[2])}
<1>1. \A i, j \in I : <<i, j>> \in R <=> (key[i] < key[j] \/ (key[i] = key[j] /\ i < j))
  OBVIOUS
<1> HIDE DEF R
<1>2. TotalOn(I, R)
  BY <1>1 DEF TotalOn
<1>3. Cardinality(I) \in Nat /\ Cardinality(I) # 0
  BY FS_CardinalityType, FS_EmptySet
<1>4. PICK b \in I : Cardinality(Ahead(I, R, b)) = 0
  <2>1. 1 \in 1..Cardinality(I) /\ 1 - 1 = 0
    BY <1>3
  <2> QED BY <1>2, <2>1, PlaceTaken
<1>5. Ahead(I, R, b) = {}
  <2>1. IsFiniteSet(Ahead(I, R, b))
    BY FS_Subset DEF Ahead
  <2> QED BY <1>4, <2>1, FS_EmptySet
<1>6. \A j \in I : ~(key[j] < key[b])
  BY <1>1, <1>5 DEF Ahead
<1> QED BY <1>6

FirstAt(s, I) == IF I = {} THEN NoPick ELSE s[Min(I)]

LEMMA LeastPlace ==
  ASSUME NEW n \in Nat, NEW I \in SUBSET (1..n), I # {}
  PROVE  Min(I) \in I /\ \A j \in I : Min(I) <= j
<1>1. IsFiniteSet(I) /\ I \in SUBSET Int
  <2>1. IsFiniteSet(1..n)
    BY FS_Interval
  <2>2. I \in SUBSET Int
    OBVIOUS
  <2> QED BY <2>1, <2>2, FS_Subset
<1> DEFINE key == [i \in I |-> i]
<1>2. key \in [I -> Int]
  BY <1>1
<1>3. \E i \in I : \A j \in I : key[i] <= key[j]
  BY <1>1, <1>2, LeastKeyed
<1>4. \E i \in I : \A j \in I : i <= j
  BY <1>3
<1> QED BY <1>4 DEF Min

LEMMA FirstAtChosen ==
  ASSUME NEW X, NEW s \in Seq(X), NEW I \in SUBSET (1..Len(s)), I # {}
  PROVE  Min(I) # 0 /\ \E i \in I : FirstAt(s, I) = s[i]
<1>1. Len(s) \in Nat
  OBVIOUS
<1>2. PICK m : m = Min(I)
  OBVIOUS
<1>3. m \in I
  BY <1>1, <1>2, LeastPlace
<1>4. m # 0
  BY <1>1, <1>3
<1> QED BY <1>2, <1>3, <1>4 DEF FirstAt

(* FirstWhere of SelectValue's readers, one after another. *)
LEMMA FirstTry ==
  ASSUME NEW t, t \in Seq({t[i] : i \in 1..7}), Len(t) = 7,
         NEW n \in 1..7, t[n] # NoPick, \A m \in 1..(n - 1) : t[m] = NoPick
  PROVE  FirstWhere(t, LAMBDA p : p # NoPick) = t[n]
<1> DEFINE I == {i \in 1..Len(t) : t[i] # NoPick}
<1>1. n \in I /\ I \in SUBSET (1..7)
  OBVIOUS
<1>2. \A i \in I : n <= i
  OBVIOUS
<1>3. FirstWhere(t, LAMBDA p : p # NoPick) =
        (IF (IF I # {} THEN Min(I) ELSE 0) = 0 THEN NoPick ELSE t[IF I # {} THEN Min(I) ELSE 0])
  BY DEF FirstWhere, SelectInSeq
<1> HIDE DEF I
<1>4. PICK m : m = Min(I)
  OBVIOUS
<1>5. m \in I /\ \A j \in I : m <= j
  <2>1. I # {} /\ 7 \in Nat
    BY <1>1
  <2> QED BY <1>1, <1>4, <2>1, LeastPlace
<1>6. m = n
  <2>1. m \in Int /\ n \in Int /\ m <= n /\ n <= m
    BY <1>1, <1>2, <1>5
  <2> QED BY <2>1
<1> QED BY <1>1, <1>3, <1>4, <1>6

(* Each reader takes the first of some places, or nothing. *)
Chosen(opts, p) == p \in ToSet(opts) \cup {NoPick}

LEMMA FirstAtTaken ==
  ASSUME NEW X, NEW opts \in Seq(X), NEW I \in SUBSET (1..Len(opts)), NEW p,
         p = IF (IF I # {} THEN Min(I) ELSE 0) = 0 THEN NoPick
             ELSE opts[IF I # {} THEN Min(I) ELSE 0]
  PROVE  p = FirstAt(opts, I) /\ Chosen(opts, p)
<1>1. CASE I = {}
  BY <1>1 DEF FirstAt, Chosen
<1>2. CASE I # {}
  <2>1. Min(I) # 0 /\ \E i \in I : FirstAt(opts, I) = opts[i]
    BY <1>2, FirstAtChosen
  <2>2. p = FirstAt(opts, I)
    BY <1>2, <2>1 DEF FirstAt
  <2> QED BY <2>1, <2>2 DEF Chosen, ToSet
<1> QED BY <1>1, <1>2

LEMMA EducationChooses ==
  ASSUME NEW X, NEW opts \in Seq(X), NEW v
  PROVE  /\ Chosen(opts, EducationPick(opts, v))
         /\ EducationPick(opts, v) =
              IF CountWhere(opts, NamesLevel) < 2 \/ v.level = 0 THEN NoPick
              ELSE FirstAt(opts, {i \in 1..Len(opts) : opts[i].level = v.level})
<1> DEFINE I == {i \in 1..Len(opts) : opts[i].level = v.level}
           p == IF (IF I # {} THEN Min(I) ELSE 0) = 0 THEN NoPick
                ELSE opts[IF I # {} THEN Min(I) ELSE 0]
<1>1. EducationPick(opts, v) = IF CountWhere(opts, NamesLevel) < 2 \/ v.level = 0 THEN NoPick ELSE p
  BY DEF EducationPick, FirstWhere, SelectInSeq, CountWhere, NamesLevel
<1>2. I \in SUBSET (1..Len(opts))
  OBVIOUS
<1> HIDE DEF I
<1>3. p = FirstAt(opts, I) /\ Chosen(opts, p)
  BY <1>2, FirstAtTaken
<1> HIDE DEF p
<1> QED BY <1>1, <1>3 DEF I, Chosen

LEMMA GpaChooses ==
  ASSUME NEW X, NEW opts \in Seq(X), NEW v
  PROVE  /\ Chosen(opts, GpaRangePick(opts, v))
         /\ v.nums = <<>> => GpaRangePick(opts, v) = NoPick
         /\ \A n : v.nums = <<n>> /\ GpaRangePick(opts, v) # NoPick =>
              /\ Spans(GpaRangePick(opts, v), {"range", "or under"})
              /\ Holds(GpaRangePick(opts, v), n)
<1> DEFINE k == SelectInSeq(v.nums, LAMBDA n : n < 50)
           banded(o) == Spans(o, {"range", "or under"})
           key(o) == IF o.kind = "range" THEN o.hi - o.lo ELSE 990
           hits == {opts[i] : i \in {i \in DOMAIN opts : banded(opts[i]) /\ Holds(opts[i], v.nums[k])}}
           I == {i \in 1..Len(opts) : opts[i] \in hits /\ \A h \in hits : key(opts[i]) <= key(h)}
           p == IF (IF I # {} THEN Min(I) ELSE 0) = 0 THEN NoPick
                ELSE opts[IF I # {} THEN Min(I) ELSE 0]
<1>1. GpaRangePick(opts, v) = IF k = 0 \/ CountWhere(opts, banded) < 2 THEN NoPick ELSE p
  BY DEF GpaRangePick, LeastWhere, FirstWhere, SelectInSeq
<1>2. I \in SUBSET (1..Len(opts))
  OBVIOUS
<1>3. p = FirstAt(opts, I) /\ Chosen(opts, p)
  <2> HIDE DEF I
  <2> QED BY <1>2, FirstAtTaken
<1>4. v.nums = <<>> => k = 0
  BY DEF SelectInSeq
<1>5. ASSUME NEW n, v.nums = <<n>>, k # 0, p # NoPick
      PROVE  banded(p) /\ Holds(p, n)
  <2>1. v.nums = <<n>> /\ k # 0 /\ p # NoPick
    <3> HIDE DEF p, k
    <3> QED BY <1>5
  <2>2. k = 1
    <3> DEFINE K == {i \in 1..Len(v.nums) : v.nums[i] < 50}
    <3>1. k = IF K # {} THEN Min(K) ELSE 0
      BY DEF SelectInSeq
    <3> HIDE DEF k
    <3>2. K \in SUBSET (1..1)
      BY <2>1
    <3> HIDE DEF K
    <3>3. K # {} /\ k = Min(K)
      BY <2>1, <3>1
    <3>4. k \in K
      BY <3>2, <3>3, LeastPlace
    <3> QED BY <3>2, <3>4
  <2> HIDE DEF k, p
  <2>3. I # {}
    BY <1>3, <2>1 DEF FirstAt
  <2>4. PICK i \in I : p = opts[i]
    <3> HIDE DEF I
    <3> QED BY <1>2, <1>3, <2>3, FirstAtChosen
  <2>5. p \in hits
    <3> HIDE DEF hits, key
    <3> QED BY <2>4
  <2>6. <<n>>[1] = n
    OBVIOUS
  <2>7. v.nums[1] = n /\ v.nums[k] = v.nums[1]
    BY <2>1, <2>2, <2>6
  <2>8. banded(p) /\ Holds(p, v.nums[k])
    <3> HIDE DEF key, banded
    <3> QED BY <2>5
  <2> QED BY <2>7, <2>8
<1> HIDE DEF k, p
<1> QED BY <1>1, <1>3, <1>4, <1>5 DEF Chosen

LEMMA DateChooses ==
  ASSUME NEW X, NEW opts \in Seq(X), NEW v
  PROVE  /\ Chosen(opts, DateBucketPick(opts, v))
         /\ (v.year = 0 /\ v.months = {}) => DateBucketPick(opts, v) = NoPick
<1> DEFINE dated(o) == o.year # 0 \/ o.months # {}
           bucket(o) == o.year # 0 \/ Cardinality(o.months) > 1
           fits(o) ==
             /\ dated(o)
             /\ (v.year = 0 \/ o.year = 0 \/ v.year = o.year)
             /\ IF v.months # {} /\ o.months # {}
                THEN \E m \in v.months : MonthsOf(o).lo <= m /\ m <= MonthsOf(o).hi
                ELSE v.months = {} /\ v.year # 0 /\ o.year = v.year
           off(o) ==
             IF v.months = {} \/ o.months = {} THEN 0
             ELSE LET d == MonthsOf(o).lo + MonthsOf(o).hi - 2 * MonthsOf(v).lo
                  IN IF d < 0 THEN 0 - d ELSE d
           monthOnly == \A i \in DOMAIN opts : opts[i].year = 0 /\ Cardinality(opts[i].months) = 1
           hits == {opts[i] : i \in {i \in DOMAIN opts : fits(opts[i])}}
           I == {i \in 1..Len(opts) : opts[i] \in hits /\ \A h \in hits : off(opts[i]) <= off(h)}
           p == IF (IF I # {} THEN Min(I) ELSE 0) = 0 THEN NoPick
                ELSE opts[IF I # {} THEN Min(I) ELSE 0]
<1>1. DateBucketPick(opts, v) =
        IF ~dated(v) \/ (CountWhere(opts, bucket) < 2 /\ ~monthOnly) THEN NoPick ELSE p
  BY DEF DateBucketPick, LeastWhere, FirstWhere, SelectInSeq
<1>2. I \in SUBSET (1..Len(opts))
  OBVIOUS
<1>3. Chosen(opts, p)
  <2> HIDE DEF I
  <2> QED BY <1>2, FirstAtTaken
<1>4. (v.year = 0 /\ v.months = {}) => ~dated(v)
  OBVIOUS
<1> HIDE DEF p, dated, monthOnly
<1> QED BY <1>1, <1>3, <1>4 DEF Chosen

LEMMA YearChooses ==
  ASSUME NEW X, NEW opts \in Seq(X), NEW v
  PROVE  /\ Chosen(opts, YearPick(opts, v))
         /\ v.year = 0 => YearPick(opts, v) = NoPick
<1> DEFINE bare(o) == o.year # 0 /\ o.months = {} /\ o.nums = <<10 * o.year>>
           I == {i \in 1..Len(opts) : bare(opts[i]) /\ opts[i].year = v.year}
           p == IF (IF I # {} THEN Min(I) ELSE 0) = 0 THEN NoPick
                ELSE opts[IF I # {} THEN Min(I) ELSE 0]
<1>1. YearPick(opts, v) = IF v.year = 0 \/ CountWhere(opts, bare) < 3 THEN NoPick ELSE p
  BY DEF YearPick, FirstWhere, SelectInSeq
<1>2. I \in SUBSET (1..Len(opts))
  OBVIOUS
<1>3. Chosen(opts, p)
  <2> HIDE DEF I
  <2> QED BY <1>2, FirstAtTaken
<1> HIDE DEF p
<1> QED BY <1>1, <1>3 DEF Chosen

LEMMA YesNoChooses ==
  ASSUME NEW X, NEW opts \in Seq(X), NEW v
  PROVE  /\ Chosen(opts, YesNoPick(opts, v))
         /\ v.says = {} => YesNoPick(opts, v) = NoPick
         /\ (AsYesNo(v) # "none" /\ Offers(opts, "yes") /\ Offers(opts, "no")) =>
              OptionYesNo(YesNoPick(opts, v)) = AsYesNo(v)
<1> DEFINE I == {i \in 1..Len(opts) : OptionYesNo(opts[i]) = AsYesNo(v)}
           p == IF (IF I # {} THEN Min(I) ELSE 0) = 0 THEN NoPick
                ELSE opts[IF I # {} THEN Min(I) ELSE 0]
<1>1. YesNoPick(opts, v) =
        IF AsYesNo(v) = "none" \/ ~Offers(opts, "yes") \/ ~Offers(opts, "no") THEN NoPick ELSE p
  BY DEF YesNoPick, FirstWhere, SelectInSeq
<1>2. I \in SUBSET (1..Len(opts))
  OBVIOUS
<1>3. p = FirstAt(opts, I) /\ Chosen(opts, p)
  <2> HIDE DEF I
  <2> QED BY <1>2, FirstAtTaken
<1>4. v.says = {} => AsYesNo(v) = "none"
  BY DEF AsYesNo
<1> HIDE DEF p
<1>5. ASSUME AsYesNo(v) # "none", Offers(opts, "yes"), Offers(opts, "no")
      PROVE  OptionYesNo(p) = AsYesNo(v)
  <2>1. AsYesNo(v) \in {"yes", "no"}
    BY <1>5 DEF AsYesNo
  <2>2. I # {}
    BY <1>5, <2>1 DEF Offers
  <2>3. \E i \in I : p = opts[i]
    <3> HIDE DEF I
    <3> QED BY <1>2, <1>3, <2>2, FirstAtChosen
  <2> QED BY <2>3
<1> QED BY <1>1, <1>3, <1>4, <1>5 DEF Chosen

LEMMA LeastExists ==
  ASSUME NEW n \in Nat, NEW H \in SUBSET (1..n), H # {}, NEW key \in [H -> Int]
  PROVE  \E i \in H : \A j \in H : key[i] <= key[j]
<1>1. IsFiniteSet(1..n)
  BY FS_Interval
<1>2. IsFiniteSet(H)
  BY <1>1, FS_Subset
<1>3. H \in SUBSET Int
  OBVIOUS
<1> QED BY <1>2, <1>3, LeastKeyed

LEMMA NumericChooses ==
  ASSUME NEW X, NEW opts \in Seq(X), NEW v,
         \A i \in DOMAIN opts : opts[i].lo \in Int /\ opts[i].hi \in Int
  PROVE  /\ Chosen(opts, NumericBucketPick(opts, v))
         /\ v.nums = <<>> => NumericBucketPick(opts, v) = NoPick
         /\ \A n \in Int :
              /\ v.nums = <<n>> /\ CountWhere(opts, IsSpan) >= 2
              /\ \E i \in DOMAIN opts : IsSpan(opts[i]) /\ Holds(opts[i], n)
              => IsSpan(NumericBucketPick(opts, v)) /\ Holds(NumericBucketPick(opts, v), n)
<1> DEFINE x == ValueNumber(v)
           width(o) == (IF o.kind = "plus" THEN Open ELSE o.hi - o.lo) * 1000 - o.lo
           H == {i \in DOMAIN opts : IsSpan(opts[i]) /\ Holds(opts[i], x)}
           hits == {opts[i] : i \in H}
           I == {i \in 1..Len(opts) : opts[i] \in hits /\ \A h \in hits : width(opts[i]) <= width(h)}
           p == IF (IF I # {} THEN Min(I) ELSE 0) = 0 THEN NoPick
                ELSE opts[IF I # {} THEN Min(I) ELSE 0]
<1>1. NumericBucketPick(opts, v) =
        IF v.nums = <<>> \/ CountWhere(opts, IsSpan) < 2 THEN NoPick ELSE p
  BY DEF NumericBucketPick, LeastWhere, FirstWhere, SelectInSeq, CountWhere, IsSpan
<1>2. I \in SUBSET (1..Len(opts)) /\ Len(opts) \in Nat /\ DOMAIN opts = 1..Len(opts)
  OBVIOUS
<1>3. p = FirstAt(opts, I) /\ Chosen(opts, p)
  <2> HIDE DEF I
  <2> QED BY <1>2, FirstAtTaken
<1>4. ASSUME NEW n \in Int, v.nums = <<n>>,
             \E i \in DOMAIN opts : IsSpan(opts[i]) /\ Holds(opts[i], n)
      PROVE  IsSpan(p) /\ Holds(p, n)
  <2>1. x = n
    <3>1. \A w : w = <<n>> => {w[i] : i \in DOMAIN w} = {n}
      OBVIOUS
    <3>2. ToSet(v.nums) = {n}
      BY <1>4, <3>1 DEF ToSet
    <3> QED BY <3>2 DEF ValueNumber
  <2> HIDE DEF x
  <2>2. H # {} /\ H \in SUBSET (1..Len(opts))
    BY <1>2, <1>4, <2>1
  <2> DEFINE key == [i \in H |-> width(opts[i])]
  <2>3. key \in [H -> Int]
    <3>1. \A i \in H : opts[i].lo \in Int /\ opts[i].hi \in Int
      OBVIOUS
    <3> HIDE DEF H
    <3> QED BY <3>1 DEF Open
  <2>4. \E i \in H : \A j \in H : key[i] <= key[j]
    <3> HIDE DEF H, key
    <3> QED BY <1>2, <2>2, <2>3, LeastExists
  <2>5. PICK i \in H : \A j \in H : width(opts[i]) <= width(opts[j])
    <3> HIDE DEF H, width
    <3> QED BY <2>4
  <2>6. i \in I
    <3> HIDE DEF H, width
    <3> QED BY <2>2, <2>5
  <2>7. PICK j \in I : p = opts[j]
    <3> HIDE DEF I, p
    <3> QED BY <1>2, <1>3, <2>6, FirstAtChosen
  <2>8. p \in hits
    <3> HIDE DEF p, hits, width
    <3> QED BY <2>7
  <2> HIDE DEF p
  <2> QED BY <2>1, <2>8
<1> HIDE DEF p
<1>5. \A n \in Int : v.nums = <<n>> => v.nums # <<>>
  OBVIOUS
<1>6. CountWhere(opts, IsSpan) \in Nat
  <2>1. IsFiniteSet(1..Len(opts))
    BY <1>2, FS_Interval
  <2>2. IsFiniteSet({i \in DOMAIN opts : IsSpan(opts[i])})
    BY <1>2, <2>1, FS_Subset
  <2> QED BY <2>2, FS_CardinalityType DEF CountWhere
<1>7. CountWhere(opts, IsSpan) >= 2 => ~(CountWhere(opts, IsSpan) < 2)
  BY <1>6
<1> QED BY <1>1, <1>3, <1>4, <1>5, <1>7 DEF Chosen

LEMMA Sixtieths ==
  ASSUME NEW x \in Nat, NEW y \in Nat, y # 0, x <= y
  PROVE  (60 * x) \div y \in 0..60
OBVIOUS

LEMMA OptionScoreBelow ==
  ASSUME NEW want, IsFiniteSet(want), NEW words, IsFiniteSet(words), words # {}, NEW head
  PROVE  OptionScore(want, words, head) \in 0..240
<1> DEFINE negated(ws) == {"not", "no", "never", "none"} \cap ws # {}
           within(a, b) == \A w \in a : w \in b \/ (w = "no" /\ {"not", "none"} \cap b # {})
<1>1. PICK a : a = Cardinality(want)
  OBVIOUS
<1>2. PICK b : b = Cardinality(words)
  OBVIOUS
<1>3. PICK shared : shared = Cardinality(want \cap words)
  OBVIOUS
<1>4. a \in Nat /\ b \in Nat /\ b # 0 /\ (want # {} => a # 0)
  BY <1>1, <1>2, FS_CardinalityType, FS_EmptySet
<1>5. shared \in Nat /\ shared <= a /\ shared <= b
  <2>1. IsFiniteSet(want \cap words)
    BY FS_Subset
  <2> QED BY <1>1, <1>2, <1>3, <2>1, FS_Subset, FS_CardinalityType
<1>6. OptionScore(want, words, head) =
        IF negated(want) # negated(words) THEN 0
        ELSE IF within(want, words) \/ within(words, want)
             THEN 180 + (60 * (IF a < b THEN a ELSE b)) \div (IF a < b THEN b ELSE a)
        ELSE IF head # "" /\ head \notin words THEN 0
        ELSE (60 * shared) \div a + (60 * shared) \div b
  BY <1>1, <1>2, <1>3 DEF OptionScore
<1>7. want = {} => within(want, words)
  OBVIOUS
<1> HIDE DEF negated, within
<1>8. (60 * (IF a < b THEN a ELSE b)) \div (IF a < b THEN b ELSE a) \in 0..60
  <2>1. CASE a < b
    BY <1>4, <2>1, Sixtieths
  <2>2. CASE ~(a < b)
    BY <1>4, <2>2, Sixtieths
  <2> QED BY <2>1, <2>2
<1>9. (60 * shared) \div b \in 0..60
  BY <1>4, <1>5, Sixtieths
<1>10. want # {} => (60 * shared) \div a \in 0..60
  BY <1>4, <1>5, Sixtieths
<1>11. PICK s1 : s1 = (60 * (IF a < b THEN a ELSE b)) \div (IF a < b THEN b ELSE a)
  OBVIOUS
<1>12. PICK s2 : s2 = (60 * shared) \div a
  OBVIOUS
<1>13. PICK s3 : s3 = (60 * shared) \div b
  OBVIOUS
<1>14. s1 \in 0..60 /\ s3 \in 0..60 /\ (want # {} => s2 \in 0..60)
  BY <1>8, <1>9, <1>10, <1>11, <1>12, <1>13
<1>15. OptionScore(want, words, head) \in {0, 180 + s1, s2 + s3}
  BY <1>6, <1>11, <1>12, <1>13
<1>16. OptionScore(want, words, head) = s2 + s3 /\ want = {} =>
         OptionScore(want, words, head) \in {0, 180 + s1}
  BY <1>6, <1>7, <1>11, <1>12, <1>13
<1> QED BY <1>14, <1>15, <1>16

(* An option that says the same scores more than any that does not. *)
LEMMA ScoreChooses ==
  ASSUME NEW X, NEW opts \in Seq(X), NEW v, IsFiniteSet(v.words), IsFiniteSet(v.full),
         \A i \in DOMAIN opts : IsFiniteSet(opts[i].words) /\ IsFiniteSet(opts[i].full)
  PROVE  /\ Chosen(opts, ScorePick(opts, v))
         /\ /\ v.words = v.full /\ v.full # {}
            /\ \E i \in DOMAIN opts : opts[i].words = v.full /\ opts[i].full = v.full
            => v.full \in {ScorePick(opts, v).words, ScorePick(opts, v).full}
<1> DEFINE expand == v.comma \/ v.state = "code" \/ \E i \in DOMAIN opts : opts[i].comma
           Words(o) == IF expand THEN o.full ELSE o.words
           score(o) == IF Words(o) = {} THEN 0
                       ELSE IF Words(o) = Words(v) THEN 600
                       ELSE OptionScore(Words(v), Words(o), v.head)
           key(o) == 0 - score(o)
           H == {i \in DOMAIN opts : score(opts[i]) >= 30}
           hits == {opts[i] : i \in H}
           I == {i \in 1..Len(opts) : opts[i] \in hits /\ \A h \in hits : key(opts[i]) <= key(h)}
           p == IF (IF I # {} THEN Min(I) ELSE 0) = 0 THEN NoPick
                ELSE opts[IF I # {} THEN Min(I) ELSE 0]
<1>1. ScorePick(opts, v) = p
  BY DEF ScorePick, LeastWhere, FirstWhere, SelectInSeq
<1>2. I \in SUBSET (1..Len(opts)) /\ Len(opts) \in Nat /\ DOMAIN opts = 1..Len(opts)
  OBVIOUS
<1>3. p = FirstAt(opts, I) /\ Chosen(opts, p)
  <2> HIDE DEF I
  <2> QED BY <1>2, FirstAtTaken
<1>4. ASSUME NEW i \in DOMAIN opts
      PROVE  score(opts[i]) \in Int /\ (score(opts[i]) >= 600 => Words(opts[i]) = Words(v))
  <2>1. IsFiniteSet(Words(opts[i])) /\ IsFiniteSet(Words(v))
    OBVIOUS
  <2>2. Words(opts[i]) # {} => OptionScore(Words(v), Words(opts[i]), v.head) \in 0..240
    <3> HIDE DEF Words
    <3> QED BY <2>1, OptionScoreBelow
  <2> HIDE DEF Words
  <2>3. PICK sc : sc = OptionScore(Words(v), Words(opts[i]), v.head)
    OBVIOUS
  <2>4. score(opts[i]) = (IF Words(opts[i]) = {} THEN 0
                          ELSE IF Words(opts[i]) = Words(v) THEN 600 ELSE sc)
    BY <2>3
  <2> HIDE DEF score
  <2>5. Words(opts[i]) # {} => sc \in 0..240
    BY <2>2, <2>3
  <2>6. CASE Words(opts[i]) = Words(v)
    BY <2>4, <2>6
  <2>7. CASE Words(opts[i]) # Words(v)
    <3>1. PICK n : n = score(opts[i])
      OBVIOUS
    <3>2. n = 0 \/ (n = sc /\ sc \in 0..240)
      BY <2>4, <2>5, <2>7, <3>1
    <3>3. n \in 0..240
      BY <3>2
    <3>4. n \in Int /\ ~(n >= 600)
      BY <3>3
    <3> QED BY <3>1, <3>4
  <2> QED BY <2>6, <2>7
<1>5. ASSUME v.words = v.full, v.full # {},
             NEW i \in DOMAIN opts, opts[i].words = v.full, opts[i].full = v.full
      PROVE  v.full \in {p.words, p.full}
  <2>1. Words(v) = v.full /\ Words(opts[i]) = v.full
    BY <1>5
  <2>2. score(opts[i]) = 600
    <3> HIDE DEF Words
    <3> QED BY <1>5, <2>1
  <2> DEFINE keys == [j \in H |-> key(opts[j])]
  <2> HIDE DEF score
  <2>3. i \in H /\ H \in SUBSET (1..Len(opts))
    BY <1>2, <2>2
  <2>4. keys \in [H -> Int]
    BY <1>4
  <2>5. \E b \in H : \A j \in H : keys[b] <= keys[j]
    <3> HIDE DEF H, keys
    <3> QED BY <1>2, <2>3, <2>4, LeastExists
  <2>6. PICK b \in H : \A j \in H : key(opts[b]) <= key(opts[j])
    <3> HIDE DEF H, key
    <3> QED BY <2>5
  <2>7. b \in I
    <3> HIDE DEF H, key
    <3> QED BY <2>3, <2>6
  <2>8. PICK j \in I : p = opts[j]
    <3> HIDE DEF I, p
    <3> QED BY <1>2, <1>3, <2>7, FirstAtChosen
  <2>9. j \in DOMAIN opts /\ key(opts[j]) <= key(opts[i])
    <3> HIDE DEF p, key, H
    <3> QED BY <1>2, <2>3
  <2>10. Words(opts[j]) = Words(v)
    <3> HIDE DEF I, Words
    <3> QED BY <1>4, <2>2, <2>9
  <2>11. Words(opts[j]) \in {opts[j].words, opts[j].full}
    OBVIOUS
  <2> HIDE DEF p, Words
  <2> QED BY <2>1, <2>8, <2>10, <2>11
<1> HIDE DEF p
<1> QED BY <1>1, <1>3, <1>5

-----------------------------------------------------------------------------
(* One reader after another. *)
FirstTaken(tries) == FirstWhere(tries, LAMBDA p : p # NoPick)

LEMMA FirstOfSeven ==
  ASSUME NEW p1, NEW p2, NEW p3, NEW p4, NEW p5, NEW p6, NEW p7
  PROVE  FirstTaken(<<p1, p2, p3, p4, p5, p6, p7>>) =
           IF p1 # NoPick THEN p1 ELSE IF p2 # NoPick THEN p2 ELSE IF p3 # NoPick THEN p3
           ELSE IF p4 # NoPick THEN p4 ELSE IF p5 # NoPick THEN p5
           ELSE IF p6 # NoPick THEN p6 ELSE p7
<1>1. PICK t : t = <<p1, p2, p3, p4, p5, p6, p7>>
  OBVIOUS
<1>2. /\ t[1] = p1 /\ t[2] = p2 /\ t[3] = p3 /\ t[4] = p4
      /\ t[5] = p5 /\ t[6] = p6 /\ t[7] = p7
  BY <1>1
<1>3. t \in Seq({p1, p2, p3, p4, p5, p6, p7}) /\ Len(t) = 7
  BY <1>1
<1>4. {t[i] : i \in 1..7} = {p1, p2, p3, p4, p5, p6, p7}
  BY <1>2
<1>5. ASSUME NEW n \in 1..7, t[n] # NoPick, \A m \in 1..(n - 1) : t[m] = NoPick
      PROVE  FirstTaken(t) = t[n]
  BY <1>3, <1>4, <1>5, FirstTry DEF FirstTaken
<1>6. (\A n \in 1..7 : t[n] = NoPick) => FirstTaken(t) = NoPick
  BY <1>3 DEF FirstTaken, FirstWhere, SelectInSeq
<1>7. PICK f : f = FirstTaken(t)
  OBVIOUS
<1>8. /\ \A n \in 1..7 : t[n] # NoPick /\ (\A m \in 1..(n - 1) : t[m] = NoPick) => f = t[n]
      /\ (\A n \in 1..7 : t[n] = NoPick) => f = NoPick
  BY <1>5, <1>6, <1>7
<1>9. f = IF p1 # NoPick THEN p1 ELSE IF p2 # NoPick THEN p2 ELSE IF p3 # NoPick THEN p3
          ELSE IF p4 # NoPick THEN p4 ELSE IF p5 # NoPick THEN p5
          ELSE IF p6 # NoPick THEN p6 ELSE p7
  BY <1>2, <1>8
<1> QED BY <1>1, <1>7, <1>9

Tried(opts, v) ==
  FirstTaken(<<EducationPick(opts, v), GpaRangePick(opts, v), DateBucketPick(opts, v),
               YearPick(opts, v), YesNoPick(opts, v), NumericBucketPick(opts, v),
               ScorePick(opts, v)>>)

Exact(opts, value) == FirstWhere(opts, LAMBDA o : o.text = value.text)

LEMMA ExactChooses ==
  ASSUME NEW X, NEW opts \in Seq(X), NEW value
  PROVE  /\ Chosen(opts, Exact(opts, value))
         /\ Exact(opts, value) # NoPick => Exact(opts, value).text = value.text
<1> DEFINE I == {i \in 1..Len(opts) : opts[i].text = value.text}
           p == IF (IF I # {} THEN Min(I) ELSE 0) = 0 THEN NoPick
                ELSE opts[IF I # {} THEN Min(I) ELSE 0]
<1>1. Exact(opts, value) = p
  BY DEF Exact, FirstWhere, SelectInSeq
<1>2. I \in SUBSET (1..Len(opts))
  OBVIOUS
<1>3. p = FirstAt(opts, I) /\ Chosen(opts, p)
  <2> HIDE DEF I
  <2> QED BY <1>2, FirstAtTaken
<1> HIDE DEF p
<1>4. ASSUME p # NoPick PROVE p.text = value.text
  <2>1. I # {}
    BY <1>3, <1>4 DEF FirstAt
  <2>2. \E i \in I : p = opts[i]
    <3> HIDE DEF I
    <3> QED BY <1>2, <1>3, <2>1, FirstAtChosen
  <2> QED BY <2>2
<1> QED BY <1>1, <1>3, <1>4

LEMMA SelectValueIs ==
  ASSUME NEW options, NEW value
  PROVE  LET opts == Entries(options, {i \in DOMAIN options : options[i].text \notin Placeholder})
             v == ExpandBareState(value, opts)
         IN SelectValue(options, value) =
              IF Exact(opts, value) # NoPick \/ v.words = {} THEN Exact(opts, value)
              ELSE Tried(opts, v)
BY DEF SelectValue, Exact, Tried, FirstTaken

LEMMA TriedIs ==
  ASSUME NEW opts, NEW v
  PROVE  LET p1 == EducationPick(opts, v)
             p2 == GpaRangePick(opts, v)
             p3 == DateBucketPick(opts, v)
             p4 == YearPick(opts, v)
             p5 == YesNoPick(opts, v)
             p6 == NumericBucketPick(opts, v)
             p7 == ScorePick(opts, v)
         IN Tried(opts, v) =
              IF p1 # NoPick THEN p1 ELSE IF p2 # NoPick THEN p2 ELSE IF p3 # NoPick THEN p3
              ELSE IF p4 # NoPick THEN p4 ELSE IF p5 # NoPick THEN p5
              ELSE IF p6 # NoPick THEN p6 ELSE p7
BY FirstOfSeven DEF Tried

(* What the readers find for a value read as in YesOrNo, Figure, Wording and    *)
(* NamesDegree.                                                           *)
OptionsRead(opts) == \A i \in DOMAIN opts : Reading(opts[i])

LEMMA TriedChosen ==
  ASSUME NEW X, NEW opts \in Seq(X), OptionsRead(opts), NEW v, Reading(v)
  PROVE  Chosen(opts, Tried(opts, v))
<1>1. \A i \in DOMAIN opts : /\ opts[i].lo \in Int /\ opts[i].hi \in Int
                             /\ IsFiniteSet(opts[i].words) /\ IsFiniteSet(opts[i].full)
  BY DEF OptionsRead, Reading
<1>2. IsFiniteSet(v.words) /\ IsFiniteSet(v.full)
  BY DEF Reading
<1>3. Chosen(opts, EducationPick(opts, v)) /\ Chosen(opts, GpaRangePick(opts, v))
  BY EducationChooses, GpaChooses
<1>4. Chosen(opts, DateBucketPick(opts, v)) /\ Chosen(opts, YearPick(opts, v))
  BY DateChooses, YearChooses
<1>5. Chosen(opts, YesNoPick(opts, v)) /\ Chosen(opts, NumericBucketPick(opts, v))
  BY <1>1, YesNoChooses, NumericChooses
<1>6. Chosen(opts, ScorePick(opts, v))
  BY <1>1, <1>2, ScoreChooses
<1> QED BY <1>3, <1>4, <1>5, <1>6, TriedIs

LEMMA NothingRead ==
  NoPick.level = 0 /\ NoPick.kind = "none" /\ NoPick.says = {} /\ NoPick.full = {}
BY DEF NoPick

LEMMA YesNoTried ==
  ASSUME NEW X, NEW opts \in Seq(X), OptionsRead(opts), NEW v, YesOrNo(v),
         \E i \in DOMAIN opts : "opens yes" \in opts[i].says /\ "decline" \notin opts[i].says,
         \E i \in DOMAIN opts : "opens no" \in opts[i].says /\ "decline" \notin opts[i].says
  PROVE  LET pick == Tried(opts, v)
         IN /\ pick # NoPick /\ "decline" \notin pick.says
            /\ {"opens yes", "opens no"} \cap pick.says \subseteq {"opens yes", "opens no"} \cap v.says
<1> DEFINE pick == YesNoPick(opts, v)
<1>1. v.level = 0 /\ v.nums = <<>> /\ v.year = 0 /\ v.months = {}
  BY DEF YesOrNo
<1>2. EducationPick(opts, v) = NoPick /\ GpaRangePick(opts, v) = NoPick
  BY <1>1, EducationChooses, GpaChooses
<1>3. DateBucketPick(opts, v) = NoPick /\ YearPick(opts, v) = NoPick
  BY <1>1, DateChooses, YearChooses
<1>4. Offers(opts, "yes") /\ Offers(opts, "no")
  <2>1. PICK i \in DOMAIN opts : "opens yes" \in opts[i].says /\ "decline" \notin opts[i].says
    OBVIOUS
  <2>2. PICK j \in DOMAIN opts : "opens no" \in opts[j].says /\ "decline" \notin opts[j].says
    OBVIOUS
  <2>3. "opens yes" \notin opts[j].says
    BY <2>2 DEF OptionsRead, Reading
  <2> QED BY <2>1, <2>2, <2>3 DEF Offers, OptionYesNo
<1>5. /\ v.says = {"opens yes"} => AsYesNo(v) = "yes"
      /\ v.says = {"opens no"} => AsYesNo(v) = "no"
      /\ v.says = {"opens yes"} \/ v.says = {"opens no"}
  BY DEF YesOrNo, AsYesNo
<1>6. OptionYesNo(pick) = AsYesNo(v)
  BY <1>4, <1>5, YesNoChooses
<1>7. pick # NoPick
  <2>1. OptionYesNo(NoPick) = "none"
    BY NothingRead DEF OptionYesNo
  <2> QED BY <1>5, <1>6, <2>1
<1>8. Tried(opts, v) = pick
  BY <1>2, <1>3, <1>7, TriedIs
<1> HIDE DEF pick
<1>9. /\ "decline" \notin pick.says
      /\ OptionYesNo(pick) = "yes" /\ "opens yes" \notin pick.says => "opens no" \notin pick.says
      /\ OptionYesNo(pick) = "no" => "opens yes" \notin pick.says
  BY <1>5, <1>6 DEF OptionYesNo
<1>10. Chosen(opts, pick)
  BY YesNoChooses DEF pick
<1>11. pick \in ToSet(opts)
  BY <1>7, <1>10 DEF Chosen
<1>12. "opens yes" \in pick.says => "opens no" \notin pick.says
  BY <1>11 DEF OptionsRead, Reading, ToSet
<1> QED BY <1>5, <1>6, <1>7, <1>8, <1>9, <1>12

LEMMA FigureTried ==
  ASSUME NEW X, NEW opts \in Seq(X), OptionsRead(opts), NEW v, Figure(v), v.nums \in Seq(Int),
         CountWhere(opts, IsSpan) >= 2,
         \E i \in DOMAIN opts : IsSpan(opts[i]) /\ Holds(opts[i], v.nums[1])
  PROVE  Tried(opts, v) # NoPick /\ Tried(opts, v).kind # "none" /\ Holds(Tried(opts, v), v.nums[1])
<1>1. PICK n : n = v.nums[1]
  OBVIOUS
<1>2. n \in Int /\ v.nums = <<n>>
  BY <1>1 DEF Figure
<1>3. v.level = 0 /\ v.year = 0 /\ v.months = {} /\ v.says = {}
  BY DEF Figure
<1>4. EducationPick(opts, v) = NoPick
  BY <1>3, EducationChooses
<1>5. DateBucketPick(opts, v) = NoPick /\ YearPick(opts, v) = NoPick
  BY <1>3, DateChooses, YearChooses
<1>6. YesNoPick(opts, v) = NoPick
  BY <1>3, YesNoChooses
<1>7. GpaRangePick(opts, v) # NoPick =>
        /\ Spans(GpaRangePick(opts, v), {"range", "or under"})
        /\ Holds(GpaRangePick(opts, v), n)
  BY <1>2, GpaChooses
<1>8. IsSpan(NumericBucketPick(opts, v)) /\ Holds(NumericBucketPick(opts, v), n)
  <2>1. \A i \in DOMAIN opts : opts[i].lo \in Int /\ opts[i].hi \in Int
    BY DEF OptionsRead, Reading
  <2>2. \E i \in DOMAIN opts : IsSpan(opts[i]) /\ Holds(opts[i], n)
    BY <1>1
  <2> QED BY <1>2, <2>1, <2>2, NumericChooses
<1>9. \A p : Spans(p, {"range", "or under"}) \/ IsSpan(p) => p.kind # "none" /\ p # NoPick
  BY NothingRead DEF Spans, IsSpan
<1>10. Tried(opts, v) = IF GpaRangePick(opts, v) # NoPick THEN GpaRangePick(opts, v)
                        ELSE NumericBucketPick(opts, v)
  BY <1>4, <1>5, <1>6, <1>8, <1>9, TriedIs
<1> QED BY <1>1, <1>7, <1>8, <1>9, <1>10

LEMMA WordingTried ==
  ASSUME NEW X, NEW opts \in Seq(X), OptionsRead(opts), NEW v, Reading(v),
         v.level = 0, v.nums = <<>>, v.year = 0, v.months = {}, v.says = {},
         v.words = v.full, v.full # {},
         \E i \in DOMAIN opts : opts[i].words = v.full /\ opts[i].full = v.full
  PROVE  v.full \in {Tried(opts, v).words, Tried(opts, v).full}
<1>1. EducationPick(opts, v) = NoPick /\ GpaRangePick(opts, v) = NoPick
  BY EducationChooses, GpaChooses
<1>2. DateBucketPick(opts, v) = NoPick /\ YearPick(opts, v) = NoPick
  BY DateChooses, YearChooses
<1>3. \A i \in DOMAIN opts : /\ opts[i].lo \in Int /\ opts[i].hi \in Int
                             /\ IsFiniteSet(opts[i].words) /\ IsFiniteSet(opts[i].full)
  BY DEF OptionsRead, Reading
<1>4. YesNoPick(opts, v) = NoPick /\ NumericBucketPick(opts, v) = NoPick
  BY <1>3, YesNoChooses, NumericChooses
<1>5. v.full \in {ScorePick(opts, v).words, ScorePick(opts, v).full}
  <2>1. IsFiniteSet(v.words) /\ IsFiniteSet(v.full)
    BY DEF Reading
  <2> QED BY <1>3, <2>1, ScoreChooses
<1>6. Tried(opts, v) = ScorePick(opts, v)
  BY <1>1, <1>2, <1>4, TriedIs
<1> QED BY <1>5, <1>6

LEMMA DegreeTried ==
  ASSUME NEW X, NEW opts \in Seq(X), NEW v, NamesDegree(v), CountWhere(opts, NamesLevel) >= 2,
         \E i \in DOMAIN opts : opts[i].level = v.level
  PROVE  Tried(opts, v) # NoPick /\ Tried(opts, v).level = v.level
<1> DEFINE I == {i \in 1..Len(opts) : opts[i].level = v.level}
<1>1. v.level # 0
  BY DEF NamesDegree, NamesLevel
<1>2. CountWhere(opts, NamesLevel) \in Nat
  <2>1. Len(opts) \in Nat /\ DOMAIN opts = 1..Len(opts)
    OBVIOUS
  <2>2. IsFiniteSet(1..Len(opts))
    BY <2>1, FS_Interval
  <2>3. IsFiniteSet({i \in DOMAIN opts : NamesLevel(opts[i])})
    BY <2>1, <2>2, FS_Subset
  <2> QED BY <2>3, FS_CardinalityType DEF CountWhere
<1>3. ~(CountWhere(opts, NamesLevel) < 2)
  BY <1>2
<1>4. EducationPick(opts, v) = FirstAt(opts, I)
  BY <1>1, <1>3, EducationChooses
<1>5. I # {} /\ I \in SUBSET (1..Len(opts))
  OBVIOUS
<1>6. \E i \in I : FirstAt(opts, I) = opts[i]
  <2> HIDE DEF I
  <2> QED BY <1>5, FirstAtChosen
<1>7. EducationPick(opts, v).level = v.level
  BY <1>4, <1>6
<1>8. EducationPick(opts, v) # NoPick
  BY <1>1, <1>7, NothingRead
<1> QED BY <1>7, <1>8, TriedIs

-----------------------------------------------------------------------------
(* A form and a person. *)
LEMMA ViewTyped ==
  ASSUME TypeOK
  PROVE  View \in [Key -> Value]
<1> DEFINE clean == CleanEducation(degrees)
           ordered == OrderEducation(clean)
           I == {i \in DOMAIN ordered : ordered[i]["gpa"] # 0 /\ ~IsInProgress(ordered[i])}
           earned == Entries(ordered, I)
           derived == DerivedEducation(clean)
<1>1. flat \in [Key -> Value] /\ degrees \in Degrees
  BY DEF TypeOK
<1>2. clean \in Degrees
  BY <1>1, CleanKept
<1>3. ordered \in Degrees /\ Len(ordered) = Len(clean)
  <2> HIDE DEF clean
  <2> QED BY <1>2, OrderKept
<1>4. earned \in Degrees
  <2> HIDE DEF ordered
  <2>1. ordered \in Seq([EntryKey -> Value]) /\ I \in SUBSET DOMAIN ordered
    BY <1>3 DEF Degrees
  <2> HIDE DEF I
  <2> QED BY <2>1, EntriesTyped DEF Degrees
<1>5. ASSUME clean # <<>>, NEW k \in EduKey PROVE derived[k] \in Value
  <2>1. derived[k] = IF k = "gpa" /\ ordered[1][k] = 0 /\ earned # <<>> THEN earned[1][k]
                     ELSE ordered[1][k]
    BY DEF DerivedEducation
  <2> HIDE DEF clean, ordered, I, earned, derived
  <2>2. 1 \in DOMAIN ordered
    BY <1>2, <1>3, <1>5 DEF Degrees
  <2>3. ordered[1] \in [EntryKey -> Value]
    BY <1>3, <2>2 DEF Degrees
  <2>4. earned # <<>> => earned[1] \in [EntryKey -> Value]
    BY <1>4 DEF Degrees
  <2>5. k \in EntryKey
    BY DEF EntryKey
  <2> QED BY <2>1, <2>3, <2>4, <2>5
<1>6. View = [k \in Key |-> IF k \in EduKey /\ clean # <<>> /\ derived[k] # 0 THEN derived[k] ELSE flat[k]]
  BY DEF View, GetIdentity
<1> HIDE DEF clean, derived
<1> QED BY <1>1, <1>5, <1>6

LEMMA FieldAsked ==
  ASSUME NEW box, Signals(box)
  PROVE  MatchField(box) \in Key \cup {""} /\ (Sensitive(box) => MatchField(box) = "")
<1> DEFINE signals == <<box.label, box.autocomplete, box.name, box.id, box.type>>
           I == {i \in 1..Len(signals) : signals[i] # ""}
           i == IF I # {} THEN Min(I) ELSE 0
<1>1. MatchField(box) = IF Sensitive(box) \/ i = 0 THEN "" ELSE signals[i]
  BY DEF MatchField, SelectInSeq
<1>2. Len(signals) = 5
  OBVIOUS
<1>3. ~Sensitive(box) => \A j \in 1..5 : signals[j] \in Key \cup {""}
  <2>1. /\ signals[1] = box.label /\ signals[2] = box.autocomplete /\ signals[3] = box.name
        /\ signals[4] = box.id /\ signals[5] = box.type
    OBVIOUS
  <2>2. {box.autocomplete, box.type} \subseteq Key \cup {""}
    BY DEF Signals
  <2>3. ~Sensitive(box) => {box.label, box.name, box.id} \subseteq Key \cup {""}
    <3>1. {box.label, box.name, box.id} \subseteq Key \cup {"", "sensitive"}
      BY DEF Signals
    <3> QED BY <3>1 DEF Sensitive
  <2>4. \A j \in 1..5 : j \in {1, 2, 3, 4, 5}
    OBVIOUS
  <2> HIDE DEF signals
  <2> QED BY <2>1, <2>2, <2>3, <2>4
<1> HIDE DEF signals
<1>4. I \in SUBSET (1..5) /\ 5 \in Nat
  BY <1>2
<1>5. i = 0 \/ i \in 1..5
  <2> HIDE DEF I
  <2> QED BY <1>4, LeastPlace
<1> HIDE DEF i
<1> QED BY <1>1, <1>3, <1>5

LEMMA TwoCounted ==
  ASSUME NEW n \in Nat, NEW H \in SUBSET (1..n), NEW a \in H, NEW b \in H, a # b
  PROVE  Cardinality(H) >= 2
<1>1. IsFiniteSet(1..n)
  BY FS_Interval
<1>2. IsFiniteSet(H)
  BY <1>1, FS_Subset
<1>3. IsFiniteSet({a}) /\ Cardinality({a}) = 1 /\ IsFiniteSet({a} \cup {b})
  BY FS_Singleton, FS_AddElement
<1>4. Cardinality({a} \cup {b}) = 2
  BY <1>3, FS_AddElement
<1>5. Cardinality({a} \cup {b}) <= Cardinality(H)
  BY <1>2, FS_Subset
<1>6. Cardinality(H) \in Nat
  BY <1>2, FS_CardinalityType
<1> QED BY <1>4, <1>5, <1>6

LEMMA EntriesSet ==
  ASSUME NEW X, NEW s \in Seq(X), NEW I \in SUBSET DOMAIN s
  PROVE  /\ Entries(s, I) \in Seq({s[i] : i \in I})
         /\ ToSet(Entries(s, I)) = {s[i] : i \in I}
<1>1. PICK opts : opts = Entries(s, I)
  OBVIOUS
<1>2. PICK n : n = Cardinality(I)
  OBVIOUS
<1>3. /\ n \in Nat /\ DOMAIN opts = 1..n
      /\ \A m \in 1..n : \E i \in I : opts[m] = s[i]
  BY <1>1, <1>2, EntriesKept
<1>4. opts = [m \in 1..n |-> opts[m]]
  BY <1>1, <1>2 DEF Entries
<1>5. opts \in Seq({s[i] : i \in I})
  BY <1>3, <1>4
<1>6. \E place \in [I -> DOMAIN Entries(s, I)] : \A i \in I : Entries(s, I)[place[i]] = s[i]
  BY EntriesAll
<1>7. \A i \in I : \E m \in DOMAIN opts : opts[m] = s[i]
  BY <1>1, <1>6
<1>8. ToSet(opts) = {s[i] : i \in I}
  BY <1>3, <1>7 DEF ToSet
<1> QED BY <1>1, <1>5, <1>8

LEMMA TwoKept ==
  ASSUME NEW X, NEW s \in Seq(X), NEW I \in SUBSET DOMAIN s, NEW T,
         NEW i \in I, NEW j \in I, i # j, s[i] \in T, s[j] \in T
  PROVE  Cardinality({m \in DOMAIN Entries(s, I) : Entries(s, I)[m] \in T}) >= 2
<1>1. PICK opts : opts = Entries(s, I)
  OBVIOUS
<1>2. PICK n \in Nat : DOMAIN opts = 1..n
  BY <1>1, EntriesKept
<1>3. PICK a, b : a \in DOMAIN opts /\ b \in DOMAIN opts /\ a # b /\ opts[a] = s[i] /\ opts[b] = s[j]
  BY <1>1, EntriesAll
<1> DEFINE H == {m \in DOMAIN opts : opts[m] \in T}
<1>4. H \in SUBSET (1..n) /\ a \in H /\ b \in H
  BY <1>2, <1>3
<1> HIDE DEF H
<1>5. Cardinality(H) >= 2
  BY <1>3, <1>4, TwoCounted
<1> QED BY <1>1, <1>5 DEF H

LEMMA OptionsOffered ==
  ASSUME NEW box, Signals(box), NEW opts,
         opts = Entries(box.options, {i \in DOMAIN box.options : box.options[i].text \notin Placeholder})
  PROVE  /\ opts \in Seq(RealOptions(box)) /\ ToSet(opts) = RealOptions(box)
         /\ OptionsRead(opts)
         /\ Lists2(box, IsSpan) => CountWhere(opts, IsSpan) >= 2
         /\ Lists2(box, NamesLevel) => CountWhere(opts, NamesLevel) >= 2
<1>1. PICK s : s = box.options
  OBVIOUS
<1>2. PICK I : I = {i \in DOMAIN s : s[i].text \notin Placeholder}
  OBVIOUS
<1>3. PICK X : s \in Seq(X) /\ \A i \in DOMAIN s : Reading(s[i])
  BY <1>1 DEF Signals, ToSet
<1>4. RealOptions(box) = {s[i] : i \in I}
  BY <1>1, <1>2 DEF RealOptions
<1>5. opts = Entries(s, I) /\ I \in SUBSET DOMAIN s
  BY <1>1, <1>2
<1>6. opts \in Seq(RealOptions(box)) /\ ToSet(opts) = RealOptions(box)
  BY <1>3, <1>4, <1>5, EntriesSet
<1>7. \A o \in ToSet(opts) : Reading(o)
  BY <1>3, <1>4, <1>5, <1>6
<1>8. OptionsRead(opts)
  BY <1>7 DEF OptionsRead, ToSet
<1>9. ASSUME Lists2(box, IsSpan) PROVE CountWhere(opts, IsSpan) >= 2
  <2> DEFINE T == {o \in ToSet(opts) : IsSpan(o)}
  <2>1. PICK i \in I, j \in I : i # j /\ IsSpan(s[i]) /\ IsSpan(s[j])
    BY <1>1, <1>2, <1>9 DEF Lists2
  <2>2. s[i] \in T /\ s[j] \in T
    BY <1>4, <1>6, <2>1
  <2>3. {m \in DOMAIN opts : opts[m] \in T} = {m \in DOMAIN opts : IsSpan(opts[m])}
    BY DEF ToSet
  <2> HIDE DEF T
  <2>4. Cardinality({m \in DOMAIN opts : opts[m] \in T}) >= 2
    BY <1>3, <1>5, <2>1, <2>2, TwoKept
  <2> QED BY <2>3, <2>4 DEF CountWhere
<1>10. ASSUME Lists2(box, NamesLevel) PROVE CountWhere(opts, NamesLevel) >= 2
  <2> DEFINE T == {o \in ToSet(opts) : NamesLevel(o)}
  <2>1. PICK i \in I, j \in I : i # j /\ NamesLevel(s[i]) /\ NamesLevel(s[j])
    BY <1>1, <1>2, <1>10 DEF Lists2
  <2>2. s[i] \in T /\ s[j] \in T
    BY <1>4, <1>6, <2>1
  <2>3. {m \in DOMAIN opts : opts[m] \in T} = {m \in DOMAIN opts : NamesLevel(opts[m])}
    BY DEF ToSet
  <2> HIDE DEF T
  <2>4. Cardinality({m \in DOMAIN opts : opts[m] \in T}) >= 2
    BY <1>3, <1>5, <2>1, <2>2, TwoKept
  <2> QED BY <2>3, <2>4 DEF CountWhere
<1> QED BY <1>6, <1>8, <1>9, <1>10

LEMMA ExpandRead ==
  ASSUME NEW opts, NEW value, Reading(value)
  PROVE  LET v == ExpandBareState(value, opts)
         IN /\ Reading(v)
            /\ value.state # "code" => v = value
            /\ v # value => v = [value EXCEPT !.words = value.full]
            /\ value.state = "code" /\ (\E i \in DOMAIN opts : opts[i].state = "name") =>
                 v = [value EXCEPT !.words = value.full]
<1>1. PICK v : v = ExpandBareState(value, opts)
  OBVIOUS
<1>2. v = value \/ v = [value EXCEPT !.words = value.full]
  BY <1>1 DEF ExpandBareState
<1>3. Reading([value EXCEPT !.words = value.full])
  BY DEF Reading, NoPick
<1>4. Reading(v)
  BY <1>2, <1>3
<1>5. /\ value.state # "code" => v = value
      /\ value.state = "code" /\ (\E i \in DOMAIN opts : opts[i].state = "name") =>
           v = [value EXCEPT !.words = value.full]
  BY <1>1 DEF ExpandBareState
<1> QED BY <1>1, <1>2, <1>4, <1>5

(* What FillsHonestly says of a question that asks for a field. *)
Honest(box, options, w, pick) ==
  /\ pick \in options \cup {NoPick}
  /\ (YesOrNo(w) /\ (\E o \in options : "opens yes" \in o.says /\ "decline" \notin o.says)
       /\ (\E o \in options : "opens no" \in o.says /\ "decline" \notin o.says))
       => /\ pick \in options /\ "decline" \notin pick.says
          /\ ({"opens yes", "opens no"} \cap pick.says)
               \subseteq ({"opens yes", "opens no"} \cap w.says)
  /\ (Figure(w) /\ Lists2(box, IsSpan) /\ \E o \in options : IsSpan(o) /\ Holds(o, w.nums[1]))
       => (pick \in options /\ pick.kind # "none" /\ Holds(pick, w.nums[1])) \/ pick.text = w.text
  /\ (Wording(w, options) /\ (\E o \in options : o.words = w.full /\ o.full = w.full))
       => w.full \in {pick.words, pick.full}
  /\ (NamesDegree(w) /\ Lists2(box, NamesLevel) /\ (\E o \in options : o.level = w.level))
       => pick.level = w.level

LEMMA FilledHonestly ==
  ASSUME TypeOK, NEW box \in Box, MatchField(box) # ""
  PROVE  Honest(box, RealOptions(box), Autofill(View, MatchField(box)), Pick(View, box))
<1> SUFFICES ASSUME NEW options, options = RealOptions(box),
                    NEW w, w = Autofill(View, MatchField(box)),
                    NEW pick, pick = Pick(View, box)
             PROVE  Honest(box, options, w, pick)
  OBVIOUS
<1>1. Signals(box)
  BY FormsAssumption
<1>2. PICK opts : opts = Entries(box.options, {i \in DOMAIN box.options : box.options[i].text \notin Placeholder})
  OBVIOUS
<1>3. opts \in Seq(options) /\ ToSet(opts) = options /\ OptionsRead(opts)
  BY <1>1, <1>2, OptionsOffered
<1>4. /\ Lists2(box, IsSpan) => CountWhere(opts, IsSpan) >= 2
      /\ Lists2(box, NamesLevel) => CountWhere(opts, NamesLevel) >= 2
  BY <1>1, <1>2, OptionsOffered
<1>5. Reading(w) /\ \A o \in options : o.text = w.text => o = w
  <2>1. PICK k \in Key : k = MatchField(box)
    BY <1>1, FieldAsked
  <2>2. PICK x \in Value : x = View[k]
    BY ViewTyped
  <2>3. w = Text[k][x]
    BY <2>1, <2>2 DEF Autofill
  <2>4. options \subseteq ToSet(box.options)
    BY DEF RealOptions, ToSet
  <2>5. Reading(Text[k][x]) /\ \A o \in ToSet(box.options) : o.text = Text[k][x].text => o = Text[k][x]
    BY FormsAssumption
  <2> QED BY <2>3, <2>4, <2>5
<1>6. PICK v : v = ExpandBareState(w, opts)
  OBVIOUS
<1>7. /\ Reading(v) /\ (w.state # "code" => v = w)
      /\ v # w => v = [w EXCEPT !.words = w.full]
      /\ w.state = "code" /\ (\E o \in options : o.state = "name") => v = [w EXCEPT !.words = w.full]
  <2>1. (\E o \in options : o.state = "name") => \E i \in DOMAIN opts : opts[i].state = "name"
    BY <1>3 DEF ToSet
  <2>2. /\ Reading(v) /\ (w.state # "code" => v = w)
        /\ v # w => v = [w EXCEPT !.words = w.full]
        /\ w.state = "code" /\ (\E i \in DOMAIN opts : opts[i].state = "name") =>
             v = [w EXCEPT !.words = w.full]
    BY <1>5, <1>6, ExpandRead
  <2> QED BY <2>1, <2>2
<1>8. PICK e : e = Exact(opts, w)
  OBVIOUS
<1>9. e \in options \cup {NoPick} /\ (e # NoPick => e \in options /\ e = w)
  BY <1>3, <1>5, <1>8, ExactChooses DEF Chosen
<1>10. pick = IF e # NoPick \/ v.words = {} THEN e ELSE Tried(opts, v)
  <2>1. pick = SelectValue(box.options, w)
    BY DEF Pick
  <2>2. SelectValue(box.options, w) =
          IF Exact(opts, w) # NoPick \/ v.words = {} THEN Exact(opts, w) ELSE Tried(opts, v)
    BY <1>2, <1>6, SelectValueIs
  <2> QED BY <1>8, <2>1, <2>2
<1>11. Tried(opts, v) \in options \cup {NoPick}
  BY <1>3, <1>7, TriedChosen DEF Chosen
<1>12. \A o \in options : \E i \in DOMAIN opts : opts[i] = o
  BY <1>3 DEF ToSet
<1>13. ASSUME YesOrNo(w), \E o \in options : "opens yes" \in o.says /\ "decline" \notin o.says,
              \E o \in options : "opens no" \in o.says /\ "decline" \notin o.says
       PROVE  /\ pick \in options /\ "decline" \notin pick.says
              /\ ({"opens yes", "opens no"} \cap pick.says)
                   \subseteq ({"opens yes", "opens no"} \cap w.says)
  <2>1. v = w /\ w.words # {} /\ w.says \in {{"opens yes"}, {"opens no"}}
    BY <1>7, <1>13 DEF YesOrNo
  <2>2. CASE e # NoPick
    <3>1. pick = w /\ pick \in options
      BY <1>9, <1>10, <2>2
    <3>2. "decline" \notin w.says
      BY <2>1
    <3> QED BY <3>1, <3>2
  <2>3. CASE e = NoPick
    <3>1. pick = Tried(opts, w)
      BY <1>10, <2>1, <2>3
    <3>2. /\ \E i \in DOMAIN opts : "opens yes" \in opts[i].says /\ "decline" \notin opts[i].says
          /\ \E i \in DOMAIN opts : "opens no" \in opts[i].says /\ "decline" \notin opts[i].says
      BY <1>12, <1>13
    <3>3. /\ Tried(opts, w) # NoPick /\ "decline" \notin Tried(opts, w).says
          /\ ({"opens yes", "opens no"} \cap Tried(opts, w).says)
               \subseteq ({"opens yes", "opens no"} \cap w.says)
      BY <1>3, <1>13, <3>2, YesNoTried
    <3> QED BY <1>11, <2>1, <3>1, <3>3
  <2> QED BY <2>2, <2>3
<1>14. ASSUME Figure(w), Lists2(box, IsSpan), \E o \in options : IsSpan(o) /\ Holds(o, w.nums[1])
       PROVE  (pick \in options /\ pick.kind # "none" /\ Holds(pick, w.nums[1])) \/ pick.text = w.text
  <2>1. v = w /\ w.words # {}
    BY <1>7, <1>14 DEF Figure
  <2>2. CASE e # NoPick
    BY <1>9, <1>10, <2>2
  <2>3. CASE e = NoPick
    <3>1. pick = Tried(opts, w)
      BY <1>10, <2>1, <2>3
    <3>2. \E i \in DOMAIN opts : IsSpan(opts[i]) /\ Holds(opts[i], w.nums[1])
      BY <1>12, <1>14
    <3>3. w.nums \in Seq(Int)
      BY <1>5 DEF Reading
    <3>4. Tried(opts, w) # NoPick /\ Tried(opts, w).kind # "none" /\ Holds(Tried(opts, w), w.nums[1])
      BY <1>3, <1>4, <1>14, <3>2, <3>3, FigureTried
    <3> QED BY <1>11, <2>1, <3>1, <3>4
  <2> QED BY <2>2, <2>3
<1>15. ASSUME Wording(w, options), \E o \in options : o.words = w.full /\ o.full = w.full
       PROVE  w.full \in {pick.words, pick.full}
  <2>1. CASE e # NoPick
    BY <1>9, <1>10, <2>1
  <2>2. CASE e = NoPick
    <3>1. /\ w.level = 0 /\ w.nums = <<>> /\ w.year = 0 /\ w.months = {} /\ w.says = {}
          /\ w.full # {}
      BY <1>15 DEF Wording
    <3>2. v = [w EXCEPT !.words = w.full] \/ (v = w /\ w.words = w.full)
      BY <1>7, <1>15 DEF Wording
    <3>3. /\ v.level = w.level /\ v.nums = w.nums /\ v.year = w.year /\ v.months = w.months
          /\ v.says = w.says /\ v.full = w.full /\ v.words = w.full
      BY <1>5, <3>2 DEF Reading, NoPick
    <3>4. \E i \in DOMAIN opts : opts[i].words = v.full /\ opts[i].full = v.full
      BY <1>12, <1>15, <3>3
    <3>5. v.full \in {Tried(opts, v).words, Tried(opts, v).full}
      BY <1>3, <1>7, <3>1, <3>3, <3>4, WordingTried
    <3> QED BY <1>10, <2>2, <3>1, <3>3, <3>5
  <2> QED BY <2>1, <2>2
<1>16. ASSUME NamesDegree(w), Lists2(box, NamesLevel), \E o \in options : o.level = w.level
       PROVE  pick.level = w.level
  <2>1. v = w /\ w.words # {}
    BY <1>7, <1>16 DEF NamesDegree
  <2>2. CASE e # NoPick
    BY <1>9, <1>10, <2>2
  <2>3. CASE e = NoPick
    <3>1. pick = Tried(opts, w)
      BY <1>10, <2>1, <2>3
    <3>2. \E i \in DOMAIN opts : opts[i].level = w.level
      BY <1>12, <1>16
    <3>3. Tried(opts, w).level = w.level
      BY <1>3, <1>4, <1>16, <3>2, DegreeTried
    <3> QED BY <3>1, <3>3
  <2> QED BY <2>2, <2>3
<1>17. pick \in options \cup {NoPick}
  BY <1>9, <1>10, <1>11
<1> QED BY <1>13, <1>14, <1>15, <1>16, <1>17 DEF Honest

LEMMA NothingSensitive ==
  ASSUME NEW box \in Box, Sensitive(box)
  PROVE  Outcome(View, box) = "unmatched"
<1>1. Signals(box)
  BY FormsAssumption
<1>2. MatchField(box) = ""
  BY <1>1, FieldAsked
<1> QED BY <1>2 DEF Outcome, IsEssayLabel

(* Whatever is on file and whatever a page offers, so long as a text reads the   *)
(* same on both sides: nothing where a page says "sensitive", and elsewhere an   *)
(* option of the page that says what the person said, or nothing.            *)
THEOREM FillsAreHonest == Spec => []FillsHonestly
<1>1. FormsInv => FillsHonestly
  <2> SUFFICES ASSUME FormsInv PROVE FillsHonestly
    OBVIOUS
  <2>1. TypeOK
    BY DEF FormsInv
  <2>2. \A box \in Box : Sensitive(box) => Outcome(View, box) = "unmatched"
    BY NothingSensitive
  <2>3. ASSUME NEW box \in Box, MatchField(box) # ""
        PROVE  LET options == RealOptions(box)
                   v == Autofill(View, MatchField(box))
                   pick == Pick(View, box)
                   held == {o \in options : o.kind # "none" /\ Holds(o, v.nums[1])}
                   opens(o) == {"opens yes", "opens no"} \cap o.says
                   offered(side) == \E o \in options : side \in o.says /\ "decline" \notin o.says
               IN /\ pick \in options \cup {NoPick}
                  /\ YesOrNo(v) /\ offered("opens yes") /\ offered("opens no")
                       => pick \in options /\ opens(pick) \subseteq opens(v) /\ "decline" \notin pick.says
                  /\ Figure(v) /\ Lists2(box, IsSpan) /\ (\E o \in held : IsSpan(o))
                       => pick \in held \/ pick.text = v.text
                  /\ Wording(v, options) /\ (\E o \in options : o.words = v.full /\ o.full = v.full)
                       => v.full \in {pick.words, pick.full}
                  /\ NamesDegree(v) /\ Lists2(box, NamesLevel) /\ (\E o \in options : o.level = v.level)
                       => pick.level = v.level
    BY <2>1, <2>3, FilledHonestly DEF Honest
  <2> QED BY <2>2, <2>3 DEF FillsHonestly
<1> QED BY <1>1, FormsAlways, PTL
=============================================================================

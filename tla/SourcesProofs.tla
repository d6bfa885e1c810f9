---------------------------- MODULE SourcesProofs ----------------------------
(***************************************************************************)
(* For any places, openings, catalog and profiles of the model, and however    *)
(* passes interleave with what goes on around them: types, one row for what    *)
(* passes and seeding find on a board, and a free score that no further skill  *)
(* lowers.                                                                  *)
(*                                                                         *)
(* The directory and the cap both count predecessors in a total order.  Rank   *)
(* says what that gives: each place of the directory is some board's, and no   *)
(* more than MaxScored postings stand before the cap.                        *)
(***************************************************************************)
EXTENDS Sources, FiniteSetTheorems, TLAPS

-----------------------------------------------------------------------------
(* Rank in a finite set under a strict total order: what Ordered and Capped    *)
(* count.                                                                   *)
Rank(S, R, b) == Cardinality({c \in S : <<c, b>> \in R})

TotalOn(S, R) ==
  /\ \A a \in S : <<a, a>> \notin R
  /\ \A a, b, c \in S : <<a, b>> \in R /\ <<b, c>> \in R => <<a, c>> \in R
  /\ \A a, b \in S : a # b => <<a, b>> \in R \/ <<b, a>> \in R

(* Who comes later has a higher rank. *)
LEMMA RankGrows ==
  ASSUME NEW S, IsFiniteSet(S), NEW R, TotalOn(S, R),
         NEW a \in S, NEW b \in S, <<a, b>> \in R
  PROVE  Rank(S, R, a) < Rank(S, R, b)
<1> DEFINE A == {c \in S : <<c, a>> \in R}
           B == {c \in S : <<c, b>> \in R}
<1>1. a \in B /\ A \subseteq B \ {a}
  BY DEF TotalOn
<1>2. IsFiniteSet(B)
  BY FS_Subset
<1>3. IsFiniteSet(B \ {a}) /\ Cardinality(B \ {a}) = Cardinality(B) - 1
  BY <1>1, <1>2, FS_RemoveElement
<1>4. IsFiniteSet(A) /\ Cardinality(A) <= Cardinality(B \ {a})
  BY <1>1, <1>3, FS_Subset
<1>5. Cardinality(A) \in Nat /\ Cardinality(B) \in Nat
  BY <1>2, <1>4, FS_CardinalityType
<1> HIDE DEF A, B
<1>6. Cardinality(A) < Cardinality(B)
  BY <1>3, <1>4, <1>5
<1> QED BY <1>6 DEF A, B, Rank

(* Ranks run from 0 to one less than the size of the set ... *)
LEMMA RankBounded ==
  ASSUME NEW S, IsFiniteSet(S), NEW R, TotalOn(S, R), NEW b \in S
  PROVE  Rank(S, R, b) \in 0..(Cardinality(S) - 1)
<1> DEFINE B == {c \in S : <<c, b>> \in R}
<1>1. B \subseteq S \ {b}
  BY DEF TotalOn
<1>2. IsFiniteSet(S \ {b}) /\ Cardinality(S \ {b}) = Cardinality(S) - 1
  BY FS_RemoveElement
<1>3. IsFiniteSet(B) /\ Cardinality(B) <= Cardinality(S \ {b})
  BY <1>1, <1>2, FS_Subset
<1>4. Cardinality(B) \in Nat /\ Cardinality(S) \in Nat
  BY <1>3, FS_CardinalityType
<1> HIDE DEF B
<1>5. Cardinality(B) \in 0..(Cardinality(S) - 1)
  BY <1>2, <1>3, <1>4
<1> QED BY <1>5 DEF B, Rank

(* ... no two members share one ... *)
LEMMA RankInjective ==
  ASSUME NEW S, IsFiniteSet(S), NEW R, TotalOn(S, R),
         NEW a \in S, NEW b \in S, Rank(S, R, a) = Rank(S, R, b)
  PROVE  a = b
<1> SUFFICES ASSUME a # b PROVE FALSE
  OBVIOUS
<1>1. Rank(S, R, a) \in Int /\ Rank(S, R, b) \in Int
  BY RankBounded
<1>2. Rank(S, R, a) < Rank(S, R, b) \/ Rank(S, R, b) < Rank(S, R, a)
  BY RankGrows DEF TotalOn
<1> QED BY <1>1, <1>2

(* ... and so each is somebody's. *)
LEMMA RankTaken ==
  ASSUME NEW S, IsFiniteSet(S), NEW R, TotalOn(S, R), NEW k \in 0..(Cardinality(S) - 1)
  PROVE  \E b \in S : Rank(S, R, b) = k
<1>1. Cardinality(S) \in Nat
  BY FS_CardinalityType
<1> DEFINE T == 0..(Cardinality(S) - 1)
           f == [b \in S |-> Rank(S, R, b)]
<1>2. f \in [S -> T]
  BY RankBounded
<1>3. f \in Injection(S, T)
  BY <1>2, RankInjective DEF Injection, IsInjective
<1>4. IsFiniteSet(T) /\ Cardinality(T) = Cardinality(S)
  BY <1>1, FS_Interval
<1> HIDE DEF f, T
<1>5. f \in Surjection(S, T)
  BY <1>3, <1>4, FS_Injection
<1>6. k \in T
  BY DEF T
<1>7. \E b \in S : f[b] = k
  BY <1>5, <1>6 DEF Surjection
<1> QED BY <1>7 DEF f

(* Few have a low rank. *)
LEMMA FewRankedLow ==
  ASSUME NEW S, IsFiniteSet(S), NEW R, TotalOn(S, R), NEW m \in Nat
  PROVE  Cardinality({c \in S : Rank(S, R, c) < m}) <= m
<1> DEFINE L == {c \in S : Rank(S, R, c) < m}
           f == [b \in L |-> Rank(S, R, b)]
           T == 0..(m - 1)
<1>1. f \in [L -> T]
  BY RankBounded
<1>2. f \in Injection(L, T)
  BY <1>1, RankInjective DEF Injection, IsInjective
<1>3. IsFiniteSet(T) /\ Cardinality(T) = m
  BY FS_Interval
<1> HIDE DEF f, T, L
<1>4. Cardinality(L) <= m
  BY <1>2, <1>3, FS_Injection
<1> QED BY <1>4 DEF L

-----------------------------------------------------------------------------
(* The order of the directory. *)
Known == DOMAIN FileBoard \cup learned
Rotated == Known \cup Range(Catalog)

LEMMA AtsBoards ==
  /\ AtsBoard \subseteq Board
  /\ IsFiniteSet(AtsBoard) /\ IsFiniteSet(Board)
  /\ Cardinality(AtsBoard) <= Cardinality(Board) /\ Cardinality(Board) \in Nat
<1>1. Range(AtsSources) \cap Wide = {}
  BY DEF AtsSources, Wide, Range
<1>2. AtsBoard \subseteq Board /\ Board \subseteq DOMAIN Holds
  BY <1>1 DEF AtsBoard, Board
<1>3. IsFiniteSet(Board)
  BY <1>2, FS_Subset, SourcesAssumption
<1> QED BY <1>2, <1>3, FS_Subset, FS_CardinalityType

LEMMA RotatedBoards ==
  ASSUME learned \subseteq AtsBoard
  PROVE  Known \subseteq AtsBoard /\ Rotated \subseteq AtsBoard
<1>1. Range(Catalog) \subseteq AtsBoard
  BY SourcesAssumption DEF Range
<1> QED BY <1>1, SourcesAssumption DEF Known, Rotated

LEMMA SourceRanked ==
  ASSUME NEW b \in AtsBoard
  PROVE  SourceRank(b) \in Nat /\ AtsSources[SourceRank(b)] = b.source
<1>1. \E i \in DOMAIN AtsSources : AtsSources[i] = b.source
  BY DEF AtsBoard, Range
<1>2. SourceRank(b) \in DOMAIN AtsSources /\ AtsSources[SourceRank(b)] = b.source
  BY <1>1 DEF SourceRank
<1>3. DOMAIN AtsSources \subseteq Nat
  BY DEF AtsSources
<1> QED BY <1>2, <1>3

LEMMA CatalogPlaced ==
  ASSUME NEW b \in Range(Catalog)
  PROVE  CatalogPlace(b) \in Nat /\ Catalog[CatalogPlace(b)] = b
<1>1. \E i \in DOMAIN Catalog : Catalog[i] = b
  BY DEF Range
<1>2. CatalogPlace(b) \in DOMAIN Catalog /\ Catalog[CatalogPlace(b)] = b
  BY <1>1 DEF CatalogPlace
<1>3. DOMAIN Catalog \subseteq Nat
  BY SourcesAssumption
<1> QED BY <1>2, <1>3

(* The boards of one source have places of their own in its list. *)
FileCount(b) == Cardinality({c \in DOMAIN FileBoard : c.source = b.source})
Earlier(b) == {c \in learned \ DOMAIN FileBoard : c.source = b.source /\ c.token <= b.token}

LEMMA FilePlaced ==
  ASSUME NEW b \in DOMAIN FileBoard
  PROVE  ListPlace(b) = FileBoard[b] /\ ListPlace(b) \in 1..FileCount(b)
BY SourcesAssumption DEF ListPlace, FileCount

LEMMA FileCounted ==
  ASSUME NEW b
  PROVE  FileCount(b) \in Nat
<1> DEFINE F == {c \in DOMAIN FileBoard : c.source = b.source}
<1>1. F \subseteq AtsBoard
  BY SourcesAssumption
<1>2. IsFiniteSet(F)
  BY <1>1, AtsBoards, FS_Subset
<1>3. Cardinality(F) \in Nat
  BY <1>2, FS_CardinalityType
<1> QED BY <1>3 DEF FileCount

LEMMA LearnedPlaced ==
  ASSUME learned \subseteq AtsBoard, NEW b \in learned \ DOMAIN FileBoard
  PROVE  /\ ListPlace(b) = FileCount(b) + Cardinality(Earlier(b))
         /\ IsFiniteSet(Earlier(b)) /\ b \in Earlier(b)
         /\ Cardinality(Earlier(b)) \in Nat \ {0}
<1>1. Earlier(b) \subseteq AtsBoard
  BY DEF Earlier
<1>2. IsFiniteSet(Earlier(b))
  BY <1>1, AtsBoards, FS_Subset
<1>3. b \in [source : STRING, token : Nat]
  BY SourcesAssumption DEF AtsBoard
<1>4. b \in Earlier(b)
  <2>1. b.token \in Nat
    BY <1>3
  <2>2. b.token <= b.token
    BY <2>1
  <2> QED BY <2>2 DEF Earlier
<1>5. Cardinality(Earlier(b)) \in Nat \ {0}
  BY <1>2, <1>4, FS_CardinalityType, FS_EmptySet
<1> QED BY <1>2, <1>4, <1>5 DEF ListPlace, FileCount, Earlier

LEMMA ListPlaceUnique ==
  ASSUME learned \subseteq AtsBoard, NEW a \in Known, NEW b \in Known,
         a.source = b.source, ListPlace(a) = ListPlace(b)
  PROVE  a = b
<1>1. FileCount(a) = FileCount(b) /\ FileCount(a) \in Nat
  BY FileCounted DEF FileCount
<1>2. CASE a \in DOMAIN FileBoard /\ b \in DOMAIN FileBoard
  <2>1. FileBoard[a] = FileBoard[b]
    BY <1>2, FilePlaced
  <2>2. \A x, y \in DOMAIN FileBoard : y.source = x.source /\ FileBoard[y] = FileBoard[x] => y = x
    BY SourcesAssumption
  <2> QED BY <1>2, <2>1, <2>2
<1>3. CASE a \in DOMAIN FileBoard /\ b \notin DOMAIN FileBoard
  BY <1>1, <1>3, FilePlaced, LearnedPlaced DEF Known
<1>4. CASE a \notin DOMAIN FileBoard /\ b \in DOMAIN FileBoard
  BY <1>1, <1>4, FilePlaced, LearnedPlaced DEF Known
<1>5. CASE a \notin DOMAIN FileBoard /\ b \notin DOMAIN FileBoard
  <2>1. a \in learned \ DOMAIN FileBoard /\ b \in learned \ DOMAIN FileBoard
    BY <1>5 DEF Known
  <2>2. a \in [source : STRING, token : Nat] /\ b \in [source : STRING, token : Nat]
    BY <2>1, SourcesAssumption DEF AtsBoard
  <2>3. ASSUME NEW x \in learned \ DOMAIN FileBoard, NEW y \in learned \ DOMAIN FileBoard,
               x.source = y.source, x.token \in Nat, y.token \in Nat, x.token < y.token,
               ListPlace(x) = ListPlace(y)
        PROVE  FALSE
    <3>1. Earlier(x) \subseteq Earlier(y)
      <4>1. \A c \in learned : c.token \in Nat
        BY SourcesAssumption DEF AtsBoard
      <4> QED BY <2>3, <4>1 DEF Earlier
    <3>2. y \notin Earlier(x) /\ y \in Earlier(y)
      BY <2>3 DEF Earlier
    <3>3. FileCount(x) = FileCount(y) /\ FileCount(x) \in Nat
      BY <2>3, FileCounted DEF FileCount
    <3>4. IsFiniteSet(Earlier(y)) /\ Cardinality(Earlier(x)) \in Nat /\ Cardinality(Earlier(y)) \in Nat
      BY LearnedPlaced
    <3>5. Cardinality(Earlier(x)) = Cardinality(Earlier(y))
      BY <2>3, <3>3, <3>4, LearnedPlaced
    <3> QED BY <3>1, <3>2, <3>4, <3>5, FS_Subset
  <2>4. ~(a.token < b.token) /\ ~(b.token < a.token)
    BY <2>1, <2>2, <2>3
  <2>5. a.token = b.token
    BY <2>2, <2>4
  <2> QED BY <2>2, <2>5
<1> QED BY <1>2, <1>3, <1>4, <1>5

SoonerPairs == {p \in Rotated \X Rotated : Sooner(p[1], p[2])}

LEMMA KnownPlaced ==
  ASSUME learned \subseteq AtsBoard, NEW b \in Known
  PROVE  ListPlace(b) \in Nat /\ SourceRank(b) \in Nat
<1>1. SourceRank(b) \in Nat
  BY RotatedBoards, SourceRanked
<1>2. CASE b \in DOMAIN FileBoard
  BY <1>1, <1>2, FilePlaced, FileCounted
<1>3. CASE b \notin DOMAIN FileBoard
  BY <1>1, <1>3, LearnedPlaced, FileCounted DEF Known
<1> QED BY <1>2, <1>3

LEMMA SoonerTotal ==
  ASSUME learned \subseteq AtsBoard
  PROVE  TotalOn(Rotated, SoonerPairs)
<1>1. \A b \in Known : ListPlace(b) \in Nat /\ SourceRank(b) \in Nat
  BY KnownPlaced
<1>2. \A b \in Rotated \ Known : CatalogPlace(b) \in Nat
  BY CatalogPlaced DEF Rotated
<1>3. ASSUME NEW a \in Known, NEW b \in Known,
             ListPlace(a) = ListPlace(b), SourceRank(a) = SourceRank(b)
      PROVE  a = b
  <2>1. a.source = b.source
    BY <1>3, RotatedBoards, SourceRanked
  <2> QED BY <1>3, <2>1, ListPlaceUnique
<1>4. ASSUME NEW a \in Rotated \ Known, NEW b \in Rotated \ Known, CatalogPlace(a) = CatalogPlace(b)
      PROVE  a = b
  BY <1>4, CatalogPlaced DEF Rotated
<1>5. \A a, b \in Rotated : <<a, b>> \in SoonerPairs <=> Sooner(a, b)
  BY DEF SoonerPairs
<1>6. \A a, b \in Rotated :
        Sooner(a, b) <=> \/ /\ a \in Known /\ b \in Known
                            /\ \/ ListPlace(a) < ListPlace(b)
                               \/ ListPlace(a) = ListPlace(b) /\ SourceRank(a) < SourceRank(b)
                         \/ a \in Known /\ b \notin Known
                         \/ a \notin Known /\ b \notin Known /\ CatalogPlace(a) < CatalogPlace(b)
                         \/ a \in Known /\ b \notin Known /\ CatalogPlace(a) < CatalogPlace(b)
  BY DEF Sooner, Known
<1>7. \A a \in Rotated : ~Sooner(a, a)
  BY <1>1, <1>2, <1>6
<1>8. ASSUME NEW a \in Rotated, NEW b \in Rotated, NEW c \in Rotated, Sooner(a, b), Sooner(b, c)
      PROVE  Sooner(a, c)
  <2>1. CASE c \in Known
    <3>1. a \in Known /\ b \in Known
      BY <1>6, <1>8, <2>1
    <3> QED BY <1>1, <1>6, <1>8, <2>1, <3>1
  <2>2. CASE c \notin Known
    BY <1>2, <1>6, <1>8, <2>2
  <2> QED BY <2>1, <2>2
<1>9. ASSUME NEW a \in Rotated, NEW b \in Rotated, a # b
      PROVE  Sooner(a, b) \/ Sooner(b, a)
  <2>1. CASE a \in Known /\ b \in Known
    <3>1. ListPlace(a) # ListPlace(b) \/ SourceRank(a) # SourceRank(b)
      BY <1>3, <1>9, <2>1
    <3> QED BY <1>1, <1>6, <2>1, <3>1
  <2>2. CASE a \notin Known /\ b \notin Known
    <3>1. CatalogPlace(a) # CatalogPlace(b)
      BY <1>4, <1>9, <2>2
    <3> QED BY <1>2, <1>6, <2>2, <3>1
  <2>3. CASE (a \in Known) # (b \in Known)
    BY <1>6, <2>3
  <2> QED BY <2>1, <2>2, <2>3
<1> QED BY <1>5, <1>7, <1>8, <1>9 DEF TotalOn

(* The directory lists boards, each of its entries one, and no more than there are. *)
LEMMA DirectoryOfBoards ==
  ASSUME learned \subseteq AtsBoard
  PROVE  /\ Len(Directory) \in Nat /\ Len(Directory) <= Cardinality(Board)
         /\ \A i \in 1..Len(Directory) : Directory[i] \in AtsBoard
<1> DEFINE S == {b \in Rotated : InSector(b, profile)}
           pos(k) == CHOOSE b \in S : Cardinality({c \in S : Sooner(c, b)}) = k - 1
           n == Cardinality(S)
<1>1. Directory = [k \in 1..n |-> pos(k)]
  BY DEF Directory, Ordered, Rotated, Known
<1>2. S \subseteq AtsBoard
  BY RotatedBoards
<1>3. IsFiniteSet(S) /\ n <= Cardinality(AtsBoard)
  BY <1>2, AtsBoards, FS_Subset
<1>4. n \in Nat /\ n <= Cardinality(Board)
  BY <1>3, AtsBoards, FS_CardinalityType
<1>5. TotalOn(S, SoonerPairs)
  BY SoonerTotal DEF TotalOn
<1>6. ASSUME NEW k \in 1..n PROVE pos(k) \in AtsBoard
  <2>1. k - 1 \in 0..(n - 1)
    BY <1>4
  <2>2. PICK b \in S : Rank(S, SoonerPairs, b) = k - 1
    BY <1>3, <1>5, <2>1, RankTaken
  <2>3. {c \in S : <<c, b>> \in SoonerPairs} = {c \in S : Sooner(c, b)}
    BY DEF SoonerPairs
  <2>4. \E x \in S : Cardinality({c \in S : Sooner(c, x)}) = k - 1
    BY <2>2, <2>3 DEF Rank
  <2>5. pos(k) \in S
    BY <2>4
  <2> QED BY <1>2, <2>5
<1> HIDE DEF n, pos, S
<1>7. Directory \in Seq(AtsBoard) /\ Len(Directory) = n
  BY <1>1, <1>4, <1>6
<1> QED BY <1>1, <1>4, <1>6, <1>7

LEMMA UnplacedNames == Len(Unplaced) \in 0..Len(Name)
<1> DEFINE P == {i \in DOMAIN Name : SlugBoard[Name[i]] \notin Range(Catalog)}
           n == Cardinality(P)
           place(k) == CHOOSE i \in P : Cardinality({j \in P : j < i}) = k - 1
<1>1. Len(Name) \in Nat /\ DOMAIN Name = 1..Len(Name)
  <2>1. Name \in Seq(Range(Name))
    BY SourcesAssumption
  <2> QED BY <2>1
<1>2. IsFiniteSet(1..Len(Name)) /\ Cardinality(1..Len(Name)) = Len(Name)
  <2>1. \A m \in Nat : IsFiniteSet(1..m) /\ Cardinality(1..m) = m
    BY FS_Interval
  <2> QED BY <1>1, <2>1
<1>3. IsFiniteSet(P) /\ n <= Len(Name)
  <2>1. P \in SUBSET (1..Len(Name))
    BY <1>1
  <2> HIDE DEF P
  <2> QED BY <1>2, <2>1, FS_Subset
<1>4. n \in 0..Len(Name)
  BY <1>1, <1>3, FS_CardinalityType
<1>5. Unplaced = [k \in 1..n |-> Name[place(k)]]
  BY DEF Unplaced, Ordered
<1> HIDE DEF n, place
<1>6. Len(Unplaced) = n
  BY <1>1, <1>4, <1>5
<1> QED BY <1>4, <1>6

-----------------------------------------------------------------------------
(* The order of the cap. *)
Copy == {c \in [via : {"tracked", "wide"}, place : DOMAIN Holds, opening : Opening] :
           c.opening \in Holds[c.place]}

LEMMA CopiesFinite == IsFiniteSet(Copy)
<1> DEFINE P == {"tracked", "wide"} \X DOMAIN Holds
           T == P \X Opening
           R == [via : {"tracked", "wide"}, place : DOMAIN Holds, opening : Opening]
           f == [t \in T |-> [via |-> t[1][1], place |-> t[1][2], opening |-> t[2]]]
<1>1. IsFiniteSet({"tracked", "wide"})
  <2>1. IsFiniteSet({"tracked"}) /\ {"tracked", "wide"} = {"tracked"} \cup {"wide"}
    BY FS_Singleton
  <2> QED BY <2>1, FS_AddElement
<1>2. IsFiniteSet(P)
  BY <1>1, FS_Product, SourcesAssumption
<1>3. IsFiniteSet(T)
  BY <1>2, FS_Product, SourcesAssumption
<1>4. f \in Surjection(T, R)
  <2>1. f \in [T -> R]
    OBVIOUS
  <2>2. ASSUME NEW c \in R PROVE \E t \in T : f[t] = c
    <3> DEFINE t == <<<<c.via, c.place>>, c.opening>>
    <3>1. t \in T /\ f[t] = c
      OBVIOUS
    <3> QED BY <3>1
  <2> QED BY <2>1, <2>2 DEF Surjection
<1>5. IsFiniteSet(R)
  BY <1>3, <1>4, FS_Surjection
<1> QED BY <1>5, FS_Subset DEF Copy

Fillable(p) == IF p.ats \in FillableSources THEN 1 ELSE 0
Direct(p) == IF p.source \in FirstParty THEN 1 ELSE 0
Recent(p) == IF p.age <= 2 THEN 1 ELSE 0

LEMMA OutranksByKeys ==
  ASSUME NEW a, NEW b, a.age \in Int, b.age \in Int
  PROVE  Outranks(a, b) <=>
           \/ Fillable(a) > Fillable(b)
           \/ /\ Fillable(a) = Fillable(b)
              /\ \/ Direct(a) > Direct(b)
                 \/ /\ Direct(a) = Direct(b)
                    /\ \/ Recent(a) > Recent(b)
                       \/ Recent(a) = Recent(b) /\ -a.age > -b.age
<1> DEFINE ka == <<Fillable(a), Direct(a), Recent(a), -a.age>>
           kb == <<Fillable(b), Direct(b), Recent(b), -b.age>>
<1>1. Outranks(a, b) <=> \E i \in 1..4 : ka[i] > kb[i] /\ \A j \in 1..(i - 1) : ka[j] = kb[j]
  BY DEF Outranks, Fillable, Direct, Recent
<1>2. 1..4 = {1, 2, 3, 4} /\ 1..(1 - 1) = {} /\ 1..(2 - 1) = {1} /\ 1..(3 - 1) = {1, 2}
      /\ 1..(4 - 1) = {1, 2, 3}
  OBVIOUS
<1>3. /\ ka[1] = Fillable(a) /\ ka[2] = Direct(a) /\ ka[3] = Recent(a) /\ ka[4] = -a.age
      /\ kb[1] = Fillable(b) /\ kb[2] = Direct(b) /\ kb[3] = Recent(b) /\ kb[4] = -b.age
  OBVIOUS
<1> HIDE DEF ka, kb
<1>4. Outranks(a, b) <=>
        \/ ka[1] > kb[1]
        \/ ka[2] > kb[2] /\ ka[1] = kb[1]
        \/ ka[3] > kb[3] /\ ka[1] = kb[1] /\ ka[2] = kb[2]
        \/ ka[4] > kb[4] /\ ka[1] = kb[1] /\ ka[2] = kb[2] /\ ka[3] = kb[3]
  <2> DEFINE Decides(i) == ka[i] > kb[i] /\ \A j \in 1..(i - 1) : ka[j] = kb[j]
  <2>1. Outranks(a, b) <=> Decides(1) \/ Decides(2) \/ Decides(3) \/ Decides(4)
    BY <1>1, <1>2
  <2>2. Decides(1) <=> ka[1] > kb[1]
    BY <1>2
  <2>3. Decides(2) <=> ka[2] > kb[2] /\ ka[1] = kb[1]
    BY <1>2
  <2>4. Decides(3) <=> ka[3] > kb[3] /\ ka[1] = kb[1] /\ ka[2] = kb[2]
    BY <1>2
  <2>5. Decides(4) <=> ka[4] > kb[4] /\ ka[1] = kb[1] /\ ka[2] = kb[2] /\ ka[3] = kb[3]
    BY <1>2
  <2> HIDE DEF Decides
  <2> QED BY <2>1, <2>2, <2>3, <2>4, <2>5
<1> QED BY <1>3, <1>4

(* A strict weak order: who is not outranked either way stands together. *)
LEMMA OutranksOrders ==
  ASSUME NEW a, NEW b, NEW c, a.age \in Int, b.age \in Int, c.age \in Int
  PROVE  /\ ~Outranks(a, a)
         /\ Outranks(a, b) /\ Outranks(b, c) => Outranks(a, c)
         /\ ~Outranks(a, b) /\ ~Outranks(b, c) => ~Outranks(a, c)
<1>1. \A p \in {a, b, c} : Fillable(p) \in 0..1 /\ Direct(p) \in 0..1 /\ Recent(p) \in 0..1 /\ p.age \in Int
  BY DEF Fillable, Direct, Recent
<1>2. ~Outranks(a, a)
  BY <1>1, OutranksByKeys
<1>3. Outranks(a, b) /\ Outranks(b, c) => Outranks(a, c)
  BY <1>1, OutranksByKeys
<1>4. ~Outranks(a, b) /\ ~Outranks(b, c) => ~Outranks(a, c)
  BY <1>1, OutranksByKeys
<1> QED BY <1>2, <1>3, <1>4

BeforePairs == {p \in Copy \X Copy : Before(p[1], p[2])}

(* Two copies of one opening left by the search for doubles come from one      *)
(* place, and so one from its tracking and one from the rotation.            *)
LEMMA DedupedTwins ==
  ASSUME NEW S \in SUBSET Copy, NEW c \in Deduped(S), NEW d \in Deduped(S),
         c.opening = d.opening, Arrival(c) = Arrival(d)
  PROVE  c = d
<1>1. c \in Copy /\ d \in Copy
  BY DEF Deduped
<1>2. c.place.source = d.place.source
  BY DEF Deduped
<1>3. c.place = d.place
  BY <1>1, <1>2, SourcesAssumption DEF Copy
<1>4. c.via = d.via
  BY <1>1, <1>3 DEF Arrival, Copy
<1> QED BY <1>1, <1>3, <1>4 DEF Copy

LEMMA BeforeTotal ==
  ASSUME NEW S \in SUBSET Copy
  PROVE  TotalOn(Gated(S), BeforePairs)
<1> DEFINE W(c, d) == Outranks(As(c), As(d))
           n(c) == Arrival(c)
           m(c) == Ad[c.opening].posted
<1>1. Gated(S) \subseteq Copy
  BY DEF Gated, Deduped
<1>2. \A c \in Gated(S) : As(c).age \in Int /\ n(c) \in Int /\ m(c) \in Int
  BY <1>1, SourcesAssumption DEF Copy, As, Arrival
<1>3. \A a, b, c \in Gated(S) :
        /\ ~W(a, a)
        /\ W(a, b) /\ W(b, c) => W(a, c)
        /\ ~W(a, b) /\ ~W(b, c) => ~W(a, c)
  BY <1>2, OutranksOrders
<1>4. ASSUME NEW c \in Gated(S), NEW d \in Gated(S), n(c) = n(d), m(c) = m(d)
      PROVE  c = d
  <2>1. c.opening = d.opening
    BY <1>1, <1>4, SourcesAssumption DEF Copy
  <2> DEFINE T == {e \in S : ~Exists(Id(e)) /\ Reputable(e.place.source, Ad[e.opening])}
  <2>2. c \in Deduped(T) /\ d \in Deduped(T) /\ T \in SUBSET Copy
    BY DEF Gated
  <2> QED BY <1>4, <2>1, <2>2, DedupedTwins
<1>5. \A c, d \in Gated(S) :
        <<c, d>> \in BeforePairs <=> \/ W(c, d)
                                     \/ ~W(d, c) /\ n(c) < n(d)
                                     \/ ~W(d, c) /\ n(c) = n(d) /\ m(c) < m(d)
  BY <1>1 DEF BeforePairs, Before
<1> HIDE DEF W, n, m
<1> DEFINE B(c, d) == \/ W(c, d)
                      \/ ~W(d, c) /\ n(c) < n(d)
                      \/ ~W(d, c) /\ n(c) = n(d) /\ m(c) < m(d)
<1>6. \A a \in Gated(S) : ~B(a, a)
  BY <1>2, <1>3
<1>7. \A a, b, c \in Gated(S) : B(a, b) /\ B(b, c) => B(a, c)
  BY <1>2, <1>3
<1>8. \A a, b \in Gated(S) : a # b => B(a, b) \/ B(b, a)
  BY <1>2, <1>3, <1>4
<1> HIDE DEF B
<1>9. \A c, d \in Gated(S) : <<c, d>> \in BeforePairs <=> B(c, d)
  BY <1>5 DEF B
<1> QED BY <1>6, <1>7, <1>8, <1>9 DEF TotalOn

(* The cap holds: never more than the scorer is paid for. *)
LEMMA CappedFew ==
  ASSUME NEW S \in SUBSET Copy
  PROVE  /\ Capped(Gated(S)) \subseteq S
         /\ IsFiniteSet(Capped(Gated(S)))
         /\ Cardinality(Capped(Gated(S))) <= MaxScored
<1> DEFINE G == Gated(S)
<1>1. G \subseteq S
  BY DEF Gated, Deduped
<1>2. IsFiniteSet(G)
  BY <1>1, CopiesFinite, FS_Subset
<1>3. Capped(G) = {c \in G : Rank(G, BeforePairs, c) < MaxScored}
  <2>1. \A c \in G : {d \in G : Before(d, c)} = {d \in G : <<d, c>> \in BeforePairs}
    <3>1. G \subseteq Copy
      BY <1>1
    <3> HIDE DEF G
    <3> QED BY <3>1 DEF BeforePairs
  <2> HIDE DEF G
  <2> QED BY <2>1 DEF Capped, Rank
<1>4. TotalOn(G, BeforePairs)
  BY BeforeTotal
<1>5. Cardinality(Capped(G)) <= MaxScored
  BY <1>2, <1>3, <1>4, FewRankedLow, SourcesAssumption
<1>6. Capped(G) \subseteq G
  BY DEF Capped
<1> QED BY <1>1, <1>2, <1>5, <1>6, FS_Subset

-----------------------------------------------------------------------------
(* The inductive invariant. *)
RowsInv ==
  /\ \A r, s \in rows : r.id = s.id => r = s
  /\ \A r \in rows : r.how \in {"pass", "seed"} => \E c \in Copy : r.id = Id(c)

SourcesInv ==
  /\ TypeOK /\ RowsInv
  /\ learned \subseteq AtsBoard /\ selected \subseteq AtsBoard
  /\ fresh \subseteq Copy
  /\ profile \in Profiles \cup {FirstProfile}

LEMMA SourcesInitial == Init => SourcesInv
<1> SUFFICES ASSUME Init PROVE SourcesInv
  OBVIOUS
<1>1. Cardinality(Board) \in Nat /\ Len(Name) \in Nat
  BY AtsBoards, UnplacedNames, SourcesAssumption
<1>2. cursor \in 0..(Cardinality(Board) + BoardsPerTick) /\ probed \in 0..Len(Name)
  BY <1>1, SourcesAssumption DEF Init
<1>3. TypeOK
  BY <1>2 DEF Init, TypeOK
<1> QED BY <1>3 DEF Init, SourcesInv, RowsInv

LEMMA CopiesCopied ==
  ASSUME NEW via \in {"tracked", "wide"}, NEW P \in SUBSET DOMAIN Holds
  PROVE  Copies(via, P) \subseteq Copy
BY SourcesAssumption DEF Copies, Listed, Copy

LEMMA InsertKeepsRows ==
  ASSUME RowsInv, NEW ids, NEW how, rows' = Insert(ids, how),
         how \in {"pass", "seed"} => \A i \in ids : \E c \in Copy : i = Id(c)
  PROVE  RowsInv'
<1> DEFINE N == {Row(i, how) : i \in {j \in ids : ~Exists(j)}}
<1>1. rows' = rows \cup N
  BY DEF Insert
<1>2. ASSUME NEW r \in N
      PROVE  \E i \in ids : ~Exists(i) /\ r = Row(i, how) /\ r.id = i /\ r.how = how
  BY DEF Row
<1>3. ASSUME NEW r \in rows', NEW s \in rows', r.id = s.id
      PROVE  r = s
  <2>1. CASE r \in rows /\ s \in rows
    BY <1>3, <2>1 DEF RowsInv
  <2>2. CASE r \in N /\ s \in N
    BY <1>2, <1>3, <2>2
  <2>3. CASE r \in rows /\ s \in N
    BY <1>2, <1>3, <2>3 DEF Exists
  <2>4. CASE r \in N /\ s \in rows
    BY <1>2, <1>3, <2>4 DEF Exists
  <2> QED BY <1>1, <2>1, <2>2, <2>3, <2>4
<1>4. ASSUME NEW r \in rows', r.how \in {"pass", "seed"}
      PROVE  \E c \in Copy : r.id = Id(c)
  <2>1. CASE r \in rows
    BY <1>4, <2>1 DEF RowsInv
  <2>2. CASE r \in N
    BY <1>2, <1>4, <2>2
  <2> QED BY <1>1, <2>1, <2>2
<1> QED BY <1>3, <1>4 DEF RowsInv

LEMMA RowsStep == SourcesInv /\ [Next]_vars => RowsInv'
<1> SUFFICES ASSUME SourcesInv, [Next]_vars PROVE RowsInv'
  OBVIOUS
<1>1. RowsInv
  BY DEF SourcesInv
<1>2. CASE rows' = rows
  BY <1>1, <1>2 DEF RowsInv
<1>3. ASSUME NEW p \in seeding, NEW got \in BOOLEAN, Seed(p, got) PROVE RowsInv'
  <2> DEFINE ids == {Id(c) : c \in {d \in Copies("tracked", {p}) :
                        d.opening \in {o \in Listed(p) : got /\ ~Exists(Bare(p, o))}}}
  <2>1. rows' = Insert(ids, "seed")
    BY <1>3 DEF Seed
  <2>2. p \in DOMAIN Holds
    BY SourcesAssumption DEF SourcesInv, TypeOK
  <2>3. Copies("tracked", {p}) \subseteq Copy
    BY <2>2, CopiesCopied
  <2>4. \A i \in ids : \E c \in Copy : i = Id(c)
    BY <2>3
  <2> HIDE DEF ids
  <2> QED BY <1>1, <2>1, <2>4, InsertKeepsRows
<1>4. ASSUME NEW o \in Pasted, Paste(o) PROVE RowsInv'
  BY <1>1, <1>4, InsertKeepsRows DEF Paste
<1>5. ASSUME NEW c \in fresh, Save(c) PROVE RowsInv'
  <2>1. rows' = Insert({Id(c)}, "pass") /\ c \in Copy
    BY <1>5 DEF Save, SourcesInv
  <2> QED BY <1>1, <2>1, InsertKeepsRows
<1>6. ASSUME PassStep, ~\E c \in fresh : Save(c) PROVE rows' = rows
  BY <1>6 DEF PassStep, Probe, FetchTracked, Rotate, FetchWide, Judge, world
<1>7. ASSUME Around, ~\E p \in seeding, got \in BOOLEAN : Seed(p, got), ~\E o \in Pasted : Paste(o)
      PROVE  rows' = rows
  BY <1>7 DEF Around, Appear, Ends, Track, Untrack, LearnElsewhere, EditProfile
<1>8. ASSUME Stop \/ UNCHANGED vars PROVE rows' = rows
  BY <1>8 DEF Stop, vars
<1> QED BY <1>2, <1>3, <1>4, <1>5, <1>6, <1>7, <1>8 DEF Next

LEMMA ProfileStep == SourcesInv /\ [Next]_vars => (profile \in Profiles \cup {FirstProfile})'
<1> SUFFICES ASSUME SourcesInv, [Next]_vars PROVE profile' \in Profiles \cup {FirstProfile}
  OBVIOUS
<1>1. CASE PassStep
  BY <1>1 DEF SourcesInv, PassStep, Probe, FetchTracked, Rotate, FetchWide, Judge, Save, world
<1>2. CASE Around
  BY <1>2 DEF SourcesInv, Around, Appear, Ends, Track, Untrack, Seed, Paste, LearnElsewhere, EditProfile
<1>3. CASE Stop \/ UNCHANGED vars
  BY <1>3 DEF SourcesInv, Stop, vars
<1> QED BY <1>1, <1>2, <1>3 DEF Next

(* What a pass holds is copies of ads, and after the cap not more than MaxScored. *)
Held ==
  /\ fresh \subseteq Copy
  /\ pc = "save" => fresh # {} /\ Cardinality(fresh) <= MaxScored

LEMMA HeldStep == SourcesInv /\ [Next]_vars => Held'
<1> SUFFICES ASSUME SourcesInv, [Next]_vars PROVE Held'
  OBVIOUS
<1>0. Held
  BY DEF SourcesInv, TypeOK, Held
<1>1. CASE fresh' = fresh /\ pc' = pc
  BY <1>0, <1>1 DEF Held
<1>2. ASSUME NEW hits, Probe(hits) PROVE Held'
  BY <1>0, <1>2 DEF Probe, Held
<1>3. ASSUME NEW up \in SUBSET tracked, FetchTracked(up) PROVE Held'
  <2>1. tracked \cap up \in SUBSET DOMAIN Holds
    BY SourcesAssumption DEF SourcesInv, TypeOK
  <2>2. Copies("tracked", tracked \cap up) \subseteq Copy
    BY <2>1, CopiesCopied
  <2> QED BY <1>3, <2>2 DEF FetchTracked, Held
<1>4. CASE Rotate
  BY <1>0, <1>4 DEF Rotate, Held
<1>5. ASSUME NEW up \in SUBSET (Feed \cup selected), FetchWide(up) PROVE Held'
  <2>1. (Feed \cup selected) \cap up \in SUBSET DOMAIN Holds
    BY SourcesAssumption DEF SourcesInv, AtsBoard
  <2>2. Copies("wide", (Feed \cup selected) \cap up) \subseteq Copy
    BY <2>1, CopiesCopied
  <2>3. fresh' \subseteq fresh \cup Copies("wide", (Feed \cup selected) \cap up) /\ pc' = "judge"
    BY <1>5 DEF FetchWide
  <2> QED BY <1>0, <2>2, <2>3 DEF Held
<1>6. ASSUME NEW dead, Judge(dead) PROVE Held'
  <2> DEFINE capped == Capped(Gated(fresh))
  <2>1. fresh \in SUBSET Copy
    BY <1>0 DEF Held
  <2>2. capped \subseteq fresh /\ IsFiniteSet(capped) /\ Cardinality(capped) <= MaxScored
    BY <2>1, CappedFew
  <2>3. /\ dead \subseteq capped /\ fresh' = capped \ dead
        /\ pc' = IF capped = dead THEN "idle" ELSE "save"
    BY <1>6 DEF Judge
  <2> HIDE DEF capped
  <2>4. IsFiniteSet(fresh') /\ Cardinality(fresh') <= Cardinality(capped)
    BY <2>2, <2>3, FS_Subset
  <2>5. Cardinality(fresh') \in Nat /\ Cardinality(capped) \in Nat
    BY <2>2, <2>4, FS_CardinalityType
  <2>6. Cardinality(fresh') <= MaxScored
    BY <2>2, <2>4, <2>5, SourcesAssumption
  <2>7. pc' = "save" => fresh' # {}
    BY <2>3
  <2> QED BY <2>1, <2>2, <2>3, <2>6, <2>7 DEF Held
<1>7. ASSUME NEW c \in fresh, Save(c) PROVE Held'
  <2>1. fresh' = fresh \ {c} /\ pc = "save" /\ pc' = IF fresh = {c} THEN "idle" ELSE "save"
    BY <1>7 DEF Save
  <2>2. IsFiniteSet(fresh) /\ Cardinality(fresh) <= MaxScored
    BY <1>0, <2>1, CopiesFinite, FS_Subset DEF Held
  <2>3. IsFiniteSet(fresh') /\ Cardinality(fresh') = Cardinality(fresh) - 1
    BY <2>1, <2>2, FS_RemoveElement
  <2>4. Cardinality(fresh) \in Nat
    BY <2>2, FS_CardinalityType
  <2>5. Cardinality(fresh') <= MaxScored
    BY <2>2, <2>3, <2>4, SourcesAssumption
  <2> QED BY <1>0, <2>1, <2>5 DEF Held
<1>8. CASE Stop
  BY <1>8 DEF Stop, Held
<1>9. ASSUME Around PROVE fresh' = fresh /\ pc' = pc
  BY <1>9 DEF Around, Appear, Ends, Track, Untrack, Seed, Paste, LearnElsewhere, EditProfile, pass
<1>10. ASSUME UNCHANGED vars PROVE fresh' = fresh /\ pc' = pc
  BY <1>10 DEF vars, pass
<1> QED BY <1>1, <1>2, <1>3, <1>4, <1>5, <1>6, <1>7, <1>8, <1>9, <1>10 DEF Next, PassStep

(* Places stay places, and the cursors within their lists. *)
Placed ==
  /\ life \in [Opening -> {"unborn", "open", "closed", "gone"}]
  /\ tracked \subseteq Trackable /\ seeding \subseteq tracked
  /\ learned \subseteq AtsBoard /\ selected \subseteq AtsBoard
  /\ cursor \in 0..(Cardinality(Board) + BoardsPerTick)
  /\ probed \in 0..Len(Name)
  /\ pc \in {"idle", "tracked", "rotate", "wide", "judge", "save"}

LEMMA AroundPlaced == SourcesInv /\ Around => Placed'
<1> SUFFICES ASSUME SourcesInv, Around PROVE Placed'
  OBVIOUS
<1>0. Placed
  BY DEF SourcesInv, TypeOK, Placed
<1>1. ASSUME NEW o, Appear(o) PROVE Placed'
  BY <1>0, <1>1 DEF Appear, Placed, pass
<1>2. ASSUME NEW o, NEW how \in {"closed", "gone"}, Ends(o, how) PROVE Placed'
  BY <1>0, <1>2 DEF Ends, Placed, pass
<1>3. ASSUME NEW p \in Trackable, Track(p) \/ Untrack(p) PROVE Placed'
  BY <1>0, <1>3 DEF Track, Untrack, Placed, pass
<1>4. ASSUME NEW p, NEW got, Seed(p, got) PROVE Placed'
  BY <1>0, <1>4 DEF Seed, Placed, pass
<1>5. ASSUME NEW o, Paste(o) PROVE Placed'
  BY <1>0, <1>5 DEF Paste, Placed, pass
<1>6. ASSUME NEW b \in Elsewhere, LearnElsewhere(b) PROVE Placed'
  BY <1>0, <1>6, SourcesAssumption DEF LearnElsewhere, Placed, pass
<1>7. ASSUME NEW q, EditProfile(q) PROVE Placed'
  BY <1>0, <1>7 DEF EditProfile, Placed, pass
<1> QED BY <1>1, <1>2, <1>3, <1>4, <1>5, <1>6, <1>7 DEF Around

LEMMA PassPlaced == SourcesInv /\ PassStep => Placed'
<1> SUFFICES ASSUME SourcesInv, PassStep PROVE Placed'
  OBVIOUS
<1>0. Placed /\ fresh \subseteq Copy
  BY DEF SourcesInv, TypeOK, Placed
<1>1. ASSUME NEW hits \in SUBSET Range([n \in Range(Name) |-> SlugBoard[n]]), Probe(hits)
      PROVE  Placed'
  <2>1. NoBoard \notin hits \/ hits = {}
    BY <1>1 DEF Probe
  <2>2. hits \subseteq AtsBoard
    <3>1. \A b \in hits : \E n \in Range(Name) : b = SlugBoard[n]
      BY DEF Range
    <3>2. \A n \in Range(Name) : SlugBoard[n] \in AtsBoard \cup {NoBoard}
      BY SourcesAssumption
    <3> QED BY <2>1, <3>1, <3>2
  <2>3. CASE Len(Unplaced) = 0
    BY <1>0, <1>1, <2>3 DEF Probe, Placed
  <2>4. CASE Len(Unplaced) # 0
    <3>1. learned' = learned \cup hits
          /\ probed' \in {probed, ((probed % Len(Unplaced)) + NamesPerTick) % Len(Unplaced)}
      BY <1>1, <2>4 DEF Probe
    <3>2. Len(Unplaced) \in 1..Len(Name) /\ Len(Name) \in Nat
      <4>1. Name \in Seq(Range(Name))
        BY SourcesAssumption
      <4>2. Len(Name) \in Nat
        BY <4>1
      <4> QED BY <2>4, <4>2, UnplacedNames
    <3>3. \A size \in Nat \ {0}, i, k \in Nat : ((i % size) + k) % size \in 0..(size - 1)
      OBVIOUS
    <3>4. ((probed % Len(Unplaced)) + NamesPerTick) % Len(Unplaced) \in 0..(Len(Unplaced) - 1)
      BY <1>0, <3>2, <3>3, SourcesAssumption DEF Placed
    <3>5. probed' \in 0..Len(Name)
      BY <1>0, <3>1, <3>2, <3>4 DEF Placed
    <3> QED BY <1>0, <1>1, <2>2, <3>1, <3>5 DEF Probe, Placed
  <2> QED BY <2>3, <2>4
<1>2. ASSUME NEW up, FetchTracked(up) PROVE Placed'
  BY <1>0, <1>2 DEF FetchTracked, Placed, world
<1>3. CASE Rotate
  <2>1. /\ Len(Directory) \in Nat /\ Len(Directory) <= Cardinality(Board)
        /\ \A i \in 1..Len(Directory) : Directory[i] \in AtsBoard
    BY DirectoryOfBoards DEF SourcesInv
  <2>2. CASE Len(Directory) = 0
    BY <1>0, <1>3, <2>2 DEF Rotate, Placed, world
  <2>3. CASE Len(Directory) # 0
    <3> DEFINE size == Len(Directory)
               start == cursor % size
    <3>1. /\ selected' = {Directory[((start + i) % size) + 1] : i \in 0..(BoardsPerTick - 1)}
          /\ cursor' = start + BoardsPerTick
      BY <1>3, <2>3 DEF Rotate
    <3>2. size \in Nat \ {0} /\ cursor \in Nat /\ Cardinality(Board) \in Nat /\ BoardsPerTick \in Nat
      BY <1>0, <2>1, <2>3, AtsBoards, SourcesAssumption DEF Placed
    <3>3. start \in 0..(size - 1)
      BY <3>2
    <3> HIDE DEF size, start
    <3>4. \A i \in 0..(BoardsPerTick - 1) : ((start + i) % size) + 1 \in 1..size
      BY <3>2, <3>3
    <3>5. selected' \subseteq AtsBoard
      BY <2>1, <3>1, <3>4 DEF size
    <3>6. cursor' \in 0..(Cardinality(Board) + BoardsPerTick)
      BY <2>1, <3>1, <3>2, <3>3 DEF size
    <3> QED BY <1>0, <1>3, <3>5, <3>6 DEF Rotate, Placed, world
  <2> QED BY <2>2, <2>3
<1>4. ASSUME NEW up \in SUBSET (Feed \cup selected), FetchWide(up) PROVE Placed'
  <2> DEFINE incoming == Copies("wide", (Feed \cup selected) \cap up)
             found == {Home[c.opening] : c \in {d \in incoming : LinksHome(d)}}
  <2>1. (Feed \cup selected) \cap up \in SUBSET DOMAIN Holds
    BY SourcesAssumption DEF SourcesInv, AtsBoard
  <2>2. incoming \subseteq Copy
    BY <2>1, CopiesCopied
  <2>3. found \subseteq AtsBoard
    <3>1. \A o \in Opening : Home[o] \in AtsBoard \cup {NoBoard}
      BY SourcesAssumption
    <3>2. \A c \in incoming : c.opening \in Opening
      BY <2>2 DEF Copy
    <3> HIDE DEF incoming
    <3> QED BY <3>1, <3>2 DEF LinksHome
  <2>4. learned' = learned \cup (found \ DOMAIN FileBoard)
    BY <1>4 DEF FetchWide
  <2> HIDE DEF found
  <2>5. learned' \subseteq AtsBoard
    BY <1>0, <2>3, <2>4 DEF Placed
  <2> QED BY <1>0, <1>4, <2>5 DEF FetchWide, Placed
<1>5. ASSUME NEW dead, Judge(dead) PROVE Placed'
  BY <1>0, <1>5 DEF Judge, Placed, world
<1>6. ASSUME NEW c, Save(c) PROVE Placed'
  BY <1>0, <1>6 DEF Save, Placed
<1> QED BY <1>1, <1>2, <1>3, <1>4, <1>5, <1>6 DEF PassStep

LEMMA PlacedStep == SourcesInv /\ [Next]_vars => Placed'
<1> SUFFICES ASSUME SourcesInv, [Next]_vars PROVE Placed'
  OBVIOUS
<1>1. CASE Stop
  BY <1>1 DEF SourcesInv, TypeOK, Stop, Placed
<1>2. CASE UNCHANGED vars
  BY <1>2 DEF SourcesInv, TypeOK, vars, pass, Placed
<1> QED BY <1>1, <1>2, AroundPlaced, PassPlaced DEF Next

LEMMA SourcesStep == SourcesInv /\ [Next]_vars => SourcesInv'
<1> SUFFICES ASSUME SourcesInv, [Next]_vars PROVE SourcesInv'
  OBVIOUS
<1>1. Placed' /\ Held' /\ RowsInv' /\ (profile \in Profiles \cup {FirstProfile})'
  BY PlacedStep, HeldStep, RowsStep, ProfileStep
<1>2. TypeOK'
  <2>1. learned' \subseteq Board /\ selected' \subseteq Board
    BY <1>1, AtsBoards DEF Placed
  <2>2. \A c \in fresh' : c.via \in {"tracked", "wide"} /\ c.opening \in Holds[c.place]
    BY <1>1 DEF Held, Copy
  <2> QED BY <1>1, <2>1, <2>2 DEF TypeOK, Placed, Held
<1> QED BY <1>1, <1>2 DEF SourcesInv, Placed, Held

LEMMA SourcesAlways == Spec => []SourcesInv
BY SourcesInitial, SourcesStep, PTL DEF Spec

(* Whatever the boards, feeds and catalog, and however passes interleave with   *)
(* tracking and seeding: places stay places, the cursors stay in their lists,   *)
(* and no more postings are scored than the pass is allowed.                 *)
THEOREM SourcesTyped == Spec => []TypeOK
<1>1. SourcesInv => TypeOK
  BY DEF SourcesInv
<1> QED BY <1>1, SourcesAlways, PTL

(* An opening that passes and seeding found on a board is one row.            *)
THEOREM OneRowEach == Spec => []OneRowPerListing
<1>1. SourcesInv => OneRowPerListing
  <2> SUFFICES ASSUME SourcesInv, NEW r \in rows, NEW s \in rows,
                      {r.how, s.how} \subseteq {"pass", "seed"},
                      r.id.source = s.id.source, r.id.source \notin Cased \cup Wide,
                      r.id.opening = s.id.opening
               PROVE  r = s
    BY DEF OneRowPerListing
  <2>1. PICK c \in Copy : r.id = Id(c)
    BY DEF SourcesInv, RowsInv
  <2>2. PICK d \in Copy : s.id = Id(d)
    BY DEF SourcesInv, RowsInv
  <2>3. ASSUME NEW e \in Copy, Id(e).source \notin Cased \cup Wide
        PROVE  Id(e) = [source |-> e.place.source, token |-> e.place.token,
                        opening |-> e.opening, form |-> "board"]
    <3>1. Id(e).source = e.place.source
      BY DEF Id, Bare
    <3>2. e.place \notin Feed
      BY <2>3, <3>1, SourcesAssumption
    <3> QED BY <2>3, <3>1, <3>2 DEF Id
  <2>4. c.place.source = d.place.source /\ c.opening = d.opening
    BY <2>1, <2>2, <2>3
  <2>5. c.place = d.place
    BY <2>4, SourcesAssumption DEF Copy
  <2>6. r.id = s.id
    BY <2>1, <2>2, <2>3, <2>5
  <2> QED BY <2>6 DEF SourcesInv, RowsInv
<1> QED BY <1>1, SourcesAlways, PTL

-----------------------------------------------------------------------------
(* The free score. *)
LEMMA MinOfTwo == \A a, b \in Int : Min({a, b}) = IF a <= b THEN a ELSE b
<1> SUFFICES ASSUME NEW a \in Int, NEW b \in Int PROVE Min({a, b}) = IF a <= b THEN a ELSE b
  OBVIOUS
<1>1. \E x \in {a, b} : \A y \in {a, b} : x <= y
  BY a <= b \/ b <= a
<1>2. Min({a, b}) \in {a, b} /\ \A y \in {a, b} : Min({a, b}) <= y
  BY <1>1 DEF Min
<1> QED BY <1>2

LEMMA MaxOfTwo == \A a, b \in Int : Max({a, b}) = IF a >= b THEN a ELSE b
<1> SUFFICES ASSUME NEW a \in Int, NEW b \in Int PROVE Max({a, b}) = IF a >= b THEN a ELSE b
  OBVIOUS
<1>1. \E x \in {a, b} : \A y \in {a, b} : x >= y
  BY a <= b \/ b <= a
<1>2. Max({a, b}) \in {a, b} /\ \A y \in {a, b} : Max({a, b}) >= y
  BY <1>1 DEF Max
<1> QED BY <1>2

(* From the fourth skill on, coverage counts what is mentioned and nothing else. *)
LEMMA CoverageSaturates ==
  ASSUME NEW S, IsFiniteSet(S), Cardinality(S) >= Saturation, NEW text
  PROVE  LET matched == Cardinality({t \in S : TermIn(t, text)})
         IN  /\ matched \in Nat
             /\ Coverage(S, text) = IF One <= (One * matched) \div 4 THEN One
                                    ELSE (One * matched) \div 4
<1> DEFINE M == {t \in S : TermIn(t, text)}
           matched == Cardinality(M)
<1>1. IsFiniteSet(M)
  BY FS_Subset
<1>2. matched \in Nat /\ Cardinality(S) \in Nat
  BY <1>1, FS_CardinalityType
<1>3. Min({Cardinality(S), Saturation}) = 4
  BY <1>2, MinOfTwo DEF Saturation
<1>4. Coverage(S, text) = Min({One, (One * matched) \div 4})
  BY <1>3 DEF Coverage
<1> HIDE DEF matched, M
<1>5. One \in Int /\ (One * matched) \div 4 \in Int
  BY <1>2 DEF One
<1>6. Coverage(S, text) = IF One <= (One * matched) \div 4 THEN One ELSE (One * matched) \div 4
  BY <1>4, <1>5, MinOfTwo
<1> QED BY <1>2, <1>6 DEF matched, M

LEMMA CoverageGrows ==
  ASSUME NEW S, NEW T, IsFiniteSet(T), S \subseteq T, Cardinality(S) >= Saturation, NEW text
  PROVE  /\ Coverage(S, text) \in Int /\ Coverage(T, text) \in Int
         /\ Coverage(S, text) <= Coverage(T, text)
<1>1. IsFiniteSet(S) /\ Cardinality(S) <= Cardinality(T)
  BY FS_Subset
<1>2. Cardinality(S) \in Nat /\ Cardinality(T) \in Nat
  BY <1>1, FS_CardinalityType
<1>3. Cardinality(T) >= Saturation
  BY <1>1, <1>2 DEF Saturation
<1>4. PICK m : m = Cardinality({t \in S : TermIn(t, text)})
  OBVIOUS
<1>5. PICK n : n = Cardinality({t \in T : TermIn(t, text)})
  OBVIOUS
<1>6. m <= n
  <2> DEFINE M == {t \in S : TermIn(t, text)}
             N == {t \in T : TermIn(t, text)}
  <2>1. M \in SUBSET N
    OBVIOUS
  <2>2. IsFiniteSet(N)
    BY FS_Subset
  <2> HIDE DEF M, N
  <2>3. Cardinality(M) <= Cardinality(N)
    BY <2>1, <2>2, FS_Subset
  <2> QED BY <1>4, <1>5, <2>3 DEF M, N
<1>7. /\ m \in Nat
      /\ Coverage(S, text) = IF One <= (One * m) \div 4 THEN One ELSE (One * m) \div 4
  BY <1>1, <1>4, CoverageSaturates
<1>8. /\ n \in Nat
      /\ Coverage(T, text) = IF One <= (One * n) \div 4 THEN One ELSE (One * n) \div 4
  BY <1>3, <1>5, CoverageSaturates
<1>9. (One * m) \div 4 <= (One * n) \div 4 /\ (One * m) \div 4 \in Int /\ (One * n) \div 4 \in Int
  BY <1>6, <1>7, <1>8 DEF One
<1> QED BY <1>7, <1>8, <1>9 DEF One

LEMMA SkillsAdd ==
  ASSUME NEW p, NEW q, NEW ad,
         q.roles = p.roles, q.places = p.places, p.keywords \subseteq q.keywords,
         IsFiniteSet(q.keywords), Cardinality(p.keywords \ p.roles) >= Saturation
  PROVE  HeuristicScore(ad, p) <= HeuristicScore(ad, q)
<1> DEFINE S == p.keywords \ p.roles
           T == q.keywords \ q.roles
<1>1. S \subseteq T /\ IsFiniteSet(T)
  BY FS_Subset
<1>2. S # {} /\ T # {}
  BY <1>1, FS_EmptySet DEF Saturation
<1>3. PICK cs : cs = Coverage(S, Haystack(ad))
  OBVIOUS
<1>4. PICK ct : ct = Coverage(T, Haystack(ad))
  OBVIOUS
<1>5. cs \in Int /\ ct \in Int /\ cs <= ct
  BY <1>1, <1>3, <1>4, CoverageGrows
<1>6. PICK role : role = RoleComponent(UNION {RoleVariants(r) : r \in p.roles}, ad)
  OBVIOUS
<1>7. role \in Int
  BY <1>6 DEF RoleComponent, One
<1>8. /\ Base(ad, p) = IF p.roles # {} THEN (role + cs) \div 2 ELSE cs
      /\ Base(ad, q) = IF p.roles # {} THEN (role + ct) \div 2 ELSE ct
  BY <1>2, <1>3, <1>4, <1>6 DEF Base
<1>9. PICK b : b = Base(ad, p)
  OBVIOUS
<1>10. PICK d : d = Base(ad, q)
  OBVIOUS
<1>11. b \in Int /\ d \in Int /\ b <= d
  BY <1>5, <1>7, <1>8, <1>9, <1>10
<1>12. PICK place : place = PlaceBonus(ad, p)
  OBVIOUS
<1>13. place \in Int /\ place = PlaceBonus(ad, q)
  BY <1>12 DEF PlaceBonus, One
<1>14. HeuristicScore(ad, p) = Max({0, Min({One, b + place})})
       /\ HeuristicScore(ad, q) = Max({0, Min({One, d + place})})
  BY <1>9, <1>10, <1>12, <1>13 DEF HeuristicScore
<1>15. One \in Int
  BY DEF One
<1>16. \A x, y \in Int : x <= y =>
         Max({0, Min({One, x})}) <= Max({0, Min({One, y})})
  BY <1>15, MinOfTwo, MaxOfTwo
<1>17. b + place \in Int /\ d + place \in Int /\ b + place <= d + place
  BY <1>11, <1>13
<1> QED BY <1>14, <1>16, <1>17

(* Once four skills are listed, one more never makes an ad fit worse,          *)
(* whatever the ad and the skills say.                                      *)
THEOREM SkillsNeverHurt == Spec => NoSkillHurts
<1> DEFINE Fair == /\ profile' # profile /\ profile'.roles = profile.roles
                   /\ profile'.places = profile.places
                   /\ profile.keywords \subseteq profile'.keywords
                   /\ Cardinality(profile.keywords \ profile.roles) >= Saturation
                   => \A o \in Opening : HeuristicScore(Ad[o], profile) <= HeuristicScore(Ad[o], profile')
<1>1. SourcesInv /\ SourcesInv' => Fair
  <2> SUFFICES ASSUME SourcesInv, SourcesInv',
                      profile'.roles = profile.roles, profile'.places = profile.places,
                      profile.keywords \subseteq profile'.keywords,
                      Cardinality(profile.keywords \ profile.roles) >= Saturation,
                      NEW o \in Opening
               PROVE  HeuristicScore(Ad[o], profile) <= HeuristicScore(Ad[o], profile')
    OBVIOUS
  <2>1. IsFiniteSet(profile'.keywords)
    BY SourcesAssumption DEF SourcesInv
  <2> QED BY <2>1, SkillsAdd
<1>2. SourcesInv /\ [Next]_vars => [Fair]_vars
  BY <1>1, SourcesStep
<1> QED BY <1>2, SourcesAlways, PTL DEF Spec, NoSkillHurts
=============================================================================

----------------------------- MODULE TableProofs -----------------------------
(***************************************************************************)
(* What the operators of Tables preserve, for every table, and what the    *)
(* sum of a column over some rows is, for every finite set of rows: the    *)
(* lemmas that the proofs about the components share.                      *)
(***************************************************************************)
EXTENDS Tables, Functions, FiniteSetTheorems, WellFoundedInduction, TLAPS

-----------------------------------------------------------------------------
(* Tables *)

(* Inserting a row of its type keeps a table typed. *)
LEMMA InsertTyped ==
  ASSUME NEW Ids, NEW Row, NEW t, IsTable(t, Ids, Row), NEW id \in Ids, NEW row \in Row
  PROVE  IsTable(Insert(t, id, row), Ids, Row)
BY DEF IsTable, Insert

(* Rewriting a row of a table keeps it typed. *)
LEMMA UpdateTyped ==
  ASSUME NEW Ids, NEW Row, NEW t, IsTable(t, Ids, Row), NEW id, NEW row,
         id \in DOMAIN t => row \in Row
  PROVE  IsTable([t EXCEPT ![id] = row], Ids, Row)
BY DEF IsTable

(* The lowest free id is an id, and it is free. *)
LEMMA FreshIdIsFree ==
  ASSUME NEW Ids, NEW t, NEW id \in FreshId(t, Ids)
  PROVE  id \in Ids /\ id \notin DOMAIN t
BY DEF FreshId

(* An insertion under a free id leaves the rows there are. *)
LEMMA InsertKeepsRows ==
  ASSUME NEW Ids, NEW t, NEW id \in FreshId(t, Ids), NEW row, NEW x \in DOMAIN t
  PROVE  x \in DOMAIN Insert(t, id, row) /\ Insert(t, id, row)[x] = t[x]
BY FreshIdIsFree DEF Insert

(* A table without rows is typed. *)
LEMMA EmptyTableTyped == ASSUME NEW Ids, NEW Row PROVE IsTable(EmptyTable, Ids, Row)
BY DEF IsTable, EmptyTable

(* Rewriting one row leaves the ids and the other rows. *)
LEMMA UpdateKeepsRows ==
  ASSUME NEW Ids, NEW Row, NEW t, IsTable(t, Ids, Row), NEW id, NEW row
  PROVE  /\ DOMAIN [t EXCEPT ![id] = row] = DOMAIN t
         /\ \A x \in DOMAIN t \ {id} : [t EXCEPT ![id] = row][x] = t[x]
         /\ id \in DOMAIN t => [t EXCEPT ![id] = row][id] = row
BY DEF IsTable

-----------------------------------------------------------------------------
(* Sums of a column: SumFunctionOnSet of the community modules, for every finite
   set.  The library's inductions take an operator and cannot be cited, so every
   induction here is: the sets for which the claim fails have a smallest one. *)

(* Of the finite sets of a collection, one has no smaller one beside it: this takes
   the place of an induction over finite sets. *)
LEMMA SmallestSet ==
  ASSUME NEW collection, collection # {}, \A T \in collection : IsFiniteSet(T)
  PROVE  \E T \in collection : \A U \in collection : U \subseteq T => U = T
<1> DEFINE sizes == {Cardinality(T) : T \in collection}
           less  == {pair \in Nat \X Nat : pair[1] < pair[2]}
<1>1. sizes \subseteq Nat /\ sizes # {}
  BY FS_CardinalityType
<1>2. IsWellFoundedOn(less, Nat)
  BY NatLessThanWellFounded DEF OpToRel
<1>3. PICK least \in sizes : \A other \in sizes : <<other, least>> \notin less
  <2> HIDE DEF sizes, less
  <2> QED BY <1>1, <1>2, WFMin
<1>4. PICK T \in collection : least = Cardinality(T)
  BY <1>3
<1>5. ASSUME NEW U \in collection, U \subseteq T PROVE U = T
  <2>1. Cardinality(U) <= Cardinality(T) /\ (Cardinality(T) = Cardinality(U) => T = U)
    BY <1>5, FS_Subset
  <2>2. Cardinality(U) \in Nat /\ Cardinality(T) \in Nat
    BY FS_CardinalityType
  <2>3. ~(Cardinality(U) < Cardinality(T))
    BY <1>3, <1>4, <2>2
  <2> QED BY <2>1, <2>2, <2>3
<1> QED BY <1>5

(* The element that the fold takes first, and the partial sums of the fold. *)
First(T) == CHOOSE x \in T : TRUE

PartialSums(f, S, sum) ==
  sum = [T \in SUBSET S |-> IF T = {} THEN 0 ELSE f[First(T)] + sum[T \ {First(T)}]]

(* A set that is not empty has a first element. *)
LEMMA FirstIsElement == ASSUME NEW T, T # {} PROVE First(T) \in T
BY DEF First

(* The sum of the community modules is the last of the partial sums. *)
LEMMA SumIsPartialSum ==
  ASSUME NEW f, NEW S
  PROVE  SumFunctionOnSet(f, S) = (CHOOSE sum : PartialSums(f, S, sum))[S]
BY DEF SumFunctionOnSet, FoldFunctionOnSet, MapThenFoldSet, PartialSums, First

(* Functions that agree on a finite set have the same partial sums on it, whatever
   larger set the sums are taken from. *)
LEMMA PartialSumsAgree ==
  ASSUME NEW S, IsFiniteSet(S), NEW f, NEW R, S \subseteq R, NEW sum, PartialSums(f, R, sum),
         NEW g, NEW Q, S \subseteq Q, NEW other, PartialSums(g, Q, other),
         \A x \in S : f[x] = g[x]
  PROVE  sum[S] = other[S]
<1> DEFINE different == {T \in SUBSET S : sum[T] # other[T]}
<1>1. SUFFICES ASSUME different # {} PROVE FALSE
  OBVIOUS
<1>2. PICK T \in different : \A U \in different : U \subseteq T => U = T
  <2>1. \A T \in different : IsFiniteSet(T)
    BY FS_Subset
  <2> HIDE DEF different
  <2> QED BY <1>1, <2>1, SmallestSet
<1>3. T \in SUBSET R /\ T \in SUBSET Q
  OBVIOUS
<1>4. CASE T = {}
  BY <1>3, <1>4 DEF PartialSums
<1>5. CASE T # {}
  <2> DEFINE x == First(T)
  <2>1. x \in T
    BY <1>5, FirstIsElement
  <2>2. sum[T] = f[x] + sum[T \ {x}] /\ other[T] = g[x] + other[T \ {x}]
    BY <1>3, <1>5 DEF PartialSums
  <2>3. T \ {x} \notin different
    BY <1>2, <2>1
  <2>4. sum[T \ {x}] = other[T \ {x}]
    BY <2>3
  <2>5. f[x] = g[x]
    BY <2>1
  <2> QED BY <2>2, <2>4, <2>5
<1> QED BY <1>4, <1>5

(* The fold has partial sums. *)
LEMMA PartialSumsExist ==
  ASSUME NEW f, NEW S, IsFiniteSet(S)
  PROVE  \E sum : PartialSums(f, S, sum)
<1> DEFINE without == {T \in SUBSET S : ~\E sum : PartialSums(f, T, sum)}
<1>1. SUFFICES ASSUME without # {} PROVE FALSE
  OBVIOUS
<1>2. PICK T \in without : \A U \in without : U \subseteq T => U = T
  <2>1. \A T \in without : IsFiniteSet(T)
    BY FS_Subset
  <2> HIDE DEF without
  <2> QED BY <1>1, <2>1, SmallestSet
<1> DEFINE Of(U)  == CHOOSE sum : PartialSums(f, U, sum)
           sum    == [U \in SUBSET T |->
                        IF U = {} THEN 0
                        ELSE f[First(U)] + Of(U \ {First(U)})[U \ {First(U)}]]
<1>3. ASSUME NEW U \in SUBSET T, U # T PROVE PartialSums(f, U, Of(U))
  <2>1. U \notin without
    BY <1>2, <1>3
  <2> QED BY <2>1
<1>4. ASSUME NEW U \in SUBSET T, U # T PROVE sum[U] = Of(U)[U]
  <2>1. PartialSums(f, U, Of(U))
    BY <1>3, <1>4
  <2>2. CASE U = {}
    BY <2>1, <2>2 DEF PartialSums
  <2>3. CASE U # {}
    <3> DEFINE x == First(U)
               V == U \ {x}
    <3>1. x \in U
      BY <2>3, FirstIsElement
    <3>2. Of(U)[U] = f[x] + Of(U)[V]
      BY <2>1, <2>3 DEF PartialSums
    <3>3. V \in SUBSET T /\ V # T /\ V \subseteq U /\ IsFiniteSet(V)
      BY <3>1, FS_Subset
    <3>4. PartialSums(f, V, Of(V))
      BY <1>3, <3>3
    <3>5. Of(U)[V] = Of(V)[V]
      <4> HIDE DEF Of, V, x
      <4> QED BY <2>1, <3>3, <3>4, PartialSumsAgree
    <3> QED BY <2>3, <3>2, <3>5
  <2> QED BY <2>2, <2>3
<1>5. ASSUME NEW U \in SUBSET T
      PROVE  sum[U] = IF U = {} THEN 0 ELSE f[First(U)] + sum[U \ {First(U)}]
  <2>1. SUFFICES ASSUME U # {} PROVE sum[U] = f[First(U)] + sum[U \ {First(U)}]
    OBVIOUS
  <2>2. First(U) \in U
    BY <2>1, FirstIsElement
  <2>3. sum[U \ {First(U)}] = Of(U \ {First(U)})[U \ {First(U)}]
    <3>1. U \ {First(U)} \in SUBSET T /\ U \ {First(U)} # T
      BY <2>2
    <3> HIDE DEF sum, Of
    <3> QED BY <1>4, <3>1
  <2> QED BY <2>1, <2>3
<1>6. PartialSums(f, T, sum)
  <2>1. sum = [U \in SUBSET T |-> sum[U]]
    OBVIOUS
  <2> HIDE DEF sum
  <2> QED BY <1>5, <2>1 DEF PartialSums
<1> QED BY <1>2, <1>6

(* The sum of a finite set is the value of one element and the sum of the others. *)
LEMMA SumUnfolds ==
  ASSUME NEW f, NEW S, IsFiniteSet(S)
  PROVE  SumFunctionOnSet(f, S) =
           IF S = {} THEN 0 ELSE f[First(S)] + SumFunctionOnSet(f, S \ {First(S)})
<1> DEFINE Of(U) == CHOOSE sum : PartialSums(f, U, sum)
<1>1. PartialSums(f, S, Of(S))
  BY PartialSumsExist
<1>2. CASE S = {}
  BY <1>1, <1>2, SumIsPartialSum DEF PartialSums
<1>3. CASE S # {}
  <2> DEFINE V == S \ {First(S)}
  <2>1. IsFiniteSet(V) /\ V \subseteq S
    BY FS_Subset
  <2>2. PartialSums(f, V, Of(V))
    BY <2>1, PartialSumsExist
  <2>3. Of(S)[V] = Of(V)[V]
    <3> HIDE DEF Of, V
    <3> QED BY <1>1, <2>1, <2>2, PartialSumsAgree
  <2>4. Of(S)[S] = f[First(S)] + Of(S)[V]
    BY <1>1, <1>3 DEF PartialSums
  <2>5. SumFunctionOnSet(f, S) = Of(S)[S] /\ SumFunctionOnSet(f, V) = Of(V)[V]
    BY SumIsPartialSum
  <2> QED BY <1>3, <2>3, <2>4, <2>5
<1> QED BY <1>2, <1>3

(* Nothing adds up to 0. *)
LEMMA SumOfNone == ASSUME NEW f PROVE SumFunctionOnSet(f, {}) = 0
BY SumUnfolds, FS_EmptySet

(* The sum looks at the function on the set only. *)
LEMMA SumsAgree ==
  ASSUME NEW S, IsFiniteSet(S), NEW f, NEW g, \A x \in S : f[x] = g[x]
  PROVE  SumFunctionOnSet(f, S) = SumFunctionOnSet(g, S)
<1>1. PartialSums(f, S, CHOOSE sum : PartialSums(f, S, sum))
  BY PartialSumsExist
<1>2. PartialSums(g, S, CHOOSE sum : PartialSums(g, S, sum))
  BY PartialSumsExist
<1> QED BY <1>1, <1>2, PartialSumsAgree, SumIsPartialSum

(* A sum of integers is an integer, and of naturals a natural. *)
LEMMA SumTyped ==
  ASSUME NEW S, IsFiniteSet(S), NEW f, NEW Numbers, Numbers = Int \/ Numbers = Nat,
         \A x \in S : f[x] \in Numbers
  PROVE  SumFunctionOnSet(f, S) \in Numbers
<1> DEFINE other == {T \in SUBSET S : SumFunctionOnSet(f, T) \notin Numbers}
<1>1. SUFFICES ASSUME other # {} PROVE FALSE
  OBVIOUS
<1>2. PICK T \in other : \A U \in other : U \subseteq T => U = T
  <2>1. \A T \in other : IsFiniteSet(T)
    BY FS_Subset
  <2> HIDE DEF other
  <2> QED BY <1>1, <2>1, SmallestSet
<1>3. IsFiniteSet(T)
  BY FS_Subset
<1>4. T # {}
  BY SumOfNone
<1>5. First(T) \in T
  BY <1>4, FirstIsElement
<1>6. T \ {First(T)} \notin other
  BY <1>2, <1>5
<1>7. SumFunctionOnSet(f, T \ {First(T)}) \in Numbers /\ f[First(T)] \in Numbers
  BY <1>5, <1>6
<1>8. SumFunctionOnSet(f, T) = f[First(T)] + SumFunctionOnSet(f, T \ {First(T)})
  BY <1>3, <1>4, SumUnfolds
<1> QED BY <1>7, <1>8

(* Whatever element the fold takes first: an element adds its value. *)
LEMMA SumAdds ==
  ASSUME NEW S, IsFiniteSet(S), NEW x, x \notin S, NEW f, \A y \in S \cup {x} : f[y] \in Int
  PROVE  SumFunctionOnSet(f, S \cup {x}) = f[x] + SumFunctionOnSet(f, S)
<1> DEFINE all   == S \cup {x}
           Sum(T) == SumFunctionOnSet(f, T)
           other == {T \in SUBSET all : \E z \in all \ T : Sum(T \cup {z}) # f[z] + Sum(T)}
<1>1. SUFFICES ASSUME other # {} PROVE FALSE
  OBVIOUS
<1>2. IsFiniteSet(all)
  BY FS_AddElement
<1>3. PICK T \in other : \A U \in other : U \subseteq T => U = T
  <2>1. \A T \in other : IsFiniteSet(T)
    BY <1>2, FS_Subset
  <2> HIDE DEF other
  <2> QED BY <1>1, <2>1, SmallestSet
<1>4. PICK z \in all \ T : Sum(T \cup {z}) # f[z] + Sum(T)
  OBVIOUS
<1> DEFINE w == First(T \cup {z})
<1>5. w \in T \cup {z}
  BY FirstIsElement
<1>6. \A U \in SUBSET all : IsFiniteSet(U) /\ Sum(U) \in Int
  <2>1. ASSUME NEW U \in SUBSET all PROVE IsFiniteSet(U) /\ Sum(U) \in Int
    <3>1. IsFiniteSet(U)
      BY <1>2, FS_Subset
    <3>2. \A y \in U : f[y] \in Int
      OBVIOUS
    <3> QED BY <3>1, <3>2, SumTyped
  <2> QED BY <2>1
<1>7. Sum(T \cup {z}) = f[w] + Sum((T \cup {z}) \ {w})
  BY <1>6, SumUnfolds
<1>8. CASE w = z
  BY <1>4, <1>7, <1>8
<1>9. CASE w # z
  <2> DEFINE V == T \ {w}
  <2>1. w \in T /\ V \notin other /\ V \in SUBSET all
    BY <1>3, <1>5, <1>9
  <2>2. /\ Sum(V \cup {z}) = f[z] + Sum(V)
        /\ Sum(V \cup {w}) = f[w] + Sum(V)
    BY <1>5, <2>1
  <2>3. V \cup {w} = T /\ V \cup {z} = (T \cup {z}) \ {w}
    BY <1>9, <2>1
  <2>4. Sum(V) \in Int /\ f[z] \in Int /\ f[w] \in Int
    BY <1>5, <1>6, <2>1
  <2> HIDE DEF Sum, V, w
  <2> QED BY <1>4, <1>7, <2>2, <2>3, <2>4
<1> QED BY <1>8, <1>9

(* The sum over one element is its value. *)
LEMMA SumOfOne ==
  ASSUME NEW f, NEW x, f[x] \in Int
  PROVE  SumFunctionOnSet(f, {x}) = f[x]
<1>1. SumFunctionOnSet(f, {} \cup {x}) = f[x] + SumFunctionOnSet(f, {})
  BY SumAdds, FS_EmptySet
<1>2. {} \cup {x} = {x}
  OBVIOUS
<1> QED BY <1>1, <1>2, SumOfNone

(* More elements, no smaller a sum of naturals. *)
LEMMA SumOfSubset ==
  ASSUME NEW R, IsFiniteSet(R), NEW S \in SUBSET R, NEW f, \A x \in R : f[x] \in Nat
  PROVE  SumFunctionOnSet(f, S) <= SumFunctionOnSet(f, R)
<1> DEFINE Sum(T) == SumFunctionOnSet(f, T)
           other == {T \in SUBSET R : S \subseteq T /\ ~(Sum(S) <= Sum(T))}
<1>1. SUFFICES ASSUME other # {} PROVE FALSE
  OBVIOUS
<1>2. PICK T \in other : \A U \in other : U \subseteq T => U = T
  <2>1. \A T \in other : IsFiniteSet(T)
    BY FS_Subset
  <2> HIDE DEF other
  <2> QED BY <1>1, <2>1, SmallestSet
<1>3. ASSUME NEW U \in SUBSET R PROVE IsFiniteSet(U) /\ Sum(U) \in Nat
  <2>1. IsFiniteSet(U)
    BY FS_Subset
  <2> QED BY <2>1, SumTyped
<1>4. T # S
  BY <1>3
<1>5. PICK x \in T \ S : TRUE
  BY <1>4
<1> DEFINE V == T \ {x}
<1>6. V \in SUBSET R /\ S \subseteq V /\ V \notin other
  BY <1>2, <1>5
<1>7. Sum(S) <= Sum(V)
  BY <1>6
<1>8. Sum(T) = f[x] + Sum(V)
  <2>1. \A y \in V \cup {x} : f[y] \in Int
    OBVIOUS
  <2>2. x \notin V /\ IsFiniteSet(V) /\ V \cup {x} = T
    BY <1>3, <1>5, <1>6
  <2> HIDE DEF V
  <2> QED BY <2>1, <2>2, SumAdds
<1>9. Sum(S) \in Nat /\ Sum(V) \in Nat /\ f[x] \in Nat /\ ~(Sum(S) <= Sum(T))
  BY <1>3, <1>6
<1> HIDE DEF Sum, V
<1> QED BY <1>7, <1>8, <1>9

(* A set that another one covers, element by element and up to half of slack for each
   element, has no larger sum up to half of slack for each of its elements. *)
LEMMA SumCovered ==
  ASSUME NEW S, IsFiniteSet(S), NEW R, IsFiniteSet(R), NEW f, NEW g, NEW cover \in [S -> R],
         NEW slack \in Nat,
         \A x, y \in S : cover[x] = cover[y] => x = y,
         \A x \in S : f[x] \in Nat /\ 2 * f[x] <= 2 * g[cover[x]] + slack,
         \A z \in R : g[z] \in Nat
  PROVE  2 * SumFunctionOnSet(f, S) <= 2 * SumFunctionOnSet(g, R) + slack * Cardinality(S)
<1> DEFINE Image(T) == {cover[x] : x \in T}
           Within(T) == 2 * SumFunctionOnSet(f, T)
                          <= 2 * SumFunctionOnSet(g, Image(T)) + slack * Cardinality(T)
           other == {T \in SUBSET S : ~Within(T)}
<1>1. ASSUME other # {} PROVE FALSE
  <2>1. PICK T \in other : \A U \in other : U \subseteq T => U = T
    <3>1. \A T \in other : IsFiniteSet(T)
      BY FS_Subset
    <3> HIDE DEF other
    <3> QED BY <1>1, <3>1, SmallestSet
  <2>2. ASSUME T = {} PROVE FALSE
    <3>1. Image(T) = {}
      BY <2>2
    <3>2. /\ SumFunctionOnSet(f, T) = 0
          /\ SumFunctionOnSet(g, Image(T)) = 0
          /\ Cardinality(T) = 0
      <4> HIDE DEF Image
      <4> QED BY <2>2, <3>1, SumOfNone, FS_EmptySet
    <3>3. ~Within(T)
      BY <2>1
    <3> HIDE DEF Image
    <3> QED BY <3>2, <3>3
  <2>3. ASSUME T # {} PROVE FALSE
    <3>1. PICK x \in T : TRUE
      BY <2>3
    <3> DEFINE V == T \ {x}
    <3>2. V \in SUBSET S /\ V \notin other
      BY <2>1
    <3>3. Within(V)
      BY <3>2
    <3>4. T = V \cup {x} /\ Image(T) = Image(V) \cup {cover[x]} /\ cover[x] \notin Image(V)
      OBVIOUS
    <3>5. IsFiniteSet(V) /\ IsFiniteSet(Image(V)) /\ Image(V) \subseteq R
      BY FS_Subset
    <3>6. SumFunctionOnSet(f, T) = f[x] + SumFunctionOnSet(f, V)
      <4>1. \A y \in V \cup {x} : f[y] \in Int
        OBVIOUS
      <4>2. x \notin V
        OBVIOUS
      <4> HIDE DEF V
      <4> QED BY <3>4, <3>5, <4>1, <4>2, SumAdds
    <3>7. SumFunctionOnSet(g, Image(T)) = g[cover[x]] + SumFunctionOnSet(g, Image(V))
      <4>1. \A y \in Image(V) \cup {cover[x]} : g[y] \in Int
        <5>1. cover[x] \in R
          OBVIOUS
        <5> HIDE DEF V, Image
        <5> QED BY <3>5, <5>1
      <4>2. PICK I : I = Image(V)
        OBVIOUS
      <4>3. /\ IsFiniteSet(I)
            /\ cover[x] \notin I
            /\ \A y \in I \cup {cover[x]} : g[y] \in Int
        BY <3>4, <3>5, <4>1, <4>2
      <4>4. SumFunctionOnSet(g, I \cup {cover[x]}) = g[cover[x]] + SumFunctionOnSet(g, I)
        BY <4>3, SumAdds
      <4> HIDE DEF V, Image
      <4> QED BY <3>4, <4>2, <4>4
    <3>8. SumFunctionOnSet(f, V) \in Nat /\ SumFunctionOnSet(g, Image(V)) \in Nat
      <4>1. (\A y \in V : f[y] \in Nat) /\ (\A y \in Image(V) : g[y] \in Nat)
        BY <3>5
      <4> HIDE DEF V, Image
      <4> QED BY <3>5, <4>1, SumTyped
    <3>9. f[x] \in Nat /\ g[cover[x]] \in Nat /\ 2 * f[x] <= 2 * g[cover[x]] + slack
      OBVIOUS
    <3>10. slack * Cardinality(T) = slack * Cardinality(V) + slack
      <4>1. Cardinality(V) \in Nat
        BY <3>5, FS_CardinalityType
      <4>2. Cardinality(T) = Cardinality(V) + 1
        <5>1. x \notin V
          OBVIOUS
        <5> HIDE DEF V
        <5> QED BY <3>4, <3>5, <5>1, FS_AddElement
      <4>3. \A n \in Nat : slack * (n + 1) = slack * n + slack
        OBVIOUS
      <4> HIDE DEF V
      <4> QED BY <4>1, <4>2, <4>3
    <3>11. slack * Cardinality(V) \in Nat
      <4>1. Cardinality(V) \in Nat
        BY <3>5, FS_CardinalityType
      <4>2. \A n \in Nat : slack * n \in Nat
        OBVIOUS
      <4> HIDE DEF V
      <4> QED BY <4>1, <4>2
    <3>12. ~Within(T)
      BY <2>1
    <3> HIDE DEF V, Image
    <3> QED BY <3>3, <3>6, <3>7, <3>8, <3>9, <3>10, <3>11, <3>12
  <2> QED BY <2>2, <2>3
<1>2. Within(S)
  BY <1>1
<1>3. SumFunctionOnSet(g, Image(S)) <= SumFunctionOnSet(g, R)
  <2>1. Image(S) \subseteq R
    OBVIOUS
  <2> HIDE DEF Image
  <2> QED BY <2>1, SumOfSubset
<1>4. /\ SumFunctionOnSet(f, S) \in Nat
      /\ SumFunctionOnSet(g, Image(S)) \in Nat
      /\ SumFunctionOnSet(g, R) \in Nat
  <2>1. Image(S) \subseteq R /\ IsFiniteSet(Image(S))
    BY FS_Subset
  <2> HIDE DEF Image
  <2> QED BY <2>1, SumTyped
<1>5. slack * Cardinality(S) \in Int
  <2>1. Cardinality(S) \in Nat
    BY FS_CardinalityType
  <2>2. \A n \in Nat : slack * n \in Int
    OBVIOUS
  <2> QED BY <2>1, <2>2
<1> HIDE DEF Image
<1> QED BY <1>2, <1>3, <1>4, <1>5
=============================================================================

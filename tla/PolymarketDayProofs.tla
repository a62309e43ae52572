------------------------ MODULE PolymarketDayProofs ------------------------
(***************************************************************************)
(* Proofs about a day of the dashboard's one-shots, for every set of       *)
(* events and contents, every budget, night and format found, every number *)
(* of turns and kills.                                                     *)
(***************************************************************************)
EXTENDS PolymarketDay, FiniteSetTheorems, SequenceTheorems, TLAPS

-----------------------------------------------------------------------------
(* Sums over a finite set.  Whatever holds for some finite set holds for a   *)
(* smallest one, which is how the lemmas about sums go.                      *)

LEMMA Smallest ==
  ASSUME NEW S, IsFiniteSet(S), NEW F, F \subseteq SUBSET S, F # {}
  PROVE  \E T \in F : \A U \in F : U \subseteq T => U = T
<1> DEFINE R == StrictSubsetOrdering(S)
<1>1. IsWellFoundedOn(R, FiniteSubsetsOf(S))
  BY FS_StrictSubsetOrderingWellFounded
<1>2. F \subseteq FiniteSubsetsOf(S)
  BY FS_FiniteSubsetsOfFinite
<1> HIDE DEF R
<1>3. PICK T \in F : \A U \in F : ~ (<<U, T>> \in R)
  BY <1>1, <1>2, WFMin
<1>4. ASSUME NEW U \in F, U \subseteq T, U # T PROVE <<U, T>> \in R
  BY <1>4, <1>2 DEF R, StrictSubsetOrdering, FiniteSubsetsOf
<1>5. \A U \in F : U \subseteq T => U = T
  BY <1>3, <1>4
<1> QED
  BY <1>5

(* Samples with what they cost. *)
Costed(S) == IsFiniteSet(S) /\ \A x \in S : x.cost \in Nat

Pick(s) == CHOOSE x \in s : TRUE
IsSum(f, S) == f = [s \in SUBSET S |-> IF s = {} THEN 0 ELSE Pick(s).cost + f[s \ {Pick(s)}]]

LEMMA PickOne == ASSUME NEW s, s # {} PROVE Pick(s) \in s
BY DEF Pick

LEMMA UsedIsSum == ASSUME NEW S PROVE Used(S) = (CHOOSE f : IsSum(f, S))[S]
BY DEF Used, MapThenSumSet, MapThenFoldSet, IsSum, Pick

LEMMA SumEquation ==
  ASSUME NEW S, NEW f, IsSum(f, S), NEW s \in SUBSET S
  PROVE  f[s] = IF s = {} THEN 0 ELSE Pick(s).cost + f[s \ {Pick(s)}]
<1> DEFINE g == [t \in SUBSET S |-> IF t = {} THEN 0 ELSE Pick(t).cost + f[t \ {Pick(t)}]]
<1>1. f = g
  BY DEF IsSum
<1>2. g[s] = IF s = {} THEN 0 ELSE Pick(s).cost + f[s \ {Pick(s)}]
  OBVIOUS
<1> HIDE DEF g
<1> QED
  BY <1>1, <1>2

LEMMA SumIsUnique ==
  ASSUME NEW S, IsFiniteSet(S), NEW T, NEW f, NEW g, IsSum(f, S), IsSum(g, T),
         NEW s, s \subseteq S, s \subseteq T
  PROVE  f[s] = g[s]
<1> DEFINE F == {t \in SUBSET S : t \subseteq T /\ f[t] # g[t]}
<1>1. SUFFICES ASSUME F # {} PROVE FALSE
  OBVIOUS
<1>2. PICK t \in F : \A u \in F : u \subseteq t => u = t
  <2>1. F \subseteq SUBSET S /\ IsFiniteSet(S)
    BY DEF Costed
  <2> HIDE DEF F
  <2> QED
    BY <1>1, <2>1, Smallest
<1>3. t # {}
  BY SumEquation
<1>4. t \ {Pick(t)} \subseteq t /\ t \ {Pick(t)} # t
  BY <1>3, PickOne
<1>5. f[t \ {Pick(t)}] = g[t \ {Pick(t)}]
  BY <1>2, <1>4
<1> QED
  BY <1>3, <1>5, SumEquation

LEMMA SumExists == ASSUME NEW S, IsFiniteSet(S) PROVE \E f : IsSum(f, S)
<1> DEFINE F == {T \in SUBSET S : ~ \E f : IsSum(f, T)}
<1>1. SUFFICES ASSUME F # {} PROVE FALSE
  OBVIOUS
<1>2. PICK T \in F : \A U \in F : U \subseteq T => U = T
  <2>1. F \subseteq SUBSET S /\ IsFiniteSet(S)
    BY DEF Costed
  <2> HIDE DEF F
  <2> QED
    BY <1>1, <2>1, Smallest
<1>3. ASSUME NEW U, U \subseteq T, U # T
      PROVE  /\ IsFiniteSet(U) /\ \E f : IsSum(f, U)
             /\ IsSum(CHOOSE f : IsSum(f, U), U)
  BY <1>2, <1>3, FS_Subset
<1> DEFINE g == [s \in SUBSET T |-> IF s = {} THEN 0 ELSE Pick(s).cost + Used(s \ {Pick(s)})]
<1>4. ASSUME NEW u, u \subseteq T, u # T PROVE g[u] = Used(u)
  <2> DEFINE v == u \ {Pick(u)}
  <2>1. PICK h : IsSum(h, u) /\ Used(u) = h[u] /\ IsFiniteSet(u)
    BY <1>3, <1>4, UsedIsSum
  <2>2. g[u] = IF u = {} THEN 0 ELSE Pick(u).cost + Used(v)
    BY <1>4
  <2>3. v \subseteq T /\ v # T /\ v \subseteq u
    BY <1>4
  <2>4. PICK k : IsSum(k, v) /\ Used(v) = k[v]
    BY <2>3, <1>3, UsedIsSum
  <2> HIDE DEF v, g
  <2>5. h[v] = k[v]
    BY <2>1, <2>3, <2>4, SumIsUnique
  <2>6. h[u] = IF u = {} THEN 0 ELSE Pick(u).cost + h[v]
    <3>1. u \in SUBSET u
      OBVIOUS
    <3>2. u = {} => h[u] = 0
      BY <3>1, <2>1, SumEquation
    <3>3. u # {} => h[u] = Pick(u).cost + h[v]
      BY <3>1, <2>1, SumEquation DEF v
    <3> QED
      BY <3>2, <3>3
  <2> QED
    BY <2>1, <2>2, <2>4, <2>5, <2>6
<1>5. ASSUME NEW s \in SUBSET T, s # {} PROVE Used(s \ {Pick(s)}) = g[s \ {Pick(s)}]
  <2>1. s \ {Pick(s)} \subseteq T /\ s \ {Pick(s)} # T
    BY <1>5, PickOne
  <2> QED
    BY <2>1, <1>4
<1> DEFINE gg == [s \in SUBSET T |-> IF s = {} THEN 0 ELSE Pick(s).cost + g[s \ {Pick(s)}]]
<1>6. \A s \in SUBSET T : g[s] = gg[s]
  <2> SUFFICES ASSUME NEW s \in SUBSET T PROVE g[s] = gg[s]
    OBVIOUS
  <2>1. g[s] = IF s = {} THEN 0 ELSE Pick(s).cost + Used(s \ {Pick(s)})
    OBVIOUS
  <2>2. gg[s] = IF s = {} THEN 0 ELSE Pick(s).cost + g[s \ {Pick(s)}]
    OBVIOUS
  <2> HIDE DEF g, gg
  <2> QED
    BY <2>1, <2>2, <1>5
<1>7. g = gg
  BY <1>6
<1>8. IsSum(g, T)
  BY <1>7 DEF IsSum
<1> QED
  BY <1>2, <1>8

LEMMA UsedNone == Used({}) = 0
<1>1. \E f : IsSum(f, {})
  BY SumExists, FS_EmptySet
<1>2. IsSum(CHOOSE f : IsSum(f, {}), {})
  BY <1>1
<1> QED
  BY <1>2, UsedIsSum, SumEquation

LEMMA UsedPicked ==
  ASSUME NEW S, IsFiniteSet(S), S # {}
  PROVE  Used(S) = Pick(S).cost + Used(S \ {Pick(S)})
<1> DEFINE T == S \ {Pick(S)}
           f == CHOOSE f : IsSum(f, S)
           g == CHOOSE g : IsSum(g, T)
<1>1. IsFiniteSet(T) /\ T \subseteq S
  BY FS_Subset
<1>2. IsSum(f, S) /\ IsSum(g, T)
  BY <1>1, SumExists
<1>3. Used(S) = f[S] /\ Used(T) = g[T]
  BY UsedIsSum
<1> HIDE DEF f, g
<1>4. f[S] = Pick(S).cost + f[T]
  BY <1>2, SumEquation
<1>5. f[T] = g[T]
  BY <1>1, <1>2, SumIsUnique
<1> QED
  BY <1>3, <1>4, <1>5

LEMMA CostedPart == ASSUME NEW S, Costed(S), NEW T, T \subseteq S PROVE Costed(T)
BY FS_Subset DEF Costed

LEMMA UsedType == ASSUME NEW S, Costed(S) PROVE Used(S) \in Nat
<1> DEFINE F == {T \in SUBSET S : Used(T) \notin Nat}
<1>1. SUFFICES ASSUME F # {} PROVE FALSE
  OBVIOUS
<1>2. PICK T \in F : \A U \in F : U \subseteq T => U = T
  <2>1. F \subseteq SUBSET S /\ IsFiniteSet(S)
    BY DEF Costed
  <2> HIDE DEF F
  <2> QED
    BY <1>1, <2>1, Smallest
<1>3. T # {}
  BY UsedNone
<1>4. Costed(T) /\ Pick(T) \in T
  BY <1>3, CostedPart, PickOne
<1>5. T \ {Pick(T)} \notin F
  BY <1>2, <1>4
<1>6. Used(T \ {Pick(T)}) \in Nat
  BY <1>5
<1> QED
  BY <1>3, <1>4, <1>6, UsedPicked DEF Costed

(* The sum does not depend on the order of its terms. *)
LEMMA UsedWithout ==
  ASSUME NEW S, Costed(S), NEW x \in S
  PROVE  Used(S) = x.cost + Used(S \ {x})
<1> DEFINE F == {T \in SUBSET S : \E y \in T : Used(T) # y.cost + Used(T \ {y})}
<1>1. SUFFICES ASSUME F # {} PROVE FALSE
  OBVIOUS
<1>2. PICK T \in F : \A U \in F : U \subseteq T => U = T
  <2>1. F \subseteq SUBSET S /\ IsFiniteSet(S)
    BY DEF Costed
  <2> HIDE DEF F
  <2> QED
    BY <1>1, <2>1, Smallest
<1>3. PICK y \in T : Used(T) # y.cost + Used(T \ {y})
  BY <1>2
<1> DEFINE c == Pick(T)
<1>4. Costed(T) /\ c \in T
  BY CostedPart, PickOne
<1>5. Used(T) = c.cost + Used(T \ {c})
  BY <1>4, UsedPicked DEF Costed
<1> HIDE DEF c
<1>6. c # y
  BY <1>3, <1>5
<1>7. T \ {c} \notin F /\ T \ {y} \notin F
  BY <1>2, <1>3, <1>4
<1>8. /\ Used(T \ {c}) = y.cost + Used((T \ {c}) \ {y})
      /\ Used(T \ {y}) = c.cost + Used((T \ {y}) \ {c})
  BY <1>4, <1>6, <1>7
<1> DEFINE r == Used((T \ {y}) \ {c})
<1>9. (T \ {c}) \ {y} = (T \ {y}) \ {c}
  OBVIOUS
<1>10. Used(T \ {c}) = y.cost + r /\ Used(T \ {y}) = c.cost + r
  BY <1>8, <1>9
<1>11. r \in Nat /\ c.cost \in Nat /\ y.cost \in Nat
  <2>1. Costed((T \ {y}) \ {c})
    BY <1>4, CostedPart
  <2> QED
    BY <2>1, <1>4, UsedType DEF Costed
<1> HIDE DEF r
<1>12. c.cost + (y.cost + r) = y.cost + (c.cost + r)
  BY <1>11
<1> QED
  BY <1>3, <1>5, <1>10, <1>12

LEMMA UsedWith ==
  ASSUME NEW S, Costed(S), NEW x, x \notin S, x.cost \in Nat
  PROVE  Costed(S \cup {x}) /\ Used(S \cup {x}) = x.cost + Used(S)
<1>1. Costed(S \cup {x})
  BY FS_AddElement DEF Costed
<1>2. (S \cup {x}) \ {x} = S
  OBVIOUS
<1> QED
  BY <1>1, <1>2, UsedWithout

LEMMA UsedPart == ASSUME NEW S, Costed(S), NEW T, T \subseteq S PROVE Used(T) <= Used(S)
<1> DEFINE F == {U \in SUBSET S : T \subseteq U /\ ~(Used(T) <= Used(U))}
<1>1. SUFFICES ASSUME F # {} PROVE FALSE
  OBVIOUS
<1>2. PICK U \in F : \A V \in F : V \subseteq U => V = U
  <2>1. F \subseteq SUBSET S /\ IsFiniteSet(S)
    BY DEF Costed
  <2> HIDE DEF F
  <2> QED
    BY <1>1, <2>1, Smallest
<1>3. Costed(U) /\ Used(U) \in Nat /\ Costed(T) /\ Used(T) \in Nat
  BY <1>2, CostedPart, UsedType
<1>4. T # U
  BY <1>2, <1>3
<1>5. PICK x \in U : x \notin T
  BY <1>2, <1>4
<1>6. U \ {x} \notin F
  BY <1>2, <1>5
<1>7. Used(T) <= Used(U \ {x}) /\ Used(U \ {x}) \in Nat
  BY <1>2, <1>3, <1>5, <1>6, CostedPart, UsedType
<1> QED
  BY <1>2, <1>3, <1>7, UsedWithout DEF Costed

-----------------------------------------------------------------------------
(* Sorted rows are rows: every place is taken.                               *)

(* A strict total order on S, as a set of pairs. *)
Orders(R, S) ==
  /\ \A i \in S : <<i, i>> \notin R
  /\ \A i, j \in S : i = j \/ <<i, j>> \in R \/ <<j, i>> \in R
  /\ \A i, j, k \in S : <<i, j>> \in R /\ <<j, k>> \in R => <<i, k>> \in R

PlaceIn(R, S, i) == Cardinality({j \in S : <<j, i>> \in R}) + 1

LEMMA PlaceTaken ==
  ASSUME NEW S, IsFiniteSet(S), NEW R, Orders(R, S)
  PROVE  \A n \in 1..Cardinality(S) : \E i \in S : PlaceIn(R, S, i) = n
<1> DEFINE Below(i) == {j \in S : <<j, i>> \in R}
           f == [i \in S |-> Cardinality(Below(i)) + 1]
           T == 1..Cardinality(S)
<1>1. Cardinality(S) \in Nat /\ IsFiniteSet(T) /\ Cardinality(T) = Cardinality(S)
  BY FS_CardinalityType, FS_Interval
<1>2. ASSUME NEW i \in S
      PROVE  IsFiniteSet(Below(i)) /\ Cardinality(Below(i)) \in 0..(Cardinality(S) - 1)
  <2>1. Below(i) \subseteq S /\ Below(i) # S
    BY DEF Orders
  <2> HIDE DEF Below
  <2> QED
    BY <1>1, <2>1, FS_Subset, FS_CardinalityType
<1>3. ASSUME NEW i \in S, NEW j \in S, <<i, j>> \in R
      PROVE  Cardinality(Below(i)) < Cardinality(Below(j))
  <2>1. Below(i) \subseteq Below(j) /\ Below(i) # Below(j)
    BY <1>3 DEF Orders
  <2> HIDE DEF Below
  <2>2. IsFiniteSet(Below(i)) /\ IsFiniteSet(Below(j))
        /\ Cardinality(Below(i)) \in Nat /\ Cardinality(Below(j)) \in Nat
    BY <1>1, <1>2
  <2> QED
    BY <2>1, <2>2, FS_Subset
<1> HIDE DEF Below
<1>4. f \in [S -> T]
  BY <1>1, <1>2
<1>5. \A i, j \in S : i # j => f[i] # f[j]
  <2> SUFFICES ASSUME NEW i \in S, NEW j \in S, i # j PROVE f[i] # f[j]
    OBVIOUS
  <2>1. <<i, j>> \in R \/ <<j, i>> \in R
    BY DEF Orders
  <2>2. Cardinality(Below(i)) \in Int /\ Cardinality(Below(j)) \in Int
    BY <1>1, <1>2
  <2>3. Cardinality(Below(i)) # Cardinality(Below(j))
    BY <1>3, <2>1, <2>2
  <2> QED
    BY <2>2, <2>3
<1>6. f \in Injection(S, T)
  BY <1>4, <1>5, Zenon DEF Injection, IsInjective
<1>7. f \in Surjection(S, T)
  BY <1>1, <1>6, FS_Injection
<1>8. \A n \in T : \E i \in S : f[i] = n
  BY <1>7 DEF Surjection
<1>9. \A i \in S : f[i] = PlaceIn(R, S, i)
  BY DEF Below, PlaceIn
<1> QED
  BY <1>8, <1>9

LEMMA PrefixType ==
  ASSUME NEW E, NEW s \in Seq(E), NEW n \in Nat
  PROVE  Prefix(s, n) \in Seq(E)
<1>1. (IF n < Len(s) THEN n ELSE Len(s)) \in 0..Len(s)
  OBVIOUS
<1> QED
  BY <1>1, SubSeqProperties DEF Prefix

LEMMA CandidatesType ==
  ASSUME NEW E, \A e \in E : Amount(e.volume) \in Int, NEW events \in Seq(E)
  PROVE  Candidates(events) \in Seq(E)
<1> DEFINE K == {i \in DOMAIN events : Eligible(events[i])}
           v(i) == Amount(events[i].volume)
           First(i, j) == v(i) > v(j) \/ (~(v(j) > v(i)) /\ i < j)
           R == {p \in K \X K : First(p[1], p[2])}
           sorted == [n \in 1..Cardinality(K) |->
                        events[CHOOSE i \in K : Cardinality({j \in K : First(j, i)}) + 1 = n]]
<1>1. IsFiniteSet(K) /\ Cardinality(K) \in Nat /\ K \subseteq Nat
  <2>1. IsFiniteSet(1..Len(events)) /\ K \subseteq 1..Len(events)
    BY FS_Interval
  <2> QED
    BY <2>1, FS_Subset, FS_CardinalityType
<1>2. \A i \in K : v(i) \in Int
  OBVIOUS
<1>3. Candidates(events) = Prefix(sorted, CandidateLimit)
  BY DEF Candidates, Ranked
<1>4. \A i \in K : events[i] \in E
  OBVIOUS
<1>5. sorted = [n \in 1..Cardinality(K) |-> sorted[n]]
  OBVIOUS
<1> HIDE DEF K, v
<1>6. Orders(R, K)
  BY <1>1, <1>2 DEF Orders
<1>7. \A i \in K : {j \in K : <<j, i>> \in R} = {j \in K : First(j, i)}
  OBVIOUS
<1> HIDE DEF R, First
<1>8. IsFiniteSet(K)
  BY <1>1
<1>9. \A n \in 1..Cardinality(K) : \E i \in K : PlaceIn(R, K, i) = n
  BY <1>6, <1>8, PlaceTaken
<1>10. ASSUME NEW n \in 1..Cardinality(K) PROVE sorted[n] \in E
  <2>1. PICK i \in K : PlaceIn(R, K, i) = n
    BY <1>9
  <2>2. (CHOOSE k \in K : Cardinality({j \in K : First(j, k)}) + 1 = n) \in K
    BY <1>7, <2>1 DEF PlaceIn
  <2> QED
    BY <1>4, <2>2
<1> HIDE DEF sorted
<1>11. sorted \in Seq(E)
  BY <1>1, <1>5, <1>10
<1> QED
  BY <1>3, <1>11, PrefixType, ConsensusAssumption

(* What the two parts of a spotlight are taken from. *)
Flips(E) == {r \in E : r.flipped}
Moves(E, basis) == {r \in E : ~r.flipped /\ Change(r, basis) # NoValue}

LEMMA FlipsType ==
  ASSUME NEW E, \A r \in E : r.volume \in Int, NEW rows \in Seq(E)
  PROVE  Ranked(rows, LAMBDA r : r.flipped, LAMBDA a, b : a.volume > b.volume) \in Seq(Flips(E))
<1> DEFINE K == {i \in DOMAIN rows : rows[i].flipped}
           v(i) == rows[i].volume
           First(i, j) == v(i) > v(j) \/ (~(v(j) > v(i)) /\ i < j)
           R == {p \in K \X K : First(p[1], p[2])}
           sorted == [n \in 1..Cardinality(K) |->
                        rows[CHOOSE i \in K : Cardinality({j \in K : First(j, i)}) + 1 = n]]
<1>1. IsFiniteSet(K) /\ Cardinality(K) \in Nat /\ K \subseteq Nat
  <2>1. IsFiniteSet(1..Len(rows)) /\ K \subseteq 1..Len(rows)
    BY FS_Interval
  <2> QED
    BY <2>1, FS_Subset, FS_CardinalityType
<1>2. \A i \in K : v(i) \in Int
  OBVIOUS
<1>3. Ranked(rows, LAMBDA r : r.flipped, LAMBDA a, b : a.volume > b.volume) = sorted
  BY DEF Ranked
<1>4. \A i \in K : rows[i] \in Flips(E)
  BY DEF Flips
<1>5. sorted = [n \in 1..Cardinality(K) |-> sorted[n]]
  OBVIOUS
<1> HIDE DEF K, v
<1>6. Orders(R, K)
  BY <1>1, <1>2 DEF Orders
<1>7. \A i \in K : {j \in K : <<j, i>> \in R} = {j \in K : First(j, i)}
  OBVIOUS
<1> HIDE DEF R, First
<1>8. IsFiniteSet(K)
  BY <1>1
<1>9. \A n \in 1..Cardinality(K) : \E i \in K : PlaceIn(R, K, i) = n
  BY <1>6, <1>8, PlaceTaken
<1>10. ASSUME NEW n \in 1..Cardinality(K) PROVE sorted[n] \in Flips(E)
  <2>1. PICK i \in K : PlaceIn(R, K, i) = n
    BY <1>9
  <2>2. (CHOOSE k \in K : Cardinality({j \in K : First(j, k)}) + 1 = n) \in K
    BY <1>7, <2>1 DEF PlaceIn
  <2> QED
    BY <1>4, <2>2
<1> HIDE DEF sorted
<1>11. sorted \in Seq(Flips(E))
  BY <1>1, <1>5, <1>10
<1> QED
  BY <1>3, <1>11

LEMMA MovesType ==
  ASSUME NEW E, NEW basis, NEW rows \in Seq(E),
         \A r \in E : r.volume \in Int /\ (Change(r, basis) = NoValue \/ Change(r, basis) \in Int)
  PROVE  Ranked(rows, LAMBDA r : ~r.flipped /\ Change(r, basis) # NoValue /\ Abs(Change(r, basis)) >= MoveFloor,
                LAMBDA a, b : \/ Abs(Change(a, basis)) > Abs(Change(b, basis))
                              \/ Abs(Change(a, basis)) = Abs(Change(b, basis)) /\ a.volume > b.volume)
         \in Seq(Moves(E, basis))
<1> DEFINE K == {i \in DOMAIN rows : ~rows[i].flipped /\ Change(rows[i], basis) # NoValue /\ Abs(Change(rows[i], basis)) >= MoveFloor}
           v(i) == rows[i].volume
           z(i) == Abs(Change(rows[i], basis))
           Ahead(i, j) == z(i) > z(j) \/ (z(i) = z(j) /\ v(i) > v(j))
           First(i, j) == Ahead(i, j) \/ (~Ahead(j, i) /\ i < j)
           R == {p \in K \X K : First(p[1], p[2])}
           sorted == [n \in 1..Cardinality(K) |->
                        rows[CHOOSE i \in K : Cardinality({j \in K : First(j, i)}) + 1 = n]]
<1>1. IsFiniteSet(K) /\ Cardinality(K) \in Nat /\ K \subseteq Nat
  <2>1. IsFiniteSet(1..Len(rows)) /\ K \subseteq 1..Len(rows)
    BY FS_Interval
  <2> QED
    BY <2>1, FS_Subset, FS_CardinalityType
<1>2. \A i \in K : v(i) \in Int /\ z(i) \in Int
  BY DEF Abs
<1>3. Ranked(rows, LAMBDA r : ~r.flipped /\ Change(r, basis) # NoValue /\ Abs(Change(r, basis)) >= MoveFloor,
             LAMBDA a, b : \/ Abs(Change(a, basis)) > Abs(Change(b, basis))
                           \/ Abs(Change(a, basis)) = Abs(Change(b, basis)) /\ a.volume > b.volume) = sorted
  BY DEF Ranked
<1>4. \A i \in K : rows[i] \in Moves(E, basis)
  BY DEF Moves
<1>5. sorted = [n \in 1..Cardinality(K) |-> sorted[n]]
  OBVIOUS
<1> HIDE DEF K, v, z
<1>6. Orders(R, K)
  BY <1>1, <1>2 DEF Orders
<1>7. \A i \in K : {j \in K : <<j, i>> \in R} = {j \in K : First(j, i)}
  OBVIOUS
<1> HIDE DEF R, First
<1>8. IsFiniteSet(K)
  BY <1>1
<1>9. \A n \in 1..Cardinality(K) : \E i \in K : PlaceIn(R, K, i) = n
  BY <1>6, <1>8, PlaceTaken
<1>10. ASSUME NEW n \in 1..Cardinality(K) PROVE sorted[n] \in Moves(E, basis)
  <2>1. PICK i \in K : PlaceIn(R, K, i) = n
    BY <1>9
  <2>2. (CHOOSE k \in K : Cardinality({j \in K : First(j, k)}) + 1 = n) \in K
    BY <1>7, <2>1 DEF PlaceIn
  <2> QED
    BY <1>4, <2>2
<1> HIDE DEF sorted
<1>11. sorted \in Seq(Moves(E, basis))
  BY <1>1, <1>5, <1>10
<1> QED
  BY <1>3, <1>11

LEMMA SpotlightType ==
  ASSUME NEW E, NEW basis, NEW rows \in Seq(E),
         \A r \in E : r.volume \in Int /\ (Change(r, basis) = NoValue \/ Change(r, basis) \in Int)
  PROVE  Spotlight(rows, basis) \in Seq(Flips(E) \cup Moves(E, basis))
<1> DEFINE flips == Ranked(rows, LAMBDA r : r.flipped, LAMBDA a, b : a.volume > b.volume)
           moves == Ranked(rows, LAMBDA r : ~r.flipped /\ Change(r, basis) # NoValue /\ Abs(Change(r, basis)) >= MoveFloor,
                           LAMBDA a, b : \/ Abs(Change(a, basis)) > Abs(Change(b, basis))
                                         \/ Abs(Change(a, basis)) = Abs(Change(b, basis)) /\ a.volume > b.volume)
<1>1. flips \in Seq(Flips(E)) /\ moves \in Seq(Moves(E, basis))
  BY FlipsType, MovesType
<1>2. Spotlight(rows, basis) = Prefix(flips \o moves, SpotlightLimit)
  BY DEF Spotlight
<1> HIDE DEF flips, moves
<1>3. flips \o moves \in Seq(Flips(E) \cup Moves(E, basis))
  BY <1>1
<1> QED
  BY <1>2, <1>3, PrefixType, ConsensusAssumption

-----------------------------------------------------------------------------
(* What a spotlight is made from.                                            *)

Number(v) == v = NoValue \/ v \in Int

LEMMA AmountType == ASSUME NEW v, Number(v) PROVE Amount(v) \in Int
BY DEF Number, Amount

LEMMA TitleProbabilityType == ASSUME NEW e, Number(e.p) PROVE Number(TitleProbability(e))
BY ConsensusAssumption DEF Number, TitleProbability

EventsOf(content) == {content[e] : e \in DOMAIN content}

LEMMA EventsOfContent ==
  ASSUME NEW c \in Contents, NEW event \in EventsOf(c)
  PROVE  /\ event.id \in DOMAIN c /\ event = c[event.id]
         /\ Number(event.p) /\ Number(event.volume)
BY DayAssumption DEF EventsOf, Number

LEMMA ListingType == ASSUME NEW c \in Contents PROVE Listing(c) \in Seq(EventsOf(c))
<1> DEFINE D == DOMAIN c
           ids == SetToSeq(D)
<1>1. IsFiniteSet(D) /\ Cardinality(D) \in Nat /\ ExistsBijection(1..Cardinality(D), D)
  BY DayAssumption, FS_Subset, FS_CardinalityType
<1>2. \E f \in [1..Cardinality(D) -> D] : IsInjective(f)
  BY <1>1 DEF ExistsBijection, Bijection, Injection, IsInjective
<1>3. ids \in [1..Cardinality(D) -> D]
  BY <1>2 DEF SetToSeq
<1>4. Listing(c) = [i \in DOMAIN ids |-> c[ids[i]]]
  BY DEF Listing
<1> HIDE DEF ids
<1>5. \A i \in 1..Cardinality(D) : c[ids[i]] \in EventsOf(c)
  BY <1>3 DEF EventsOf
<1> QED
  BY <1>1, <1>3, <1>4, <1>5

(* A snapshot shows the questions of a generation as they were. *)
Shows(picture, content) ==
  \A e \in DOMAIN picture :
    /\ e \in DOMAIN content
    /\ picture[e].p = TitleProbability(content[e]) /\ picture[e].leader = content[e].leader

LEMMA SnapshotShows ==
  ASSUME NEW c \in Contents, NEW events \in Seq(EventsOf(c))
  PROVE  Shows(Snapshot(events), c)
<1> SUFFICES ASSUME NEW id \in {events[i].id : i \in DOMAIN events}
             PROVE  /\ id \in DOMAIN c
                    /\ Snapshot(events)[id].p = TitleProbability(c[id])
                    /\ Snapshot(events)[id].leader = c[id].leader
  BY DEF Shows, Snapshot
<1> DEFINE e == events[CHOOSE i \in DOMAIN events : events[i].id = id]
<1>1. e \in EventsOf(c) /\ e.id = id
  OBVIOUS
<1>2. Snapshot(events)[id] = [p |-> TitleProbability(e), leader |-> e.leader, volume |-> e.volume]
  BY DEF Snapshot
<1> HIDE DEF e
<1>3. id \in DOMAIN c /\ e = c[id]
  BY <1>1, EventsOfContent
<1> QED
  BY <1>2, <1>3

(* A row of the table, and what it says in the spotlight. *)
RowOf(event, base, previous) ==
  [id |-> event.id, volume |-> Amount(event.volume),
   day |-> Movement(event, base).change, previous |-> Movement(event, previous).change,
   flipped |-> Movement(event, base).flipped, grown |-> Movement(event, base).volume,
   new |-> event.id \notin DOMAIN base]

Tells(row, basis, now, then) ==
  IF row.flipped THEN now.leader # then.leader
  ELSE /\ now.type = "binary" \/ now.leader = then.leader
       /\ Change(row, basis) = TitleProbability(now) - TitleProbability(then)

LEMMA ChangeType ==
  ASSUME NEW event, Number(event.p), NEW content \in Contents, NEW picture, Shows(picture, content)
  PROVE  Number(Movement(event, picture).change)
<1>1. CASE event.id \in DOMAIN picture
  <2>1. Number(picture[event.id].p)
    BY <1>1, DayAssumption, TitleProbabilityType DEF Shows, Number
  <2>2. Number(TitleProbability(event))
    BY TitleProbabilityType
  <2> QED
    BY <1>1, <2>1, <2>2 DEF Movement, Number
<1>2. CASE event.id \notin DOMAIN picture
  BY <1>2 DEF Movement, Still, Number
<1> QED
  BY <1>1, <1>2

LEMMA FlipTells ==
  ASSUME NEW event, NEW content, NEW picture, Shows(picture, content), Movement(event, picture).flipped
  PROVE  /\ event.id \in DOMAIN picture /\ event.id \in DOMAIN content
         /\ event.leader # content[event.id].leader
BY DEF Movement, Still, Shows

LEMMA MoveTells ==
  ASSUME NEW event, NEW content, NEW picture, Shows(picture, content),
         Movement(event, picture).change # NoValue
  PROVE  /\ event.id \in DOMAIN picture /\ event.id \in DOMAIN content
         /\ event.type = "binary" \/ event.leader = content[event.id].leader
         /\ Movement(event, picture).change = TitleProbability(event) - TitleProbability(content[event.id])
BY DEF Movement, Still, Shows

(* Every row of a spotlight tells what happened since the generation of its basis. *)
LEMMA SpotlightTells ==
  ASSUME NEW c \in Contents, NEW events \in Seq(EventsOf(c)), NEW basis \in {"day", "previous"},
         NEW first \in Contents, NEW base, Shows(base, first),
         NEW last \in Contents, NEW previous, Shows(previous, last),
         basis = "previous" => first = c,
         NEW n \in DOMAIN Spotlight(BuildRows(events, base, previous), basis)
  PROVE  LET row == Spotlight(BuildRows(events, base, previous), basis)[n]
             then == IF basis = "day" THEN first ELSE last
         IN  /\ row.id \in DOMAIN (IF basis = "day" THEN base ELSE previous)
             /\ row.id \in DOMAIN then
             /\ Tells(row, basis, c[row.id], then[row.id])
<1> DEFINE rows == BuildRows(events, base, previous)
           E == {RowOf(event, base, previous) : event \in EventsOf(c)}
           row == Spotlight(rows, basis)[n]
<1>1. rows \in Seq(E)
  <2>1. rows = [i \in DOMAIN events |-> RowOf(events[i], base, previous)]
    BY DEF BuildRows, RowOf
  <2>2. \A i \in 1..Len(events) : RowOf(events[i], base, previous) \in E
    OBVIOUS
  <2> HIDE DEF rows, E
  <2> QED
    BY <2>1, <2>2
<1>2. \A r \in E : r.volume \in Int /\ (Change(r, basis) = NoValue \/ Change(r, basis) \in Int)
  <2> SUFFICES ASSUME NEW event \in EventsOf(c)
               PROVE  LET r == RowOf(event, base, previous)
                      IN  r.volume \in Int /\ Number(Change(r, basis))
    BY DEF Number
  <2>1. Number(event.volume) /\ Number(event.p)
    BY EventsOfContent
  <2>2. Number(Movement(event, base).change) /\ Number(Movement(event, previous).change)
    BY <2>1, ChangeType
  <2> QED
    BY <2>1, <2>2, AmountType DEF RowOf, Change
<1>3. Spotlight(rows, basis) \in Seq(Flips(E) \cup Moves(E, basis))
  <2> HIDE DEF rows, E
  <2> QED
    BY <1>1, <1>2, SpotlightType
<1>4. row \in Flips(E) \cup Moves(E, basis)
  <2> HIDE DEF E
  <2> QED
    BY <1>3
<1> HIDE DEF row, rows
<1>5. PICK event \in EventsOf(c) : row = RowOf(event, base, previous)
  BY <1>4 DEF Flips, Moves
<1>6. event.id \in DOMAIN c /\ event = c[event.id] /\ row.id = event.id
  BY <1>5, EventsOfContent DEF RowOf
<1>7. /\ row.flipped = Movement(event, base).flipped
      /\ row.day = Movement(event, base).change /\ row.previous = Movement(event, previous).change
  BY <1>5 DEF RowOf
<1>8. ASSUME row \in Flips(E)
      PROVE  basis = "day" /\ row.id \in DOMAIN base /\ row.id \in DOMAIN first
             /\ row.flipped /\ c[row.id].leader # first[row.id].leader
  <2>1. row.flipped
    BY <1>8 DEF Flips
  <2> QED
    BY <2>1, <1>6, <1>7, FlipTells
<1>9. ASSUME row \in Moves(E, basis)
      PROVE  LET then == IF basis = "day" THEN first ELSE last
             IN  /\ row.id \in DOMAIN (IF basis = "day" THEN base ELSE previous)
                 /\ row.id \in DOMAIN then
                 /\ ~row.flipped
                 /\ c[row.id].type = "binary" \/ c[row.id].leader = then[row.id].leader
                 /\ Change(row, basis) = TitleProbability(c[row.id]) - TitleProbability(then[row.id])
  <2>1. ~row.flipped /\ Change(row, basis) # NoValue
    BY <1>9 DEF Moves
  <2>2. CASE basis = "day"
    BY <2>1, <2>2, <1>6, <1>7, MoveTells DEF Change
  <2>3. CASE basis = "previous"
    BY <2>1, <2>3, <1>6, <1>7, MoveTells DEF Change
  <2> QED
    BY <2>2, <2>3
<1>10. row = Spotlight(BuildRows(events, base, previous), basis)[n]
  BY DEF row, rows
<1> QED
  BY <1>4, <1>8, <1>9, <1>10 DEF Tells

-----------------------------------------------------------------------------
(* Generations are added, and none changes.                                  *)

Read == [at |-> "read"]

LEMMA RunShapes ==
  /\ Idle.at = "idle" /\ Read.at = "read" /\ Idle # Read
BY DEF Idle, Read

LEMMA PromotedSteps ==
  ASSUME [Next]_vars
  PROVE  promoted' = promoted \/ \E c \in Contents : promoted' = Append(promoted, c)
<1>1. CASE TimePasses \/ RefreshStarts \/ RefreshSucceeds \/ RefreshFails \/ RefreshKilled
  BY <1>1 DEF TimePasses, RefreshStarts, RefreshSucceeds, RefreshFails, RefreshKilled, notRefresh
<1>2. CASE Promote
  BY <1>2 DEF Promote
<1>3. CASE TrendingReads \/ TrendingWrites \/ TrendingKilled
  BY <1>3 DEF TrendingReads, TrendingWrites, TrendingKilled, notTrending
<1>4. CASE BriefReads \/ BriefReadsLabels \/ BriefWrites \/ BriefKilled
  BY <1>4 DEF BriefReads, BriefReadsLabels, BriefWrites, BriefKilled, notBrief
<1>5. ASSUME NEW g \in Groups, BriefGroupDone(g) PROVE promoted' = promoted
  BY <1>5 DEF BriefGroupDone, notBrief
<1>6. CASE AnnotateReads \/ BatchAnswered \/ BatchFails \/ NoMoreCalls
  BY <1>6 DEF AnnotateReads, BatchAnswered, BatchFails, NoMoreCalls, Annotates, notAnnotate
<1>7. CASE AnnotateIndexed \/ AnnotateReports \/ AnnotateKilled
  BY <1>7 DEF AnnotateIndexed, AnnotateReports, AnnotateKilled, notAnnotate
<1>8. CASE UNCHANGED vars
  BY <1>8 DEF vars
<1> QED
  BY <1>1, <1>2, <1>3, <1>4, <1>5, <1>6, <1>7, <1>8 DEF Next

PromotedOK == promoted \in Seq(Contents)

LEMMA PromotedStays ==
  ASSUME PromotedOK, [Next]_vars
  PROVE  /\ PromotedOK'
         /\ Current \in Nat /\ Current' \in Nat /\ Current <= Current'
         /\ \A k \in 1..Current : promoted'[k] = promoted[k] /\ promoted[k] \in Contents
BY PromotedSteps DEF PromotedOK, Current

-----------------------------------------------------------------------------
(* The paragraphs: what a run has made is of its generation, what is         *)
(* published is honest unless it is still the file that was found.           *)

Honest(row, gen) ==
  "text" \in DOMAIN row =>
    /\ row.at = row.text.made /\ row.text.format = "current"
    /\ row.factsOnly = (row.text.by = "server")
    /\ row.text.gen # gen => row.stale

BriefOK ==
  /\ brief.at \in {"idle", "read", "labels", "groups"}
  /\ brief.at \in {"labels", "groups"} => brief.gen \in 1..Current
  /\ brief.at = "labels" => brief = [at |-> "labels", gen |-> brief.gen]
  /\ brief.at = "groups" =>
       /\ brief = [at |-> "groups", gen |-> brief.gen, labels |-> brief.labels,
                   rows |-> brief.rows, named |-> brief.named]
       /\ brief.rows = [g \in Groups |-> brief.rows[g]]
       /\ \A g \in Groups : Honest(brief.rows[g], brief.gen)

WrittenOK ==
  written # NoValue /\ written # OldBrief =>
    \A g \in DOMAIN written.rows : Honest(written.rows[g], written.gen)

LEMMA BriefSteps ==
  ASSUME [Next]_vars
  PROVE  \/ brief' \in {brief, Idle, Read} /\ written' = written
         \/ BriefReads \/ BriefReadsLabels \/ BriefWrites
         \/ \E g \in Groups : BriefGroupDone(g)
<1>1. CASE TimePasses \/ Promote \/ RefreshFails \/ RefreshKilled
  BY <1>1 DEF TimePasses, Promote, RefreshFails, RefreshKilled, notRefresh
<1>2. CASE RefreshStarts \/ RefreshSucceeds
  BY <1>2 DEF RefreshStarts, RefreshSucceeds, StartOthers, Read, notRefresh
<1>3. CASE TrendingReads \/ TrendingWrites \/ TrendingKilled
  BY <1>3 DEF TrendingReads, TrendingWrites, TrendingKilled, notTrending
<1>4. CASE BriefKilled
  BY <1>4 DEF BriefKilled
<1>5. CASE AnnotateReads \/ BatchAnswered \/ BatchFails \/ NoMoreCalls
  BY <1>5 DEF AnnotateReads, BatchAnswered, BatchFails, NoMoreCalls, Annotates, notAnnotate
<1>6. CASE AnnotateIndexed \/ AnnotateReports \/ AnnotateKilled
  BY <1>6 DEF AnnotateIndexed, AnnotateReports, AnnotateKilled, notAnnotate
<1>7. CASE UNCHANGED vars
  BY <1>7 DEF vars
<1> QED
  BY <1>1, <1>2, <1>3, <1>4, <1>5, <1>6, <1>7 DEF Next

LEMMA NoRowIsHonest ==
  ASSUME NEW gen
  PROVE  \A status : Honest([status |-> status], gen)
BY DEF Honest

LEMMA FreshIsHonest == ASSUME NEW status, NEW by PROVE Honest(Fresh(status, by), brief.gen)
BY DEF Honest, Fresh

(* What is carried on is of this format, so it is not of the file that was found. *)
LEMMA CarriedIsHonest ==
  ASSUME WrittenOK, NEW g, Text(g) # NoValue, Text(g).format = "current", NEW gen
  PROVE  Honest(Carried(g), gen)
<1>1. g \in DOMAIN Published /\ "text" \in DOMAIN Published[g] /\ Text(g) = Published[g].text
  BY DEF Text
<1>2. written # NoValue /\ Published = written.rows
  BY <1>1 DEF Published
<1>3. written # OldBrief
  BY <1>1, <1>2, DayAssumption
<1>4. Honest(Published[g], written.gen)
  BY <1>1, <1>2, <1>3 DEF WrittenOK
<1>5. Published[g].at = Text(g).made /\ Published[g].factsOnly = (Text(g).by = "server")
  BY <1>1, <1>4 DEF Honest
<1> QED
  BY <1>5 DEF Honest, Carried

LEMMA FallbackIsHonest == ASSUME WrittenOK, NEW g, NEW facts PROVE Honest(Fallback(g, facts), brief.gen)
<1>1. CASE Text(g) # NoValue /\ Text(g).format = "current"
  BY <1>1, CarriedIsHonest DEF Fallback
<1>2. CASE ~(Text(g) # NoValue /\ Text(g).format = "current")
  BY <1>2, FreshIsHonest, NoRowIsHonest DEF Fallback
<1> QED
  BY <1>1, <1>2

LEMMA LabelIsTitle == ASSUME NEW labels, NEW e, NEW title PROVE Label(labels, e, title) = title
BY DEF Label

BriefInvariant == BriefOK /\ WrittenOK /\ LabelFitsTitle

Filed(g, row, more) == brief' = [brief EXCEPT !.rows[g] = row, !.named = @ \cup more]

(* A group that is done has an honest row, and was asked about under its title. *)
LEMMA GroupDone ==
  ASSUME PromotedOK, BriefInvariant, NEW g \in Groups, BriefGroupDone(g)
  PROVE  /\ written' = written /\ promoted' = promoted
         /\ \E row, more :
              /\ Filed(g, row, more)
              /\ Honest(row, brief.gen)
              /\ \A pair \in more : pair[2] = promoted[brief.gen][pair[1]].title
<1>1. brief.at = "groups" /\ written' = written /\ promoted' = promoted
  BY DEF BriefGroupDone, notBrief
<1> DEFINE selected == Selected(brief.gen, g)
           facts == \E e \in selected : HasFact(promoted[brief.gen][e], DetailReadable(brief.gen))
           named == {<<e, Label(brief.labels, e, promoted[brief.gen][e].title)>> : e \in selected}
           Row(first, second) == IF Analysis(first, second) = "ok" THEN Fresh("ok", "model") ELSE Fallback(g, facts)
<1>2. \/ brief' = [brief EXCEPT !.rows[g] = [status |-> "insufficient"]]
      \/ \E first, second \in Answers : brief' = [brief EXCEPT !.rows[g] = Row(first, second), !.named = @ \cup named]
  BY DEF BriefGroupDone
<1>3. \A pair \in named : pair[2] = promoted[brief.gen][pair[1]].title
  BY LabelIsTitle
<1>4. \A first, second \in Answers : Honest(Row(first, second), brief.gen)
  BY FallbackIsHonest, FreshIsHonest DEF BriefInvariant
<1>5. Honest([status |-> "insufficient"], brief.gen)
  BY NoRowIsHonest
<1> HIDE DEF named, Row
<1>6. ASSUME brief' = [brief EXCEPT !.rows[g] = [status |-> "insufficient"]]
      PROVE  Filed(g, [status |-> "insufficient"], {})
  <2>1. brief = [at |-> "groups", gen |-> brief.gen, labels |-> brief.labels,
                 rows |-> brief.rows, named |-> brief.named]
    BY <1>1 DEF BriefInvariant, BriefOK
  <2> QED
    BY <1>6, <2>1 DEF Filed
<1> DEFINE few == [status |-> "insufficient"]
<1>7. CASE brief' = [brief EXCEPT !.rows[g] = few]
  <2>1. Filed(g, few, {}) /\ Honest(few, brief.gen)
    BY <1>5, <1>6, <1>7
  <2>2. \A pair \in {} : pair[2] = promoted[brief.gen][pair[1]].title
    OBVIOUS
  <2> HIDE DEF few
  <2>3. \E row, more :
          /\ Filed(g, row, more)
          /\ Honest(row, brief.gen)
          /\ \A pair \in more : pair[2] = promoted[brief.gen][pair[1]].title
    BY <2>1, <2>2
  <2> QED
    BY <1>1, <2>3
<1>8. ASSUME NEW first \in Answers, NEW second \in Answers,
             brief' = [brief EXCEPT !.rows[g] = Row(first, second), !.named = @ \cup named]
      PROVE  \E row, more :
               /\ Filed(g, row, more)
               /\ Honest(row, brief.gen)
               /\ \A pair \in more : pair[2] = promoted[brief.gen][pair[1]].title
  BY <1>3, <1>4, <1>8 DEF Filed
<1> QED
  BY <1>1, <1>2, <1>7, <1>8

LEMMA NextBrief ==
  ASSUME PromotedOK, BriefInvariant, [Next]_vars
  PROVE  BriefInvariant'
<1> DEFINE shape == brief = [at |-> "groups", gen |-> brief.gen, labels |-> brief.labels,
                              rows |-> brief.rows, named |-> brief.named]
<1>1. /\ Current \in Nat /\ Current' \in Nat /\ Current <= Current'
      /\ \A k \in 1..Current : promoted'[k] = promoted[k]
  BY PromotedStays
<1>2. CASE brief' \in {brief, Idle, Read} /\ written' = written
  <2>1. CASE brief' = brief
    BY <1>1, <1>2, <2>1 DEF BriefInvariant, BriefOK, WrittenOK, LabelFitsTitle
  <2>2. CASE brief' \in {Idle, Read}
    BY <1>2, <2>2 DEF BriefInvariant, BriefOK, WrittenOK, LabelFitsTitle, Idle, Read
  <2> QED
    BY <1>2, <2>1, <2>2
<1>3. CASE BriefReads
  <2>1. written' = written /\ brief' \in {Idle, [at |-> "labels", gen |-> Current]} /\ promoted' = promoted
        /\ (brief' # Idle => Current # 0)
    BY <1>3 DEF BriefReads, notBrief
  <2> QED
    BY <1>1, <2>1 DEF BriefInvariant, BriefOK, WrittenOK, LabelFitsTitle, Idle
<1>4. CASE BriefReadsLabels
  <2>1. /\ written' = written /\ promoted' = promoted
        /\ brief.at = "labels"
        /\ brief' = [at |-> "groups", gen |-> brief.gen, labels |-> index,
                     rows |-> [g \in Groups |-> NoRow], named |-> {}]
    BY <1>4 DEF BriefReadsLabels, notBrief
  <2>2. \A gen : Honest(NoRow, gen)
    BY NoRowIsHonest DEF NoRow
  <2> QED
    BY <1>1, <2>1, <2>2 DEF BriefInvariant, BriefOK, WrittenOK, LabelFitsTitle
<1>5. ASSUME NEW g \in Groups, BriefGroupDone(g) PROVE BriefInvariant'
  <2>1. /\ brief.at = "groups"
        /\ brief.gen \in 1..Current /\ shape
        /\ brief.rows = [h \in Groups |-> brief.rows[h]]
        /\ \A h \in Groups : Honest(brief.rows[h], brief.gen)
        /\ \A pair \in brief.named : pair[2] = promoted[brief.gen][pair[1]].title
    BY <1>5 DEF BriefGroupDone, BriefInvariant, BriefOK, LabelFitsTitle
  <2>2. PICK row, more :
          /\ written' = written /\ promoted' = promoted
          /\ Filed(g, row, more)
          /\ Honest(row, brief.gen)
          /\ \A pair \in more : pair[2] = promoted[brief.gen][pair[1]].title
    BY <1>5, GroupDone
  <2>3. /\ brief'.at = "groups" /\ brief'.gen = brief.gen /\ shape'
        /\ brief'.rows = [brief.rows EXCEPT ![g] = row]
        /\ brief'.named = brief.named \cup more
    BY <2>1, <2>2 DEF Filed
  <2>4. /\ brief'.rows = [h \in Groups |-> brief'.rows[h]]
        /\ \A h \in Groups : brief'.rows[h] = IF h = g THEN row ELSE brief.rows[h]
    BY <2>1, <2>3
  <2>5. \A h \in Groups : Honest(brief'.rows[h], brief.gen)
    BY <2>1, <2>2, <2>4
  <2>6. Current' = Current
    BY <2>2 DEF Current
  <2> QED
    BY <2>1, <2>2, <2>3, <2>4, <2>5, <2>6 DEF BriefInvariant, BriefOK, WrittenOK, LabelFitsTitle
<1>6. CASE BriefWrites
  <2>1. /\ brief.at = "groups" /\ brief' = Idle /\ promoted' = promoted
        /\ written' \in {written, [gen |-> brief.gen, rows |-> brief.rows]}
    BY <1>6 DEF BriefWrites, notBrief
  <2>2. DOMAIN brief.rows = Groups /\ \A g \in Groups : Honest(brief.rows[g], brief.gen)
    BY <2>1 DEF BriefInvariant, BriefOK
  <2>3. WrittenOK'
    <3>1. CASE written' = written
      BY <3>1 DEF BriefInvariant, WrittenOK
    <3>2. CASE written' = [gen |-> brief.gen, rows |-> brief.rows]
      <4>1. \A g \in DOMAIN written'.rows : Honest(written'.rows[g], written'.gen)
        BY <3>2, <2>2
      <4> QED
        BY <3>2, <4>1 DEF WrittenOK
    <3> QED
      BY <2>1, <3>1, <3>2
  <2> QED
    BY <2>1, <2>3 DEF BriefInvariant, BriefOK, LabelFitsTitle, Idle
<1> QED
  BY <1>2, <1>3, <1>4, <1>5, <1>6, BriefSteps

-----------------------------------------------------------------------------
(* What moved: the pictures that are kept show the generations they name.    *)

Pictures(snap) == snap.gen \in 1..Current /\ Shows(snap.events, promoted[snap.gen])

MovedOK ==
  /\ trending.at = "write" => trending.gen \in 1..Current
  /\ moved # NoValue =>
       /\ moved.gen \in 1..Current /\ moved.basisAt \in 0..Current
       /\ Pictures(moved.baseline) /\ Pictures(moved.previous)

MovedInvariant == MovedOK /\ SpotlightTellsTheTruth

LEMMA TrendingSteps ==
  ASSUME [Next]_vars
  PROVE  \/ trending' \in {trending, Idle, Read} /\ moved' = moved
         \/ TrendingReads \/ TrendingWrites
<1>1. CASE TimePasses \/ Promote \/ RefreshFails \/ RefreshKilled
  BY <1>1 DEF TimePasses, Promote, RefreshFails, RefreshKilled, notRefresh
<1>2. CASE RefreshStarts \/ RefreshSucceeds
  BY <1>2 DEF RefreshStarts, RefreshSucceeds, StartOthers, Read, notRefresh
<1>3. CASE TrendingKilled
  BY <1>3 DEF TrendingKilled
<1>4. CASE BriefReads \/ BriefReadsLabels \/ BriefWrites \/ BriefKilled
  BY <1>4 DEF BriefReads, BriefReadsLabels, BriefWrites, BriefKilled, notBrief
<1>5. ASSUME NEW g \in Groups, BriefGroupDone(g) PROVE trending' = trending /\ moved' = moved
  BY <1>5 DEF BriefGroupDone, notBrief
<1>6. CASE AnnotateReads \/ BatchAnswered \/ BatchFails \/ NoMoreCalls
  BY <1>6 DEF AnnotateReads, BatchAnswered, BatchFails, NoMoreCalls, Annotates, notAnnotate
<1>7. CASE AnnotateIndexed \/ AnnotateReports \/ AnnotateKilled
  BY <1>7 DEF AnnotateIndexed, AnnotateReports, AnnotateKilled, notAnnotate
<1>8. CASE UNCHANGED vars
  BY <1>8 DEF vars
<1> QED
  BY <1>1, <1>2, <1>3, <1>4, <1>5, <1>6, <1>7, <1>8 DEF Next

(* Without a change of trending.json, what it says stays true. *)
LEMMA MovedStays ==
  ASSUME PromotedOK, MovedInvariant, [Next]_vars, moved' = moved,
         trending' \in {trending, Idle, Read}
  PROVE  MovedInvariant'
<1>1. /\ Current \in Nat /\ Current' \in Nat /\ Current <= Current'
      /\ \A k \in 1..Current : promoted'[k] = promoted[k]
  BY PromotedStays
<1>2. trending'.at = "write" => trending' = trending
  BY DEF Idle, Read
<1>3. MovedOK'
  BY <1>1, <1>2 DEF MovedInvariant, MovedOK, Pictures
<1>4. SpotlightTellsTheTruth'
  <2> SUFFICES ASSUME moved # NoValue
               PROVE  SpotlightTellsTheTruth'
    BY DEF SpotlightTellsTheTruth
  <2>1. promoted'[moved.gen] = promoted[moved.gen]
    BY <1>1 DEF MovedInvariant, MovedOK
  <2>2. moved.basisAt # 0 => promoted'[moved.basisAt] = promoted[moved.basisAt]
    BY <1>1 DEF MovedInvariant, MovedOK
  <2> QED
    BY <2>1, <2>2 DEF MovedInvariant, SpotlightTellsTheTruth
<1> QED
  BY <1>3, <1>4 DEF MovedInvariant

LEMMA TrendingWritesTruth ==
  ASSUME PromotedOK, MovedInvariant, TrendingWrites
  PROVE  MovedInvariant'
<1> DEFINE c == promoted[trending.gen]
           selected == Candidates(Listing(c))
           snapshot == Snapshot(selected)
           baseline == Baseline(trending.gen, snapshot)
           fresh == moved = NoValue \/ moved.baseline.day # Day
           basis == IF fresh THEN "previous" ELSE "day"
           rows == BuildRows(selected, baseline.events, Previous.events)
           warming == fresh /\ DOMAIN Previous.events = {}
           spotlight == IF warming THEN <<>> ELSE Spotlight(rows, basis)
<1>1. /\ trending.at = "write" /\ trending' = Idle /\ promoted' = promoted
      /\ moved' = [gen |-> trending.gen, day |-> Day, basis |-> basis, warming |-> warming,
                   basisAt |-> IF fresh THEN Previous.gen ELSE baseline.gen,
                   spotlight |-> spotlight, baseline |-> baseline,
                   previous |-> [gen |-> trending.gen, events |-> snapshot]]
  BY DEF TrendingWrites, notTrending
<1>2. trending.gen \in 1..Current /\ Current \in Nat /\ c \in Contents
  BY <1>1 DEF MovedInvariant, MovedOK, PromotedOK, Current
<1>3. selected \in Seq(EventsOf(c))
  <2>1. \A e \in EventsOf(c) : Amount(e.volume) \in Int
    BY <1>2, EventsOfContent, AmountType
  <2> QED
    BY <1>2, <2>1, ListingType, CandidatesType
<1> HIDE DEF c, selected
<1>4. Shows(snapshot, c)
  BY <1>2, <1>3, SnapshotShows
<1> HIDE DEF snapshot
<1>5. /\ fresh => baseline = [day |-> Day, gen |-> trending.gen, events |-> snapshot]
      /\ ~fresh => baseline = moved.baseline /\ baseline.day = Day /\ moved # NoValue
      /\ moved # NoValue => Previous = moved.previous
      /\ moved = NoValue => fresh /\ Previous.gen = 0 /\ DOMAIN Previous.events = {}
  BY DEF Baseline, Previous, NoEvents
<1> HIDE DEF baseline
<1>6. Pictures(baseline)
  <2>1. CASE fresh
    BY <2>1, <1>2, <1>4, <1>5 DEF Pictures, c
  <2>2. CASE ~fresh
    BY <2>2, <1>5 DEF MovedInvariant, MovedOK
  <2> QED
    BY <2>1, <2>2
<1>7. /\ baseline.gen \in 1..Current /\ promoted[baseline.gen] \in Contents
      /\ Shows(baseline.events, promoted[baseline.gen])
  BY <1>6 DEF Pictures, PromotedOK, Current
<1>8. moved # NoValue => /\ Previous.gen \in 1..Current /\ promoted[Previous.gen] \in Contents
                         /\ Shows(Previous.events, promoted[Previous.gen])
  BY <1>5 DEF MovedInvariant, MovedOK, Pictures, PromotedOK, Current
<1> HIDE DEF spotlight, fresh, basis, warming
<1>9. MovedOK'
  <2>1. moved'.basisAt \in 0..Current
    BY <1>1, <1>2, <1>5, <1>7, <1>8
  <2>2. moved'.previous.gen = trending.gen /\ moved'.previous.events = snapshot
        /\ moved'.gen = trending.gen /\ moved'.baseline = baseline
    BY <1>1
  <2>3. Current' = Current
    BY <1>1 DEF Current
  <2>4. Pictures(moved.baseline)' /\ Pictures(moved.previous)'
    BY <1>1, <1>2, <1>4, <1>6, <2>2, <2>3 DEF Pictures, c
  <2> QED
    BY <1>1, <1>2, <2>1, <2>2, <2>3, <2>4 DEF MovedOK, Idle
<1>10. ASSUME NEW i \in DOMAIN spotlight
       PROVE  LET row == spotlight[i]
                  then == promoted[moved'.basisAt]
              IN  /\ moved'.basisAt # 0 /\ row.id \in DOMAIN then
                  /\ Tells(row, basis, c[row.id], then[row.id])
  <2>1. ~warming /\ spotlight = Spotlight(rows, basis)
    BY DEF spotlight
  <2>2. moved # NoValue
    BY <1>5, <2>1 DEF warming
  <2>3. fresh => /\ basis = "previous" /\ moved'.basisAt = Previous.gen
                 /\ baseline.events = snapshot
    BY <1>1, <1>5 DEF basis
  <2>4. ~fresh => basis = "day" /\ moved'.basisAt = baseline.gen
    BY <1>1 DEF basis
  <2>5. i \in DOMAIN Spotlight(BuildRows(selected, baseline.events, Previous.events), basis)
    BY <2>1
  <2>6. CASE fresh
    BY <1>2, <1>3, <1>4, <1>8, <2>1, <2>2, <2>3, <2>5, <2>6, SpotlightTells
  <2>7. CASE ~fresh
    BY <1>2, <1>3, <1>7, <1>8, <2>1, <2>2, <2>4, <2>5, <2>7, SpotlightTells
  <2> QED
    BY <2>6, <2>7
<1>11. SpotlightTellsTheTruth'
  <2>1. moved'.spotlight = spotlight /\ moved'.gen = trending.gen /\ moved'.basis = basis
        /\ moved'.day = Day /\ moved'.baseline = baseline
    BY <1>1
  <2>2. basis = "day" => baseline.day = Day
    BY <1>5 DEF basis
  <2>3. \A i \in DOMAIN spotlight :
          /\ moved'.basisAt # 0 /\ spotlight[i].id \in DOMAIN promoted'[moved'.basisAt]
          /\ Tells(spotlight[i], basis, promoted'[moved'.gen][spotlight[i].id],
                   promoted'[moved'.basisAt][spotlight[i].id])
    BY <1>1, <1>10, <2>1 DEF c
  <2> QED
    BY <2>1, <2>2, <2>3 DEF SpotlightTellsTheTruth, Tells
<1> QED
  BY <1>9, <1>11 DEF MovedInvariant

LEMMA NextMoved ==
  ASSUME PromotedOK, MovedInvariant, [Next]_vars
  PROVE  MovedInvariant'
<1>1. CASE trending' \in {trending, Idle, Read} /\ moved' = moved
  BY <1>1, MovedStays
<1>2. CASE TrendingReads
  <2>1. /\ moved' = moved /\ promoted' = promoted
        /\ trending' = IF Current = 0 THEN Idle ELSE [at |-> "write", gen |-> Current]
    BY <1>2 DEF TrendingReads, notTrending
  <2>2. Current \in Nat /\ Current' = Current
    BY <2>1 DEF PromotedOK, Current
  <2> QED
    BY <2>1, <2>2 DEF MovedInvariant, MovedOK, SpotlightTellsTheTruth, Pictures, Idle
<1>3. CASE TrendingWrites
  BY <1>3, TrendingWritesTruth
<1> QED
  BY <1>1, <1>2, <1>3, TrendingSteps

-----------------------------------------------------------------------------
(* What is spent: the samples of the two status files are, within the day,   *)
(* those of all runs that were not killed, and none is of a turn whose run   *)
(* has not ended, so a sum over the set counts every run.                    *)

Most == CHOOSE c \in Costs : \A d \in Costs : d <= c

Books(S) == Costed(S) /\ \A s \in S : s.at \in Int /\ s.at <= slot
NotYet(S) == \A s \in S : s.at < slot

FilesOK ==
  /\ slot \in Nat /\ served \in Int /\ served <= slot
  /\ spent = [file \in {"walks", "calls"} |-> spent[file]]
  /\ Books(walks) /\ Books(calls) /\ Books(spent["walks"]) /\ Books(spent["calls"])
  /\ InDay(spent["walks"]) = InDay(walks) /\ InDay(spent["calls"]) = InDay(calls)

TurnOK ==
  /\ served < slot => refresh = Idle /\ annotate = Idle
  /\ refresh # Idle => annotate = Idle
  /\ served < slot \/ refresh # Idle => NotYet(walks) /\ NotYet(spent["walks"])
  /\ served < slot \/ refresh # Idle \/ annotate # Idle => NotYet(calls) /\ NotYet(spent["calls"])

Took(samples, file) == samples \subseteq file /\ InDay(file) \subseteq samples

RefreshOK ==
  refresh # Idle =>
    /\ refresh.at \in {"walk", "report"} /\ refresh = [at |-> refresh.at, samples |-> refresh.samples]
    /\ Took(refresh.samples, walks)
    /\ Used(refresh.samples) < RefreshBudget

AnnotateOK ==
  /\ annotate.at \in {"idle", "read", "batch", "index", "status"}
  /\ annotate.at \in {"batch", "index", "status"} =>
       /\ annotate = [at |-> annotate.at, gen |-> annotate.gen, labels |-> annotate.labels,
                      samples |-> annotate.samples, cost |-> annotate.cost, batches |-> annotate.batches,
                      todo |-> annotate.todo, changed |-> annotate.changed]
       /\ Took(annotate.samples, calls)
       /\ annotate.cost \in Nat /\ annotate.batches \in Nat
       /\ annotate.batches # 0 => Used(annotate.samples) + annotate.cost <= NeuronBudget + Most - 1

SpendingInvariant == FilesOK /\ TurnOK /\ RefreshOK /\ AnnotateOK /\ BudgetsHold

spending == <<slot, served, refresh, walks, annotate, calls, spent>>

LEMMA SpendingSteps ==
  ASSUME [Next]_vars
  PROVE  \/ UNCHANGED spending
         \/ TimePasses
         \/ RefreshStarts \/ Promote \/ RefreshSucceeds \/ RefreshFails \/ RefreshKilled
         \/ AnnotateReads \/ BatchAnswered \/ BatchFails \/ NoMoreCalls
         \/ AnnotateIndexed \/ AnnotateReports \/ AnnotateKilled
<1>1. CASE TrendingReads \/ TrendingWrites \/ TrendingKilled
  BY <1>1 DEF TrendingReads, TrendingWrites, TrendingKilled, notTrending, spending
<1>2. CASE BriefReads \/ BriefReadsLabels \/ BriefWrites \/ BriefKilled
  BY <1>2 DEF BriefReads, BriefReadsLabels, BriefWrites, BriefKilled, notBrief, spending
<1>3. ASSUME NEW g \in Groups, BriefGroupDone(g) PROVE UNCHANGED spending
  BY <1>3 DEF BriefGroupDone, notBrief, spending
<1>4. CASE UNCHANGED vars
  BY <1>4 DEF vars, spending
<1> QED
  BY <1>1, <1>2, <1>3, <1>4 DEF Next

LEMMA MostCosts == Most \in Nat \ {0} /\ Most \in Costs /\ \A c \in Costs : c \in Nat \ {0} /\ c <= Most
BY DayAssumption DEF Most

LEMMA BudgetsAre ==
  BudgetsHold <=> /\ Used(InDay(spent["walks"])) <= RefreshBudget + Most - 1
                  /\ Used(InDay(spent["calls"])) <= NeuronBudget + Most - 1
BY DEF BudgetsHold, Most

LEMMA PartOfBooks ==
  ASSUME NEW S, Books(S), NEW T, T \subseteq S
  PROVE  Books(T) /\ Used(T) \in Nat /\ Used(T) <= Used(S) /\ Books(InDay(S))
<1>1. Costed(T) /\ InDay(S) \subseteq S
  BY CostedPart DEF Books, InDay
<1>2. Costed(InDay(S))
  BY <1>1, CostedPart DEF Books
<1> QED
  BY <1>1, <1>2, UsedType, UsedPart DEF Books

LEMMA RecentTook ==
  ASSUME slot \in Int, NEW S, Books(S), NEW recent \in Recent(S)
  PROVE  Took(recent, S) /\ Books(recent) /\ InDay(recent) = InDay(S) /\ Used(recent) \in Nat
<1>1. recent \subseteq S /\ InDay(S) \subseteq recent
  BY DayAssumption DEF Recent, InDay, Books
<1>2. InDay(recent) = InDay(S)
  BY <1>1 DEF InDay
<1> QED
  BY <1>1, <1>2, PartOfBooks DEF Took

LEMMA TookDay ==
  ASSUME NEW S, NEW samples, Took(samples, S)
  PROVE  InDay(samples) = InDay(S)
BY DEF Took, InDay

(* One more sample, of this turn, costs what it says. *)
LEMMA OneMore ==
  ASSUME slot \in Int, NEW S, Books(S), NotYet(S), NEW cost \in Nat
  PROVE  LET more == S \cup {Sample(cost)}
         IN  Books(more) /\ InDay(more) = InDay(S) \cup {Sample(cost)} /\ Used(more) = cost + Used(S)
<1>1. Sample(cost) \notin S /\ Sample(cost).cost = cost /\ Sample(cost).at = slot
  BY DEF NotYet, Sample
<1>2. Costed(S \cup {Sample(cost)}) /\ Used(S \cup {Sample(cost)}) = cost + Used(S)
  BY <1>1, UsedWith DEF Books
<1>3. Books(S \cup {Sample(cost)})
  BY <1>1, <1>2 DEF Books
<1>4. InDay(S \cup {Sample(cost)}) = InDay(S) \cup {Sample(cost)}
  BY <1>1, DayAssumption DEF InDay
<1> QED
  BY <1>2, <1>3, <1>4

(* A run that took a file within its budget and writes what it cost. *)
LEMMA Paid ==
  ASSUME slot \in Int, NEW S, Books(S), NotYet(S), NEW T, Books(T), NotYet(T), InDay(T) = InDay(S),
         NEW samples, Took(samples, S), NEW cost \in Nat
  PROVE  LET file == samples \cup {Sample(cost)}
             ledger == InDay(T \cup {Sample(cost)})
         IN  /\ Books(file) /\ Books(ledger) /\ InDay(ledger) = InDay(file)
             /\ Used(InDay(ledger)) <= cost + Used(samples)
<1> DEFINE file == samples \cup {Sample(cost)}
           ledger == InDay(T \cup {Sample(cost)})
<1>1. samples \subseteq S /\ InDay(S) \subseteq samples /\ InDay(samples) = InDay(S)
  BY TookDay DEF Took
<1>2. Books(samples) /\ NotYet(samples) /\ Books(InDay(T)) /\ NotYet(InDay(T)) /\ Used(samples) \in Nat
  BY <1>1, PartOfBooks DEF NotYet, InDay
<1>3. Books(file) /\ InDay(file) = InDay(samples) \cup {Sample(cost)}
  BY <1>2, OneMore
<1>4. ledger = InDay(T) \cup {Sample(cost)} /\ Books(T \cup {Sample(cost)})
  BY OneMore
<1>5. /\ Books(InDay(T) \cup {Sample(cost)})
      /\ Used(InDay(T) \cup {Sample(cost)}) = cost + Used(InDay(T))
  BY <1>2, OneMore
<1>6. InDay(ledger) = ledger
  BY DEF InDay
<1> HIDE DEF ledger, file
<1>7. Used(InDay(T)) <= Used(samples) /\ Used(InDay(T)) \in Nat
  BY <1>1, <1>2, PartOfBooks
<1>8. Books(ledger) /\ Used(InDay(ledger)) <= cost + Used(samples)
  <2>1. Books(ledger) /\ Used(InDay(ledger)) = cost + Used(InDay(T))
    BY <1>4, <1>5, <1>6
  <2>2. Used(samples) \in Nat
    BY <1>2
  <2> QED
    BY <1>7, <2>1, <2>2
<1>9. InDay(ledger) = InDay(file)
  BY <1>1, <1>3, <1>4, <1>6
<1> QED
  BY <1>3, <1>8, <1>9 DEF ledger, file

LEMMA NextTurn == ASSUME SpendingInvariant, TimePasses PROVE SpendingInvariant'
<1>1. /\ served = slot /\ refresh = Idle /\ annotate = Idle
      /\ slot' = slot + 1 /\ UNCHANGED <<served, refresh, walks, annotate, calls, spent>>
  BY DEF TimePasses
<1>2. slot \in Nat /\ Books(walks) /\ Books(calls) /\ Books(spent["walks"]) /\ Books(spent["calls"])
      /\ InDay(spent["walks"]) = InDay(walks) /\ InDay(spent["calls"]) = InDay(calls)
      /\ spent = [file \in {"walks", "calls"} |-> spent[file]]
  BY DEF SpendingInvariant, FilesOK
<1>3. ASSUME NEW S, Books(S)
      PROVE  /\ Costed(S) /\ \A s \in S : s.at \in Int /\ s.at <= slot + 1 /\ s.at < slot + 1
             /\ {s \in S : slot + 1 - s.at < SlotsPerDay} = {s \in InDay(S) : slot + 1 - s.at < SlotsPerDay}
             /\ {s \in S : slot + 1 - s.at < SlotsPerDay} \subseteq InDay(S)
  BY <1>2, <1>3, DayAssumption DEF Books, InDay
<1>4. FilesOK'
  <2>1. InDay(spent["walks"])' = {s \in InDay(spent["walks"]) : slot + 1 - s.at < SlotsPerDay}
        /\ InDay(walks)' = {s \in InDay(walks) : slot + 1 - s.at < SlotsPerDay}
        /\ InDay(spent["calls"])' = {s \in InDay(spent["calls"]) : slot + 1 - s.at < SlotsPerDay}
        /\ InDay(calls)' = {s \in InDay(calls) : slot + 1 - s.at < SlotsPerDay}
    BY <1>1, <1>2, <1>3 DEF InDay
  <2>2. Books(walks)' /\ Books(calls)' /\ Books(spent["walks"])' /\ Books(spent["calls"])'
    BY <1>1, <1>2, <1>3 DEF Books, Costed
  <2> QED
    BY <1>1, <1>2, <2>1, <2>2 DEF FilesOK
<1>5. TurnOK'
  <2>1. \A S : Books(S) => \A s \in S : s.at < slot + 1
    BY <1>3
  <2> QED
    BY <1>1, <1>2, <2>1 DEF TurnOK, NotYet
<1>6. RefreshOK' /\ AnnotateOK'
  BY <1>1 DEF RefreshOK, AnnotateOK, Idle
<1>7. BudgetsHold'
  <2>1. InDay(spent["walks"])' \subseteq InDay(spent["walks"]) /\ InDay(spent["calls"])' \subseteq InDay(spent["calls"])
    BY <1>1, <1>2, <1>3 DEF InDay
  <2>2. /\ Used(InDay(spent["walks"])') <= Used(InDay(spent["walks"]))
        /\ Used(InDay(spent["calls"])') <= Used(InDay(spent["calls"]))
        /\ Used(InDay(spent["walks"])') \in Nat /\ Used(InDay(spent["calls"])') \in Nat
        /\ Used(InDay(spent["walks"])) \in Nat /\ Used(InDay(spent["calls"])) \in Nat
    BY <1>2, <2>1, PartOfBooks
  <2>3. /\ Used(InDay(spent["walks"])) <= RefreshBudget + Most - 1
        /\ Used(InDay(spent["calls"])) <= NeuronBudget + Most - 1
    BY BudgetsAre DEF SpendingInvariant
  <2>4. /\ Used(InDay(spent["walks"])') <= RefreshBudget + Most - 1
        /\ Used(InDay(spent["calls"])') <= NeuronBudget + Most - 1
    BY <2>2, <2>3, MostCosts, DayAssumption
  <2>5. /\ Used(InDay(spent["walks"]))' = Used(InDay(spent["walks"])')
        /\ Used(InDay(spent["calls"]))' = Used(InDay(spent["calls"])')
    OBVIOUS
  <2> QED
    BY <2>4, <2>5 DEF BudgetsHold, Most
<1> QED
  BY <1>4, <1>5, <1>6, <1>7 DEF SpendingInvariant

(* While the files and the clock stay, so do the books. *)
LEMMA SameBooks ==
  ASSUME SpendingInvariant, UNCHANGED <<slot, walks, calls, spent>>, served' \in {served, slot}
  PROVE  FilesOK' /\ BudgetsHold'
<1>1. FilesOK'
  BY DEF SpendingInvariant, FilesOK, Books, InDay
<1>2. BudgetsHold'
  BY DEF SpendingInvariant, BudgetsHold, InDay
<1> QED
  BY <1>1, <1>2

LEMMA SpendingStays == ASSUME SpendingInvariant, UNCHANGED spending PROVE SpendingInvariant'
<1>1. FilesOK' /\ BudgetsHold'
  BY SameBooks DEF spending
<1>2. TurnOK' /\ RefreshOK' /\ AnnotateOK'
  BY DEF SpendingInvariant, spending, TurnOK, RefreshOK, AnnotateOK, NotYet, Took, InDay
<1> QED
  BY <1>1, <1>2 DEF SpendingInvariant

LEMMA SkippedTurn ==
  ASSUME SpendingInvariant, NEW recent \in Recent(walks), refresh = Idle, served < slot,
         served' = slot, walks' = recent, StartOthers,
         UNCHANGED <<slot, refresh, calls, spent>>
  PROVE  SpendingInvariant'
<1>1. slot \in Nat /\ Books(walks) /\ annotate = Idle /\ NotYet(calls) /\ NotYet(spent["calls"])
  BY DEF SpendingInvariant, FilesOK, TurnOK
<1>2. Books(recent) /\ InDay(recent) = InDay(walks)
  BY <1>1, RecentTook
<1>3. FilesOK'
  BY <1>1, <1>2 DEF SpendingInvariant, FilesOK, Books, InDay
<1>4. annotate' = Read
  BY <1>1 DEF StartOthers, Read
<1>5. TurnOK'
  BY <1>1, <1>4 DEF TurnOK, NotYet
<1>6. RefreshOK' /\ AnnotateOK'
  BY <1>4 DEF RefreshOK, AnnotateOK, Read
<1>7. BudgetsHold'
  BY DEF SpendingInvariant, BudgetsHold, InDay
<1> QED
  BY <1>3, <1>5, <1>6, <1>7 DEF SpendingInvariant

LEMMA WalkBegins ==
  ASSUME SpendingInvariant, NEW recent \in Recent(walks), served < slot, ~(Used(recent) >= RefreshBudget),
         served' = slot, refresh' = [at |-> "walk", samples |-> recent],
         UNCHANGED <<slot, walks, annotate, calls, spent>>
  PROVE  SpendingInvariant'
<1>1. slot \in Nat /\ Books(walks) /\ annotate = Idle /\ TurnOK
  BY DEF SpendingInvariant, FilesOK, TurnOK
<1>2. Took(recent, walks) /\ Used(recent) \in Nat
  BY <1>1, RecentTook
<1>3. FilesOK' /\ BudgetsHold'
  BY SameBooks
<1>4. TurnOK'
  BY <1>1 DEF TurnOK, NotYet
<1>5. Took(recent, walks)' /\ Used(recent) < RefreshBudget
  BY <1>2, DayAssumption DEF Took, InDay
<1>6. RefreshOK'
  BY <1>5 DEF RefreshOK, Took, InDay
<1>7. AnnotateOK'
  BY <1>1 DEF AnnotateOK, Idle
<1> QED
  BY <1>3, <1>4, <1>6, <1>7 DEF SpendingInvariant

LEMMA NextRefreshStarts == ASSUME SpendingInvariant, RefreshStarts PROVE SpendingInvariant'
<1>1. PICK recent \in Recent(walks) :
        /\ refresh = Idle /\ served < slot /\ served' = slot
        /\ IF Used(recent) >= RefreshBudget
           THEN walks' = recent /\ StartOthers /\ UNCHANGED refresh
           ELSE refresh' = [at |-> "walk", samples |-> recent] /\ UNCHANGED <<walks, trending, brief, annotate>>
        /\ UNCHANGED <<promoted, notRefresh, kills, spent>>
  BY DEF RefreshStarts
<1>2. UNCHANGED <<slot, calls, spent>>
  BY <1>1 DEF notRefresh
<1>3. CASE Used(recent) >= RefreshBudget
  BY <1>1, <1>2, <1>3, SkippedTurn
<1>4. CASE ~(Used(recent) >= RefreshBudget)
  BY <1>1, <1>2, <1>4, WalkBegins
<1> QED
  BY <1>3, <1>4

LEMMA NextPromote == ASSUME SpendingInvariant, Promote PROVE SpendingInvariant'
<1>1. /\ refresh.at = "walk" /\ refresh' = [refresh EXCEPT !.at = "report"]
      /\ UNCHANGED <<slot, served, walks, annotate, calls, spent>>
  BY DEF Promote, notRefresh
<1>2. refresh # Idle /\ TurnOK /\ RefreshOK
  BY <1>1 DEF SpendingInvariant, Idle
<1>3. refresh = [at |-> refresh.at, samples |-> refresh.samples]
  BY <1>2 DEF RefreshOK
<1>4. refresh'.at = "report" /\ refresh' = [at |-> refresh'.at, samples |-> refresh.samples]
      /\ refresh'.samples = refresh.samples
  BY <1>1, <1>3
<1>5. FilesOK' /\ BudgetsHold'
  BY <1>1, SameBooks
<1>6. TurnOK'
  BY <1>1, <1>2 DEF TurnOK, NotYet
<1>7. RefreshOK'
  BY <1>1, <1>2, <1>4 DEF RefreshOK, Took, InDay
<1>8. AnnotateOK'
  BY <1>1 DEF SpendingInvariant, AnnotateOK, Took, InDay
<1> QED
  BY <1>5, <1>6, <1>7, <1>8 DEF SpendingInvariant

(* A walk ends, succeeded or not, and what it cost is in the file. *)
LEMMA WalkCounted ==
  ASSUME SpendingInvariant, refresh # Idle, Counted, refresh' = Idle,
         UNCHANGED <<slot, served, calls>>, annotate' \in {annotate, Read}
  PROVE  SpendingInvariant'
<1>1. /\ slot \in Nat /\ Books(walks) /\ Books(spent["walks"]) /\ served = slot
      /\ InDay(spent["walks"]) = InDay(walks)
      /\ spent = [file \in {"walks", "calls"} |-> spent[file]]
  BY DEF SpendingInvariant, FilesOK, TurnOK
<1>2. /\ annotate = Idle /\ NotYet(walks) /\ NotYet(spent["walks"])
      /\ NotYet(calls) /\ NotYet(spent["calls"])
  BY DEF SpendingInvariant, TurnOK
<1>3. Took(refresh.samples, walks) /\ Used(refresh.samples) < RefreshBudget
  BY DEF SpendingInvariant, RefreshOK
<1> DEFINE Ledger(cost) == InDay(spent["walks"] \cup {Sample(cost)})
<1>4. PICK cost \in Costs : /\ walks' = refresh.samples \cup {Sample(cost)}
                           /\ spent' = [spent EXCEPT !["walks"] = Ledger(cost)]
  BY DEF Counted, Pay
<1>5. cost \in Nat /\ cost <= Most /\ Most \in Nat
  BY MostCosts
<1>6. /\ Books(walks') /\ Books(Ledger(cost)) /\ InDay(Ledger(cost)) = InDay(walks')
      /\ Used(InDay(Ledger(cost))) <= cost + Used(refresh.samples)
  BY <1>1, <1>2, <1>3, <1>4, <1>5, Paid
<1>7. Used(refresh.samples) \in Nat /\ Used(InDay(Ledger(cost))) \in Nat
  BY <1>1, <1>3, <1>6, PartOfBooks DEF Took, InDay
<1> HIDE DEF Ledger
<1>8. /\ spent'["walks"] = Ledger(cost) /\ spent'["calls"] = spent["calls"]
      /\ spent' = [file \in {"walks", "calls"} |-> spent'[file]]
  BY <1>1, <1>4
<1>9. FilesOK'
  <2>1. Books(walks)' /\ Books(spent["walks"])' /\ InDay(spent["walks"])' = InDay(walks)'
    BY <1>6, <1>8 DEF Books, InDay
  <2>2. Books(calls)' /\ Books(spent["calls"])' /\ InDay(spent["calls"])' = InDay(calls)'
    BY <1>8 DEF SpendingInvariant, FilesOK, Books, InDay
  <2> QED
    BY <1>1, <1>8, <2>1, <2>2 DEF FilesOK
<1>10. TurnOK'
  BY <1>1, <1>2, <1>8 DEF TurnOK, NotYet
<1>11. RefreshOK' /\ AnnotateOK'
  BY <1>2 DEF RefreshOK, AnnotateOK, Read, Idle
<1>12. BudgetsHold'
  <2>1. Used(InDay(Ledger(cost))) <= RefreshBudget + Most - 1
    BY <1>3, <1>5, <1>6, <1>7, DayAssumption
  <2>2. Used(InDay(spent["calls"])) <= NeuronBudget + Most - 1
    BY BudgetsAre DEF SpendingInvariant
  <2>3. InDay(spent["walks"])' = InDay(Ledger(cost)) /\ InDay(spent["calls"])' = InDay(spent["calls"])
    BY <1>8 DEF InDay
  <2> QED
    BY <2>1, <2>2, <2>3 DEF BudgetsHold, Most
<1> QED
  BY <1>9, <1>10, <1>11, <1>12 DEF SpendingInvariant

LEMMA NextRefreshEnds ==
  ASSUME SpendingInvariant, RefreshSucceeds \/ RefreshFails \/ RefreshKilled
  PROVE  SpendingInvariant'
<1>1. CASE RefreshSucceeds
  <2>1. /\ refresh # Idle /\ Counted /\ refresh' = Idle /\ StartOthers
        /\ UNCHANGED <<slot, served, calls>>
    BY <1>1 DEF RefreshSucceeds, notRefresh, Idle
  <2>2. annotate' \in {annotate, Read}
    BY <2>1 DEF StartOthers, Read
  <2> QED
    BY <2>1, <2>2, WalkCounted
<1>2. CASE RefreshFails
  <2>1. /\ refresh # Idle /\ Counted /\ refresh' = Idle
        /\ UNCHANGED <<slot, served, calls, annotate>>
    BY <1>2 DEF RefreshFails, notRefresh
  <2> QED
    BY <2>1, WalkCounted
<1>3. CASE RefreshKilled
  <2>1. refresh # Idle /\ refresh' = Idle /\ UNCHANGED <<slot, served, walks, annotate, calls, spent>>
    BY <1>3 DEF RefreshKilled, notRefresh
  <2>2. TurnOK /\ AnnotateOK /\ served \in Int /\ slot \in Nat /\ served <= slot
    BY DEF SpendingInvariant, FilesOK
  <2>3. FilesOK' /\ BudgetsHold'
    BY <2>1, SameBooks
  <2>4. TurnOK'
    BY <2>1, <2>2 DEF TurnOK, NotYet
  <2>5. RefreshOK'
    BY <2>1 DEF RefreshOK
  <2>6. AnnotateOK'
    BY <2>1, <2>2 DEF AnnotateOK, Took, InDay
  <2> QED
    BY <2>3, <2>4, <2>5, <2>6 DEF SpendingInvariant
<1> QED
  BY <1>1, <1>2, <1>3

(* The annotator runs in its turn only, after the walk. *)
LEMMA AnnotateAlone ==
  ASSUME SpendingInvariant, annotate # Idle
  PROVE  /\ slot \in Nat /\ served = slot /\ refresh = Idle
         /\ NotYet(calls) /\ NotYet(spent["calls"])
BY DEF SpendingInvariant, FilesOK, TurnOK

LEMMA AnnotateMoves ==
  ASSUME SpendingInvariant, annotate # Idle, AnnotateOK',
         UNCHANGED <<slot, served, refresh, walks, calls, spent>>
  PROVE  SpendingInvariant'
<1>1. FilesOK' /\ BudgetsHold'
  BY SameBooks
<1>2. TurnOK' /\ RefreshOK'
  BY AnnotateAlone DEF TurnOK, RefreshOK, NotYet
<1> QED
  BY <1>1, <1>2 DEF SpendingInvariant

(* What a run of the annotator is between its steps. *)
RunOK(run) ==
  /\ run.at \in {"batch", "index", "status"}
  /\ run = [at |-> run.at, gen |-> run.gen, labels |-> run.labels, samples |-> run.samples,
            cost |-> run.cost, batches |-> run.batches, todo |-> run.todo, changed |-> run.changed]
  /\ Took(run.samples, calls)
  /\ run.cost \in Nat /\ run.batches \in Nat
  /\ run.batches # 0 => Used(run.samples) + run.cost <= NeuronBudget + Most - 1

LEMMA RunIsOK ==
  ASSUME SpendingInvariant, annotate.at \in {"batch", "index", "status"}
  PROVE  RunOK(annotate) /\ annotate # Idle
BY DEF SpendingInvariant, AnnotateOK, RunOK, Idle

LEMMA RunGoesOn ==
  ASSUME NEW run, RunOK(run), annotate' = run, UNCHANGED <<slot, calls>>
  PROVE  AnnotateOK'
BY DEF AnnotateOK, RunOK, Took, InDay

LEMMA NextAnnotateReads == ASSUME SpendingInvariant, AnnotateReads PROVE SpendingInvariant'
<1>1. PICK recent \in Recent(calls) :
        /\ annotate.at = "read"
        /\ UNCHANGED <<slot, served, refresh, walks, calls, spent>>
        /\ \/ annotate' = Idle
           \/ \E left, todo, changed : \E at \in {"index", "batch"} :
                annotate' = [at |-> at, gen |-> Current, labels |-> left, samples |-> recent,
                             cost |-> 0, batches |-> 0, todo |-> todo, changed |-> changed]
  <2>1. PICK recent \in Recent(calls) :
          /\ annotate.at = "read"
          /\ IF Current = 0 THEN Annotates(Idle)
             ELSE LET left == Restrict(index, DOMAIN index \cap DOMAIN promoted[Current])
                      todo == Pending(Current, left)
                  IN Annotates([at |-> IF todo = {} \/ Used(recent) >= NeuronBudget THEN "index" ELSE "batch",
                                gen |-> Current, labels |-> left, samples |-> recent, cost |-> 0, batches |-> 0,
                                todo |-> todo, changed |-> DOMAIN left # DOMAIN index])
    BY DEF AnnotateReads
  <2> DEFINE left == Restrict(index, DOMAIN index \cap DOMAIN promoted[Current])
             todo == Pending(Current, left)
             changed == DOMAIN left # DOMAIN index
             at == IF todo = {} \/ Used(recent) >= NeuronBudget THEN "index" ELSE "batch"
  <2>2. at \in {"index", "batch"}
    OBVIOUS
  <2>3. CASE Current = 0
    BY <2>1, <2>3 DEF Annotates, notAnnotate
  <2>4. CASE Current # 0
    <3>1. Annotates([at |-> at, gen |-> Current, labels |-> left, samples |-> recent, cost |-> 0,
                     batches |-> 0, todo |-> todo, changed |-> changed])
      BY <2>1, <2>4
    <3> HIDE DEF left, todo, changed, at
    <3> QED
      BY <2>1, <2>2, <3>1 DEF Annotates, notAnnotate
  <2> QED
    BY <2>3, <2>4
<1>2. slot \in Nat /\ Took(recent, calls)
  BY RecentTook DEF SpendingInvariant, FilesOK
<1>3. AnnotateOK'
  <2>1. CASE annotate' = Idle
    BY <2>1 DEF AnnotateOK, Idle
  <2>2. ASSUME NEW at \in {"index", "batch"}, NEW left, NEW todo, NEW changed,
               annotate' = [at |-> at, gen |-> Current, labels |-> left, samples |-> recent,
                            cost |-> 0, batches |-> 0, todo |-> todo, changed |-> changed]
        PROVE  AnnotateOK'
    <3> DEFINE run == [at |-> at, gen |-> Current, labels |-> left, samples |-> recent,
                       cost |-> 0, batches |-> 0, todo |-> todo, changed |-> changed]
    <3>1. RunOK(run)
      BY <1>2 DEF RunOK
    <3> HIDE DEF run
    <3>2. annotate' = run
      BY <2>2 DEF run
    <3> QED
      BY <1>1, <3>1, <3>2, RunGoesOn
  <2> QED
    BY <1>1, <2>1, <2>2
<1>4. annotate # Idle
  BY <1>1 DEF Idle
<1> QED
  BY <1>1, <1>3, <1>4, AnnotateMoves

(* A call starts within the budget, so it ends below the budget and its cost. *)
LEMMA CalledIsOK ==
  ASSUME SpendingInvariant, annotate.at = "batch", MayCall, NEW cost \in Costs
  PROVE  RunOK(Called(cost))
<1>1. RunOK(annotate) /\ cost \in Nat /\ cost <= Most /\ Most \in Nat
  BY RunIsOK, MostCosts
<1>2. Used(annotate.samples) \in Nat
  <2>1. Books(calls) /\ annotate.samples \subseteq calls
    BY <1>1 DEF SpendingInvariant, FilesOK, RunOK, Took
  <2> QED
    BY <2>1, PartOfBooks
<1>3. Used(annotate.samples) + annotate.cost < NeuronBudget
  BY DEF MayCall
<1>4. Called(cost) = [at |-> annotate.at, gen |-> annotate.gen, labels |-> annotate.labels,
                      samples |-> annotate.samples, cost |-> annotate.cost + cost,
                      batches |-> annotate.batches + 1, todo |-> annotate.todo \ {Chunk},
                      changed |-> annotate.changed]
  <2>1. annotate = [at |-> annotate.at, gen |-> annotate.gen, labels |-> annotate.labels,
                    samples |-> annotate.samples, cost |-> annotate.cost, batches |-> annotate.batches,
                    todo |-> annotate.todo, changed |-> annotate.changed]
    BY <1>1 DEF RunOK
  <2>2. Called(cost) = [annotate EXCEPT !.cost = annotate.cost + cost, !.batches = annotate.batches + 1,
                                        !.todo = annotate.todo \ {Chunk}]
    BY DEF Called
  <2> QED
    BY ONLY <2>1, <2>2
<1> QED
  BY <1>1, <1>2, <1>3, <1>4, DayAssumption DEF RunOK

LEMMA NextBatch ==
  ASSUME SpendingInvariant, BatchAnswered \/ BatchFails \/ NoMoreCalls
  PROVE  SpendingInvariant'
<1>1. annotate.at = "batch" /\ UNCHANGED <<slot, served, refresh, walks, calls, spent>>
  BY DEF BatchAnswered, BatchFails, NoMoreCalls, Annotates, notAnnotate
<1>2. annotate # Idle /\ RunOK(annotate)
  BY <1>1, RunIsOK
<1>3. CASE BatchAnswered
  <2>1. PICK cost \in Costs, good \in BOOLEAN :
          /\ MayCall
          /\ annotate' = [Called(cost) EXCEPT
               !.labels = IF good THEN (Chunk :> promoted[annotate.gen][Chunk].title) @@ @ ELSE @,
               !.changed = @ \/ good]
    BY <1>3 DEF BatchAnswered, Annotates
  <2> DEFINE called == Called(cost)
             labels == IF good THEN (Chunk :> promoted[annotate.gen][Chunk].title) @@ called.labels ELSE called.labels
  <2>2. RunOK(called)
    BY <1>1, <2>1, CalledIsOK
  <2> HIDE DEF called
  <2>3. annotate' = [called EXCEPT !.labels = labels, !.changed = called.changed \/ good]
    BY <2>1 DEF called
  <2> HIDE DEF labels
  <2>4. RunOK(annotate')
    BY <2>2, <2>3, <1>1 DEF RunOK
  <2> QED
    BY <1>1, <1>2, <2>4, RunGoesOn, AnnotateMoves
<1>4. CASE BatchFails
  <2>1. PICK cost \in Costs, stop \in BOOLEAN :
          /\ MayCall
          /\ annotate' = [Called(cost) EXCEPT !.at = IF stop THEN "index" ELSE "batch"]
    BY <1>4 DEF BatchFails, Annotates
  <2> DEFINE called == Called(cost)
  <2>2. RunOK(called)
    BY <1>1, <2>1, CalledIsOK
  <2> HIDE DEF called
  <2>3. \E at \in {"index", "batch"} : annotate' = [called EXCEPT !.at = at]
    BY <2>1 DEF called
  <2>4. RunOK(annotate')
    BY <2>2, <2>3 DEF RunOK
  <2> QED
    BY <1>1, <1>2, <2>4, RunGoesOn, AnnotateMoves
<1>5. CASE NoMoreCalls
  <2>1. annotate' = [annotate EXCEPT !.at = "index"]
    BY <1>5 DEF NoMoreCalls, Annotates
  <2>2. RunOK(annotate')
    BY <1>2, <2>1 DEF RunOK
  <2> QED
    BY <1>1, <1>2, <2>2, RunGoesOn, AnnotateMoves
<1> QED
  BY <1>3, <1>4, <1>5

LEMMA NextAnnotateEnds ==
  ASSUME SpendingInvariant, AnnotateIndexed \/ AnnotateKilled
  PROVE  SpendingInvariant'
<1>1. CASE AnnotateIndexed
  <2>1. /\ annotate.at = "index" /\ annotate' = [annotate EXCEPT !.at = "status"]
        /\ UNCHANGED <<slot, served, refresh, walks, calls, spent>>
    BY <1>1 DEF AnnotateIndexed, notAnnotate
  <2>2. annotate # Idle /\ RunOK(annotate)
    BY <2>1, RunIsOK
  <2>3. RunOK(annotate')
    BY <2>1, <2>2 DEF RunOK
  <2> QED
    BY <2>1, <2>2, <2>3, RunGoesOn, AnnotateMoves
<1>2. CASE AnnotateKilled
  <2>1. annotate # Idle /\ annotate' = Idle /\ UNCHANGED <<slot, served, refresh, walks, calls, spent>>
    BY <1>2 DEF AnnotateKilled, notAnnotate
  <2>2. AnnotateOK'
    BY <2>1 DEF AnnotateOK, Idle
  <2> QED
    BY <2>1, <2>2, AnnotateMoves
<1> QED
  BY <1>1, <1>2

(* The report of the calls: the file the run read, and what it cost itself. *)
LEMMA NextAnnotateReports == ASSUME SpendingInvariant, AnnotateReports PROVE SpendingInvariant'
<1>1. /\ annotate.at = "status" /\ annotate' = Idle /\ UNCHANGED <<slot, served, refresh, walks>>
      /\ calls' = IF annotate.batches = 0 THEN annotate.samples ELSE annotate.samples \cup {Sample(annotate.cost)}
      /\ IF annotate.batches = 0 THEN UNCHANGED spent ELSE Pay("calls", annotate.cost)
  BY DEF AnnotateReports, notAnnotate
<1>2. annotate # Idle /\ RunOK(annotate)
  BY <1>1, RunIsOK
<1>3. slot \in Nat /\ served = slot /\ refresh = Idle /\ NotYet(calls) /\ NotYet(spent["calls"])
  BY <1>2, AnnotateAlone
<1>4. /\ Books(calls) /\ Books(spent["calls"]) /\ InDay(spent["calls"]) = InDay(calls)
      /\ spent = [file \in {"walks", "calls"} |-> spent[file]]
  BY DEF SpendingInvariant, FilesOK
<1>5. Took(annotate.samples, calls) /\ annotate.cost \in Nat
  BY <1>2 DEF RunOK
<1>6. Books(annotate.samples) /\ Used(annotate.samples) \in Nat /\ InDay(annotate.samples) = InDay(calls)
  BY <1>4, <1>5, PartOfBooks, TookDay DEF Took
<1>7. TurnOK' /\ RefreshOK' /\ AnnotateOK'
  BY <1>1, <1>3 DEF TurnOK, RefreshOK, AnnotateOK, Idle
<1>8. Books(walks)' /\ Books(spent["walks"])
  BY <1>1 DEF SpendingInvariant, FilesOK, Books
<1>9. InDay(spent["walks"]) = InDay(walks)
  BY DEF SpendingInvariant, FilesOK
<1>10. CASE annotate.batches = 0
  <2>1. calls' = annotate.samples /\ spent' = spent
    BY <1>1, <1>10
  <2>2. Books(calls)' /\ Books(spent["calls"])' /\ Books(spent["walks"])'
    BY <1>1, <1>4, <1>6, <1>8, <2>1 DEF Books
  <2>3. InDay(spent["calls"])' = InDay(calls)' /\ InDay(spent["walks"])' = InDay(walks)'
    BY <1>1, <1>4, <1>6, <1>9, <2>1 DEF InDay
  <2>4. FilesOK'
    BY <1>1, <1>3, <1>4, <1>8, <2>1, <2>2, <2>3 DEF FilesOK
  <2>5. BudgetsHold'
    BY <1>1, <2>1 DEF SpendingInvariant, BudgetsHold, InDay
  <2> QED
    BY <1>7, <2>4, <2>5 DEF SpendingInvariant
<1>11. CASE annotate.batches # 0
  <2> DEFINE ledger == InDay(spent["calls"] \cup {Sample(annotate.cost)})
  <2>1. calls' = annotate.samples \cup {Sample(annotate.cost)}
    BY <1>1, <1>11
  <2>13. spent' = [spent EXCEPT !["calls"] = ledger]
    BY <1>1, <1>11 DEF Pay
  <2>2. /\ Books(calls') /\ Books(ledger) /\ InDay(ledger) = InDay(calls')
        /\ Used(InDay(ledger)) <= annotate.cost + Used(annotate.samples)
    <3> DEFINE samples == annotate.samples
               cost == annotate.cost
               T == spent["calls"]
    <3>1. slot \in Int /\ Books(calls) /\ NotYet(calls)
      BY <1>3, <1>4
    <3>2. Books(T) /\ NotYet(T) /\ InDay(T) = InDay(calls)
      BY <1>3, <1>4
    <3>3. Took(samples, calls) /\ cost \in Nat
      BY <1>5
    <3>4. calls' = samples \cup {Sample(cost)} /\ ledger = InDay(T \cup {Sample(cost)})
      BY <2>1
    <3> HIDE DEF samples, cost, T, ledger
    <3>5. /\ Books(samples \cup {Sample(cost)}) /\ Books(InDay(T \cup {Sample(cost)}))
          /\ InDay(InDay(T \cup {Sample(cost)})) = InDay(samples \cup {Sample(cost)})
          /\ Used(InDay(InDay(T \cup {Sample(cost)}))) <= cost + Used(samples)
      BY <3>1, <3>2, <3>3, Paid
    <3> QED
      BY <3>4, <3>5 DEF samples, cost
  <2> HIDE DEF ledger
  <2>3. /\ spent'["calls"] = ledger /\ spent'["walks"] = spent["walks"]
        /\ spent' = [file \in {"walks", "calls"} |-> spent'[file]]
    BY <1>4, <2>13
  <2>4. Books(calls)' /\ Books(spent["calls"])' /\ Books(spent["walks"])'
    BY <1>1, <1>8, <2>2, <2>3 DEF Books
  <2>5. InDay(spent["calls"])' = InDay(calls)' /\ InDay(spent["walks"])' = InDay(walks)'
    BY <1>1, <1>9, <2>2, <2>3 DEF InDay
  <2>6. FilesOK'
    BY <1>1, <1>3, <1>8, <2>3, <2>4, <2>5 DEF FilesOK
  <2>7. Used(InDay(ledger)) \in Nat
    BY <2>2, PartOfBooks DEF InDay
  <2>8. Used(annotate.samples) + annotate.cost <= NeuronBudget + Most - 1
    BY <1>2, <1>11 DEF RunOK
  <2>9. Used(InDay(ledger)) <= NeuronBudget + Most - 1
    BY <1>5, <1>6, <2>2, <2>7, <2>8, MostCosts, DayAssumption
  <2>10. Used(InDay(spent["walks"])) <= RefreshBudget + Most - 1
    BY BudgetsAre DEF SpendingInvariant
  <2>11. InDay(spent["calls"])' = InDay(ledger) /\ InDay(spent["walks"])' = InDay(spent["walks"])
    BY <1>1, <2>3 DEF InDay
  <2>12. BudgetsHold'
    BY <2>9, <2>10, <2>11 DEF BudgetsHold, Most
  <2> QED
    BY <1>7, <2>6, <2>12 DEF SpendingInvariant
<1> QED
  BY <1>10, <1>11

LEMMA NextSpending == ASSUME SpendingInvariant, [Next]_vars PROVE SpendingInvariant'
BY SpendingSteps, SpendingStays, NextTurn, NextRefreshStarts, NextPromote, NextRefreshEnds,
   NextAnnotateReads, NextBatch, NextAnnotateEnds, NextAnnotateReports

-----------------------------------------------------------------------------
DayInvariant == PromotedOK /\ BriefInvariant /\ MovedInvariant /\ SpendingInvariant

LEMMA NothingSpent == ASSUME Init PROVE SpendingInvariant
<1>1. Books({}) /\ NotYet({})
  BY FS_EmptySet DEF Books, Costed, NotYet
<1>2. InDay({}) = {}
  BY DEF InDay
<1>3. FilesOK /\ TurnOK /\ RefreshOK /\ AnnotateOK
  BY <1>1, <1>2 DEF Init, FilesOK, TurnOK, RefreshOK, AnnotateOK, Idle
<1>4. BudgetsHold
  <2>1. Used(InDay(spent["walks"])) = 0 /\ Used(InDay(spent["calls"])) = 0
    BY <1>2, UsedNone DEF Init
  <2> QED
    BY <2>1, BudgetsAre, MostCosts, DayAssumption
<1> QED
  BY <1>3, <1>4 DEF SpendingInvariant

LEMMA InitInvariant == ASSUME Init PROVE DayInvariant
<1>1. PromotedOK
  BY DEF Init, PromotedOK
<1>2. BriefInvariant
  BY DEF Init, BriefInvariant, BriefOK, WrittenOK, LabelFitsTitle, Idle
<1>3. MovedInvariant
  BY DEF Init, MovedInvariant, MovedOK, SpotlightTellsTheTruth, Idle
<1> QED
  BY <1>1, <1>2, <1>3, NothingSpent DEF DayInvariant

LEMMA NextInvariant == ASSUME DayInvariant, [Next]_vars PROVE DayInvariant'
BY PromotedStays, NextBrief, NextMoved, NextSpending DEF DayInvariant

(* The pictures trending.json keeps show the generations they name, the rows  *)
(* of a brief are as old as they say, and the status files hold, within the   *)
(* day, what every run cost that was not killed: with any number of events,   *)
(* budgets, costs and turns.                                                  *)
THEOREM DayIsSound == Spec => []DayInvariant
<1>1. Init => DayInvariant
  BY InitInvariant
<1>2. DayInvariant /\ [Next]_vars => DayInvariant'
  BY NextInvariant
<1> QED
  BY <1>1, <1>2, PTL DEF Spec

(* trending.py: what the spotlight says of an event did happen between the    *)
(* two generations that the page names, whichever runs were missed.           *)
THEOREM PageTellsTheTruth == Spec => []SpotlightTellsTheTruth
<1>1. DayInvariant => SpotlightTellsTheTruth
  BY DEF DayInvariant, MovedInvariant
<1> QED
  BY <1>1, DayIsSound, PTL

(* sector_brief.py: a question is given to the model under a name that was    *)
(* made for its present title, or under the title.                            *)
THEOREM NamesFitTitles == Spec => []LabelFitsTitle
<1>1. DayInvariant => LabelFitsTitle
  BY DEF DayInvariant, BriefInvariant
<1> QED
  BY <1>1, DayIsSound, PTL

(* sector_brief.py: a paragraph carried over any number of failing runs tells *)
(* when it was written, that it is old and what it is made of.                *)
THEOREM CarriedStaysHonest == Spec => []CarriedTextIsHonest
<1>1. DayInvariant => CarriedTextIsHonest
  BY DEF DayInvariant, BriefInvariant, WrittenOK, CarriedTextIsHonest, Honest
<1> QED
  BY <1>1, DayIsSound, PTL

(* refresh.py and annotate.py: in no window of a day do the runs spend more   *)
(* than the budget and the last of them, for every budget and cost.           *)
THEOREM BudgetsAreKept == Spec => []BudgetsHold
<1>1. DayInvariant => BudgetsHold
  BY DEF DayInvariant, SpendingInvariant
<1> QED
  BY <1>1, DayIsSound, PTL
=============================================================================

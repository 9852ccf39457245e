----------------------------- MODULE FoldFacts -----------------------------
(***************************************************************************)
(* What the sums and concatenations of the models compute: MapThenSumSet   *)
(* over a finite set, FoldSeq(+, 0, _) of a sequence of numbers, and       *)
(* FlattenSeq of a sequence of sequences.  All are recursive functions of  *)
(* the community modules.  The proofs need induction over finite sets and  *)
(* numbers, which is done with minimal counterexamples: the subsets of a   *)
(* finite set, and the numbers, are well-founded.                          *)
(***************************************************************************)
EXTENDS Integers, Sequences, SequencesExt, FiniteSetTheorems,
        SequenceTheorems, NaturalsInduction, TLAPS

(* A non-empty set of subsets of a finite set has a minimal member.        *)
LEMMA MinimalSubset ==
  ASSUME NEW S, IsFiniteSet(S), NEW T, T \subseteq SUBSET S, T # {}
  PROVE  \E x \in T : \A y \in T : y \subseteq x => y = x
<1>1. IsWellFoundedOn(StrictSubsetOrdering(S), SUBSET S)
  BY FS_StrictSubsetOrderingWellFounded, FS_FiniteSubsetsOfFinite
<1>2. PICK x \in T : \A y \in T : ~(<<y, x>> \in StrictSubsetOrdering(S))
  BY <1>1, WFMin
<1>3. ASSUME NEW y \in T, y \subseteq x, y # x
      PROVE  FALSE
  <2>1. <<y, x>> \in (SUBSET S) \X (SUBSET S)
    OBVIOUS
  <2>2. <<y, x>> \in StrictSubsetOrdering(S)
    BY <2>1, <1>3 DEF StrictSubsetOrdering
  <2> QED
    BY <2>2, <1>2
<1> QED
  BY <1>2, <1>3

(* A non-empty set of numbers has a least one.                             *)
LEMMA LeastNat ==
  ASSUME NEW T, T \subseteq Nat, T # {}
  PROVE  \E n \in T : \A m \in T : n <= m
<1>1. PICK n \in T : \A m \in T : ~(<<m, n>> \in OpToRel(<, Nat))
  BY NatLessThanWellFounded, WFMin
<1>2. \A m \in T : ~(m < n)
  BY <1>1 DEF OpToRel
<1> QED
  BY <1>2
-----------------------------------------------------------------------------
(* The sum of f[x] over the x in S, as MapThenSumSet defines it: g[T] is   *)
(* the sum over a subset T.                                                *)
Pick(S) == CHOOSE x \in S : TRUE

IsSum(f, S, g) ==
    g = [T \in SUBSET S |->
           IF T = {} THEN 0 ELSE f[Pick(T)] + g[T \ {Pick(T)}]]

SumOver(f, S) == (CHOOSE g : IsSum(f, S, g))[S]

(* MapThenSumSet is such a sum,                                            *)
LEMMA SumIsMapThenSumSet ==
  ASSUME NEW f, NEW S
  PROVE  MapThenSumSet(LAMBDA x : f[x], S) = SumOver(f, S)
  BY DEF MapThenSumSet, MapThenFoldSet, SumOver, IsSum, Pick

(* and so is the sum of a sequence.                                        *)
LEMMA SumIsFoldSeq ==
  ASSUME NEW v
  PROVE  FoldSeq(+, 0, v) = SumOver(v, DOMAIN v)
  BY DEF FoldSeq, FoldFunction, FoldFunctionOnSet, MapThenFoldSet, SumOver,
         IsSum, Pick

(* The equation has at most one solution.                                  *)
LEMMA SumUnique ==
  ASSUME NEW f, NEW S, IsFiniteSet(S), NEW g, NEW h,
         IsSum(f, S, g), IsSum(f, S, h)
  PROVE  g = h
<1> DEFINE Bad == {T \in SUBSET S : g[T] # h[T]}
<1>1. CASE Bad = {}
  <2>1. \A T \in SUBSET S : g[T] = h[T]
    BY <1>1
  <2>2. g = [T \in SUBSET S |-> g[T]] /\ h = [T \in SUBSET S |-> h[T]]
    BY DEF IsSum
  <2> QED
    BY <2>1, <2>2
<1>2. CASE Bad # {}
  <2>1. Bad \subseteq SUBSET S
    OBVIOUS
  <2>2. PICK T \in Bad : \A U \in Bad : U \subseteq T => U = T
    <3> HIDE DEF Bad
    <3> QED
      BY <1>2, <2>1, MinimalSubset
  <2>3. CASE T = {}
    BY <2>2, <2>3 DEF IsSum
  <2>4. CASE T # {}
    <3>1. Pick(T) \in T
      BY <2>4 DEF Pick
    <3>2. T \ {Pick(T)} \in SUBSET S /\ T \ {Pick(T)} \notin Bad
      BY <2>2, <3>1
    <3>3. g[T \ {Pick(T)}] = h[T \ {Pick(T)}]
      BY <3>2
    <3> QED
      BY <2>2, <2>4, <3>3 DEF IsSum
  <2> QED
    BY <2>3, <2>4
<1> QED
  BY <1>1, <1>2

(* The sums over the subsets of a subset are among them.                   *)
LEMMA SumRestrict ==
  ASSUME NEW f, NEW S, NEW g, IsSum(f, S, g), NEW U, U \subseteq S
  PROVE  IsSum(f, U, [T \in SUBSET U |-> g[T]])
<1> DEFINE h == [T \in SUBSET U |-> g[T]]
<1>1. ASSUME NEW T \in SUBSET U
      PROVE  h[T] = IF T = {} THEN 0 ELSE f[Pick(T)] + h[T \ {Pick(T)}]
  <2>1. T \in SUBSET S /\ T \ {Pick(T)} \in SUBSET U
    OBVIOUS
  <2>2. g[T] = IF T = {} THEN 0 ELSE f[Pick(T)] + g[T \ {Pick(T)}]
    BY <2>1 DEF IsSum
  <2> QED
    BY <2>1, <2>2
<1> QED
  BY <1>1 DEF IsSum

(* On a finite set there is a solution, which SumOver takes.                   *)
LEMMA SumExists ==
  ASSUME NEW f, NEW S, IsFiniteSet(S)
  PROVE  \E g : IsSum(f, S, g)
<1> DEFINE Bad == {T \in SUBSET S : ~ \E g : IsSum(f, T, g)}
<1>1. SUFFICES Bad = {}
  OBVIOUS
<1>2. SUFFICES ASSUME Bad # {}
               PROVE  FALSE
  OBVIOUS
<1>3. PICK B \in Bad : \A U \in Bad : U \subseteq B => U = B
  <2>1. Bad \subseteq SUBSET S
    OBVIOUS
  <2> HIDE DEF Bad
  <2> QED
    BY <1>2, <2>1, MinimalSubset
<1>4. \A T \in SUBSET B : T # B => \E g : IsSum(f, T, g)
  BY <1>3
<1> DEFINE fun(T) == CHOOSE g : IsSum(f, T, g)
<1>5. \A T \in SUBSET B : T # B => IsSum(f, T, fun(T))
  BY <1>4
<1> DEFINE value(T) == IF T = {} THEN 0 ELSE f[Pick(T)] + SumOver(f, T \ {Pick(T)})
           g == [T \in SUBSET B |-> value(T)]
<1>6. ASSUME NEW T \in SUBSET B, T # B
      PROVE  SumOver(f, T) = value(T)
  <2>1. IsSum(f, T, fun(T)) /\ SumOver(f, T) = fun(T)[T]
    BY <1>5, <1>6 DEF SumOver
  <2>2. CASE T = {}
    BY <2>1, <2>2 DEF IsSum
  <2>3. CASE T # {}
    <3> DEFINE U == T \ {Pick(T)}
               r == [V \in SUBSET U |-> fun(T)[V]]
    <3>1. U \in SUBSET B /\ U # B /\ U \subseteq T
      BY <1>6
    <3>2. IsSum(f, U, r)
      BY <2>1, <3>1, SumRestrict
    <3>3. IsSum(f, U, fun(U)) /\ SumOver(f, U) = fun(U)[U]
      BY <1>5, <3>1 DEF SumOver
    <3>4. IsFiniteSet(U)
      BY <3>1, FS_Subset
    <3>5. fun(U) = r
      <4> HIDE DEF r, U, fun
      <4> QED
        BY <3>2, <3>3, <3>4, SumUnique
    <3>6. SumOver(f, U) = fun(T)[U]
      BY <3>3, <3>5
    <3>7. fun(T)[T] = f[Pick(T)] + fun(T)[U]
      BY <2>1, <2>3 DEF IsSum
    <3> QED
      BY <2>1, <2>3, <3>6, <3>7
  <2> QED
    BY <2>2, <2>3
<1>7. ASSUME NEW T \in SUBSET B
      PROVE  g[T] = IF T = {} THEN 0 ELSE f[Pick(T)] + g[T \ {Pick(T)}]
  <2>1. CASE T = {}
    BY <2>1
  <2>2. CASE T # {}
    <3>1. Pick(T) \in T
      BY <2>2 DEF Pick
    <3>2. T \ {Pick(T)} \in SUBSET B /\ T \ {Pick(T)} # B
      BY <3>1
    <3>3. g[T \ {Pick(T)}] = SumOver(f, T \ {Pick(T)})
      BY <3>2, <1>6
    <3> QED
      BY <2>2, <3>3
  <2> QED
    BY <2>1, <2>2
<1>8. IsSum(f, B, g)
  BY <1>7 DEF IsSum
<1> QED
  BY <1>8, <1>3

(* The sum is given by a solution of its equation.                         *)
LEMMA SumIs ==
  ASSUME NEW f, NEW S, IsFiniteSet(S)
  PROVE  \E g : IsSum(f, S, g) /\ SumOver(f, S) = g[S]
  BY SumExists DEF SumOver

(* The sum over nothing.                                                   *)
LEMMA SumEmpty ==
  ASSUME NEW f
  PROVE  SumOver(f, {}) = 0
<1>1. IsFiniteSet({})
  BY FS_EmptySet
<1> QED
  BY <1>1, SumIs DEF IsSum

(* The sum is that of the element the fold takes first and of the others.  *)
LEMMA SumPick ==
  ASSUME NEW f, NEW S, IsFiniteSet(S), S # {}
  PROVE  /\ Pick(S) \in S
         /\ SumOver(f, S) = f[Pick(S)] + SumOver(f, S \ {Pick(S)})
<1>1. PICK g : IsSum(f, S, g) /\ SumOver(f, S) = g[S]
  BY SumIs
<1> DEFINE U == S \ {Pick(S)}
           r == [T \in SUBSET U |-> g[T]]
<1>2. IsSum(f, U, r)
  BY <1>1, SumRestrict
<1>3. PICK h : IsSum(f, U, h) /\ SumOver(f, U) = h[U]
  BY SumIs, FS_Subset
<1>4. h = r
  <2>1. IsFiniteSet(U)
    BY FS_Subset
  <2> HIDE DEF U, r
  <2> QED
    BY <1>2, <1>3, <2>1, SumUnique
<1>5. SumOver(f, U) = g[U]
  BY <1>3, <1>4
<1>6. SumOver(f, S) = f[Pick(S)] + g[U]
  BY <1>1 DEF IsSum
<1> QED
  BY <1>5, <1>6 DEF Pick

(* A sum of numbers is a number.                                           *)
LEMMA SumType ==
  ASSUME NEW f, NEW S, IsFiniteSet(S), \A x \in S : f[x] \in Nat
  PROVE  SumOver(f, S) \in Nat
<1> DEFINE Bad == {T \in SUBSET S : SumOver(f, T) \notin Nat}
<1>1. SUFFICES ASSUME Bad # {}
               PROVE  FALSE
  OBVIOUS
<1>2. PICK B \in Bad : \A U \in Bad : U \subseteq B => U = B
  <2>1. Bad \subseteq SUBSET S
    OBVIOUS
  <2> HIDE DEF Bad
  <2> QED
    BY <1>1, <2>1, MinimalSubset
<1>3. B # {}
  BY SumEmpty
<1>4. Pick(B) \in B /\ SumOver(f, B) = f[Pick(B)] + SumOver(f, B \ {Pick(B)})
  BY <1>3, SumPick, FS_Subset
<1>5. SumOver(f, B \ {Pick(B)}) \in Nat
  BY <1>2, <1>4
<1> QED
  BY <1>2, <1>4, <1>5

(* The order does not matter: any element may be taken first.              *)
LEMMA SumRemove ==
  ASSUME NEW f, NEW S, IsFiniteSet(S), \A x \in S : f[x] \in Nat,
         NEW x \in S
  PROVE  SumOver(f, S) = f[x] + SumOver(f, S \ {x})
<1> DEFINE Good(T) == \A y \in T : SumOver(f, T) = f[y] + SumOver(f, T \ {y})
           Bad == {T \in SUBSET S : ~Good(T)}
<1>1. SUFFICES ASSUME Bad # {}
               PROVE  FALSE
  OBVIOUS
<1>2. PICK B \in Bad : \A U \in Bad : U \subseteq B => U = B
  <2>1. Bad \subseteq SUBSET S
    OBVIOUS
  <2> HIDE DEF Bad
  <2> QED
    BY <1>1, <2>1, MinimalSubset
<1>3. PICK y \in B : SumOver(f, B) # f[y] + SumOver(f, B \ {y})
  BY <1>2
<1> DEFINE c == Pick(B)
<1>4. c \in B /\ SumOver(f, B) = f[c] + SumOver(f, B \ {c})
  BY <1>3, SumPick, FS_Subset
<1>5. y # c
  BY <1>3, <1>4
<1>6. SumOver(f, B \ {c}) = f[y] + SumOver(f, (B \ {c}) \ {y})
  <2>1. B \ {c} \in SUBSET S /\ B \ {c} # B /\ y \in B \ {c}
    BY <1>4, <1>5
  <2> QED
    BY <2>1, <1>2
<1>7. SumOver(f, B \ {y}) = f[c] + SumOver(f, (B \ {y}) \ {c})
  <2>1. B \ {y} \in SUBSET S /\ B \ {y} # B /\ c \in B \ {y}
    BY <1>4, <1>5
  <2> QED
    BY <2>1, <1>2
<1>8. (B \ {y}) \ {c} = (B \ {c}) \ {y}
  OBVIOUS
<1>9. SumOver(f, (B \ {c}) \ {y}) \in Nat
  <2>1. ASSUME NEW V, V = (B \ {c}) \ {y}
        PROVE  SumOver(f, V) \in Nat
    <3>1. IsFiniteSet(V) /\ \A z \in V : f[z] \in Nat
      BY <2>1, FS_Subset
    <3> QED
      BY <3>1, SumType
  <2> QED
    BY <2>1
<1>10. f[y] \in Nat /\ f[c] \in Nat
  BY <1>4
<1> HIDE DEF c
<1> QED
  BY <1>3, <1>4, <1>6, <1>7, <1>8, <1>9, <1>10

(* Only the values on S count.                                             *)
LEMMA SumCongruent ==
  ASSUME NEW f, NEW h, NEW S, IsFiniteSet(S), \A x \in S : f[x] = h[x]
  PROVE  SumOver(f, S) = SumOver(h, S)
<1> DEFINE Bad == {T \in SUBSET S : SumOver(f, T) # SumOver(h, T)}
<1>1. SUFFICES ASSUME Bad # {}
               PROVE  FALSE
  OBVIOUS
<1>2. PICK B \in Bad : \A U \in Bad : U \subseteq B => U = B
  <2>1. Bad \subseteq SUBSET S
    OBVIOUS
  <2> HIDE DEF Bad
  <2> QED
    BY <1>1, <2>1, MinimalSubset
<1>3. B # {}
  BY SumEmpty
<1>4. /\ Pick(B) \in B
      /\ SumOver(f, B) = f[Pick(B)] + SumOver(f, B \ {Pick(B)})
      /\ SumOver(h, B) = h[Pick(B)] + SumOver(h, B \ {Pick(B)})
  BY <1>3, SumPick, FS_Subset
<1>5. SumOver(f, B \ {Pick(B)}) = SumOver(h, B \ {Pick(B)})
  BY <1>2, <1>4
<1> QED
  BY <1>2, <1>4, <1>5

(* A sum of zeros.                                                         *)
LEMMA SumZero ==
  ASSUME NEW S, IsFiniteSet(S)
  PROVE  SumOver([x \in S |-> 0], S) = 0
<1> DEFINE z == [x \in S |-> 0]
           Bad == {T \in SUBSET S : SumOver(z, T) # 0}
<1>1. SUFFICES ASSUME Bad # {}
               PROVE  FALSE
  OBVIOUS
<1>2. PICK B \in Bad : \A U \in Bad : U \subseteq B => U = B
  <2>1. Bad \subseteq SUBSET S
    OBVIOUS
  <2> HIDE DEF Bad
  <2> QED
    BY <1>1, <2>1, MinimalSubset
<1>3. B # {}
  BY SumEmpty
<1>4. Pick(B) \in B /\ SumOver(z, B) = z[Pick(B)] + SumOver(z, B \ {Pick(B)})
  <2>1. IsFiniteSet(B)
    BY FS_Subset
  <2> HIDE DEF z, Bad
  <2> QED
    BY <1>3, <2>1, SumPick
<1>5. SumOver(z, B \ {Pick(B)}) = 0
  BY <1>2, <1>4
<1> QED
  BY <1>2, <1>4, <1>5

(* One more element, and another value for one of the elements.            *)
LEMMA SumAdd ==
  ASSUME NEW f, NEW S, IsFiniteSet(S), NEW x, x \notin S,
         \A y \in S \cup {x} : f[y] \in Nat
  PROVE  SumOver(f, S \cup {x}) = f[x] + SumOver(f, S)
<1>1. IsFiniteSet(S \cup {x})
  BY FS_AddElement
<1>2. SumOver(f, S \cup {x}) = f[x] + SumOver(f, (S \cup {x}) \ {x})
  BY <1>1, SumRemove
<1>3. (S \cup {x}) \ {x} = S
  OBVIOUS
<1> QED
  BY <1>2, <1>3

(* The sum after a change of one summand.                                  *)
LEMMA SumExcept ==
  ASSUME NEW S, IsFiniteSet(S), NEW f \in [S -> Nat], NEW x \in S, NEW n \in Nat
  PROVE  SumOver([f EXCEPT ![x] = n], S) + f[x] = SumOver(f, S) + n
<1> DEFINE h == [f EXCEPT ![x] = n]
<1>1. h \in [S -> Nat] /\ h[x] = n /\ \A y \in S \ {x} : h[y] = f[y]
  OBVIOUS
<1>2. IsFiniteSet(S \ {x}) /\ \A y \in S \ {x} : f[y] \in Nat
  BY FS_Subset
<1> HIDE DEF h
<1>3. SumOver(h, S) = n + SumOver(h, S \ {x})
  BY <1>1, SumRemove
<1>4. SumOver(f, S) = f[x] + SumOver(f, S \ {x})
  BY SumRemove
<1>5. SumOver(h, S \ {x}) = SumOver(f, S \ {x})
  BY <1>1, <1>2, SumCongruent
<1>6. SumOver(f, S \ {x}) \in Nat
  BY <1>2, SumType
<1>7. SumOver(h, S) + f[x] = SumOver(f, S) + n
  BY <1>3, <1>4, <1>5, <1>6
<1> QED
  BY <1>7 DEF h
-----------------------------------------------------------------------------
(* The sum over the tail is the one over the indices behind the first.     *)
LEMMA SumShift ==
  ASSUME NEW v \in Seq(Nat), v # <<>>
  PROVE  SumOver(Tail(v), 1 .. Len(v) - 1) = SumOver(v, 2 .. Len(v))
<1> DEFINE t == Tail(v)
           Up(T) == {j + 1 : j \in T}
           D == 1 .. Len(v) - 1
           Bad == {T \in SUBSET D : SumOver(t, T) # SumOver(v, Up(T))}
<1>1. /\ Len(v) \in Nat \ {0}
      /\ Len(t) = Len(v) - 1 /\ t \in Seq(Nat)
      /\ \A j \in 1 .. Len(t) : t[j] = v[j + 1]
  BY EmptySeq, HeadTailProperties
<1>2. IsFiniteSet(D)
  BY <1>1, FS_Interval
<1>3. /\ IsFiniteSet(D) /\ D \in SUBSET D
      /\ \A j \in D : t[j] = v[j + 1] /\ t[j] \in Nat /\ v[j + 1] \in Nat
  <2>1. ASSUME NEW j \in D
        PROVE  t[j] = v[j + 1] /\ t[j] \in Nat /\ v[j + 1] \in Nat
    <3>1. j \in 1 .. Len(t) /\ j + 1 \in 1 .. Len(v)
      BY <1>1
    <3> QED
      BY <3>1, <1>1, ElementOfSeq
  <2> QED
    BY <1>2, <2>1
<1>4. SUFFICES ASSUME Bad # {}
               PROVE  FALSE
  <2>1. Up(D) = 2 .. Len(v)
    <3>1. ASSUME NEW k \in 2 .. Len(v)
          PROVE  k \in Up(D)
      <4>1. k - 1 \in D /\ k = (k - 1) + 1
        BY <1>1
      <4> QED
        BY <4>1
    <3>2. \A k \in Up(D) : k \in 2 .. Len(v)
      BY <1>1
    <3> QED
      BY <3>1, <3>2
  <2>2. SumOver(t, D) = SumOver(v, Up(D))
    BY <1>3, <1>4
  <2> QED
    BY <2>1, <2>2
<1>5. PICK B \in Bad : \A U \in Bad : U \subseteq B => U = B
  <2>1. Bad \subseteq SUBSET D
    OBVIOUS
  <2> HIDE DEF Bad, D
  <2> QED
    BY <1>3, <1>4, <2>1, MinimalSubset
<1>6. B # {}
  <2>1. Up({}) = {}
    OBVIOUS
  <2> QED
    BY <2>1, SumEmpty
<1>7. PICK j \in B : TRUE
  BY <1>6
<1>8. IsFiniteSet(B) /\ \A x \in B : t[x] \in Nat
  BY <1>3, FS_Subset
<1>9. SumOver(t, B) = t[j] + SumOver(t, B \ {j})
  <2> HIDE DEF t, Bad
  <2> QED
    BY <1>8, SumRemove
<1>10. SumOver(v, Up(B)) = v[j + 1] + SumOver(v, Up(B) \ {j + 1})
  <2>1. Up(B) \subseteq 2 .. Len(v) /\ j + 1 \in Up(B)
    OBVIOUS
  <2>2. IsFiniteSet(Up(B)) /\ \A x \in Up(B) : v[x] \in Nat
    <3>1. IsFiniteSet(2 .. Len(v))
      BY FS_Interval
    <3> QED
      BY <2>1, <3>1, FS_Subset
  <2> HIDE DEF Up, Bad
  <2> QED
    BY <2>1, <2>2, SumRemove
<1>11. Up(B) \ {j + 1} = Up(B \ {j})
  OBVIOUS
<1>12. SumOver(t, B \ {j}) = SumOver(v, Up(B \ {j}))
  BY <1>5
<1>13. t[j] = v[j + 1]
  BY <1>3
<1> HIDE DEF t, Up
<1> QED
  BY <1>5, <1>9, <1>10, <1>11, <1>12, <1>13

(* The bytes of a list of buffers.                                         *)
LEMMA FoldSeqType ==
  ASSUME NEW v \in Seq(Nat)
  PROVE  FoldSeq(+, 0, v) \in Nat
<1>1. IsFiniteSet(1 .. Len(v)) /\ DOMAIN v = 1 .. Len(v)
  BY FS_Interval, LenProperties
<1>2. \A i \in 1 .. Len(v) : v[i] \in Nat
  OBVIOUS
<1> QED
  BY <1>1, <1>2, SumType, SumIsFoldSeq

(* The sum of no numbers.                                                  *)
LEMMA FoldSeqEmpty == FoldSeq(+, 0, <<>>) = 0
<1>1. DOMAIN <<>> = {}
  OBVIOUS
<1> QED
  BY <1>1, SumIsFoldSeq, SumEmpty

(* The sum of a sequence is its head and the sum of its tail.              *)
LEMMA FoldSeqHead ==
  ASSUME NEW v \in Seq(Nat), v # <<>>
  PROVE  FoldSeq(+, 0, v) = Head(v) + FoldSeq(+, 0, Tail(v))
<1>1. DOMAIN v = 1 .. Len(v) /\ Len(v) \in Nat \ {0}
  BY EmptySeq, LenProperties
<1>2. IsFiniteSet(1 .. Len(v))
  BY <1>1, FS_Interval
<1>3. /\ IsFiniteSet(1 .. Len(v)) /\ DOMAIN v = 1 .. Len(v)
      /\ Len(v) \in Nat \ {0} /\ \A i \in 1 .. Len(v) : v[i] \in Nat
  BY <1>1, <1>2, ElementOfSeq
<1>4. SumOver(v, 1 .. Len(v)) = v[1] + SumOver(v, (1 .. Len(v)) \ {1})
  BY <1>3, SumRemove
<1>5. (1 .. Len(v)) \ {1} = 2 .. Len(v)
  OBVIOUS
<1>6. DOMAIN Tail(v) = 1 .. Len(v) - 1 /\ Head(v) = v[1]
  BY HeadTailProperties, LenProperties
<1>7. FoldSeq(+, 0, Tail(v)) = SumOver(v, 2 .. Len(v))
  BY <1>6, SumShift, SumIsFoldSeq
<1>8. FoldSeq(+, 0, v) = SumOver(v, 1 .. Len(v))
  BY <1>3, SumIsFoldSeq
<1> QED
  BY <1>4, <1>5, <1>6, <1>7, <1>8
-----------------------------------------------------------------------------
(* FlattenSeq: g[i] is the concatenation of the first i members of s.      *)
IsFlat(s, n, g) ==
    g = [i \in 1 .. n |-> IF i = 1 THEN s[i] ELSE g[i - 1] \o s[i]]

(* The equation, at i.                                                     *)
LEMMA FlatAt ==
  ASSUME NEW s, NEW n \in Nat, NEW g, IsFlat(s, n, g), NEW i \in 1 .. n
  PROVE  g[i] = IF i = 1 THEN s[i] ELSE g[i - 1] \o s[i]
<1> DEFINE F(j) == IF j = 1 THEN s[j] ELSE g[j - 1] \o s[j]
<1>1. g = [j \in 1 .. n |-> F(j)]
  BY Zenon DEF IsFlat
<1>2. g[i] = F(i)
  <2> HIDE DEF F
  <2> QED
    BY <1>1
<1> QED
  BY <1>2

(* It has at most one solution,                                            *)
LEMMA FlatUnique ==
  ASSUME NEW s, NEW n \in Nat, NEW g, NEW h, IsFlat(s, n, g), IsFlat(s, n, h)
  PROVE  g = h
<1> DEFINE Bad == {i \in 1 .. n : g[i] # h[i]}
<1>1. CASE Bad = {}
  <2>1. g = [i \in 1 .. n |-> g[i]] /\ h = [i \in 1 .. n |-> h[i]]
    BY DEF IsFlat
  <2> QED
    BY <1>1, <2>1
<1>2. CASE Bad # {}
  <2>1. Bad \subseteq Nat
    OBVIOUS
  <2>2. PICK i \in Bad : \A j \in Bad : i <= j
    <3> HIDE DEF Bad
    <3> QED
      BY <1>2, <2>1, LeastNat
  <2>3. CASE i = 1
    BY <2>2, <2>3 DEF IsFlat
  <2>4. CASE i # 1
    <3>1. i - 1 \in 1 .. n /\ i - 1 \notin Bad
      BY <2>2, <2>4
    <3>2. g[i - 1] = h[i - 1]
      BY <3>1
    <3>3. g[i] = g[i - 1] \o s[i] /\ h[i] = h[i - 1] \o s[i]
      BY <2>2, <2>4, FlatAt
    <3> QED
      BY <2>2, <3>2, <3>3
  <2> QED
    BY <2>3, <2>4
<1> QED
  BY <1>1, <1>2

(* and it has one.                                                         *)
LEMMA FlatExists ==
  ASSUME NEW s, NEW n \in Nat
  PROVE  \E g : IsFlat(s, n, g)
<1> DEFINE Bad == {k \in Nat : ~ \E g : IsFlat(s, k, g)}
<1>1. SUFFICES ASSUME Bad # {}
               PROVE  FALSE
  OBVIOUS
<1>2. PICK k \in Bad : \A j \in Bad : k <= j
  <2>1. Bad \subseteq Nat
    OBVIOUS
  <2> HIDE DEF Bad
  <2> QED
    BY <1>1, <2>1, LeastNat
<1>3. k # 0
  <2> DEFINE e == [i \in 1 .. 0 |-> 0]
  <2>1. IsFlat(s, 0, e)
    BY DEF IsFlat
  <2> QED
    BY <2>1
<1>4. PICK h : IsFlat(s, k - 1, h)
  BY <1>2, <1>3
<1> DEFINE g == [i \in 1 .. k |-> IF i < k THEN h[i]
                                  ELSE IF i = 1 THEN s[i]
                                  ELSE h[i - 1] \o s[i]]
<1>5. ASSUME NEW i \in 1 .. k
      PROVE  g[i] = IF i = 1 THEN s[i] ELSE g[i - 1] \o s[i]
  <2>1. CASE i < k
    <3>1. h[i] = IF i = 1 THEN s[i] ELSE h[i - 1] \o s[i]
      BY <1>4, <2>1, FlatAt
    <3>2. g[i] = h[i] /\ (i # 1 => g[i - 1] = h[i - 1])
      BY <2>1
    <3> QED
      BY <3>1, <3>2
  <2>2. CASE i = k
    BY <2>2
  <2> QED
    BY <2>1, <2>2
<1>6. IsFlat(s, k, g)
  BY <1>5 DEF IsFlat
<1> QED
  BY <1>6, <1>2

(* Nothing to concatenate.                                                 *)
LEMMA FlattenEmpty == FlattenSeq(<<>>) = <<>>
  BY DEF FlattenSeq

(* FlattenSeq is the last value of the solution.                           *)
LEMMA FlattenIs ==
  ASSUME NEW S, NEW s \in Seq(S), s # <<>>
  PROVE  \E g : IsFlat(s, Len(s), g) /\ FlattenSeq(s) = g[Len(s)]
<1>1. Len(s) \in Nat \ {0}
  BY EmptySeq
<1>2. \E g : IsFlat(s, Len(s), g)
  BY <1>1, FlatExists
<1>3. FlattenSeq(s) = (CHOOSE g : IsFlat(s, Len(s), g))[Len(s)]
  BY <1>1 DEF FlattenSeq, IsFlat
<1> QED
  BY <1>2, <1>3

(* One more member adds its elements at the end.                           *)
LEMMA FlattenAppend ==
  ASSUME NEW S, NEW s \in Seq(Seq(S)), NEW x \in Seq(S)
  PROVE  FlattenSeq(Append(s, x)) = FlattenSeq(s) \o x
<1> DEFINE a == Append(s, x)
           m == Len(s)
<1>1. /\ a \in Seq(Seq(S)) /\ a # <<>> /\ Len(a) = m + 1 /\ m \in Nat
      /\ \A i \in 1 .. m : a[i] = s[i]
      /\ a[m + 1] = x
  BY AppendProperties, LenProperties
<1>2. PICK g : IsFlat(a, m + 1, g) /\ FlattenSeq(a) = g[m + 1]
  <2> HIDE DEF a
  <2> QED
    BY <1>1, FlattenIs
<1>3. CASE s = <<>>
  <2>1. m = 0
    BY <1>3
  <2>2. g[1] = x
    BY <1>1, <1>2, <2>1 DEF IsFlat
  <2> QED
    BY <1>2, <1>3, <2>1, <2>2, FlattenEmpty, ConcatEmptySeq
<1>4. CASE s # <<>>
  <2>1. m >= 1
    BY <1>4, EmptySeq
  <2>2. PICK h : IsFlat(s, m, h) /\ FlattenSeq(s) = h[m]
    BY <1>4, FlattenIs
  <2> DEFINE r == [i \in 1 .. m |-> g[i]]
  <2>3. ASSUME NEW i \in 1 .. m
        PROVE  r[i] = IF i = 1 THEN s[i] ELSE r[i - 1] \o s[i]
    <3>1. g[i] = IF i = 1 THEN a[i] ELSE g[i - 1] \o a[i]
      <4>1. m + 1 \in Nat /\ i \in 1 .. m + 1
        BY <1>1
      <4> HIDE DEF a, m
      <4> QED
        BY <1>2, <4>1, FlatAt
    <3>2. r[i] = g[i] /\ (i # 1 => r[i - 1] = g[i - 1]) /\ a[i] = s[i]
      BY <1>1
    <3> QED
      BY <3>1, <3>2
  <2>4. IsFlat(s, m, r)
    BY <2>3 DEF IsFlat
  <2>5. h = r
    <3> HIDE DEF r, m
    <3> QED
      BY <1>1, <2>2, <2>4, FlatUnique
  <2>6. g[m + 1] = g[m] \o x
    <3> DEFINE k == m + 1
    <3>1. k \in Nat /\ k \in 1 .. k /\ k # 1 /\ k - 1 = m
      BY <1>1, <2>1
    <3>2. IsFlat(a, k, g) /\ a[k] = x
      BY <1>1, <1>2
    <3>3. g[k] = g[m] \o x
      <4> HIDE DEF a, m, k
      <4>1. ASSUME NEW i \in 1 .. k
            PROVE  g[i] = IF i = 1 THEN a[i] ELSE g[i - 1] \o a[i]
        BY <3>1, <3>2, FlatAt
      <4>2. g[k] = IF k = 1 THEN a[k] ELSE g[k - 1] \o a[k]
        BY <3>1, <4>1, Zenon
      <4> QED
        BY <3>1, <3>2, <4>2
    <3> QED
      BY <3>3
  <2> QED
    BY <1>1, <1>2, <2>1, <2>2, <2>5, <2>6
<1> QED
  BY <1>3, <1>4
====

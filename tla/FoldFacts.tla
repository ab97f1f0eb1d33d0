----------------------------- MODULE FoldFacts -----------------------------
(***************************************************************************)
(* What a loop keeps, when it is written as a fold over a set (FoldSet) or *)
(* over a sequence (FoldLeft).  The body of the loop is the operator Op,   *)
(* with two parameters that stay the same, the element and the state; a    *)
(* module that has such a loop instantiates this one.                      *)
(***************************************************************************)
EXTENDS Integers, Sequences, FiniteSets, FiniteSetTheorems, WellFoundedInduction, TLAPS

CONSTANT Op(_, _, _, _)

\* FoldSet(LAMBDA x, s : Op(a, b, x, s), base, S)
SetFold(a, b, base, S) ==
    LET iter[T \in SUBSET S] ==
          IF T = {} THEN base
          ELSE LET x == CHOOSE y \in T : TRUE IN Op(a, b, x, iter[T \ {x}])
    IN  iter[S]

\* FoldLeft(LAMBDA s, x : Op(a, b, x, s), base, seq)
SeqFold(a, b, base, seq) ==
    LET iter[T \in SUBSET (DOMAIN seq)] ==
          IF T = {} THEN base
          ELSE LET i == CHOOSE j \in T : \A k \in T : j >= k
               IN  Op(a, b, seq[i], iter[T \ {i}])
    IN  iter[DOMAIN seq]

-----------------------------------------------------------------------------
(* Induction, over sets of numbers                                          *)

Less == {ss \in Nat \X Nat : ss[1] < ss[2]}

LEMMA LessWF == IsWellFoundedOn(Less, Nat)
  BY NatLessThanWellFounded DEF OpToRel, Less

\* A set of numbers that is not empty has a least.
LEMMA LeastOf ==
  ASSUME NEW S, S \subseteq Nat, S # {}
  PROVE  \E x \in S : \A y \in S : x <= y
  <1>1. PICK x \in S : \A y \in S : <<y, x>> \notin Less
    BY LessWF, WFMin, Zenon
  <1>2. \A y \in S : y \in Nat /\ x \in Nat /\ ~(y < x)
    BY <1>1 DEF Less
  <1> QED BY <1>2

\* A set of numbers that has 0, and with every number the next, has them all.
LEMMA SetInduction ==
  ASSUME NEW S, 0 \in S, \A n \in Nat : n \in S => n + 1 \in S
  PROVE  Nat \subseteq S
  <1> DEFINE T == Nat \ S
  <1>1. SUFFICES ASSUME T # {} PROVE FALSE
    OBVIOUS
  <1>2. PICK x \in T : \A y \in T : <<y, x>> \notin Less
    <2>1. T \subseteq Nat
      OBVIOUS
    <2> HIDE DEF T
    <2> QED BY <1>1, <2>1, LessWF, WFMin, Zenon
  <1>3. x # 0 /\ x \in Nat /\ x - 1 \in Nat
    OBVIOUS
  <1>4. x - 1 \in T
    BY <1>3
  <1>5. <<x - 1, x>> \in Less
    BY <1>3 DEF Less
  <1> QED BY <1>2, <1>4, <1>5

-----------------------------------------------------------------------------
(* The recursion exists                                                     *)

Onward(a, b, base, ch, e, g, T) ==
    IF T = {} THEN base ELSE Op(a, b, e[ch[T]], g[T \ {ch[T]}])

Solved(S, a, b, base, ch, e, n) ==
    \E g : \A T \in SUBSET S :
        Cardinality(T) <= n => g[T] = Onward(a, b, base, ch, e, g, T)

Defined(S, a, b, base, ch, e) ==
    \E g : g = [T \in SUBSET S |-> Onward(a, b, base, ch, e, g, T)]

\* For subsets of bounded size there is a function that satisfies the recursion.
LEMMA UpTo ==
  ASSUME NEW S, IsFiniteSet(S), NEW a, NEW b, NEW base, NEW ch, NEW e,
         \A T \in SUBSET S : T # {} => ch[T] \in T
  PROVE  \A n \in Nat : Solved(S, a, b, base, ch, e, n)
  <1> DEFINE Small(n) == {T \in SUBSET S : Cardinality(T) <= n}
             Good(g, n) == \A T \in Small(n) : g[T] = Onward(a, b, base, ch, e, g, T)
             N == {n \in Nat : \E g : Good(g, n)}
  <1>0. \A T \in SUBSET S : /\ IsFiniteSet(T) /\ Cardinality(T) \in Nat
                            /\ Cardinality(T) = 0 <=> T = {}
    BY FS_Subset, FS_CardinalityType, FS_EmptySet
  <1>1. 0 \in N
    <2> DEFINE g == [T \in SUBSET S |-> base]
    <2>1. \A T \in Small(0) : T = {}
      BY <1>0
    <2>2. Good(g, 0)
      BY <2>1 DEF Onward
    <2> QED BY <2>2
  <1>2. ASSUME NEW n \in Nat, n \in N PROVE n + 1 \in N
    <2>1. PICK g : Good(g, n)
      BY <1>2
    <2> DEFINE h == [T \in SUBSET S |-> Onward(a, b, base, ch, e, g, T)]
    <2>2. \A T \in Small(n) : h[T] = g[T]
      BY <2>1
    <2>3. ASSUME NEW T \in Small(n + 1), T # {} PROVE T \ {ch[T]} \in Small(n)
      <3>1. ch[T] \in T
        BY <2>3
      <3>2. Cardinality(T \ {ch[T]}) = Cardinality(T) - 1
        BY <1>0, <3>1, FS_RemoveElement
      <3> QED BY <1>0, <3>2
    <2>4. ASSUME NEW T \in Small(n + 1) PROVE h[T] = Onward(a, b, base, ch, e, h, T)
      <3>1. h[T] = Onward(a, b, base, ch, e, g, T)
        OBVIOUS
      <3>2. CASE T = {}
        BY <3>1, <3>2 DEF Onward
      <3>3. CASE T # {}
        <4>1. h[T \ {ch[T]}] = g[T \ {ch[T]}]
          BY <2>2, <2>3, <3>3
        <4> HIDE DEF h
        <4> QED BY <3>1, <3>3, <4>1 DEF Onward
      <3> QED BY <3>2, <3>3
    <2>5. Good(h, n + 1)
      BY <2>4
    <2> HIDE DEF h, Good
    <2> QED BY <2>5
  <1>3. Nat \subseteq N
    <2> HIDE DEF N
    <2> QED BY <1>1, <1>2, SetInduction
  <1> QED BY <1>3 DEF Solved

LEMMA Exists ==
  ASSUME NEW S, IsFiniteSet(S), NEW a, NEW b, NEW base, NEW ch, NEW e,
         \A T \in SUBSET S : T # {} => ch[T] \in T
  PROVE  Defined(S, a, b, base, ch, e)
  <1>1. \A T \in SUBSET S : Cardinality(T) <= Cardinality(S)
    BY FS_Subset
  <1>2. Cardinality(S) \in Nat
    BY FS_CardinalityType
  <1>3. PICK g : \A T \in SUBSET S : g[T] = Onward(a, b, base, ch, e, g, T)
    <2>1. Solved(S, a, b, base, ch, e, Cardinality(S))
      BY <1>2, UpTo
    <2> QED BY <1>1, <2>1 DEF Solved
  <1> DEFINE h == [T \in SUBSET S |-> g[T]]
  <1>4. \A T \in SUBSET S : Onward(a, b, base, ch, e, h, T) = Onward(a, b, base, ch, e, g, T)
    BY DEF Onward
  <1>5. h = [T \in SUBSET S |-> Onward(a, b, base, ch, e, h, T)]
    BY <1>3, <1>4
  <1> HIDE DEF h
  <1> QED BY <1>5 DEF Defined

-----------------------------------------------------------------------------
(* Loops over sets                                                          *)

\* What holds before the loop, and is kept for one more element by its body,
\* holds after it: I[T] are the states when the elements of T are done.
THEOREM SetFoldKeeps ==
  ASSUME NEW S, IsFiniteSet(S), NEW a, NEW b, NEW base, NEW I,
         base \in I[{}],
         \A T \in SUBSET S : \A x \in S \ T : \A s \in I[T] : Op(a, b, x, s) \in I[T \cup {x}]
  PROVE  SetFold(a, b, base, S) \in I[S]
  <1> DEFINE ch == [T \in SUBSET S |-> CHOOSE y \in T : TRUE]
             e == [x \in S |-> x]
             Rec(g) == g = [T \in SUBSET S |->
                              IF T = {} THEN base
                              ELSE Op(a, b, CHOOSE y \in T : TRUE,
                                      g[T \ {CHOOSE y \in T : TRUE}])]
             iter == CHOOSE g : Rec(g)
  <1>1. \A T \in SUBSET S : T # {} => ch[T] \in T
    OBVIOUS
  <1>2. PICK f : f = [T \in SUBSET S |-> Onward(a, b, base, ch, e, f, T)]
    <2> HIDE DEF ch, e
    <2>1. Defined(S, a, b, base, ch, e)
      BY <1>1, Exists
    <2> QED BY <2>1 DEF Defined
  <1>3. \A T \in SUBSET S : Onward(a, b, base, ch, e, f, T)
                              = IF T = {} THEN base
                                ELSE Op(a, b, CHOOSE y \in T : TRUE,
                                        f[T \ {CHOOSE y \in T : TRUE}])
    <2> SUFFICES ASSUME NEW T \in SUBSET S, T # {}
                 PROVE  /\ e[ch[T]] = CHOOSE y \in T : TRUE
                        /\ ch[T] = CHOOSE y \in T : TRUE
      <3> HIDE DEF ch, e
      <3> QED BY DEF Onward
    <2>1. ch[T] = CHOOSE y \in T : TRUE
      OBVIOUS
    <2>2. ch[T] \in S
      BY <1>1
    <2> HIDE DEF ch
    <2> QED BY <2>1, <2>2
  <1>4. Rec(f)
    BY <1>2, <1>3
  <1>5. Rec(iter)
    BY <1>4
  <1>6. SetFold(a, b, base, S) = iter[S]
    BY DEF SetFold
  <1> HIDE DEF iter
  <1>7. \A T \in SUBSET S :
          iter[T] = IF T = {} THEN base
                    ELSE Op(a, b, CHOOSE y \in T : TRUE, iter[T \ {CHOOSE y \in T : TRUE}])
    BY <1>5
  <1> DEFINE N == {n \in Nat : \A T \in SUBSET S : Cardinality(T) = n => iter[T] \in I[T]}
  <1>0. \A T \in SUBSET S : /\ IsFiniteSet(T) /\ Cardinality(T) \in Nat
                            /\ Cardinality(T) = 0 <=> T = {}
    BY FS_Subset, FS_CardinalityType, FS_EmptySet
  <1>8. 0 \in N
    BY <1>0, <1>7
  <1>9. ASSUME NEW n \in Nat, n \in N PROVE n + 1 \in N
    <2> SUFFICES ASSUME NEW T \in SUBSET S, Cardinality(T) = n + 1 PROVE iter[T] \in I[T]
      OBVIOUS
    <2>1. T # {}
      BY <1>0
    <2>2. PICK x \in T : iter[T] = Op(a, b, x, iter[T \ {x}])
      BY <1>7, <2>1
    <2>3. Cardinality(T \ {x}) = n
      BY <1>0, FS_RemoveElement
    <2>4. iter[T \ {x}] \in I[T \ {x}] /\ T = (T \ {x}) \cup {x}
      BY <1>9, <2>3
    <2>5. x \in S \ (T \ {x}) /\ T \ {x} \in SUBSET S
      OBVIOUS
    <2> QED BY <2>2, <2>4, <2>5, Zenon
  <1>10. Nat \subseteq N
    <2> HIDE DEF N
    <2> QED BY <1>8, <1>9, SetInduction
  <1> QED BY <1>0, <1>6, <1>10

\* The same for a property of states that does not speak of the elements done.
THEOREM SetFoldIn ==
  ASSUME NEW S, IsFiniteSet(S), NEW a, NEW b, NEW A, NEW base \in A,
         \A x \in S : \A s \in A : Op(a, b, x, s) \in A
  PROVE  SetFold(a, b, base, S) \in A
  <1> DEFINE I == [T \in SUBSET S |-> A]
  <1>1. \A T \in SUBSET S : I[T] = A
    OBVIOUS
  <1> HIDE DEF I
  <1>2. base \in I[{}]
    BY <1>1
  <1>3. \A T \in SUBSET S : \A x \in S \ T : \A s \in I[T] : Op(a, b, x, s) \in I[T \cup {x}]
    BY <1>1
  <1>4. SetFold(a, b, base, S) \in I[S]
    BY <1>2, <1>3, SetFoldKeeps
  <1> QED BY <1>1, <1>4

-----------------------------------------------------------------------------
(* Loops over sequences                                                     *)

\* What holds before the loop, and is kept for the next element by its body,
\* holds after it: I[k] are the states when the first k elements are done.
THEOREM SeqFoldKeeps ==
  ASSUME NEW n \in Nat, NEW seq, DOMAIN seq = 1 .. n,
         NEW a, NEW b, NEW base, NEW I, base \in I[0],
         \A k \in 1 .. n : \A s \in I[k - 1] : Op(a, b, seq[k], s) \in I[k]
  PROVE  SeqFold(a, b, base, seq) \in I[n]
  <1> DEFINE S == 1 .. n
             last(T) == CHOOSE j \in T : \A k \in T : j >= k
             ch == [T \in SUBSET S |-> IF \E j \in T : \A k \in T : j >= k THEN last(T)
                                       ELSE CHOOSE j \in T : TRUE]
             Rec(g) == g = [T \in SUBSET S |->
                              IF T = {} THEN base
                              ELSE Op(a, b, seq[last(T)], g[T \ {last(T)}])]
             iter == CHOOSE g : Rec(g)
  <1>0. IsFiniteSet(S)
    BY FS_Interval
  <1>a. \A T \in SUBSET S : T # {} => \E j \in T : \A k \in T : j >= k
    <2> SUFFICES ASSUME NEW T \in SUBSET S, T # {} PROVE \E j \in T : \A k \in T : j >= k
      OBVIOUS
    <2> DEFINE D == {n - j : j \in T}
    <2>0. \A j \in T : n - j \in Nat
      OBVIOUS
    <2>1. D \subseteq Nat /\ D # {}
      BY <2>0
    <2>2. PICK d \in D : \A k \in D : <<k, d>> \notin Less
      <3> HIDE DEF D
      <3> QED BY <2>1, LessWF, WFMin, Zenon
    <2>3. PICK j \in T : d = n - j
      OBVIOUS
    <2>4. \A k \in T : n - k \in D /\ ~(n - k < d)
      BY <2>1, <2>2 DEF Less
    <2> QED BY <2>3, <2>4
  <1>1. \A T \in SUBSET S : T # {} => ch[T] \in T /\ ch[T] = last(T)
    BY <1>a
  <1>2. PICK f : f = [T \in SUBSET S |-> Onward(a, b, base, ch, seq, f, T)]
    <2> HIDE DEF ch, S
    <2>1. Defined(S, a, b, base, ch, seq)
      BY <1>0, <1>1, Exists
    <2> QED BY <2>1 DEF Defined
  <1>3. \A T \in SUBSET S : Onward(a, b, base, ch, seq, f, T)
                              = IF T = {} THEN base
                                ELSE Op(a, b, seq[last(T)], f[T \ {last(T)}])
    <2> HIDE DEF ch
    <2> QED BY <1>1 DEF Onward
  <1>4. Rec(f)
    BY <1>2, <1>3
  <1>5. Rec(iter)
    BY <1>4
  <1>6. SeqFold(a, b, base, seq) = iter[S]
    BY DEF SeqFold
  <1> HIDE DEF iter
  <1>7. \A T \in SUBSET S :
          iter[T] = IF T = {} THEN base ELSE Op(a, b, seq[last(T)], iter[T \ {last(T)}])
    BY <1>5
  <1> DEFINE N == {k \in Nat : k <= n => iter[1 .. k] \in I[k]}
  <1>8. 0 \in N
    <2>1. 1 .. 0 = {}
      OBVIOUS
    <2> QED BY <1>7, <2>1
  <1>9. ASSUME NEW k \in Nat, k \in N PROVE k + 1 \in N
    <2> SUFFICES ASSUME k + 1 <= n PROVE iter[1 .. k + 1] \in I[k + 1]
      OBVIOUS
    <2>1. 1 .. k + 1 \in SUBSET S /\ 1 .. k + 1 # {}
      OBVIOUS
    <2>2. last(1 .. k + 1) = k + 1
      <3>1. last(1 .. k + 1) \in 1 .. k + 1 /\ \A i \in 1 .. k + 1 : last(1 .. k + 1) >= i
        BY <1>a, <2>1
      <3> HIDE DEF last
      <3> QED BY <3>1
    <2>3. (1 .. k + 1) \ {k + 1} = 1 .. k
      OBVIOUS
    <2>4. iter[1 .. k + 1] = Op(a, b, seq[k + 1], iter[1 .. k])
      <3> HIDE DEF last, S
      <3> QED BY <1>7, <2>1, <2>2, <2>3
    <2>5. iter[1 .. k] \in I[k]
      BY <1>9
    <2>6. k + 1 \in 1 .. n /\ (k + 1) - 1 = k
      OBVIOUS
    <2> QED BY <2>4, <2>5, <2>6
  <1>10. Nat \subseteq N
    <2> HIDE DEF N
    <2> QED BY <1>8, <1>9, SetInduction
  <1>11. iter[1 .. n] \in I[n]
    BY <1>10
  <1> QED BY <1>6, <1>11

\* The same for a property of states that does not speak of the elements done.
THEOREM SeqFoldIn ==
  ASSUME NEW X, NEW seq \in Seq(X), NEW a, NEW b, NEW A, NEW base \in A,
         \A x \in X : \A s \in A : Op(a, b, x, s) \in A
  PROVE  SeqFold(a, b, base, seq) \in A
  <1> DEFINE n == Len(seq)
             I == [k \in 0 .. n |-> A]
  <1>0. n \in Nat /\ DOMAIN seq = 1 .. n
    OBVIOUS
  <1>1. \A k \in 0 .. n : I[k] = A
    OBVIOUS
  <1>2. 0 \in 0 .. n /\ \A k \in 1 .. n : k \in 0 .. n /\ k - 1 \in 0 .. n
    BY <1>0
  <1>3. \A k \in 1 .. n : seq[k] \in X
    OBVIOUS
  <1> HIDE DEF I, n
  <1>4. base \in I[0] /\ n \in 0 .. n
    BY <1>0, <1>1, <1>2
  <1>5. \A k \in 1 .. n : \A s \in I[k - 1] : Op(a, b, seq[k], s) \in I[k]
    BY <1>1, <1>2, <1>3
  <1>6. SeqFold(a, b, base, seq) \in I[n]
    BY <1>0, <1>4, <1>5, SeqFoldKeeps
  <1> QED BY <1>1, <1>4, <1>6

\* A loop over one element, and over two.
LEMMA SeqFoldOne ==
  ASSUME NEW a, NEW b, NEW base, NEW x
  PROVE  SeqFold(a, b, base, <<x>>) = Op(a, b, x, base)
  <1> DEFINE I == [k \in 0 .. 1 |-> IF k = 0 THEN {base} ELSE {Op(a, b, x, base)}]
             seq == <<x>>
  <1>1. DOMAIN seq = 1 .. 1 /\ seq[1] = x
    OBVIOUS
  <1>2. I[0] = {base} /\ I[1] = {Op(a, b, x, base)}
    OBVIOUS
  <1> HIDE DEF I, seq
  <1>3. \A k \in 1 .. 1 : \A s \in I[k - 1] : Op(a, b, seq[k], s) \in I[k]
    BY <1>1, <1>2
  <1>4. base \in I[0]
    BY <1>2
  <1>5. SeqFold(a, b, base, seq) \in I[1]
    BY <1>1, <1>3, <1>4, SeqFoldKeeps
  <1> QED BY <1>2, <1>5 DEF seq

LEMMA SeqFoldTwo ==
  ASSUME NEW a, NEW b, NEW base, NEW x, NEW y
  PROVE  SeqFold(a, b, base, <<x, y>>) = Op(a, b, y, Op(a, b, x, base))
  <1> DEFINE I == [k \in 0 .. 2 |-> IF k = 0 THEN {base}
                                    ELSE IF k = 1 THEN {Op(a, b, x, base)}
                                    ELSE {Op(a, b, y, Op(a, b, x, base))}]
             seq == <<x, y>>
  <1>1. DOMAIN seq = 1 .. 2 /\ seq[1] = x /\ seq[2] = y
    OBVIOUS
  <1>2. /\ I[0] = {base} /\ I[1] = {Op(a, b, x, base)}
        /\ I[2] = {Op(a, b, y, Op(a, b, x, base))}
    OBVIOUS
  <1> HIDE DEF I, seq
  <1>3. \A k \in 1 .. 2 : \A s \in I[k - 1] : Op(a, b, seq[k], s) \in I[k]
    <2> SUFFICES ASSUME NEW k \in 1 .. 2, NEW s \in I[k - 1] PROVE Op(a, b, seq[k], s) \in I[k]
      OBVIOUS
    <2>1. CASE k = 1
      BY <1>1, <1>2, <2>1
    <2>2. CASE k = 2
      BY <1>1, <1>2, <2>2
    <2> QED BY <2>1, <2>2
  <1>4. base \in I[0]
    BY <1>2
  <1>5. SeqFold(a, b, base, seq) \in I[2]
    BY <1>1, <1>3, <1>4, SeqFoldKeeps
  <1> QED BY <1>2, <1>5 DEF seq
=============================================================================

---------------------------- MODULE LoopTheorems ----------------------------
(***************************************************************************)
(* What the proofs about the loops and the sums of the code rest on.  A    *)
(* loop over N entries is a recursive function on 0..N whose value at i is *)
(* what the loop has made of its variable after i iterations.  A sum over  *)
(* a finite set is the fold of module Functions.                           *)
(***************************************************************************)
EXTENDS Integers, Sequences, FiniteSets, Functions, TLAPS, WellFoundedInduction, FiniteSetTheorems

(* Every non-empty set of natural numbers has a least element. *)
LEMMA LeastNumber == \A T \in SUBSET Nat : T # {} => \E m \in T : \A n \in T : m <= n
<1> SUFFICES ASSUME NEW T \in SUBSET Nat, T # {}
             PROVE  \E m \in T : \A n \in T : m <= n
  OBVIOUS
<1>1. PICK m \in T : \A n \in T : ~(<<n, m>> \in OpToRel(<, Nat))
  BY NatLessThanWellFounded, WFMin
<1>2. \A n \in T : ~(n < m)
  BY <1>1 DEF OpToRel
<1> QED BY <1>2

(* A set of numbers up to N that has 0 and with each number the next has all of them. *)
LEMMA UpTo ==
  ASSUME NEW N \in Nat, NEW S, 0 \in S, \A n \in 1..N : n - 1 \in S => n \in S
  PROVE  0..N \subseteq S
<1> DEFINE T == (0..N) \ S
<1>1. SUFFICES ASSUME T # {} PROVE FALSE
  OBVIOUS
<1>2. PICK m \in T : \A n \in T : m <= n
  <2> T \in SUBSET Nat
    OBVIOUS
  <2> HIDE DEF T
  <2> QED BY <1>1, LeastNumber
<1>3. m \in 1..N /\ m - 1 \in 0..N
  BY <1>2
<1>4. m - 1 \in S
  BY <1>2, <1>3
<1> QED BY <1>2, <1>3, <1>4

(* What holds before a loop and is kept by every iteration holds after it. *)
LEMMA LoopKeeps ==
  ASSUME NEW N \in Nat, NEW g, NEW J, g[0] \in J,
         \A i \in 1..N : g[i - 1] \in J => g[i] \in J
  PROVE  \A i \in 0..N : g[i] \in J
<1> DEFINE S == {i \in 0..N : g[i] \in J}
<1>1. 0 \in S
  OBVIOUS
<1>2. \A n \in 1..N : n - 1 \in S => n \in S
  OBVIOUS
<1>3. 0..N \subseteq S
  <2> HIDE DEF S
  <2> QED BY <1>1, <1>2, UpTo
<1> QED BY <1>3

(* g is a run of the first n iterations, which are the steps from init. *)
Run(g, n, X, init, step) ==
  /\ g \in [0..n -> X] /\ g[0] = init
  /\ \A i \in 1..n : g[i] = step[i][g[i - 1]]

(* A loop whose iterations go from X to X runs to its end. *)
LEMMA LoopRuns ==
  ASSUME NEW N \in Nat, NEW X, NEW init \in X, NEW step \in [1..N -> [X -> X]]
  PROVE  \E g : Run(g, N, X, init, step)
<1> DEFINE Ran(n, f) == Run(f, n, X, init, step)
           S == {n \in 0..N : \E f : Ran(n, f)}
<1>1. 0 \in S
  <2> DEFINE f == [i \in 0..0 |-> init]
  <2>1. Ran(0, f)
    BY DEF Run
  <2>2. \E k : Ran(0, k)
    <3> HIDE DEF f, Ran
    <3> QED BY <2>1
  <2> HIDE DEF Ran
  <2> QED BY <2>2
<1>2. ASSUME NEW n \in 1..N, n - 1 \in S
      PROVE  n \in S
  <2>1. PICK f : Ran(n - 1, f)
    BY <1>2
  <2> USE DEF Run
  <2> DEFINE h == [i \in 0..n |-> IF i = n THEN step[n][f[n - 1]] ELSE f[i]]
  <2>2. step[n][f[n - 1]] \in X
    BY <2>1
  <2>3. h \in [0..n -> X] /\ h[0] = init
    BY <2>1, <2>2
  <2>4. ASSUME NEW i \in 1..n
        PROVE  h[i] = step[i][h[i - 1]]
    <3>1. h[i - 1] = f[i - 1]
      OBVIOUS
    <3>2. CASE i = n
      BY <3>1, <3>2
    <3>3. CASE i # n
      BY <3>1, <3>3, <2>1
    <3> QED BY <3>2, <3>3
  <2>5. Ran(n, h)
    BY <2>3, <2>4
  <2>6. \E k : Ran(n, k)
    <3> HIDE DEF h, Ran
    <3> QED BY <2>5
  <2> HIDE DEF Ran
  <2> QED BY <2>6
<1>3. N \in S
  <2> HIDE DEF S
  <2>1. 0..N \subseteq S
    BY <1>1, <1>2, UpTo
  <2> QED BY <2>1
<1> QED BY <1>3

-----------------------------------------------------------------------------
(***************************************************************************)
(* Sums.                                                                   *)
(***************************************************************************)
(* Every non-empty set of subsets of a finite set has one that contains no other. *)
LEMMA LeastSet ==
  ASSUME NEW S, IsFiniteSet(S), NEW G \in SUBSET (SUBSET S), G # {}
  PROVE  \E T \in G : \A U \in G : U \subseteq T => U = T
<1>1. IsWellFoundedOn(StrictSubsetOrdering(S), SUBSET S)
  BY FS_StrictSubsetOrderingWellFounded, FS_FiniteSubsetsOfFinite
<1>2. PICK T \in G : \A U \in G : ~(<<U, T>> \in StrictSubsetOrdering(S))
  BY <1>1, WFMin
<1> QED BY <1>2 DEF StrictSubsetOrdering

(* g tells the sum of f over each subset of S, as the fold takes it. *)
Choice(s) == CHOOSE x \in s : TRUE
Tally(g, f, S) ==
  g = [s \in SUBSET S |-> IF s = {} THEN 0 ELSE f[Choice(s)] + g[s \ {Choice(s)}]]

(* That is how the sum is defined. *)
LEMMA SumIsTally ==
  ASSUME NEW f, NEW S
  PROVE  SumFunctionOnSet(f, S) = (CHOOSE g : Tally(g, f, S))[S]
BY DEF SumFunctionOnSet, FoldFunctionOnSet, MapThenFoldSet, Tally, Choice

(* There is at most one. *)
LEMMA TallyUnique ==
  ASSUME NEW f, NEW S, IsFiniteSet(S), NEW g, NEW h, Tally(g, f, S), Tally(h, f, S)
  PROVE  g = h
<1> DEFINE G == {s \in SUBSET S : g[s] # h[s]}
<1>1. G = {}
  <2> SUFFICES ASSUME G # {} PROVE FALSE
    OBVIOUS
  <2>1. PICK T \in G : \A U \in G : U \subseteq T => U = T
    <3> G \in SUBSET (SUBSET S)
      OBVIOUS
    <3> HIDE DEF G
    <3> QED BY LeastSet
  <2>2. T # {}
    BY <2>1 DEF Tally
  <2>3. Choice(T) \in T
    BY <2>2 DEF Choice
  <2>4. g[T \ {Choice(T)}] = h[T \ {Choice(T)}]
    BY <2>1, <2>3
  <2> QED BY <2>1, <2>2, <2>4 DEF Tally
<1>2. \A s \in SUBSET S : g[s] = h[s]
  BY <1>1
<1>3. DOMAIN g = SUBSET S /\ DOMAIN h = SUBSET S /\ g = [s \in SUBSET S |-> g[s]] /\ h = [s \in SUBSET S |-> h[s]]
  BY DEF Tally
<1> QED BY <1>2, <1>3

(* That of a set contains those of its subsets. *)
LEMMA TallyPart ==
  ASSUME NEW f, NEW S, NEW g, Tally(g, f, S), NEW T \in SUBSET S
  PROVE  Tally([s \in SUBSET T |-> g[s]], f, T)
<1> DEFINE h == [s \in SUBSET T |-> g[s]]
<1>1. ASSUME NEW s \in SUBSET T
      PROVE  h[s] = IF s = {} THEN 0 ELSE f[Choice(s)] + h[s \ {Choice(s)}]
  <2>1. h[s] = g[s] /\ h[s \ {Choice(s)}] = g[s \ {Choice(s)}]
    OBVIOUS
  <2>2. s \in SUBSET S
    OBVIOUS
  <2>3. g[s] = IF s = {} THEN 0 ELSE f[Choice(s)] + g[s \ {Choice(s)}]
    BY <2>2 DEF Tally
  <2> HIDE DEF h
  <2> QED BY <2>1, <2>3
<1>2. h = [s \in SUBSET T |-> h[s]]
  OBVIOUS
<1> HIDE DEF h
<1>3. Tally(h, f, T)
  BY <1>1, <1>2 DEF Tally
<1> QED BY <1>3 DEF h

(* So the sum over a subset can be read off the one of the set. *)
LEMMA TallyReads ==
  ASSUME NEW f, NEW S, IsFiniteSet(S), NEW g, Tally(g, f, S), NEW T \in SUBSET S
  PROVE  g[T] = SumFunctionOnSet(f, T)
<1> DEFINE h == [s \in SUBSET T |-> g[s]]
           k == CHOOSE x : Tally(x, f, T)
<1>1. Tally(h, f, T)
  BY TallyPart
<1>2. h[T] = g[T]
  OBVIOUS
<1> HIDE DEF h
<1>3. Tally(k, f, T)
  BY <1>1
<1>4. IsFiniteSet(T)
  BY FS_Subset
<1> HIDE DEF k
<1>5. h = k
  BY <1>1, <1>3, <1>4, TallyUnique
<1> QED BY <1>2, <1>5, SumIsTally DEF k

(* There is one. *)
LEMMA TallyExists ==
  ASSUME NEW f, NEW S, IsFiniteSet(S)
  PROVE  \E g : Tally(g, f, S)
<1> DEFINE G == {s \in SUBSET S : ~\E g : Tally(g, f, s)}
           Total(s) == SumFunctionOnSet(f, s)
<1> SUFFICES ASSUME G # {} PROVE FALSE
  OBVIOUS
<1>1. PICK T \in G : \A U \in G : U \subseteq T => U = T
  <2> G \in SUBSET (SUBSET S)
    OBVIOUS
  <2> HIDE DEF G
  <2> QED BY LeastSet
<1> DEFINE h == [s \in SUBSET T |-> IF s # T THEN Total(s)
                                    ELSE IF s = {} THEN 0 ELSE f[Choice(s)] + Total(s \ {Choice(s)})]
<1>2. ASSUME NEW s \in SUBSET T, s # T
      PROVE  Total(s) = IF s = {} THEN 0 ELSE f[Choice(s)] + Total(s \ {Choice(s)})
  <2>1. PICK g : Tally(g, f, s)
    BY <1>1, <1>2
  <2>2. IsFiniteSet(s)
    BY FS_Subset
  <2>3. s \ {Choice(s)} \in SUBSET s /\ s \in SUBSET s
    OBVIOUS
  <2>4. g[s] = Total(s) /\ g[s \ {Choice(s)}] = Total(s \ {Choice(s)})
    BY <2>1, <2>2, <2>3, TallyReads
  <2>5. g[s] = IF s = {} THEN 0 ELSE f[Choice(s)] + g[s \ {Choice(s)}]
    BY <2>1, <2>3 DEF Tally
  <2> HIDE DEF Total
  <2> QED BY <2>4, <2>5
<1> HIDE DEF Total
<1>3. ASSUME NEW s \in SUBSET T
      PROVE  h[s] = IF s = {} THEN 0 ELSE f[Choice(s)] + h[s \ {Choice(s)}]
  <2>1. CASE s = {}
    BY <1>2, <2>1
  <2>2. CASE s # {}
    <3>1. Choice(s) \in s
      BY <2>2 DEF Choice
    <3>2. s \ {Choice(s)} # T /\ s \ {Choice(s)} \in SUBSET T
      BY <3>1
    <3>3. h[s \ {Choice(s)}] = Total(s \ {Choice(s)})
      BY <3>2
    <3>4. h[s] = f[Choice(s)] + Total(s \ {Choice(s)})
      BY <1>2, <2>2
    <3> HIDE DEF h
    <3> QED BY <2>2, <3>3, <3>4
  <2> HIDE DEF h
  <2> QED BY <2>1, <2>2
<1>4. h = [s \in SUBSET T |-> h[s]]
  OBVIOUS
<1> HIDE DEF h
<1>5. Tally(h, f, T)
  BY <1>3, <1>4 DEF Tally
<1> QED BY <1>1, <1>5

(* The sum takes one element after the other. *)
LEMMA SumStep ==
  ASSUME NEW f, NEW S, IsFiniteSet(S)
  PROVE  SumFunctionOnSet(f, S) =
           IF S = {} THEN 0 ELSE f[Choice(S)] + SumFunctionOnSet(f, S \ {Choice(S)})
<1>1. PICK g : Tally(g, f, S)
  BY TallyExists
<1>2. S \in SUBSET S /\ S \ {Choice(S)} \in SUBSET S
  OBVIOUS
<1>3. g[S] = SumFunctionOnSet(f, S) /\ g[S \ {Choice(S)}] = SumFunctionOnSet(f, S \ {Choice(S)})
  BY <1>1, <1>2, TallyReads
<1>4. g[S] = IF S = {} THEN 0 ELSE f[Choice(S)] + g[S \ {Choice(S)}]
  BY <1>1, <1>2 DEF Tally
<1> QED BY <1>3, <1>4

(* A sum of natural numbers is one. *)
LEMMA SumNat ==
  ASSUME NEW S, IsFiniteSet(S), NEW f \in [S -> Nat]
  PROVE  \A T \in SUBSET S : SumFunctionOnSet(f, T) \in Nat
<1> DEFINE G == {s \in SUBSET S : SumFunctionOnSet(f, s) \notin Nat}
<1> SUFFICES ASSUME G # {} PROVE FALSE
  OBVIOUS
<1>1. PICK T \in G : \A U \in G : U \subseteq T => U = T
  <2> G \in SUBSET (SUBSET S)
    OBVIOUS
  <2> HIDE DEF G
  <2> QED BY LeastSet
<1>2. IsFiniteSet(T)
  BY FS_Subset
<1>3. T # {}
  <2> SUFFICES ASSUME T = {} PROVE FALSE
    OBVIOUS
  <2>1. SumFunctionOnSet(f, T) = 0
    BY <1>2, SumStep
  <2>2. SumFunctionOnSet(f, T) \in Nat
    BY <2>1
  <2> QED BY <1>1, <2>2
<1>4. Choice(T) \in T
  BY <1>3 DEF Choice
<1>5. SumFunctionOnSet(f, T \ {Choice(T)}) \in Nat
  BY <1>1, <1>4
<1>6. f[Choice(T)] \in Nat
  BY <1>1, <1>4
<1>7. SumFunctionOnSet(f, T) = f[Choice(T)] + SumFunctionOnSet(f, T \ {Choice(T)})
  BY <1>2, <1>3, SumStep
<1>8. SumFunctionOnSet(f, T) \in Nat
  BY <1>5, <1>6, <1>7
<1> QED BY <1>1, <1>8

(* Any element can be taken out. *)
LEMMA SumTake ==
  ASSUME NEW S, IsFiniteSet(S), NEW f \in [S -> Nat], NEW T \in SUBSET S, NEW x \in T
  PROVE  SumFunctionOnSet(f, T) = f[x] + SumFunctionOnSet(f, T \ {x})
<1> DEFINE Total(s) == SumFunctionOnSet(f, s)
           G == {s \in SUBSET S : \E y \in s : Total(s) # f[y] + Total(s \ {y})}
<1> SUFFICES ASSUME G # {} PROVE FALSE
  OBVIOUS
<1>1. PICK U \in G : \A V \in G : V \subseteq U => V = U
  <2> G \in SUBSET (SUBSET S)
    OBVIOUS
  <2> HIDE DEF G
  <2> QED BY LeastSet
<1>2. PICK y \in U : Total(U) # f[y] + Total(U \ {y})
  BY <1>1
<1> DEFINE c == Choice(U)
<1>3. c \in U
  BY <1>2 DEF Choice
<1>4. IsFiniteSet(U)
  BY FS_Subset
<1>5. Total(U) = f[c] + Total(U \ {c})
  BY <1>2, <1>4, SumStep
<1>6. y # c
  BY <1>2, <1>5
<1> HIDE DEF c
<1>7. \A V \in SUBSET U : V # U => \A z \in V : Total(V) = f[z] + Total(V \ {z})
  BY <1>1
<1>8. Total(U \ {c}) = f[y] + Total((U \ {c}) \ {y})
  <2> U \ {c} \in SUBSET U /\ U \ {c} # U /\ y \in U \ {c}
    BY <1>2, <1>3, <1>6
  <2> HIDE DEF Total
  <2> QED BY <1>7
<1>9. Total(U \ {y}) = f[c] + Total((U \ {y}) \ {c})
  <2> U \ {y} \in SUBSET U /\ U \ {y} # U /\ c \in U \ {y}
    BY <1>2, <1>3, <1>6
  <2> HIDE DEF Total
  <2> QED BY <1>7
<1>10. (U \ {c}) \ {y} = (U \ {y}) \ {c}
  OBVIOUS
<1>11. Total((U \ {y}) \ {c}) \in Nat
  BY SumNat
<1>12. f[y] \in Nat /\ f[c] \in Nat
  BY <1>2, <1>3
<1> HIDE DEF Total
<1>13. Total((U \ {c}) \ {y}) = Total((U \ {y}) \ {c})
  BY <1>10
<1> QED BY <1>2, <1>5, <1>8, <1>9, <1>11, <1>12, <1>13

(* Of some addends of f, those outside C are addends of p in U. *)
LEMMA SumCovered ==
  ASSUME NEW S, IsFiniteSet(S), NEW f \in [S -> Nat], NEW p \in [S -> Nat]
  PROVE  \A A, C, U \in SUBSET S :
           (\A x \in A : x \in C \/ (x \in U /\ p[x] = f[x]))
             => SumFunctionOnSet(f, A) <= SumFunctionOnSet(p, U) + SumFunctionOnSet(f, C)
<1> DEFINE F(s) == SumFunctionOnSet(f, s)
           P(s) == SumFunctionOnSet(p, s)
           Cover(A, C, U) == \A x \in A : x \in C \/ (x \in U /\ p[x] = f[x])
           G == {A \in SUBSET S : \E C, U \in SUBSET S : Cover(A, C, U) /\ ~(F(A) <= P(U) + F(C))}
<1> SUFFICES ASSUME G # {} PROVE FALSE
  OBVIOUS
<1>1. PICK A \in G : \A B \in G : B \subseteq A => B = A
  <2> G \in SUBSET (SUBSET S)
    OBVIOUS
  <2> HIDE DEF G
  <2> QED BY LeastSet
<1>2. PICK C \in SUBSET S, U \in SUBSET S : Cover(A, C, U) /\ ~(F(A) <= P(U) + F(C))
  BY <1>1
<1>3. \A s \in SUBSET S : F(s) \in Nat /\ P(s) \in Nat
  BY SumNat
<1>4. \A s \in SUBSET S : \A x \in s : F(s) = f[x] + F(s \ {x}) /\ P(s) = p[x] + P(s \ {x})
  <2> SUFFICES ASSUME NEW s \in SUBSET S, NEW x \in s
               PROVE  F(s) = f[x] + F(s \ {x}) /\ P(s) = p[x] + P(s \ {x})
    OBVIOUS
  <2>1. F(s) = f[x] + F(s \ {x})
    BY SumTake
  <2>2. P(s) = p[x] + P(s \ {x})
    BY SumTake
  <2> QED BY <2>1, <2>2
<1>5. A # {}
  <2> SUFFICES ASSUME A = {} PROVE FALSE
    OBVIOUS
  <2>1. F(A) = 0
    BY SumStep, FS_EmptySet
  <2> HIDE DEF F, P
  <2>2. F(C) \in Nat /\ P(U) \in Nat
    BY <1>3
  <2> QED BY <1>2, <2>1, <2>2
<1>6. PICK a \in A : TRUE
  BY <1>5
<1>7. a \in S /\ f[a] \in Nat /\ p[a] \in Nat
  BY <1>1, <1>6
<1>8. \A D, V \in SUBSET S : Cover(A \ {a}, D, V) => F(A \ {a}) <= P(V) + F(D)
  <2> A \ {a} \notin G /\ A \ {a} \in SUBSET S
    BY <1>1, <1>6
  <2> HIDE DEF F, P, Cover
  <2> QED OBVIOUS
<1>9. CASE a \in C
  <2>1. Cover(A \ {a}, C \ {a}, U) /\ C \ {a} \in SUBSET S
    BY <1>2
  <2>2. F(A \ {a}) <= P(U) + F(C \ {a})
    <3> HIDE DEF F, P, Cover
    <3> QED BY <1>8, <2>1
  <2> HIDE DEF F, P, Cover
  <2>3. F(A) = f[a] + F(A \ {a}) /\ F(C) = f[a] + F(C \ {a})
    BY <1>1, <1>4, <1>6, <1>9
  <2>4. F(A \ {a}) \in Nat /\ F(C \ {a}) \in Nat /\ P(U) \in Nat
    BY <1>3
  <2> QED BY <1>2, <1>7, <2>2, <2>3, <2>4
<1>10. CASE a \notin C
  <2>1. a \in U /\ p[a] = f[a]
    BY <1>2, <1>6, <1>10
  <2>2. Cover(A \ {a}, C, U \ {a}) /\ U \ {a} \in SUBSET S
    BY <1>2
  <2>3. F(A \ {a}) <= P(U \ {a}) + F(C)
    <3> HIDE DEF F, P, Cover
    <3> QED BY <1>8, <2>2
  <2> HIDE DEF F, P, Cover
  <2>4. F(A) = f[a] + F(A \ {a}) /\ P(U) = p[a] + P(U \ {a})
    BY <1>1, <1>4, <1>6, <2>1
  <2>5. F(A \ {a}) \in Nat /\ F(C) \in Nat /\ P(U \ {a}) \in Nat
    BY <1>3
  <2> QED BY <1>2, <1>7, <2>1, <2>3, <2>4, <2>5
<1> QED BY <1>9, <1>10

(* A part of the addends is not more than all of them. *)
LEMMA SumPart ==
  ASSUME NEW S, IsFiniteSet(S), NEW f \in [S -> Nat], NEW B \in SUBSET S, NEW A \in SUBSET B
  PROVE  SumFunctionOnSet(f, A) <= SumFunctionOnSet(f, B)
<1>1. SumFunctionOnSet(f, A) <= SumFunctionOnSet(f, {}) + SumFunctionOnSet(f, B)
  BY SumCovered
<1>2. SumFunctionOnSet(f, {}) = 0
  BY SumStep, FS_EmptySet
<1>3. SumFunctionOnSet(f, A) \in Nat /\ SumFunctionOnSet(f, B) \in Nat
  BY SumNat
<1> QED BY <1>1, <1>2, <1>3

(* One more addend adds at most its value. *)
LEMMA SumMore ==
  ASSUME NEW S, IsFiniteSet(S), NEW f \in [S -> Nat], NEW A \in SUBSET S, NEW x \in S
  PROVE  SumFunctionOnSet(f, A \cup {x}) <= SumFunctionOnSet(f, A) + f[x]
<1>1. SumFunctionOnSet(f, A \cup {x}) = f[x] + SumFunctionOnSet(f, (A \cup {x}) \ {x})
  BY SumTake
<1>2. SumFunctionOnSet(f, (A \cup {x}) \ {x}) <= SumFunctionOnSet(f, A)
  BY SumPart
<1>3. SumFunctionOnSet(f, (A \cup {x}) \ {x}) \in Nat /\ SumFunctionOnSet(f, A) \in Nat /\ f[x] \in Nat
  BY SumNat
<1> QED BY <1>1, <1>2, <1>3
=============================================================================

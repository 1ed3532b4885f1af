------------------------ MODULE ConditionListProofs ------------------------
(***************************************************************************)
(* Proofs about the list of conditions of a job: what the loop of          *)
(* filterOutCondition collects from any list, and from it that the list    *)
(* stays consistent, implements the view of module JobConditions and never *)
(* sends a job back to the coordinator, for every sequence of updates.     *)
(***************************************************************************)
EXTENDS ConditionList, LoopTheorems

-----------------------------------------------------------------------------
(***************************************************************************)
(* The loop of filterOutCondition.                                         *)
(***************************************************************************)
(* What the loop does with the i-th entry of the list. *)
Iteration(list, conds, t, i) ==
  IF Kept(conds[i], t) THEN Append(list, Stopped(conds[i], t)) ELSE list

(* g tells what the loop has collected after each iteration. *)
Loop(g, conds, t) ==
  g = [i \in 0..Len(conds) |->
         IF i = 0 THEN << >>
         ELSE IF Kept(conds[i], t) THEN Append(g[i - 1], Stopped(conds[i], t))
         ELSE g[i - 1]]

(* A condition has a type, and setting another one may only change its status. *)
LEMMA ConditionFacts ==
  ASSUME NEW c \in Condition, NEW t
  PROVE  /\ c.type \in ConditionType /\ c.reason \in ReasonsOf(c.type)
         /\ c.status \in {"true", "false"}
         /\ Stopped(c, t) \in Condition
         /\ Stopped(c, t).type = c.type
         /\ ~(t \in {"Failed", "Succeeded"} /\ c.type = "Running") => Stopped(c, t) = c
         /\ t \in {"Failed", "Succeeded"} /\ c.type = "Running" => Stopped(c, t).status = "false"
<1>1. PICK u \in ConditionType : c \in [type : {u}, status : {"true", "false"}, reason : ReasonsOf(u)]
  BY DEF Condition
<1>2. [c EXCEPT !.status = "false"] \in [type : {u}, status : {"true", "false"}, reason : ReasonsOf(u)]
  BY <1>1
<1>3. [c EXCEPT !.status = "false"] \in Condition
  BY <1>2 DEF Condition
<1> QED BY <1>1, <1>2, <1>3 DEF Stopped

(* The loop runs to its end on every list: there is one g. *)
LEMMA FilterRuns ==
  ASSUME NEW conds \in Seq(Condition), NEW t
  PROVE  \E g : Loop(g, conds, t)
<1> DEFINE N == Len(conds)
           X == Seq(Condition)
           step == [i \in 1..N |-> [list \in X |-> Iteration(list, conds, t, i)]]
<1>1. N \in Nat /\ << >> \in X
  OBVIOUS
<1>2. ASSUME NEW i \in 1..N, NEW list \in X
      PROVE  Iteration(list, conds, t, i) \in X
  <2>1. conds[i] \in Condition
    OBVIOUS
  <2>2. Stopped(conds[i], t) \in Condition
    BY <2>1, ConditionFacts
  <2> QED BY <2>2 DEF Iteration
<1> HIDE DEF N, X
<1>3. step \in [1..N -> [X -> X]]
  BY <1>2
<1>4. PICK g : Run(g, N, X, << >>, step)
  <2> HIDE DEF step
  <2>1. \A x \in X : \E g : Run(g, N, X, x, step)
    BY <1>1, <1>3, LoopRuns
  <2> QED BY <1>1, <2>1
<1>5. \A i \in 1..N : g[i] = Iteration(g[i - 1], conds, t, i)
  <2> SUFFICES ASSUME NEW i \in 1..N PROVE g[i] = Iteration(g[i - 1], conds, t, i)
    OBVIOUS
  <2>1. g[i - 1] \in X
    BY <1>1, <1>4 DEF Run
  <2>2. step[i][g[i - 1]] = Iteration(g[i - 1], conds, t, i)
    BY <2>1
  <2> QED BY <1>4, <2>2 DEF Run
<1> HIDE DEF step
<1>6. g = [i \in 0..N |-> g[i]] /\ g[0] = << >>
  BY <1>4 DEF Run
<1>7. \A i \in 0..N : g[i] = IF i = 0 THEN << >> ELSE Iteration(g[i - 1], conds, t, i)
  BY <1>1, <1>5, <1>6
<1>8. g = [i \in 0..N |-> IF i = 0 THEN << >> ELSE Iteration(g[i - 1], conds, t, i)]
  BY <1>6, <1>7
<1> QED BY <1>8 DEF Loop, Iteration, N

(* filterOutCondition returns what is collected at the end. *)
LEMMA LoopEnds ==
  ASSUME NEW conds \in Seq(Condition), NEW t
  PROVE  \E g : Loop(g, conds, t) /\ filterOutCondition(conds, t) = g[Len(conds)]
<1> DEFINE h == CHOOSE g : Loop(g, conds, t)
<1>1. Loop(h, conds, t)
  BY FilterRuns
<1>2. filterOutCondition(conds, t) = h[Len(conds)]
  BY DEF filterOutCondition, Loop
<1> QED BY <1>1, <1>2

(***************************************************************************)
(* What filterOutCondition returns is what it says: the entries that are   *)
(* kept, in their order and with the status of Running adjusted.  src      *)
(* tells for each place of the new list from where it comes.               *)
(***************************************************************************)
Filtered(list, conds, t, n, src) ==
  /\ list \in Seq(Condition)
  /\ src \in [1..Len(list) -> 1..n]
  /\ \A k \in 1..Len(list) : Kept(conds[src[k]], t) /\ list[k] = Stopped(conds[src[k]], t)
  /\ \A k, l \in 1..Len(list) : k < l => src[k] < src[l]
  /\ \A i \in 1..n : Kept(conds[i], t) => \E k \in 1..Len(list) : src[k] = i

(* One iteration of the loop adds the entry it looks at, or nothing. *)
LEMMA OneIteration ==
  ASSUME NEW conds \in Seq(Condition), NEW t, NEW n \in 1..Len(conds),
         NEW list, NEW src, Filtered(list, conds, t, n - 1, src)
  PROVE  \E new : Filtered(Iteration(list, conds, t, n), conds, t, n, new)
<1> USE DEF Filtered
<1>0. conds[n] \in Condition /\ Len(conds) \in Nat /\ n \in Nat /\ n - 1 \in Nat
  OBVIOUS
<1>1. CASE ~Kept(conds[n], t)
  <2>1. Iteration(list, conds, t, n) = list
    BY <1>1 DEF Iteration
  <2>2. src \in [1..Len(list) -> 1..n]
    BY <1>0
  <2>3. \A i \in 1..n : Kept(conds[i], t) => i \in 1..n - 1
    BY <1>0, <1>1
  <2>4. Filtered(list, conds, t, n, src)
    BY <2>2, <2>3
  <2> HIDE DEF Filtered
  <2> QED BY <2>1, <2>4
<1>2. CASE Kept(conds[n], t)
  <2> DEFINE c == Stopped(conds[n], t)
             L == Len(list)
             new == [k \in 1..L + 1 |-> IF k = L + 1 THEN n ELSE src[k]]
             longer == Append(list, c)
  <2>1. c \in Condition
    BY <1>0, ConditionFacts
  <2>2. L \in Nat /\ longer \in Seq(Condition) /\ Len(longer) = L + 1
        /\ longer[L + 1] = c /\ \A k \in 1..L : longer[k] = list[k]
    BY <2>1
  <2>3. Iteration(list, conds, t, n) = longer
    BY <1>2 DEF Iteration
  <2>4. \A k \in 1..L : src[k] \in 1..n - 1
    OBVIOUS
  <2> HIDE DEF longer, c
  <2>5. new \in [1..L + 1 -> 1..n]
    BY <1>0, <2>2, <2>4
  <2>6. new[L + 1] = n /\ \A k \in 1..L : new[k] = src[k]
    BY <2>2
  <2> HIDE DEF new
  <2>7. \A k \in 1..L + 1 : Kept(conds[new[k]], t) /\ longer[k] = Stopped(conds[new[k]], t)
    <3>1. \A k \in 1..L : Kept(conds[new[k]], t) /\ longer[k] = Stopped(conds[new[k]], t)
      BY <2>2, <2>6
    <3>2. Kept(conds[new[L + 1]], t) /\ longer[L + 1] = Stopped(conds[new[L + 1]], t)
      BY <1>2, <2>2, <2>6 DEF c
    <3>3. \A k \in 1..L + 1 : k \in 1..L \/ k = L + 1
      BY <2>2
    <3> HIDE DEF L, Filtered
    <3> QED BY <3>1, <3>2, <3>3, Zenon
  <2>8. ASSUME NEW k \in 1..L + 1, NEW l \in 1..L + 1, k < l
        PROVE  new[k] < new[l]
    <3>1. k \in 1..L
      BY <2>2, <2>8
    <3>2. CASE l = L + 1
      BY <1>0, <2>4, <2>6, <3>1, <3>2
    <3>3. CASE l # L + 1
      <4>1. l \in 1..L
        BY <2>2, <3>3
      <4>2. src[k] < src[l]
        BY <2>8, <3>1, <4>1
      <4> QED BY <2>6, <3>1, <4>1, <4>2
    <3> QED BY <3>2, <3>3
  <2>9. ASSUME NEW i \in 1..n, Kept(conds[i], t)
        PROVE  \E k \in 1..L + 1 : new[k] = i
    <3>1. CASE i = n
      BY <2>2, <2>6, <3>1
    <3>2. CASE i # n
      <4>1. i \in 1..n - 1
        BY <1>0, <3>2
      <4>2. PICK k \in 1..L : src[k] = i
        BY <2>9, <4>1
      <4> QED BY SMTT(30), <2>2, <2>6, <4>2
    <3> QED BY <3>1, <3>2
  <2>10. Filtered(longer, conds, t, n, new)
    BY <2>2, <2>5, <2>7, <2>8, <2>9
  <2> HIDE DEF Filtered
  <2> QED BY <2>3, <2>10
<1> QED BY <1>1, <1>2

(* filterOutCondition keeps what it should, in order, for every list. *)
LEMMA FilterKeeps ==
  ASSUME NEW conds \in Seq(Condition), NEW t
  PROVE  \E src : Filtered(filterOutCondition(conds, t), conds, t, Len(conds), src)
<1> DEFINE N == Len(conds)
<1>1. PICK g : Loop(g, conds, t) /\ filterOutCondition(conds, t) = g[N]
  BY LoopEnds
<1> DEFINE S == {n \in 0..N : \E src : Filtered(g[n], conds, t, n, src)}
<1>2. N \in Nat
  OBVIOUS
<1>3. g[0] = << >> /\ \A n \in 1..N : g[n] = Iteration(g[n - 1], conds, t, n)
  <2>1. \A n \in 0..N : g[n] = IF n = 0 THEN << >>
                               ELSE IF Kept(conds[n], t) THEN Append(g[n - 1], Stopped(conds[n], t))
                               ELSE g[n - 1]
    <3> DEFINE h == [i \in 0..N |-> IF i = 0 THEN << >>
                                 ELSE IF Kept(conds[i], t) THEN Append(g[i - 1], Stopped(conds[i], t))
                                 ELSE g[i - 1]]
    <3>1. g = h
      BY <1>1 DEF Loop
    <3>2. \A n \in 0..N : h[n] = IF n = 0 THEN << >>
                               ELSE IF Kept(conds[n], t) THEN Append(g[n - 1], Stopped(conds[n], t))
                               ELSE g[n - 1]
      OBVIOUS
    <3> HIDE DEF h
    <3> QED BY <3>1, <3>2, Zenon
  <2>2. 0 \in 0..N /\ \A n \in 1..N : n \in 0..N /\ n # 0
    BY <1>2
  <2> HIDE DEF N
  <2> QED BY <2>1, <2>2, Zenon DEF Iteration
<1>4. 0 \in S
  <2> DEFINE src == [k \in 1..0 |-> 0]
  <2>1. Filtered(<< >>, conds, t, 0, src)
    BY DEF Filtered
  <2> HIDE DEF src
  <2> QED BY <1>2, <1>3, <2>1
<1>5. ASSUME NEW n \in 1..N, n - 1 \in S
      PROVE  n \in S
  <2>1. PICK src : Filtered(g[n - 1], conds, t, n - 1, src)
    BY <1>5
  <2>2. \E new : Filtered(Iteration(g[n - 1], conds, t, n), conds, t, n, new)
    BY <2>1, OneIteration
  <2> QED BY <1>2, <1>3, <2>2
<1>6. N \in S
  <2> HIDE DEF S, N
  <2>1. \A n \in 1..N : n - 1 \in S => n \in S
    BY <1>5
  <2>2. 0..N \subseteq S
    BY <1>2, <1>4, <2>1, UpTo
  <2> QED BY <1>2, <2>2
<1> QED BY <1>1, <1>6

-----------------------------------------------------------------------------
(***************************************************************************)
(* setCondition.                                                           *)
(***************************************************************************)
(* newCondition builds a condition. *)
LEMMA NewConditionType ==
  ASSUME NEW t \in ConditionType, NEW reason \in ReasonsOf(t)
  PROVE  newCondition(t, reason) \in Condition
<1>1. newCondition(t, reason) \in [type : {t}, status : {"true", "false"}, reason : ReasonsOf(t)]
  BY DEF newCondition
<1> QED BY <1>1 DEF Condition

(* setCondition leaves the list alone, or the job is not finished and the condition comes last. *)
LEMMA SetAppends ==
  ASSUME NEW conds \in Seq(Condition), NEW c \in Condition
  PROVE  \/ setCondition(conds, c) = conds
         \/ /\ ~IsFailed(conds) /\ ~IsSucceeded(conds)
            /\ setCondition(conds, c) = Append(filterOutCondition(conds, c.type), c)
BY DEF setCondition

(* The entries of the list after a change: those that were kept, and the new one. *)
LEMMA SetEntries ==
  ASSUME NEW conds \in Seq(Condition), NEW c \in Condition,
         setCondition(conds, c) # conds
  PROVE  \E list, src :
           /\ Filtered(list, conds, c.type, Len(conds), src)
           /\ setCondition(conds, c) = Append(list, c)
           /\ setCondition(conds, c) \in Seq(Condition)
           /\ Len(list) \in Nat /\ Len(setCondition(conds, c)) = Len(list) + 1
           /\ setCondition(conds, c)[Len(list) + 1] = c
           /\ \A k \in 1..Len(list) : setCondition(conds, c)[k] = list[k]
<1> DEFINE list == filterOutCondition(conds, c.type)
<1>1. PICK src : Filtered(list, conds, c.type, Len(conds), src)
  BY FilterKeeps
<1>2. list \in Seq(Condition)
  BY <1>1 DEF Filtered
<1>3. setCondition(conds, c) = Append(list, c)
  BY SetAppends
<1> HIDE DEF list
<1>4. /\ Append(list, c) \in Seq(Condition)
      /\ Len(list) \in Nat /\ Len(Append(list, c)) = Len(list) + 1
      /\ Append(list, c)[Len(list) + 1] = c
      /\ \A k \in 1..Len(list) : Append(list, c)[k] = list[k]
  BY <1>2
<1> QED BY <1>1, <1>3, <1>4

(* The list stays a list of conditions. *)
LEMMA SetType ==
  ASSUME NEW conds \in Seq(Condition), NEW c \in Condition
  PROVE  setCondition(conds, c) \in Seq(Condition)
BY SetEntries

-----------------------------------------------------------------------------
(***************************************************************************)
(* Consistency.                                                            *)
(***************************************************************************)
OneEntryPerTypeOf(conds) ==
  \A i, j \in 1..Len(conds) : conds[i].type = conds[j].type => i = j

NeverRunningAndDoneOf(conds) ==
  (IsSucceeded(conds) \/ IsFailed(conds))
    => /\ ~HasCondition(conds, "Running")
       /\ ~(IsSucceeded(conds) /\ IsFailed(conds))

(* Setting a condition does not give any type a second entry. *)
LEMMA SetKeepsOneEntry ==
  ASSUME NEW conds \in Seq(Condition), NEW c \in Condition, OneEntryPerTypeOf(conds)
  PROVE  OneEntryPerTypeOf(setCondition(conds, c))
<1> DEFINE new == setCondition(conds, c)
<1>1. CASE new = conds
  BY <1>1
<1>2. CASE new # conds
  <2>1. PICK list, src :
           /\ Filtered(list, conds, c.type, Len(conds), src)
           /\ Len(list) \in Nat /\ Len(new) = Len(list) + 1
           /\ new[Len(list) + 1] = c
           /\ \A k \in 1..Len(list) : new[k] = list[k]
    BY <1>2, SetEntries
  <2> HIDE DEF new
  <2>2. ASSUME NEW k \in 1..Len(list)
        PROVE  /\ src[k] \in 1..Len(conds) /\ new[k].type = conds[src[k]].type
               /\ new[k].type # c.type
    <3>1. src[k] \in 1..Len(conds) /\ Kept(conds[src[k]], c.type)
          /\ new[k] = Stopped(conds[src[k]], c.type)
      BY <2>1 DEF Filtered
    <3>2. conds[src[k]] \in Condition
      BY <3>1
    <3>3. new[k].type = conds[src[k]].type
      BY <3>1, <3>2, ConditionFacts
    <3> QED BY <3>1, <3>3 DEF Kept
  <2>3. \A k, l \in 1..Len(list) : k < l => src[k] < src[l]
    BY <2>1 DEF Filtered
  <2>4. ASSUME NEW i \in 1..Len(new), NEW j \in 1..Len(new), new[i].type = new[j].type
        PROVE  i = j
    <3>1. CASE i \in 1..Len(list) /\ j \in 1..Len(list)
      <4>1. src[i] = src[j]
        BY <2>2, <2>4, <3>1 DEF OneEntryPerTypeOf
      <4>2. src[i] \in Nat /\ src[j] \in Nat
        BY <2>2, <3>1
      <4> QED BY <2>1, <2>3, <3>1, <4>1, <4>2
    <3>2. CASE i = Len(list) + 1 /\ j \in 1..Len(list)
      BY <2>1, <2>2, <2>4, <3>2
    <3>3. CASE i \in 1..Len(list) /\ j = Len(list) + 1
      BY <2>1, <2>2, <2>4, <3>3
    <3>4. CASE i = Len(list) + 1 /\ j = Len(list) + 1
      BY <3>4
    <3> QED BY <2>1, <3>1, <3>2, <3>3, <3>4
  <2> QED BY <2>4 DEF OneEntryPerTypeOf, new
<1> QED BY <1>1, <1>2

(* The types of which setting a condition of type t removes the entry. *)
Excludes(t, u) ==
  (t = "Restarting" /\ u = "Running") \/ (t = "Running" /\ u = "Restarting")

(* What setting a condition does to the entries of the other types. *)
LEMMA SetOthers ==
  ASSUME NEW conds \in Seq(Condition), NEW c \in Condition, setCondition(conds, c) # conds,
         NEW u \in ConditionType, u # c.type
  PROVE  /\ EntriesOf(setCondition(conds, c), u) # {}
              <=> EntriesOf(conds, u) # {} /\ ~Excludes(c.type, u)
         /\ HasCondition(setCondition(conds, c), u)
              <=> /\ HasCondition(conds, u) /\ ~Excludes(c.type, u)
                  /\ ~(c.type \in {"Failed", "Succeeded"} /\ u = "Running")
<1> DEFINE new == setCondition(conds, c)
<1>1. PICK list, src :
         /\ Filtered(list, conds, c.type, Len(conds), src)
         /\ new \in Seq(Condition)
         /\ Len(list) \in Nat /\ Len(new) = Len(list) + 1
         /\ new[Len(list) + 1] = c
         /\ \A k \in 1..Len(list) : new[k] = list[k]
  BY SetEntries
<1> HIDE DEF new
<1>2. \A i \in 1..Len(conds) : conds[i] \in Condition
  OBVIOUS
<1>3. ASSUME NEW k \in 1..Len(list)
      PROVE  /\ src[k] \in 1..Len(conds) /\ Kept(conds[src[k]], c.type)
             /\ new[k] = Stopped(conds[src[k]], c.type)
             /\ new[k].type = conds[src[k]].type
             /\ new[k].status = "true"
                  <=> /\ conds[src[k]].status = "true"
                      /\ ~(c.type \in {"Failed", "Succeeded"} /\ conds[src[k]].type = "Running")
  <2>1. src[k] \in 1..Len(conds) /\ Kept(conds[src[k]], c.type)
        /\ new[k] = Stopped(conds[src[k]], c.type)
    BY <1>1 DEF Filtered
  <2> QED BY <1>2, <2>1, ConditionFacts
<1>4. ASSUME NEW i \in 1..Len(conds), conds[i].type = u
      PROVE  Kept(conds[i], c.type) <=> ~Excludes(c.type, u)
  BY <1>4 DEF Kept, Excludes
<1>5. ASSUME NEW i \in 1..Len(conds), conds[i].type = u, ~Excludes(c.type, u)
      PROVE  \E k \in 1..Len(list) : src[k] = i
  BY <1>1, <1>4, <1>5 DEF Filtered
<1>6. ASSUME NEW k \in 1..Len(new), new[k].type = u
      PROVE  k \in 1..Len(list)
  BY <1>1, <1>6
<1>7. 1..Len(list) \subseteq 1..Len(new) /\ DOMAIN new = 1..Len(new) /\ DOMAIN conds = 1..Len(conds)
  BY <1>1
<1>8. EntriesOf(new, u) # {} <=> EntriesOf(conds, u) # {} /\ ~Excludes(c.type, u)
  <2>1. ASSUME NEW k \in EntriesOf(new, u)
        PROVE  EntriesOf(conds, u) # {} /\ ~Excludes(c.type, u)
    <3>1. k \in 1..Len(list) /\ new[k].type = u
      BY <1>6, <1>7, <2>1 DEF EntriesOf
    <3> QED BY <1>3, <1>4, <1>7, <3>1 DEF EntriesOf
  <2>2. ASSUME NEW i \in EntriesOf(conds, u), ~Excludes(c.type, u)
        PROVE  EntriesOf(new, u) # {}
    <3>1. i \in 1..Len(conds) /\ conds[i].type = u
      BY <1>7 DEF EntriesOf
    <3>2. PICK k \in 1..Len(list) : src[k] = i
      BY <1>5, <2>2, <3>1
    <3> QED BY <1>3, <1>7, <3>1, <3>2 DEF EntriesOf
  <2> QED BY <2>1, <2>2
<1>9. ASSUME HasCondition(new, u)
      PROVE  /\ HasCondition(conds, u) /\ ~Excludes(c.type, u)
             /\ ~(c.type \in {"Failed", "Succeeded"} /\ u = "Running")
  <2>1. PICK k \in 1..Len(new) : new[k].type = u /\ new[k].status = "true"
    BY <1>7, <1>9 DEF HasCondition
  <2>2. k \in 1..Len(list)
    BY <1>6, <2>1
  <2> QED BY <1>3, <1>4, <1>7, <2>1, <2>2 DEF HasCondition
<1>10. ASSUME HasCondition(conds, u), ~Excludes(c.type, u),
              ~(c.type \in {"Failed", "Succeeded"} /\ u = "Running")
       PROVE  HasCondition(new, u)
  <2>1. PICK i \in 1..Len(conds) : conds[i].type = u /\ conds[i].status = "true"
    BY <1>7, <1>10 DEF HasCondition
  <2>2. PICK k \in 1..Len(list) : src[k] = i
    BY <1>5, <1>10, <2>1
  <2> QED BY <1>3, <1>7, <1>10, <2>1, <2>2 DEF HasCondition
<1> QED BY <1>8, <1>9, <1>10 DEF new

(* What is set comes last. *)
LEMMA SetLast ==
  ASSUME NEW conds \in Seq(Condition), NEW c \in Condition, setCondition(conds, c) # conds
  PROVE  /\ setCondition(conds, c) \in Seq(Condition)
         /\ Len(setCondition(conds, c)) \in Nat \ {0}
         /\ setCondition(conds, c)[Len(setCondition(conds, c))] = c
         /\ c.status = "true" => HasCondition(setCondition(conds, c), c.type)
         /\ EntriesOf(setCondition(conds, c), c.type) # {}
<1> DEFINE new == setCondition(conds, c)
<1>1. PICK list, src :
         /\ new \in Seq(Condition)
         /\ Len(list) \in Nat /\ Len(new) = Len(list) + 1
         /\ new[Len(list) + 1] = c
  BY SetEntries
<1> HIDE DEF new
<1>2. Len(new) \in DOMAIN new /\ new[Len(new)] = c /\ Len(new) \in Nat \ {0}
  BY <1>1
<1> QED BY <1>1, <1>2 DEF HasCondition, EntriesOf, new

(* A job that takes a condition has no verdict yet, and gets at most one. *)
LEMMA SetKeepsVerdicts ==
  ASSUME NEW conds \in Seq(Condition), NEW c \in Condition, NeverRunningAndDoneOf(conds)
  PROVE  NeverRunningAndDoneOf(setCondition(conds, c))
<1> DEFINE new == setCondition(conds, c)
<1>1. CASE new = conds
  BY <1>1
<1>2. CASE new # conds
  <2>1. ~HasCondition(conds, "Failed") /\ ~HasCondition(conds, "Succeeded")
    BY <1>2, SetAppends DEF IsFailed, IsSucceeded
  <2>2. "Failed" \in ConditionType /\ "Succeeded" \in ConditionType /\ "Running" \in ConditionType
    BY DEF ConditionType
  <2>3. ("Failed" # c.type => ~HasCondition(new, "Failed"))
        /\ ("Succeeded" # c.type => ~HasCondition(new, "Succeeded"))
    BY <1>2, <2>1, <2>2, SetOthers
  <2>4. c.type \in {"Failed", "Succeeded"} => ~HasCondition(new, "Running")
    BY <1>2, <2>2, SetOthers
  <2> QED BY <2>3, <2>4 DEF NeverRunningAndDoneOf, IsFailed, IsSucceeded
<1> QED BY <1>1, <1>2

(* The parts of ConditionsAreConsistent are those of a list. *)
LEMMA ListParts ==
  ASSUME NEW conds \in Seq(Condition)
  PROVE  OneEntryPerTypeOf(conds)
           <=> \A t \in ConditionType : \A i, j \in EntriesOf(conds, t) : i = j
<1>1. DOMAIN conds = 1..Len(conds) /\ \A i \in 1..Len(conds) : conds[i] \in Condition
  OBVIOUS
<1>2. \A i \in 1..Len(conds) : conds[i].type \in ConditionType
  BY <1>1, ConditionFacts
<1> QED BY <1>1, <1>2 DEF OneEntryPerTypeOf, EntriesOf

-----------------------------------------------------------------------------
(***************************************************************************)
(* What the readers of a job's conditions are told never contradicts: the  *)
(* list holds every type at most once and a job with a verdict has one     *)
(* verdict only and is not Running, after any number of                    *)
(* UpdateJobConditions in any order (pkg/util/status.go).                  *)
(***************************************************************************)
THEOREM Consistent == Spec => []ConditionsAreConsistent
<1> DEFINE IInv == /\ conditions \in Seq(Condition)
                   /\ OneEntryPerTypeOf(conditions) /\ NeverRunningAndDoneOf(conditions)
<1>1. Init => IInv
  BY DEF Init, OneEntryPerTypeOf, NeverRunningAndDoneOf, IsSucceeded, IsFailed, HasCondition
<1>2. IInv /\ [Next]_conditions => IInv'
  <2> SUFFICES ASSUME IInv, [Next]_conditions PROVE IInv'
    OBVIOUS
  <2>1. CASE UNCHANGED conditions
    BY <2>1 DEF OneEntryPerTypeOf, NeverRunningAndDoneOf, IsSucceeded, IsFailed, HasCondition
  <2>2. ASSUME NEW t \in ConditionType, NEW reason \in ReasonsOf(t), UpdateJobConditions(t, reason)
        PROVE  IInv'
    <3> DEFINE c == newCondition(t, reason)
    <3>1. c \in Condition
      BY NewConditionType
    <3>2. conditions' = setCondition(conditions, c)
      BY <2>2 DEF UpdateJobConditions
    <3> HIDE DEF c
    <3>3. conditions' \in Seq(Condition)
      BY <3>1, <3>2, SetType
    <3>4. OneEntryPerTypeOf(conditions')
      BY <3>1, <3>2, SetKeepsOneEntry
    <3>5. NeverRunningAndDoneOf(conditions')
      BY <3>1, <3>2, SetKeepsVerdicts
    <3>6. OneEntryPerTypeOf(conditions)' /\ NeverRunningAndDoneOf(conditions)'
      BY <3>4, <3>5 DEF OneEntryPerTypeOf, NeverRunningAndDoneOf, IsSucceeded, IsFailed, HasCondition
    <3> QED BY <3>3, <3>6
  <2> QED BY <2>1, <2>2 DEF Next
<1>3. IInv => ConditionsAreConsistent
  BY ListParts DEF ConditionsAreConsistent, TypeOK, OneEntryPerType, NeverRunningAndDone,
                   NeverRunningAndDoneOf
<1> QED BY <1>1, <1>2, <1>3, PTL DEF Spec

(***************************************************************************)
(* The engine's own conditions never send a job back to the coordinator:   *)
(* whatever it sets takes the last place of the list, and nothing that     *)
(* filterOutCondition removes brings an older Created or Queuing entry     *)
(* back to the end.                                                        *)
(***************************************************************************)
LEMMA EngineStep ==
  ASSUME NEW conds \in Seq(Condition), NEW t \in {"Running", "Restarting", "Succeeded", "Failed"},
         NEW reason \in ReasonsOf(t), setCondition(conds, newCondition(t, reason)) # conds
  PROVE  ~NeedEnqueueToCoordinator(setCondition(conds, newCondition(t, reason)))
<1> DEFINE c   == newCondition(t, reason)
           new == setCondition(conds, c)
<1>1. c \in Condition /\ c.type = t
  BY NewConditionType DEF ConditionType, newCondition
<1>2. new \in Seq(Condition) /\ Len(new) \in Nat \ {0} /\ new[Len(new)].type = t
  BY <1>1, SetLast
<1> HIDE DEF new
<1>3. GetLastCondition(new, "Created") = {} /\ GetLastCondition(new, "Queuing") = {}
  BY <1>2 DEF GetLastCondition, EntriesOf
<1>4. new # << >>
  BY <1>2
<1> QED BY <1>3, <1>4 DEF NeedEnqueueToCoordinator, IsJustCreated, IsEnqueued, LastReasonIs, new

(***************************************************************************)
(* A job that left the coordinator's queue never looks as if it had to be  *)
(* enqueued again because the engine set a condition                       *)
(* (NeedEnqueueToCoordinator, setCondition of pkg/util/status.go).         *)
(***************************************************************************)
THEOREM NeverReenqueued == Spec => EngineNeverReenqueues
<1> DEFINE Step == conditions' # conditions =>
       \A t \in {"Running", "Restarting", "Succeeded", "Failed"} :
         (\E reason \in ReasonsOf(t) : conditions' = setCondition(conditions, newCondition(t, reason)))
           => ~NeedEnqueueToCoordinator(conditions')
<1>1. TypeOK => Step
  BY EngineStep DEF TypeOK
<1>2. ConditionsAreConsistent => TypeOK
  BY DEF ConditionsAreConsistent
<1> HIDE DEF Step
<1>3. Spec => [][Step]_conditions
  BY <1>1, <1>2, Consistent, PTL
<1> QED BY <1>3 DEF EngineNeverReenqueues, Step

-----------------------------------------------------------------------------
(***************************************************************************)
(* The refinement.                                                         *)
(***************************************************************************)
(* What the view shows of a type. *)
LEMMA ViewEntry ==
  ASSUME NEW conds, NEW u \in ConditionType
  PROVE  /\ EntriesOf(conds, u) = {} => ViewOf(conds)[u] = "absent"
         /\ EntriesOf(conds, u) # {} /\ HasCondition(conds, u) => ViewOf(conds)[u] = "true"
         /\ EntriesOf(conds, u) # {} /\ ~HasCondition(conds, u) => ViewOf(conds)[u] = "false"
<1>1. ViewOf(conds)[u] = CASE EntriesOf(conds, u) = {} -> "absent"
                           [] HasCondition(conds, u)   -> "true"
                           [] OTHER                    -> "false"
  BY DEF ViewOf
<1>2. CASE EntriesOf(conds, u) = {}
  BY <1>1, <1>2, Zenon DEF HasCondition, EntriesOf
<1>3. CASE EntriesOf(conds, u) # {} /\ HasCondition(conds, u)
  BY <1>1, <1>3, Zenon
<1>4. CASE EntriesOf(conds, u) # {} /\ ~HasCondition(conds, u)
  BY <1>1, <1>4, Zenon
<1> QED BY <1>2, <1>3, <1>4, Zenon

(* A change of the list is one setCondition of the view. *)
LEMMA ViewStep ==
  ASSUME NEW conds \in Seq(Condition), NEW t \in ConditionType, NEW reason \in ReasonsOf(t),
         setCondition(conds, newCondition(t, reason)) # conds
  PROVE  ViewOf(setCondition(conds, newCondition(t, reason))) = View!setCondition(ViewOf(conds), t)
<1> DEFINE c   == newCondition(t, reason)
           new == setCondition(conds, c)
           old == ViewOf(conds)
<1>1. c \in Condition /\ c.type = t /\ c.status = "true"
  BY NewConditionType DEF newCondition
<1>2. ~HasCondition(conds, "Failed") /\ ~HasCondition(conds, "Succeeded")
  BY <1>1, SetAppends DEF IsFailed, IsSucceeded
<1>3. View!ConditionType = ConditionType
  BY DEF View!ConditionType, ConditionType
<1>4. ~View!Finished(old)
  <2>1. "Failed" \in ConditionType /\ "Succeeded" \in ConditionType
    BY DEF ConditionType
  <2>2. old["Failed"] # "true" /\ old["Succeeded"] # "true"
    BY <1>2, <2>1 DEF ViewOf
  <2> QED BY <2>2 DEF View!Finished, View!IsSucceeded, View!IsFailed, View!HasCondition
<1>5. HasCondition(new, t) /\ EntriesOf(new, t) # {}
  BY <1>1, SetLast
<1>6. ASSUME NEW u \in ConditionType, u # t
      PROVE  /\ EntriesOf(new, u) # {} <=> EntriesOf(conds, u) # {} /\ ~Excludes(t, u)
             /\ HasCondition(new, u)
                  <=> /\ HasCondition(conds, u) /\ ~Excludes(t, u)
                      /\ ~(t \in {"Failed", "Succeeded"} /\ u = "Running")
  BY <1>1, <1>6, SetOthers
<1>7. \A u : HasCondition(conds, u) => EntriesOf(conds, u) # {}
  BY DEF HasCondition, EntriesOf
<1> HIDE DEF new
<1>8. ASSUME NEW u \in ConditionType
      PROVE  ViewOf(new)[u] = IF u = t THEN "true" ELSE View!filterOutCondition(old, t, u)
  <2>1. /\ EntriesOf(new, u) = {} => ViewOf(new)[u] = "absent"
        /\ EntriesOf(new, u) # {} /\ HasCondition(new, u) => ViewOf(new)[u] = "true"
        /\ EntriesOf(new, u) # {} /\ ~HasCondition(new, u) => ViewOf(new)[u] = "false"
    BY ViewEntry
  <2>2. /\ EntriesOf(conds, u) = {} => old[u] = "absent"
        /\ EntriesOf(conds, u) # {} /\ HasCondition(conds, u) => old[u] = "true"
        /\ EntriesOf(conds, u) # {} /\ ~HasCondition(conds, u) => old[u] = "false"
    BY ViewEntry
  <2> HIDE DEF old
  <2>3. CASE u = t
    BY <1>5, <2>1, <2>3
  <2>4. CASE u # t /\ Excludes(t, u)
    <3>1. View!filterOutCondition(old, t, u) = "absent"
      BY <2>4 DEF View!filterOutCondition, Excludes
    <3>2. EntriesOf(new, u) = {}
      BY <1>6, <2>4
    <3> QED BY <2>1, <2>4, <3>1, <3>2
  <2>5. CASE u # t /\ ~Excludes(t, u) /\ t \in {"Failed", "Succeeded"} /\ u = "Running"
    <3>1. View!filterOutCondition(old, t, u) = IF old[u] = "true" THEN "false" ELSE old[u]
      BY <2>5 DEF View!filterOutCondition, Excludes
    <3>2. ~HasCondition(new, u) /\ (EntriesOf(new, u) # {} <=> EntriesOf(conds, u) # {})
      BY <1>6, <2>5
    <3> QED BY <1>7, <2>1, <2>2, <2>5, <3>1, <3>2
  <2>6. CASE u # t /\ ~Excludes(t, u) /\ ~(t \in {"Failed", "Succeeded"} /\ u = "Running")
    <3>1. View!filterOutCondition(old, t, u) = old[u]
      BY <2>6 DEF View!filterOutCondition, Excludes
    <3>2. /\ HasCondition(new, u) <=> HasCondition(conds, u)
          /\ EntriesOf(new, u) # {} <=> EntriesOf(conds, u) # {}
      BY <1>6, <2>6
    <3> QED BY <2>1, <2>2, <2>6, <3>1, <3>2
  <2> QED BY <2>3, <2>4, <2>5, <2>6
<1>9. View!setCondition(old, t)
        = [u \in ConditionType |-> IF u = t THEN "true" ELSE View!filterOutCondition(old, t, u)]
  <2> HIDE DEF old
  <2> QED BY <1>3, <1>4 DEF View!setCondition
<1>10. ViewOf(new) = [u \in ConditionType |-> ViewOf(new)[u]]
  BY DEF ViewOf
<1> HIDE DEF old
<1>11. ViewOf(new) = View!setCondition(old, t)
  BY <1>8, <1>9, <1>10
<1> QED BY <1>11 DEF new, old

(***************************************************************************)
(* Seen through ViewOf, every UpdateJobConditions that changes the list is *)
(* one setCondition of module JobConditions, with which the model of the   *)
(* engine works.                                                           *)
(***************************************************************************)
THEOREM RefinesView == Spec => ImplementsView
<1> DEFINE Step == conditions' # conditions =>
       \E t \in ConditionType : ViewOf(conditions') = View!setCondition(ViewOf(conditions), t)
<1>1. TypeOK /\ [Next]_conditions => Step
  <2> SUFFICES ASSUME TypeOK, [Next]_conditions, conditions' # conditions
               PROVE  \E t \in ConditionType :
                        ViewOf(conditions') = View!setCondition(ViewOf(conditions), t)
    OBVIOUS
  <2>1. PICK t \in ConditionType : \E reason \in ReasonsOf(t) : UpdateJobConditions(t, reason)
    BY DEF Next
  <2>4. PICK reason \in ReasonsOf(t) : UpdateJobConditions(t, reason)
    BY <2>1
  <2>2. conditions' = setCondition(conditions, newCondition(t, reason))
    BY <2>4 DEF UpdateJobConditions
  <2>3. ViewOf(conditions') = View!setCondition(ViewOf(conditions), t)
    BY <2>2, ViewStep DEF TypeOK
  <2> QED BY <2>3
<1>2. ConditionsAreConsistent => TypeOK
  BY DEF ConditionsAreConsistent
<1> HIDE DEF Step
<1>3. Spec => [][Step]_conditions
  BY <1>1, <1>2, Consistent, PTL DEF Spec
<1> QED BY <1>3 DEF ImplementsView, Step
=============================================================================

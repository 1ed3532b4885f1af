----------------------------- MODULE CronProofs -----------------------------
(***************************************************************************)
(* Proofs about the cron controller: what its loops over the active list   *)
(* may take away, that policy Forbid is kept to, that workloads are        *)
(* started for ticks of a regular schedule, in order, each once, and that  *)
(* the history is sorted and tells how workloads ended.                    *)
(***************************************************************************)
EXTENDS Cron, LoopTheorems, FiniteSetTheorems

-----------------------------------------------------------------------------
(***************************************************************************)
(* Slices and the deletions from them.                                     *)
(***************************************************************************)
(* The slices with entries in E on an array of n entries. *)
Slices(E, n) == {s \in [array : Seq(E), len : 0..n] : Len(s.array) = n}

(* r is an entry of the slice. *)
Holds(s, r) == \E i \in 1..s.len : s.array[i] = r

LEMMA SliceFacts ==
  ASSUME NEW E, NEW n \in Nat, NEW s \in Slices(E, n)
  PROVE  /\ s.len \in 0..n /\ s.array \in [1..n -> E] /\ DOMAIN s.array = 1..n
         /\ s.array \in Seq(E) /\ Len(s.array) = n
         /\ \A i \in 1..n : s.array[i] \in E
         /\ \A i \in 1..s.len : i \in 1..n
BY DEF Slices

(* A deletion takes away the first entry with the uid, and no other. *)
LEMMA DeletionKeeps ==
  ASSUME NEW E, NEW n \in Nat, NEW s \in Slices(E, n), NEW uid
  PROVE  /\ deleteFromActiveList(s, uid) \in Slices(E, n)
         /\ \A r : Holds(s, r) /\ r.uid # uid => Holds(deleteFromActiveList(s, uid), r)
<1> DEFINE found == {i \in 1..s.len : s.array[i].uid = uid}
           m == Min(found)
           shifted == [i \in DOMAIN s.array |->
                         IF i \in m..s.len - 1 THEN s.array[i + 1] ELSE s.array[i]]
           d == [array |-> shifted, len |-> s.len - 1]
<1>1. CASE found = {}
  <2>1. deleteFromActiveList(s, uid) = s
    BY <1>1 DEF deleteFromActiveList
  <2> QED BY <2>1
<1>2. CASE found # {}
  <2>1. deleteFromActiveList(s, uid) = d
    BY <1>2 DEF deleteFromActiveList
  <2>2. s.len \in 0..n /\ s.array \in [1..n -> E] /\ DOMAIN s.array = 1..n
    BY SliceFacts
  <2>3. m \in found
    <3>1. found \in SUBSET Nat
      BY <2>2
    <3> HIDE DEF found
    <3>2. \E x \in found : \A y \in found : x <= y
      BY <1>2, <3>1, LeastNumber
    <3> QED BY <3>2 DEF Min
  <2>4. m \in 1..s.len /\ s.array[m].uid = uid
    BY <2>3
  <2> HIDE DEF m, found
  <2>5. s.len - 1 \in 0..n
    BY <2>2, <2>4
  <2>6. shifted \in [1..n -> E]
    BY <2>2, <2>4
  <2>7. shifted \in Seq(E) /\ Len(shifted) = n
    BY <2>6
  <2>8. d \in Slices(E, n)
    <3> HIDE DEF shifted
    <3> QED BY <2>5, <2>7 DEF Slices
  <2>9. ASSUME NEW r, Holds(s, r), r.uid # uid
        PROVE  Holds(d, r)
    <3>1. PICK i \in 1..s.len : s.array[i] = r
      BY <2>9 DEF Holds
    <3>2. i # m
      BY <2>4, <2>9, <3>1
    <3>3. CASE i < m
      <4>1. shifted[i] = r /\ i \in 1..s.len - 1
        BY <2>2, <2>4, <3>1, <3>3
      <4> HIDE DEF shifted
      <4> QED BY <4>1 DEF Holds
    <3>4. CASE i > m
      <4>1. i - 1 \in 1..n /\ i - 1 \in m..s.len - 1 /\ (i - 1) + 1 = i
        BY <2>2, <2>4, <3>1, <3>4
      <4>2. shifted[i - 1] = r /\ i - 1 \in 1..s.len - 1
        BY <2>2, <2>4, <3>1, <4>1
      <4> HIDE DEF shifted
      <4> QED BY <4>2 DEF Holds
    <3> QED BY <2>2, <2>4, <3>2, <3>3, <3>4
  <2> HIDE DEF d
  <2> QED BY <2>1, <2>8, <2>9
<1> QED BY <1>1, <1>2

-----------------------------------------------------------------------------
(***************************************************************************)
(* The loop that deletes from the slice it ranges over.                    *)
(***************************************************************************)
(* What an iteration makes of the slice. *)
Visit(cur, i, doomed) ==
  IF cur.array[i] \in doomed THEN deleteFromActiveList(cur, cur.array[i].uid) ELSE cur

(* g tells what the loop has made of the slice after each iteration. *)
Walk(g, s, doomed) == g = [i \in 0..s.len |-> IF i = 0 THEN s ELSE Visit(g[i - 1], i, doomed)]

LEMMA WalkEnds ==
  ASSUME NEW E, NEW n \in Nat, NEW s \in Slices(E, n), NEW doomed
  PROVE  \E g : /\ g \in [0..s.len -> Slices(E, n)]
                /\ g[0] = s
                /\ \A i \in 1..s.len : g[i] = Visit(g[i - 1], i, doomed)
                /\ DeleteWhileRanging(s, doomed) = g[s.len]
<1> DEFINE N == s.len
           X == Slices(E, n)
           step == [i \in 1..N |-> [c \in X |-> Visit(c, i, doomed)]]
           h == CHOOSE g : Walk(g, s, doomed)
<1>1. N \in Nat /\ N \in 0..n
  BY SliceFacts
<1>2. step \in [1..N -> [X -> X]]
  <2>1. ASSUME NEW i \in 1..N, NEW c \in X
        PROVE  Visit(c, i, doomed) \in X
    BY DeletionKeeps DEF Visit
  <2> HIDE DEF X, N
  <2> QED BY <2>1
<1>3. PICK g : Run(g, N, X, s, step)
  <2>1. s \in X
    OBVIOUS
  <2> HIDE DEF step, X, N, h
  <2>2. \A x \in X : \E g : Run(g, N, X, x, step)
    BY <1>1, <1>2, LoopRuns
  <2> QED BY <2>1, <2>2
<1>4. \A i \in 1..N : g[i] = Visit(g[i - 1], i, doomed)
  <2> SUFFICES ASSUME NEW i \in 1..N PROVE g[i] = Visit(g[i - 1], i, doomed)
    OBVIOUS
  <2>1. i - 1 \in 0..N
    BY <1>1
  <2>2. g[i - 1] \in X
    BY <1>3, <2>1 DEF Run
  <2>3. step[i][g[i - 1]] = Visit(g[i - 1], i, doomed)
    <3> HIDE DEF X, N
    <3> QED BY <2>2
  <2> QED BY <1>3, <2>3 DEF Run
<1>5. Walk(g, s, doomed)
  <2> HIDE DEF X, step
  <2>1. g = [i \in 0..N |-> g[i]]
    BY <1>3 DEF Run
  <2>2. \A i \in 0..N : g[i] = IF i = 0 THEN s ELSE Visit(g[i - 1], i, doomed)
    BY <1>1, <1>3, <1>4 DEF Run
  <2>3. g = [i \in 0..N |-> IF i = 0 THEN s ELSE Visit(g[i - 1], i, doomed)]
    BY <2>1, <2>2
  <2> QED BY <2>3 DEF Walk
<1>6. Walk(h, s, doomed)
  BY <1>5
<1>7. DeleteWhileRanging(s, doomed) = h[N]
  BY DEF DeleteWhileRanging, Walk, Visit
<1> HIDE DEF h, X, step
<1>8. h[0] = s /\ \A i \in 1..N : h[i] = Visit(h[i - 1], i, doomed) /\ DOMAIN h = 0..N
  BY <1>1, <1>6 DEF Walk
<1>9. \A i \in 0..N : h[i] \in X
  <2>1. h[0] \in X
    BY <1>8 DEF X
  <2>2. \A i \in 1..N : h[i - 1] \in X => h[i] \in X
    BY <1>8, DeletionKeeps DEF Visit, X
  <2> HIDE DEF N
  <2> QED BY <1>1, <2>1, <2>2, LoopKeeps
<1>10. h \in [0..N -> X]
  BY <1>6, <1>9 DEF Walk
<1> QED BY <1>7, <1>8, <1>10 DEF X

(* An entry stays when it is not doomed and no doomed one shares its uid. *)
LEMMA RangingKeeps ==
  ASSUME NEW E, NEW n \in Nat, NEW s \in Slices(E, n), NEW doomed
  PROVE  /\ DeleteWhileRanging(s, doomed) \in Slices(E, n)
         /\ \A r : Holds(s, r) /\ (\A e \in E : e.uid = r.uid => e \notin doomed)
                   => Holds(DeleteWhileRanging(s, doomed), r)
<1>0. s.len \in Nat /\ s.len \in 0..n
  BY SliceFacts
<1>1. PICK g : /\ g \in [0..s.len -> Slices(E, n)]
               /\ g[0] = s
               /\ \A i \in 1..s.len : g[i] = Visit(g[i - 1], i, doomed)
               /\ DeleteWhileRanging(s, doomed) = g[s.len]
  BY WalkEnds
<1>2. DeleteWhileRanging(s, doomed) \in Slices(E, n)
  BY <1>0, <1>1
<1>3. ASSUME NEW r, Holds(s, r), \A e \in E : e.uid = r.uid => e \notin doomed
      PROVE  Holds(DeleteWhileRanging(s, doomed), r)
  <2> DEFINE J == {c \in Slices(E, n) : Holds(c, r)}
  <2>1. g[0] \in J
    BY <1>1, <1>3
  <2>2. ASSUME NEW i \in 1..s.len, g[i - 1] \in J
        PROVE  g[i] \in J
    <3>1. PICK c \in Slices(E, n) : c = g[i - 1] /\ Holds(c, r)
      BY <2>2
    <3>2. g[i] = Visit(c, i, doomed)
      BY <1>1, <3>1
    <3>3. i \in 1..n
      BY <1>0
    <3>4. c.array[i] \in E
      BY <3>3, SliceFacts
    <3>5. c.array[i] \in doomed => r.uid # c.array[i].uid
      BY <1>3, <3>4
    <3> QED BY <3>1, <3>2, <3>5, DeletionKeeps DEF Visit
  <2>3. \A i \in 0..s.len : g[i] \in J
    <3> HIDE DEF J
    <3> QED BY <1>0, <2>1, <2>2, LoopKeeps
  <2> QED BY <1>0, <1>1, <2>3
<1> QED BY <1>2, <1>3

-----------------------------------------------------------------------------
(***************************************************************************)
(* The loop over the listed workloads.                                     *)
(***************************************************************************)
Workload == [uid : 0..MaxStarts, created : Nat, finished : BOOLEAN]
Listed == [name : Names, wl : Workload]

(* What an iteration makes of the slice. *)
Forget(cur, e) == IF e.wl.finished THEN deleteFromActiveList(cur, e.wl.uid) ELSE cur

Forgets(g, s, list) == g = [i \in 0..Len(list) |-> IF i = 0 THEN s ELSE Forget(g[i - 1], list[i])]

LEMMA ForgetEnds ==
  ASSUME NEW E, NEW n \in Nat, NEW s \in Slices(E, n), NEW list \in Seq(Listed)
  PROVE  \E g : /\ g[0] = s
                /\ \A i \in 1..Len(list) : g[i] = Forget(g[i - 1], list[i])
                /\ trimFinished(s, list) = g[Len(list)]
<1> DEFINE N == Len(list)
           X == Slices(E, n)
           step == [i \in 1..N |-> [c \in X |-> Forget(c, list[i])]]
           h == CHOOSE g : Forgets(g, s, list)
<1>1. N \in Nat
  OBVIOUS
<1>2. step \in [1..N -> [X -> X]]
  <2>1. ASSUME NEW i \in 1..N, NEW c \in X
        PROVE  Forget(c, list[i]) \in X
    BY DeletionKeeps DEF Forget
  <2> HIDE DEF X, N
  <2> QED BY <2>1
<1>3. PICK g : Run(g, N, X, s, step)
  <2>1. s \in X
    OBVIOUS
  <2> HIDE DEF step, X, N, h
  <2>2. \A x \in X : \E g : Run(g, N, X, x, step)
    BY <1>1, <1>2, LoopRuns
  <2> QED BY <2>1, <2>2
<1>4. \A i \in 1..N : g[i] = Forget(g[i - 1], list[i])
  <2> SUFFICES ASSUME NEW i \in 1..N PROVE g[i] = Forget(g[i - 1], list[i])
    OBVIOUS
  <2>1. i - 1 \in 0..N
    BY <1>1
  <2>2. g[i - 1] \in X
    BY <1>3, <2>1 DEF Run
  <2>3. step[i][g[i - 1]] = Forget(g[i - 1], list[i])
    <3> HIDE DEF X, N
    <3> QED BY <2>2
  <2> QED BY <1>3, <2>3 DEF Run
<1>5. Forgets(g, s, list)
  <2> HIDE DEF X, step, N
  <2>1. g = [i \in 0..N |-> g[i]]
    BY <1>3 DEF Run
  <2>2. \A i \in 0..N : g[i] = IF i = 0 THEN s ELSE Forget(g[i - 1], list[i])
    BY <1>1, <1>3, <1>4 DEF Run
  <2>3. g = [i \in 0..N |-> IF i = 0 THEN s ELSE Forget(g[i - 1], list[i])]
    BY <2>1, <2>2
  <2> QED BY <2>3 DEF Forgets, N
<1>6. Forgets(h, s, list)
  BY <1>5
<1>7. trimFinished(s, list) = h[N]
  BY DEF trimFinished, Forgets, Forget
<1> HIDE DEF h, X, step
<1>8. h[0] = s /\ \A i \in 1..N : h[i] = Forget(h[i - 1], list[i])
  BY <1>1, <1>6 DEF Forgets
<1> QED BY <1>7, <1>8

(* An entry stays when no finished workload of the list has its uid. *)
LEMMA ForgettingKeeps ==
  ASSUME NEW E, NEW n \in Nat, NEW s \in Slices(E, n), NEW list \in Seq(Listed)
  PROVE  /\ trimFinished(s, list) \in Slices(E, n)
         /\ \A r : /\ Holds(s, r)
                   /\ \A i \in 1..Len(list) : list[i].wl.finished => list[i].wl.uid # r.uid
                   => Holds(trimFinished(s, list), r)
<1>0. Len(list) \in Nat
  OBVIOUS
<1>1. PICK g : /\ g[0] = s
               /\ \A i \in 1..Len(list) : g[i] = Forget(g[i - 1], list[i])
               /\ trimFinished(s, list) = g[Len(list)]
  BY ForgetEnds
<1>2. trimFinished(s, list) \in Slices(E, n)
  <2>1. \A i \in 1..Len(list) : g[i - 1] \in Slices(E, n) => g[i] \in Slices(E, n)
    BY <1>1, DeletionKeeps DEF Forget
  <2>2. \A i \in 0..Len(list) : g[i] \in Slices(E, n)
    BY <1>0, <1>1, <2>1, LoopKeeps
  <2> QED BY <1>0, <1>1, <2>2
<1>3. ASSUME NEW r, Holds(s, r), \A i \in 1..Len(list) : list[i].wl.finished => list[i].wl.uid # r.uid
      PROVE  Holds(trimFinished(s, list), r)
  <2> DEFINE J == {c \in Slices(E, n) : Holds(c, r)}
  <2>1. g[0] \in J
    BY <1>1, <1>3
  <2>2. ASSUME NEW i \in 1..Len(list), g[i - 1] \in J
        PROVE  g[i] \in J
    <3>1. PICK c \in Slices(E, n) : c = g[i - 1] /\ Holds(c, r)
      BY <2>2
    <3>2. g[i] = Forget(c, list[i])
      BY <1>1, <3>1
    <3> QED BY <1>3, <3>1, <3>2, DeletionKeeps DEF Forget
  <2>3. \A i \in 0..Len(list) : g[i] \in J
    <3> HIDE DEF J
    <3> QED BY <1>0, <2>1, <2>2, LoopKeeps
  <2> QED BY <1>0, <1>1, <2>3
<1> QED BY <1>2, <1>3

-----------------------------------------------------------------------------
(***************************************************************************)
(* What the sync makes of the active list.                                 *)
(***************************************************************************)
Entries(seq) == {seq[i] : i \in 1..Len(seq)}

LEMMA ContentFacts ==
  ASSUME NEW E, NEW n \in Nat, NEW s \in Slices(E, n)
  PROVE  /\ Content(s) \in Seq(E)
         /\ \A r : Holds(s, r) => r \in Entries(Content(s))
<1>1. s.len \in 0..n /\ s.array \in Seq(E) /\ Len(s.array) = n /\ s.array \in [1..n -> E]
  BY SliceFacts
<1>2. /\ Content(s) \in Seq(E) /\ Len(Content(s)) = s.len
      /\ \A i \in 1..s.len : Content(s)[i] = s.array[i]
  BY <1>1 DEF Content
<1> QED BY <1>2 DEF Holds, Entries

LEMMA SliceOfFacts ==
  ASSUME NEW active \in Seq(Ref)
  PROVE  /\ Len(active) \in Nat
         /\ SliceOf(active) \in Slices(Entries(active), Len(active))
         /\ \A r \in Entries(active) : Holds(SliceOf(active), r)
         /\ Entries(active) \subseteq Ref
<1>1. Len(active) \in Nat /\ active \in [1..Len(active) -> Ref]
  OBVIOUS
<1>2. active \in [1..Len(active) -> Entries(active)]
  BY <1>1 DEF Entries
<1>3. active \in Seq(Entries(active))
  BY <1>1, <1>2
<1>4. SliceOf(active).array = active /\ SliceOf(active).len = Len(active)
  BY DEF SliceOf
<1>5. SliceOf(active) \in Slices(Entries(active), Len(active))
  <2> DEFINE E == Entries(active)
  <2> HIDE DEF E
  <2>1. active \in Seq(E)
    BY <1>3 DEF E
  <2>2. SliceOf(active) \in Slices(E, Len(active))
    BY <1>1, <2>1 DEF SliceOf, Slices
  <2> QED BY <2>2 DEF E
<1>6. Entries(active) \subseteq Ref
  BY <1>1 DEF Entries
<1>7. \A r \in Entries(active) : Holds(SliceOf(active), r)
  BY <1>4 DEF Entries, Holds
<1> QED BY <1>1, <1>5, <1>6, <1>7

(***************************************************************************)
(* The trimmed list has no new entry, and it keeps those of workloads that *)
(* are on the server and of which no finished copy was listed.             *)
(***************************************************************************)
LEMMA TrimKeeps ==
  ASSUME NEW active \in Seq(Ref), NEW list \in Seq(Listed)
  PROVE  /\ trimFinishedWorkloadsFromActiveList(active, list) \in Seq(Entries(active))
         /\ \A r \in Entries(active) :
              /\ \A e \in Entries(active) : e.uid = r.uid => e = r
              /\ \A i \in 1..Len(list) : list[i].wl.finished => list[i].wl.uid # r.uid
              /\ Exists(wls[r.name])
              => r \in Entries(trimFinishedWorkloadsFromActiveList(active, list))
<1> DEFINE E == Entries(active)
           n == Len(active)
           s == SliceOf(active)
           mid == trimFinished(s, list)
           doomed == {r \in Ref : /\ \A i \in DOMAIN list : list[i].wl.uid # r.uid
                                  /\ ~Exists(wls[r.name])}
           end == DeleteWhileRanging(mid, doomed)
<1>1. n \in Nat /\ s \in Slices(E, n) /\ \A r \in E : Holds(s, r)
  BY SliceOfFacts
<1>2. trimFinishedWorkloadsFromActiveList(active, list) = Content(end)
  BY DEF trimFinishedWorkloadsFromActiveList, trimMissing
<1> HIDE DEF n, s, E
<1>3. mid \in Slices(E, n)
  BY <1>1, ForgettingKeeps
<1>4. end \in Slices(E, n)
  <2> HIDE DEF mid, doomed
  <2> QED BY <1>1, <1>3, RangingKeeps
<1>5. Content(end) \in Seq(E)
  <2> HIDE DEF end
  <2> QED BY <1>1, <1>4, ContentFacts
<1>6. ASSUME NEW r \in E,
             \A e \in E : e.uid = r.uid => e = r,
             \A i \in 1..Len(list) : list[i].wl.finished => list[i].wl.uid # r.uid,
             Exists(wls[r.name])
      PROVE  r \in Entries(Content(end))
  <2>1. Holds(mid, r)
    BY <1>1, <1>6, ForgettingKeeps
  <2>2. \A e \in E : e.uid = r.uid => e \notin doomed
    BY <1>6
  <2>3. Holds(end, r)
    <3> HIDE DEF mid, doomed
    <3> QED BY <1>1, <1>3, <2>1, <2>2, RangingKeeps
  <2> HIDE DEF end
  <2> QED BY <1>1, <1>4, <2>3, ContentFacts
<1> HIDE DEF end
<1> QED BY <1>2, <1>5, <1>6 DEF E

(* The list without what deleteWorkload takes off has no new entry. *)
LEMMA ReplacedFacts ==
  ASSUME NEW active \in Seq(Ref)
  PROVE  Replaced(active) \in Seq(Ref) /\ Entries(Replaced(active)) \subseteq Entries(active)
<1> DEFINE E == Entries(active)
           n == Len(active)
           s == SliceOf(active)
           end == DeleteWhileRanging(s, Ref)
<1>1. n \in Nat /\ s \in Slices(E, n) /\ E \subseteq Ref
  BY SliceOfFacts
<1>2. Content(end) \in Seq(E)
  <2> HIDE DEF n, s, E
  <2>1. end \in Slices(E, n)
    BY <1>1, RangingKeeps
  <2> HIDE DEF end
  <2> QED BY <1>1, <2>1, ContentFacts
<1>3. Replaced(active) = Content(end) \/ Replaced(active) = active
  BY DEF Replaced
<1>4. CASE Replaced(active) = active
  BY <1>4
<1>5. CASE Replaced(active) = Content(end)
  <2> HIDE DEF E, end
  <2> QED BY <1>1, <1>2, <1>5 DEF Entries, E
<1> QED BY <1>3, <1>4, <1>5

-----------------------------------------------------------------------------
(***************************************************************************)
(* What listActiveWorkloads returns.                                       *)
(***************************************************************************)
(* What an iteration adds for the i-th entry of the list. *)
Lookup(found, active, cache, i) ==
  IF Exists(cache[active[i].name])
  THEN Append(found, [name |-> active[i].name, wl |-> cache[active[i].name]])
  ELSE found

Lookups(g, active, cache) ==
  g = [i \in 0..Len(active) |-> IF i = 0 THEN << >> ELSE Lookup(g[i - 1], active, cache, i)]

(* The copies in the cache of workloads that the list names. *)
Copies(cache, active) ==
  {e \in Listed : /\ Exists(e.wl) /\ e.wl = cache[e.name]
                  /\ \E q \in Entries(active) : q.name = e.name}

(* What is listed are copies in the cache. *)
LEMMA ListFacts ==
  ASSUME status.active \in Seq(Ref), cached \in [Names -> Workload]
  PROVE  listActiveWorkloads \in Seq(Copies(cached, status.active))
<1>0. PICK active \in Seq(Ref), cache \in [Names -> Workload] : active = status.active /\ cache = cached
  OBVIOUS
<1> DEFINE N == Len(active)
           X == Seq(Copies(cache, active))
           step == [i \in 1..N |-> [f \in X |-> Lookup(f, active, cache, i)]]
           h == CHOOSE g : Lookups(g, active, cache)
<1>1. N \in Nat
  OBVIOUS
<1>2. ASSUME NEW i \in 1..N, NEW f \in X
      PROVE  Lookup(f, active, cache, i) \in X
  <2>0. active[i] \in Ref
    OBVIOUS
  <2>1. active[i].name \in Names /\ active[i] \in Entries(active)
    BY <2>0 DEF Ref, Entries
  <2>2. Exists(cache[active[i].name])
          => [name |-> active[i].name, wl |-> cache[active[i].name]] \in Copies(cache, active)
    BY <2>1 DEF Copies, Listed
  <2> QED BY <2>2 DEF Lookup
<1>3. step \in [1..N -> [X -> X]]
  <2> HIDE DEF X, N
  <2> QED BY <1>2
<1>4. PICK g : Run(g, N, X, << >>, step)
  <2>1. << >> \in X
    OBVIOUS
  <2> HIDE DEF step, X, N, h
  <2>2. \A x \in X : \E g : Run(g, N, X, x, step)
    BY <1>1, <1>3, LoopRuns
  <2> QED BY <2>1, <2>2
<1>5. \A i \in 1..N : g[i] = Lookup(g[i - 1], active, cache, i)
  <2> SUFFICES ASSUME NEW i \in 1..N PROVE g[i] = Lookup(g[i - 1], active, cache, i)
    OBVIOUS
  <2>1. i - 1 \in 0..N
    BY <1>1
  <2>2. g[i - 1] \in X
    BY <1>4, <2>1 DEF Run
  <2>3. step[i][g[i - 1]] = Lookup(g[i - 1], active, cache, i)
    <3> HIDE DEF X, N
    <3> QED BY <2>2
  <2> QED BY <1>4, <2>3 DEF Run
<1>6. Lookups(g, active, cache)
  <2> HIDE DEF X, step, N
  <2>1. g = [i \in 0..N |-> g[i]]
    BY <1>4 DEF Run
  <2>2. \A i \in 0..N : g[i] = IF i = 0 THEN << >> ELSE Lookup(g[i - 1], active, cache, i)
    BY <1>1, <1>4, <1>5 DEF Run
  <2>3. g = [i \in 0..N |-> IF i = 0 THEN << >> ELSE Lookup(g[i - 1], active, cache, i)]
    BY <2>1, <2>2
  <2> QED BY <2>3 DEF Lookups, N
<1>7. Lookups(h, active, cache)
  BY <1>6
<1>8. listActiveWorkloads = h[N]
  BY <1>0 DEF listActiveWorkloads, Lookups, Lookup
<1> HIDE DEF h, step
<1>9. h[0] = << >> /\ \A i \in 1..N : h[i] = Lookup(h[i - 1], active, cache, i)
  BY <1>1, <1>7 DEF Lookups
<1>10. h[0] \in X /\ \A i \in 1..N : h[i - 1] \in X => h[i] \in X
  BY <1>2, <1>9
<1>11. \A i \in 0..N : h[i] \in X
  <2> HIDE DEF X, N
  <2> QED BY <1>1, <1>10, LoopKeeps
<1> QED BY <1>0, <1>1, <1>8, <1>11

-----------------------------------------------------------------------------
(***************************************************************************)
(* The ticks.                                                              *)
(***************************************************************************)
(* The schedule has a first tick and then one in each period, up to the bound of time. *)
RegularSchedule ==
  \E first, period \in Nat \ {0} :
    \A t \in 0..MaxTime : t \in Schedule <=> \E k \in Nat : t = first + k * period

LEMMA NextTickFacts ==
  ASSUME NEW t \in 0..MaxTime + 4
  PROVE  /\ NextTick[t] \in Schedule /\ NextTick[t] \in Nat /\ NextTick[t] > t
         /\ \A s \in Schedule : s > t => NextTick[t] <= s
<1> DEFINE S == {s \in Schedule : s > t}
<1>1. S \in SUBSET Nat /\ S # {}
  BY CronAssumption
<1>2. NextTick[t] = Min(S)
  BY DEF NextTick
<1>3. \E m \in S : \A n \in S : m <= n
  <2> HIDE DEF S
  <2> QED BY <1>1, LeastNumber
<1>4. Min(S) \in S /\ \A n \in S : Min(S) <= n
  <2> HIDE DEF S
  <2> QED BY <1>3 DEF Min
<1> QED BY <1>1, <1>2, <1>4

(* Division rounds down. *)
LEMMA Division ==
  ASSUME NEW a \in Nat, NEW d \in Nat \ {0}
  PROVE  a \div d \in Nat /\ (a \div d) * d <= a /\ (a \div d) * d >= 0
<1>1. a \div d \in Nat
  OBVIOUS
<1>2. a = d * (a \div d) + (a % d) /\ a % d \in 0..d - 1
  OBVIOUS
<1> QED BY <1>1, <1>2

(* In a regular schedule the ticks are a period apart. *)
LEMMA RegularFacts ==
  ASSUME RegularSchedule, NEW t1 \in Schedule, NEW t2 \in Schedule, NEW q \in Nat,
         t1 <= MaxTime, t2 <= MaxTime, t2 > t1,
         \A s \in Schedule : s > t1 => t2 <= s,
         t1 + q * (t2 - t1) <= MaxTime
  PROVE  t1 + q * (t2 - t1) \in Schedule
<1>0. MaxTime \in Nat /\ t1 \in 0..MaxTime /\ t2 \in 0..MaxTime
  BY CronAssumption
<1>1. PICK first, period \in Nat \ {0} :
        \A t \in 0..MaxTime : t \in Schedule <=> \E k \in Nat : t = first + k * period
  BY DEF RegularSchedule
<1>2. PICK j \in Nat : t1 = first + j * period
  BY <1>0, <1>1
<1>3. PICK k \in Nat : t2 = first + k * period
  BY <1>0, <1>1
<1>4. j < k
  <2>1. SUFFICES ASSUME j >= k PROVE FALSE
    OBVIOUS
  <2>2. PICK e \in Nat : j = k + e
    <3>1. j - k \in Nat /\ j = k + (j - k)
      BY <2>1
    <3> QED BY <3>1
  <2>3. j * period = k * period + e * period /\ e * period >= 0
    BY <2>2
  <2> QED BY <1>2, <1>3, <2>3, <1>0
<1>5. (j + 1) * period <= k * period
  <2>1. PICK e \in Nat : k = (j + 1) + e
    <3>1. k - (j + 1) \in Nat /\ k = (j + 1) + (k - (j + 1))
      BY <1>4
    <3> QED BY <3>1
  <2>2. k * period = (j + 1) * period + e * period /\ e * period >= 0
    BY <2>1
  <2>3. (j + 1) * period \in Nat /\ k * period \in Nat /\ e * period \in Nat
    OBVIOUS
  <2> QED BY <2>2, <2>3
<1>6. t2 = first + (j + 1) * period
  <2> DEFINE u == first + (j + 1) * period
  <2>1. (j + 1) * period = j * period + period /\ j * period \in Nat /\ k * period \in Nat
    OBVIOUS
  <2>2. u \in Nat /\ u <= t2 /\ u > t1
    BY <1>0, <1>2, <1>3, <1>5, <2>1
  <2>3. u \in 0..MaxTime
    BY <1>0, <2>2
  <2>4. u \in Schedule
    <3>1. j + 1 \in Nat
      OBVIOUS
    <3> QED BY <1>1, <2>3, <3>1
  <2>5. t2 <= u
    <3> HIDE DEF u
    <3> QED BY <2>2, <2>4
  <2>6. t2 = u
    <3> HIDE DEF u
    <3> QED BY <1>0, <2>2, <2>5
  <2> QED BY <2>6
<1>7. t2 - t1 = period
  <2>1. (j + 1) * period = j * period + period /\ j * period \in Nat
    OBVIOUS
  <2> QED BY <1>2, <1>6, <2>1
<1>8. t1 + q * (t2 - t1) = first + (j + q) * period /\ t1 + q * (t2 - t1) \in Nat
  <2>1. t1 + q * (t2 - t1) = (first + j * period) + q * period
    BY <1>2, <1>7
  <2>2. (j + q) * period = j * period + q * period /\ j * period \in Nat /\ q * period \in Nat
    OBVIOUS
  <2> QED BY <2>1, <2>2
<1>9. j + q \in Nat
  OBVIOUS
<1> QED BY <1>0, <1>1, <1>8, <1>9

(* The tick the worker finds has come and is later than the last one. *)
LEMMA TickFacts ==
  ASSUME NEW last \in 0..MaxTime, NEW now \in 1..MaxTime,
         getNextScheduleTime(last, now) # NoTime
  PROVE  /\ getNextScheduleTime(last, now) \in 1..now
         /\ getNextScheduleTime(last, now) > last
         /\ RegularSchedule => getNextScheduleTime(last, now) \in Schedule
<1> DEFINE t1 == NextTick[last]
           t2 == NextTick[t1]
           d  == t2 - t1
           q  == (now - t1) \div d
           late == t1 + ((q + 1) - 1) * d
           r  == IF now < t1 THEN NoTime ELSE IF now < t2 THEN t1 ELSE late
<1>0. MaxTime \in Nat \ {0}
  BY CronAssumption
<1>1. getNextScheduleTime(last, now) = IF last > now THEN NoTime ELSE r
  BY DEF getNextScheduleTime, getMostRecentScheduleTime
<1>2. last <= now /\ getNextScheduleTime(last, now) = r /\ r # NoTime
  <2> HIDE DEF r
  <2> QED BY <1>0, <1>1
<1>3. last \in 0..MaxTime + 4
  BY <1>0
<1>4. t1 \in Schedule /\ t1 \in Nat /\ t1 > last
  BY <1>3, NextTickFacts
<1> HIDE DEF t1
<1>5. now >= t1 /\ r = IF now < t2 THEN t1 ELSE late
  <2> HIDE DEF t2, late
  <2> QED BY <1>2, <1>4
<1>6. t1 \in 0..MaxTime + 4 /\ t1 \in 1..now /\ t1 <= MaxTime
  BY <1>0, <1>4, <1>5
<1>7. t2 \in Schedule /\ t2 \in Nat /\ t2 > t1 /\ \A s \in Schedule : s > t1 => t2 <= s
  BY <1>6, NextTickFacts
<1> HIDE DEF t2
<1>8. CASE now < t2
  BY <1>2, <1>4, <1>5, <1>6, <1>8
<1>9. CASE ~(now < t2)
  <2>1. d \in Nat \ {0} /\ now - t1 \in Nat /\ t2 <= MaxTime
    BY <1>0, <1>5, <1>6, <1>7, <1>9
  <2>2. q \in Nat /\ q * d <= now - t1 /\ q * d >= 0
    <3> HIDE DEF d
    <3>1. \A a \in Nat : a \div d \in Nat /\ (a \div d) * d <= a /\ (a \div d) * d >= 0
      BY <2>1, Division
    <3> QED BY <2>1, <3>1
  <2> HIDE DEF q
  <2>3. late = t1 + q * d
    BY <2>2
  <2>4. q * d \in Nat
    <3> HIDE DEF d
    <3> QED BY <2>1, <2>2
  <2>5. late \in t1..now
    <3> DEFINE x == q * d
    <3> HIDE DEF d, x
    <3>1. x \in Nat /\ x <= now - t1 /\ late = t1 + x
      BY <2>2, <2>3, <2>4 DEF x
    <3> HIDE DEF late
    <3> QED BY <1>6, <3>1
  <2>6. late \in 1..now /\ late > last /\ late <= MaxTime
    <3> HIDE DEF late
    <3> QED BY <1>0, <1>4, <1>6, <2>5
  <2>7. RegularSchedule => late \in Schedule
    <3>1. t1 + q * (t2 - t1) <= MaxTime
      <4> HIDE DEF late
      <4> QED BY <2>3, <2>6
    <3> HIDE DEF late
    <3>2. RegularSchedule => t1 + q * (t2 - t1) \in Schedule
      BY <1>4, <1>6, <1>7, <2>1, <2>2, <3>1, RegularFacts
    <3> QED BY <2>3, <3>2
  <2> HIDE DEF late
  <2> QED BY <1>2, <1>5, <1>9, <2>6, <2>7
<1> QED BY <1>8, <1>9

-----------------------------------------------------------------------------
(***************************************************************************)
(* The inductive invariant.                                                *)
(***************************************************************************)
Pcs == {"idle", "sync", "create", "record"}
StatusWith(h) == [active : Seq(Ref), history : {h}, last : 0..MaxTime]
WorkerWith(h) == [pc : Pcs, st : StatusWith(h), own : BOOLEAN, list : Seq(Listed),
                  now : 0..MaxTime, tick : 0..MaxTime]

(* The types, without those of the history. *)
TypeInv ==
  /\ status \in StatusWith(status.history) /\ worker \in WorkerWith(worker.st.history)
  /\ wls \in [Names -> Workload] /\ cached \in [Names -> Workload]
  /\ clock \in 1..MaxTime /\ starts \in Seq(1..MaxTime) /\ Len(starts) <= MaxStarts
  /\ lost \in BOOLEAN

(* What the worker carries from the server, and the tick it starts. *)
Carried ==
  /\ worker.pc = "sync" => worker.st.active = status.active /\ worker.st.last = status.last
  /\ worker.pc = "create" => /\ worker.tick \in 1..clock /\ worker.tick > status.last
                             /\ RegularSchedule => worker.tick \in Schedule
  /\ worker.pc = "record" => worker.st.last > status.last

(* The uids given so far are those up to k. *)
Given(active, k) == \A r \in Entries(active) : r.uid <= k

Numbered ==
  /\ \A n \in Names : wls[n].uid <= Len(starts) /\ cached[n].uid <= Len(starts)
  /\ \A i \in 1..Len(worker.list) : worker.list[i].wl.uid <= Len(starts)
  /\ Given(status.active, Len(starts)) /\ Given(worker.st.active, Len(starts))

Distinct == \A m, n \in Names : wls[m].uid = wls[n].uid /\ Exists(wls[m]) => m = n

(* A copy of a workload in ws that says finished is right. *)
Aged(copy, ws) == \A m \in Names : copy.uid = ws[m].uid /\ Exists(ws[m]) /\ copy.finished => ws[m].finished

Copied ==
  /\ \A n \in Names : Aged(cached[n], wls)
  /\ \A i \in 1..Len(worker.list) : Aged(worker.list[i].wl, wls)

(* An entry with the uid of a workload has its name. *)
Owned(active, ws) == \A r \in Entries(active), n \in Names : r.uid = ws[n].uid /\ Exists(ws[n]) => r.name = n

RefsMatch == Owned(status.active, wls) /\ Owned(worker.st.active, wls)

Running(n) == Exists(wls[n]) /\ ~wls[n].finished
RefTo(n) == [name |-> n, uid |-> wls[n].uid]

(* Under Forbid a workload that runs is recorded, and the worker creates none while it is. *)
Forbidden ==
  policy = "Forbid" =>
    /\ worker.pc \in {"create", "record"} => status.active = << >>
    /\ worker.pc = "create" => worker.st.active = << >>
    /\ ~lost => \A n \in Names : Running(n) =>
         \/ RefTo(n) \in Entries(status.active)
         \/ worker.pc = "record" /\ RefTo(n) \in Entries(worker.st.active)
    /\ ~lost => \A m, n \in Names : Running(m) /\ Running(n) => m = n

LastTick == IF worker.pc = "record" THEN worker.st.last ELSE status.last

(* The ticks that were started. *)
Begun ==
  /\ \A i \in 1..Len(starts) : starts[i] <= clock /\ (RegularSchedule => starts[i] \in Schedule)
  /\ ~lost => \A i \in 1..Len(starts) : starts[i] <= LastTick
  /\ ~lost => \A i, j \in 1..Len(starts) : i < j => starts[i] < starts[j]

IInv == TypeInv /\ Carried /\ Numbered /\ Distinct /\ Copied /\ RefsMatch /\ Forbidden /\ Begun

-----------------------------------------------------------------------------
(***************************************************************************)
(* The steps.                                                              *)
(***************************************************************************)
LEMMA EntriesFacts ==
  /\ Entries(<< >>) = {}
  /\ \A seq \in Seq(Ref), e \in Ref : Entries(Append(seq, e)) = Entries(seq) \cup {e}
<1>1. Entries(<< >>) = {}
  BY DEF Entries
<1>2. ASSUME NEW seq \in Seq(Ref), NEW e \in Ref
      PROVE  Entries(Append(seq, e)) = Entries(seq) \cup {e}
  <2> DEFINE L == Len(seq)
             new == Append(seq, e)
  <2>1. L \in Nat /\ Len(new) = L + 1 /\ new[L + 1] = e /\ \A i \in 1..L : new[i] = seq[i]
    OBVIOUS
  <2>2. \A i : i \in 1..L + 1 <=> i \in 1..L \/ i = L + 1
    BY <2>1
  <2> HIDE DEF L, new
  <2>3. Entries(new) = {new[i] : i \in 1..L + 1} /\ Entries(seq) = {seq[i] : i \in 1..L}
    BY <2>1 DEF Entries, L
  <2>4. \A x \in Entries(new) : x \in Entries(seq) \cup {e}
    BY <2>1, <2>2, <2>3
  <2>5. \A x \in Entries(seq) \cup {e} : x \in Entries(new)
    BY <2>1, <2>2, <2>3
  <2> QED BY <2>4, <2>5 DEF new
<1> QED BY <1>1, <1>2

LEMMA IdleFacts ==
  /\ Idle \in WorkerWith(Idle.st.history)
  /\ Idle.pc = "idle" /\ Idle.st.active = << >> /\ Idle.list = << >>
<1>1. Idle.pc = "idle" /\ Idle.st.active = << >> /\ Idle.list = << >> /\ Idle.st.history = << >>
  BY DEF Idle
<1>2. Idle \in WorkerWith(<< >>)
  BY CronAssumption DEF Idle, WorkerWith, StatusWith, Pcs, NoTime
<1> QED BY <1>1, <1>2

(* Nothing of what the invariant is about changes. *)
Quiet ==
  /\ worker'.pc = worker.pc /\ worker'.st = worker.st /\ worker'.list = worker.list
  /\ worker'.tick = worker.tick /\ worker' \in WorkerWith(worker'.st.history)
  /\ UNCHANGED <<policy, status, wls, cached, clock, starts, lost>>

(* The sync ends early. *)
Ended ==
  /\ worker' = Idle /\ cached' \in {cached, wls}
  /\ lost' = (lost \/ worker.pc = "record")
  /\ UNCHANGED <<policy, status, wls, clock, starts>>

(* The sync goes on with a workload that exists and whose uid it does not know. *)
Adopted ==
  /\ At("create") /\ Started(NoUid) /\ ~inActiveList(worker.st.active, NoUid)
  /\ UNCHANGED <<policy, status, wls, cached, clock, starts, lost>>

LEMMA StepCases ==
  ASSUME TypeInv, [Next]_vars
  PROVE  \/ Quiet \/ Ended \/ Reconcile \/ SyncCron \/ Create \/ Adopted \/ Record \/ Tick
         \/ \E n \in Names : DeliverWorkload(n) \/ WorkloadFinishes(n) \/ WorkloadDeleted(n)
<1>0. worker \in WorkerWith(worker.st.history) /\ lost \in BOOLEAN
  BY DEF TypeInv
<1>1. CASE SyncFails
  BY <1>1 DEF SyncFails, Failed, Ended, At, object
<1>2. CASE CreateFails
  BY <1>0, <1>2 DEF CreateFails, Failed, Ended, At, object
<1>3. CASE Crash
  BY <1>3 DEF Crash, Ended, At, object
<1>4. CASE DeliverCron \/ TimerFires \/ UNCHANGED vars
  BY <1>0, <1>4 DEF DeliverCron, TimerFires, Quiet, vars, object
<1>5. CASE UserEdits
  <2>1. worker' = [worker EXCEPT !.own = At("idle")] /\ At("idle") \in BOOLEAN
    BY <1>5 DEF UserEdits, At
  <2>2. /\ worker' \in WorkerWith(worker.st.history)
        /\ worker'.pc = worker.pc /\ worker'.st = worker.st /\ worker'.list = worker.list
        /\ worker'.tick = worker.tick
    BY <1>0, <2>1 DEF WorkerWith
  <2> QED BY <1>5, <2>2 DEF Quiet, UserEdits
<1>6. CASE CreateAlreadyExists
  BY <1>0, <1>6 DEF CreateAlreadyExists, Failed, Ended, Adopted, At, object
<1> QED BY <1>1, <1>2, <1>3, <1>4, <1>5, <1>6 DEF Next, Worker

LEMMA Unpacked ==
  ASSUME TypeInv
  PROVE  /\ status.active \in Seq(Ref) /\ status.last \in 0..MaxTime
         /\ worker.st.active \in Seq(Ref) /\ worker.st.last \in 0..MaxTime
         /\ worker.st \in StatusWith(worker.st.history)
         /\ worker.list \in Seq(Listed) /\ worker.tick \in 0..MaxTime /\ worker.pc \in Pcs
         /\ Len(starts) \in Nat /\ MaxTime \in Nat \ {0} /\ MaxStarts \in Nat
BY SMTT(30), CronAssumption DEF TypeInv, StatusWith, WorkerWith

LEMMA CopiesListed ==
  ASSUME NEW cache, NEW active, NEW list \in Seq(Copies(cache, active))
  PROVE  /\ list \in Seq(Listed)
         /\ \A i \in 1..Len(list) : /\ list[i].name \in Names /\ list[i].wl = cache[list[i].name]
                                    /\ Exists(list[i].wl)
                                    /\ \E q \in Entries(active) : q.name = list[i].name
<1>1. /\ Copies(cache, active) \subseteq Listed
      /\ \A e \in Copies(cache, active) : /\ e.name \in Names /\ e.wl = cache[e.name] /\ Exists(e.wl)
                                          /\ \E q \in Entries(active) : q.name = e.name
  BY DEF Copies, Listed
<1>2. \A i \in 1..Len(list) : list[i] \in Copies(cache, active)
  OBVIOUS
<1> QED BY <1>1, <1>2

(* Reconcile hands the status and the copies in the cache to the sync. *)
LEMMA ReconcileDoes ==
  ASSUME TypeInv, Reconcile
  PROVE  /\ status' \in StatusWith(status'.history)
         /\ status'.active = status.active /\ status'.last = status.last
         /\ worker' \in WorkerWith(worker'.st.history)
         /\ worker'.pc = "sync" /\ worker'.st.active = status.active /\ worker'.st.last = status.last
         /\ worker'.list \in Seq(Copies(cached, status.active))
         /\ status'.history = refreshedHistory(worker'.list) /\ worker'.st.history = status'.history
         /\ UNCHANGED <<policy, wls, cached, clock, starts, lost>>
<1>1. PICK list, history :
        /\ list = listActiveWorkloads /\ history = refreshedHistory(list)
        /\ status' = [status EXCEPT !.history = history]
        /\ worker' = [Idle EXCEPT !.pc = "sync", !.st = [status EXCEPT !.history = history], !.list = list]
  BY DEF Reconcile, Put
<1>2. list \in Seq(Copies(cached, status.active))
  BY <1>1, ListFacts, Unpacked DEF TypeInv
<1>3. list \in Seq(Listed)
  BY <1>2, CopiesListed
<1>4. status \in StatusWith(status.history)
  BY DEF TypeInv
<1> DEFINE st == [status EXCEPT !.history = history]
<1>5. /\ st \in StatusWith(history) /\ st.history = history
      /\ st.active = status.active /\ st.last = status.last
  BY <1>4 DEF StatusWith
<1> HIDE DEF st
<1>6. worker' = [Idle EXCEPT !.pc = "sync", !.st = st, !.list = list] /\ status' = st
  BY <1>1 DEF st
<1>7. /\ worker' \in WorkerWith(history) /\ worker'.st = st /\ worker'.pc = "sync" /\ worker'.list = list
  <2>1. worker' = [pc |-> "sync", st |-> st, own |-> TRUE, list |-> list, now |-> 0, tick |-> 0]
    BY <1>6 DEF Idle, NoTime
  <2>2. 0 \in 0..MaxTime
    BY CronAssumption
  <2> QED BY <1>3, <1>5, <2>1, <2>2 DEF WorkerWith, Pcs
<1> QED BY <1>1, <1>2, <1>5, <1>6, <1>7 DEF Reconcile

(* SyncCron trims the list, and when it starts a workload the policy allows it. *)
LEMMA SyncCronDoes ==
  ASSUME TypeInv, Carried, SyncCron
  PROVE  /\ status' \in StatusWith(status'.history) /\ worker.pc = "sync"
         /\ status'.active = trimFinishedWorkloadsFromActiveList(worker.st.active, worker.list)
         /\ status'.active \in Seq(Entries(worker.st.active)) /\ status'.active \in Seq(Ref)
         /\ status'.last = worker.st.last /\ status'.history = worker.st.history
         /\ worker' \in WorkerWith(worker'.st.history)
         /\ \/ worker' = Idle
            \/ /\ worker'.pc = "create" /\ worker'.list = worker.list
               /\ worker'.st.last = worker.st.last /\ worker'.st.history = worker.st.history
               /\ worker'.st.active = Replaced(status'.active)
               /\ policy = "Forbid" => status'.active = << >>
               /\ worker'.tick \in 1..clock /\ worker'.tick > worker.st.last
               /\ RegularSchedule => worker'.tick \in Schedule
         /\ UNCHANGED <<policy, wls, cached, clock, starts, lost>>
<1> DEFINE trimmed == trimFinishedWorkloadsFromActiveList(worker.st.active, worker.list)
           due == getNextScheduleTime(worker.st.last, clock)
<1>0. clock \in 1..MaxTime /\ worker \in WorkerWith(worker.st.history)
  BY DEF TypeInv
<1>1. trimmed \in Seq(Entries(worker.st.active)) /\ trimmed \in Seq(Ref)
  <2>1. trimmed \in Seq(Entries(worker.st.active))
    BY Unpacked, TrimKeeps
  <2>2. Entries(worker.st.active) \subseteq Ref
    BY Unpacked, SliceOfFacts
  <2> HIDE DEF trimmed
  <2> QED BY <2>1, <2>2
<1>2. due # NoTime => due \in 1..clock /\ due > worker.st.last /\ (RegularSchedule => due \in Schedule)
  BY <1>0, Unpacked, TickFacts
<1> HIDE DEF due, trimmed
<1> DEFINE st == [worker.st EXCEPT !.active = trimmed]
           next == [st EXCEPT !.active = Replaced(trimmed)]
<1>3. /\ status' = st
      /\ \/ worker' = Idle
         \/ /\ due # NoTime /\ due # st.last /\ MayStart(trimmed)
            /\ worker' = [worker EXCEPT !.pc = "create", !.now = clock, !.tick = due, !.st = next]
  <2> HIDE DEF Idle
  <2> QED BY DEF SyncCron, Put, Requeue, due, trimmed
<1>4. Replaced(trimmed) \in Seq(Ref)
  BY <1>1, ReplacedFacts
<1>5. /\ st \in StatusWith(worker.st.history) /\ st.active = trimmed /\ st.last = worker.st.last
      /\ st.history = worker.st.history
      /\ next \in StatusWith(worker.st.history) /\ next.active = Replaced(trimmed)
      /\ next.last = worker.st.last /\ next.history = worker.st.history
  BY <1>1, <1>4, Unpacked DEF StatusWith
<1>6. worker.pc = "sync" /\ UNCHANGED <<policy, wls, cached, clock, starts, lost>>
  BY DEF SyncCron, At
<1> HIDE DEF st, next
<1>7. CASE worker' = Idle
  BY <1>1, <1>3, <1>5, <1>6, <1>7, IdleFacts DEF trimmed
<1>8. CASE /\ due # NoTime /\ due # st.last /\ MayStart(trimmed)
           /\ worker' = [worker EXCEPT !.pc = "create", !.now = clock, !.tick = due, !.st = next]
  <2>1. clock \in 0..MaxTime /\ due \in 0..MaxTime
    BY <1>0, <1>2, <1>8, Unpacked
  <2>2. /\ worker' \in WorkerWith(worker.st.history) /\ worker'.pc = "create" /\ worker'.list = worker.list
        /\ worker'.st = next /\ worker'.tick = due
    BY <1>0, <1>5, <1>8, <2>1 DEF WorkerWith, Pcs
  <2>3. policy = "Forbid" => trimmed = << >>
    BY <1>8 DEF MayStart
  <2> QED BY <1>1, <1>2, <1>3, <1>5, <1>6, <1>8, <2>2, <2>3 DEF trimmed
<1> QED BY <1>3, <1>7, <1>8

(* No entry is new. *)
LEMMA SyncCronEntries ==
  ASSUME TypeInv, Carried, SyncCron
  PROVE  /\ Entries(status'.active) \subseteq Entries(worker.st.active)
         /\ Entries(worker'.st.active) \subseteq Entries(worker.st.active)
<1>1. Entries(status'.active) \subseteq Entries(worker.st.active)
  <2>1. status'.active \in Seq(Entries(worker.st.active))
    BY SyncCronDoes
  <2> DEFINE E == Entries(worker.st.active)
  <2> HIDE DEF E
  <2>2. status'.active \in Seq(E)
    BY <2>1 DEF E
  <2>3. Entries(status'.active) \subseteq E
    BY <2>2 DEF Entries
  <2> QED BY <2>3 DEF E
<1>2. Entries(Replaced(status'.active)) \subseteq Entries(status'.active)
  BY SyncCronDoes, ReplacedFacts
<1> QED BY <1>1, <1>2, SyncCronDoes, IdleFacts, EntriesFacts

(* The worker goes on to record the workload of its tick. *)
LEMMA StartedDoes ==
  ASSUME TypeInv, Carried, At("create"), NEW uid \in 0..MaxStarts, Started(uid)
  PROVE  /\ worker' \in WorkerWith(worker'.st.history) /\ worker'.pc = "record"
         /\ worker'.list = worker.list /\ worker'.st.last = worker.tick
         /\ worker'.st.history = worker.st.history
         /\ newName \in Names /\ [name |-> newName, uid |-> uid] \in Ref
         /\ worker'.st.active = Append(worker.st.active, [name |-> newName, uid |-> uid])
<1>0. clock \in 1..MaxTime /\ worker \in WorkerWith(worker.st.history) /\ worker.tick \in 1..clock
  BY DEF TypeInv, Carried, At
<1>1. newName \in Names
  BY <1>0, Unpacked DEF newName, Names, Ticks
<1>2. [name |-> newName, uid |-> uid] \in Ref
  BY <1>1 DEF Ref
<1> DEFINE active == Append(worker.st.active, [name |-> newName, uid |-> uid])
           st == [worker.st EXCEPT !.last = worker.tick, !.active = active]
<1>3. active \in Seq(Ref)
  BY <1>2, Unpacked
<1>4. worker' = [worker EXCEPT !.pc = "record", !.st = st]
  <2>1. worker' = [worker EXCEPT !.pc = "record", !.st.last = worker.tick, !.st.active = active]
    BY DEF Started
  <2> HIDE DEF active
  <2> QED BY <1>0, <2>1 DEF WorkerWith, StatusWith
<1> HIDE DEF active
<1>5. /\ st \in StatusWith(worker.st.history) /\ st.history = worker.st.history
      /\ st.last = worker.tick /\ st.active = active
  BY <1>3, Unpacked DEF StatusWith
<1> HIDE DEF st
<1>6. /\ worker' \in WorkerWith(worker.st.history) /\ worker'.pc = "record" /\ worker'.list = worker.list
      /\ worker'.st = st
  BY <1>0, <1>4, <1>5 DEF WorkerWith, Pcs
<1> QED BY <1>1, <1>2, <1>5, <1>6 DEF active

LEMMA AdoptedDoes ==
  ASSUME TypeInv, Carried, Adopted
  PROVE  /\ worker' \in WorkerWith(worker'.st.history) /\ worker'.pc = "record" /\ worker.pc = "create"
         /\ worker'.list = worker.list /\ worker'.st.last = worker.tick
         /\ worker'.st.history = worker.st.history
         /\ newName \in Names /\ [name |-> newName, uid |-> 0] \in Ref
         /\ worker'.st.active = Append(worker.st.active, [name |-> newName, uid |-> 0])
<1>1. At("create") /\ Started(0) /\ worker.pc = "create"
  BY DEF Adopted, At, NoUid
<1>2. 0 \in 0..MaxStarts
  BY CronAssumption
<1> QED BY <1>1, <1>2, StartedDoes

(* Create gives the next uid to a workload that runs. *)
LEMMA CreateDoes ==
  ASSUME TypeInv, Carried, Create
  PROVE  /\ worker' \in WorkerWith(worker'.st.history) /\ worker'.pc = "record" /\ worker.pc = "create"
         /\ worker'.list = worker.list /\ worker'.st.last = worker.tick
         /\ worker'.st.history = worker.st.history
         /\ newName \in Names /\ [name |-> newName, uid |-> Len(starts) + 1] \in Ref
         /\ worker'.st.active = Append(worker.st.active, [name |-> newName, uid |-> Len(starts) + 1])
         /\ starts' = Append(starts, worker.tick) /\ Len(starts) + 1 <= MaxStarts
         /\ ~Exists(wls[newName])
         /\ wls' \in [Names -> Workload]
         /\ wls'[newName].uid = Len(starts) + 1 /\ ~wls'[newName].finished
         /\ wls'[newName].created = clock
         /\ \A n \in Names : n # newName => wls'[n] = wls[n]
         /\ UNCHANGED <<policy, status, cached, clock, lost>>
<1> DEFINE wl == [uid |-> Len(starts) + 1, created |-> clock, finished |-> FALSE]
<1>1. /\ At("create") /\ Started(Len(starts) + 1) /\ ~Exists(wls[newName])
      /\ wls' = [wls EXCEPT ![newName] = wl] /\ starts' = Append(starts, worker.tick)
      /\ Len(starts) < MaxStarts
      /\ UNCHANGED <<policy, status, cached, clock, lost>>
  BY DEF Create, object
<1>2. Len(starts) + 1 \in 0..MaxStarts /\ Len(starts) + 1 <= MaxStarts
  BY <1>1, Unpacked
<1>3. /\ worker' \in WorkerWith(worker'.st.history) /\ worker'.pc = "record"
      /\ worker'.list = worker.list /\ worker'.st.last = worker.tick
      /\ worker'.st.history = worker.st.history
      /\ newName \in Names /\ [name |-> newName, uid |-> Len(starts) + 1] \in Ref
      /\ worker'.st.active = Append(worker.st.active, [name |-> newName, uid |-> Len(starts) + 1])
  BY <1>1, <1>2, StartedDoes
<1>4. wl \in Workload /\ wl.uid = Len(starts) + 1 /\ wl.finished = FALSE /\ wl.created = clock
  BY <1>2 DEF Workload, TypeInv
<1> HIDE DEF wl
<1>5. /\ wls' \in [Names -> Workload] /\ wls'[newName] = wl
      /\ \A n \in Names : n # newName => wls'[n] = wls[n]
  BY <1>1, <1>3, <1>4 DEF TypeInv
<1> QED BY <1>1, <1>2, <1>3, <1>4, <1>5 DEF At

LEMMA FinishesDoes ==
  ASSUME TypeInv, NEW n \in Names, WorkloadFinishes(n)
  PROVE  /\ wls' \in [Names -> Workload]
         /\ wls'[n].uid = wls[n].uid /\ wls'[n].created = wls[n].created /\ wls'[n].finished
         /\ \A m \in Names : m # n => wls'[m] = wls[m]
         /\ UNCHANGED <<policy, status, worker, cached, clock, starts, lost>>
<1>1. wls' = [wls EXCEPT ![n].finished = TRUE] /\ wls \in [Names -> Workload] /\ wls[n] \in Workload
  BY DEF WorkloadFinishes, TypeInv
<1>2. [wls[n] EXCEPT !.finished = TRUE] \in Workload /\ [wls[n] EXCEPT !.finished = TRUE].uid = wls[n].uid
      /\ [wls[n] EXCEPT !.finished = TRUE].finished
      /\ [wls[n] EXCEPT !.finished = TRUE].created = wls[n].created
  BY <1>1 DEF Workload
<1>3. /\ wls' \in [Names -> Workload] /\ wls'[n] = [wls[n] EXCEPT !.finished = TRUE]
      /\ \A m \in Names : m # n => wls'[m] = wls[m]
  BY <1>1, <1>2
<1> QED BY <1>2, <1>3 DEF WorkloadFinishes, object

LEMMA DeletedDoes ==
  ASSUME TypeInv, NEW n \in Names, WorkloadDeleted(n)
  PROVE  /\ wls' \in [Names -> Workload] /\ wls'[n].uid = 0
         /\ \A m \in Names : m # n => wls'[m] = wls[m]
         /\ UNCHANGED <<policy, status, worker, cached, clock, starts, lost>>
<1>1. Absent \in Workload /\ Absent.uid = 0
  BY CronAssumption DEF Absent, Workload, NoUid
<1>2. wls' = [wls EXCEPT ![n] = Absent] /\ wls \in [Names -> Workload]
  BY DEF WorkloadDeleted, TypeInv
<1> QED BY <1>1, <1>2 DEF WorkloadDeleted, object

LEMMA DeliverDoes ==
  ASSUME TypeInv, NEW n \in Names, DeliverWorkload(n)
  PROVE  /\ cached' \in [Names -> Workload] /\ cached'[n] = wls[n]
         /\ \A m \in Names : m # n => cached'[m] = cached[m]
         /\ UNCHANGED <<policy, status, worker, wls, clock, starts, lost>>
BY DEF DeliverWorkload, TypeInv, object

LEMMA RecordDoes ==
  ASSUME TypeInv, Record
  PROVE  /\ status' = worker.st /\ status' \in StatusWith(status'.history) /\ worker' = Idle
         /\ worker.pc = "record"
         /\ UNCHANGED <<policy, cached, wls, clock, starts, lost>>
BY Unpacked DEF Record, Put, Requeue, At

-----------------------------------------------------------------------------
(***************************************************************************)
(* Each part of the invariant is kept.                                     *)
(***************************************************************************)
LEMMA TypeStep ==
  ASSUME TypeInv, Carried, [Next]_vars
  PROVE  TypeInv'
<1> USE DEF TypeInv
<1>1. CASE Quiet
  BY <1>1 DEF Quiet
<1>2. CASE Ended
  BY <1>2, IdleFacts DEF Ended
<1>3. CASE Reconcile
  BY <1>3, ReconcileDoes
<1>4. CASE SyncCron
  BY <1>4, SyncCronDoes
<1>5. CASE Create
  <2>1. worker.tick \in 1..MaxTime /\ starts \in Seq(1..MaxTime)
    BY <1>5, CreateDoes, Unpacked DEF Carried
  <2>2. starts' \in Seq(1..MaxTime) /\ Len(starts') = Len(starts) + 1
    <3>1. starts' = Append(starts, worker.tick)
      BY <1>5, CreateDoes
    <3> HIDE DEF TypeInv
    <3> QED BY <2>1, <3>1
  <2> QED BY <1>5, <2>2, CreateDoes
<1>6. CASE Adopted
  BY <1>6, AdoptedDoes DEF Adopted
<1>7. CASE Record
  BY <1>7, RecordDoes, IdleFacts
<1>8. CASE Tick
  <2>1. clock' \in 1..MaxTime
    BY <1>8, CronAssumption DEF Tick
  <2> QED BY <1>8, <2>1 DEF Tick, object
<1>9. ASSUME NEW n \in Names, DeliverWorkload(n) PROVE TypeInv'
  BY <1>9, DeliverDoes
<1>10. ASSUME NEW n \in Names, WorkloadFinishes(n) PROVE TypeInv'
  BY <1>10, FinishesDoes
<1>11. ASSUME NEW n \in Names, WorkloadDeleted(n) PROVE TypeInv'
  BY <1>11, DeletedDoes
<1> HIDE DEF TypeInv
<1> QED BY <1>1, <1>2, <1>3, <1>4, <1>5, <1>6, <1>7, <1>8, <1>9, <1>10, <1>11, StepCases

LEMMA CarriedStep ==
  ASSUME TypeInv, Carried, [Next]_vars
  PROVE  Carried'
<1> USE DEF Carried
<1>1. CASE Quiet
  BY <1>1 DEF Quiet
<1>2. CASE Ended
  BY <1>2, IdleFacts DEF Ended
<1>3. CASE Reconcile
  BY <1>3, ReconcileDoes
<1>4. CASE SyncCron
  BY <1>4, SyncCronDoes, IdleFacts
<1>5. CASE Create
  BY <1>5, CreateDoes
<1>6. CASE Adopted
  BY <1>6, AdoptedDoes DEF Adopted
<1>7. CASE Record
  BY <1>7, RecordDoes, IdleFacts
<1>8. CASE Tick
  <2>1. clock \in 1..MaxTime /\ clock' = clock + 1 /\ UNCHANGED <<status, worker>>
    BY <1>8 DEF Tick, TypeInv, object
  <2>2. 1..clock \subseteq 1..clock'
    BY <2>1, Unpacked
  <2> QED BY <2>1, <2>2
<1>9. ASSUME NEW n \in Names, DeliverWorkload(n) PROVE Carried'
  BY <1>9, DeliverDoes
<1>10. ASSUME NEW n \in Names, WorkloadFinishes(n) PROVE Carried'
  BY <1>10, FinishesDoes
<1>11. ASSUME NEW n \in Names, WorkloadDeleted(n) PROVE Carried'
  BY <1>11, DeletedDoes
<1> HIDE DEF Carried
<1> QED BY <1>1, <1>2, <1>3, <1>4, <1>5, <1>6, <1>7, <1>8, <1>9, <1>10, <1>11, StepCases

LEMMA NumberedStep ==
  ASSUME TypeInv, Carried, Numbered, [Next]_vars
  PROVE  Numbered'
<1> USE DEF Numbered, Given
<1>0. Len(starts) \in Nat /\ status.active \in Seq(Ref) /\ worker.st.active \in Seq(Ref)
  BY Unpacked
<1>1. CASE Quiet
  BY <1>1 DEF Quiet
<1>2. CASE Ended
  BY <1>2, IdleFacts, EntriesFacts DEF Ended
<1>3. CASE Reconcile
  <2>1. \A i \in 1..Len(worker'.list) : \E n \in Names : worker'.list[i].wl = cached[n]
    BY <1>3, ReconcileDoes, CopiesListed
  <2> QED BY <1>3, <2>1, ReconcileDoes
<1>4. CASE SyncCron
  <2>1. Given(status'.active, Len(starts)) /\ Given(worker'.st.active, Len(starts))
    BY <1>4, SyncCronEntries
  <2>2. \A i \in 1..Len(worker'.list) : worker'.list[i].wl.uid <= Len(starts)
    BY <1>4, SyncCronDoes, IdleFacts
  <2> QED BY <1>4, <2>1, <2>2, SyncCronDoes
<1>5. CASE Create
  <2>1. starts' = Append(starts, worker.tick) /\ starts \in Seq(1..MaxTime)
    BY <1>5, CreateDoes DEF TypeInv
  <2>2. Len(starts') = Len(starts) + 1
    <3> HIDE DEF Numbered
    <3> QED BY <2>1
  <2>3. Entries(worker'.st.active)
          = Entries(worker.st.active) \cup {[name |-> newName, uid |-> Len(starts) + 1]}
    BY <1>0, <1>5, CreateDoes, EntriesFacts
  <2>4. \A r \in Ref : r.uid \in Nat
    BY CronAssumption DEF Ref
  <2>5. \A r \in Entries(status.active) \cup Entries(worker.st.active) : r.uid \in Nat
    BY <1>0, <2>4, SliceOfFacts
  <2>6. Given(status.active, Len(starts) + 1) /\ Given(worker.st.active, Len(starts) + 1)
    BY <1>0, <2>5
  <2>7. Given(worker'.st.active, Len(starts) + 1)
    BY <1>0, <2>3, <2>6
  <2>8. \A n \in Names : wls[n].uid \in Nat /\ cached[n].uid \in Nat
    BY CronAssumption DEF TypeInv, Workload
  <2>9. \A n \in Names : wls'[n].uid <= Len(starts) + 1 /\ cached[n].uid <= Len(starts) + 1
    BY <1>0, <1>5, <2>8, CreateDoes
  <2>10. \A i \in 1..Len(worker.list) : worker.list[i].wl.uid <= Len(starts) + 1
    <3>1. \A i \in 1..Len(worker.list) : worker.list[i] \in Listed
      BY Unpacked
    <3>2. \A e \in Listed : e.wl.uid \in Nat
      BY CronAssumption DEF Listed, Workload
    <3> QED BY <1>0, <3>1, <3>2
  <2> QED BY <1>5, <2>2, <2>6, <2>7, <2>9, <2>10, CreateDoes
<1>6. CASE Adopted
  <2>1. Entries(worker'.st.active) = Entries(worker.st.active) \cup {[name |-> newName, uid |-> 0]}
    BY <1>0, <1>6, AdoptedDoes, EntriesFacts
  <2>2. Given(worker'.st.active, Len(starts))
    BY <1>0, <2>1
  <2> QED BY <1>6, <2>2, AdoptedDoes DEF Adopted
<1>7. CASE Record
  BY <1>7, RecordDoes, IdleFacts, EntriesFacts
<1>8. CASE Tick
  BY <1>8 DEF Tick, object
<1>9. ASSUME NEW n \in Names, DeliverWorkload(n) PROVE Numbered'
  <2>1. \A m \in Names : cached'[m].uid <= Len(starts)
    BY <1>9, DeliverDoes
  <2> QED BY <1>9, <2>1, DeliverDoes
<1>10. ASSUME NEW n \in Names, WorkloadFinishes(n) PROVE Numbered'
  <2>1. \A m \in Names : wls'[m].uid <= Len(starts)
    BY <1>10, FinishesDoes
  <2> QED BY <1>10, <2>1, FinishesDoes
<1>11. ASSUME NEW n \in Names, WorkloadDeleted(n) PROVE Numbered'
  <2>1. \A m \in Names : wls'[m].uid <= Len(starts)
    BY <1>0, <1>11, DeletedDoes
  <2> QED BY <1>11, <2>1, DeletedDoes
<1> HIDE DEF Numbered
<1> QED BY <1>1, <1>2, <1>3, <1>4, <1>5, <1>6, <1>7, <1>8, <1>9, <1>10, <1>11, StepCases

LEMMA DistinctStep ==
  ASSUME TypeInv, Carried, Numbered, Distinct, [Next]_vars
  PROVE  Distinct'
<1> USE DEF Distinct
<1>1. CASE UNCHANGED wls
  BY <1>1
<1>2. CASE Create
  <2>1. \A n \in Names : wls[n].uid # Len(starts) + 1
    <3>1. Len(starts) \in Nat /\ \A n \in Names : wls[n].uid <= Len(starts)
      BY Unpacked DEF Numbered
    <3> QED BY <3>1
  <2>2. /\ wls'[newName].uid = Len(starts) + 1 /\ newName \in Names
        /\ \A n \in Names : n # newName => wls'[n] = wls[n]
    BY <1>2, CreateDoes
  <2> QED BY <2>1, <2>2 DEF Exists
<1>3. ASSUME NEW n \in Names, WorkloadFinishes(n) PROVE Distinct'
  <2>1. \A m \in Names : wls'[m].uid = wls[m].uid
    BY <1>3, FinishesDoes
  <2> QED BY <2>1 DEF Exists
<1>4. ASSUME NEW n \in Names, WorkloadDeleted(n) PROVE Distinct'
  <2>1. wls'[n].uid = 0 /\ \A m \in Names : m # n => wls'[m] = wls[m]
    BY <1>4, DeletedDoes
  <2> QED BY <2>1 DEF Exists, NoUid
<1>5. UNCHANGED wls \/ Create \/ \E n \in Names : WorkloadFinishes(n) \/ WorkloadDeleted(n)
  BY StepCases, ReconcileDoes, SyncCronDoes, RecordDoes, DeliverDoes DEF Quiet, Ended, Adopted, Tick
<1> HIDE DEF Distinct
<1> QED BY <1>1, <1>2, <1>3, <1>4, <1>5

LEMMA CopiedStep ==
  ASSUME TypeInv, Carried, Numbered, Distinct, Copied, [Next]_vars
  PROVE  Copied'
<1> USE DEF Copied, Aged
<1>0. \A n \in Names : Aged(wls[n], wls)
  BY DEF Distinct
<1>1. CASE Quiet
  BY <1>1 DEF Quiet
<1>2. CASE Ended
  <2>1. \A n \in Names : Aged(cached'[n], wls)
    BY <1>0, <1>2 DEF Ended
  <2> QED BY <1>2, <2>1, IdleFacts DEF Ended
<1>3. CASE Reconcile
  <2>1. \A i \in 1..Len(worker'.list) : \E n \in Names : worker'.list[i].wl = cached[n]
    BY <1>3, ReconcileDoes, CopiesListed
  <2>2. \A i \in 1..Len(worker'.list) : Aged(worker'.list[i].wl, wls)
    BY <2>1
  <2> QED BY <1>3, <2>2, ReconcileDoes
<1>4. CASE SyncCron
  <2>1. \A i \in 1..Len(worker'.list) : Aged(worker'.list[i].wl, wls)
    BY <1>4, SyncCronDoes, IdleFacts
  <2> QED BY <1>4, <2>1, SyncCronDoes
<1>5. CASE Create
  <2>1. ASSUME NEW copy, copy.uid <= Len(starts), copy.uid \in Nat, Aged(copy, wls)
        PROVE  Aged(copy, wls')
    <3>1. Len(starts) \in Nat /\ wls'[newName].uid = Len(starts) + 1
      BY <1>5, CreateDoes, Unpacked
    <3>2. copy.uid # wls'[newName].uid
      BY <2>1, <3>1
    <3>3. \A n \in Names : n # newName => wls'[n] = wls[n]
      BY <1>5, CreateDoes
    <3> QED BY <2>1, <3>2, <3>3
  <2>2. \A n \in Names : cached[n].uid \in Nat /\ cached[n].uid <= Len(starts)
    BY CronAssumption DEF TypeInv, Workload, Numbered
  <2>3. \A i \in 1..Len(worker.list) : worker.list[i].wl.uid \in Nat /\ worker.list[i].wl.uid <= Len(starts)
    <3>1. \A i \in 1..Len(worker.list) : worker.list[i] \in Listed
      BY Unpacked
    <3>2. \A e \in Listed : e.wl.uid \in Nat
      BY CronAssumption DEF Listed, Workload
    <3> QED BY <3>1, <3>2 DEF Numbered
  <2>4. \A n \in Names : Aged(cached[n], wls')
    <3> HIDE DEF Aged
    <3> QED BY <2>1, <2>2
  <2>5. \A i \in 1..Len(worker.list) : Aged(worker.list[i].wl, wls')
    <3> HIDE DEF Aged
    <3> QED BY <2>1, <2>3
  <2> QED BY <1>5, <2>4, <2>5, CreateDoes
<1>6. CASE Adopted
  BY <1>6, AdoptedDoes DEF Adopted
<1>7. CASE Record
  BY <1>7, RecordDoes, IdleFacts
<1>8. CASE Tick
  BY <1>8 DEF Tick, object
<1>9. ASSUME NEW n \in Names, DeliverWorkload(n) PROVE Copied'
  <2>1. \A m \in Names : Aged(cached'[m], wls)
    BY <1>0, <1>9, DeliverDoes
  <2> QED BY <1>9, <2>1, DeliverDoes
<1>10. ASSUME NEW n \in Names, WorkloadFinishes(n) PROVE Copied'
  <2>1. ASSUME NEW copy, Aged(copy, wls) PROVE Aged(copy, wls')
    BY <1>10, <2>1, FinishesDoes DEF Exists
  <2> QED BY <1>10, <2>1, FinishesDoes
<1>11. ASSUME NEW n \in Names, WorkloadDeleted(n) PROVE Copied'
  <2>1. ASSUME NEW copy, Aged(copy, wls) PROVE Aged(copy, wls')
    BY <1>11, <2>1, DeletedDoes DEF Exists, NoUid
  <2> QED BY <1>11, <2>1, DeletedDoes
<1> HIDE DEF Copied
<1> QED BY <1>1, <1>2, <1>3, <1>4, <1>5, <1>6, <1>7, <1>8, <1>9, <1>10, <1>11, StepCases

LEMMA RefsMatchStep ==
  ASSUME TypeInv, Carried, Numbered, RefsMatch, [Next]_vars
  PROVE  RefsMatch'
<1> USE DEF RefsMatch, Owned
<1>0. status.active \in Seq(Ref) /\ worker.st.active \in Seq(Ref)
  BY Unpacked
<1>1. CASE Quiet
  BY <1>1 DEF Quiet
<1>2. CASE Ended
  BY <1>2, IdleFacts, EntriesFacts DEF Ended
<1>3. CASE Reconcile
  BY <1>3, ReconcileDoes
<1>4. CASE SyncCron
  <2>1. Owned(status'.active, wls) /\ Owned(worker'.st.active, wls)
    BY <1>4, SyncCronEntries
  <2> QED BY <1>4, <2>1, SyncCronDoes
<1>5. CASE Create
  <2>0. Len(starts) \in Nat /\ \A r \in Ref : r.uid \in Nat
    BY CronAssumption, Unpacked DEF Ref
  <2>1. ASSUME NEW active \in Seq(Ref), Given(active, Len(starts)), Owned(active, wls)
        PROVE  Owned(active, wls')
    <3>1. \A r \in Entries(active) : r.uid \in Nat /\ r.uid <= Len(starts)
      BY <2>0, <2>1, SliceOfFacts DEF Given
    <3>2. \A r \in Entries(active) : r.uid # wls'[newName].uid
      BY <1>5, <2>0, <3>1, CreateDoes
    <3>3. \A n \in Names : n # newName => wls'[n] = wls[n]
      BY <1>5, CreateDoes
    <3> QED BY <2>1, <3>2, <3>3
  <2>2. Owned(status.active, wls') /\ Owned(worker.st.active, wls')
    <3> HIDE DEF Owned
    <3> QED BY <1>0, <2>1 DEF Numbered, RefsMatch
  <2>3. Entries(worker'.st.active)
          = Entries(worker.st.active) \cup {[name |-> newName, uid |-> Len(starts) + 1]}
    BY <1>0, <1>5, CreateDoes, EntriesFacts
  <2>4. \A n \in Names : wls[n].uid # Len(starts) + 1
    <3>1. \A n \in Names : wls[n].uid <= Len(starts)
      BY DEF Numbered
    <3> QED BY <2>0, <3>1
  <2>5. \A n \in Names : wls'[n].uid = Len(starts) + 1 => n = newName
    BY <1>5, <2>4, CreateDoes
  <2>6. Owned(worker'.st.active, wls')
    BY <2>2, <2>3, <2>5
  <2> QED BY <1>5, <2>2, <2>6, CreateDoes
<1>6. CASE Adopted
  <2>1. Entries(worker'.st.active) = Entries(worker.st.active) \cup {[name |-> newName, uid |-> 0]}
    BY <1>0, <1>6, AdoptedDoes, EntriesFacts
  <2>2. Owned(worker'.st.active, wls)
    BY <2>1 DEF Exists, NoUid
  <2> QED BY <1>6, <2>2 DEF Adopted
<1>7. CASE Record
  BY <1>7, RecordDoes, IdleFacts, EntriesFacts
<1>8. CASE Tick
  BY <1>8 DEF Tick, object
<1>9. ASSUME NEW n \in Names, DeliverWorkload(n) PROVE RefsMatch'
  BY <1>9, DeliverDoes
<1>10. ASSUME NEW n \in Names, WorkloadFinishes(n) PROVE RefsMatch'
  <2>1. \A m \in Names : wls'[m].uid = wls[m].uid
    BY <1>10, FinishesDoes
  <2> QED BY <1>10, <2>1, FinishesDoes DEF Exists
<1>11. ASSUME NEW n \in Names, WorkloadDeleted(n) PROVE RefsMatch'
  <2>1. Owned(status.active, wls') /\ Owned(worker.st.active, wls')
    BY <1>11, DeletedDoes DEF Exists, NoUid
  <2> QED BY <1>11, <2>1, DeletedDoes
<1> HIDE DEF RefsMatch
<1> QED BY <1>1, <1>2, <1>3, <1>4, <1>5, <1>6, <1>7, <1>8, <1>9, <1>10, <1>11, StepCases

(* A workload that runs stays on the trimmed list. *)
LEMMA RunningStays ==
  ASSUME TypeInv, Carried, Copied, RefsMatch, SyncCron,
         NEW n \in Names, Running(n), RefTo(n) \in Entries(status.active)
  PROVE  RefTo(n) \in Entries(status'.active)
<1>1. /\ worker.st.active = status.active /\ worker.list \in Seq(Listed) /\ worker.st.active \in Seq(Ref)
      /\ status'.active = trimFinishedWorkloadsFromActiveList(worker.st.active, worker.list)
  BY SyncCronDoes, Unpacked DEF Carried
<1> DEFINE r == RefTo(n)
<1>2. r \in Entries(worker.st.active) /\ r.name = n /\ r.uid = wls[n].uid /\ Exists(wls[n]) /\ ~wls[n].finished
  BY <1>1 DEF RefTo, Running
<1>3. ASSUME NEW e \in Entries(worker.st.active), e.uid = r.uid
      PROVE  e = r
  <2>1. e.name = n
    BY <1>2, <1>3 DEF RefsMatch, Owned
  <2>2. e \in Ref /\ r \in Ref
    BY <1>1, <1>2, <1>3, SliceOfFacts
  <2> HIDE DEF r
  <2> QED BY <1>2, <1>3, <2>1, <2>2 DEF Ref
<1>4. \A i \in 1..Len(worker.list) : worker.list[i].wl.finished => worker.list[i].wl.uid # r.uid
  BY <1>2 DEF Copied, Aged
<1>5. Exists(wls[r.name])
  BY <1>2
<1> HIDE DEF r
<1>6. r \in Entries(trimFinishedWorkloadsFromActiveList(worker.st.active, worker.list))
  BY <1>1, <1>2, <1>3, <1>4, <1>5, TrimKeeps
<1> QED BY <1>1, <1>6 DEF r

LEMMA ForbiddenStep ==
  ASSUME TypeInv, Carried, Numbered, Copied, RefsMatch, Forbidden, [Next]_vars
  PROVE  Forbidden'
<1> SUFFICES ASSUME policy' = "Forbid" PROVE Forbidden'
  BY DEF Forbidden
<1> USE DEF Forbidden
<1>0. lost \in BOOLEAN /\ worker.st.active \in Seq(Ref)
  BY Unpacked DEF TypeInv
<1>1. CASE Quiet
  BY <1>1 DEF Quiet, Running, RefTo
<1>2. CASE Ended
  <2>1. /\ policy = "Forbid" /\ worker'.pc = "idle" /\ (~lost' => ~lost /\ worker.pc # "record")
        /\ UNCHANGED <<wls, status>>
    BY <1>0, <1>2, IdleFacts DEF Ended
  <2> QED BY <2>1 DEF Running, RefTo
<1>3. CASE Reconcile
  <2>1. /\ policy = "Forbid" /\ worker'.pc = "sync" /\ worker.pc = "idle"
        /\ status'.active = status.active /\ UNCHANGED <<wls, lost>>
    BY <1>3, ReconcileDoes DEF Reconcile, At
  <2> QED BY <2>1 DEF Running, RefTo
<1>4. CASE SyncCron
  <2>1. policy = "Forbid" /\ worker.pc = "sync" /\ UNCHANGED <<wls, lost>>
    BY <1>4, SyncCronDoes
  <2>2. worker'.pc = "idle" \/ worker'.pc = "create"
    BY <1>4, SyncCronDoes, IdleFacts
  <2>3. worker'.pc = "create" => status'.active = << >> /\ worker'.st.active = status'.active
    <3>1. Replaced(status'.active) = status'.active
      BY <2>1 DEF Replaced
    <3> QED BY <1>4, <2>1, <3>1, SyncCronDoes, IdleFacts
  <2>4. \A n \in Names : Running(n) /\ RefTo(n) \in Entries(status.active) => RefTo(n) \in Entries(status'.active)
    BY <1>4, RunningStays
  <2> QED BY <2>1, <2>2, <2>3, <2>4 DEF Running, RefTo
<1>5. CASE Create
  <2>1. /\ policy = "Forbid" /\ worker.pc = "create" /\ worker'.pc = "record" /\ UNCHANGED <<status, lost>>
        /\ newName \in Names
        /\ wls'[newName].uid = Len(starts) + 1
        /\ \A n \in Names : n # newName => wls'[n] = wls[n]
    BY <1>5, CreateDoes
  <2>2. ~lost => \A n \in Names : ~Running(n)
    BY <2>1, EntriesFacts
  <2>3. ~lost => \A n \in Names : Running(n)' => n = newName
    BY <2>1, <2>2 DEF Running
  <2>4. [name |-> newName, uid |-> Len(starts) + 1] \in Entries(worker'.st.active)
    BY <1>0, <1>5, CreateDoes, EntriesFacts
  <2>5. ASSUME NEW n \in Names, Running(n)', ~lost
        PROVE  RefTo(n)' \in Entries(worker'.st.active)
    <3>1. n = newName
      BY <2>3, <2>5
    <3> QED BY <2>1, <2>4, <3>1 DEF RefTo
  <2> QED BY <2>1, <2>3, <2>5
<1>6. CASE Adopted
  <2>1. /\ policy = "Forbid" /\ worker.pc = "create" /\ worker'.pc = "record" /\ UNCHANGED <<status, wls, lost>>
    BY <1>6, AdoptedDoes DEF Adopted
  <2>2. ~lost => \A n \in Names : ~Running(n)
    BY <2>1, EntriesFacts
  <2> QED BY <2>1, <2>2 DEF Running
<1>7. CASE Record
  <2>1. /\ policy = "Forbid" /\ worker'.pc = "idle" /\ worker.pc = "record"
        /\ status' = worker.st /\ UNCHANGED <<wls, lost>>
    BY <1>7, RecordDoes, IdleFacts
  <2>2. status.active = << >>
    BY <2>1
  <2> QED BY <2>1, <2>2, EntriesFacts DEF Running, RefTo
<1>8. CASE Tick
  BY <1>8 DEF Tick, object, Running, RefTo
<1>9. ASSUME NEW n \in Names, DeliverWorkload(n) PROVE Forbidden'
  BY <1>9, DeliverDoes DEF Running, RefTo
<1>10. ASSUME NEW n \in Names, WorkloadFinishes(n) PROVE Forbidden'
  <2>1. /\ policy = "Forbid" /\ UNCHANGED <<worker, status, lost>>
        /\ \A m \in Names : wls'[m].uid = wls[m].uid /\ (Running(m)' => Running(m))
    BY <1>10, FinishesDoes DEF Running
  <2> QED BY <2>1 DEF RefTo
<1>11. ASSUME NEW n \in Names, WorkloadDeleted(n) PROVE Forbidden'
  <2>1. /\ policy = "Forbid" /\ UNCHANGED <<worker, status, lost>>
        /\ \A m \in Names : Running(m)' => wls'[m] = wls[m] /\ Running(m)
    BY <1>11, DeletedDoes DEF Running, Exists, NoUid
  <2> QED BY <2>1 DEF RefTo
<1> HIDE DEF Forbidden
<1> QED BY <1>1, <1>2, <1>3, <1>4, <1>5, <1>6, <1>7, <1>8, <1>9, <1>10, <1>11, StepCases

LEMMA BegunStep ==
  ASSUME TypeInv, Carried, Begun, [Next]_vars
  PROVE  Begun'
<1> USE DEF Begun
<1>0. /\ lost \in BOOLEAN /\ clock \in 1..MaxTime /\ starts \in Seq(1..MaxTime) /\ Len(starts) \in Nat
      /\ \A i \in 1..Len(starts) : starts[i] \in 1..MaxTime
      /\ status.last \in 0..MaxTime /\ worker.st.last \in 0..MaxTime /\ worker.tick \in 0..MaxTime
      /\ MaxTime \in Nat
  BY SMTT(30), Unpacked DEF TypeInv
<1>1. CASE Quiet
  BY <1>1 DEF Quiet, LastTick
<1>2. CASE Ended
  <2>1. /\ UNCHANGED <<status, clock, starts>> /\ worker'.pc = "idle"
        /\ (~lost' => ~lost /\ worker.pc # "record")
    BY <1>0, <1>2, IdleFacts DEF Ended
  <2> QED BY <2>1 DEF LastTick
<1>3. CASE Reconcile
  <2>1. /\ worker'.pc = "sync" /\ worker.pc = "idle" /\ status'.last = status.last
        /\ UNCHANGED <<clock, starts, lost>>
    BY <1>3, ReconcileDoes DEF Reconcile, At
  <2> QED BY <2>1 DEF LastTick
<1>4. CASE SyncCron
  <2>1. /\ worker'.pc # "record" /\ worker.pc = "sync" /\ status'.last = status.last
        /\ UNCHANGED <<clock, starts, lost>>
    BY <1>4, SyncCronDoes, IdleFacts DEF Carried
  <2> QED BY <2>1 DEF LastTick
<1>5. CASE Create
  <2>1. /\ worker'.pc = "record" /\ worker.pc = "create" /\ worker'.st.last = worker.tick
        /\ starts' = Append(starts, worker.tick) /\ UNCHANGED <<status, clock, lost>>
    BY <1>5, CreateDoes
  <2>2. /\ worker.tick \in 1..clock /\ worker.tick > status.last
        /\ RegularSchedule => worker.tick \in Schedule
    BY <2>1 DEF Carried
  <2>3. /\ Len(starts') = Len(starts) + 1 /\ starts'[Len(starts) + 1] = worker.tick
        /\ \A i \in 1..Len(starts) : starts'[i] = starts[i]
    <3> HIDE DEF Begun
    <3>1. worker.tick \in 1..MaxTime
      BY <1>0, <2>2
    <3> QED BY <1>0, <2>1, <3>1
  <2>4. \A i \in 1..Len(starts') : i \in 1..Len(starts) \/ i = Len(starts) + 1
    BY <1>0, <2>3
  <2>5. \A i \in 1..Len(starts') : starts'[i] <= clock /\ (RegularSchedule => starts'[i] \in Schedule)
    <3>1. \A i \in 1..Len(starts) : starts'[i] <= clock /\ (RegularSchedule => starts'[i] \in Schedule)
      BY <2>3
    <3>2. worker.tick <= clock
      BY <1>0, <2>2
    <3> HIDE DEF Begun
    <3> QED BY <2>2, <2>3, <2>4, <3>1, <3>2
  <2>6. ~lost => \A i \in 1..Len(starts) : starts[i] < worker.tick
    BY <1>0, <2>1, <2>2 DEF LastTick
  <2>7. LastTick' = worker.tick
    BY <2>1 DEF LastTick
  <2>8. ~lost => \A i \in 1..Len(starts') : starts'[i] <= worker.tick
    BY <1>0, <2>3, <2>4, <2>6
  <2>9. ASSUME ~lost, NEW i \in 1..Len(starts'), NEW j \in 1..Len(starts'), i < j
        PROVE  starts'[i] < starts'[j]
    <3>1. i \in 1..Len(starts)
      BY <1>0, <2>3, <2>9
    <3>2. CASE j = Len(starts) + 1
      BY <2>3, <2>6, <2>9, <3>1, <3>2
    <3>3. CASE j \in 1..Len(starts)
      BY <2>3, <2>9, <3>1, <3>3
    <3> QED BY <2>4, <3>2, <3>3
  <2> QED BY <2>1, <2>5, <2>7, <2>8, <2>9
<1>6. CASE Adopted
  <2>1. /\ worker'.pc = "record" /\ worker.pc = "create" /\ worker'.st.last = worker.tick
        /\ UNCHANGED <<status, clock, starts, lost>>
    BY <1>6, AdoptedDoes DEF Adopted
  <2>2. worker.tick > status.last
    BY <2>1 DEF Carried
  <2> QED BY <1>0, <2>1, <2>2 DEF LastTick
<1>7. CASE Record
  <2>1. /\ worker'.pc = "idle" /\ worker.pc = "record" /\ status' = worker.st
        /\ UNCHANGED <<clock, starts, lost>>
    BY <1>7, RecordDoes, IdleFacts
  <2> QED BY <2>1 DEF LastTick
<1>8. CASE Tick
  <2>1. clock' = clock + 1 /\ UNCHANGED <<status, worker, starts, lost>>
    BY <1>8 DEF Tick, object
  <2>2. \A i \in 1..Len(starts) : starts[i] <= clock'
    BY <1>0, <2>1
  <2> QED BY <2>1, <2>2 DEF LastTick
<1>9. ASSUME NEW n \in Names, DeliverWorkload(n) PROVE Begun'
  BY <1>9, DeliverDoes DEF LastTick
<1>10. ASSUME NEW n \in Names, WorkloadFinishes(n) PROVE Begun'
  BY <1>10, FinishesDoes DEF LastTick
<1>11. ASSUME NEW n \in Names, WorkloadDeleted(n) PROVE Begun'
  BY <1>11, DeletedDoes DEF LastTick
<1> HIDE DEF Begun
<1> QED BY <1>1, <1>2, <1>3, <1>4, <1>5, <1>6, <1>7, <1>8, <1>9, <1>10, <1>11, StepCases

-----------------------------------------------------------------------------
(***************************************************************************)
(* The theorems.                                                           *)
(***************************************************************************)
LEMMA InvInit == Init => IInv
<1> SUFFICES ASSUME Init PROVE IInv
  OBVIOUS
<1>0. /\ status.active = << >> /\ worker = Idle /\ starts = << >> /\ cached = wls /\ lost = FALSE
      /\ wls = [n \in Names |-> Absent] /\ clock = 1 /\ status.last = 0
      /\ status = [active |-> << >>, history |-> << >>, last |-> 0]
  BY DEF Init, NoTime
<1>1. Absent \in Workload /\ ~Exists(Absent) /\ Absent.uid = 0
  BY CronAssumption DEF Absent, Workload, Exists, NoUid
<1>2. \A n \in Names : wls[n] = Absent
  BY <1>0
<1>3. TypeInv
  <2>1. status \in StatusWith(status.history)
    BY <1>0, CronAssumption DEF StatusWith
  <2>2. starts \in Seq(1..MaxTime) /\ Len(starts) = 0 /\ 0 <= MaxStarts /\ 1 \in 1..MaxTime
    BY <1>0, CronAssumption
  <2> QED BY <1>0, <1>1, <2>1, <2>2, IdleFacts DEF TypeInv
<1>4. Carried
  BY <1>0, IdleFacts DEF Carried
<1>5. Numbered
  BY <1>0, <1>1, <1>2, IdleFacts, EntriesFacts DEF Numbered, Given
<1>6. Distinct /\ Copied /\ RefsMatch
  BY <1>0, <1>1, <1>2, IdleFacts, EntriesFacts DEF Distinct, Copied, Aged, RefsMatch, Owned
<1>7. Forbidden
  BY <1>0, <1>1, <1>2, IdleFacts DEF Forbidden, Running
<1>8. Begun
  BY <1>0 DEF Begun
<1> QED BY <1>3, <1>4, <1>5, <1>6, <1>7, <1>8 DEF IInv

LEMMA InvStep == IInv /\ [Next]_vars => IInv'
BY TypeStep, CarriedStep, NumberedStep, DistinctStep, CopiedStep, RefsMatchStep, ForbiddenStep, BegunStep
   DEF IInv

LEMMA Invariance == Spec => []IInv
BY InvInit, InvStep, PTL DEF Spec

(***************************************************************************)
(* The concurrency policy Forbid of syncCron is kept to although the cache *)
(* it decides from lags behind, for every schedule, number of workloads    *)
(* and sequence of faults, restarts and deletions.                         *)
(***************************************************************************)
THEOREM ForbidKept == Spec => []ForbidHolds
<1>1. IInv => ForbidHolds
  <2> SUFFICES ASSUME IInv, policy = "Forbid", ~lost
               PROVE  Cardinality({n \in Names : Exists(wls[n]) /\ ~wls[n].finished}) <= 1
    BY DEF ForbidHolds
  <2> DEFINE R == {n \in Names : Exists(wls[n]) /\ ~wls[n].finished}
  <2>1. \A m, n \in R : m = n
    BY DEF IInv, Forbidden, Running
  <2>2. CASE R = {}
    BY <2>2, FS_EmptySet
  <2>3. CASE R # {}
    <3>1. PICK n : R = {n}
      BY <2>1, <2>3
    <3>2. Cardinality(R) = 1
      <4> HIDE DEF R
      <4> QED BY <3>1, FS_Singleton
    <3> QED BY <3>2
  <2> QED BY <2>2, <2>3
<1> QED BY <1>1, Invariance, PTL

(***************************************************************************)
(* When the schedule is regular, workloads are started for its ticks once  *)
(* they have come, each once and in order: getMostRecentScheduleTime never *)
(* names a time between two ticks, and no error, restart or late cache     *)
(* makes the controller start a recorded tick again.                       *)
(***************************************************************************)
THEOREM TicksKept == RegularSchedule => (Spec => []StartsAreTicks)
<1> SUFFICES ASSUME RegularSchedule PROVE Spec => []StartsAreTicks
  OBVIOUS
<1>1. IInv => StartsAreTicks
  <2> SUFFICES ASSUME IInv PROVE StartsAreTicks
    OBVIOUS
  <2>1. DOMAIN starts = 1..Len(starts)
    BY DEF IInv, TypeInv
  <2> QED BY <2>1 DEF IInv, Begun, StartsAreTicks
<1> QED BY <1>1, Invariance, PTL
-----------------------------------------------------------------------------
(***************************************************************************)
(* The history: what refreshCronHistory makes of it.                       *)
(***************************************************************************)
Ordered(seq) == \A i, j \in 1..Len(seq) : i < j => seq[i].created <= seq[j].created

(* The sequences of E in the order of creation. *)
InOrder(E) == {seq \in Seq(E) : Ordered(seq)}

LEMMA InsertedFacts ==
  ASSUME NEW E, \A e \in E : e.created \in Nat, NEW seq \in InOrder(E), NEW h \in E
  PROVE  Inserted(seq, h) \in InOrder(E)
<1> DEFINE new == Len(seq) + 1
           places == {i \in 1..new : i = new \/ ~Before(seq[i], h)}
           place == Min(places)
           longer == [i \in 1..new |-> IF i < place THEN seq[i] ELSE IF i = place THEN h ELSE seq[i - 1]]
<1>1. /\ new \in Nat \ {0} /\ new - 1 = Len(seq) /\ Ordered(seq) /\ seq \in Seq(E)
      /\ \A i \in 1..new - 1 : seq[i] \in E
  BY DEF InOrder
<1>2. places \in SUBSET Nat /\ new \in places
  BY <1>1
<1>3. place \in places /\ \A i \in places : place <= i
  <2> HIDE DEF places
  <2>1. \E m \in places : \A i \in places : m <= i
    BY <1>2, LeastNumber
  <2> QED BY <2>1 DEF Min
<1>4. Inserted(seq, h) = longer
  BY DEF Inserted
<1> HIDE DEF place
<1>5. /\ place \in 1..new
      /\ \A i \in 1..place - 1 : seq[i].created <= h.created
      /\ \A i \in place..new - 1 : h.created <= seq[i].created
  <2>1. place \in 1..new /\ (place = new \/ ~Before(seq[place], h))
    BY <1>3
  <2>2. ASSUME NEW i \in 1..place - 1 PROVE seq[i].created <= h.created
    <3>1. i \in 1..new - 1 /\ i \notin places /\ i \in 1..new /\ i # new
      BY <1>1, <1>3, <2>1
    <3>2. Before(seq[i], h) /\ seq[i] \in E
      BY <1>1, <3>1
    <3> QED BY <3>2 DEF Before
  <2>3. ASSUME NEW i \in place..new - 1 PROVE h.created <= seq[i].created
    <3>1. place \in 1..new - 1 /\ i \in 1..new - 1 /\ place # new
      BY <1>1, <2>1
    <3>2. seq[place].created \in Nat /\ seq[i].created \in Nat /\ h.created \in Nat
      BY <1>1, <3>1
    <3>3. h.created <= seq[place].created
      BY <2>1, <3>1, <3>2 DEF Before
    <3>4. seq[place].created <= seq[i].created
      BY <1>1, <3>1, <3>2 DEF Ordered
    <3> QED BY <3>2, <3>3, <3>4
  <2> QED BY <2>1, <2>2, <2>3
<1> HIDE DEF places, new
<1>6. \A i \in 1..new : longer[i] \in E
  BY <1>1, <1>5
<1>7. longer \in Seq(E) /\ Len(longer) = new
  BY <1>1, <1>6
<1>8. ASSUME NEW i \in 1..new, NEW j \in 1..new, i < j
      PROVE  longer[i].created <= longer[j].created
  <2>0. \A k, l \in 1..new - 1 : k <= l => seq[k].created <= seq[l].created
    BY <1>1 DEF Ordered, new
  <2>1. CASE j < place
    BY <1>1, <1>5, <1>8, <2>0, <2>1
  <2>2. CASE i < place /\ j = place
    BY <1>1, <1>5, <1>8, <2>2
  <2>3. CASE i < place /\ j > place
    BY <1>1, <1>5, <1>8, <2>0, <2>3
  <2>4. CASE i = place
    <3>1. j - 1 \in place..new - 1 /\ j > place
      BY <1>1, <1>5, <1>8, <2>4
    <3>2. longer[i] = h /\ longer[j] = seq[j - 1]
      BY <1>5, <1>8, <2>4, <3>1
    <3> QED BY <1>5, <3>1, <3>2
  <2>5. CASE i > place
    <3>1. i - 1 \in 1..new - 1 /\ j - 1 \in 1..new - 1 /\ i - 1 <= j - 1 /\ j > place
      BY <1>1, <1>5, <1>8, <2>5
    <3>2. longer[i] = seq[i - 1] /\ longer[j] = seq[j - 1]
      BY <1>5, <1>8, <2>5, <3>1
    <3> QED BY <2>0, <3>1, <3>2
  <2> QED BY <1>5, <1>8, <2>1, <2>2, <2>3, <2>4, <2>5
<1>9. Ordered(longer)
  <2> HIDE DEF longer
  <2> QED BY <1>7, <1>8 DEF Ordered
<1> HIDE DEF longer
<1> QED BY <1>4, <1>7, <1>9 DEF InOrder

LEMMA TruncatedFacts ==
  ASSUME NEW E, NEW seq \in InOrder(E)
  PROVE  Truncated(seq) \in InOrder(E) /\ Len(Truncated(seq)) <= HistoryLimit
<1> DEFINE first == IF Len(seq) > HistoryLimit THEN Len(seq) - HistoryLimit + 1 ELSE 1
           cut == SubSeq(seq, first, Len(seq))
<1>1. seq \in Seq(E) /\ Ordered(seq) /\ HistoryLimit \in Nat /\ Len(seq) \in Nat
  BY CronAssumption DEF InOrder
<1>2. first \in 1..Len(seq) + 1 /\ Len(seq) - first + 1 <= HistoryLimit
  BY <1>1
<1>3. Truncated(seq) = cut
  BY DEF Truncated
<1> HIDE DEF first
<1>4. /\ cut \in Seq(E) /\ Len(cut) = Len(seq) - first + 1
      /\ \A i \in 1..Len(cut) : cut[i] = seq[i + first - 1]
  BY <1>1, <1>2
<1>5. Ordered(cut)
  <2> HIDE DEF cut
  <2>1. \A i \in 1..Len(cut) : i + first - 1 \in 1..Len(seq)
    BY <1>1, <1>2, <1>4
  <2>2. ASSUME NEW i \in 1..Len(cut), NEW j \in 1..Len(cut), i < j
        PROVE  cut[i].created <= cut[j].created
    <3>1. i + first - 1 < j + first - 1
      BY <1>2, <2>2
    <3>2. seq[i + first - 1].created <= seq[j + first - 1].created
      BY <1>1, <2>1, <3>1 DEF Ordered
    <3> QED BY <1>4, <3>2
  <2> QED BY <2>2 DEF Ordered
<1> HIDE DEF cut
<1> QED BY <1>2, <1>3, <1>4, <1>5 DEF InOrder

LEMMA UpdatedFacts ==
  ASSUME NEW h \in History, NEW list \in Seq(Listed)
  PROVE  /\ Updated(h, list) \in History
         /\ Updated(h, list).name = h.name /\ Updated(h, list).created = h.created
         /\ h.finished => Updated(h, list).finished
         /\ \A i \in 1..Len(list) : Same(h, list[i]) /\ list[i].wl.finished => Updated(h, list).finished
<1> DEFINE ended == h.finished \/ \E i \in DOMAIN list : Same(h, list[i]) /\ list[i].wl.finished
<1>1. Updated(h, list) = [h EXCEPT !.finished = ended]
  BY DEF Updated
<1>2. ended \in BOOLEAN
  BY DEF History
<1>3. \A i \in 1..Len(list) : Same(h, list[i]) /\ list[i].wl.finished => ended
  OBVIOUS
<1>4. h.finished => ended
  OBVIOUS
<1> HIDE DEF ended
<1> QED BY <1>1, <1>2, <1>3, <1>4 DEF History

(* What an iteration makes of the history for the i-th listed workload. *)
Refresh(f, known, list, i) ==
  IF \E k \in DOMAIN known : Same(known[k], list[i]) THEN f ELSE Inserted(f, Entry(list[i]))

Refreshes(g, known, list) ==
  g = [i \in 0..Len(list) |-> IF i = 0 THEN known ELSE Refresh(g[i - 1], known, list, i)]

(* The entries of a refreshed history: the old ones, updated, and those of the list. *)
Refreshed(history, list) ==
  {Updated(h, list) : h \in Entries(history)} \cup {Entry(list[i]) : i \in 1..Len(list)}

LEMMA RefreshedFacts ==
  ASSUME status.history \in InOrder(History), NEW list \in Seq(Listed),
         \A i \in 1..Len(list) : list[i].wl.created \in Times
  PROVE  /\ refreshedHistory(list) \in InOrder(Refreshed(status.history, list))
         /\ Len(refreshedHistory(list)) <= HistoryLimit
         /\ Refreshed(status.history, list) \subseteq History
<1>0. PICK history \in InOrder(History) : history = status.history
  OBVIOUS
<1> DEFINE E == Refreshed(history, list)
           known == [i \in DOMAIN history |-> Updated(history[i], list)]
           N == Len(list)
           X == InOrder(E)
           step == [i \in 1..N |-> [f \in X |-> Refresh(f, known, list, i)]]
           g == CHOOSE f : Refreshes(f, known, list)
<1>1. N \in Nat /\ history \in Seq(History) /\ Ordered(history) /\ DOMAIN history = 1..Len(history)
      /\ Len(history) \in Nat /\ \A i \in 1..Len(history) : history[i] \in History
  BY DEF InOrder
<1>2. E \subseteq History
  <2>1. \A h \in Entries(history) : Updated(h, list) \in History
    BY <1>1, UpdatedFacts DEF Entries
  <2>2. ASSUME NEW i \in 1..N PROVE Entry(list[i]) \in History
    <3>1. list[i] \in Listed
      OBVIOUS
    <3>2. list[i].name \in Names /\ list[i].wl.finished \in BOOLEAN
      BY <3>1 DEF Listed, Workload
    <3> QED BY <3>2 DEF Entry, History
  <2> QED BY <2>1, <2>2 DEF Refreshed
<1>3. known \in X
  <2>1. \A i \in 1..Len(history) :
          /\ Updated(history[i], list) \in E
          /\ Updated(history[i], list).created = history[i].created
    BY <1>1, UpdatedFacts DEF Refreshed, Entries
  <2> HIDE DEF E
  <2>2. known \in Seq(E) /\ Len(known) = Len(history)
        /\ \A i \in 1..Len(history) : known[i].created = history[i].created
    BY <1>1, <2>1
  <2> HIDE DEF known
  <2>3. Ordered(known)
    BY <1>1, <2>2 DEF Ordered
  <2> QED BY <2>2, <2>3 DEF InOrder
<1>4. ASSUME NEW i \in 1..N, NEW f \in X
      PROVE  Refresh(f, known, list, i) \in X
  <2>1. Entry(list[i]) \in E
    BY DEF Refreshed
  <2>2. \A e \in E : e.created \in Nat
    BY <1>2 DEF History, Times
  <2>3. Inserted(f, Entry(list[i])) \in X
    <3> HIDE DEF E
    <3> QED BY <2>1, <2>2, InsertedFacts
  <2> QED BY <2>3 DEF Refresh
<1>5. step \in [1..N -> [X -> X]]
  <2> HIDE DEF X, N, known
  <2> QED BY <1>4
<1>6. PICK r : Run(r, N, X, known, step)
  <2> HIDE DEF step, X, N, known, g
  <2> QED BY <1>1, <1>3, <1>5, LoopRuns
<1>7. \A i \in 1..N : r[i] = Refresh(r[i - 1], known, list, i)
  <2> SUFFICES ASSUME NEW i \in 1..N PROVE r[i] = Refresh(r[i - 1], known, list, i)
    OBVIOUS
  <2>1. i - 1 \in 0..N
    BY <1>1
  <2>2. r[i - 1] \in X
    BY <1>6, <2>1 DEF Run
  <2>3. step[i][r[i - 1]] = Refresh(r[i - 1], known, list, i)
    <3> HIDE DEF X, N, known
    <3> QED BY <2>2
  <2> QED BY <1>6, <2>3 DEF Run
<1>8. Refreshes(r, known, list)
  <2> HIDE DEF X, step, N, known
  <2>1. r = [i \in 0..N |-> r[i]]
    BY <1>6 DEF Run
  <2>2. \A i \in 0..N : r[i] = IF i = 0 THEN known ELSE Refresh(r[i - 1], known, list, i)
    BY <1>1, <1>6, <1>7 DEF Run
  <2>3. r = [i \in 0..N |-> IF i = 0 THEN known ELSE Refresh(r[i - 1], known, list, i)]
    BY <2>1, <2>2
  <2> QED BY <2>3 DEF Refreshes, N
<1>9. Refreshes(g, known, list)
  <2> HIDE DEF known
  <2> QED BY <1>8
<1>10. refreshedHistory(list) = Truncated(g[N])
  BY <1>0 DEF refreshedHistory, Refreshes, Refresh
<1> HIDE DEF g, step, known
<1>11. g[0] = known /\ \A i \in 1..N : g[i] = Refresh(g[i - 1], known, list, i)
  BY <1>1, <1>9 DEF Refreshes
<1>12. g[0] \in X /\ \A i \in 1..N : g[i - 1] \in X => g[i] \in X
  <2> HIDE DEF X
  <2> QED BY <1>3, <1>4, <1>11
<1>13. g[N] \in X
  <2> HIDE DEF X, N
  <2>1. \A i \in 0..N : g[i] \in X
    BY <1>1, <1>12, LoopKeeps
  <2> QED BY <1>1, <2>1
<1> HIDE DEF N
<1>14. Truncated(g[N]) \in InOrder(E) /\ Len(Truncated(g[N])) <= HistoryLimit
  <2> HIDE DEF E
  <2> QED BY <1>13, TruncatedFacts
<1> QED BY <1>0, <1>2, <1>10, <1>14
-----------------------------------------------------------------------------
(***************************************************************************)
(* The invariant of the history.                                           *)
(***************************************************************************)
(* The types that the invariant above leaves out. *)
Plain ==
  /\ policy \in Policies /\ suspend \in BOOLEAN /\ fresh \in BOOLEAN /\ queued \in BOOLEAN
  /\ timer \in Nat

(* A workload that exists was created at some time. *)
Made(wl) == wl.created \in 0..MaxTime /\ (Exists(wl) => wl.created \in Times)

Dated == \A n \in Names : Made(wls[n]) /\ Made(cached[n])

HistoryTyped ==
  /\ status.history \in InOrder(History) /\ Len(status.history) <= HistoryLimit
  /\ worker.st.history = IF worker.pc = "idle" THEN << >> ELSE status.history

(* No two entries of an active list have one uid. *)
OneEach(active) == \A q, r \in Entries(active) : q.uid = r.uid => q = r

UidsDiffer == OneEach(status.active) /\ OneEach(worker.st.active)

(* A copy with the uid of a workload has its name and its time of creation. *)
CopyOf(name, copy, ws) ==
  \A n \in Names : copy.uid = ws[n].uid /\ Exists(ws[n]) => name = n /\ copy.created = ws[n].created

CopiesMatch ==
  /\ \A n \in Names : CopyOf(n, cached[n], wls)
  /\ \A i \in 1..Len(worker.list) : CopyOf(worker.list[i].name, worker.list[i].wl, wls)
  /\ \A i \in 1..Len(worker.list) : Exists(worker.list[i].wl)

(* The history knows what the workloads listed in this sync came to. *)
Noted ==
  worker.pc = "sync" =>
    \A h \in Entries(status.history), i \in 1..Len(worker.list) :
      Same(h, worker.list[i]) /\ worker.list[i].wl.finished => h.finished

(* What is on the list stays on it when a workload is started. *)
Retained ==
  policy # "Replace" /\ worker.pc \in {"create", "record"}
    => Entries(status.active) \subseteq Entries(worker.st.active)

(* Where workloads are named after their ticks, no name is used again once it is recorded. *)
Recorded(entries, last) == \A r \in entries : r.name <= last

NamesRecorded ==
  /\ Recorded(Entries(status.active), status.last) /\ Recorded(Entries(status.history), status.last)
  /\ Recorded(Entries(worker.st.active), worker.st.last)
  /\ worker.pc = "create" => worker.st.last = status.last

(* So a uid on the list is that of the workload of its name. *)
Current(active, ws) ==
  \A r \in Entries(active) : r.uid # NoUid /\ Exists(ws[r.name]) => ws[r.name].uid = r.uid

RefsCurrent == Current(status.active, wls) /\ Current(worker.st.active, wls)

(* A workload of the history is on the active list, gone, or known to be finished. *)
Told ==
  policy # "Replace" =>
    \A h \in Entries(status.history) :
      /\ Exists(wls[h.name]) /\ h.created = wls[h.name].created
      /\ \A r \in Entries(status.active) : r.name # h.name
      => h.finished

PlainHistory == Plain /\ Dated /\ HistoryTyped /\ UidsDiffer /\ CopiesMatch /\ Noted /\ Retained

NamedHistory == NamesRecorded /\ RefsCurrent /\ Told

LEMMA PlainStep ==
  ASSUME TypeInv, Plain, [Next]_vars
  PROVE  Plain'
<1> USE DEF Plain
<1>0. clock \in 0..MaxTime + 4 /\ worker.now \in 0..MaxTime + 4
  <2>1. worker.now \in 0..MaxTime /\ clock \in 1..MaxTime /\ MaxTime \in Nat
    BY CronAssumption DEF TypeInv, WorkerWith
  <2> QED BY <2>1
<1>1. NextTick[clock] \in Nat /\ NextTick[worker.now] \in Nat /\ NoTime \in Nat
  BY <1>0, NextTickFacts DEF NoTime
<1> HIDE DEF NoTime
<1>2. CASE Reconcile
  BY <1>2 DEF Reconcile, Put
<1>3. CASE SyncFails
  BY <1>3 DEF SyncFails, Failed, object
<1>4. CASE SyncCron
  BY <1>1, <1>4 DEF SyncCron, Put, Requeue
<1>5. CASE Create \/ CreateAlreadyExists \/ CreateFails
  BY <1>5 DEF Create, CreateAlreadyExists, CreateFails, Failed, object
<1>6. CASE Record
  BY <1>1, <1>6 DEF Record, Put, Requeue
<1>7. CASE DeliverCron \/ TimerFires \/ Tick \/ UserEdits \/ Crash \/ UNCHANGED vars
  BY <1>1, <1>7 DEF DeliverCron, TimerFires, Tick, UserEdits, Crash, object, vars
<1>8. CASE \E n \in Names : DeliverWorkload(n) \/ WorkloadFinishes(n) \/ WorkloadDeleted(n)
  BY <1>8 DEF DeliverWorkload, WorkloadFinishes, WorkloadDeleted, object
<1> QED BY <1>2, <1>3, <1>4, <1>5, <1>6, <1>7, <1>8 DEF Next, Worker

LEMMA DatedStep ==
  ASSUME TypeInv, Carried, Dated, [Next]_vars
  PROVE  Dated'
<1> USE DEF Dated
<1>1. CASE UNCHANGED wls /\ cached' \in {cached, wls}
  BY <1>1
<1>2. CASE Create
  <2>1. Made(wls'[newName])
    <3>1. wls'[newName].created = clock /\ clock \in 1..MaxTime /\ MaxTime \in Nat
      BY <1>2, CreateDoes, Unpacked DEF TypeInv
    <3>2. clock \in 0..MaxTime /\ clock \in Times
      BY <3>1 DEF Times
    <3> QED BY <3>1, <3>2 DEF Made
  <2> QED BY <1>2, <2>1, CreateDoes
<1>3. ASSUME NEW n \in Names, WorkloadFinishes(n) PROVE Dated'
  <2>1. Made(wls'[n])
    BY <1>3, FinishesDoes DEF Made, Exists
  <2> QED BY <1>3, <2>1, FinishesDoes
<1>4. ASSUME NEW n \in Names, WorkloadDeleted(n) PROVE Dated'
  <2>1. wls'[n] = Absent
    BY <1>4 DEF WorkloadDeleted, TypeInv
  <2>2. Made(Absent)
    BY CronAssumption DEF Made, Absent, Exists
  <2> QED BY <1>4, <2>1, <2>2, DeletedDoes
<1>5. ASSUME NEW n \in Names, DeliverWorkload(n) PROVE Dated'
  BY <1>5, DeliverDoes
<1>6. \/ UNCHANGED wls /\ cached' \in {cached, wls}
      \/ Create
      \/ \E n \in Names : WorkloadFinishes(n) \/ WorkloadDeleted(n) \/ DeliverWorkload(n)
  BY StepCases, ReconcileDoes, SyncCronDoes, RecordDoes DEF Quiet, Ended, Adopted, Tick
<1> HIDE DEF Dated
<1> QED BY <1>1, <1>2, <1>3, <1>4, <1>5, <1>6

LEMMA HistoryTypedStep ==
  ASSUME TypeInv, Carried, Dated, HistoryTyped, [Next]_vars
  PROVE  HistoryTyped'
<1> USE DEF HistoryTyped
<1>0. Idle.pc = "idle" /\ Idle.st.history = << >>
  BY DEF Idle
<1>1. CASE Quiet
  BY <1>1 DEF Quiet
<1>2. CASE Ended
  BY <1>0, <1>2 DEF Ended
<1>3. CASE Reconcile
  <2>1. /\ worker'.list \in Seq(Listed)
        /\ \A i \in 1..Len(worker'.list) : worker'.list[i].wl.created \in Times
    BY <1>3, ReconcileDoes, CopiesListed DEF Dated, Made
  <2>2. /\ status'.history \in InOrder(Refreshed(status.history, worker'.list))
        /\ Len(status'.history) <= HistoryLimit
        /\ Refreshed(status.history, worker'.list) \subseteq History
    BY <1>3, <2>1, ReconcileDoes, RefreshedFacts
  <2>3. status'.history \in InOrder(History)
    BY <2>2 DEF InOrder
  <2> QED BY <1>3, <2>2, <2>3, ReconcileDoes
<1>4. CASE SyncCron
  BY <1>0, <1>4, SyncCronDoes
<1>5. CASE Create
  BY <1>5, CreateDoes
<1>6. CASE Adopted
  BY <1>6, AdoptedDoes DEF Adopted
<1>7. CASE Record
  BY <1>0, <1>7, RecordDoes
<1>8. CASE Tick
  BY <1>8 DEF Tick, object
<1>9. ASSUME NEW n \in Names, DeliverWorkload(n) PROVE HistoryTyped'
  BY <1>9, DeliverDoes
<1>10. ASSUME NEW n \in Names, WorkloadFinishes(n) PROVE HistoryTyped'
  BY <1>10, FinishesDoes
<1>11. ASSUME NEW n \in Names, WorkloadDeleted(n) PROVE HistoryTyped'
  BY <1>11, DeletedDoes
<1> HIDE DEF HistoryTyped
<1> QED BY <1>1, <1>2, <1>3, <1>4, <1>5, <1>6, <1>7, <1>8, <1>9, <1>10, <1>11, StepCases

LEMMA UidsDifferStep ==
  ASSUME TypeInv, Carried, Numbered, UidsDiffer, [Next]_vars
  PROVE  UidsDiffer'
<1> USE DEF UidsDiffer, OneEach
<1>0. status.active \in Seq(Ref) /\ worker.st.active \in Seq(Ref) /\ Len(starts) \in Nat
  BY Unpacked
<1>1. CASE Quiet
  BY <1>1 DEF Quiet
<1>2. CASE Ended
  BY <1>2, IdleFacts, EntriesFacts DEF Ended
<1>3. CASE Reconcile
  BY <1>3, ReconcileDoes
<1>4. CASE SyncCron
  BY <1>4, SyncCronEntries
<1>5. CASE Create
  <2>1. Entries(worker'.st.active)
          = Entries(worker.st.active) \cup {[name |-> newName, uid |-> Len(starts) + 1]}
    BY <1>0, <1>5, CreateDoes, EntriesFacts
  <2>2. \A r \in Entries(worker.st.active) : r.uid # Len(starts) + 1
    <3>1. \A r \in Entries(worker.st.active) : r.uid <= Len(starts) /\ r \in Ref
      BY <1>0, SliceOfFacts DEF Numbered, Given
    <3>2. \A r \in Ref : r.uid \in Nat
      BY CronAssumption DEF Ref
    <3> QED BY <1>0, <3>1, <3>2
  <2> QED BY <1>5, <2>1, <2>2, CreateDoes
<1>6. CASE Adopted
  <2>1. Entries(worker'.st.active) = Entries(worker.st.active) \cup {[name |-> newName, uid |-> 0]}
    BY <1>0, <1>6, AdoptedDoes, EntriesFacts
  <2>2. \A r \in Entries(worker.st.active) : r.uid # 0
    BY <1>0, <1>6 DEF Adopted, inActiveList, Entries, NoUid
  <2> QED BY <1>6, <2>1, <2>2 DEF Adopted
<1>7. CASE Record
  BY <1>7, RecordDoes, IdleFacts, EntriesFacts
<1>8. CASE Tick
  BY <1>8 DEF Tick, object
<1>9. ASSUME NEW n \in Names, DeliverWorkload(n) PROVE UidsDiffer'
  BY <1>9, DeliverDoes
<1>10. ASSUME NEW n \in Names, WorkloadFinishes(n) PROVE UidsDiffer'
  BY <1>10, FinishesDoes
<1>11. ASSUME NEW n \in Names, WorkloadDeleted(n) PROVE UidsDiffer'
  BY <1>11, DeletedDoes
<1> HIDE DEF UidsDiffer
<1> QED BY <1>1, <1>2, <1>3, <1>4, <1>5, <1>6, <1>7, <1>8, <1>9, <1>10, <1>11, StepCases

LEMMA CopiesMatchStep ==
  ASSUME TypeInv, Carried, Numbered, Distinct, CopiesMatch, [Next]_vars
  PROVE  CopiesMatch'
<1> USE DEF CopiesMatch, CopyOf
<1>0. \A n \in Names : CopyOf(n, wls[n], wls)
  BY DEF Distinct
<1>1. CASE Quiet
  BY <1>1 DEF Quiet
<1>2. CASE Ended
  <2>1. \A n \in Names : CopyOf(n, cached'[n], wls)
    BY <1>0, <1>2 DEF Ended
  <2> QED BY <1>2, <2>1, IdleFacts DEF Ended
<1>3. CASE Reconcile
  <2>1. \A i \in 1..Len(worker'.list) :
          /\ worker'.list[i].name \in Names /\ worker'.list[i].wl = cached[worker'.list[i].name]
          /\ Exists(worker'.list[i].wl)
    BY <1>3, ReconcileDoes, CopiesListed
  <2>2. \A i \in 1..Len(worker'.list) : CopyOf(worker'.list[i].name, worker'.list[i].wl, wls)
    BY <2>1
  <2> QED BY <1>3, <2>1, <2>2, ReconcileDoes
<1>4. CASE SyncCron
  <2>1. \A i \in 1..Len(worker'.list) : /\ CopyOf(worker'.list[i].name, worker'.list[i].wl, wls)
                                          /\ Exists(worker'.list[i].wl)
    BY <1>4, SyncCronDoes, IdleFacts
  <2> QED BY <1>4, <2>1, SyncCronDoes
<1>5. CASE Create
  <2>1. ASSUME NEW name, NEW copy, copy.uid <= Len(starts), copy.uid \in Nat, CopyOf(name, copy, wls)
        PROVE  CopyOf(name, copy, wls')
    <3>1. Len(starts) \in Nat /\ wls'[newName].uid = Len(starts) + 1
      BY <1>5, CreateDoes, Unpacked
    <3>2. copy.uid # wls'[newName].uid
      BY <2>1, <3>1
    <3>3. \A n \in Names : n # newName => wls'[n] = wls[n]
      BY <1>5, CreateDoes
    <3> QED BY <2>1, <3>2, <3>3
  <2>2. \A n \in Names : cached[n].uid \in Nat /\ cached[n].uid <= Len(starts)
    BY CronAssumption DEF TypeInv, Workload, Numbered
  <2>3. \A i \in 1..Len(worker.list) : worker.list[i].wl.uid \in Nat /\ worker.list[i].wl.uid <= Len(starts)
    <3>1. \A i \in 1..Len(worker.list) : worker.list[i] \in Listed
      BY Unpacked
    <3>2. \A e \in Listed : e.wl.uid \in Nat
      BY CronAssumption DEF Listed, Workload
    <3> QED BY <3>1, <3>2 DEF Numbered
  <2>4. \A n \in Names : CopyOf(n, cached[n], wls')
    <3> HIDE DEF CopyOf
    <3> QED BY <2>1, <2>2
  <2>5. \A i \in 1..Len(worker.list) : CopyOf(worker.list[i].name, worker.list[i].wl, wls')
    <3> HIDE DEF CopyOf
    <3> QED BY <2>1, <2>3
  <2>6. UNCHANGED cached /\ worker'.list = worker.list
    BY <1>5, CreateDoes
  <2> HIDE DEF CopyOf
  <2> QED BY <2>4, <2>5, <2>6
<1>6. CASE Adopted
  BY <1>6, AdoptedDoes DEF Adopted
<1>7. CASE Record
  BY <1>7, RecordDoes, IdleFacts
<1>8. CASE Tick
  BY <1>8 DEF Tick, object
<1>9. ASSUME NEW n \in Names, DeliverWorkload(n) PROVE CopiesMatch'
  <2>1. \A m \in Names : CopyOf(m, cached'[m], wls)
    BY <1>0, <1>9, DeliverDoes
  <2> QED BY <1>9, <2>1, DeliverDoes
<1>10. ASSUME NEW n \in Names, WorkloadFinishes(n) PROVE CopiesMatch'
  <2>1. ASSUME NEW name, NEW copy, CopyOf(name, copy, wls) PROVE CopyOf(name, copy, wls')
    BY <1>10, <2>1, FinishesDoes DEF Exists
  <2> HIDE DEF CopyOf
  <2> QED BY <1>10, <2>1, FinishesDoes
<1>11. ASSUME NEW n \in Names, WorkloadDeleted(n) PROVE CopiesMatch'
  <2>1. ASSUME NEW name, NEW copy, CopyOf(name, copy, wls) PROVE CopyOf(name, copy, wls')
    BY <1>11, <2>1, DeletedDoes DEF Exists, NoUid
  <2> HIDE DEF CopyOf
  <2> QED BY <1>11, <2>1, DeletedDoes
<1> HIDE DEF CopiesMatch
<1> QED BY <1>1, <1>2, <1>3, <1>4, <1>5, <1>6, <1>7, <1>8, <1>9, <1>10, <1>11, StepCases
(* The entries of a refreshed history, and what they come from. *)
LEMMA ReconcileEntries ==
  ASSUME TypeInv, Dated, HistoryTyped, Reconcile, NEW h \in Entries(status'.history)
  PROVE  \/ \E g \in Entries(status.history) : g \in History /\ h = Updated(g, worker'.list)
         \/ \E i \in 1..Len(worker'.list) : h = Entry(worker'.list[i])
<1>1. /\ worker'.list \in Seq(Listed)
      /\ \A i \in 1..Len(worker'.list) : worker'.list[i].wl.created \in Times
  BY ReconcileDoes, CopiesListed DEF Dated, Made
<1>2. status'.history \in InOrder(Refreshed(status.history, worker'.list))
  BY <1>1, ReconcileDoes, RefreshedFacts DEF HistoryTyped
<1> DEFINE E == Refreshed(status.history, worker'.list)
<1>3. status'.history \in Seq(E)
  BY <1>2 DEF InOrder
<1> HIDE DEF E
<1>4. h \in E
  BY <1>3 DEF Entries
<1>5. Entries(status.history) \subseteq History
  BY DEF HistoryTyped, InOrder, Entries
<1> QED BY <1>4, <1>5 DEF E, Refreshed

LEMMA NotedStep ==
  ASSUME TypeInv, Carried, Dated, HistoryTyped, Noted, [Next]_vars
  PROVE  Noted'
<1> USE DEF Noted
<1>1. CASE Quiet
  BY <1>1 DEF Quiet
<1>2. CASE Ended \/ SyncCron \/ Create \/ Adopted \/ Record
  BY <1>2, SyncCronDoes, CreateDoes, AdoptedDoes, RecordDoes, IdleFacts DEF Ended
<1>3. CASE Reconcile
  <2> SUFFICES ASSUME NEW h \in Entries(status'.history), NEW i \in 1..Len(worker'.list),
                      Same(h, worker'.list[i]), worker'.list[i].wl.finished
               PROVE  h.finished
    OBVIOUS
  <2>1. /\ worker'.list \in Seq(Listed)
        /\ \A k \in 1..Len(worker'.list) : worker'.list[k].wl = cached[worker'.list[k].name]
    BY <1>3, ReconcileDoes, CopiesListed
  <2>2. CASE \E g \in Entries(status.history) : g \in History /\ h = Updated(g, worker'.list)
    <3>1. PICK g \in History : h = Updated(g, worker'.list)
      BY <2>2
    <3>2. Same(g, worker'.list[i])
      BY <2>1, <3>1, UpdatedFacts DEF Same
    <3> QED BY <2>1, <3>1, <3>2, UpdatedFacts
  <2>3. CASE \E k \in 1..Len(worker'.list) : h = Entry(worker'.list[k])
    <3>1. PICK k \in 1..Len(worker'.list) : h = Entry(worker'.list[k])
      BY <2>3
    <3>2. worker'.list[k].name = worker'.list[i].name /\ h.finished = worker'.list[k].wl.finished
      BY <3>1 DEF Same, Entry
    <3> QED BY <2>1, <3>2
  <2> QED BY <1>3, <2>2, <2>3, ReconcileEntries
<1>4. CASE Tick
  BY <1>4 DEF Tick, object
<1>5. ASSUME NEW n \in Names, DeliverWorkload(n) PROVE Noted'
  BY <1>5, DeliverDoes
<1>6. ASSUME NEW n \in Names, WorkloadFinishes(n) PROVE Noted'
  BY <1>6, FinishesDoes
<1>7. ASSUME NEW n \in Names, WorkloadDeleted(n) PROVE Noted'
  BY <1>7, DeletedDoes
<1> HIDE DEF Noted
<1> QED BY <1>1, <1>2, <1>3, <1>4, <1>5, <1>6, <1>7, StepCases

LEMMA RetainedStep ==
  ASSUME TypeInv, Carried, Retained, [Next]_vars
  PROVE  Retained'
<1> USE DEF Retained
<1>0. worker.st.active \in Seq(Ref)
  BY Unpacked
<1>1. CASE Quiet
  BY <1>1 DEF Quiet
<1>2. CASE Ended \/ Reconcile \/ Record
  BY <1>2, ReconcileDoes, RecordDoes, IdleFacts DEF Ended
<1>3. CASE SyncCron
  BY <1>3, SyncCronDoes, IdleFacts DEF Replaced
<1>4. CASE Create
  BY <1>0, <1>4, CreateDoes, EntriesFacts
<1>5. CASE Adopted
  BY <1>0, <1>5, AdoptedDoes, EntriesFacts DEF Adopted
<1>6. CASE Tick
  BY <1>6 DEF Tick, object
<1>7. ASSUME NEW n \in Names, DeliverWorkload(n) PROVE Retained'
  BY <1>7, DeliverDoes
<1>8. ASSUME NEW n \in Names, WorkloadFinishes(n) PROVE Retained'
  BY <1>8, FinishesDoes
<1>9. ASSUME NEW n \in Names, WorkloadDeleted(n) PROVE Retained'
  BY <1>9, DeletedDoes
<1> HIDE DEF Retained
<1> QED BY <1>1, <1>2, <1>3, <1>4, <1>5, <1>6, <1>7, <1>8, <1>9, StepCases

(* Names and ticks are numbers. *)
LEMMA NumberFacts ==
  ASSUME TypeInv, HistoryTyped
  PROVE  /\ \A n \in Names : n \in Nat
         /\ \A r \in Entries(status.active) \cup Entries(worker.st.active) : r.name \in Names
         /\ \A h \in Entries(status.history) : h.name \in Names
         /\ status.last \in Nat /\ worker.st.last \in Nat /\ worker.tick \in Nat
<1>1. MaxTime \in Nat /\ status.last \in 0..MaxTime /\ worker.st.last \in 0..MaxTime
      /\ worker.tick \in 0..MaxTime
  BY Unpacked
<1>2. \A n \in Names : n \in Nat
  BY <1>1 DEF Names, Ticks, Fixed
<1>3. \A r \in Entries(status.active) \cup Entries(worker.st.active) : r \in Ref
  BY Unpacked, SliceOfFacts
<1>4. \A h \in Entries(status.history) : h \in History
  BY DEF HistoryTyped, InOrder, Entries
<1>5. \A r \in Ref : r.name \in Names
  BY DEF Ref
<1>6. \A h \in History : h.name \in Names
  BY DEF History
<1> QED BY <1>1, <1>2, <1>3, <1>4, <1>5, <1>6

(* The name of a workload that is started is later than every name that is recorded. *)
LEMMA NewNameIsLater ==
  ASSUME ~Named, TypeInv, Carried, HistoryTyped, NamesRecorded, worker.pc = "create"
  PROVE  /\ newName = worker.tick /\ worker.tick > worker.st.last /\ worker.st.last = status.last
         /\ \A r \in Entries(status.active) \cup Entries(worker.st.active) : r.name < worker.tick
         /\ \A h \in Entries(status.history) : h.name < worker.tick
<1>1. newName = worker.tick
  BY DEF newName
<1>2. worker.tick > status.last /\ worker.st.last = status.last
  BY DEF Carried, NamesRecorded
<1> QED BY <1>1, <1>2, NumberFacts DEF NamesRecorded, Recorded

LEMMA NamesRecordedStep ==
  ASSUME ~Named, TypeInv, Carried, Dated, HistoryTyped, NamesRecorded, [Next]_vars
  PROVE  NamesRecorded'
<1> USE DEF NamesRecorded, Recorded
<1>0. status.active \in Seq(Ref) /\ worker.st.active \in Seq(Ref)
  BY Unpacked
<1>1. CASE Quiet
  BY <1>1 DEF Quiet
<1>2. CASE Ended
  BY <1>2, IdleFacts, EntriesFacts DEF Ended
<1>3. CASE Reconcile
  <2>1. ASSUME NEW h \in Entries(status'.history)
        PROVE  h.name <= status.last
    <3>1. /\ worker'.list \in Seq(Listed)
          /\ \A k \in 1..Len(worker'.list) :
               \E q \in Entries(status.active) : q.name = worker'.list[k].name
      BY <1>3, ReconcileDoes, CopiesListed
    <3>2. CASE \E g \in Entries(status.history) : g \in History /\ h = Updated(g, worker'.list)
      BY <3>1, <3>2, UpdatedFacts
    <3>3. CASE \E k \in 1..Len(worker'.list) : h = Entry(worker'.list[k])
      BY <3>1, <3>3 DEF Entry
    <3> QED BY <1>3, <3>2, <3>3, ReconcileEntries
  <2> QED BY <1>3, <2>1, ReconcileDoes
<1>4. CASE SyncCron
  <2>1. worker.st.last = status.last /\ worker.st.history = status.history
    BY <1>4, SyncCronDoes DEF Carried, HistoryTyped
  <2> QED BY <1>4, <2>1, SyncCronDoes, SyncCronEntries, IdleFacts, EntriesFacts
<1>5. CASE Create \/ Adopted
  <2>1. worker.pc = "create" /\ worker'.pc = "record" /\ worker'.st.last = worker.tick /\ UNCHANGED status
    BY <1>5, CreateDoes, AdoptedDoes DEF Adopted
  <2>2. \E uid : Entries(worker'.st.active) = Entries(worker.st.active) \cup {[name |-> newName, uid |-> uid]}
    <3>1. PICK uid : /\ [name |-> newName, uid |-> uid] \in Ref
                     /\ worker'.st.active = Append(worker.st.active, [name |-> newName, uid |-> uid])
      BY <1>5, CreateDoes, AdoptedDoes
    <3>2. Entries(Append(worker.st.active, [name |-> newName, uid |-> uid]))
          = Entries(worker.st.active) \cup {[name |-> newName, uid |-> uid]}
      BY <1>0, <3>1, EntriesFacts
    <3> QED BY <3>1, <3>2
  <2>3. \A r \in Entries(worker'.st.active) : r.name <= worker.tick
    BY <2>1, <2>2, NewNameIsLater, NumberFacts
  <2> QED BY <2>1, <2>3
<1>7. CASE Record
  <2>1. /\ worker.st.history = status.history /\ worker.st.last > status.last
        /\ worker.st.last \in Nat /\ status.last \in Nat
    BY <1>7, RecordDoes, NumberFacts DEF Carried, HistoryTyped
  <2>2. \A h \in Entries(status.history) : h.name <= worker.st.last
    BY <2>1, NumberFacts
  <2> QED BY <1>7, <2>1, <2>2, RecordDoes, IdleFacts, EntriesFacts
<1>8. CASE Tick
  BY <1>8 DEF Tick, object
<1>9. ASSUME NEW n \in Names, DeliverWorkload(n) PROVE NamesRecorded'
  BY <1>9, DeliverDoes
<1>10. ASSUME NEW n \in Names, WorkloadFinishes(n) PROVE NamesRecorded'
  BY <1>10, FinishesDoes
<1>11. ASSUME NEW n \in Names, WorkloadDeleted(n) PROVE NamesRecorded'
  BY <1>11, DeletedDoes
<1> HIDE DEF NamesRecorded
<1> QED BY <1>1, <1>2, <1>3, <1>4, <1>5, <1>7, <1>8, <1>9, <1>10, <1>11, StepCases
LEMMA RefsCurrentStep ==
  ASSUME ~Named, TypeInv, Carried, HistoryTyped, NamesRecorded, RefsCurrent, [Next]_vars
  PROVE  RefsCurrent'
<1> USE DEF RefsCurrent, Current
<1>0. /\ status.active \in Seq(Ref) /\ worker.st.active \in Seq(Ref)
      /\ \A r \in Entries(status.active) \cup Entries(worker.st.active) : r.name \in Names
  BY Unpacked, NumberFacts
<1>1. CASE Quiet
  BY <1>1 DEF Quiet
<1>2. CASE Ended
  BY <1>2, IdleFacts, EntriesFacts DEF Ended
<1>3. CASE Reconcile
  BY <1>3, ReconcileDoes
<1>4. CASE SyncCron
  BY <1>4, SyncCronDoes, SyncCronEntries DEF Carried
<1>5. CASE Create
  <2>1. /\ worker.pc = "create" /\ wls'[newName].uid = Len(starts) + 1
        /\ \A n \in Names : n # newName => wls'[n] = wls[n]
        /\ UNCHANGED status
    BY <1>5, CreateDoes
  <2>2. \A r \in Entries(status.active) \cup Entries(worker.st.active) :
          r.name # newName /\ wls'[r.name] = wls[r.name]
    BY <1>0, <2>1, NewNameIsLater, NumberFacts
  <2>3. Entries(worker'.st.active)
          = Entries(worker.st.active) \cup {[name |-> newName, uid |-> Len(starts) + 1]}
    BY <1>0, <1>5, CreateDoes, EntriesFacts
  <2>4. Current(status.active, wls')
    BY <2>2
  <2>5. Current(worker'.st.active, wls')
    BY <2>1, <2>2, <2>3
  <2> QED BY <2>1, <2>4, <2>5
<1>6. CASE Adopted
  <2>1. Entries(worker'.st.active) = Entries(worker.st.active) \cup {[name |-> newName, uid |-> 0]}
    BY <1>0, <1>6, AdoptedDoes, EntriesFacts
  <2> QED BY <1>6, <2>1 DEF Adopted, NoUid
<1>7. CASE Record
  BY <1>7, RecordDoes, IdleFacts, EntriesFacts
<1>8. CASE Tick
  BY <1>8 DEF Tick, object
<1>9. ASSUME NEW n \in Names, DeliverWorkload(n) PROVE RefsCurrent'
  BY <1>9, DeliverDoes
<1>10. ASSUME NEW n \in Names, WorkloadFinishes(n) PROVE RefsCurrent'
  <2>1. \A m \in Names : wls'[m].uid = wls[m].uid
    BY <1>10, FinishesDoes
  <2> QED BY <1>0, <1>10, <2>1, FinishesDoes DEF Exists
<1>11. ASSUME NEW n \in Names, WorkloadDeleted(n) PROVE RefsCurrent'
  <2>1. wls'[n].uid = 0 /\ \A m \in Names : m # n => wls'[m] = wls[m]
    BY <1>11, DeletedDoes
  <2> QED BY <1>0, <1>11, <2>1, DeletedDoes DEF Exists, NoUid
<1> HIDE DEF RefsCurrent
<1> QED BY <1>1, <1>2, <1>3, <1>4, <1>5, <1>6, <1>7, <1>8, <1>9, <1>10, <1>11, StepCases

(* A workload that exists leaves the active list only when its entry says finished. *)
LEMMA LeavesFinished ==
  ASSUME TypeInv, Carried, UidsDiffer, CopiesMatch, Noted, HistoryTyped, RefsCurrent, SyncCron,
         NEW h \in Entries(status.history), NEW r \in Entries(status.active),
         r.name = h.name, Exists(wls[h.name]), h.created = wls[h.name].created,
         r \notin Entries(status'.active)
  PROVE  h.finished
<1>1. /\ worker.pc = "sync" /\ worker.st.active = status.active
      /\ status'.active = trimFinishedWorkloadsFromActiveList(status.active, worker.list)
  BY SyncCronDoes DEF Carried
<1>2. PICK i \in 1..Len(worker.list) : worker.list[i].wl.finished /\ worker.list[i].wl.uid = r.uid
  <2>1. \A e \in Entries(status.active) : e.uid = r.uid => e = r
    BY DEF UidsDiffer, OneEach
  <2>2. ~(\A i \in 1..Len(worker.list) : worker.list[i].wl.finished => worker.list[i].wl.uid # r.uid)
    BY <1>1, <2>1, TrimKeeps, Unpacked
  <2> QED BY <2>2
<1>3. r.uid # NoUid
  BY <1>2 DEF CopiesMatch, Exists
<1>4. wls[r.name].uid = r.uid /\ r.name \in Names
  BY <1>3, NumberFacts DEF RefsCurrent, Current
<1>5. CopyOf(worker.list[i].name, worker.list[i].wl, wls)
  BY DEF CopiesMatch
<1>6. Same(h, worker.list[i])
  BY <1>2, <1>4, <1>5 DEF CopyOf, Same
<1> QED BY <1>1, <1>2, <1>6 DEF Noted

LEMMA ToldStep ==
  ASSUME ~Named, TypeInv, Carried, Dated, HistoryTyped, UidsDiffer, CopiesMatch, Noted, Retained,
         NamesRecorded, RefsCurrent, Told, [Next]_vars
  PROVE  Told'
<1> USE DEF Told
<1>0. \A h \in Entries(status.history) : h.name \in Names
  BY NumberFacts
<1>1. CASE UNCHANGED <<policy, status, wls>>
  BY <1>1
<1>2. CASE Reconcile
  <2> SUFFICES ASSUME policy # "Replace", NEW h \in Entries(status'.history),
                      Exists(wls[h.name]), h.created = wls[h.name].created,
                      \A r \in Entries(status.active) : r.name # h.name
               PROVE  h.finished
    BY <1>2, ReconcileDoes
  <2>1. /\ worker'.list \in Seq(Listed)
        /\ \A k \in 1..Len(worker'.list) :
             \E q \in Entries(status.active) : q.name = worker'.list[k].name
    BY <1>2, ReconcileDoes, CopiesListed
  <2>2. CASE \E g \in Entries(status.history) : g \in History /\ h = Updated(g, worker'.list)
    <3>1. PICK g \in Entries(status.history) : g \in History /\ h = Updated(g, worker'.list)
      BY <2>2
    <3>2. g.name = h.name /\ g.created = h.created /\ (g.finished => h.finished)
      BY <2>1, <3>1, UpdatedFacts
    <3> QED BY <3>2
  <2>3. CASE \E k \in 1..Len(worker'.list) : h = Entry(worker'.list[k])
    BY <2>1, <2>3 DEF Entry
  <2> QED BY <1>2, <2>2, <2>3, ReconcileEntries
<1>3. CASE SyncCron
  <2>1. status'.history = status.history /\ UNCHANGED <<policy, wls>>
    BY <1>3, SyncCronDoes DEF HistoryTyped
  <2> SUFFICES ASSUME policy # "Replace", NEW h \in Entries(status.history),
                      Exists(wls[h.name]), h.created = wls[h.name].created,
                      \A r \in Entries(status'.active) : r.name # h.name
               PROVE  h.finished
    BY <2>1
  <2>2. CASE \E r \in Entries(status.active) : r.name = h.name
    BY <1>3, <2>2, LeavesFinished
  <2>3. CASE ~\E r \in Entries(status.active) : r.name = h.name
    BY <2>3
  <2> QED BY <2>2, <2>3
<1>4. CASE Create
  <2>1. /\ worker.pc = "create" /\ \A n \in Names : n # newName => wls'[n] = wls[n]
        /\ UNCHANGED <<policy, status>>
    BY <1>4, CreateDoes
  <2>2. \A h \in Entries(status.history) : h.name # newName /\ wls'[h.name] = wls[h.name]
    BY <1>0, <2>1, NewNameIsLater, NumberFacts
  <2> QED BY <2>1, <2>2
<1>5. CASE Record
  <2>1. /\ status' = worker.st /\ worker.st.history = status.history /\ UNCHANGED <<policy, wls>>
        /\ worker.pc = "record"
    BY <1>5, RecordDoes DEF HistoryTyped
  <2>2. policy # "Replace" => Entries(status.active) \subseteq Entries(status'.active)
    BY <2>1 DEF Retained
  <2> QED BY <2>1, <2>2
<1>6. ASSUME NEW n \in Names, WorkloadFinishes(n) PROVE Told'
  <2>1. \A m \in Names : wls'[m].uid = wls[m].uid /\ wls'[m].created = wls[m].created
    BY <1>6, FinishesDoes
  <2> QED BY <1>0, <1>6, <2>1, FinishesDoes DEF Exists
<1>7. ASSUME NEW n \in Names, WorkloadDeleted(n) PROVE Told'
  <2>1. wls'[n].uid = 0 /\ \A m \in Names : m # n => wls'[m] = wls[m]
    BY <1>7, DeletedDoes
  <2> QED BY <1>0, <1>7, <2>1, DeletedDoes DEF Exists, NoUid
<1>8. \/ UNCHANGED <<policy, status, wls>> \/ Reconcile \/ SyncCron \/ Create \/ Record
      \/ \E n \in Names : WorkloadFinishes(n) \/ WorkloadDeleted(n)
  BY StepCases, DeliverDoes DEF Quiet, Ended, Adopted, Tick, object
<1> HIDE DEF Told
<1> QED BY <1>1, <1>2, <1>3, <1>4, <1>5, <1>6, <1>7, <1>8

LEMMA HistoryInit == Init => PlainHistory /\ NamedHistory
<1> SUFFICES ASSUME Init PROVE PlainHistory /\ NamedHistory
  OBVIOUS
<1>0. /\ status.active = << >> /\ status.history = << >> /\ worker = Idle /\ cached = wls
      /\ wls = [n \in Names |-> Absent]
  BY DEF Init
<1>1. /\ worker.st.active = << >> /\ worker.st.history = << >> /\ worker.list = << >>
      /\ worker.pc = "idle"
  BY <1>0 DEF Idle
<1>2. Entries(<< >>) = {}
  BY EntriesFacts
<1>3. Plain
  BY DEF Init, Plain, NoTime
<1>4. Dated
  BY <1>0, CronAssumption DEF Dated, Made, Absent, Exists
<1>5. HistoryTyped
  BY <1>0, <1>1, CronAssumption DEF HistoryTyped, InOrder, Ordered
<1>6. UidsDiffer /\ Noted /\ Retained /\ NamesRecorded /\ Told
  BY <1>0, <1>1, <1>2 DEF UidsDiffer, OneEach, Noted, Retained, NamesRecorded, Recorded, Told
<1>7. CopiesMatch /\ RefsCurrent
  BY <1>0, <1>1, <1>2 DEF CopiesMatch, CopyOf, RefsCurrent, Current, Absent, Exists
<1> QED BY <1>3, <1>4, <1>5, <1>6, <1>7 DEF PlainHistory, NamedHistory

LEMMA HistoryStep ==
  /\ IInv /\ PlainHistory /\ [Next]_vars => PlainHistory'
  /\ ~Named /\ IInv /\ PlainHistory /\ NamedHistory /\ [Next]_vars => NamedHistory'
<1>1. IInv /\ PlainHistory /\ [Next]_vars => PlainHistory'
  BY PlainStep, DatedStep, HistoryTypedStep, UidsDifferStep, CopiesMatchStep, NotedStep, RetainedStep
     DEF IInv, PlainHistory
<1>2. ~Named /\ IInv /\ PlainHistory /\ NamedHistory /\ [Next]_vars => NamedHistory'
  BY NamesRecordedStep, RefsCurrentStep, ToldStep DEF IInv, PlainHistory, NamedHistory
<1> QED BY <1>1, <1>2

LEMMA TypesFollow == IInv /\ PlainHistory => TypeOK
<1> SUFFICES ASSUME IInv, PlainHistory PROVE TypeOK
  OBVIOUS
<1> USE DEF IInv, PlainHistory
<1>1. MaxTime \in Nat \ {0} /\ MaxStarts \in Nat
  BY CronAssumption
<1>2. /\ status.history \in Seq(History) /\ worker.st.history \in Seq(History)
      /\ Len(status.history) <= HistoryLimit /\ Ordered(status.history)
  BY DEF HistoryTyped, InOrder
<1>3. 0..MaxTime \subseteq {NoTime} \cup Ticks
  BY <1>1 DEF NoTime, Ticks
<1>4. status \in Status /\ worker.st \in Status /\ worker.pc \in Pcs
  <2>1. status \in StatusWith(status.history) /\ worker.st \in StatusWith(worker.st.history)
        /\ worker.pc \in Pcs
    BY Unpacked DEF TypeInv
  <2> QED BY <1>2, <1>3, <2>1 DEF StatusWith, Status
<1>5. \A i, j \in DOMAIN status.history : i < j => status.history[i].created <= status.history[j].created
  BY <1>2 DEF Ordered
<1>6. wls \in [Names -> [uid : 0..MaxStarts, created : 0..MaxTime, finished : BOOLEAN]]
  <2>1. wls \in [Names -> Workload]
    BY DEF TypeInv
  <2>2. \A n \in Names : wls[n] \in [uid : 0..MaxStarts, created : 0..MaxTime, finished : BOOLEAN]
    BY <2>1 DEF Workload, Dated, Made
  <2> QED BY <2>1, <2>2
<1>7. starts \in Seq(Ticks) /\ clock \in Times /\ DOMAIN cached = Names /\ lost \in BOOLEAN
  <2>1. 1..MaxTime \subseteq Ticks
    BY <1>1 DEF Ticks
  <2>2. starts \in Seq(1..MaxTime) /\ clock \in Times /\ DOMAIN cached = Names /\ lost \in BOOLEAN
    BY DEF TypeInv, Times
  <2>3. starts \in Seq(Ticks)
    <3> HIDE DEF IInv, PlainHistory
    <3> DEFINE T == 1..MaxTime
    <3> HIDE DEF T
    <3>1. starts \in Seq(T) /\ T \subseteq Ticks
      BY <2>1, <2>2 DEF T
    <3> QED BY <3>1
  <2> QED BY <2>2, <2>3
<1> QED BY <1>2, <1>4, <1>5, <1>6, <1>7 DEF TypeOK, Plain, Pcs

(***************************************************************************)
(* The history tells how each workload ended, for every schedule, policy,  *)
(* limit, number of workloads, faults, restarts and deletions, however     *)
(* late the cache is, as long as workloads are named after their ticks:    *)
(* trimFinishedWorkloadsFromActiveList takes a workload that exists off    *)
(* the list only in a sync that has noted its end (refreshCronHistory).    *)
(* With a name from the template two workloads created within a second     *)
(* share an entry of the history, and this does not hold.                  *)
(***************************************************************************)
THEOREM HistoryKept == ~Named => (Spec => []HistoryTellsOutcome)
<1> SUFFICES ASSUME ~Named PROVE Spec => []HistoryTellsOutcome
  OBVIOUS
<1> DEFINE Inv == IInv /\ PlainHistory /\ NamedHistory
<1>1. Init => Inv
  BY InvInit, HistoryInit
<1>2. Inv /\ [Next]_vars => Inv'
  BY InvStep, HistoryStep
<1>3. Inv => HistoryTellsOutcome
  <2> SUFFICES ASSUME Inv, policy # "Replace",
                      NEW n \in Names, NEW i \in DOMAIN status.history,
                      Exists(wls[n]), wls[n].finished,
                      status.history[i].name = n, status.history[i].created = wls[n].created,
                      \A k \in DOMAIN status.active : status.active[k].name # n
               PROVE  status.history[i].finished
    BY TypesFollow DEF HistoryTellsOutcome
  <2>1. status.history \in Seq(History) /\ status.active \in Seq(Ref)
    BY Unpacked DEF IInv, PlainHistory, HistoryTyped, InOrder
  <2>2. status.history[i] \in Entries(status.history)
    BY <2>1 DEF Entries
  <2>3. \A r \in Entries(status.active) : r.name # n
    BY <2>1 DEF Entries
  <2> QED BY <2>2, <2>3 DEF NamedHistory, Told
<1> HIDE DEF Inv
<1> QED BY <1>1, <1>2, <1>3, PTL DEF Spec
=============================================================================

-------------------------- MODULE PersistenceProofs --------------------------
(***************************************************************************)
(* Proofs about the persist controllers and the database: a record belongs *)
(* to one incarnation of an object and never goes back, for any number of  *)
(* jobs, pods, incarnations and changes, however late the watch is, and    *)
(* for any failed calls and restarts of the manager.                       *)
(***************************************************************************)
EXTENDS Persistence, TLAPS

-----------------------------------------------------------------------------
(***************************************************************************)
(* What the manager has been told and is to be told of a name: the entry   *)
(* of the cache, followed by the changes on their way.                     *)
(***************************************************************************)
Entry == Object \cup {None}

At(c, s, i) == IF i = 0 THEN c ELSE s[i]

Held(c, s) == {x \in Object : \E i \in 0..Len(s) : At(c, s, i) = x}

Ends(c, s) == At(c, s, Len(s))

(* The states of an incarnation stand next to each other: what was seen to *)
(* go, or to be replaced, does not come back.                              *)
Unbroken(c, s) ==
  \A i, j, k \in 0..Len(s) :
    /\ i < j /\ j < k
    /\ At(c, s, i) \in Object /\ At(c, s, k) \in Object /\ At(c, s, i).uid = At(c, s, k).uid
    => At(c, s, j) \in Object /\ At(c, s, j).uid = At(c, s, i).uid

HeldOf(o) == Held(cache[o], stream[o])

(***************************************************************************)
(* The inductive invariant.                                                *)
(***************************************************************************)
Bounded == budget \in [versions : 0..MaxVersion, faults : 0..MaxFaults, restarted : BOOLEAN]

(* What is told last is what is there. *)
Feeds ==
  \A o \in Objects : /\ Unbroken(cache[o], stream[o])
                     /\ Ends(cache[o], stream[o]) = Current(o)
                     /\ alive[o] # None => last[alive[o]] # None

(* Versions are given once. *)
Numbered == \A u \in UIDs : last[u] # None => last[u].uid = u /\ last[u].version < NextVersion

(* A copy is no newer than its object, and it is the object if it has its  *)
(* version or has ended.                                                   *)
IsCopy(x) ==
  /\ last[x.uid] # None /\ x.version <= last[x.uid].version
  /\ x.version = last[x.uid].version \/ x.status \in Ended => x = last[x.uid]

Copies == \A o \in Objects : \A x \in HeldOf(o) : IsCopy(x)

(* Copies, keys and records of an incarnation are about one name. *)
Owns(o, u) ==
  \/ \E x \in HeldOf(o) : x.uid = u
  \/ \E key \in queue : key.object = o /\ key.id = u
  \/ db[u] # None /\ db[u].name = o

Owned ==
  /\ \A u \in UIDs : \A o, p \in Objects : Owns(o, u) /\ Owns(p, u) => o = p
  /\ \A u \in UIDs : \A o \in Objects : Owns(o, u) => last[u] # None

(* And a version is of one incarnation. *)
Shows(u, n) ==
  \/ last[u] # None /\ last[u].version = n
  \/ \E o \in Objects : \E x \in HeldOf(o) : x.uid = u /\ x.version = n
  \/ db[u] # None /\ db[u].version = n

Shown == \A u, v \in UIDs : \A n \in Nat : Shows(u, n) /\ Shows(v, n) => u = v

(* A key is about what is in the cache, or about what will not be there    *)
(* again.                                                                  *)
IsServed(key) ==
  \/ cache[key.object] # None /\ cache[key.object].uid = key.id
  \/ \A x \in HeldOf(key.object) : x.uid # key.id

Served == \A key \in queue : IsServed(key)

Gone(u) == \A o \in Objects : \A x \in HeldOf(o) : x.uid # u

Live == {"Running", "Created", "Restarting"}

(* A record that ended says how its incarnation did; one that was stopped  *)
(* or deleted is of an incarnation nobody will hear of again.  Only jobs   *)
(* are deleted.                                                            *)
IsRecord(u, r) ==
  /\ last[u] # None /\ r.version <= last[u].version
  /\ r.version = last[u].version /\ r.isInEtcd => r.status = Convert(r.name, last[u]).status
  /\ r.status \in Ended => r.version = last[u].version /\ r.status = Convert(r.name, last[u]).status
  /\ r.finished => r.status \in Ended \cup {"Stopped"}
  /\ r.status = "Stopped" \/ ~r.isInEtcd \/ r.deleted => Gone(u)
  /\ r.deleted => ~r.isInEtcd /\ r.status \notin Live /\ r.name \in Jobs

Kept == \A u \in UIDs : db[u] # None => IsRecord(u, db[u])

Inv == Feeds /\ Numbered /\ Copies /\ Owned /\ Shown /\ Served /\ Kept

IInv == TypeOK /\ Bounded /\ Inv

-----------------------------------------------------------------------------
(***************************************************************************)
(* Sequences of changes.                                                   *)
(***************************************************************************)
LEMMA AtIsEntry ==
  ASSUME NEW c \in Entry, NEW s \in Seq(Entry), NEW i \in 0..Len(s)
  PROVE  At(c, s, i) \in Entry
BY DEF At

(* A change is appended. *)
LEMMA AppendAt ==
  ASSUME NEW c \in Entry, NEW s \in Seq(Entry), NEW y \in Entry
  PROVE  /\ Append(s, y) \in Seq(Entry) /\ Len(Append(s, y)) = Len(s) + 1
         /\ \A i \in 0..Len(s) : At(c, Append(s, y), i) = At(c, s, i)
         /\ At(c, Append(s, y), Len(s) + 1) = y
<1>1. Len(s) \in Nat
  OBVIOUS
<1> QED BY <1>1 DEF At

LEMMA AppendHeld ==
  ASSUME NEW c \in Entry, NEW s \in Seq(Entry), NEW y \in Entry
  PROVE  /\ Held(c, Append(s, y)) = Held(c, s) \cup ({y} \cap Object)
         /\ Ends(c, Append(s, y)) = y
<1> DEFINE t == Append(s, y)
<1>1. /\ Len(s) \in Nat /\ Len(t) = Len(s) + 1
      /\ \A i \in 0..Len(s) : At(c, t, i) = At(c, s, i)
      /\ At(c, t, Len(s) + 1) = y
  BY AppendAt
<1> HIDE DEF t
<1>2. 0..Len(t) = 0..Len(s) \cup {Len(s) + 1}
  BY <1>1
<1>3. Held(c, t) = Held(c, s) \cup ({y} \cap Object)
  BY <1>1, <1>2 DEF Held
<1>4. Ends(c, t) = y
  BY <1>1 DEF Ends
<1> QED BY <1>3, <1>4 DEF t

LEMMA AppendUnbroken ==
  ASSUME NEW c \in Entry, NEW s \in Seq(Entry), NEW y \in Entry, Unbroken(c, s),
         \/ y \notin Object
         \/ \A x \in Held(c, s) : x.uid # y.uid
         \/ Ends(c, s) \in Object /\ Ends(c, s).uid = y.uid
  PROVE  Unbroken(c, Append(s, y))
<1> DEFINE t == Append(s, y)
<1>1. /\ Len(s) \in Nat /\ Len(t) = Len(s) + 1
      /\ \A i \in 0..Len(s) : At(c, t, i) = At(c, s, i)
      /\ At(c, t, Len(s) + 1) = y
  BY AppendAt
<1> HIDE DEF t
<1>2. ASSUME NEW i \in 0..Len(t), NEW j \in 0..Len(t), NEW k \in 0..Len(t), i < j, j < k,
             At(c, t, i) \in Object, At(c, t, k) \in Object, At(c, t, i).uid = At(c, t, k).uid
      PROVE  At(c, t, j) \in Object /\ At(c, t, j).uid = At(c, t, i).uid
  <2>1. i \in 0..Len(s) /\ j \in 0..Len(s)
    BY <1>1, <1>2
  <2>2. At(c, t, i) = At(c, s, i) /\ At(c, t, j) = At(c, s, j)
    BY <1>1, <2>1
  <2>3. CASE k \in 0..Len(s)
    BY <1>1, <1>2, <2>1, <2>2, <2>3 DEF Unbroken
  <2>4. CASE k = Len(s) + 1
    <3>1. At(c, t, k) = y /\ y \in Object
      BY <1>1, <1>2, <2>4
    <3>2. At(c, s, i) \in Held(c, s)
      BY <1>2, <2>1, <2>2 DEF Held
    <3>3. Ends(c, s) \in Object /\ Ends(c, s).uid = y.uid
      BY <1>2, <2>2, <3>1, <3>2
    <3>4. At(c, s, Len(s)) \in Object /\ At(c, s, Len(s)).uid = At(c, s, i).uid
      BY <1>2, <2>2, <3>1, <3>3 DEF Ends
    <3>5. CASE j = Len(s)
      BY <2>2, <3>4, <3>5
    <3>6. CASE j # Len(s)
      <4>1. j < Len(s) /\ Len(s) \in 0..Len(s)
        BY <1>1, <2>1, <3>6
      <4> QED BY <1>2, <2>1, <2>2, <3>4, <4>1 DEF Unbroken
    <3> QED BY <3>5, <3>6
  <2> QED BY <1>1, <2>3, <2>4
<1>3. Unbroken(c, t)
  BY <1>2 DEF Unbroken
<1> QED BY <1>3 DEF t

(* The first change moves into the cache. *)
LEMMA TailAt ==
  ASSUME NEW c \in Entry, NEW s \in Seq(Entry), s # << >>
  PROVE  /\ Head(s) \in Entry /\ Tail(s) \in Seq(Entry)
         /\ Len(s) \in Nat \ {0} /\ Len(Tail(s)) = Len(s) - 1
         /\ \A i \in 0..Len(Tail(s)) : At(Head(s), Tail(s), i) = At(c, s, i + 1)
<1>1. Head(s) \in Entry /\ Tail(s) \in Seq(Entry) /\ Len(s) \in Nat \ {0} /\ Len(Tail(s)) = Len(s) - 1
  OBVIOUS
<1>2. ASSUME NEW i \in 0..Len(Tail(s))
      PROVE  At(Head(s), Tail(s), i) = At(c, s, i + 1)
  <2>1. CASE i = 0
    BY <1>1, <2>1 DEF At
  <2>2. CASE i # 0
    <3>1. i \in 1..Len(Tail(s)) /\ i + 1 # 0
      BY <1>1, <2>2
    <3>2. Tail(s)[i] = s[i + 1]
      BY <3>1
    <3> QED BY <2>2, <3>1, <3>2 DEF At
  <2> QED BY <2>1, <2>2
<1> QED BY <1>1, <1>2

LEMMA TailHeld ==
  ASSUME NEW c \in Entry, NEW s \in Seq(Entry), s # << >>, Unbroken(c, s)
  PROVE  /\ Held(Head(s), Tail(s)) \subseteq Held(c, s)
         /\ Ends(Head(s), Tail(s)) = Ends(c, s)
         /\ Unbroken(Head(s), Tail(s))
         /\ \A u : /\ c \in Object /\ c.uid = u
                   /\ ~(Head(s) \in Object /\ Head(s).uid = u)
                   => \A x \in Held(Head(s), Tail(s)) : x.uid # u
<1> DEFINE h == Head(s)
           t == Tail(s)
<1>1. /\ h \in Entry /\ t \in Seq(Entry) /\ Len(s) \in Nat \ {0} /\ Len(t) = Len(s) - 1
      /\ \A i \in 0..Len(t) : At(h, t, i) = At(c, s, i + 1)
  BY TailAt
<1> HIDE DEF h, t
<1>2. \A i \in 0..Len(t) : i + 1 \in 0..Len(s)
  BY <1>1
<1>3. Held(h, t) \subseteq Held(c, s)
  BY <1>1, <1>2 DEF Held
<1>4. Ends(h, t) = Ends(c, s)
  BY <1>1 DEF Ends
<1>5. Unbroken(h, t)
  <2>1. ASSUME NEW i \in 0..Len(t), NEW j \in 0..Len(t), NEW k \in 0..Len(t), i < j, j < k,
               At(h, t, i) \in Object, At(h, t, k) \in Object, At(h, t, i).uid = At(h, t, k).uid
        PROVE  At(h, t, j) \in Object /\ At(h, t, j).uid = At(h, t, i).uid
    <3>1. i + 1 < j + 1 /\ j + 1 < k + 1
      BY <1>1, <2>1
    <3> QED BY <1>1, <1>2, <2>1, <3>1 DEF Unbroken
  <2> QED BY <2>1 DEF Unbroken
<1>6. ASSUME NEW u, c \in Object, c.uid = u, ~(h \in Object /\ h.uid = u), NEW x \in Held(h, t), x.uid = u
      PROVE  FALSE
  <2>1. PICK i \in 0..Len(t) : At(h, t, i) = x
    BY DEF Held
  <2>2. i # 0
    BY <1>6, <2>1 DEF At, Held
  <2>3. /\ 0 \in 0..Len(s) /\ 1 \in 0..Len(s) /\ i + 1 \in 0..Len(s)
        /\ 0 < 1 /\ 1 < i + 1
    BY <1>1, <2>1, <2>2
  <2>4. At(c, s, 0) = c /\ At(c, s, i + 1) = x /\ x \in Object
    BY <1>1, <2>1 DEF At, Held
  <2>5. At(c, s, 1) \in Object /\ At(c, s, 1).uid = u
    BY <1>5, <1>6, <2>3, <2>4 DEF Unbroken
  <2>6. At(h, t, 0) = At(c, s, 1)
    <3>1. 0 \in 0..Len(t) /\ 0 + 1 = 1
      BY <1>1
    <3> QED BY <1>1, <3>1
  <2>7. h = At(c, s, 1)
    BY <2>6 DEF At
  <2> QED BY <1>6, <2>5, <2>7
<1> QED BY <1>3, <1>4, <1>5, <1>6 DEF h, t

(* After a restart there is what is listed. *)
LEMMA ListedHeld ==
  ASSUME NEW s \in Seq(Entry), PersistenceAssumption,
         s = << >> \/ \E y \in Object : s = <<y>>
  PROVE  /\ Unbroken(None, s)
         /\ Held(None, s) = {x \in Object : s = <<x>>}
         /\ Ends(None, s) = IF s = << >> THEN None ELSE s[1]
<1>0. None \notin Object
  BY DEF PersistenceAssumption
<1>1. CASE s = << >>
  BY <1>0, <1>1 DEF Unbroken, Held, Ends, At
<1>2. ASSUME NEW y \in Object, s = <<y>>
      PROVE  /\ Unbroken(None, s)
             /\ Held(None, s) = {x \in Object : s = <<x>>}
             /\ Ends(None, s) = IF s = << >> THEN None ELSE s[1]
  <2>1. Len(s) = 1 /\ s[1] = y /\ 0..Len(s) = {0, 1} /\ s # << >>
    BY <1>2
  <2>2. At(None, s, 0) = None /\ At(None, s, 1) = y
    BY <2>1 DEF At
  <2>3. Unbroken(None, s)
    BY <2>1 DEF Unbroken
  <2>4. Held(None, s) = {y}
    BY <1>0, <2>1, <2>2 DEF Held
  <2>5. {x \in Object : s = <<x>>} = {y}
    <3>1. \A x \in Object : <<x>> = <<y>> <=> x = y
      OBVIOUS
    <3> QED BY <1>2, <3>1
  <2>6. Ends(None, s) = y
    BY <2>1, <2>2 DEF Ends
  <2> QED BY <2>1, <2>3, <2>4, <2>5, <2>6
<1> QED BY <1>1, <1>2

-----------------------------------------------------------------------------
(***************************************************************************)
(* Facts about types.                                                      *)
(***************************************************************************)
LEMMA NoneIsNothing ==
  ASSUME PersistenceAssumption
  PROVE  None \notin Object /\ None \notin Record /\ None \notin UIDs
BY DEF PersistenceAssumption

LEMMA ObjectParts ==
  ASSUME PersistenceAssumption, NEW x \in Object
  PROVE  x.uid \in UIDs /\ x.version \in 1..MaxVersion /\ x.version \in Nat /\ x # None
<1>1. x.uid \in UIDs /\ x.version \in 1..MaxVersion
  BY DEF Object
<1>2. MaxVersion \in Nat /\ x # None
  BY DEF PersistenceAssumption
<1> QED BY <1>1, <1>2

LEMMA RecordParts ==
  ASSUME PersistenceAssumption, NEW r \in Record
  PROVE  /\ r.ns = Namespace /\ r.name \in Objects
         /\ r.version \in 1..MaxVersion /\ r.version \in Nat
         /\ r.status \in JobStatus \cup PodPhase \cup {"Unknown", "Stopped"}
         /\ r.started \in BOOLEAN /\ r.finished \in BOOLEAN
         /\ r.isInEtcd \in BOOLEAN /\ r.deleted \in BOOLEAN
<1>1. MaxVersion \in Nat
  BY DEF PersistenceAssumption
<1>2. /\ r.ns = Namespace /\ r.name \in Objects /\ r.version \in 1..MaxVersion
      /\ r.status \in JobStatus \cup PodPhase \cup {"Unknown", "Stopped"}
      /\ r.started \in BOOLEAN /\ r.finished \in BOOLEAN
      /\ r.isInEtcd \in BOOLEAN /\ r.deleted \in BOOLEAN
  BY DEF Record
<1> QED BY <1>1, <1>2

LEMMA HeldParts ==
  ASSUME PersistenceAssumption, NEW o \in Objects, NEW x \in HeldOf(o)
  PROVE  x \in Object /\ x.uid \in UIDs /\ x.version \in 1..MaxVersion /\ x.version \in Nat
<1>1. x \in Object
  BY DEF HeldOf, Held
<1> QED BY <1>1, ObjectParts

LEMMA NextIsVersion ==
  ASSUME PersistenceAssumption, Bounded
  PROVE  /\ NextVersion \in Nat
         /\ budget.versions > 0 => NextVersion \in 1..MaxVersion
<1>1. budget.versions \in 0..MaxVersion /\ MaxVersion \in Nat
  BY DEF Bounded, PersistenceAssumption
<1> QED BY <1>1 DEF NextVersion

(* What is in the cache is held, and so is what is in the API server. *)
LEMMA CacheHeld ==
  ASSUME TypeOK, NEW o \in Objects, cache[o] \in Object
  PROVE  cache[o] \in HeldOf(o)
<1>1. 0 \in 0..Len(stream[o])
  BY DEF TypeOK
<1> QED BY <1>1 DEF HeldOf, Held, At

LEMMA CurrentHeld ==
  ASSUME PersistenceAssumption, TypeOK, Feeds, NEW o \in Objects, alive[o] # None
  PROVE  /\ alive[o] \in UIDs /\ last[alive[o]] \in Object
         /\ Current(o) = last[alive[o]] /\ Current(o) \in HeldOf(o)
<1>1. alive[o] \in UIDs /\ last[alive[o]] \in Object
  BY DEF TypeOK, Feeds
<1>2. Current(o) = last[alive[o]]
  BY DEF Current
<1>3. Ends(cache[o], stream[o]) = Current(o) /\ Len(stream[o]) \in 0..Len(stream[o])
  BY DEF Feeds, TypeOK
<1> QED BY <1>1, <1>2, <1>3 DEF HeldOf, Held, Ends

-----------------------------------------------------------------------------
(***************************************************************************)
(* The API server.                                                         *)
(***************************************************************************)
(* A step that writes nothing and tells nothing new. *)
LEMMA QuietStep ==
  ASSUME PersistenceAssumption, TypeOK, Bounded, Inv,
         UNCHANGED <<last, db>>, budget'.versions = budget.versions,
         queue' \subseteq Keys,
         \A o \in Objects : HeldOf(o)' \subseteq HeldOf(o),
         \A key \in queue' : key \in queue \/ \E x \in HeldOf(key.object) : x.uid = key.id
  PROVE  Numbered' /\ Copies' /\ Owned' /\ Shown' /\ Kept'
<1>1. NextVersion' = NextVersion
  BY DEF NextVersion
<1>2. Numbered'
  BY <1>1 DEF Numbered, Inv
<1>3. \A x : IsCopy(x)' <=> IsCopy(x)
  BY DEF IsCopy
<1>4. Copies'
  BY <1>3 DEF Copies, Inv
<1>5. ASSUME NEW o \in Objects, NEW u \in UIDs, Owns(o, u)'
      PROVE  Owns(o, u)
  <2>1. CASE \E x \in HeldOf(o)' : x.uid = u
    BY <2>1 DEF Owns
  <2>2. CASE \E key \in queue' : key.object = o /\ key.id = u
    BY <2>2 DEF Owns
  <2>3. CASE db[u] # None /\ db[u].name = o
    BY <2>3 DEF Owns
  <2> QED BY <1>5, <2>1, <2>2, <2>3 DEF Owns
<1>6. Owned'
  BY <1>5 DEF Owned, Inv
<1>7. ASSUME NEW u \in UIDs, NEW n \in Nat, Shows(u, n)'
      PROVE  Shows(u, n)
  BY <1>7 DEF Shows
<1>8. Shown'
  BY <1>7 DEF Shown, Inv
<1>9. \A u \in UIDs : Gone(u) => Gone(u)'
  BY DEF Gone
<1>10. Kept'
  <2>1. ASSUME NEW u \in UIDs, db[u] # None
        PROVE  IsRecord(u, db[u])'
    <3>1. IsRecord(u, db[u])
      BY <2>1 DEF Kept, Inv
    <3> QED BY <1>9, <3>1 DEF IsRecord
  <2> QED BY <2>1 DEF Kept
<1> QED BY <1>2, <1>4, <1>6, <1>8, <1>10

(* A step of the API server that tells of one object more. *)
LEMMA StreamGrows ==
  ASSUME PersistenceAssumption, TypeOK, NEW o \in Objects, NEW y \in Entry,
         cache' = cache, stream' = [stream EXCEPT ![o] = Append(@, y)]
  PROVE  /\ stream' \in [Objects -> Seq(Entry)]
         /\ HeldOf(o)' = HeldOf(o) \cup ({y} \cap Object)
         /\ Ends(cache[o], stream[o])' = y
         /\ \A p \in Objects \ {o} : HeldOf(p)' = HeldOf(p) /\ stream'[p] = stream[p]
<1>1. cache[o] \in Entry /\ stream[o] \in Seq(Entry) /\ stream \in [Objects -> Seq(Entry)]
  BY DEF TypeOK, Entry
<1>2. stream'[o] = Append(stream[o], y) /\ cache'[o] = cache[o]
  BY <1>1
<1>3. Append(stream[o], y) \in Seq(Entry)
  BY <1>1
<1>4. stream' \in [Objects -> Seq(Entry)]
  BY <1>1, <1>3
<1>5. \A p \in Objects \ {o} : stream'[p] = stream[p] /\ cache'[p] = cache[p]
  BY <1>1
<1>6. /\ Held(cache[o], Append(stream[o], y)) = Held(cache[o], stream[o]) \cup ({y} \cap Object)
      /\ Ends(cache[o], Append(stream[o], y)) = y
  BY <1>1, AppendHeld
<1> QED BY <1>2, <1>4, <1>5, <1>6 DEF HeldOf

LEMMA DeleteKeeps ==
  ASSUME PersistenceAssumption, IInv, NEW o \in Objects, DeleteObject(o)
  PROVE  IInv' /\ db' = db
<1>0. TypeOK /\ Bounded /\ Inv /\ None \in Entry /\ None \notin Object
  BY NoneIsNothing DEF IInv, Entry
<1>1. /\ alive' = [alive EXCEPT ![o] = None]
      /\ stream' = [stream EXCEPT ![o] = Append(@, None)]
      /\ UNCHANGED <<last, cache, queue, db, budget>>
  BY DEF DeleteObject
<1>2. /\ stream' \in [Objects -> Seq(Entry)]
      /\ HeldOf(o)' = HeldOf(o) \cup ({None} \cap Object)
      /\ Ends(cache[o], stream[o])' = None
      /\ \A p \in Objects \ {o} : HeldOf(p)' = HeldOf(p) /\ stream'[p] = stream[p]
  BY <1>0, <1>1, StreamGrows
<1>3. \A p \in Objects : HeldOf(p)' = HeldOf(p)
  BY <1>0, <1>2
<1>4. TypeOK' /\ Bounded'
  BY <1>0, <1>1, <1>2 DEF TypeOK, Bounded, Entry
<1>5. Numbered' /\ Copies' /\ Owned' /\ Shown' /\ Kept'
  BY <1>0, <1>1, <1>3, QuietStep DEF TypeOK
<1>6. Feeds'
  <2>1. alive'[o] = None /\ \A p \in Objects \ {o} : alive'[p] = alive[p]
    BY <1>0, <1>1 DEF TypeOK
  <2>2. Unbroken(cache[o], stream[o])'
    <3>1. cache[o] \in Entry /\ stream[o] \in Seq(Entry) /\ stream'[o] = Append(stream[o], None)
      BY <1>0, <1>1 DEF TypeOK, Entry
    <3>2. Unbroken(cache[o], stream[o])
      BY <1>0 DEF Inv, Feeds
    <3>3. Unbroken(cache[o], Append(stream[o], None))
      BY <1>0, <3>1, <3>2, AppendUnbroken
    <3> QED BY <1>1, <3>1, <3>3
  <2>3. Ends(cache[o], stream[o])' = Current(o)'
    BY <1>2, <2>1 DEF Current
  <2>4. ASSUME NEW p \in Objects \ {o}
        PROVE  /\ Unbroken(cache[p], stream[p])'
               /\ Ends(cache[p], stream[p])' = Current(p)'
               /\ alive'[p] # None => last'[alive'[p]] # None
    <3>1. /\ Unbroken(cache[p], stream[p]) /\ Ends(cache[p], stream[p]) = Current(p)
          /\ alive[p] # None => last[alive[p]] # None
      BY <1>0 DEF Inv, Feeds
    <3>2. /\ stream'[p] = stream[p] /\ cache'[p] = cache[p] /\ last' = last /\ alive'[p] = alive[p]
      BY <1>1, <1>2, <2>1
    <3> QED BY <3>1, <3>2 DEF Current
  <2> QED BY <2>1, <2>2, <2>3, <2>4 DEF Feeds
<1>7. Served'
  BY <1>0, <1>1, <1>3 DEF Inv, Served, IsServed, TypeOK, Keys
<1> QED BY <1>1, <1>4, <1>5, <1>6, <1>7 DEF IInv, Inv

(* The newest version is newer than what anybody knows. *)
LEMMA ShownIsOld ==
  ASSUME PersistenceAssumption, TypeOK, Bounded, Inv, NEW u \in UIDs, NEW n \in Nat, Shows(u, n)
  PROVE  n < NextVersion
<1>0. NextVersion \in Nat
  BY NextIsVersion
<1>1. ASSUME last[u] # None
      PROVE  last[u].version < NextVersion /\ last[u].version \in Nat
  <2>1. last[u] \in Object
    BY <1>1 DEF TypeOK
  <2> QED BY <1>1, <2>1, ObjectParts DEF Inv, Numbered
<1>2. CASE last[u] # None /\ last[u].version = n
  BY <1>1, <1>2
<1>3. CASE \E o \in Objects : \E x \in HeldOf(o) : x.uid = u /\ x.version = n
  <2>1. PICK o \in Objects : \E x \in HeldOf(o) : x.uid = u /\ x.version = n
    BY <1>3
  <2>2. PICK x \in HeldOf(o) : x.uid = u /\ x.version = n
    BY <2>1
  <2>3. last[u] # None /\ n <= last[u].version
    BY <2>2 DEF Inv, Copies, IsCopy
  <2> QED BY <1>0, <1>1, <2>3
<1>4. CASE db[u] # None /\ db[u].version = n
  <2>1. last[u] # None /\ n <= last[u].version
    BY <1>4 DEF Inv, Kept, IsRecord
  <2> QED BY <1>0, <1>1, <2>1
<1> QED BY <1>2, <1>3, <1>4 DEF Shows

(* A record that ended says so of its object. *)
LEMMA ConvertEnds ==
  ASSUME NEW o, NEW x, Convert(o, x).status \in Ended
  PROVE  x.status \in Ended
BY DEF Convert, ConvertJobToDMOJob, ConvertPodToDMOPod, Ended

LEMMA WriteKeeps ==
  ASSUME PersistenceAssumption, IInv, NEW o \in Objects, NEW u \in UIDs, NEW y \in Object,
         y.uid = u, y.version = NextVersion, Write(o, u, y), alive' = [alive EXCEPT ![o] = u],
         last[u] = None \/ (alive[o] = u /\ last[u].status \notin Ended)
  PROVE  IInv' /\ db' = db
<1>0. TypeOK /\ Bounded /\ Inv /\ None \notin Object /\ None \notin UIDs /\ y \in Entry /\ y # None
  BY NoneIsNothing DEF IInv, Entry
<1>1. /\ budget.versions > 0
      /\ budget' = [budget EXCEPT !.versions = @ - 1]
      /\ last' = [last EXCEPT ![u] = y]
      /\ stream' = [stream EXCEPT ![o] = Append(@, y)]
      /\ UNCHANGED <<cache, queue, db>>
  BY DEF Write
<1>2. /\ stream' \in [Objects -> Seq(Entry)]
      /\ HeldOf(o)' = HeldOf(o) \cup {y}
      /\ Ends(cache[o], stream[o])' = y
      /\ \A p \in Objects \ {o} : HeldOf(p)' = HeldOf(p) /\ stream'[p] = stream[p]
  BY <1>0, <1>1, StreamGrows
<1>3. /\ last'[u] = y /\ \A v \in UIDs \ {u} : last'[v] = last[v]
      /\ alive'[o] = u /\ \A p \in Objects \ {o} : alive'[p] = alive[p]
  BY <1>0, <1>1 DEF TypeOK
<1>4. NextVersion \in Nat /\ NextVersion' = NextVersion + 1 /\ Bounded'
  <2>1. budget.versions \in 0..MaxVersion /\ MaxVersion \in Nat /\ budget.versions > 0
    BY <1>0, <1>1 DEF Bounded, PersistenceAssumption
  <2>2. budget.versions - 1 \in 0..MaxVersion
    BY <2>1
  <2>3. budget'.versions = budget.versions - 1 /\ Bounded'
    BY <1>0, <1>1, <2>2 DEF Bounded
  <2> QED BY <2>1, <2>3 DEF NextVersion
<1>5. TypeOK'
  <2>1. last' \in [UIDs -> Object \cup {None}] /\ alive' \in [Objects -> UIDs \cup {None}]
    BY <1>0, <1>1 DEF TypeOK
  <2> QED BY <1>0, <1>1, <1>2, <2>1 DEF TypeOK, Entry
<1>6. ASSUME NEW v \in UIDs, last[v] # None
      PROVE  last[v] \in Object /\ last[v].version \in Nat /\ last[v].version < NextVersion /\ last[v].uid = v
  <2>1. last[v] \in Object
    BY <1>0, <1>6 DEF TypeOK
  <2> QED BY <1>0, <1>6, <2>1, ObjectParts DEF Inv, Numbered
(* An incarnation that was there before is held under its name. *)
<1>7. ASSUME last[u] # None
      PROVE  alive[o] = u /\ last[u] \in HeldOf(o) /\ last[u].status \notin Ended /\ Owns(o, u)
  <2>1. alive[o] = u /\ last[u].status \notin Ended /\ alive[o] # None
    BY <1>0, <1>7
  <2>2. last[u] \in HeldOf(o)
    BY <1>0, <2>1, CurrentHeld DEF Inv
  <2> QED BY <1>6, <1>7, <2>1, <2>2 DEF Owns
(* A new one is held nowhere. *)
<1>8. ASSUME NEW p \in Objects, Owns(p, u)
      PROVE  last[u] # None /\ p = o
  BY <1>0, <1>7, <1>8 DEF Inv, Owned
<1>9. Numbered'
  <2>1. ASSUME NEW v \in UIDs, last'[v] # None
        PROVE  last'[v].uid = v /\ last'[v].version < NextVersion'
    <3>1. CASE v = u
      BY <1>3, <1>4, <3>1
    <3>2. CASE v # u
      BY <1>3, <1>4, <1>6, <2>1, <3>2
    <3> QED BY <3>1, <3>2
  <2> QED BY <2>1 DEF Numbered
<1>10. Copies'
  <2>1. ASSUME NEW p \in Objects, NEW x \in HeldOf(p)'
        PROVE  IsCopy(x)'
    <3>1. CASE x = y
      BY <1>0, <1>3, <1>4, <3>1 DEF IsCopy
    <3>2. CASE x \in HeldOf(p)
      <4>1. IsCopy(x) /\ x.uid \in UIDs /\ x.version \in Nat
        BY <1>0, <3>2, HeldParts DEF Inv, Copies
      <4>2. CASE x.uid # u
        BY <1>3, <4>1, <4>2 DEF IsCopy
      <4>3. CASE x.uid = u
        <5>1. last[u] # None /\ x.version <= last[u].version /\ x.status \notin Ended
          BY <1>7, <4>1, <4>3 DEF IsCopy
        <5>2. x.version < NextVersion
          BY <1>4, <1>6, <4>1, <5>1
        <5>3. last'[x.uid] = y /\ y # None /\ x.version <= y.version /\ x.version # y.version
          BY <1>0, <1>3, <1>4, <4>1, <4>3, <5>2
        <5> QED BY <5>1, <5>3 DEF IsCopy
      <4> QED BY <4>2, <4>3
    <3> QED BY <1>2, <2>1, <3>1, <3>2
  <2> QED BY <2>1 DEF Copies
<1>11. ASSUME NEW p \in Objects, NEW v \in UIDs, Owns(p, v)'
       PROVE  Owns(p, v) \/ (p = o /\ v = u)
  <2>1. CASE \E x \in HeldOf(p)' : x.uid = v
    BY <1>2, <2>1 DEF Owns
  <2>2. CASE \E key \in queue : key.object = p /\ key.id = v
    BY <2>2 DEF Owns
  <2>3. CASE db[v] # None /\ db[v].name = p
    BY <2>3 DEF Owns
  <2> QED BY <1>1, <1>11, <2>1, <2>2, <2>3 DEF Owns
<1>12. Owned'
  <2>1. ASSUME NEW v \in UIDs, NEW p \in Objects, NEW q \in Objects, Owns(p, v)', Owns(q, v)'
        PROVE  p = q
    BY <1>0, <1>8, <1>11, <2>1 DEF Inv, Owned
  <2>2. ASSUME NEW v \in UIDs, NEW p \in Objects, Owns(p, v)'
        PROVE  last'[v] # None
    BY <1>0, <1>3, <1>11, <2>2 DEF Inv, Owned
  <2> QED BY <2>1, <2>2 DEF Owned
<1>13. Shown'
  <2>1. ASSUME NEW v \in UIDs, NEW n \in Nat, Shows(v, n)'
        PROVE  Shows(v, n) \/ (v = u /\ n = NextVersion)
    <3>1. CASE last'[v] # None /\ last'[v].version = n
      BY <1>3, <3>1 DEF Shows
    <3>2. CASE \E p \in Objects : \E x \in HeldOf(p)' : x.uid = v /\ x.version = n
      BY <1>2, <3>2 DEF Shows
    <3>3. CASE db[v] # None /\ db[v].version = n
      BY <3>3 DEF Shows
    <3> QED BY <1>1, <2>1, <3>1, <3>2, <3>3 DEF Shows
  <2>2. ASSUME NEW v \in UIDs, NEW w \in UIDs, NEW n \in Nat, Shows(v, n)', Shows(w, n)'
        PROVE  v = w
    <3>1. Shows(v, n) => n < NextVersion
      BY <1>0, ShownIsOld
    <3>2. Shows(w, n) => n < NextVersion
      BY <1>0, ShownIsOld
    <3>3. ~(NextVersion < NextVersion)
      BY <1>4
    <3> QED BY <1>0, <2>1, <2>2, <3>1, <3>2, <3>3 DEF Inv, Shown
  <2> QED BY <2>2 DEF Shown
<1>14. Served'
  <2>1. ASSUME NEW key \in queue
        PROVE  IsServed(key)'
    <3>0. key.object \in Objects /\ key.id \in UIDs /\ IsServed(key)
      BY <1>0 DEF TypeOK, Keys, Inv, Served
    <3>1. CASE cache[key.object] # None /\ cache[key.object].uid = key.id
      BY <1>1, <3>1 DEF IsServed
    <3>2. CASE \A x \in HeldOf(key.object) : x.uid # key.id
      <4>1. ~(key.object = o /\ key.id = u)
        <5>1. ASSUME key.object = o, key.id = u
              PROVE  FALSE
          <6>1. Owns(o, u)
            BY <5>1 DEF Owns
          <6>2. last[u] # None
            BY <1>8, <6>1
          <6> QED BY <1>6, <1>7, <3>2, <5>1, <6>2
        <5> QED BY <5>1
      <4>2. \A x \in HeldOf(key.object)' : x.uid # key.id
        BY <1>2, <3>0, <3>2, <4>1
      <4> QED BY <4>2 DEF IsServed
    <3> QED BY <3>0, <3>1, <3>2 DEF IsServed
  <2> QED BY <1>1, <2>1 DEF Served
<1>15. Kept'
  <2>1. ASSUME NEW v \in UIDs, db[v] # None
        PROVE  IsRecord(v, db[v])'
    <3>1. IsRecord(v, db[v]) /\ db[v] \in Record
      BY <1>0, <2>1 DEF Inv, Kept, TypeOK
    <3>2. CASE v # u
      <4>1. Gone(v) => Gone(v)'
        BY <1>2, <3>2 DEF Gone
      <4>2. last'[v] = last[v] /\ db'[v] = db[v]
        BY <1>1, <1>3, <3>2
      <4> QED BY <3>1, <4>1, <4>2 DEF IsRecord
    <3>3. CASE v = u
      <4>1. last[u] # None
        BY <3>1, <3>3 DEF IsRecord
      <4>2. ~Gone(u)
        BY <1>6, <1>7, <4>1 DEF Gone
      <4>3. db[u].status # "Stopped" /\ db[u].isInEtcd /\ ~db[u].deleted
        BY <3>1, <3>3, <4>2, RecordParts DEF IsRecord
      <4>4. db[u].status \notin Ended
        <5>1. db[u].status \in Ended => Convert(db[u].name, last[u]).status \in Ended
          BY <3>1, <3>3 DEF IsRecord
        <5> QED BY <1>7, <4>1, <5>1, ConvertEnds
      <4>5. ~db[u].finished
        BY <3>1, <3>3, <4>3, <4>4 DEF IsRecord
      <4>6. db[u].version <= y.version /\ db[u].version # y.version
        <5>1. db[u].version \in Nat /\ db[u].version <= last[u].version
          BY <3>1, <3>3, RecordParts DEF IsRecord
        <5> QED BY <1>4, <1>6, <4>1, <5>1
      <4>7. db'[v] = db[u] /\ last'[v] = y
        BY <1>1, <1>3, <3>3
      <4> QED BY <1>0, <3>3, <4>3, <4>4, <4>5, <4>6, <4>7 DEF IsRecord
    <3> QED BY <3>2, <3>3
  <2> QED BY <1>1, <2>1 DEF Kept
<1>16. Feeds'
  <2>1. Unbroken(cache[o], stream[o])'
    <3>1. cache[o] \in Entry /\ stream[o] \in Seq(Entry) /\ stream'[o] = Append(stream[o], y)
      BY <1>0, <1>1 DEF TypeOK, Entry
    <3>2. Unbroken(cache[o], stream[o]) /\ Ends(cache[o], stream[o]) = Current(o)
      BY <1>0 DEF Inv, Feeds
    <3>3. CASE last[u] = None
      <4>1. \A x \in Held(cache[o], stream[o]) : x.uid # y.uid
        BY <1>8, <3>3 DEF Owns, HeldOf
      <4>2. Unbroken(cache[o], Append(stream[o], y))
        BY <1>0, <3>1, <3>2, <4>1, AppendUnbroken
      <4> QED BY <1>1, <3>1, <4>2
    <3>4. CASE last[u] # None
      <4>1. Current(o) = last[u] /\ last[u] \in Object /\ last[u].uid = y.uid
        BY <1>0, <1>6, <1>7, <3>4 DEF Current
      <4>2. Unbroken(cache[o], Append(stream[o], y))
        BY <1>0, <3>1, <3>2, <4>1, AppendUnbroken
      <4> QED BY <1>1, <3>1, <4>2
    <3> QED BY <3>3, <3>4
  <2>2. Ends(cache[o], stream[o])' = Current(o)' /\ last'[alive'[o]] # None
    BY <1>0, <1>2, <1>3 DEF Current
  <2>3. ASSUME NEW p \in Objects \ {o}
        PROVE  /\ Unbroken(cache[p], stream[p])'
               /\ Ends(cache[p], stream[p])' = Current(p)'
               /\ alive'[p] # None => last'[alive'[p]] # None
    <3>1. /\ Unbroken(cache[p], stream[p]) /\ Ends(cache[p], stream[p]) = Current(p)
          /\ alive[p] # None => last[alive[p]] # None
      BY <1>0 DEF Inv, Feeds
    <3>2. stream'[p] = stream[p] /\ cache'[p] = cache[p] /\ alive'[p] = alive[p]
      BY <1>1, <1>2, <1>3
    <3>3. alive[p] # None => alive[p] \in UIDs \ {u}
      <4>1. ASSUME alive[p] = u
            PROVE  FALSE
        <5>1. last[u] \in HeldOf(p) /\ last[u] # None
          BY <1>0, <4>1, CurrentHeld DEF Inv
        <5>2. Owns(p, u)
          BY <1>6, <5>1 DEF Owns
        <5> QED BY <1>8, <5>2
      <4> QED BY <1>0, <4>1 DEF TypeOK
    <3>4. alive[p] # None => last'[alive[p]] = last[alive[p]]
      BY <1>3, <3>3
    <3> QED BY <3>1, <3>2, <3>4 DEF Current
  <2> QED BY <2>1, <2>2, <2>3 DEF Feeds
<1> QED BY <1>1, <1>4, <1>5, <1>9, <1>10, <1>12, <1>13, <1>14, <1>15, <1>16 DEF IInv, Inv

LEMMA CreateKeeps ==
  ASSUME PersistenceAssumption, IInv, NEW o \in Objects, CreateObject(o)
  PROVE  IInv' /\ db' = db
<1>1. PICK u \in UIDs :
        /\ last[u] = None
        /\ Write(o, u, [uid |-> u, version |-> NextVersion, seen |-> FALSE,
                        status |-> IF o \in Jobs THEN "Created" ELSE "Pending"])
        /\ alive' = [alive EXCEPT ![o] = u]
  BY DEF CreateObject
<1> DEFINE y == [uid |-> u, version |-> NextVersion, seen |-> FALSE,
                 status |-> IF o \in Jobs THEN "Created" ELSE "Pending"]
<1>2. NextVersion \in 1..MaxVersion
  BY <1>1, NextIsVersion DEF IInv, Write
<1>3. y \in Object /\ y.uid = u /\ y.version = NextVersion
  BY <1>2 DEF Object, JobStatus, PodPhase
<1> HIDE DEF y
<1>4. Write(o, u, y)
  BY <1>1 DEF y
<1> QED BY <1>1, <1>3, <1>4, WriteKeeps

LEMMA ChangeKeeps ==
  ASSUME PersistenceAssumption, IInv, NEW o \in Objects, ChangeObject(o)
  PROVE  IInv' /\ db' = db
<1>0. TypeOK /\ Bounded /\ Inv
  BY DEF IInv
<1>1. /\ alive[o] # None /\ Current(o).status \notin Ended /\ alive' = alive
      /\ \E x \in IF o \in Jobs THEN JobSteps(Current(o)) ELSE PodSteps(Current(o)) :
           Write(o, alive[o], [x EXCEPT !.version = NextVersion])
  BY DEF ChangeObject
<1> DEFINE u == alive[o]
<1>2. u \in UIDs /\ last[u] \in Object /\ Current(o) = last[u] /\ last[u].uid = u
  BY <1>0, <1>1, CurrentHeld, NoneIsNothing DEF Inv, Numbered
<1> HIDE DEF u
<1>3. PICK x \in IF o \in Jobs THEN JobSteps(last[u]) ELSE PodSteps(last[u]) :
        Write(o, u, [x EXCEPT !.version = NextVersion])
  BY <1>1, <1>2 DEF u
<1>4. NextVersion \in 1..MaxVersion
  BY <1>0, <1>3, NextIsVersion DEF Write
<1>5. x \in Object /\ x.uid = u
  <2>1. CASE x \in JobSteps(last[u])
    <3>1. PICK t \in JobStatus : x = [last[u] EXCEPT !.status = t, !.seen = @ \/ t = "Running"]
      BY <2>1 DEF JobSteps
    <3> QED BY <1>2, <3>1 DEF Object
  <2>2. CASE x \in PodSteps(last[u])
    <3>1. x \in UNION {{[last[u] EXCEPT !.status = t, !.seen = c] : c \in BOOLEAN} : t \in PodPhase}
      BY <2>2, Zenon DEF PodSteps
    <3>2. PICK t \in PodPhase : x \in {[last[u] EXCEPT !.status = t, !.seen = c] : c \in BOOLEAN}
      BY <3>1, Zenon
    <3>3. PICK c \in BOOLEAN : x = [last[u] EXCEPT !.status = t, !.seen = c]
      BY <3>2, Zenon
    <3> QED BY <1>2, <3>3 DEF Object
  <2> QED BY <1>3, <2>1, <2>2
<1> DEFINE y == [x EXCEPT !.version = NextVersion]
<1>6. y \in Object /\ y.uid = u /\ y.version = NextVersion
  BY <1>4, <1>5 DEF Object
<1>7. alive' = [alive EXCEPT ![o] = u]
  BY <1>0, <1>1 DEF TypeOK, u
<1>8. Write(o, u, y)
  BY <1>3
<1>9. alive[o] = u /\ last[u].status \notin Ended
  BY <1>1, <1>2 DEF u
<1> HIDE DEF y
<1> QED BY <1>2, <1>6, <1>7, <1>8, <1>9, WriteKeeps

-----------------------------------------------------------------------------
(***************************************************************************)
(* The watch, and a new manager that lists.                                *)
(***************************************************************************)
(* What an event enqueues is about the old or the new state. *)
LEMMA EnqueuedKeys ==
  ASSUME NEW o, NEW old, NEW new, NEW key,
         key \in enqueueForJob(o, old, new) \/ key \in enqueueForPod(o, old, new)
  PROVE  key.object = o /\ \E x \in {old, new} : x # None /\ key = [object |-> o, id |-> x.uid]
<1>1. key \in {IDName(o, x) : x \in {old, new} \ {None}}
  BY DEF enqueueForJob, enqueueForPod
<1> QED BY <1>1 DEF IDName

LEMMA DeliverKeeps ==
  ASSUME PersistenceAssumption, IInv, NEW o \in Objects, Deliver(o)
  PROVE  IInv' /\ db' = db
<1>0. TypeOK /\ Bounded /\ Inv /\ None \notin Object
  BY NoneIsNothing DEF IInv
<1> DEFINE c == cache[o]
           s == stream[o]
           h == Head(stream[o])
           added == IF o \in Jobs THEN enqueueForJob(o, c, h) ELSE enqueueForPod(o, c, h)
<1>1. /\ s # << >>
      /\ cache' = [cache EXCEPT ![o] = h] /\ queue' = queue \cup added
      /\ stream' = [stream EXCEPT ![o] = Tail(s)]
      /\ UNCHANGED <<last, alive, db, budget>>
  BY DEF Deliver
<1>2. c \in Entry /\ s \in Seq(Entry) /\ Unbroken(c, s)
  BY <1>0 DEF TypeOK, Entry, Inv, Feeds
<1>3. h \in Entry /\ Tail(s) \in Seq(Entry)
  BY <1>1, <1>2, TailAt
<1>4. /\ Held(h, Tail(s)) \subseteq Held(c, s)
      /\ Ends(h, Tail(s)) = Ends(c, s)
      /\ Unbroken(h, Tail(s))
      /\ \A u : /\ c \in Object /\ c.uid = u
                /\ ~(h \in Object /\ h.uid = u)
                => \A x \in Held(h, Tail(s)) : x.uid # u
  BY <1>1, <1>2, TailHeld
<1>5. \A key \in added : key.object = o /\ \E x \in {c, h} : x # None /\ key = [object |-> o, id |-> x.uid]
  BY EnqueuedKeys
<1> HIDE DEF added
<1>6. cache'[o] = h /\ stream'[o] = Tail(s)
  BY <1>0, <1>1 DEF TypeOK
<1>7. \A p \in Objects \ {o} : cache'[p] = cache[p] /\ stream'[p] = stream[p]
  BY <1>0, <1>1 DEF TypeOK
<1>8. cache' \in [Objects -> Entry] /\ stream' \in [Objects -> Seq(Entry)]
  <2>1. cache \in [Objects -> Entry] /\ stream \in [Objects -> Seq(Entry)]
    BY <1>0 DEF TypeOK, Entry
  <2> QED BY <1>1, <1>3, <2>1
<1> HIDE DEF c, s, h
<1>9. HeldOf(o) = Held(c, s) /\ HeldOf(o)' = Held(h, Tail(s))
  BY <1>6 DEF HeldOf, c, s
<1>10. \A p \in Objects : HeldOf(p)' \subseteq HeldOf(p)
  <2>1. \A p \in Objects \ {o} : HeldOf(p)' = HeldOf(p)
    BY <1>7 DEF HeldOf
  <2> QED BY <1>4, <1>9, <2>1
<1>11. \A x \in {c, h} : x # None => x \in HeldOf(o) /\ x \in Object
  <2>1. c # None => c \in Held(c, s) /\ c \in Object
    <3>1. 0 \in 0..Len(s)
      BY <1>2
    <3> QED BY <1>2, <3>1 DEF Held, At, Entry
  <2>2. h # None => h \in Held(h, Tail(s)) /\ h \in Object
    <3>1. 0 \in 0..Len(Tail(s))
      BY <1>3
    <3> QED BY <1>3, <3>1 DEF Held, At, Entry
  <2> QED BY <1>4, <1>9, <2>1, <2>2
<1>12. \A key \in added : key \in Keys /\ \E x \in HeldOf(key.object) : x.uid = key.id
  <2>1. ASSUME NEW key \in added
        PROVE  key \in Keys /\ \E x \in HeldOf(key.object) : x.uid = key.id
    <3>1. PICK x \in {c, h} : x # None /\ key = [object |-> o, id |-> x.uid]
      BY <1>5
    <3>2. x \in HeldOf(o) /\ x.uid \in UIDs
      BY <1>11, <3>1, ObjectParts
    <3> QED BY <3>1, <3>2 DEF Keys
  <2> QED BY <2>1
<1>13. queue' \subseteq Keys
  BY <1>0, <1>1, <1>12 DEF TypeOK
<1>14. TypeOK' /\ Bounded'
  BY <1>0, <1>1, <1>8, <1>13 DEF TypeOK, Bounded, Entry
<1>15. Numbered' /\ Copies' /\ Owned' /\ Shown' /\ Kept'
  <2>1. \A key \in queue' : key \in queue \/ \E x \in HeldOf(key.object) : x.uid = key.id
    BY <1>1, <1>12
  <2> QED BY <1>0, <1>1, <1>10, <1>13, <2>1, QuietStep
<1>16. Feeds'
  <2>1. ASSUME NEW p \in Objects
        PROVE  /\ Unbroken(cache[p], stream[p])'
               /\ Ends(cache[p], stream[p])' = Current(p)'
               /\ alive'[p] # None => last'[alive'[p]] # None
    <3>1. /\ Unbroken(cache[p], stream[p]) /\ Ends(cache[p], stream[p]) = Current(p)
          /\ alive[p] # None => last[alive[p]] # None
      BY <1>0 DEF Inv, Feeds
    <3>2. Current(p)' = Current(p)
      BY <1>1 DEF Current
    <3>3. CASE p = o
      BY <1>1, <1>4, <1>6, <3>1, <3>2, <3>3 DEF c, s
    <3>4. CASE p # o
      BY <1>1, <1>7, <3>1, <3>2, <3>4
    <3> QED BY <3>3, <3>4
  <2> QED BY <2>1 DEF Feeds
<1>17. Served'
  (* What was in the cache is there still, or is not heard of again. *)
  <2>1. ASSUME NEW key, key.object = o, c # None, c.uid = key.id
        PROVE  IsServed(key)'
    <3>1. c \in Object
      BY <1>11, <2>1
    <3>2. CASE h \in Object /\ h.uid = key.id
      BY <1>0, <1>6, <2>1, <3>2 DEF IsServed
    <3>3. CASE ~(h \in Object /\ h.uid = key.id)
      <4>1. \A x \in Held(h, Tail(s)) : x.uid # key.id
        BY <1>4, <2>1, <3>1, <3>3
      <4> QED BY <1>9, <2>1, <4>1 DEF IsServed
    <3> QED BY <3>2, <3>3
  <2>2. ASSUME NEW key \in queue
        PROVE  IsServed(key)'
    <3>1. IsServed(key) /\ key.object \in Objects
      BY <1>0 DEF Inv, Served, TypeOK, Keys
    <3>2. CASE \A x \in HeldOf(key.object) : x.uid # key.id
      <4>1. HeldOf(key.object)' \subseteq HeldOf(key.object)
        BY <1>10, <3>1
      <4> QED BY <3>2, <4>1 DEF IsServed
    <3>3. CASE cache[key.object] # None /\ cache[key.object].uid = key.id
      <4>1. CASE key.object = o
        BY <2>1, <3>3, <4>1 DEF c
      <4>2. CASE key.object # o
        BY <1>7, <3>1, <3>3, <4>2 DEF IsServed
      <4> QED BY <4>1, <4>2
    <3> QED BY <3>1, <3>2, <3>3 DEF IsServed
  <2>3. ASSUME NEW key \in added
        PROVE  IsServed(key)'
    <3>1. PICK x \in {c, h} : x # None /\ key = [object |-> o, id |-> x.uid]
      BY <1>5
    <3>2. CASE x = c
      BY <2>1, <3>1, <3>2
    <3>3. CASE x = h
      BY <1>6, <3>1, <3>3 DEF IsServed
    <3> QED BY <3>2, <3>3
  <2> QED BY <1>1, <2>2, <2>3 DEF Served
<1> QED BY <1>1, <1>14, <1>15, <1>16, <1>17 DEF IInv, Inv

LEMMA RestartKeeps ==
  ASSUME PersistenceAssumption, IInv, Restart
  PROVE  IInv' /\ db' = db
<1>0. TypeOK /\ Bounded /\ Inv /\ None \notin Object
  BY NoneIsNothing DEF IInv
<1>1. /\ budget.faults > 0
      /\ budget' = [budget EXCEPT !.faults = @ - 1, !.restarted = TRUE]
      /\ queue' = {}
      /\ cache' = [o \in Objects |-> None]
      /\ stream' = [o \in Objects |-> IF alive[o] = None THEN << >> ELSE <<Current(o)>>]
      /\ UNCHANGED <<last, alive, db>>
  BY DEF Restart
<1>2. ASSUME NEW o \in Objects
      PROVE  /\ cache'[o] = None /\ stream'[o] \in Seq(Entry)
             /\ Unbroken(None, stream'[o])
             /\ Held(None, stream'[o]) \subseteq HeldOf(o)
             /\ Ends(None, stream'[o]) = Current(o)
  <2>1. CASE alive[o] = None
    <3>1. stream'[o] = << >> /\ cache'[o] = None /\ Current(o) = None
      BY <1>1, <2>1 DEF Current
    <3>2. << >> \in Seq(Entry)
      OBVIOUS
    <3>3. /\ Unbroken(None, << >>)
          /\ Held(None, << >>) = {x \in Object : << >> = <<x>>}
          /\ Ends(None, << >>) = None
      BY <3>2, ListedHeld
    <3>4. \A x \in Object : << >> # <<x>>
      OBVIOUS
    <3> QED BY <3>1, <3>2, <3>3, <3>4
  <2>2. CASE alive[o] # None
    <3>1. Current(o) \in Object /\ Current(o) \in HeldOf(o)
      BY <1>0, <2>2, CurrentHeld DEF Inv
    <3>2. stream'[o] = <<Current(o)>> /\ cache'[o] = None
      BY <1>1, <2>2
    <3> DEFINE y == Current(o)
               s == <<y>>
    <3> HIDE DEF y
    <3>3. y \in Object /\ s \in Seq(Entry) /\ s # << >> /\ s[1] = y
      BY <3>1 DEF Entry, y
    <3>4. /\ Unbroken(None, s)
          /\ Held(None, s) = {x \in Object : s = <<x>>}
          /\ Ends(None, s) = IF s = << >> THEN None ELSE s[1]
      BY <3>3, ListedHeld
    <3>5. \A x \in Object : s = <<x>> => x = y
      BY <3>3
    <3>6. Held(None, s) \subseteq {y} /\ Ends(None, s) = y
      BY <3>3, <3>4, <3>5
    <3>7. stream'[o] = s /\ y = Current(o)
      BY <3>2 DEF y
    <3> HIDE DEF s
    <3> QED BY <3>1, <3>2, <3>3, <3>4, <3>6, <3>7
  <2> QED BY <2>1, <2>2
<1>3. cache' \in [Objects -> Entry] /\ stream' \in [Objects -> Seq(Entry)]
  <2>1. DOMAIN stream' = Objects /\ DOMAIN cache' = Objects
    BY <1>1
  <2>2. stream' = [o \in Objects |-> stream'[o]] /\ cache' = [o \in Objects |-> cache'[o]]
    BY <1>1
  <2> QED BY <1>2, <2>2 DEF Entry
<1>4. TypeOK'
  BY <1>0, <1>1, <1>3 DEF TypeOK, Entry
<1>5. Bounded' /\ budget'.versions = budget.versions
  <2>1. budget.faults \in 0..MaxFaults /\ MaxFaults \in Nat
    BY <1>0 DEF Bounded, PersistenceAssumption
  <2>2. budget.faults - 1 \in 0..MaxFaults
    BY <1>1, <2>1
  <2> QED BY <1>0, <1>1, <2>2 DEF Bounded
<1>6. \A o \in Objects : HeldOf(o)' \subseteq HeldOf(o)
  BY <1>2 DEF HeldOf
<1>7. Numbered' /\ Copies' /\ Owned' /\ Shown' /\ Kept'
  BY <1>0, <1>1, <1>5, <1>6, QuietStep
<1>8. Feeds'
  <2>1. ASSUME NEW o \in Objects
        PROVE  /\ Unbroken(cache[o], stream[o])'
               /\ Ends(cache[o], stream[o])' = Current(o)'
               /\ alive'[o] # None => last'[alive'[o]] # None
    <3>1. alive[o] # None => last[alive[o]] # None
      BY <1>0 DEF Inv, Feeds
    <3>2. Current(o)' = Current(o)
      BY <1>1 DEF Current
    <3> QED BY <1>1, <1>2, <3>1, <3>2
  <2> QED BY <2>1 DEF Feeds
<1>9. Served'
  BY <1>1 DEF Served
<1> QED BY <1>1, <1>4, <1>5, <1>7, <1>8, <1>9 DEF IInv, Inv

-----------------------------------------------------------------------------
(***************************************************************************)
(* Records.                                                                *)
(***************************************************************************)
(* What a write may make of a record. *)
Forward(r, t) ==
  /\ t.version >= r.version
  /\ (r.started => t.started)
  /\ (r.finished => t.finished /\ t.status = r.status)
  /\ (r.deleted => t = r)

LEMMA ConvertIsRecord ==
  ASSUME PersistenceAssumption, NEW o \in Objects, NEW x \in Object
  PROVE  /\ Convert(o, x) \in Record
         /\ Convert(o, x).name = o /\ Convert(o, x).version = x.version
         /\ Convert(o, x).isInEtcd /\ ~Convert(o, x).deleted
         /\ Convert(o, x).status # "Stopped"
         /\ Convert(o, x).finished => Convert(o, x).status \in Ended
<1>1. x.version \in 1..MaxVersion /\ x.status \in JobStatus \cup PodPhase /\ x.seen \in BOOLEAN
  BY DEF Object
<1>2. x.status # "Stopped"
  BY <1>1 DEF JobStatus, PodPhase
<1>3. CASE o \in Jobs
  <2> DEFINE t == ConvertJobToDMOJob(o, x)
  <2>1. Convert(o, x) = t
    BY <1>3 DEF Convert
  <2>2. (x.status \in Ended) \in BOOLEAN
    OBVIOUS
  <2>3. t \in Record
    BY <1>1, <2>2 DEF ConvertJobToDMOJob, Record
  <2>4. t.name = o /\ t.version = x.version /\ t.isInEtcd /\ ~t.deleted /\ t.status = x.status
    BY DEF ConvertJobToDMOJob
  <2>5. t.finished => x.status \in Ended
    BY DEF ConvertJobToDMOJob
  <2> QED BY <1>2, <2>1, <2>3, <2>4, <2>5
<1>4. CASE o \notin Jobs
  BY <1>1, <1>2, <1>4 DEF Convert, ConvertPodToDMOPod, Record
<1> QED BY <1>3, <1>4

(* An update with newer or equal state; times stay. *)
LEMMA MergeIsRecord ==
  ASSUME PersistenceAssumption, NEW r \in Record, NEW t \in Record, r.version <= t.version
  PROVE  /\ Merge(r, t) \in Record
         /\ Merge(r, t).name = t.name /\ Merge(r, t).version = t.version
         /\ Merge(r, t).status = t.status
         /\ Merge(r, t).isInEtcd = t.isInEtcd /\ Merge(r, t).deleted = t.deleted
         /\ Merge(r, t).started = (t.started \/ r.started)
         /\ Merge(r, t).finished = (t.finished \/ r.finished)
<1>1. ~(r.version > t.version)
  BY RecordParts
<1>2. Merge(r, t) = [t EXCEPT !.started = @ \/ r.started, !.finished = @ \/ r.finished]
  BY <1>1 DEF Merge
<1>3. (t.started \/ r.started) \in BOOLEAN /\ (t.finished \/ r.finished) \in BOOLEAN
  OBVIOUS
<1> QED BY <1>2, <1>3 DEF Record

(* The first record of what is in the cache, and every later one. *)
LEMMA FirstRecord ==
  ASSUME PersistenceAssumption, TypeOK, Inv, NEW o \in Objects, NEW x \in HeldOf(o)
  PROVE  /\ Convert(o, x) \in Record /\ IsRecord(x.uid, Convert(o, x))
         /\ Owns(o, x.uid) /\ Shows(x.uid, x.version)
<1>0. x \in Object
  BY DEF HeldOf, Held
<1> DEFINE t == Convert(o, x)
<1>1. /\ t \in Record /\ t.name = o /\ t.version = x.version /\ t.isInEtcd /\ ~t.deleted
      /\ t.status # "Stopped" /\ (t.finished => t.status \in Ended)
  BY <1>0, ConvertIsRecord
<1>2. IsCopy(x)
  BY DEF Inv, Copies
<1>3. t.version = last[x.uid].version => t.status = Convert(o, last[x.uid]).status
  BY <1>1, <1>2 DEF IsCopy
<1>4. ASSUME t.status \in Ended
      PROVE  t.version = last[x.uid].version /\ t.status = Convert(o, last[x.uid]).status
  <2>1. x.status \in Ended
    BY <1>4, ConvertEnds
  <2> QED BY <1>1, <1>2, <2>1 DEF IsCopy
<1> HIDE DEF t
<1>5. IsRecord(x.uid, t)
  BY <1>1, <1>2, <1>3, <1>4 DEF IsRecord, IsCopy
<1>6. Owns(o, x.uid) /\ Shows(x.uid, x.version)
  BY DEF Owns, Shows
<1> QED BY <1>1, <1>5, <1>6 DEF t

LEMMA SavedRecord ==
  ASSUME PersistenceAssumption, TypeOK, Inv, NEW o \in Objects, NEW x \in HeldOf(o),
         NEW r \in Record, db[x.uid] = r
  PROVE  LET t == Merge(r, Convert(o, x))
         IN  /\ t \in Record /\ IsRecord(x.uid, t) /\ Forward(r, t)
             /\ Owns(t.name, x.uid) /\ Shows(x.uid, t.version)
<1> DEFINE u == x.uid
           n == Convert(o, x)
           t == Merge(r, n)
<1>0. x \in Object /\ u \in UIDs /\ x.version \in Nat /\ r # None
  BY HeldParts, NoneIsNothing
<1>1. n \in Record /\ IsRecord(u, n) /\ Owns(o, u) /\ Shows(u, x.version)
  BY FirstRecord
<1>2. n.name = o /\ n.version = x.version /\ n.isInEtcd /\ ~n.deleted /\ n.status # "Stopped"
  BY <1>0, ConvertIsRecord
<1>3. IsRecord(u, r)
  BY <1>0 DEF Inv, Kept
<1>4. ~Gone(u)
  BY DEF Gone
<1>5. r.status # "Stopped" /\ r.isInEtcd /\ ~r.deleted
  BY <1>3, <1>4, RecordParts DEF IsRecord
<1>6. r.name \in Objects /\ Owns(r.name, u) /\ Shows(u, r.version) /\ r.version \in Nat
  BY <1>0, RecordParts DEF Owns, Shows
<1>7. r.name = o
  BY <1>0, <1>1, <1>6 DEF Inv, Owned
<1>8. CASE r.version > n.version
  <2>1. t = r
    BY <1>8 DEF Merge
  <2>2. Forward(r, r)
    BY <1>6 DEF Forward
  <2> QED BY <1>3, <1>6, <2>1, <2>2
<1>9. CASE ~(r.version > n.version)
  <2>0. r.version <= n.version
    BY <1>0, <1>2, <1>6, <1>9
  <2> HIDE DEF n
  <2>1. /\ t \in Record /\ t.name = n.name /\ t.version = n.version /\ t.status = n.status
        /\ t.isInEtcd = n.isInEtcd /\ t.deleted = n.deleted
        /\ t.started = (n.started \/ r.started) /\ t.finished = (n.finished \/ r.finished)
    BY <1>1, <2>0, MergeIsRecord
  <2> HIDE DEF t, u
  (* A record that ended is of the last version, and so is the copy. *)
  <2>2. ASSUME r.finished
        PROVE  n.status = r.status /\ r.status \in Ended
    <3>1. r.status \in Ended
      BY <1>3, <1>5, <2>2 DEF IsRecord
    <3>2. r.version = last[u].version /\ r.status = Convert(o, last[u]).status
      BY <1>3, <1>7, <3>1 DEF IsRecord
    <3>3. n.version <= last[u].version
      BY <1>1 DEF IsRecord
    <3>4. n.version = last[u].version
      BY <1>0, <1>2, <1>6, <2>0, <3>2, <3>3
    <3> QED BY <1>1, <1>2, <3>1, <3>2, <3>4 DEF IsRecord
  <2>3. IsRecord(u, t)
    BY <1>1, <1>2, <2>1, <2>2 DEF IsRecord
  <2>4. Forward(r, t)
    <3>1. t.version >= r.version
      BY <1>0, <1>2, <1>6, <2>0, <2>1
    <3> QED BY <1>5, <2>1, <2>2, <3>1 DEF Forward
  <2> QED BY <1>1, <1>2, <2>1, <2>3, <2>4 DEF t, u, n
<1> QED BY <1>8, <1>9

(* Closing the record of a job that is gone, and deleting it. *)
LEMMA StoppedRecord ==
  ASSUME PersistenceAssumption, NEW u \in UIDs, NEW r \in Record, IsRecord(u, r), Gone(u)
  PROVE  LET t == StopJob(r)
         IN  /\ t \in Record /\ IsRecord(u, t) /\ Forward(r, t)
             /\ t.name = r.name /\ t.version = r.version
             /\ ~t.isInEtcd /\ t.status \notin Live /\ (r.deleted => t.deleted)
<1> DEFINE live == r.status \in Live
           n == [r EXCEPT !.isInEtcd = FALSE, !.status = IF live THEN "Stopped" ELSE @, !.finished = @ \/ live]
           t == StopJob(r)
<1>0. /\ r.version \in Nat /\ r.status \in JobStatus \cup PodPhase \cup {"Unknown", "Stopped"}
      /\ r.started \in BOOLEAN /\ r.finished \in BOOLEAN /\ r.deleted \in BOOLEAN /\ r.isInEtcd \in BOOLEAN
  BY RecordParts
<1>1. t = Merge(r, n)
  BY DEF StopJob, updateJob, Live
<1>2. (r.finished \/ live) \in BOOLEAN /\ live \in BOOLEAN
  OBVIOUS
<1>3. /\ n \in Record /\ n.name = r.name /\ n.version = r.version /\ ~n.isInEtcd
      /\ n.status = (IF live THEN "Stopped" ELSE r.status)
      /\ n.finished = (r.finished \/ live) /\ n.started = r.started /\ n.deleted = r.deleted
  BY <1>2 DEF Record
<1> HIDE DEF n, t
<1>4. /\ t \in Record /\ t.name = n.name /\ t.version = n.version /\ t.status = n.status
      /\ t.isInEtcd = n.isInEtcd /\ t.deleted = n.deleted
      /\ t.started = (n.started \/ r.started) /\ t.finished = (n.finished \/ r.finished)
  <2>1. r.version <= n.version
    BY <1>0, <1>3
  <2> QED BY <1>1, <1>3, <2>1, MergeIsRecord
<1>5. "Stopped" \notin Live /\ "Stopped" \notin Ended /\ \A e \in Ended : e \notin Live
  BY DEF Live, Ended
<1>6. r.finished => ~live
  BY <1>5 DEF IsRecord
<1>7. IsRecord(u, t)
  <2>1. CASE live
    BY <1>3, <1>4, <1>5, <2>1 DEF IsRecord
  <2>2. CASE ~live
    BY <1>3, <1>4, <1>5, <2>2 DEF IsRecord
  <2> QED BY <2>1, <2>2
<1>8. r.deleted => t = r
  <2>1. ASSUME r.deleted
        PROVE  t = r
    <3>1. ~live /\ ~r.isInEtcd
      BY <2>1 DEF IsRecord
    <3>2. /\ t.ns = r.ns /\ t.name = r.name /\ t.version = r.version /\ t.status = r.status
          /\ t.started = r.started /\ t.finished = r.finished /\ t.isInEtcd = r.isInEtcd
          /\ t.deleted = r.deleted
      BY <1>0, <1>3, <1>4, <3>1, RecordParts
    <3> QED BY <1>4, <3>2 DEF Record
  <2> QED BY <2>1
<1>9. Forward(r, t)
  BY <1>0, <1>3, <1>4, <1>6, <1>8 DEF Forward
<1> QED BY <1>3, <1>4, <1>5, <1>7, <1>9 DEF t

LEMMA DeletedRecord ==
  ASSUME PersistenceAssumption, NEW u \in UIDs, NEW r \in Record, IsRecord(u, r), Gone(u),
         ~r.isInEtcd, r.status \notin Live, r.name \in Jobs
  PROVE  LET t == DeleteJob(r)
         IN  /\ t \in Record /\ IsRecord(u, t) /\ Forward(r, t)
             /\ t.name = r.name /\ t.version = r.version
<1> DEFINE n == [r EXCEPT !.deleted = TRUE]
           t == DeleteJob(r)
<1>0. /\ r.version \in Nat /\ r.started \in BOOLEAN /\ r.finished \in BOOLEAN
      /\ r.deleted \in BOOLEAN /\ r.isInEtcd \in BOOLEAN
  BY RecordParts
<1>1. t = Merge(r, n)
  BY DEF DeleteJob, updateJob
<1>2. /\ n \in Record /\ n.name = r.name /\ n.version = r.version /\ n.isInEtcd = r.isInEtcd
      /\ n.status = r.status /\ n.finished = r.finished /\ n.started = r.started /\ n.deleted
  BY DEF Record
<1> HIDE DEF n, t
<1>3. /\ t \in Record /\ t.name = n.name /\ t.version = n.version /\ t.status = n.status
      /\ t.isInEtcd = n.isInEtcd /\ t.deleted = n.deleted
      /\ t.started = (n.started \/ r.started) /\ t.finished = (n.finished \/ r.finished)
  <2>1. r.version <= n.version
    BY <1>0, <1>2
  <2> QED BY <1>1, <1>2, <2>1, MergeIsRecord
<1>4. IsRecord(u, t)
  BY <1>2, <1>3 DEF IsRecord
<1>5. r.deleted => t = r
  <2>1. ASSUME r.deleted
        PROVE  t = r
    <3>1. /\ t.ns = r.ns /\ t.name = r.name /\ t.version = r.version /\ t.status = r.status
          /\ t.started = r.started /\ t.finished = r.finished /\ t.isInEtcd = r.isInEtcd
          /\ t.deleted = r.deleted
      BY <1>0, <1>2, <1>3, <2>1, RecordParts
    <3> QED BY <1>3, <3>1 DEF Record
  <2> QED BY <2>1
<1>6. Forward(r, t)
  BY <1>0, <1>2, <1>3, <1>5 DEF Forward
<1> QED BY <1>2, <1>3, <1>4, <1>6 DEF t

(* A pod's record is stopped when it did not end. *)
LEMMA StoppedPod ==
  ASSUME PersistenceAssumption, NEW u \in UIDs, NEW r \in Record, IsRecord(u, r), Gone(u),
         r.name \notin Jobs, r.status \notin {"Stopped", "Failed", "Succeeded"}
  PROVE  LET t == updatePod(r, [r EXCEPT !.isInEtcd = FALSE, !.status = "Stopped",
                                         !.started = TRUE, !.finished = TRUE])
         IN  /\ t \in Record /\ IsRecord(u, t) /\ Forward(r, t)
             /\ t.name = r.name /\ t.version = r.version
<1> DEFINE n == [r EXCEPT !.isInEtcd = FALSE, !.status = "Stopped", !.started = TRUE, !.finished = TRUE]
           t == updatePod(r, n)
<1>0. /\ r.version \in Nat /\ r.started \in BOOLEAN /\ r.finished \in BOOLEAN
      /\ r.deleted \in BOOLEAN /\ r.isInEtcd \in BOOLEAN
  BY RecordParts
<1>1. t = Merge(r, n)
  BY DEF updatePod
<1>2. /\ n \in Record /\ n.name = r.name /\ n.version = r.version /\ ~n.isInEtcd
      /\ n.status = "Stopped" /\ n.finished /\ n.started /\ n.deleted = r.deleted
  BY DEF Record
<1> HIDE DEF n, t
<1>3. /\ t \in Record /\ t.name = n.name /\ t.version = n.version /\ t.status = n.status
      /\ t.isInEtcd = n.isInEtcd /\ t.deleted = n.deleted
      /\ t.started = (n.started \/ r.started) /\ t.finished = (n.finished \/ r.finished)
  <2>1. r.version <= n.version
    BY <1>0, <1>2
  <2> QED BY <1>1, <1>2, <2>1, MergeIsRecord
<1>4. ~r.finished /\ ~r.deleted
  BY DEF IsRecord, Ended
<1>5. IsRecord(u, t)
  BY <1>2, <1>3, <1>4 DEF IsRecord, Ended
<1>6. Forward(r, t)
  BY <1>0, <1>2, <1>3, <1>4 DEF Forward
<1> QED BY <1>2, <1>3, <1>5, <1>6 DEF t, n

-----------------------------------------------------------------------------
(***************************************************************************)
(* The syncs of a key.                                                     *)
(***************************************************************************)
(* The database after a write of the record of one incarnation. *)
IsWrite(d) ==
  \E u \in UIDs : \E t \in Record :
    /\ d = [db EXCEPT ![u] = t]
    /\ IsRecord(u, t) /\ (db[u] # None => Forward(db[u], t))
    /\ Owns(t.name, u) /\ Shows(u, t.version)

LEMMA SaveIsWrite ==
  ASSUME PersistenceAssumption, TypeOK, Inv, NEW o \in Objects, NEW x \in HeldOf(o), NEW d,
         d = [db EXCEPT ![x.uid] = IF @ = None THEN Convert(o, x) ELSE Merge(@, Convert(o, x))]
  PROVE  IsWrite(d)
<1> DEFINE u == x.uid
<1>0. u \in UIDs
  BY HeldParts
<1>1. CASE db[u] = None
  <2> DEFINE t == Convert(o, x)
  <2>1. t \in Record /\ IsRecord(u, t) /\ Owns(o, u) /\ Shows(u, x.version)
    BY FirstRecord
  <2>2. t.name = o /\ t.version = x.version
    BY HeldParts, ConvertIsRecord
  <2>3. d = [db EXCEPT ![u] = t]
    BY <1>1
  <2> HIDE DEF t, u
  <2> QED BY <1>0, <1>1, <2>1, <2>2, <2>3 DEF IsWrite
<1>2. CASE db[u] # None
  <2> DEFINE r == db[u]
             t == Merge(r, Convert(o, x))
  <2>0. r \in Record
    BY <1>0, <1>2 DEF TypeOK
  <2>1. t \in Record /\ IsRecord(u, t) /\ Forward(r, t) /\ Owns(t.name, u) /\ Shows(u, t.version)
    BY <2>0, SavedRecord
  <2>2. d = [db EXCEPT ![u] = t]
    BY <1>2
  <2> HIDE DEF t, u
  <2> QED BY <1>0, <2>1, <2>2 DEF IsWrite
<1> QED BY <1>1, <1>2

(* A key whose object is not in the cache is of an incarnation that is gone. *)
LEMMA KeyIsGone ==
  ASSUME PersistenceAssumption, TypeOK, Inv, NEW key \in queue, cache[key.object] = None
  PROVE  /\ key.object \in Objects /\ key.id \in UIDs
         /\ Gone(key.id)
         /\ db[key.id] # None => db[key.id] \in Record /\ db[key.id].name = key.object
                                 /\ IsRecord(key.id, db[key.id])
<1>1. key.object \in Objects /\ key.id \in UIDs
  BY DEF TypeOK, Keys
<1>2. Owns(key.object, key.id)
  BY DEF Owns
<1>3. \A x \in HeldOf(key.object) : x.uid # key.id
  BY DEF Inv, Served, IsServed
<1>4. ASSUME NEW o \in Objects, NEW x \in HeldOf(o), x.uid = key.id
      PROVE  FALSE
  <2>1. Owns(o, key.id)
    BY <1>4 DEF Owns
  <2>2. o = key.object
    BY <1>1, <1>2, <2>1 DEF Inv, Owned
  <2> QED BY <1>3, <1>4, <2>2
<1>5. Gone(key.id)
  BY <1>4 DEF Gone
<1>6. ASSUME db[key.id] # None
      PROVE  db[key.id] \in Record /\ db[key.id].name = key.object /\ IsRecord(key.id, db[key.id])
  <2>1. db[key.id] \in Record /\ IsRecord(key.id, db[key.id])
    BY <1>1, <1>6 DEF TypeOK, Inv, Kept
  <2>2. db[key.id].name \in Objects /\ Owns(db[key.id].name, key.id)
    BY <1>6, <2>1, RecordParts DEF Owns
  <2> QED BY <1>1, <1>2, <2>1, <2>2 DEF Inv, Owned
<1> QED BY <1>1, <1>5, <1>6

(* A write of a record that exists keeps its name and version. *)
LEMMA UpdateIsWrite ==
  ASSUME NEW u \in UIDs, db[u] # None, NEW t \in Record, NEW d, d = [db EXCEPT ![u] = t],
         IsRecord(u, t), Forward(db[u], t), t.name = db[u].name, t.version = db[u].version
  PROVE  IsWrite(d)
<1>1. Owns(t.name, u) /\ Shows(u, t.version)
  BY DEF Owns, Shows
<1> QED BY <1>1 DEF IsWrite

LEMMA ForwardTwice ==
  ASSUME PersistenceAssumption, NEW r \in Record, NEW s \in Record, NEW t \in Record,
         Forward(r, s), Forward(s, t)
  PROVE  Forward(r, t)
<1>1. r.version \in Nat /\ s.version \in Nat /\ t.version \in Nat
  BY RecordParts
<1>2. t.version >= r.version
  BY <1>1 DEF Forward
<1> QED BY <1>2 DEF Forward

(* Every state the database goes through in a sync is such a write. *)
LEMMA SyncWrites ==
  ASSUME PersistenceAssumption, TypeOK, Inv, NEW key \in queue
  PROVE  LET w == SyncOf(key).writes
         IN  Len(w) \in Nat /\ \A i \in 1..Len(w) : IsWrite(w[i])
<1> DEFINE o == key.object
           u == key.id
           x == cache[o]
           w == SyncOf(key).writes
<1>0. o \in Objects /\ u \in UIDs /\ (x # None => x \in Object)
  BY DEF TypeOK, Keys
<1>1. CASE x # None
  <2> DEFINE d == [db EXCEPT ![x.uid] = IF @ = None THEN Convert(o, x) ELSE Merge(@, Convert(o, x))]
  <2>1. x \in HeldOf(o)
    BY <1>0, <1>1, CacheHeld
  <2>2. IsWrite(d)
    BY <1>0, <2>1, SaveIsWrite
  <2>3. w = <<d>>
    <3>1. CASE o \in Jobs
      BY <1>1, <3>1 DEF SyncOf, JobSync, SaveJob, Calls, Convert, updateJob
    <3>2. CASE o \notin Jobs
      BY <1>1, <3>2 DEF SyncOf, PodSync, SavePod, Calls, Convert, updatePod
    <3> QED BY <3>1, <3>2
  <2> HIDE DEF d, w
  <2>4. Len(w) = 1 /\ w[1] = d
    BY <2>3
  <2>5. \A i \in 1..Len(w) : i = 1
    BY <2>4
  <2>6. Len(w) \in Nat /\ \A i \in 1..Len(w) : IsWrite(w[i])
    BY <2>2, <2>4, <2>5
  <2> QED BY <2>6 DEF w
<1>2. CASE x = None /\ o \in Jobs
  <2>0. /\ Gone(u)
        /\ db[u] # None => db[u] \in Record /\ db[u].name = o /\ IsRecord(u, db[u])
    BY <1>2, KeyIsGone
  <2>1. CASE db[u] = None
    <3>1. w = << >>
      BY <1>2, <2>1 DEF SyncOf, JobSync, HandlerDelete, Calls
    <3> HIDE DEF w
    <3>2. Len(w) \in Nat /\ \A i \in 1..Len(w) : IsWrite(w[i])
      BY <3>1
    <3> QED BY <3>2 DEF w
  <2>2. CASE db[u] # None
    <3> DEFINE r == db[u]
               s == StopJob(r)
               t == DeleteJob(s)
               d == [db EXCEPT ![u] = s]
               e == [db EXCEPT ![u] = t]
    <3>0. r \in Record /\ r.name = o /\ IsRecord(u, r)
      BY <2>0, <2>2
    <3>1. /\ s \in Record /\ IsRecord(u, s) /\ Forward(r, s)
          /\ s.name = r.name /\ s.version = r.version /\ ~s.isInEtcd /\ s.status \notin Live
      <4> HIDE DEF r
      <4> QED BY <1>0, <2>0, <3>0, StoppedRecord
    <3>2. w = <<d, e>>
      BY <1>2, <2>2 DEF SyncOf, JobSync, HandlerDelete, Calls
    <3> HIDE DEF s
    <3>3. t \in Record /\ IsRecord(u, t) /\ Forward(s, t) /\ t.name = s.name /\ t.version = s.version
      BY <1>0, <1>2, <2>0, <3>0, <3>1, DeletedRecord
    <3> HIDE DEF t
    <3>4. Forward(r, t) /\ t.name = r.name /\ t.version = r.version
      BY <3>0, <3>1, <3>3, ForwardTwice
    <3>5. IsWrite(d)
      BY <1>0, <2>2, <3>1, UpdateIsWrite
    <3>6. IsWrite(e)
      BY <1>0, <2>2, <3>3, <3>4, UpdateIsWrite
    <3> HIDE DEF d, e, w
    <3>7. Len(w) = 2 /\ w[1] = d /\ w[2] = e
      BY <3>2
    <3>8. \A i \in 1..Len(w) : i = 1 \/ i = 2
      BY <3>7
    <3>9. Len(w) \in Nat /\ \A i \in 1..Len(w) : IsWrite(w[i])
      BY <3>5, <3>6, <3>7, <3>8
    <3> QED BY <3>9 DEF w
  <2> QED BY <2>1, <2>2
<1>3. CASE x = None /\ o \notin Jobs
  <2>0. /\ Gone(u)
        /\ db[u] # None => db[u] \in Record /\ db[u].name = o /\ IsRecord(u, db[u])
    BY <1>3, KeyIsGone
  <2> DEFINE r == db[u]
             t == updatePod(r, [r EXCEPT !.isInEtcd = FALSE, !.status = "Stopped",
                                         !.started = TRUE, !.finished = TRUE])
             d == [db EXCEPT ![u] = t]
  <2>1. w = << >> \/ (w = <<d>> /\ db[u] # None /\ r.status \notin {"Stopped", "Failed", "Succeeded"})
    BY <1>3 DEF SyncOf, PodSync, StopPod, Calls
  <2>2. CASE w = << >>
    <3> HIDE DEF w
    <3>1. Len(w) \in Nat /\ \A i \in 1..Len(w) : IsWrite(w[i])
      BY <2>2
    <3> QED BY <3>1 DEF w
  <2>3. CASE w = <<d>> /\ db[u] # None /\ r.status \notin {"Stopped", "Failed", "Succeeded"}
    <3>1. r \in Record /\ r.name = o /\ IsRecord(u, r)
      BY <2>0, <2>3
    <3>2. /\ t \in Record /\ IsRecord(u, t) /\ Forward(r, t)
          /\ t.name = r.name /\ t.version = r.version
      <4> HIDE DEF r
      <4> QED BY <1>0, <1>3, <2>0, <2>3, <3>1, StoppedPod
    <3> HIDE DEF t
    <3>3. IsWrite(d)
      BY <1>0, <2>3, <3>2, UpdateIsWrite
    <3> HIDE DEF d, w
    <3>4. Len(w) = 1 /\ w[1] = d
      BY <2>3
    <3>5. \A i \in 1..Len(w) : i = 1
      BY <3>4
    <3>6. Len(w) \in Nat /\ \A i \in 1..Len(w) : IsWrite(w[i])
      BY <3>3, <3>4, <3>5
    <3> QED BY <3>6 DEF w
  <2> QED BY <2>1, <2>2, <2>3
<1> QED BY <1>1, <1>2, <1>3

(* A step that leaves the database alone goes forward. *)
LEMMA NoWriteForward ==
  ASSUME PersistenceAssumption, TypeOK, db' = db
  PROVE  GoesForward
<1>1. ASSUME NEW u \in UIDs, db[u] # None
      PROVE  db[u].version \in Nat
  <2>1. db[u] \in Record
    BY <1>1 DEF TypeOK
  <2> QED BY <2>1, RecordParts
<1>2. \A u \in UIDs : db[u] # None => db[u].version >= db[u].version
  BY <1>1
<1> QED BY <1>2 DEF GoesForward

(* A sync that writes one of those states, or none. *)
LEMMA SyncKeeps ==
  ASSUME PersistenceAssumption, IInv, queue' \subseteq queue, UNCHANGED <<last, alive, stream, cache>>,
         Bounded', budget'.versions = budget.versions, db' = db \/ IsWrite(db')
  PROVE  IInv' /\ GoesForward
<1>0. TypeOK /\ Bounded /\ Inv
  BY DEF IInv
<1>1. \A o \in Objects : HeldOf(o)' = HeldOf(o)
  BY DEF HeldOf
<1>2. Feeds'
  BY <1>0 DEF Inv, Feeds, Current
<1>3. Served'
  <2>1. ASSUME NEW key \in queue'
        PROVE  IsServed(key)'
    <3>1. key.object \in Objects /\ IsServed(key)
      BY <1>0 DEF TypeOK, Keys, Inv, Served
    <3> QED BY <1>1, <3>1 DEF IsServed
  <2> QED BY <2>1 DEF Served
<1>4. CASE db' = db
  <2>1. TypeOK' /\ queue' \subseteq Keys
    BY <1>0, <1>4 DEF TypeOK
  <2>2. Numbered' /\ Copies' /\ Owned' /\ Shown' /\ Kept'
    BY <1>0, <1>1, <1>4, <2>1, QuietStep
  <2> QED BY <1>0, <1>2, <1>3, <1>4, <2>1, <2>2, NoWriteForward DEF IInv, Inv
<1>5. CASE IsWrite(db')
  <2>1. PICK u \in UIDs : \E t \in Record :
          /\ db' = [db EXCEPT ![u] = t]
          /\ IsRecord(u, t) /\ (db[u] # None => Forward(db[u], t))
          /\ Owns(t.name, u) /\ Shows(u, t.version)
    BY <1>5 DEF IsWrite
  <2>2. PICK t \in Record :
          /\ db' = [db EXCEPT ![u] = t]
          /\ IsRecord(u, t) /\ (db[u] # None => Forward(db[u], t))
          /\ Owns(t.name, u) /\ Shows(u, t.version)
    BY <2>1
  <2>3. /\ db'[u] = t /\ \A v \in UIDs \ {u} : db'[v] = db[v]
        /\ db' \in [UIDs -> Record \cup {None}] /\ t # None
    BY <1>0, <2>2, NoneIsNothing DEF TypeOK
  <2>4. TypeOK'
    BY <1>0, <2>3 DEF TypeOK
  <2>5. NextVersion' = NextVersion
    BY DEF NextVersion
  <2>6. Numbered'
    BY <1>0, <2>5 DEF Inv, Numbered
  <2>7. Copies'
    <3>1. \A x : IsCopy(x)' <=> IsCopy(x)
      BY DEF IsCopy
    <3> QED BY <1>0, <1>1, <3>1 DEF Inv, Copies
  <2>8. ASSUME NEW o \in Objects, NEW v \in UIDs, Owns(o, v)'
        PROVE  Owns(o, v)
    <3>1. CASE \E x \in HeldOf(o) : x.uid = v
      BY <3>1 DEF Owns
    <3>2. CASE \E key \in queue' : key.object = o /\ key.id = v
      BY <3>2 DEF Owns
    <3>3. CASE db'[v] # None /\ db'[v].name = o
      BY <2>2, <2>3, <3>3 DEF Owns
    <3> QED BY <1>1, <2>8, <3>1, <3>2, <3>3 DEF Owns
  <2>9. Owned'
    BY <1>0, <2>8 DEF Inv, Owned
  <2>10. ASSUME NEW v \in UIDs, NEW n \in Nat, Shows(v, n)'
         PROVE  Shows(v, n)
    <3>1. CASE last[v] # None /\ last[v].version = n
      BY <3>1 DEF Shows
    <3>2. CASE \E o \in Objects : \E x \in HeldOf(o) : x.uid = v /\ x.version = n
      BY <3>2 DEF Shows
    <3>3. CASE db'[v] # None /\ db'[v].version = n
      BY <2>2, <2>3, <3>3 DEF Shows
    <3> QED BY <1>1, <2>10, <3>1, <3>2, <3>3 DEF Shows
  <2>11. Shown'
    BY <1>0, <2>10 DEF Inv, Shown
  <2>12. Kept'
    <3>1. \A v \in UIDs : Gone(v)' <=> Gone(v)
      BY <1>1 DEF Gone
    <3>2. ASSUME NEW v \in UIDs, db'[v] # None
          PROVE  IsRecord(v, db'[v])
      BY <1>0, <2>2, <2>3, <3>2 DEF Inv, Kept
    <3>3. ASSUME NEW v \in UIDs, db'[v] # None
          PROVE  IsRecord(v, db[v])'
      BY <3>1, <3>2, <3>3 DEF IsRecord
    <3> QED BY <3>3 DEF Kept
  <2>13. GoesForward
    <3>1. ASSUME NEW v \in UIDs, db[v] # None
          PROVE  db[v].version \in Nat
      <4>1. db[v] \in Record
        BY <1>0, <3>1 DEF TypeOK
      <4> QED BY <4>1, RecordParts
    <3>2. ASSUME NEW v \in UIDs, db[v] # None
          PROVE  /\ db'[v] # None /\ db'[v].version >= db[v].version
                 /\ (db[v].started => db'[v].started)
                 /\ (db[v].finished => db'[v].finished /\ db'[v].status = db[v].status)
                 /\ (db[v].deleted => db'[v] = db[v])
      <4>1. CASE v = u
        BY <2>2, <2>3, <3>2, <4>1 DEF Forward
      <4>2. CASE v # u
        <5>1. db'[v] = db[v] /\ db[v].version >= db[v].version
          BY <2>3, <3>1, <3>2, <4>2
        <5> QED BY <3>2, <5>1
      <4> QED BY <4>1, <4>2
    <3> QED BY <3>2 DEF GoesForward
  <2> QED BY <1>2, <1>3, <2>4, <2>6, <2>7, <2>9, <2>11, <2>12, <2>13 DEF IInv, Inv
<1> QED BY <1>4, <1>5

LEMMA ReconcileKeeps ==
  ASSUME PersistenceAssumption, IInv, NEW key \in queue, Reconcile(key)
  PROVE  IInv' /\ GoesForward
<1> DEFINE calls == SyncOf(key)
           w == calls.writes
<1>0. TypeOK /\ Bounded /\ Inv
  BY DEF IInv
<1>1. Len(w) \in Nat /\ \A i \in 1..Len(w) : IsWrite(w[i])
  BY <1>0, SyncWrites
<1>2. /\ db' = IF w = << >> THEN db ELSE Last(w)
      /\ queue' = IF calls.error THEN queue ELSE queue \ {key}
      /\ UNCHANGED <<last, alive, stream, cache, budget>>
  BY DEF Reconcile
<1>3. w = << >> \/ Len(w) # 0
  <2>1. \E a, b : w = << >> \/ w = <<a>> \/ w = <<a, b>>
    BY DEF SyncOf, JobSync, PodSync, HandlerDelete, SaveJob, SavePod, StopPod, Calls
  <2> HIDE DEF w
  <2> QED BY <2>1
<1> HIDE DEF calls, w
<1>4. db' = db \/ IsWrite(db')
  <2>1. CASE w = << >>
    BY <1>2, <2>1
  <2>2. CASE w # << >>
    <3>1. Len(w) \in 1..Len(w)
      BY <1>1, <1>3, <2>2
    <3>2. db' = w[Len(w)]
      BY <1>2, <2>2 DEF Last
    <3> QED BY <1>1, <3>1, <3>2
  <2> QED BY <2>1, <2>2
<1>5. queue' \subseteq queue /\ Bounded' /\ budget'.versions = budget.versions
  BY <1>0, <1>2 DEF Bounded
<1> QED BY <1>2, <1>4, <1>5, SyncKeeps

LEMMA ReconcileFailsKeeps ==
  ASSUME PersistenceAssumption, IInv, NEW key \in queue, ReconcileFails(key)
  PROVE  IInv' /\ GoesForward
<1> DEFINE w == SyncOf(key).writes
<1>0. TypeOK /\ Bounded /\ Inv
  BY DEF IInv
<1>1. Len(w) \in Nat /\ \A i \in 1..Len(w) : IsWrite(w[i])
  BY <1>0, SyncWrites
<1>2. /\ budget.faults > 0
      /\ \E n \in 0..(Len(w) - 1) : db' = IF n = 0 THEN db ELSE w[n]
      /\ budget' = [budget EXCEPT !.faults = @ - 1]
      /\ UNCHANGED <<last, alive, stream, cache, queue>>
  BY DEF ReconcileFails
<1> HIDE DEF w
<1>3. PICK n \in 0..(Len(w) - 1) : db' = IF n = 0 THEN db ELSE w[n]
  BY <1>2
<1>4. n # 0 => n \in 1..Len(w)
  BY <1>1
<1>5. db' = db \/ IsWrite(db')
  BY <1>1, <1>3, <1>4
<1>6. Bounded' /\ budget'.versions = budget.versions
  <2>1. budget.faults \in 0..MaxFaults /\ MaxFaults \in Nat
    BY <1>0 DEF Bounded, PersistenceAssumption
  <2>2. budget.faults - 1 \in 0..MaxFaults
    BY <1>2, <2>1
  <2> QED BY <1>0, <1>2, <2>2 DEF Bounded
<1> QED BY <1>2, <1>5, <1>6, SyncKeeps

-----------------------------------------------------------------------------
LEMMA InitHolds ==
  ASSUME PersistenceAssumption, Init
  PROVE  IInv
<1>0. None \notin Object /\ MaxVersion \in Nat /\ MaxFaults \in Nat
  BY NoneIsNothing DEF PersistenceAssumption
<1>1. TypeOK
  BY DEF Init, TypeOK
<1>2. Bounded
  BY <1>0 DEF Init, Bounded
<1>3. ASSUME NEW o \in Objects
      PROVE  /\ Unbroken(cache[o], stream[o]) /\ Ends(cache[o], stream[o]) = None
             /\ HeldOf(o) = {}
  <2>1. cache[o] = None /\ stream[o] = << >>
    BY DEF Init
  <2>2. /\ Unbroken(None, << >>)
        /\ Held(None, << >>) = {x \in Object : << >> = <<x>>}
        /\ Ends(None, << >>) = None
    <3>1. << >> \in Seq(Entry)
      OBVIOUS
    <3> QED BY <3>1, ListedHeld
  <2>3. \A x \in Object : << >> # <<x>>
    OBVIOUS
  <2> QED BY <2>1, <2>2, <2>3 DEF HeldOf
<1>4. Feeds
  BY <1>3 DEF Feeds, Current, Init
<1>5. Numbered /\ Copies /\ Served /\ Kept
  BY <1>3 DEF Numbered, Copies, Served, Kept, Init
<1>6. Owned /\ Shown
  BY <1>3 DEF Owned, Owns, Shown, Shows, Init
<1> QED BY <1>1, <1>2, <1>4, <1>5, <1>6 DEF IInv, Inv

LEMMA StepKeeps ==
  ASSUME PersistenceAssumption, IInv, [Next]_vars
  PROVE  IInv' /\ GoesForward
<1>0. TypeOK /\ (IInv' /\ db' = db => IInv' /\ GoesForward)
  BY NoWriteForward DEF IInv
<1>1. CASE \E o \in Objects : CreateObject(o) \/ ChangeObject(o) \/ DeleteObject(o) \/ Deliver(o)
  BY <1>0, <1>1, CreateKeeps, ChangeKeeps, DeleteKeeps, DeliverKeeps
<1>2. CASE \E key \in queue : Reconcile(key) \/ ReconcileFails(key)
  BY <1>2, ReconcileKeeps, ReconcileFailsKeeps
<1>3. CASE Restart
  BY <1>0, <1>3, RestartKeeps
<1>4. CASE UNCHANGED vars
  <2>1. /\ queue' \subseteq queue /\ UNCHANGED <<last, alive, stream, cache>> /\ db' = db
        /\ budget' = budget
    BY <1>4 DEF vars
  <2>2. Bounded' /\ budget'.versions = budget.versions
    BY <2>1 DEF IInv, Bounded
  <2> QED BY <2>1, <2>2, SyncKeeps
<1> QED BY <1>1, <1>2, <1>3, <1>4 DEF Next

LEMMA RecordsFollow ==
  ASSUME PersistenceAssumption, IInv
  PROVE  TypeOK /\ RecordIsOwn
<1>0. TypeOK /\ Inv
  BY DEF IInv
<1>1. ASSUME NEW u \in UIDs, db[u] # None
      PROVE  /\ last[u] # None /\ db[u].version <= last[u].version
             /\ db[u].version = last[u].version /\ db[u].isInEtcd
                => db[u].status = Convert(db[u].name, last[u]).status
  BY <1>0, <1>1 DEF Inv, Kept, IsRecord
<1>2. ASSUME NEW u \in UIDs, NEW v \in UIDs, v # u, db[u] # None, db[v] # None
      PROVE  db[v].version # db[u].version
  <2>1. db[u] \in Record
    BY <1>0, <1>2 DEF TypeOK
  <2>2. db[u].version \in Nat
    BY <2>1, RecordParts
  <2>3. Shows(u, db[u].version)
    BY <1>2 DEF Shows
  <2>4. db[v].version = db[u].version => Shows(v, db[u].version)
    BY <1>2 DEF Shows
  <2> QED BY <1>0, <1>2, <2>2, <2>3, <2>4 DEF Inv, Shown
<1> QED BY <1>0, <1>1, <1>2 DEF RecordIsOwn

(***************************************************************************)
(* A record of the database belongs to one incarnation of its job or pod   *)
(* and never goes back: for any number of names, incarnations and changes, *)
(* however far the cache lags behind the API server, and for any failed    *)
(* calls to the database and restarts of the manager (controllers/persist, *)
(* mysql.go SaveJob, SavePod, StopJob, DeleteJob, StopPod).                *)
(***************************************************************************)
THEOREM RecordsHold ==
  ASSUME PersistenceAssumption
  PROVE  Spec => RecordsAreTrue
<1>1. Init => IInv
  BY InitHolds
<1>2. IInv /\ [Next]_vars => IInv' /\ GoesForward
  BY StepKeeps
<1>3. IInv => TypeOK /\ RecordIsOwn
  BY RecordsFollow
<1>4. IInv /\ [Next]_vars => IInv' /\ [GoesForward]_vars
  BY <1>2
<1> QED BY <1>1, <1>3, <1>4, PTL DEF Spec, RecordsAreTrue
=============================================================================

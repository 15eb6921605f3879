--------------------------- MODULE DestroyAll_proofs ---------------------------
(***************************************************************************)
(* The walks over subvolumes, of every filesystem and whatever other       *)
(* processes do to it meanwhile: each subvolume that nobody disturbs is    *)
(* returned once, in order, and with what it is, and is not left out       *)
(* without an error.                                                       *)
(*                                                                         *)
(* What is below a subvolume and what is at the end of a path are stated   *)
(* for any state of the filesystem first (levels, steps), then compared in *)
(* two states of which the second is the first after another process did   *)
(* something (Shifts).  The steps of the walk leave the filesystem alone;  *)
(* the steps of others leave the walk alone (WalkRests).  So the invariant *)
(* is kept by a step of either kind for a reason of its own; but for one   *)
(* that puts the target where the walk may come to it again, which is no   *)
(* step of those that are Shifted and leaves none undisturbed (Lost).      *)
(*                                                                         *)
(* destroy_all is both, walk and other process: what it does to the        *)
(* filesystem follows at the end.                                          *)
(***************************************************************************)
EXTENDS DestroyAllInv, FiniteSetTheorems, SequenceTheorems, WellFoundedInduction, TLAPS

-----------------------------------------------------------------------------
(* What is below a subvolume, in any state of the filesystem.              *)

Less == OpToRel(<, Nat)

\* A set of numbers has a least one.
LEMMA LeastNumber ==
  ASSUME NEW T, T \subseteq Nat, T # {}
  PROVE  \E x \in T : \A y \in T : x <= y
<1>1. PICK x \in T : \A y \in T : <<y, x>> \notin Less
  <2>1. IsWellFoundedOn(Less, Nat)
    BY NatLessThanWellFounded DEF Less
  <2> QED BY <2>1, WFMin
<1>2. ASSUME NEW y \in T PROVE x <= y
  <2>1. x \in Nat /\ y \in Nat
    OBVIOUS
  <2>2. <<y, x>> \notin Less
    BY <1>1
  <2>3. <<y, x>> \in Less <=> y < x
    BY <2>1 DEF Less, OpToRel
  <2> QED BY <2>1, <2>2, <2>3
<1> QED BY <1>2

\* Children and Subtree in the state t.
ChildrenOf(t, v) == {c \in DOMAIN t : t[c].parent = v}

Level(t, s) == s \cup UNION {ChildrenOf(t, c) : c \in s}

Levels(t, v) ==
    CHOOSE f : f = [n \in 0 .. Cardinality(Ids) |-> IF n = 0 THEN {v} ELSE LET s == f[n - 1] IN s \cup UNION {ChildrenOf(t, c) : c \in s}]

Below(t, v) == Levels(t, v)[Cardinality(Ids)]

\* With children of a member also a member.
ClosedIn(t, s) == \A c \in DOMAIN t : t[c].parent \in s => c \in s

\* There are finitely many subvolumes.
LEMMA IdsFinite == IsFiniteSet(Ids) /\ Cardinality(Ids) \in Nat
  BY VolumesAssumption, FS_CardinalityType

\* The function of the levels below v is there, and is what its definition says.
LEMMA LevelsExist ==
  ASSUME NEW t, NEW v
  PROVE  /\ DOMAIN Levels(t, v) = 0 .. Cardinality(Ids)
         /\ Levels(t, v)[0] = {v}
         /\ \A n \in 1 .. Cardinality(Ids) : Levels(t, v)[n] = Level(t, Levels(t, v)[n - 1])
<1> DEFINE N == Cardinality(Ids)
           Adds(f, n) == /\ f = [m \in 0 .. n |-> f[m]] /\ f[0] = {v}
                         /\ \A m \in 1 .. n : f[m] = Level(t, f[m - 1])
           Bad == {n \in 0 .. N : ~ \E f : Adds(f, n)}
<1>1. N \in Nat
  BY IdsFinite
<1> HIDE DEF N
<1>2. PICK f : Adds(f, N)
  <2>1. SUFFICES ASSUME Bad # {} PROVE FALSE
    <3>1. N \in 0 .. N
      BY <1>1
    <3> HIDE DEF Adds
    <3> QED BY <3>1
  <2>2. PICK n \in Bad : \A m \in Bad : n <= m
    <3>1. Bad \subseteq Nat
      OBVIOUS
    <3> HIDE DEF Bad
    <3> QED BY <2>1, <3>1, LeastNumber
  <2>3. n # 0
    <3>1. Adds([m \in 0 .. 0 |-> {v}], 0)
      OBVIOUS
    <3> HIDE DEF Adds
    <3> QED BY <2>2, <3>1
  <2>4. n \in Nat /\ n - 1 \in 0 .. N /\ n \in 1 .. N /\ n - 1 \notin Bad
    <3> HIDE DEF Adds
    <3>1. n \in 0 .. N
      BY <2>2
    <3>2. n - 1 \notin Bad
      <4>1. n - 1 \in Bad => n <= n - 1
        BY <2>2
      <4> QED BY <1>1, <3>1, <4>1
    <3> QED BY <1>1, <2>3, <3>1, <3>2
  <2>5. PICK f : Adds(f, n - 1)
    BY <2>4
  <2> DEFINE g == [m \in 0 .. n |-> IF m = n THEN Level(t, f[n - 1]) ELSE f[m]]
  <2>6. g = [m \in 0 .. n |-> g[m]] /\ g[0] = {v}
    BY <1>1, <2>4, <2>5
  <2>7. ASSUME NEW m \in 1 .. n PROVE g[m] = Level(t, g[m - 1])
    <3>1. CASE m = n
      BY <2>4, <3>1
    <3>2. CASE m # n
      <4>1. m \in 1 .. (n - 1) /\ m \in 0 .. n /\ m - 1 \in 0 .. n /\ m - 1 # n
        BY <2>4, <3>2
      <4> QED BY <2>5, <3>2, <4>1
    <3> QED BY <3>1, <3>2
  <2>8. Adds(g, n)
    BY <2>6, <2>7
  <2> HIDE DEF Adds
  <2> QED BY <2>2, <2>8
<1> DEFINE Eq(h) == h = [n \in 0 .. N |-> IF n = 0 THEN {v} ELSE LET s == h[n - 1] IN s \cup UNION {ChildrenOf(t, c) : c \in s}]
<1>3. Eq(f)
  <2>1. ASSUME NEW n \in 0 .. N
        PROVE  f[n] = IF n = 0 THEN {v} ELSE LET s == f[n - 1] IN s \cup UNION {ChildrenOf(t, c) : c \in s}
    <3>1. n = 0 \/ n \in 1 .. N
      BY <1>1
    <3> QED BY <1>1, <1>2, <3>1 DEF Level
  <2>2. f = [n \in 0 .. N |-> f[n]]
    BY <1>2
  <2> QED BY <2>1, <2>2
<1>4. Levels(t, v) = CHOOSE h : Eq(h)
  BY DEF Levels, N
<1>5. Eq(Levels(t, v))
  <2> HIDE DEF Eq
  <2> QED BY <1>3, <1>4
<1>6. PICK h : h = Levels(t, v)
  OBVIOUS
<1>7. Eq(h)
  BY <1>5, <1>6
<1>8. DOMAIN h = 0 .. N /\ h[0] = {v} /\ \A n \in 1 .. N : h[n] = Level(t, h[n - 1])
  BY <1>1, <1>7 DEF Level
<1> QED BY <1>6, <1>8 DEF N

\* Below(t, v) is the least set with v that is closed.
LEMMA BelowIsLeast ==
  ASSUME NEW t, NEW v, DOMAIN t \subseteq Ids, v \in Ids
  PROVE  /\ v \in Below(t, v) /\ ClosedIn(t, Below(t, v))
         /\ Below(t, v) \subseteq {v} \cup DOMAIN t
         /\ \A s : v \in s /\ ClosedIn(t, s) => Below(t, v) \subseteq s
<1> DEFINE N == Cardinality(Ids)
<1>0. N \in Nat
  BY IdsFinite
<1>1. PICK f : f = Levels(t, v)
  OBVIOUS
<1>2. f[0] = {v} /\ \A n \in 1 .. N : f[n] = Level(t, f[n - 1])
  BY <1>1, LevelsExist
<1> HIDE DEF N
<1>3. ASSUME NEW s, v \in s, ClosedIn(t, s) PROVE \A n \in 0 .. N : f[n] \subseteq s
  <2> DEFINE Bad == {n \in 0 .. N : ~ f[n] \subseteq s}
  <2>1. SUFFICES ASSUME Bad # {} PROVE FALSE
    OBVIOUS
  <2>2. PICK n \in Bad : \A m \in Bad : n <= m
    <3>1. Bad \subseteq Nat
      OBVIOUS
    <3> HIDE DEF Bad
    <3> QED BY <2>1, <3>1, LeastNumber
  <2>3. n # 0
    BY <1>2, <1>3, <2>2
  <2>4. n \in 1 .. N /\ n - 1 \in 0 .. N /\ n - 1 \notin Bad
    <3>1. n \in 0 .. N
      BY <2>2
    <3>2. n - 1 \in Bad => n <= n - 1
      BY <2>2
    <3> QED BY <1>0, <2>3, <3>1, <3>2
  <2>5. f[n - 1] \subseteq s /\ f[n] = Level(t, f[n - 1])
    BY <1>2, <2>4
  <2>6. f[n] \subseteq s
    BY <1>3, <2>5 DEF Level, ClosedIn, ChildrenOf
  <2> QED BY <2>2, <2>6
<1>4. \A n \in 0 .. N : f[n] \subseteq {v} \cup DOMAIN t
  <2>1. ClosedIn(t, {v} \cup DOMAIN t)
    BY DEF ClosedIn
  <2> QED BY <1>3, <2>1
<1>5. \A n \in 0 .. N : IsFiniteSet(f[n]) /\ Cardinality(f[n]) \in 0 .. N
  <2>1. ASSUME NEW n \in 0 .. N PROVE IsFiniteSet(f[n]) /\ Cardinality(f[n]) \in 0 .. N
    <3>1. f[n] \subseteq Ids
      BY <1>4
    <3>2. IsFiniteSet(f[n]) /\ Cardinality(f[n]) <= N
      BY <3>1, IdsFinite, FS_Subset DEF N
    <3>3. Cardinality(f[n]) \in Nat
      BY <3>2, FS_CardinalityType
    <3> QED BY <1>0, <3>2, <3>3
  <2> QED BY <2>1
<1>6. ASSUME NEW n \in 1 .. N, ClosedIn(t, f[n - 1]) PROVE f[n] = f[n - 1]
  <2>1. \A c \in f[n - 1] : ChildrenOf(t, c) \subseteq f[n - 1]
    BY <1>6 DEF ClosedIn, ChildrenOf
  <2>2. f[n] = Level(t, f[n - 1])
    BY <1>2
  <2> QED BY <2>1, <2>2 DEF Level
<1>7. ASSUME NEW n \in 1 .. N, ~ ClosedIn(t, f[n - 1])
      PROVE  Cardinality(f[n]) >= Cardinality(f[n - 1]) + 1
  <2>1. n - 1 \in 0 .. N /\ n \in 0 .. N
    BY <1>0
  <2>2. f[n - 1] \subseteq f[n]
    BY <1>2 DEF Level
  <2>3. PICK c \in DOMAIN t : t[c].parent \in f[n - 1] /\ c \notin f[n - 1]
    BY <1>7 DEF ClosedIn
  <2>4. c \in f[n]
    <3>1. c \in ChildrenOf(t, t[c].parent)
      BY DEF ChildrenOf
    <3>2. f[n] = Level(t, f[n - 1])
      BY <1>2
    <3> QED BY <2>3, <3>1, <3>2 DEF Level
  <2>5. Cardinality(f[n - 1]) < Cardinality(f[n])
    <3>1. IsFiniteSet(f[n])
      BY <1>5, <2>1
    <3>2. f[n - 1] # f[n]
      BY <2>3, <2>4
    <3>3. Cardinality(f[n - 1]) <= Cardinality(f[n])
          /\ (Cardinality(f[n - 1]) = Cardinality(f[n]) => f[n - 1] = f[n])
      BY <2>2, <3>1, FS_Subset
    <3>4. Cardinality(f[n - 1]) \in Nat /\ Cardinality(f[n]) \in Nat
      BY <1>5, <2>1
    <3> QED BY <3>2, <3>3, <3>4
  <2>6. Cardinality(f[n - 1]) \in Nat /\ Cardinality(f[n]) \in Nat
    BY <1>5, <2>1
  <2> QED BY <2>5, <2>6
<1>8. ClosedIn(t, f[N])
  <2> DEFINE Bad == {n \in 0 .. N : ~ (ClosedIn(t, f[n]) \/ Cardinality(f[n]) >= n + 1)}
  <2>1. Bad = {}
    <3>1. SUFFICES ASSUME Bad # {} PROVE FALSE
      OBVIOUS
    <3>2. PICK n \in Bad : \A m \in Bad : n <= m
      <4>1. Bad \subseteq Nat
        OBVIOUS
      <4> HIDE DEF Bad
      <4> QED BY <3>1, <4>1, LeastNumber
    <3>3. n # 0
      <4>1. Cardinality(f[0]) = 1
        BY <1>2, FS_Singleton
      <4> QED BY <3>2, <4>1
    <3>4. n \in 1 .. N /\ n - 1 \in 0 .. N /\ n - 1 \notin Bad /\ n \in 0 .. N
      <4>1. n \in 0 .. N
        BY <3>2
      <4>2. n - 1 \in Bad => n <= n - 1
        BY <3>2
      <4> QED BY <1>0, <3>3, <4>1, <4>2
    <3>5. CASE ClosedIn(t, f[n - 1])
      <4>1. ClosedIn(t, f[n])
        BY <1>6, <3>4, <3>5
      <4> QED BY <3>2, <4>1
    <3>6. CASE ~ ClosedIn(t, f[n - 1])
      <4>1. Cardinality(f[n - 1]) >= n
        BY <3>4, <3>6
      <4>2. Cardinality(f[n]) >= Cardinality(f[n - 1]) + 1
        BY <1>7, <3>4, <3>6
      <4>3. Cardinality(f[n]) \in Nat /\ Cardinality(f[n - 1]) \in Nat
        BY <1>5, <3>4
      <4>4. Cardinality(f[n]) >= n + 1
        BY <3>4, <4>1, <4>2, <4>3
      <4> QED BY <3>2, <4>4
    <3> QED BY <3>5, <3>6
  <2>2. N \in 0 .. N /\ N \notin Bad
    <3> HIDE DEF Bad
    <3> QED BY <1>0, <2>1
  <2>3. Cardinality(f[N]) \in 0 .. N
    BY <1>5, <2>2
  <2> QED BY <1>0, <2>2, <2>3
<1>9. v \in f[N]
  <2> DEFINE Bad == {n \in 0 .. N : v \notin f[n]}
  <2>1. SUFFICES ASSUME Bad # {} PROVE FALSE
    <3>1. N \in 0 .. N
      BY <1>0
    <3> QED BY <3>1
  <2>2. PICK n \in Bad : \A m \in Bad : n <= m
    <3>1. Bad \subseteq Nat
      OBVIOUS
    <3> HIDE DEF Bad
    <3> QED BY <2>1, <3>1, LeastNumber
  <2>3. n # 0
    BY <1>2, <2>2
  <2>4. n \in 1 .. N /\ n - 1 \in 0 .. N /\ n - 1 \notin Bad
    <3>1. n \in 0 .. N
      BY <2>2
    <3>2. n - 1 \in Bad => n <= n - 1
      BY <2>2
    <3> QED BY <1>0, <2>3, <3>1, <3>2
  <2>5. v \in f[n - 1] /\ f[n] = Level(t, f[n - 1])
    BY <1>2, <2>4
  <2> QED BY <2>2, <2>5 DEF Level
<1>10. Below(t, v) = f[N] /\ N \in 0 .. N
  BY <1>0, <1>1 DEF Below, N
<1> QED BY <1>3, <1>4, <1>8, <1>9, <1>10

\* Subtree, now and after a step.
LEMMA SubtreeIsBelow ==
  ASSUME NEW CONSTANT v
  PROVE  Subtree(v) = Below(vols, v) /\ Subtree(v)' = Below(vols', v)
  BY DEF Subtree, Below, Levels, Children, ChildrenOf

-----------------------------------------------------------------------------
(* What is at the end of a path, in any state of the filesystem.           *)

Steps(t, v, path) ==
    CHOOSE f : f = [n \in 0 .. Len(path) |-> IF n = 0 THEN {v}
                    ELSE UNION {{d \in ChildrenOf(t, c) : t[d].name = path[n]} : c \in f[n - 1]}]

Place(t, v, path) == Steps(t, v, path)[Len(path)]

OneStep(t, s, n) == {d \in DOMAIN t : t[d].parent \in s /\ t[d].name = n}

\* The function of the ends of the prefixes of a path is there, and is what its definition says.
LEMMA StepsExist ==
  ASSUME NEW t, NEW v, NEW path \in Seq(Names)
  PROVE  /\ Steps(t, v, path)[0] = {v}
         /\ \A n \in 1 .. Len(path) : Steps(t, v, path)[n] = OneStep(t, Steps(t, v, path)[n - 1], path[n])
<1> DEFINE N == Len(path)
           Adds(f, n) == /\ f = [m \in 0 .. n |-> f[m]] /\ f[0] = {v}
                         /\ \A m \in 1 .. n : f[m] = OneStep(t, f[m - 1], path[m])
           Bad == {n \in 0 .. N : ~ \E f : Adds(f, n)}
<1>1. N \in Nat
  OBVIOUS
<1> HIDE DEF N
<1>2. PICK f : Adds(f, N)
  <2>1. SUFFICES ASSUME Bad # {} PROVE FALSE
    <3>1. N \in 0 .. N
      BY <1>1
    <3> HIDE DEF Adds
    <3> QED BY <3>1
  <2>2. PICK n \in Bad : \A m \in Bad : n <= m
    <3>1. Bad \subseteq Nat
      OBVIOUS
    <3> HIDE DEF Bad
    <3> QED BY <2>1, <3>1, LeastNumber
  <2>3. n # 0
    <3>1. Adds([m \in 0 .. 0 |-> {v}], 0)
      OBVIOUS
    <3> HIDE DEF Adds
    <3> QED BY <2>2, <3>1
  <2>4. n \in Nat /\ n - 1 \in 0 .. N /\ n \in 1 .. N /\ n - 1 \notin Bad
    <3> HIDE DEF Adds
    <3>1. n \in 0 .. N
      BY <2>2
    <3>2. n - 1 \notin Bad
      <4>1. n - 1 \in Bad => n <= n - 1
        BY <2>2
      <4> QED BY <1>1, <3>1, <4>1
    <3> QED BY <1>1, <2>3, <3>1, <3>2
  <2>5. PICK f : Adds(f, n - 1)
    BY <2>4
  <2> DEFINE g == [m \in 0 .. n |-> IF m = n THEN OneStep(t, f[n - 1], path[n]) ELSE f[m]]
  <2>6. g = [m \in 0 .. n |-> g[m]] /\ g[0] = {v}
    BY <1>1, <2>4, <2>5
  <2>7. ASSUME NEW m \in 1 .. n PROVE g[m] = OneStep(t, g[m - 1], path[m])
    <3>1. CASE m = n
      BY <2>4, <3>1
    <3>2. CASE m # n
      <4>1. m \in 1 .. (n - 1) /\ m \in 0 .. n /\ m - 1 \in 0 .. n /\ m - 1 # n
        BY <2>4, <3>2
      <4> QED BY <2>5, <3>2, <4>1
    <3> QED BY <3>1, <3>2
  <2>8. Adds(g, n)
    BY <2>6, <2>7
  <2> HIDE DEF Adds
  <2> QED BY <2>2, <2>8
<1> DEFINE Eq(h) == h = [n \in 0 .. N |-> IF n = 0 THEN {v}
                    ELSE UNION {{d \in ChildrenOf(t, c) : t[d].name = path[n]} : c \in h[n - 1]}]
<1>0. ASSUME NEW s, NEW n
      PROVE  UNION {{d \in ChildrenOf(t, c) : t[d].name = n} : c \in s} = OneStep(t, s, n)
  BY DEF ChildrenOf, OneStep
<1>3. Eq(f)
  <2>1. ASSUME NEW n \in 0 .. N
        PROVE  f[n] = IF n = 0 THEN {v}
                      ELSE UNION {{d \in ChildrenOf(t, c) : t[d].name = path[n]} : c \in f[n - 1]}
    <3>1. n = 0 \/ n \in 1 .. N
      BY <1>1
    <3>2. CASE n = 0
      BY <1>2, <3>2
    <3>3. CASE n # 0
      <4>1. f[n] = OneStep(t, f[n - 1], path[n])
        BY <1>2, <3>1, <3>3
      <4> QED BY <1>0, <3>3, <4>1
    <3> QED BY <3>2, <3>3
  <2>2. f = [n \in 0 .. N |-> f[n]]
    BY <1>2
  <2> QED BY <2>1, <2>2
<1>4. Steps(t, v, path) = CHOOSE h : Eq(h)
  BY DEF Steps, N
<1>5. Eq(Steps(t, v, path))
  <2> HIDE DEF Eq
  <2> QED BY <1>3, <1>4
<1>6. PICK h : h = Steps(t, v, path)
  OBVIOUS
<1>7. Eq(h)
  BY <1>5, <1>6
<1>8. h[0] = {v}
  BY <1>1, <1>7
<1>9. ASSUME NEW n \in 1 .. N PROVE h[n] = OneStep(t, h[n - 1], path[n])
  <2>1. n \in 0 .. N /\ n # 0
    BY <1>1
  <2>2. h[n] = UNION {{d \in ChildrenOf(t, c) : t[d].name = path[n]} : c \in h[n - 1]}
    BY <1>7, <2>1
  <2> QED BY <1>0, <2>2
<1> QED BY <1>6, <1>8, <1>9 DEF N

\* Nothing but the start at the end of no path; behind one more name the
\* children of that name.
LEMMA PlaceOf ==
  ASSUME NEW t, NEW v, NEW path \in Seq(Names), NEW n \in Names
  PROVE  /\ Place(t, v, <<>>) = {v}
         /\ Place(t, v, Append(path, n)) = OneStep(t, Place(t, v, path), n)
<1>0. \A p \in Seq(Names) : Steps(t, v, p)[0] = {v}
  BY StepsExist
<1>1. Place(t, v, <<>>) = {v}
  <2>1. PICK e : e = <<>>
    OBVIOUS
  <2>2. e \in Seq(Names) /\ Len(e) = 0
    BY <2>1
  <2>3. Steps(t, v, e)[0] = {v}
    BY <1>0, <2>2
  <2> QED BY <2>1, <2>2, <2>3 DEF Place
<1>2. Place(t, v, Append(path, n)) = OneStep(t, Place(t, v, path), n)
  <2>1. PICK longer \in Seq(Names) : longer = Append(path, n)
    <3>1. Append(path, n) \in Seq(Names)
      OBVIOUS
    <3> QED BY <3>1
  <2>2. PICK N \in Nat : N = Len(path)
    OBVIOUS
  <2>3. /\ Len(longer) = N + 1 /\ longer[N + 1] = n
        /\ \A i \in 1 .. N : longer[i] = path[i]
    BY <2>1, <2>2
  <2>4. PICK f, g : f = Steps(t, v, path) /\ g = Steps(t, v, longer)
    OBVIOUS
  <2>5. f[0] = {v} /\ \A i \in 1 .. N : f[i] = OneStep(t, f[i - 1], path[i])
    BY <2>2, <2>4, StepsExist
  <2>6. g[0] = {v} /\ \A i \in 1 .. (N + 1) : g[i] = OneStep(t, g[i - 1], longer[i])
    <3>1. g[0] = {v} /\ \A i \in 1 .. Len(longer) : g[i] = OneStep(t, g[i - 1], longer[i])
      BY <2>4, StepsExist
    <3> QED BY <2>3, <3>1
  <2>7. \A i \in 0 .. N : f[i] = g[i]
    <3> DEFINE Bad == {i \in 0 .. N : f[i] # g[i]}
    <3>1. SUFFICES ASSUME Bad # {} PROVE FALSE
      OBVIOUS
    <3>2. PICK i \in Bad : \A j \in Bad : i <= j
      <4>1. Bad \subseteq Nat
        OBVIOUS
      <4> HIDE DEF Bad
      <4> QED BY <3>1, <4>1, LeastNumber
    <3>3. i \in 1 .. N /\ i - 1 \in 0 .. N /\ i - 1 \notin Bad
      <4>1. i # 0 /\ i \in 0 .. N
        BY <2>5, <2>6, <3>2
      <4>2. i - 1 \in Bad => i <= i - 1
        BY <3>2
      <4> QED BY <4>1, <4>2
    <3>4. f[i - 1] = g[i - 1] /\ longer[i] = path[i] /\ i \in 1 .. (N + 1)
      BY <2>3, <3>3
    <3>5. f[i] = OneStep(t, f[i - 1], path[i]) /\ g[i] = OneStep(t, g[i - 1], longer[i])
      BY <2>5, <2>6, <3>3, <3>4
    <3> QED BY <3>2, <3>4, <3>5
  <2>8. f[N] = Place(t, v, path) /\ g[N + 1] = Place(t, v, longer)
    BY <2>2, <2>3, <2>4 DEF Place
  <2>9. N + 1 \in 1 .. (N + 1) /\ N \in 0 .. N /\ N + 1 - 1 = N
    OBVIOUS
  <2>10. g[N + 1] = OneStep(t, g[N], longer[N + 1])
    BY <2>6, <2>9
  <2> QED BY <2>1, <2>3, <2>7, <2>8, <2>9, <2>10
<1> QED BY <1>1, <1>2

\* A path is empty, or one of the same kind with one name more.
LEMMA ShortestPath ==
  ASSUME NEW Q, Q \subseteq Seq(Names), Q # {}
  PROVE  \E path \in Q : path = <<>> \/ \E p \in Seq(Names), n \in Names : path = Append(p, n) /\ p \notin Q
<1> DEFINE Lens == {Len(path) : path \in Q}
<1>1. PICK l \in Lens : \A m \in Lens : l <= m
  <2>1. \A path \in Q : Len(path) \in Nat
    <3>1. \A path \in Q : path \in Seq(Names)
      OBVIOUS
    <3> QED BY <3>1
  <2>2. Lens \subseteq Nat /\ Lens # {}
    BY <2>1
  <2> HIDE DEF Lens
  <2> QED BY <2>2, LeastNumber
<1>2. PICK path \in Q : Len(path) = l
  OBVIOUS
<1>3. path \in Seq(Names) /\ l \in Nat
  BY <1>2
<1>4. CASE l = 0
  <2>1. path = <<>>
    BY <1>2, <1>3, <1>4
  <2> QED BY <1>2, <2>1
<1>5. CASE l # 0
  <2> DEFINE p == [i \in 1 .. (l - 1) |-> path[i]]
  <2>1. l - 1 \in Nat /\ \A i \in 1 .. l : path[i] \in Names
    BY <1>2, <1>3, <1>5
  <2>2. p \in Seq(Names) /\ Len(p) = l - 1
    <3>1. PICK m \in Nat : m = l - 1
      BY <2>1
    <3>2. p \in [1 .. m -> Names]
      BY <2>1, <3>1
    <3> HIDE DEF p
    <3> QED BY <3>1, <3>2
  <2>3. path = Append(p, path[l])
    BY <1>2, <1>3, <2>1, <2>2
  <2> HIDE DEF p
  <2>4. p \notin Q
    <3>1. p \in Q => Len(p) \in Lens
      OBVIOUS
    <3> HIDE DEF Lens
    <3> QED BY <1>1, <1>3, <2>2, <3>1
  <2>5. path[l] \in Names
    BY <1>3, <1>5, <2>1
  <2> QED BY <1>2, <2>2, <2>3, <2>4, <2>5
<1> QED BY <1>4, <1>5

\* Resolve, now and after a step.
LEMMA ResolveIsPlace ==
  ASSUME NEW CONSTANT v, NEW CONSTANT path
  PROVE  Resolve(v, path) = Place(vols, v, path) /\ Resolve(v, path)' = Place(vols', v, path)
  BY DEF Resolve, Place, Steps, Named, Children, ChildrenOf

-----------------------------------------------------------------------------
(* What nobody disturbs.                                                   *)

\* PlacesType and TreeOK of the state t, in which those of dis are disturbed, and
\* perhaps the target,
GoodBase(t, dis) ==
    /\ t \in [DOMAIN t -> [parent : Ids, name : Names]] /\ DOMAIN t \subseteq Ids
    /\ \A c, d \in DOMAIN t : t[c] = t[d] => c = d
    /\ \A c \in DOMAIN t : t[c].parent \in DOMAIN t \cup {Dir}
    /\ \A c \in DOMAIN t : t[c].parent \in dis => c \in dis \/ c = Target
    /\ Dir \notin DOMAIN t /\ Target \notin dis

\* and PlacesOK.
GoodPlaces(t, dis) ==
    /\ GoodBase(t, dis)
    /\ Target \in DOMAIN t => t[Target].parent \notin Below(t, Target) \cup dis

StableIn(t, dis) == (Below(t, Target) \ {Target}) \ dis

HomeIn(t, dis) == StableIn(t, dis) \cup {Target}

UnderIn(t, w) == UNION {Below(t, c) : c \in ChildrenOf(t, w)}

\* What moves or appears from t to u is disturbed, or is the target.
Kept(t, dis, u, dis2) ==
    /\ dis \subseteq dis2
    /\ \A d \in DOMAIN u : (d \in DOMAIN t /\ u[d] = t[d]) \/ d \in dis2 \/ d = Target

\* No two children have the same name.
LEMMA NamesApart ==
  ASSUME NEW t, NEW dis, GoodBase(t, dis), NEW c \in DOMAIN t, NEW d \in DOMAIN t,
         t[c].parent = t[d].parent, t[c].name = t[d].name
  PROVE  c = d
<1>1. t[c] \in [parent : Ids, name : Names] /\ t[d] \in [parent : Ids, name : Names]
  BY DEF GoodBase
<1>2. t[c] = t[d]
  BY <1>1
<1> QED BY <1>2 DEF GoodBase

\* The parent of what is below a subvolume is there too, or is this one.
LEMMA BelowParent ==
  ASSUME NEW t, NEW v \in Ids, DOMAIN t \subseteq Ids, NEW d \in Below(t, v), d # v
  PROVE  d \in DOMAIN t /\ t[d].parent \in Below(t, v)
<1> DEFINE s == {x \in Below(t, v) : x = v \/ (x \in DOMAIN t /\ t[x].parent \in Below(t, v))}
<1>1. v \in Below(t, v) /\ ClosedIn(t, Below(t, v))
  BY BelowIsLeast
<1>2. v \in s /\ ClosedIn(t, s)
  BY <1>1 DEF ClosedIn
<1>3. d \in s
  <2> HIDE DEF s
  <2> QED BY <1>2, BelowIsLeast
<1> QED BY <1>3

\* One that is stable has its parent in another that does not move.
LEMMA HomeBase ==
  ASSUME NEW t, NEW dis, GoodBase(t, dis)
  PROVE  /\ \A c \in StableIn(t, dis) :
             /\ c \in DOMAIN t /\ c \notin dis /\ c # Target
             /\ t[c].parent \in HomeIn(t, dis) /\ t[c].parent # c
         /\ Dir \notin HomeIn(t, dis)
<1>0. Target \in Ids /\ Dir # Target
  BY VolumesAssumption
<1>1. DOMAIN t \subseteq Ids
  BY DEF GoodBase
<1>2. /\ Target \in Below(t, Target) /\ ClosedIn(t, Below(t, Target))
      /\ Below(t, Target) \subseteq {Target} \cup DOMAIN t
  BY <1>0, <1>1, BelowIsLeast
<1>3. Dir \notin HomeIn(t, dis)
  BY <1>0, <1>2 DEF HomeIn, StableIn, GoodBase
<1>4. ASSUME NEW c \in StableIn(t, dis)
      PROVE  /\ c \in DOMAIN t /\ c \notin dis /\ c # Target
             /\ t[c].parent \in HomeIn(t, dis) /\ t[c].parent # c
  <2>1. c \in Below(t, Target) /\ c # Target /\ c \notin dis
    BY DEF StableIn
  <2>2. c \in DOMAIN t /\ t[c].parent \in Below(t, Target)
    BY <1>0, <1>1, <2>1, BelowParent
  <2>3. t[c].parent \in HomeIn(t, dis)
    BY <2>1, <2>2 DEF HomeIn, StableIn, GoodBase
  <2>4. t[c].parent # c
    <3>1. SUFFICES ASSUME t[c].parent = c PROVE FALSE
      OBVIOUS
    <3>2. Target \in Below(t, Target) \ {c} /\ ClosedIn(t, Below(t, Target) \ {c})
      BY <1>2, <2>1, <3>1 DEF ClosedIn
    <3>3. Below(t, Target) \subseteq Below(t, Target) \ {c}
      BY <1>0, <1>1, <3>2, BelowIsLeast
    <3> QED BY <2>1, <3>3
  <2> QED BY <2>1, <2>2, <2>3, <2>4
<1> QED BY <1>3, <1>4

\* And with the target apart what is not disturbed in one that does not move is
\* stable.
LEMMA HomePlaces ==
  ASSUME NEW t, NEW dis, GoodPlaces(t, dis)
  PROVE  /\ \A c \in StableIn(t, dis) :
             /\ c \in DOMAIN t /\ c \notin dis /\ c # Target
             /\ t[c].parent \in HomeIn(t, dis) /\ t[c].parent # c
         /\ \A c \in DOMAIN t : t[c].parent \in HomeIn(t, dis) /\ c \notin dis => c \in StableIn(t, dis)
         /\ Dir \notin HomeIn(t, dis)
<1>1. GoodBase(t, dis) /\ (Target \in DOMAIN t => t[Target].parent \notin Below(t, Target) \cup dis)
  BY DEF GoodPlaces
<1>2. /\ Target \in Below(t, Target) /\ ClosedIn(t, Below(t, Target))
      /\ Below(t, Target) \subseteq {Target} \cup DOMAIN t
  BY <1>1, BelowIsLeast, VolumesAssumption DEF GoodBase
<1>3. ASSUME NEW c \in DOMAIN t, t[c].parent \in HomeIn(t, dis), c \notin dis
      PROVE  c \in StableIn(t, dis)
  <2>1. t[c].parent \in Below(t, Target)
    BY <1>2, <1>3 DEF HomeIn, StableIn
  <2>2. c \in Below(t, Target)
    BY <1>2, <2>1 DEF ClosedIn
  <2>3. c # Target
    BY <1>1, <2>1
  <2> QED BY <1>3, <2>2, <2>3 DEF StableIn
<1> QED BY <1>1, <1>3, HomeBase

\* What is undisturbed afterwards was so before, in the same place.
LEMMA HomeKept ==
  ASSUME NEW t, NEW dis, NEW u, NEW dis2, GoodBase(t, dis), GoodBase(u, dis2), Kept(t, dis, u, dis2)
  PROVE  \A c \in StableIn(u, dis2) : c \in StableIn(t, dis) /\ u[c] = t[c]
<1>0. Target \in Ids
  BY VolumesAssumption
<1>1. DOMAIN t \subseteq Ids /\ DOMAIN u \subseteq Ids
  BY DEF GoodBase
<1> DEFINE s == Below(t, Target) \cup dis2
<1>2. Target \in Below(t, Target) /\ ClosedIn(t, Below(t, Target))
  BY <1>0, <1>1, BelowIsLeast
<1>3. ClosedIn(u, s)
  <2>1. SUFFICES ASSUME NEW c \in DOMAIN u, u[c].parent \in s, c \notin dis2, c # Target PROVE c \in Below(t, Target)
    BY <1>2 DEF ClosedIn
  <2>2. c \in DOMAIN t /\ u[c] = t[c]
    BY <2>1 DEF Kept
  <2>3. u[c].parent \notin dis2
    BY <2>1 DEF GoodBase
  <2> QED BY <1>2, <2>1, <2>2, <2>3 DEF ClosedIn
<1>4. Below(u, Target) \subseteq s
  <2> HIDE DEF s
  <2>1. Target \in s
    BY <1>2 DEF s
  <2> QED BY <1>0, <1>1, <1>3, <2>1, BelowIsLeast
<1>5. ASSUME NEW c \in StableIn(u, dis2) PROVE c \in StableIn(t, dis) /\ u[c] = t[c]
  <2>1. c \in Below(u, Target) /\ c # Target /\ c \notin dis2
    BY DEF StableIn
  <2>2. c \in DOMAIN u
    BY HomeBase
  <2> QED BY <1>4, <2>1, <2>2 DEF StableIn, Kept
<1> QED BY <1>5

\* The undisturbed ones below one that stays were below it before.
LEMMA BelowKept ==
  ASSUME NEW t, NEW dis, NEW u, NEW dis2, GoodPlaces(t, dis), GoodPlaces(u, dis2), Kept(t, dis, u, dis2),
         NEW w \in Below(u, Target), NEW d \in Below(u, w), d \notin dis2
  PROVE  d \in Below(t, w)
<1>1. DOMAIN t \subseteq Ids /\ DOMAIN u \subseteq Ids /\ Target \in Ids
  BY VolumesAssumption DEF GoodPlaces, GoodBase
<1>2. ClosedIn(u, Below(u, Target)) /\ Below(u, Target) \subseteq {Target} \cup DOMAIN u
  BY <1>1, BelowIsLeast
<1>3. w \in Ids
  BY <1>1, <1>2
<1> DEFINE s == Below(u, Target) \cap (Below(t, w) \cup dis2)
<1>4. w \in Below(t, w) /\ ClosedIn(t, Below(t, w))
  BY <1>1, <1>3, BelowIsLeast
<1>5. ClosedIn(u, s)
  <2>1. SUFFICES ASSUME NEW c \in DOMAIN u, u[c].parent \in s, c \notin dis2
                 PROVE  c \in Below(u, Target) /\ c \in Below(t, w)
    BY <1>2 DEF ClosedIn
  <2>2. c \in Below(u, Target) /\ c # Target
    BY <1>2, <2>1 DEF ClosedIn, GoodPlaces
  <2>3. c \in DOMAIN t /\ u[c] = t[c]
    BY <2>1, <2>2 DEF Kept
  <2>4. u[c].parent \notin dis2
    BY <2>1, <2>2 DEF GoodPlaces, GoodBase
  <2> QED BY <1>4, <2>1, <2>2, <2>3, <2>4 DEF ClosedIn
<1>6. Below(u, w) \subseteq s
  <2> HIDE DEF s
  <2>1. w \in s
    BY <1>4 DEF s
  <2> QED BY <1>1, <1>3, <1>5, <2>1, BelowIsLeast
<1> QED BY <1>6

\* Nothing comes to be below one that does not move but what is disturbed.
LEMMA UnderKept ==
  ASSUME NEW t, NEW dis, NEW u, NEW dis2, GoodPlaces(t, dis), GoodPlaces(u, dis2), Kept(t, dis, u, dis2),
         NEW w \in HomeIn(u, dis2), NEW d \in UnderIn(u, w), d \in StableIn(u, dis2)
  PROVE  d \in UnderIn(t, w)
<1>1. DOMAIN t \subseteq Ids /\ DOMAIN u \subseteq Ids /\ Target \in Ids
  BY VolumesAssumption DEF GoodPlaces, GoodBase
<1>2. PICK k \in ChildrenOf(u, w) : d \in Below(u, k)
  BY DEF UnderIn
<1>3. k \in Ids /\ k \in DOMAIN u /\ u[k].parent = w /\ d \notin dis2
  BY <1>1, <1>2 DEF ChildrenOf, StableIn
<1>4. Target \in Below(u, Target) /\ ClosedIn(u, Below(u, Target))
  BY <1>1, BelowIsLeast
<1>5. k \in Below(u, Target) /\ k # Target
  BY <1>3, <1>4 DEF ClosedIn, GoodPlaces, HomeIn, StableIn
<1>6. k \notin dis2
  <2>1. SUFFICES ASSUME k \in dis2 PROVE FALSE
    OBVIOUS
  <2>2. ClosedIn(u, dis2)
    BY DEF GoodPlaces, GoodBase, ClosedIn
  <2>3. Below(u, k) \subseteq dis2
    BY <1>1, <1>3, <2>1, <2>2, BelowIsLeast
  <2> QED BY <1>2, <1>3, <2>3
<1>7. k \in DOMAIN t /\ t[k].parent = w
  BY <1>3, <1>5, <1>6 DEF Kept
<1>8. d \in Below(t, k)
  BY <1>2, <1>3, <1>5, BelowKept
<1> QED BY <1>7, <1>8 DEF UnderIn, ChildrenOf

\* What is below a subvolume: its children and what is below those.
LEMMA UnderFacts ==
  ASSUME NEW t, NEW w, DOMAIN t \subseteq Ids
  PROVE  /\ \A d \in UnderIn(t, w) : d \in DOMAIN t /\ (t[d].parent = w \/ t[d].parent \in UnderIn(t, w))
         /\ \A k \in DOMAIN t : t[k].parent = w \/ t[k].parent \in UnderIn(t, w) => k \in UnderIn(t, w)
         /\ \A k \in DOMAIN t : k \in UnderIn(t, w) => UnderIn(t, k) \subseteq UnderIn(t, w)
<1>1. ASSUME NEW d \in UnderIn(t, w)
      PROVE  d \in DOMAIN t /\ (t[d].parent = w \/ t[d].parent \in UnderIn(t, w))
  <2>1. PICK k \in ChildrenOf(t, w) : d \in Below(t, k)
    BY DEF UnderIn
  <2>2. k \in Ids /\ k \in DOMAIN t /\ t[k].parent = w
    BY <2>1 DEF ChildrenOf
  <2>3. CASE d = k
    BY <2>2, <2>3
  <2>4. CASE d # k
    <3>1. d \in DOMAIN t /\ t[d].parent \in Below(t, k)
      BY <2>1, <2>2, <2>4, BelowParent
    <3> QED BY <2>1, <3>1 DEF UnderIn
  <2> QED BY <2>3, <2>4
<1>2. ASSUME NEW k \in DOMAIN t, t[k].parent = w \/ t[k].parent \in UnderIn(t, w)
      PROVE  k \in UnderIn(t, w)
  <2>1. CASE t[k].parent = w
    <3>1. k \in Below(t, k)
      BY BelowIsLeast
    <3> QED BY <2>1, <3>1 DEF UnderIn, ChildrenOf
  <2>2. CASE t[k].parent \in UnderIn(t, w)
    <3>1. PICK j \in ChildrenOf(t, w) : t[k].parent \in Below(t, j)
      BY <2>2 DEF UnderIn
    <3>2. j \in Ids
      BY <3>1 DEF ChildrenOf
    <3>3. k \in Below(t, j)
      BY <3>1, <3>2, BelowIsLeast DEF ClosedIn
    <3> QED BY <3>1, <3>3 DEF UnderIn
  <2> QED BY <1>2, <2>1, <2>2
<1>3. ASSUME NEW k \in DOMAIN t, k \in UnderIn(t, w), NEW d \in UnderIn(t, k)
      PROVE  d \in UnderIn(t, w)
  <2>1. PICK j \in ChildrenOf(t, k) : d \in Below(t, j)
    BY <1>3 DEF UnderIn
  <2>2. j \in Ids /\ j \in DOMAIN t /\ t[j].parent = k
    BY <2>1 DEF ChildrenOf
  <2>3. j \in UnderIn(t, w)
    BY <1>2, <1>3, <2>2
  <2>4. ClosedIn(t, UnderIn(t, w))
    BY <1>2 DEF ClosedIn
  <2>5. Below(t, j) \subseteq UnderIn(t, w)
    BY <2>2, <2>3, <2>4, BelowIsLeast
  <2> QED BY <2>1, <2>5
<1> QED BY <1>1, <1>2, <1>3

-----------------------------------------------------------------------------
(* Where paths lead.                                                       *)

\* A path leads to one subvolume at most, to none that is not there, and not
\* out of the one it starts in.
LEMMA PlaceIsOne ==
  ASSUME NEW t, NEW dis, GoodBase(t, dis), NEW v \in Ids, NEW path \in Seq(Names)
  PROVE  (\A x, y \in Place(t, v, path) : x = y) /\ Place(t, v, path) \subseteq Below(t, v)
<1> DEFINE Bad == {p \in Seq(Names) : ~ ((\A x, y \in Place(t, v, p) : x = y) /\ Place(t, v, p) \subseteq Below(t, v))}
<1>1. SUFFICES ASSUME Bad # {} PROVE FALSE
  OBVIOUS
<1>2. PICK p \in Bad : p = <<>> \/ \E q \in Seq(Names), n \in Names : p = Append(q, n) /\ q \notin Bad
  <2>1. Bad \subseteq Seq(Names)
    OBVIOUS
  <2> HIDE DEF Bad
  <2> QED BY <1>1, <2>1, ShortestPath
<1>3. DOMAIN t \subseteq Ids
  BY DEF GoodBase
<1>4. v \in Below(t, v) /\ ClosedIn(t, Below(t, v))
  BY <1>3, BelowIsLeast
<1>5. p # <<>>
  <2>1. Place(t, v, <<>>) = {v}
    BY PlaceOf, VolumesAssumption
  <2> QED BY <1>2, <1>4, <2>1
<1>6. PICK q \in Seq(Names), n \in Names : p = Append(q, n) /\ q \notin Bad
  BY <1>2, <1>5
<1>7. PICK s : s = Place(t, v, q)
  OBVIOUS
<1>8. (\A x, y \in s : x = y) /\ s \subseteq Below(t, v)
  BY <1>6, <1>7
<1>9. Place(t, v, p) = OneStep(t, s, n)
  <2>1. Place(t, v, Append(q, n)) = OneStep(t, Place(t, v, q), n)
    BY PlaceOf
  <2> QED BY <1>6, <1>7, <2>1
<1>10. OneStep(t, s, n) \subseteq Below(t, v)
  BY <1>4, <1>8 DEF OneStep, ClosedIn
<1>11. ASSUME NEW x \in OneStep(t, s, n), NEW y \in OneStep(t, s, n) PROVE x = y
  <2>1. x \in DOMAIN t /\ y \in DOMAIN t /\ t[x].parent = t[y].parent /\ t[x].name = t[y].name
    BY <1>8 DEF OneStep
  <2> QED BY <2>1, NamesApart
<1> QED BY <1>2, <1>9, <1>10, <1>11

\* Paths to what stays in its place stay as they are.
LEMMA PlaceKept ==
  ASSUME NEW t, NEW dis, NEW u, NEW dis2, GoodPlaces(t, dis), GoodPlaces(u, dis2), Kept(t, dis, u, dis2),
         NEW g \in HomeIn(u, dis2), NEW path \in Seq(Names)
  PROVE  g \in Place(u, Target, path) <=> g \in Place(t, Target, path)
<1> DEFINE Bad == {p \in Seq(Names) : \E h \in HomeIn(u, dis2) :
                      ~ (h \in Place(u, Target, p) <=> h \in Place(t, Target, p))}
<1>1. SUFFICES ASSUME Bad # {} PROVE FALSE
  OBVIOUS
<1>2. PICK p \in Bad : p = <<>> \/ \E q \in Seq(Names), n \in Names : p = Append(q, n) /\ q \notin Bad
  <2>1. Bad \subseteq Seq(Names)
    OBVIOUS
  <2> HIDE DEF Bad
  <2> QED BY <1>1, <2>1, ShortestPath
<1>3. p # <<>>
  <2>1. Place(t, Target, <<>>) = {Target} /\ Place(u, Target, <<>>) = {Target}
    BY PlaceOf, VolumesAssumption
  <2> QED BY <1>2, <2>1
<1>4. PICK q \in Seq(Names), n \in Names : p = Append(q, n) /\ q \notin Bad
  BY <1>2, <1>3
<1>5. PICK r, s : r = Place(u, Target, q) /\ s = Place(t, Target, q)
  OBVIOUS
<1>6. Place(u, Target, p) = OneStep(u, r, n) /\ Place(t, Target, p) = OneStep(t, s, n)
  <2>1. Place(u, Target, Append(q, n)) = OneStep(u, Place(u, Target, q), n)
    BY PlaceOf
  <2>2. Place(t, Target, Append(q, n)) = OneStep(t, Place(t, Target, q), n)
    BY PlaceOf
  <2> QED BY <1>4, <1>5, <2>1, <2>2
<1>7. \A h \in HomeIn(u, dis2) : h \in r <=> h \in s
  BY <1>4, <1>5
<1>8. PICK h \in HomeIn(u, dis2) : ~ (h \in OneStep(u, r, n) <=> h \in OneStep(t, s, n))
  BY <1>2, <1>6
<1>9. CASE h \in StableIn(u, dis2)
  <2>1. h \in DOMAIN u /\ u[h].parent \in HomeIn(u, dis2)
    BY <1>9, HomePlaces
  <2>2. h \in StableIn(t, dis) /\ u[h] = t[h]
    BY <1>9, HomeKept DEF GoodPlaces
  <2>3. h \in DOMAIN t
    BY <2>2, HomePlaces
  <2> QED BY <1>7, <1>8, <2>1, <2>2, <2>3 DEF OneStep
<1>10. CASE h = Target
  <2>1. GoodBase(u, dis2) /\ GoodBase(t, dis)
    BY DEF GoodPlaces
  <2>2. r \subseteq Below(u, Target) /\ s \subseteq Below(t, Target)
    BY <1>4, <1>5, <2>1, PlaceIsOne, VolumesAssumption
  <2>3. Target \in DOMAIN u => u[Target].parent \notin r
    BY <2>2 DEF GoodPlaces
  <2>4. Target \in DOMAIN t => t[Target].parent \notin s
    BY <2>2 DEF GoodPlaces
  <2> QED BY <1>8, <1>10, <2>3, <2>4 DEF OneStep
<1> QED BY <1>8, <1>9, <1>10 DEF HomeIn

\* The way from the directory over the target's name leads below the target, or
\* to what is disturbed.
LEMMA DirPlaces ==
  ASSUME NEW t, NEW dis, GoodBase(t, dis),
         \A c \in DOMAIN t : t[c] = [parent |-> Dir, name |-> TargetName] => c = Target \/ c \in dis,
         NEW path \in Seq(Names)
  PROVE  Place(t, Dir, <<TargetName>> \o path) \subseteq Below(t, Target) \cup dis
<1> DEFINE B == Below(t, Target) \cup dis
           Bad == {p \in Seq(Names) : ~ (Place(t, Dir, <<TargetName>> \o p) \subseteq B)}
<1>1. SUFFICES ASSUME Bad # {} PROVE FALSE
  OBVIOUS
<1>2. PICK p \in Bad : p = <<>> \/ \E q \in Seq(Names), n \in Names : p = Append(q, n) /\ q \notin Bad
  <2>1. Bad \subseteq Seq(Names)
    OBVIOUS
  <2> HIDE DEF Bad
  <2> QED BY <1>1, <2>1, ShortestPath
<1>3. TargetName \in Names /\ Target \in Ids /\ DOMAIN t \subseteq Ids
  BY VolumesAssumption DEF GoodBase
<1>4. Target \in Below(t, Target) /\ ClosedIn(t, Below(t, Target))
  BY <1>3, BelowIsLeast
<1>5. ClosedIn(t, B)
  BY <1>4 DEF ClosedIn, GoodBase
<1>6. OneStep(t, {Dir}, TargetName) \subseteq B
  <2>1. SUFFICES ASSUME NEW x \in OneStep(t, {Dir}, TargetName) PROVE x \in B
    OBVIOUS
  <2>2. x \in DOMAIN t /\ t[x].parent = Dir /\ t[x].name = TargetName
    BY DEF OneStep
  <2>3. t[x] \in [parent : Ids, name : Names]
    BY <2>2 DEF GoodBase
  <2>4. t[x] = [parent |-> Dir, name |-> TargetName]
    BY <2>2, <2>3
  <2> QED BY <1>4, <2>2, <2>4
<1> HIDE DEF B
<1>7. CASE p = <<>>
  <2>1. <<TargetName>> \o p = Append(<<>>, TargetName)
    BY <1>7
  <2>2. PICK e : e = <<>>
    OBVIOUS
  <2>3. e \in Seq(Names)
    BY <2>2
  <2>4. Place(t, Dir, <<>>) = {Dir}
    BY PlaceOf, VolumesAssumption
  <2>5. Place(t, Dir, Append(e, TargetName)) = OneStep(t, Place(t, Dir, e), TargetName)
    BY <1>3, <2>3, PlaceOf
  <2>6. Place(t, Dir, e) = {Dir}
    BY <2>2, <2>4
  <2>7. Place(t, Dir, Append(e, TargetName)) \subseteq B
    BY <1>6, <2>5, <2>6
  <2> QED BY <1>2, <2>1, <2>2, <2>7
<1>8. CASE p # <<>>
  <2>1. PICK q \in Seq(Names), n \in Names : p = Append(q, n) /\ q \notin Bad
    BY <1>2, <1>8
  <2>2. PICK r \in Seq(Names) : r = <<TargetName>> \o q
    <3>1. <<TargetName>> \in Seq(Names)
      BY <1>3
    <3>2. <<TargetName>> \o q \in Seq(Names)
      BY <3>1
    <3> QED BY <3>2
  <2>3. <<TargetName>> \o p = Append(r, n)
    BY <2>1, <2>2
  <2>4. Place(t, Dir, r) \subseteq B
    BY <2>1, <2>2
  <2>5. Place(t, Dir, Append(r, n)) = OneStep(t, Place(t, Dir, r), n)
    BY PlaceOf
  <2>6. OneStep(t, Place(t, Dir, r), n) \subseteq B
    BY <1>5, <2>4 DEF OneStep, ClosedIn
  <2> QED BY <1>2, <2>1, <2>3, <2>5, <2>6
<1> QED BY <1>7, <1>8

\* What is below the target stays there, or is disturbed, or goes.
LEMMA StaysBelow ==
  ASSUME NEW t, NEW dis, NEW u, NEW dis2, GoodBase(t, dis), GoodBase(u, dis2), Kept(t, dis, u, dis2),
         NEW f, f \in DOMAIN t => f \in Below(t, Target) \cup dis, f \in DOMAIN u
  PROVE  f \in Below(u, Target) \cup dis2
<1>1. DOMAIN t \subseteq Ids /\ DOMAIN u \subseteq Ids /\ Target \in Ids
  BY VolumesAssumption DEF GoodBase
<1>2. /\ Target \in Below(t, Target) /\ ClosedIn(t, Below(t, Target))
      /\ Below(t, Target) \subseteq {Target} \cup DOMAIN t
  BY <1>1, BelowIsLeast
<1>3. Target \in Below(u, Target) /\ ClosedIn(u, Below(u, Target))
  BY <1>1, BelowIsLeast
<1> DEFINE s == {x \in Below(t, Target) : x \in DOMAIN u => x \in Below(u, Target) \cup dis2}
<1>4. ClosedIn(t, s)
  <2>1. SUFFICES ASSUME NEW x \in DOMAIN t, t[x].parent \in s, x \in DOMAIN u, x \notin dis2, x # Target
                 PROVE  x \in Below(u, Target)
    BY <1>2, <1>3 DEF ClosedIn
  <2>2. u[x] = t[x]
    BY <2>1 DEF Kept
  <2>3. u[x].parent \in DOMAIN u
    <3>1. u[x].parent # Dir
      BY <1>2, <2>1, <2>2, VolumesAssumption DEF GoodBase
    <3> QED BY <2>1, <3>1 DEF GoodBase
  <2>4. u[x].parent \in Below(u, Target) \cup dis2
    BY <2>1, <2>2, <2>3
  <2>5. u[x].parent \notin dis2
    BY <2>1 DEF GoodBase
  <2> QED BY <1>3, <2>1, <2>4, <2>5 DEF ClosedIn
<1>5. Target \in s
  BY <1>2, <1>3
<1>6. Below(t, Target) \subseteq s
  <2> HIDE DEF s
  <2> QED BY <1>1, <1>4, <1>5, BelowIsLeast
<1>7. CASE f \in DOMAIN t
  BY <1>6, <1>7 DEF Kept
<1>8. CASE f \notin DOMAIN t
  BY <1>3, <1>8 DEF Kept
<1> QED BY <1>7, <1>8

\* From the directory the way leads over the target.
LEMMA PlaceFromDir ==
  ASSUME NEW t, NEW dis, GoodBase(t, dis), Target \in DOMAIN t,
         t[Target] = [parent |-> Dir, name |-> TargetName], NEW path \in Seq(Names)
  PROVE  Place(t, Dir, <<TargetName>> \o path) = Place(t, Target, path)
<1> DEFINE Bad == {p \in Seq(Names) : Place(t, Dir, <<TargetName>> \o p) # Place(t, Target, p)}
<1>1. SUFFICES ASSUME Bad # {} PROVE FALSE
  OBVIOUS
<1>2. PICK p \in Bad : p = <<>> \/ \E q \in Seq(Names), n \in Names : p = Append(q, n) /\ q \notin Bad
  <2>1. Bad \subseteq Seq(Names)
    OBVIOUS
  <2> HIDE DEF Bad
  <2> QED BY <1>1, <2>1, ShortestPath
<1>3. TargetName \in Names /\ t[Target] = [parent |-> Dir, name |-> TargetName]
  BY VolumesAssumption
<1>4. OneStep(t, {Dir}, TargetName) = {Target}
  <2>1. Target \in OneStep(t, {Dir}, TargetName)
    BY <1>3 DEF OneStep
  <2>2. ASSUME NEW x \in OneStep(t, {Dir}, TargetName) PROVE x = Target
    <3>1. x \in DOMAIN t /\ t[x].parent = t[Target].parent /\ t[x].name = t[Target].name
      BY <1>3 DEF OneStep
    <3> QED BY <3>1, NamesApart
  <2> QED BY <2>1, <2>2
<1>5. CASE p = <<>>
  <2>1. <<TargetName>> \o p = Append(<<>>, TargetName)
    BY <1>5
  <2>2. PICK e : e = <<>>
    OBVIOUS
  <2>3. e \in Seq(Names)
    BY <2>2
  <2>4. Place(t, Dir, <<>>) = {Dir} /\ Place(t, Target, <<>>) = {Target}
    BY PlaceOf, VolumesAssumption
  <2>6. Place(t, Dir, Append(e, TargetName)) = OneStep(t, Place(t, Dir, e), TargetName)
    BY <1>3, <2>3, PlaceOf
  <2>7. Place(t, Dir, e) = {Dir}
    BY <2>2, <2>4
  <2>8. Place(t, Dir, Append(e, TargetName)) = {Target}
    BY <1>4, <2>6, <2>7
  <2>5. Place(t, Target, p) = {Target}
    BY <1>5, <2>4
  <2> QED BY <1>2, <2>1, <2>2, <2>5, <2>8
<1>6. CASE p # <<>>
  <2>1. PICK q \in Seq(Names), n \in Names : p = Append(q, n) /\ q \notin Bad
    BY <1>2, <1>6
  <2>2. PICK r \in Seq(Names) : r = <<TargetName>> \o q
    <3>1. <<TargetName>> \in Seq(Names)
      BY <1>3
    <3>2. <<TargetName>> \o q \in Seq(Names)
      BY <3>1
    <3> QED BY <3>2
  <2>3. <<TargetName>> \o p = Append(r, n)
    BY <2>1, <2>2
  <2>4. Place(t, Dir, r) = Place(t, Target, q)
    BY <2>1, <2>2
  <2>5. Place(t, Dir, Append(r, n)) = OneStep(t, Place(t, Dir, r), n)
    BY PlaceOf
  <2>6. Place(t, Target, Append(q, n)) = OneStep(t, Place(t, Target, q), n)
    BY PlaceOf
  <2> QED BY <1>2, <2>1, <2>3, <2>4, <2>5, <2>6
<1> QED BY <1>5, <1>6

-----------------------------------------------------------------------------
(* The filesystem during the walk.                                         *)

\* Stable and Home, in terms of the filesystem alone, before and after a step.
LEMMA HomeIs ==
  /\ Stable = StableIn(vols, Moved) /\ Home = HomeIn(vols, Moved)
  /\ Stable' = StableIn(vols', Moved') /\ Home' = HomeIn(vols', Moved')
<1>1. Subtree(Target) = Below(vols, Target) /\ Subtree(Target)' = Below(vols', Target)
  BY SubtreeIsBelow
<1> QED BY <1>1 DEF Stable, Home, StableIn, HomeIn, Moved

\* Under, in terms of the filesystem alone, before and after a step.
LEMMA UnderIs ==
  ASSUME NEW CONSTANT w
  PROVE  Under(w) = UnderIn(vols, w) /\ Under(w)' = UnderIn(vols', w)
<1>1. \A c : Subtree(c) = Below(vols, c)
  BY DEF Subtree, Below, Levels, Children, ChildrenOf
<1>2. \A c : Subtree(c)' = Below(vols', c)
  BY DEF Subtree, Below, Levels, Children, ChildrenOf
<1> QED BY <1>1, <1>2 DEF Under, UnderIn, Children, ChildrenOf

\* The invariant of the places, in terms of the filesystem alone.
LEMMA TreeIsGood ==
  /\ PlacesType /\ TreeOK => GoodBase(vols, Moved)
  /\ PlacesType' /\ TreeOK' => GoodBase(vols', Moved')
<1>1. ASSUME PlacesType, TreeOK PROVE GoodBase(vols, Moved)
  BY <1>1 DEF PlacesType, TreeOK, GoodBase, Moved
<1>2. ASSUME PlacesType', TreeOK' PROVE GoodBase(vols', Moved')
  BY <1>2 DEF PlacesType, TreeOK, GoodBase, Moved
<1> QED BY <1>1, <1>2

\* The same with the target apart.
LEMMA PlacesAreGood ==
  /\ PlacesType /\ PlacesOK => GoodPlaces(vols, Moved)
  /\ PlacesType' /\ PlacesOK' => GoodPlaces(vols', Moved')
<1>1. Subtree(Target) = Below(vols, Target) /\ Subtree(Target)' = Below(vols', Target)
  BY SubtreeIsBelow
<1> QED BY <1>1, TreeIsGood DEF PlacesOK, Apart, GoodPlaces

\* Subtree is the least closed set.
LEMMA SubtreeFacts ==
  ASSUME PlacesType, NEW CONSTANT v \in Ids
  PROVE  /\ v \in Subtree(v) /\ ClosedIn(vols, Subtree(v)) /\ Subtree(v) \subseteq {v} \cup DOMAIN vols
         /\ \A s : v \in s /\ ClosedIn(vols, s) => Subtree(v) \subseteq s
<1>1. DOMAIN vols \subseteq Ids
  BY DEF PlacesType
<1> QED BY <1>1, BelowIsLeast, SubtreeIsBelow

\* SubtreeFacts, of the filesystem after a step.
LEMMA SubtreeFactsAfter ==
  ASSUME PlacesType', NEW CONSTANT v \in Ids
  PROVE  /\ v \in Subtree(v)' /\ ClosedIn(vols', Subtree(v)') /\ Subtree(v)' \subseteq {v} \cup DOMAIN vols'
         /\ \A s : v \in s /\ ClosedIn(vols', s) => Subtree(v)' \subseteq s
<1>1. DOMAIN vols' \subseteq Ids
  BY DEF PlacesType
<1> QED BY <1>1, BelowIsLeast, SubtreeIsBelow

\* The initial filesystem.
LEMMA PlacesInit == Init => PlacesType /\ PlacesOK /\ Target \in DOMAIN vols /\ disturbed = {}
<1> SUFFICES ASSUME Init PROVE PlacesType /\ PlacesOK /\ Target \in DOMAIN vols /\ disturbed = {}
  OBVIOUS
<1>1. vols \in InitialVols /\ used = DOMAIN vols \cup {Dir} /\ disturbed = {} /\ changes = 0
  BY DEF Init, VolumesInit
<1>2. /\ DOMAIN vols \subseteq Ids /\ vols \in [DOMAIN vols -> [parent : DOMAIN vols \cup {Dir}, name : Names]]
      /\ \A c, d \in DOMAIN vols : vols[c] = vols[d] => c = d
      /\ Dir \notin DOMAIN vols
      /\ Target \in DOMAIN vols /\ vols[Target] = [parent |-> Dir, name |-> TargetName]
  BY <1>1, TreesAssumption
<1>3. {Dir, Target} \subseteq Ids /\ Dir # Target
  BY VolumesAssumption
<1>4. PlacesType
  <2>1. \A c \in DOMAIN vols : vols[c] \in [parent : Ids, name : Names]
    BY <1>2, <1>3
  <2> QED BY <1>1, <1>2, <1>3, <2>1 DEF PlacesType
<1>5. TreeOK
  <2>1. \A c \in DOMAIN vols : vols[c].parent \in DOMAIN vols \cup {Dir}
    BY <1>2
  <2> QED BY <1>1, <1>2, <2>1 DEF TreeOK, Moved
<1>6. Apart
  <2>1. Subtree(Target) \subseteq {Target} \cup DOMAIN vols
    BY <1>3, <1>4, SubtreeFacts
  <2> QED BY <1>1, <1>2, <1>3, <2>1 DEF Apart, Moved
<1> QED BY <1>1, <1>2, <1>4, <1>5, <1>6 DEF PlacesOK

\* A step of the filesystem: what others do, and what destroy does.
Shifts ==
    /\ PlacesType' /\ TreeOK' /\ Kept(vols, Moved, vols', Moved')
    /\ disturbed \subseteq disturbed' /\ changes' >= changes

\* One that does not bring the target to where the walk may come to it.
Shifted == Shifts /\ Apart'

\* A filesystem that stands still is one whose stable part does.
LEMMA Unshifted ==
  ASSUME PlacesType, TreeOK, UNCHANGED <<vols, used, disturbed>>, changes' \in Nat, changes' >= changes,
         step' = "done" \/ step # "done"
  PROVE  Shifts /\ (Apart => Shifted)
<1>1. changes' = 0 => changes = 0
  BY DEF PlacesType
<1>2. Moved' = Moved /\ Subtree(Target)' = Subtree(Target)
  BY SubtreeIsBelow DEF Moved
<1>3. TreeOK'
  BY <1>1, <1>2 DEF TreeOK
<1>4. Shifts
  BY <1>2, <1>3 DEF PlacesType, Kept, Shifts
<1>5. Apart => Apart'
  BY <1>2 DEF Apart
<1> QED BY <1>4, <1>5 DEF Shifted

\* So it does in each step of the walk itself.
LEMMA StandStill ==
  ASSUME PlacesType, TreeOK, Works \/ Fails, step' = "done" \/ step # "done"
  PROVE  Shifts /\ (Apart => Shifted) /\ UNCHANGED <<vols, used, disturbed>>
<1>1. changes \in Nat
  BY DEF PlacesType
<1>2. UNCHANGED <<vols, used, disturbed>> /\ changes' \in Nat /\ changes' >= changes
  BY <1>1 DEF Works, Fails, Change, volumeVars
<1> QED BY <1>2, Unshifted

\* A subvolume with none in it goes.
LEMMA Removal ==
  ASSUME PlacesType, TreeOK, NEW c \in DOMAIN vols, Children(c) = {}, vols' = Without(c),
         UNCHANGED <<used, disturbed>>, changes' \in Nat, changes' >= changes,
         changes' = 0 /\ c = Target => step' = "done", step # "done"
  PROVE  Shifts /\ (Apart => Shifted)
<1>1. DOMAIN vols' = DOMAIN vols \ {c} /\ \A d \in DOMAIN vols \ {c} : vols'[d] = vols[d]
  BY DEF Without
<1>2. \A d \in DOMAIN vols : vols[d].parent # c
  BY DEF Children
<1>3. PlacesType'
  <2>1. vols' = [d \in DOMAIN vols \ {c} |-> vols[d]]
    BY DEF Without
  <2> QED BY <1>1, <2>1 DEF PlacesType
<1>4. changes' = 0 => changes = 0
  BY DEF PlacesType
<1>5. Moved' = Moved
  BY DEF Moved
<1>6. TreeOK'
  <2>1. \A d, e \in DOMAIN vols' : vols'[d] = vols'[e] => d = e
    BY <1>1 DEF TreeOK
  <2>2. \A d \in DOMAIN vols' : vols'[d].parent \in DOMAIN vols' \cup {Dir}
    BY <1>1, <1>2 DEF TreeOK
  <2>3. \A d \in DOMAIN vols' : vols'[d].parent \in Moved' => d \in disturbed'
    BY <1>1, <1>5 DEF TreeOK
  <2>4. /\ Dir \in used' /\ Dir \notin DOMAIN vols' /\ Dir \notin disturbed' /\ Target \in used'
    BY <1>1 DEF TreeOK
  <2>5. \A d \in DOMAIN vols' :
          vols'[d] = [parent |-> Dir, name |-> TargetName] => d = Target \/ d \in disturbed'
    BY <1>1 DEF TreeOK
  <2>6. Target \in DOMAIN vols' \ disturbed' => vols'[Target] = [parent |-> Dir, name |-> TargetName]
    BY <1>1 DEF TreeOK
  <2>7. changes' = 0 => disturbed' = {} /\ (Target \in DOMAIN vols' \/ step' = "done")
    BY <1>1, <1>4 DEF TreeOK
  <2> QED BY <2>1, <2>2, <2>3, <2>4, <2>5, <2>6, <2>7 DEF TreeOK
<1>7. Kept(vols, Moved, vols', Moved')
  BY <1>1, <1>5 DEF Kept
<1>8. Shifts
  BY <1>3, <1>6, <1>7 DEF Shifts
<1>9. Apart => Apart'
  <2>1. Target \in Ids /\ Target \in Subtree(Target) /\ ClosedIn(vols, Subtree(Target))
    BY SubtreeFacts, VolumesAssumption
  <2>2. ClosedIn(vols', Subtree(Target))
    BY <1>1, <2>1 DEF ClosedIn
  <2>3. Subtree(Target)' \subseteq Subtree(Target)
    BY <1>3, <2>1, <2>2, SubtreeFactsAfter
  <2> QED BY <1>1, <1>5, <2>3 DEF Apart
<1> QED BY <1>8, <1>9 DEF Shifted

\* What another process does (it creates, renames, destroys) leaves the stable ones where they are,
LEMMA OthersShift ==
  ASSUME PlacesType, TreeOK, OtherProcess, step' = step, step # "done"
  PROVE  Shifts /\ changes' > 0
<1>0. /\ Target \in Ids /\ Dir # Target /\ Dir \in Ids /\ Dir \in used /\ Dir \notin DOMAIN vols
      /\ Dir \notin disturbed /\ Target \in used
  BY VolumesAssumption DEF TreeOK
<1>1. changes \in Nat /\ changes' = changes + 1 /\ DOMAIN vols \subseteq used /\ used \subseteq Ids
  BY DEF PlacesType, OtherProcess, Created, Deleted, Renamed, Change
<1>2. changes' # 0 /\ changes' > 0 /\ changes' >= changes /\ changes' \in Nat
  BY <1>1
<1>3. CASE Created
  <2>1. PICK c \in Ids \ used, p \in Places, n \in Names :
          /\ Named(p, n) = {}
          /\ vols' = [d \in DOMAIN vols \cup {c} |-> IF d = c THEN [parent |-> p, name |-> n] ELSE vols[d]]
          /\ used' = used \cup {c}
          /\ disturbed' = disturbed \cup {c}
    BY <1>3 DEF Created
  <2>2. /\ p \in DOMAIN vols \cup {Dir} /\ p \in Ids
        /\ c \notin DOMAIN vols /\ c # Target /\ c # Dir
    BY <1>0, <1>1, <2>1 DEF Places
  <2>3. /\ DOMAIN vols' = DOMAIN vols \cup {c} /\ vols'[c] = [parent |-> p, name |-> n]
        /\ \A d \in DOMAIN vols : vols'[d] = vols[d]
    BY <2>1, <2>2
  <2>4. \A d \in DOMAIN vols : vols[d] \in [parent : Ids, name : Names] /\ vols[d] # [parent |-> p, name |-> n]
    <3>1. \A d \in DOMAIN vols : vols[d] \in [parent : Ids, name : Names]
      BY DEF PlacesType
    <3>2. \A d \in DOMAIN vols : ~ (vols[d].parent = p /\ vols[d].name = n)
      BY <2>1 DEF Named, Children
    <3> QED BY <3>1, <3>2
  <2>5. PlacesType'
    <3>1. \A d \in DOMAIN vols' : vols'[d] \in [parent : Ids, name : Names]
      BY <2>1, <2>2, <2>3, <2>4
    <3>2. vols' = [d \in DOMAIN vols' |-> vols'[d]]
      BY <2>1
    <3> QED BY <1>1, <2>1, <2>2, <2>3, <3>1, <3>2 DEF PlacesType
  <2>6. Moved' = Moved \cup {c}
    BY <2>1, <2>2 DEF Moved
  <2>7. TreeOK'
    <3>1. \A d, e \in DOMAIN vols' : vols'[d] = vols'[e] => d = e
      BY <2>3, <2>4 DEF TreeOK
    <3>2. \A d \in DOMAIN vols' : vols'[d].parent \in DOMAIN vols' \cup {Dir}
      BY <2>2, <2>3 DEF TreeOK
    <3>3. \A d \in DOMAIN vols' : vols'[d].parent \in Moved' => d \in disturbed'
      <4>1. \A d \in DOMAIN vols : vols[d].parent # c
        BY <2>2 DEF TreeOK
      <4>2. \A d \in DOMAIN vols : vols[d].parent \in Moved => d \in disturbed
        BY DEF TreeOK
      <4>3. \A d \in DOMAIN vols : vols'[d].parent \in Moved' => d \in disturbed'
        BY <2>1, <2>3, <2>6, <4>1, <4>2
      <4>4. c \in disturbed' /\ DOMAIN vols' = DOMAIN vols \cup {c}
        BY <2>1, <2>3
      <4> QED BY <4>3, <4>4
    <3>4. Dir \in used' /\ Dir \notin DOMAIN vols' /\ Dir \notin disturbed' /\ Target \in used'
      BY <1>0, <2>1, <2>2, <2>3
    <3>5. \A d \in DOMAIN vols' :
            vols'[d] = [parent |-> Dir, name |-> TargetName] => d = Target \/ d \in disturbed'
      BY <2>1, <2>3 DEF TreeOK
    <3>6. Target \in DOMAIN vols' \ disturbed' => vols'[Target] = [parent |-> Dir, name |-> TargetName]
      BY <2>1, <2>2, <2>3 DEF TreeOK
    <3> QED BY <1>2, <3>1, <3>2, <3>3, <3>4, <3>5, <3>6 DEF TreeOK
  <2>8. Kept(vols, Moved, vols', Moved')
    BY <2>3, <2>6 DEF Kept
  <2> QED BY <1>2, <2>1, <2>5, <2>7, <2>8 DEF Shifts
<1>4. CASE Deleted
  <2>1. PICK c \in DOMAIN vols : Children(c) = {} /\ vols' = Without(c)
    BY <1>4 DEF Deleted
  <2>2. UNCHANGED <<used, disturbed>>
    BY <1>4 DEF Deleted
  <2> QED BY <1>2, <2>1, <2>2, Removal
<1>5. CASE Renamed
  <2>1. PICK c \in DOMAIN vols, n \in Names : \E p \in Places \ Subtree(c) :
          /\ Named(p, n) = {}
          /\ vols' = [vols EXCEPT ![c] = [parent |-> p, name |-> n]]
          /\ disturbed' = disturbed \cup (IF c = Target /\ p \notin disturbed THEN {c} ELSE Subtree(c))
    BY <1>5 DEF Renamed
  <2>2. PICK p \in Places \ Subtree(c) :
          /\ Named(p, n) = {}
          /\ vols' = [vols EXCEPT ![c] = [parent |-> p, name |-> n]]
          /\ disturbed' = disturbed \cup (IF c = Target /\ p \notin disturbed THEN {c} ELSE Subtree(c))
    BY <2>1
  <2>3. used' = used
    BY <1>5 DEF Renamed
  <2>4. c \in Ids /\ p \in DOMAIN vols \cup {Dir} /\ p \in Ids
    BY <1>0, <1>1, <2>1, <2>2 DEF Places
  <2>5. c \in Subtree(c) /\ ClosedIn(vols, Subtree(c)) /\ Subtree(c) \subseteq DOMAIN vols
    BY <2>4, SubtreeFacts
  <2>6. /\ DOMAIN vols' = DOMAIN vols /\ vols'[c] = [parent |-> p, name |-> n]
        /\ \A d \in DOMAIN vols : d # c => vols'[d] = vols[d]
    BY <2>2, <2>4
  <2>7. PICK D : /\ disturbed' = disturbed \cup D /\ c \in D /\ D \subseteq DOMAIN vols
                 /\ D = {Target} \/ ClosedIn(vols, D)
    <3>1. CASE c = Target /\ p \notin disturbed
      <4>1. disturbed' = disturbed \cup {Target}
        BY <2>2, <3>1
      <4> QED BY <3>1, <4>1
    <3>2. CASE ~ (c = Target /\ p \notin disturbed)
      <4>1. disturbed' = disturbed \cup Subtree(c)
        BY <2>2, <3>2
      <4> QED BY <2>5, <4>1
    <3> QED BY <3>1, <3>2
  <2>8. \A d \in DOMAIN vols : vols[d] \in [parent : Ids, name : Names] /\ vols[d] # [parent |-> p, name |-> n]
    <3>1. \A d \in DOMAIN vols : vols[d] \in [parent : Ids, name : Names]
      BY DEF PlacesType
    <3>2. \A d \in DOMAIN vols : ~ (vols[d].parent = p /\ vols[d].name = n)
      BY <2>2 DEF Named, Children
    <3> QED BY <3>1, <3>2
  <2>9. PlacesType'
    <3>1. \A d \in DOMAIN vols' : vols'[d] \in [parent : Ids, name : Names]
      BY <2>1, <2>4, <2>6, <2>8
    <3>2. vols' = [d \in DOMAIN vols' |-> vols'[d]]
      BY <2>2
    <3>3. disturbed' \subseteq used'
      BY <1>1, <2>3, <2>7 DEF PlacesType
    <3> QED BY <1>2, <1>1, <2>3, <2>6, <3>1, <3>2, <3>3 DEF PlacesType
  <2>10. TreeOK'
    <3>1. \A d, e \in DOMAIN vols' : vols'[d] = vols'[e] => d = e
      BY <2>6, <2>8 DEF TreeOK
    <3>2. \A d \in DOMAIN vols' : vols'[d].parent \in DOMAIN vols' \cup {Dir}
      BY <2>4, <2>6 DEF TreeOK
    <3>3. \A d \in DOMAIN vols' : vols'[d].parent \in Moved' => d \in disturbed'
      <4>1. SUFFICES ASSUME NEW d \in DOMAIN vols, d # c, vols[d].parent \in Moved' PROVE d \in disturbed'
        BY <2>6, <2>7
      <4>2. vols[d].parent \in Moved \/ (vols[d].parent \in D /\ vols[d].parent # Target)
        BY <2>7, <4>1 DEF Moved
      <4>3. CASE vols[d].parent \in Moved
        BY <2>7, <4>1, <4>3 DEF TreeOK
      <4>4. CASE vols[d].parent \in D /\ vols[d].parent # Target
        BY <2>7, <4>1, <4>4 DEF ClosedIn
      <4> QED BY <4>2, <4>3, <4>4
    <3>4. Dir \in used' /\ Dir \notin DOMAIN vols' /\ Dir \notin disturbed' /\ Target \in used'
      BY <1>0, <2>3, <2>6, <2>7
    <3>5. \A d \in DOMAIN vols' :
            vols'[d] = [parent |-> Dir, name |-> TargetName] => d = Target \/ d \in disturbed'
      BY <2>6, <2>7 DEF TreeOK
    <3>6. Target \in DOMAIN vols' \ disturbed' => vols'[Target] = [parent |-> Dir, name |-> TargetName]
      BY <2>6, <2>7 DEF TreeOK
    <3> QED BY <1>2, <3>1, <3>2, <3>3, <3>4, <3>5, <3>6 DEF TreeOK
  <2>11. Kept(vols, Moved, vols', Moved')
    BY <2>6, <2>7 DEF Kept, Moved
  <2> QED BY <1>2, <2>7, <2>9, <2>10, <2>11 DEF Shifts
<1> QED BY <1>2, <1>3, <1>4, <1>5 DEF OtherProcess

\* and the target apart, or none stable.
LEMMA OthersApart ==
  ASSUME PlacesType, PlacesType', TreeOK, Apart, OtherProcess
  PROVE  Apart' \/ Stable' = {}
<1>0. /\ Target \in Ids /\ Dir # Target /\ Dir \in Ids /\ Dir \notin DOMAIN vols
      /\ Target \in used /\ DOMAIN vols \subseteq used /\ used \subseteq Ids /\ Dir \in used
  BY VolumesAssumption DEF TreeOK, PlacesType
<1>1. Target \in Subtree(Target) /\ ClosedIn(vols, Subtree(Target))
  BY <1>0, SubtreeFacts
<1>2. \A s : Target \in s /\ ClosedIn(vols', s) => Subtree(Target)' \subseteq s
  BY <1>0, SubtreeFactsAfter
<1>3. CASE Created
  <2>1. PICK c \in Ids \ used, p \in Places, n \in Names :
          /\ vols' = [d \in DOMAIN vols \cup {c} |-> IF d = c THEN [parent |-> p, name |-> n] ELSE vols[d]]
          /\ disturbed' = disturbed \cup {c}
    BY <1>3 DEF Created
  <2>2. c \notin DOMAIN vols /\ c # Target /\ c # Dir
    BY <1>0, <2>1
  <2>3. DOMAIN vols' = DOMAIN vols \cup {c} /\ \A d \in DOMAIN vols : vols'[d] = vols[d]
    BY <2>1, <2>2
  <2>4. \A d \in DOMAIN vols : vols[d].parent # c
    BY <2>2 DEF TreeOK
  <2>5. Subtree(Target)' \subseteq Subtree(Target) \cup {c}
    <3>1. ClosedIn(vols', Subtree(Target) \cup {c})
      BY <1>1, <2>3, <2>4 DEF ClosedIn
    <3> QED BY <1>1, <1>2, <3>1
  <2>6. Moved' \subseteq Moved \cup {c}
    BY <2>1 DEF Moved
  <2> QED BY <2>2, <2>3, <2>4, <2>5, <2>6 DEF Apart
<1>4. CASE Deleted
  <2>1. PICK c \in DOMAIN vols : vols' = Without(c)
    BY <1>4 DEF Deleted
  <2>2. DOMAIN vols' = DOMAIN vols \ {c} /\ \A d \in DOMAIN vols \ {c} : vols'[d] = vols[d]
    BY <2>1 DEF Without
  <2>3. Moved' = Moved
    BY <1>4 DEF Deleted, Moved
  <2>4. Subtree(Target)' \subseteq Subtree(Target)
    <3>1. ClosedIn(vols', Subtree(Target))
      BY <1>1, <2>2 DEF ClosedIn
    <3> QED BY <1>1, <1>2, <3>1
  <2> QED BY <2>2, <2>3, <2>4 DEF Apart
<1>5. CASE Renamed
  <2>1. PICK c \in DOMAIN vols, n \in Names : \E p \in Places \ Subtree(c) :
          /\ vols' = [vols EXCEPT ![c] = [parent |-> p, name |-> n]]
          /\ disturbed' = disturbed \cup (IF c = Target /\ p \notin disturbed THEN {c} ELSE Subtree(c))
    BY <1>5 DEF Renamed
  <2>2. PICK p \in Places \ Subtree(c) :
          /\ vols' = [vols EXCEPT ![c] = [parent |-> p, name |-> n]]
          /\ disturbed' = disturbed \cup (IF c = Target /\ p \notin disturbed THEN {c} ELSE Subtree(c))
    BY <2>1
  <2>3. c \in Ids /\ c \in Subtree(c) /\ ClosedIn(vols, Subtree(c))
    BY <1>0, <2>1, SubtreeFacts
  <2>4. /\ DOMAIN vols' = DOMAIN vols /\ vols'[c] = [parent |-> p, name |-> n]
        /\ \A d \in DOMAIN vols : d # c => vols'[d] = vols[d]
    BY <2>2
  <2>5. CASE c = Target
    <3>1. ClosedIn(vols', Subtree(Target))
      BY <1>1, <2>4, <2>5 DEF ClosedIn
    <3>2. Subtree(Target)' \subseteq Subtree(Target)
      BY <1>1, <1>2, <3>1
    <3>3. CASE p \notin disturbed
      <4>1. Moved' = Moved
        BY <2>2, <2>5, <3>3 DEF Moved
      <4>2. vols'[Target].parent = p /\ p \notin Subtree(Target) /\ p \notin Moved
        BY <2>2, <2>4, <2>5, <3>3 DEF Moved
      <4> QED BY <3>2, <4>1, <4>2 DEF Apart
    <3>4. CASE p \in disturbed
      <4>1. Subtree(Target) \subseteq disturbed'
        BY <2>2, <2>5, <3>4
      <4> QED BY <3>2, <4>1 DEF Stable
    <3> QED BY <3>3, <3>4
  <2>6. CASE c # Target /\ Target \in Subtree(c)
    <3>1. ClosedIn(vols', Subtree(c))
      BY <2>3, <2>4 DEF ClosedIn
    <3>2. Subtree(Target)' \subseteq Subtree(c)
      BY <1>2, <2>6, <3>1
    <3>3. Subtree(c) \subseteq disturbed'
      BY <2>2, <2>6
    <3> QED BY <3>2, <3>3 DEF Stable
  <2>7. CASE c # Target /\ Target \notin Subtree(c)
    <3>1. ClosedIn(vols', Subtree(Target) \cup Subtree(c))
      BY <1>1, <2>3, <2>4 DEF ClosedIn
    <3>2. Subtree(Target)' \subseteq Subtree(Target) \cup Subtree(c)
      BY <1>1, <1>2, <3>1
    <3>3. Moved' \subseteq Moved \cup Subtree(c)
      BY <2>2, <2>7 DEF Moved
    <3>4. Target \in DOMAIN vols => vols[Target].parent \notin Subtree(c)
      BY <2>3, <2>7 DEF ClosedIn
    <3> QED BY <2>4, <2>7, <3>2, <3>3, <3>4 DEF Apart
  <2> QED BY <2>5, <2>6, <2>7
<1> QED BY <1>3, <1>4, <1>5 DEF OtherProcess

\* What the walk may come to stays so.
LEMMA NearKept ==
  ASSUME PlacesType, TreeOK, Shifts, NEW CONSTANT v, Near(v)
  PROVE  Near(v)'
<1>1. GoodBase(vols, Moved) /\ GoodBase(vols', Moved') /\ Kept(vols, Moved, vols', Moved')
  BY TreeIsGood DEF Shifts
<1>2. Subtree(Target) = Below(vols, Target) /\ Subtree(Target)' = Below(vols', Target)
  BY SubtreeIsBelow
<1>3. Target \in Subtree(Target)
  BY SubtreeFacts, VolumesAssumption
<1>4. v # Dir /\ (v \in DOMAIN vols => v \in Below(vols, Target) \cup Moved)
  BY <1>2, <1>3 DEF Near, Moved
<1>5. v \in DOMAIN vols' => v \in Below(vols', Target) \cup Moved'
  BY <1>1, <1>4, StaysBelow
<1> QED BY <1>2, <1>4, <1>5 DEF Near, Moved

\* To the children of what the walk may come to it may come; the target is none.
LEMMA NotTheTarget ==
  ASSUME PlacesType, PlacesOK, NEW v, Near(v), NEW c \in Children(v)
  PROVE  c # Target /\ Near(c)
<1>1. c \in DOMAIN vols /\ vols[c].parent = v /\ v # Dir
  BY DEF Children, Near
<1>2. v \in DOMAIN vols /\ v \in Subtree(Target) \cup disturbed
  BY <1>1 DEF Near, PlacesOK, TreeOK
<1>3. Target \in Subtree(Target) /\ ClosedIn(vols, Subtree(Target))
  BY SubtreeFacts, VolumesAssumption
<1>4. v \in Subtree(Target) \cup Moved
  BY <1>2, <1>3 DEF Moved
<1>5. c # Target
  BY <1>1, <1>4 DEF PlacesOK, Apart
<1>6. c \in Subtree(Target) \cup disturbed
  BY <1>1, <1>3, <1>4 DEF PlacesOK, TreeOK, ClosedIn
<1> QED BY <1>1, <1>5, <1>6 DEF Near, PlacesOK, TreeOK

-----------------------------------------------------------------------------
(* Sequences.                                                              *)

\* All of a sequence but its last element.
LEMMA FrontIs ==
  ASSUME NEW T, NEW s \in Seq(T), s # <<>>
  PROVE  /\ Len(s) \in Nat \ {0} /\ Last(s) = s[Len(s)] /\ Last(s) \in T
         /\ Front(s) \in Seq(T) /\ Len(Front(s)) = Len(s) - 1
         /\ \A i \in 1 .. (Len(s) - 1) : Front(s)[i] = s[i]
<1>1. Len(s) \in Nat \ {0}
  OBVIOUS
<1>2. Len(s) \in 1 .. Len(s) /\ Last(s) = s[Len(s)] /\ Last(s) \in T
  BY <1>1 DEF Last
<1>3. PICK n \in Nat : n = Len(s) - 1
  BY <1>1
<1>5. \A i \in 1 .. n : s[i] \in T
  BY <1>1, <1>3
<1>6. PICK one \in Nat : one = 1
  OBVIOUS
<1>7. /\ SubSeq(s, one, n) \in Seq(T)
      /\ Len(SubSeq(s, one, n)) = IF one <= n THEN n - one + 1 ELSE 0
      /\ \A i \in 1 .. n - one + 1 : SubSeq(s, one, n)[i] = s[one + i - 1]
  BY <1>5, <1>6, SubSeqProperties
<1>4. /\ Front(s) \in Seq(T) /\ Len(Front(s)) = Len(s) - 1
      /\ \A i \in 1 .. (Len(s) - 1) : Front(s)[i] = s[i]
  <2>1. Front(s) = SubSeq(s, one, n)
    BY <1>3, <1>6 DEF Front
  <2> QED BY <1>3, <1>6, <1>7, <2>1
<1> QED BY <1>1, <1>2, <1>4

\* All of a sequence but its first element.
LEMMA TailIs ==
  ASSUME NEW T, NEW s \in Seq(T), s # <<>>
  PROVE  /\ Len(s) \in Nat \ {0} /\ Head(s) = s[1] /\ Head(s) \in T
         /\ Tail(s) \in Seq(T) /\ Len(Tail(s)) = Len(s) - 1
         /\ \A i \in 1 .. (Len(s) - 1) : Tail(s)[i] = s[i + 1]
  OBVIOUS

\* A sequence with one more element.
LEMMA AppendIs ==
  ASSUME NEW T, NEW s \in Seq(T), NEW e \in T
  PROVE  /\ Append(s, e) \in Seq(T) /\ Len(s) \in Nat /\ Len(Append(s, e)) = Len(s) + 1
         /\ \A i \in 1 .. Len(s) : Append(s, e)[i] = s[i]
         /\ Append(s, e)[Len(s) + 1] = e
  OBVIOUS

\* A sequence backwards.
LEMMA ReverseIs ==
  ASSUME NEW T, NEW s \in Seq(T)
  PROVE  /\ Reverse(s) \in Seq(T) /\ Len(Reverse(s)) = Len(s) /\ Len(s) \in Nat
         /\ \A i \in 1 .. Len(s) : Reverse(s)[i] = s[Len(s) - i + 1]
<1>1. PICK n \in Nat : n = Len(s)
  OBVIOUS
<1>2. \A i \in 1 .. n : n - i + 1 \in 1 .. n /\ s[n - i + 1] \in T
  BY <1>1
<1>3. Reverse(s) = [i \in 1 .. n |-> s[(n - i) + 1]]
  BY <1>1 DEF Reverse
<1>4. Reverse(s) \in [1 .. n -> T] /\ \A i \in 1 .. n : Reverse(s)[i] = s[n - i + 1]
  BY <1>2, <1>3
<1>5. Reverse(s) \in Seq(T) /\ Len(Reverse(s)) = n
  BY <1>4
<1> QED BY <1>1, <1>4, <1>5

\* Ascending brings the members of a set of ids in their order.
LEMMA AscendingIs ==
  ASSUME NEW s, s \subseteq Ids
  PROVE  /\ Ascending(s) \in Seq(Ids) /\ Len(Ascending(s)) \in Nat
         /\ \A i \in 1 .. Len(Ascending(s)) : Ascending(s)[i] \in s
         /\ \A c \in s : \E i \in 1 .. Len(Ascending(s)) : Ascending(s)[i] = c
         /\ \A i, j \in 1 .. Len(Ascending(s)) : i < j => Ascending(s)[i] < Ascending(s)[j]
<1> DEFINE Before(c) == {d \in s : d < c}
           rank == [c \in s |-> Cardinality(Before(c))]
<1>1. IsFiniteSet(s) /\ Cardinality(s) \in Nat /\ s \subseteq Nat
  BY IdsFinite, FS_Subset, FS_CardinalityType, VolumesAssumption
<1>2. PICK N \in Nat : N = Cardinality(s)
  BY <1>1
<1>3. ASSUME NEW c \in s PROVE IsFiniteSet(Before(c)) /\ Cardinality(Before(c)) \in 0 .. (N - 1)
  <2>1. Before(c) \in SUBSET s /\ c \notin Before(c)
    BY <1>1
  <2> HIDE DEF Before
  <2>2. IsFiniteSet(Before(c)) /\ Cardinality(Before(c)) <= N /\ (N = Cardinality(Before(c)) => s = Before(c))
    BY <1>1, <1>2, <2>1, FS_Subset
  <2>3. Cardinality(Before(c)) \in Nat
    BY <2>2, FS_CardinalityType
  <2> QED BY <2>1, <2>2, <2>3
<1>4. ASSUME NEW c \in s, NEW d \in s, c < d PROVE rank[c] < rank[d]
  <2>1. Before(c) \in SUBSET Before(d) /\ c \in Before(d) /\ c \notin Before(c)
    <3>1. c \in Nat /\ d \in Nat /\ \A e \in s : e \in Nat
      BY <1>1
    <3>2. \A e \in s : e < c => e < d
      BY <1>4, <3>1
    <3>3. ~ (c < c)
      BY <3>1
    <3> QED BY <1>4, <3>2, <3>3
  <2>2. rank[c] = Cardinality(Before(c)) /\ rank[d] = Cardinality(Before(d))
    OBVIOUS
  <2> HIDE DEF Before, rank
  <2>3. Cardinality(Before(c)) <= Cardinality(Before(d))
        /\ (Cardinality(Before(d)) = Cardinality(Before(c)) => Before(d) = Before(c))
    BY <1>3, <2>1, FS_Subset
  <2>4. Cardinality(Before(c)) \in Nat /\ Cardinality(Before(d)) \in Nat
    BY <1>3
  <2> QED BY <2>1, <2>2, <2>3, <2>4
<1>5. rank \in Injection(s, 0 .. (N - 1))
  <2>1. rank \in [s -> 0 .. (N - 1)]
    BY <1>3
  <2>2. \A c, d \in s : c # d => c < d \/ d < c
    BY <1>1
  <2>3. \A c \in s : rank[c] \in Nat
    BY <2>1
  <2> HIDE DEF rank
  <2>4. \A c, d \in s : rank[c] = rank[d] => c = d
    BY <1>4, <2>2, <2>3
  <2> QED BY <2>1, <2>4 DEF Injection, IsInjective
<1>6. \A i \in 0 .. (N - 1) : \E c \in s : rank[c] = i
  <2>1. IsFiniteSet(0 .. (N - 1)) /\ Cardinality(0 .. (N - 1)) = N
    <3>1. 0 \in Int /\ N - 1 \in Int
      OBVIOUS
    <3>2. IsFiniteSet(0 .. (N - 1)) /\ Cardinality(0 .. (N - 1)) = IF 0 > N - 1 THEN 0 ELSE N - 1 - 0 + 1
      BY <3>1, FS_Interval
    <3> QED BY <3>2
  <2> HIDE DEF rank
  <2>2. rank \in Surjection(s, 0 .. (N - 1))
    BY <1>2, <1>5, <2>1, FS_Injection
  <2> QED BY <2>2 DEF Surjection
<1>7. Ascending(s) = [i \in 1 .. N |-> CHOOSE c \in s : Cardinality(Before(c)) = i - 1]
  BY <1>2 DEF Ascending
<1>8. ASSUME NEW i \in 1 .. N PROVE Ascending(s)[i] \in s /\ rank[Ascending(s)[i]] = i - 1
  <2>1. i - 1 \in 0 .. (N - 1)
    OBVIOUS
  <2>2. \E c \in s : Cardinality(Before(c)) = i - 1
    BY <1>6, <2>1
  <2>3. Ascending(s)[i] = CHOOSE c \in s : Cardinality(Before(c)) = i - 1
    BY <1>7
  <2> HIDE DEF Before
  <2> QED BY <2>2, <2>3
<1> HIDE DEF rank, Before
<1>9. Ascending(s) \in [1 .. N -> Ids]
  BY <1>7, <1>8
<1>10. Ascending(s) \in Seq(Ids) /\ Len(Ascending(s)) = N
  BY <1>9
<1>11. ASSUME NEW c \in s PROVE \E i \in 1 .. N : Ascending(s)[i] = c
  <2>1. rank[c] \in 0 .. (N - 1)
    BY <1>5 DEF Injection
  <2>2. rank[c] + 1 \in 1 .. N
    BY <2>1
  <2>3. Ascending(s)[rank[c] + 1] \in s /\ rank[Ascending(s)[rank[c] + 1]] = rank[c]
    BY <1>8, <2>1, <2>2
  <2>4. \A d \in s : rank[d] = rank[c] => d = c
    <3>1. DOMAIN rank = s
      BY <1>5 DEF Injection
    <3> QED BY <1>5, <3>1 DEF Injection, IsInjective
  <2> QED BY <2>2, <2>3, <2>4
<1>12. ASSUME NEW i \in 1 .. N, NEW j \in 1 .. N, i < j PROVE Ascending(s)[i] < Ascending(s)[j]
  <2>1. PICK c \in s, d \in s : c = Ascending(s)[i] /\ d = Ascending(s)[j]
    BY <1>8
  <2>2. rank[c] = i - 1 /\ rank[d] = j - 1
    BY <1>8, <2>1
  <2>3. c \in Nat /\ d \in Nat
    BY <1>1
  <2>4. ~ (d < c) /\ c # d
    BY <1>4, <1>12, <2>2
  <2> QED BY <2>1, <2>3, <2>4
<1> QED BY <1>8, <1>10, <1>11, <1>12

\* The order in which they are pushed: the one to be returned last at first.
LEMMA PushOrderIs ==
  ASSUME NEW s, s \subseteq Ids, direction \in Directions
  PROVE  /\ PushOrder(Ascending(s)) \in Seq(Ids) /\ Len(PushOrder(Ascending(s))) \in Nat
         /\ \A i \in 1 .. Len(PushOrder(Ascending(s))) : PushOrder(Ascending(s))[i] \in s
         /\ \A c \in s : \E i \in 1 .. Len(PushOrder(Ascending(s))) : PushOrder(Ascending(s))[i] = c
         /\ \A i, j \in 1 .. Len(PushOrder(Ascending(s))) :
               i # j => PushOrder(Ascending(s))[i] # PushOrder(Ascending(s))[j]
         /\ \A i, j \in 1 .. Len(PushOrder(Ascending(s))) :
               First(PushOrder(Ascending(s))[j], PushOrder(Ascending(s))[i])
               /\ PushOrder(Ascending(s))[j] # PushOrder(Ascending(s))[i] => i < j
<1>1. PICK a \in Seq(Ids) : a = Ascending(s)
  BY AscendingIs
<1>2. /\ Len(a) \in Nat /\ \A i \in 1 .. Len(a) : a[i] \in s
      /\ \A c \in s : \E i \in 1 .. Len(a) : a[i] = c
      /\ \A i, j \in 1 .. Len(a) : i < j => a[i] < a[j]
  BY <1>1, AscendingIs
<1>3. \A i \in 1 .. Len(a) : a[i] \in Nat
  <2>1. \A i \in 1 .. Len(a) : a[i] \in Ids
    BY <1>1
  <2> QED BY <2>1, VolumesAssumption
<1>4. CASE direction = "descending"
  <2>1. PushOrder(a) = a
    BY <1>4 DEF PushOrder
  <2>2. \A i, j \in 1 .. Len(a) : i # j => i < j \/ j < i
    BY <1>2
  <2>3. \A i, j \in 1 .. Len(a) : i # j => a[i] # a[j]
    BY <1>2, <1>3, <2>2
  <2>4. \A i, j \in 1 .. Len(a) : First(a[j], a[i]) /\ a[j] # a[i] => i < j
    <3>1. SUFFICES ASSUME NEW i \in 1 .. Len(a), NEW j \in 1 .. Len(a), First(a[j], a[i]), a[j] # a[i] PROVE i < j
      OBVIOUS
    <3>2. ~ (a[j] < a[i]) /\ i # j
      BY <1>4, <3>1 DEF First
    <3> QED BY <1>2, <1>3, <2>2, <3>2
  <2> QED BY <1>1, <1>2, <2>1, <2>3, <2>4
<1>5. CASE direction # "descending"
  <2>0. direction = "ascending"
    BY <1>5, IterAssumption
  <2>1. PICK r \in Seq(Ids) : r = PushOrder(a)
    BY <1>5, ReverseIs DEF PushOrder
  <2>2. Len(r) = Len(a) /\ \A i \in 1 .. Len(a) : r[i] = a[Len(a) - i + 1] /\ Len(a) - i + 1 \in 1 .. Len(a)
    BY <1>2, <1>5, <2>1, ReverseIs DEF PushOrder
  <2>3. \A i \in 1 .. Len(r) : r[i] \in s
    BY <1>2, <2>2
  <2>4. ASSUME NEW c \in s PROVE \E i \in 1 .. Len(r) : r[i] = c
    <3>1. PICK i \in 1 .. Len(a) : a[i] = c
      BY <1>2
    <3>2. Len(a) - i + 1 \in 1 .. Len(a) /\ Len(a) - (Len(a) - i + 1) + 1 = i
      BY <1>2
    <3>3. r[Len(a) - i + 1] = c
      BY <2>2, <3>1, <3>2
    <3> QED BY <2>2, <3>2, <3>3
  <2>5. ASSUME NEW i \in 1 .. Len(r), NEW j \in 1 .. Len(r), i < j PROVE r[j] < r[i]
    <3>1. Len(a) - j + 1 < Len(a) - i + 1 /\ i \in 1 .. Len(a) /\ j \in 1 .. Len(a)
      BY <1>2, <2>2, <2>5
    <3>2. r[i] = a[Len(a) - i + 1] /\ Len(a) - i + 1 \in 1 .. Len(a)
      BY <2>2, <3>1
    <3>3. r[j] = a[Len(a) - j + 1] /\ Len(a) - j + 1 \in 1 .. Len(a)
      BY <2>2, <3>1
    <3>4. a[Len(a) - j + 1] < a[Len(a) - i + 1]
      BY <1>2, <3>1, <3>2, <3>3
    <3> QED BY <3>2, <3>3, <3>4
  <2>6. \A i \in 1 .. Len(r) : r[i] \in Nat
    <3>1. \A i \in 1 .. Len(r) : r[i] \in Ids
      BY <2>1
    <3> QED BY <3>1, VolumesAssumption
  <2>7. \A i, j \in 1 .. Len(r) : i # j => i < j \/ j < i
    BY <1>2, <2>2
  <2>8. \A i, j \in 1 .. Len(r) : i # j => r[i] # r[j]
    BY <2>5, <2>6, <2>7
  <2>9. \A i, j \in 1 .. Len(r) : First(r[j], r[i]) /\ r[j] # r[i] => i < j
    <3>1. SUFFICES ASSUME NEW i \in 1 .. Len(r), NEW j \in 1 .. Len(r), First(r[j], r[i]), r[j] # r[i] PROVE i < j
      OBVIOUS
    <3>2. r[j] < r[i] /\ i # j
      BY <2>0, <3>1 DEF First
    <3> QED BY <2>5, <2>6, <2>7, <3>2
  <2> QED BY <1>1, <1>2, <2>1, <2>2, <2>3, <2>4, <2>8, <2>9
<1> QED BY <1>4, <1>5

-----------------------------------------------------------------------------
(* Every step: the filesystem, the types and the course of the client.     *)

\* The fields of an entry; those of one recoloured, or of one reopened, have their types too.
LEMMA EntryType ==
  ASSUME NEW e \in Entries
  PROVE  /\ e.id \in Ids /\ e.parent \in Ids /\ e.file \in Ids /\ e.path \in Seq(Names)
         /\ e.color \in {"root", "grey", "black", "pre"}
         /\ [e EXCEPT !.color = "black"] \in Entries
         /\ \A f \in Ids : [e EXCEPT !.file = f] \in Entries
  BY DEF Entries

\* The entry the walk starts with.
LEMMA RootVolIs ==
  /\ RootVol \in Entries /\ RootVol.id = Target /\ RootVol.file = Target /\ RootVol.parent = Dir
  /\ RootVol.color = "root" /\ RootVol.path = <<>>
<1>1. Target \in Ids /\ Dir \in Ids
  BY VolumesAssumption
<1>2. <<>> \in Seq(Names)
  OBVIOUS
<1> QED BY <1>1, <1>2 DEF RootVol, Entry, Entries

\* The fields of an entry that is pushed.
LEMMA ChildIs ==
  ASSUME WalkType, NEW c \in Ids, NEW file \in Ids, name \in Names
  PROVE  /\ Child(c, file) \in Entries
         /\ Child(c, file).id = c /\ Child(c, file).file = file /\ Child(c, file).parent = ent.id
         /\ Child(c, file).color = IF order = "post" THEN "grey" ELSE "pre"
         /\ Child(c, file).path = Append(ent.path, name)
<1>1. ent.id \in Ids /\ ent.path \in Seq(Names)
  BY EntryType DEF WalkType
<1>2. Append(ent.path, name) \in Seq(Names)
  BY <1>1
<1> QED BY <1>1, <1>2 DEF Child, Entry, Entries

\* The entry get_rootref calls itself for.
LEMMA RefIs ==
  ASSUME PlacesType, WalkType, NEW c \in DOMAIN vols
  PROVE  /\ Ref(c) \in Entries
         /\ Ref(c).id = c /\ Ref(c).file = c /\ Ref(c).parent = ent.file
         /\ Ref(c).color = "pre" /\ Ref(c).path = Append(ent.path, vols[c].name)
<1>1. ent.file \in Ids /\ ent.path \in Seq(Names)
  BY EntryType DEF WalkType
<1>2. c \in Ids /\ vols[c].name \in Names
  BY DEF PlacesType
<1>3. Append(ent.path, vols[c].name) \in Seq(Names)
  BY <1>1, <1>2
<1> QED BY <1>1, <1>2, <1>3 DEF Ref, Entry, Entries

\* Children, and those of a name, are subvolumes that are there.
LEMMA ChildrenAre ==
  ASSUME PlacesType, NEW v
  PROVE  Children(v) \subseteq DOMAIN vols /\ Children(v) \subseteq Ids /\ \A n : Named(v, n) \subseteq Children(v)
  BY DEF PlacesType, Children, Named

\* At first: the types, the places, the course of the client.
LEMMA InitTypes == Init => TypeInv /\ PlacesOK /\ ClientOK
<1> SUFFICES ASSUME Init PROVE TypeInv /\ PlacesOK /\ ClientOK
  OBVIOUS
<1>1. PlacesType /\ PlacesOK
  BY PlacesInit
<1>2. WalkType
  <2>1. RootVol \in Entries
    BY RootVolIs
  <2>2. stack = <<RootVol>> /\ ent = RootVol /\ refs = <<>> /\ calls = <<>> /\ yielded = <<>> /\ reported = {}
    BY DEF Init, IterInit
  <2>3. stack \in Seq(Entries)
    BY <2>1, <2>2
  <2>4. refs \in Seq(Ids) /\ calls \in Seq(Entries \X Seq(Ids)) /\ yielded \in Seq(Entries) /\ reported \subseteq Seq(Names)
    BY <2>2
  <2>5. /\ order \in Orders /\ direction \in Directions /\ outside \in Outsides /\ client \in Clients /\ cwd \in Cwds
        /\ name = "none" /\ pc = "pop" /\ erred = FALSE /\ step = "start" /\ parent = {} /\ result = "none"
    BY DEF Init, IterInit
  <2> QED BY <2>1, <2>2, <2>3, <2>4, <2>5 DEF WalkType
<1>3. ClientOK
  BY DEF Init, IterInit, ClientOK, DestroyOrder
<1> QED BY <1>1, <1>2, <1>3 DEF TypeInv

\* A subvolume without children that is destroyed leaves the others where they are.
LEMMA SnapDestroyShifts ==
  ASSUME PlacesType, TreeOK, step # "done", NEW dir, NEW n, SnapDestroy(dir, n),
         dir = Dir => step' = "done"
  PROVE  Shifts /\ (Apart => Shifted) /\ changes' = changes
<1>1. PICK v \in Named(dir, n) : Children(v) = {} /\ vols' = Without(v)
  BY DEF SnapDestroy
<1>2. UNCHANGED <<used, disturbed, changes>> /\ changes \in Nat
  BY DEF SnapDestroy, PlacesType
<1>3. v \in DOMAIN vols /\ vols[v].parent = dir
  BY <1>1 DEF Named, Children
<1>4. changes' = 0 /\ v = Target => step' = "done"
  BY <1>2, <1>3 DEF TreeOK
<1> QED BY <1>1, <1>2, <1>3, <1>4, Removal

\* Only others and destroy change the filesystem.
LEMMA NextShifts ==
  ASSUME TypeInv, TreeOK, ClientOK, Next
  PROVE  /\ Shifts
         /\ Apart => Shifted \/ (Other /\ Stable' = {} /\ changes' > 0)
         /\ Begin \/ Walk \/ Take \/ WalkFailed \/ OpenParent => UNCHANGED <<vols, used, disturbed>>
<1>0. PlacesType /\ WalkType /\ changes \in Nat
  BY DEF TypeInv, PlacesType
<1>1. ASSUME Begin \/ Walk \/ Take \/ WalkFailed \/ OpenParent
      PROVE  Shifts /\ (Apart => Shifted) /\ UNCHANGED <<vols, used, disturbed>>
  <2>1. CASE Begin
    <3>1. (Works \/ Fails) /\ step # "done"
      BY <2>1 DEF Begin
    <3> QED BY <1>0, <3>1, StandStill
  <2>2. CASE Walk
    <3>1. (Works \/ Fails) /\ step # "done"
      BY <2>2 DEF Walk, get_rootref, OpenPath, ListRefs, LookupRef, ReturnOk, IterStep, List, Lookup, Open
    <3> QED BY <1>0, <3>1, StandStill
  <2>3. CASE Take
    <3>1. Works /\ step # "done"
      BY <2>3 DEF Take, Works
    <3> QED BY <1>0, <3>1, StandStill
  <2>4. CASE WalkFailed
    <3>1. Works /\ step # "done"
      BY <2>4 DEF WalkFailed, Works
    <3> QED BY <1>0, <3>1, StandStill
  <2>5. CASE OpenParent
    <3>1. (Works \/ Fails) /\ step # "done"
      BY <2>5 DEF OpenParent
    <3> QED BY <1>0, <3>1, StandStill
  <2> QED BY <1>1, <2>1, <2>2, <2>3, <2>4, <2>5
<1>2. ASSUME DestroyItem PROVE Shifts /\ (Apart => Shifted)
  <2>0. step # "done" /\ step' # "done" /\ Dir \notin parent
    BY <1>2 DEF DestroyItem, ClientOK
  <2>1. \/ \E dir \in parent : SnapDestroy(dir, Last(ItemPath))
        \/ Works \/ \E dir \in parent : SnapDestroyFails(dir, Last(ItemPath))
    BY <1>2 DEF DestroyItem
  <2>2. CASE \E dir \in parent : SnapDestroy(dir, Last(ItemPath))
    <3>1. PICK dir \in parent : SnapDestroy(dir, Last(ItemPath))
      BY <2>2
    <3> QED BY <1>0, <2>0, <3>1, SnapDestroyShifts
  <2>3. CASE Works \/ \E dir \in parent : SnapDestroyFails(dir, Last(ItemPath))
    <3>1. Works \/ Fails
      BY <2>3 DEF SnapDestroyFails
    <3> QED BY <1>0, <2>0, <3>1, StandStill
  <2> QED BY <2>1, <2>2, <2>3
<1>3. ASSUME DestroyTarget PROVE Shifts /\ (Apart => Shifted)
  <2>0. step # "done" /\ step' = "done"
    BY <1>3 DEF DestroyTarget
  <2>1. CASE SnapDestroy(Dir, TargetName)
    BY <1>0, <2>0, <2>1, SnapDestroyShifts
  <2>2. CASE SnapDestroyFails(Dir, TargetName)
    <3>1. Works \/ Fails
      BY <2>2 DEF SnapDestroyFails
    <3> QED BY <1>0, <2>0, <3>1, StandStill
  <2> QED BY <1>3, <2>1, <2>2 DEF DestroyTarget
<1>4. ASSUME Other
      PROVE  Shifts /\ (Apart => Shifted \/ (Stable' = {} /\ changes' > 0))
  <2>1. step' = step /\ step # "done" /\ OtherProcess
    BY <1>4 DEF Other, destroyVars, Finished
  <2>2. Shifts /\ changes' > 0
    BY <1>0, <2>1, OthersShift
  <2>3. Apart => Apart' \/ Stable' = {}
    BY <1>0, <2>1, <2>2, OthersApart DEF Shifts
  <2> QED BY <2>2, <2>3 DEF Shifted
<1> QED BY <1>1, <1>2, <1>3, <1>4 DEF Next, Destroyer

\* The last name of a path, and those before it.
LEMMA PathSplit ==
  ASSUME NEW path \in Seq(Names), path # <<>>
  PROVE  \E q \in Seq(Names), n \in Names : path = Append(q, n)
<1>1. Len(path) \in Nat \ {0} /\ Front(path) \in Seq(Names) /\ Last(path) \in Names
  BY FrontIs
<1>2. path = Append(Front(path), Last(path))
  <2>1. PICK q \in Seq(Names), n \in Names : q = Front(path) /\ n = Last(path)
    BY <1>1
  <2>2. /\ Len(path) \in Nat \ {0} /\ n = path[Len(path)] /\ Len(q) = Len(path) - 1
        /\ \A i \in 1 .. (Len(path) - 1) : q[i] = path[i]
    BY <2>1, FrontIs
  <2>3. path = Append(q, n)
    BY <2>2
  <2> QED BY <2>1, <2>3
<1> QED BY <1>1, <1>2

\* What is before the last name of a path, and the last name.
LEMMA AppendSplit ==
  ASSUME NEW q \in Seq(Names), NEW n \in Names
  PROVE  Front(Append(q, n)) = q /\ Last(Append(q, n)) = n
<1>1. PICK path \in Seq(Names) : path = Append(q, n)
  <2>1. Append(q, n) \in Seq(Names)
    OBVIOUS
  <2> QED BY <2>1
<1>2. path # <<>> /\ Len(path) = Len(q) + 1 /\ path[Len(path)] = n /\ \A i \in 1 .. Len(q) : path[i] = q[i]
  BY <1>1
<1>3. PICK f \in Seq(Names) : f = Front(path)
  BY <1>2, FrontIs
<1>4. /\ Last(path) = path[Len(path)] /\ Len(f) = Len(path) - 1
      /\ \A i \in 1 .. (Len(path) - 1) : f[i] = path[i]
  BY <1>2, <1>3, FrontIs
<1>5. Len(q) \in Nat /\ Len(f) = Len(q) /\ \A i \in 1 .. Len(q) : f[i] = q[i]
  BY <1>2, <1>4
<1>6. f = q
  BY <1>5
<1> QED BY <1>1, <1>2, <1>3, <1>4, <1>6

\* The paths destroy_all makes of an item.
LEMMA ItemPathIs ==
  ASSUME WalkType, PathsOK, client # "get_rootref", yielded # <<>>
  PROVE  /\ Last(yielded) \in Entries /\ Last(yielded) = yielded[Len(yielded)] /\ Len(yielded) \in Nat \ {0}
         /\ ItemPath \in Seq(Names)
         /\ \E q \in Seq(Names), n \in Names :
              /\ Last(yielded).path = Append(q, n)
              /\ Front(ItemPath) = <<TargetName>> \o q /\ Front(ItemPath) \in Seq(Names)
              /\ Front(ItemPath) # <<>> /\ Last(ItemPath) = n
<1>1. yielded \in Seq(Entries)
  BY DEF WalkType
<1>2. Len(yielded) \in Nat \ {0} /\ Last(yielded) = yielded[Len(yielded)] /\ Last(yielded) \in Entries
  BY <1>1, FrontIs
<1>3. PICK e \in Entries : e = Last(yielded)
  BY <1>2
<1>4. e.path \in Seq(Names)
  BY EntryType
<1>5. e.path # <<>>
  BY <1>2, <1>3 DEF PathsOK
<1>6. PICK q \in Seq(Names), n \in Names : e.path = Append(q, n)
  BY <1>4, <1>5, PathSplit
<1>7. PICK first \in Seq(Names) : first = <<TargetName>> /\ Len(first) = 1
  <2>1. <<TargetName>> \in Seq(Names)
    BY VolumesAssumption
  <2> QED BY <2>1
<1>8. PICK r \in Seq(Names) : r = first \o q
  <2>1. first \o q \in Seq(Names)
    OBVIOUS
  <2> QED BY <2>1
<1>9. r # <<>>
  BY <1>7, <1>8
<1>10. first \o Append(q, n) = Append(r, n)
  BY <1>8
<1>11. ItemPath = Append(r, n)
  BY <1>3, <1>6, <1>7, <1>10 DEF ItemPath
<1>12. Front(ItemPath) = r /\ Last(ItemPath) = n
  BY <1>11, AppendSplit
<1>13. ItemPath \in Seq(Names)
  BY <1>11
<1> QED BY <1>2, <1>3, <1>6, <1>7, <1>8, <1>9, <1>12, <1>13

\* Behind a path is something that is there.
LEMMA PlaceIsThere ==
  ASSUME NEW t, NEW v, NEW path \in Seq(Names), path # <<>>
  PROVE  Place(t, v, path) \subseteq DOMAIN t
<1>1. PICK q \in Seq(Names), n \in Names : path = Append(q, n)
  BY PathSplit
<1>2. Place(t, v, Append(q, n)) = OneStep(t, Place(t, v, q), n)
  BY PlaceOf
<1> QED BY <1>1, <1>2 DEF OneStep

\* Every step keeps the types of the walk.
LEMMA WalkTypeStep ==
  ASSUME TypeInv, TreeOK, ClientOK, PathsOK, Next
  PROVE  WalkType'
<1>0. PlacesType /\ WalkType
  BY DEF TypeInv
<1> USE <1>0
<1>1. /\ stack \in Seq(Entries) /\ yielded \in Seq(Entries) /\ ent \in Entries /\ refs \in Seq(Ids)
      /\ calls \in Seq(Entries \X Seq(Ids))
  BY DEF WalkType
<1>2. \A v : Children(v) \subseteq Ids /\ \A n : Named(v, n) \subseteq Ids
  BY ChildrenAre
<1>3. <<>> \in Seq(Ids)
  OBVIOUS
<1>4. CASE Begin
  <2>1. UNCHANGED <<walkVars, client, cwd, parent, reported>>
    BY <1>4 DEF Begin
  <2>2. /\ step = "start" /\ step' \in {"iter", "done"}
        /\ IF step' = "iter" THEN result' = result ELSE result' = "error"
    <3>1. step = "start"
      BY <1>4 DEF Begin
    <3>2. (step' = "iter" /\ result' = result) \/ (step' = "done" /\ result' = "error")
      BY <1>4 DEF Begin
    <3> QED BY <3>1, <3>2
  <2> QED BY <2>1, <2>2 DEF WalkType, walkVars, iterVars
<1>5. CASE Walk /\ client # "get_rootref"
  <2>1. IterStep /\ UNCHANGED <<calls, client, cwd, step, parent, reported, result>>
    BY <1>5 DEF Walk, destroyVars
  <2>2. UNCHANGED <<order, direction, outside>>
    BY <2>1 DEF IterStep, Pop, Exhausted, Expanded, List, Lookup, Open
  <2>3. /\ stack' \in Seq(Entries) /\ yielded' \in Seq(Entries) /\ ent' \in Entries /\ refs' \in Seq(Ids)
        /\ name' \in Names \cup {"none"}
        /\ pc' \in {"pop", "list", "lookup", "open", "item", "error", "none"} /\ erred' \in BOOLEAN
    <3>1. CASE Pop
      <4>1. Front(stack) \in Seq(Entries) /\ Last(stack) \in Entries
        BY <1>1, <3>1, FrontIs DEF Pop
      <4>2. Append(yielded, Last(stack)) \in Seq(Entries)
        BY <1>1, <4>1
      <4>3. Append(Front(stack), [Last(stack) EXCEPT !.color = "black"]) \in Seq(Entries)
        <5>1. [Last(stack) EXCEPT !.color = "black"] \in Entries
          BY <4>1, EntryType
        <5> QED BY <4>1, <5>1
      <4> QED BY <1>1, <3>1, <4>1, <4>2, <4>3 DEF Pop, Yield, Repushed, WalkType
    <3>2. CASE Exhausted
      BY <1>1, <3>2 DEF Exhausted, WalkType
    <3>3. CASE Expanded
      <4>1. Append(yielded, ent) \in Seq(Entries)
        BY <1>1
      <4> QED BY <1>1, <3>3, <4>1 DEF Expanded, Yield, WalkType
    <3>4. CASE List
      <4>1. PushOrder(Ascending(Children(ent.file))) \in Seq(Ids)
        BY <1>2, PushOrderIs DEF WalkType
      <4> QED BY <1>1, <1>3, <3>4, <4>1 DEF List, Err, WalkType
    <3>5. CASE Lookup
      <4>1. Tail(refs) \in Seq(Ids) /\ Head(refs) \in Ids
        BY <1>1, <3>5, TailIs DEF Lookup
      <4>2. LookupUser(Head(refs)) = "found" => vols[Head(refs)].name \in Names
        <5>1. LookupUser(Head(refs)) = "found" => Head(refs) \in DOMAIN vols
          BY DEF LookupUser, Children
        <5> QED BY <5>1 DEF PlacesType
      <4>3. PICK res \in {LookupUser(Head(refs)), "EIO"} :
              \/ /\ res = "found"
                 /\ name' = vols[Head(refs)].name
                 /\ pc' = "open"
                 /\ UNCHANGED <<refs, erred>>
              \/ /\ Ignored(res)
                 /\ refs' = Tail(refs)
                 /\ UNCHANGED <<name, pc, erred>>
              \/ /\ res # "found" /\ ~ Ignored(res)
                 /\ Err
                 /\ UNCHANGED name
        BY <3>5 DEF Lookup
      <4>4. UNCHANGED <<stack, ent, yielded>>
        BY <3>5 DEF Lookup
      <4> QED BY <1>1, <1>3, <4>1, <4>2, <4>3, <4>4 DEF Err, WalkType
    <3>6. CASE Open
      <4>1. refs # <<>> /\ name \in Names
        BY <1>5, <3>6 DEF Open, PathsOK
      <4>2. Tail(refs) \in Seq(Ids) /\ Head(refs) \in Ids
        BY <1>1, <4>1, TailIs
      <4>3. \A file \in Named(ent.file, name) : Append(stack, Child(Head(refs), file)) \in Seq(Entries)
        <5>1. \A file \in Ids : Child(Head(refs), file) \in Entries
          BY <4>1, <4>2, ChildIs
        <5>2. \A e \in Entries : Append(stack, e) \in Seq(Entries)
          BY <1>1
        <5> QED BY <1>2, <5>1, <5>2
      <4>4. name' = "none" /\ UNCHANGED <<ent, yielded>>
        BY <3>6 DEF Open
      <4>5. CASE \E file \in Named(ent.file, name) :
                    /\ stack' = Append(stack, Child(Head(refs), file))
                    /\ refs' = Tail(refs) /\ pc' = "lookup" /\ UNCHANGED erred
        BY <1>1, <4>2, <4>3, <4>4, <4>5 DEF WalkType
      <4>6. CASE Err /\ UNCHANGED stack
        BY <1>1, <1>3, <4>4, <4>6 DEF Err
      <4> QED BY <3>6, <4>5, <4>6 DEF Open
    <3> QED BY <2>1, <3>1, <3>2, <3>3, <3>4, <3>5, <3>6 DEF IterStep
  <2> QED BY <2>1, <2>2, <2>3 DEF WalkType
<1>6. CASE Walk /\ client = "get_rootref"
  <2>1. get_rootref /\ UNCHANGED <<client, cwd, step, parent, reported, result>>
    BY <1>6 DEF Walk, destroyVars
  <2>2. UNCHANGED <<order, direction, outside, stack, name>>
    BY <2>1 DEF get_rootref, OpenPath, ListRefs, LookupRef, ReturnOk
  <2>3. /\ yielded' \in Seq(Entries) /\ ent' \in Entries /\ refs' \in Seq(Ids)
        /\ calls' \in Seq(Entries \X Seq(Ids))
        /\ pc' \in {"pop", "list", "lookup", "open", "item", "error", "none"} /\ erred' \in BOOLEAN
    <3>1. CASE OpenPath
      <4>1. Resolve(Target, ent.path) \subseteq Ids
        <5>1. Resolve(Target, ent.path) \subseteq Below(vols, Target)
          <6>1. GoodBase(vols, Moved)
            BY TreeIsGood
          <6>2. ent.path \in Seq(Names) /\ Target \in Ids
            BY <1>1, EntryType, VolumesAssumption
          <6>3. Place(vols, Target, ent.path) \subseteq Below(vols, Target)
            BY <6>1, <6>2, PlaceIsOne
          <6>4. \A path : Resolve(Target, path) = Place(vols, Target, path)
            BY DEF Resolve, Place, Steps, Named, Children, ChildrenOf
          <6> QED BY <6>3, <6>4
        <5>2. Below(vols, Target) \subseteq Ids
          <6>1. DOMAIN vols \subseteq Ids /\ Target \in Ids
            BY VolumesAssumption DEF PlacesType
          <6> QED BY <6>1, BelowIsLeast
        <5> QED BY <5>1, <5>2
      <4>2. \A f \in Ids : [ent EXCEPT !.file = f] \in Entries
        BY <1>1, EntryType
      <4> QED BY <1>1, <3>1, <4>1, <4>2 DEF OpenPath, Abort, WalkType
    <3>2. CASE ListRefs
      <4>1. Ascending(Children(ent.file)) \in Seq(Ids)
        BY <1>2, AscendingIs
      <4> QED BY <1>1, <3>2, <4>1 DEF ListRefs, Abort, WalkType
    <3>3. CASE LookupRef
      <4>1. Tail(refs) \in Seq(Ids) /\ refs # <<>>
        BY <1>1, <3>3, TailIs DEF LookupRef
      <4>2. LookupUser(Head(refs)) = "found" => Head(refs) \in DOMAIN vols
        BY DEF LookupUser, Children
      <4>3. LookupUser(Head(refs)) = "found" => Ref(Head(refs)) \in Entries
        BY <4>2, RefIs
      <4>4. \A e \in Entries : Append(yielded, e) \in Seq(Entries)
        BY <1>1
      <4>5. Append(calls, <<ent, Tail(refs)>>) \in Seq(Entries \X Seq(Ids))
        <5>1. <<ent, Tail(refs)>> \in Entries \X Seq(Ids)
          BY <1>1, <4>1
        <5> QED BY <1>1, <5>1
      <4> QED BY <1>1, <1>3, <3>3, <4>3, <4>4, <4>5 DEF LookupRef, Abort, WalkType
    <3>4. CASE ReturnOk
      <4>1. calls # <<>> => /\ Last(calls) \in Entries \X Seq(Ids)
                            /\ Front(calls) \in Seq(Entries \X Seq(Ids))
        BY <1>1, FrontIs
      <4>2. CASE calls = <<>>
        BY <1>1, <3>4, <4>2 DEF ReturnOk, WalkType
      <4>3. CASE calls # <<>>
        <5>1. ent' = Last(calls)[1] /\ refs' = Last(calls)[2] /\ calls' = Front(calls) /\ pc' = "lookup"
          BY <3>4, <4>3 DEF ReturnOk
        <5>2. Last(calls)[1] \in Entries /\ Last(calls)[2] \in Seq(Ids)
          BY <4>1, <4>3
        <5> QED BY <1>1, <3>4, <4>1, <4>3, <5>1, <5>2 DEF ReturnOk, WalkType
      <4> QED BY <4>2, <4>3
    <3> QED BY <2>1, <3>1, <3>2, <3>3, <3>4 DEF get_rootref
  <2> QED BY <2>1, <2>2, <2>3 DEF WalkType
<1>7. CASE Take
  BY <1>7 DEF Take, next, destroyVars, WalkType
<1>8. CASE WalkFailed
  BY <1>8 DEF WalkFailed, next, destroyVars, WalkType
<1>9. CASE OpenParent
  <2>1. UNCHANGED <<walkVars, client, cwd, reported, result>> /\ step' = "destroy" /\ step = "iter"
    BY <1>9 DEF OpenParent
  <2>2. parent' \subseteq Ids
    <3>1. client # "get_rootref" /\ pc = "item" /\ yielded # <<>>
      BY <1>9 DEF OpenParent, ClientOK
    <3>2. Front(ItemPath) \in Seq(Names) /\ Front(ItemPath) # <<>>
      BY <3>1, ItemPathIs
    <3>3. Resolve(cwd, Front(ItemPath)) \subseteq DOMAIN vols
      <4>1. Resolve(cwd, Front(ItemPath)) = Place(vols, cwd, Front(ItemPath))
        BY DEF Resolve, Place, Steps, Named, Children, ChildrenOf
      <4> QED BY <3>2, <4>1, PlaceIsThere
    <3>4. DOMAIN vols \subseteq Ids
      BY DEF PlacesType
    <3> QED BY <1>9, <3>3, <3>4 DEF OpenParent
  <2> QED BY <2>1, <2>2 DEF WalkType, walkVars, iterVars
<1>10. CASE DestroyItem
  <2>1. /\ UNCHANGED <<order, direction, outside, stack, ent, refs, name, yielded, erred>> /\ pc' = "pop"
        /\ step' = "iter" /\ step = "destroy" /\ parent' = {} /\ UNCHANGED <<calls, client, cwd, result>>
    BY <1>10 DEF DestroyItem, next
  <2>2. reported' \subseteq Seq(Names)
    <3>1. ItemPath \in Seq(Names)
      BY <2>1, ItemPathIs DEF ClientOK
    <3> QED BY <1>10, <3>1 DEF DestroyItem, WalkType
  <2> QED BY <2>1, <2>2 DEF WalkType
<1>11. CASE DestroyTarget
  <2>1. UNCHANGED <<walkVars, client, cwd, parent, reported>> /\ step' = "done" /\ result' \in {"ok", "error"}
    BY <1>11 DEF DestroyTarget
  <2> QED BY <2>1 DEF WalkType, walkVars, iterVars
<1>12. CASE Other
  BY <1>12 DEF Other, walkVars, iterVars, destroyVars, WalkType
<1> QED BY <1>4, <1>5, <1>6, <1>7, <1>8, <1>9, <1>10, <1>11, <1>12 DEF Next, Destroyer

\* The course of the client.
LEMMA ClientStep ==
  ASSUME TypeInv, TreeOK, ClientOK, PathsOK, Next, changes' >= changes, changes' \in Nat
  PROVE  ClientOK'
<1>0. PlacesType /\ WalkType /\ changes \in Nat
  BY DEF TypeInv, PlacesType
<1> USE <1>0
<1>1. CASE Begin
  <2>1. step = "start" /\ UNCHANGED <<walkVars, client, cwd, parent, reported>>
    BY <1>1 DEF Begin
  <2>2. \/ step' = "iter" /\ (client = "destroy_all" => outside = {})
        \/ step' = "done" /\ result' = "error" /\ (changes' > 0 \/ outside # {})
    BY <1>1 DEF Begin, Fails, Change
  <2> QED BY <2>1, <2>2 DEF ClientOK, walkVars, iterVars
<1>2. CASE Walk /\ client # "get_rootref"
  <2>1. IterStep /\ UNCHANGED <<client, step, parent, result>> /\ step = "iter"
    BY <1>2 DEF Walk, destroyVars
  <2>2. UNCHANGED <<order, direction, outside>>
    BY <2>1 DEF IterStep, Pop, Exhausted, Expanded, List, Lookup, Open
  <2>3. pc' = "item" => yielded' # <<>>
    <3>1. yielded \in Seq(Entries) /\ stack \in Seq(Entries) /\ ent \in Entries
      BY DEF WalkType
    <3>2. \A e \in Entries : Append(yielded, e) # <<>>
      BY <3>1
    <3>3. stack # <<>> => Last(stack) \in Entries
      BY <3>1, FrontIs
    <3> QED BY <2>1, <3>1, <3>2, <3>3 DEF IterStep, Pop, Exhausted, Expanded, List, Lookup, Open, Yield, Err
  <2> QED BY <2>1, <2>2, <2>3 DEF ClientOK
<1>3. CASE Walk /\ client = "get_rootref"
  <2>1. get_rootref /\ UNCHANGED <<client, step, parent, result>> /\ step = "iter"
    BY <1>3 DEF Walk, destroyVars
  <2>2. UNCHANGED <<order, direction, outside>>
    BY <2>1 DEF get_rootref, OpenPath, ListRefs, LookupRef, ReturnOk
  <2>3. pc' # "item"
    BY <2>1 DEF get_rootref, OpenPath, ListRefs, LookupRef, ReturnOk, Abort
  <2> QED BY <1>3, <2>1, <2>2, <2>3 DEF ClientOK
<1>4. CASE Take \/ WalkFailed
  BY <1>4 DEF Take, WalkFailed, next, destroyVars, ClientOK
<1>5. CASE OpenParent
  <2>1. UNCHANGED <<walkVars, client, result>> /\ step' = "destroy" /\ step = "iter"
        /\ client = "destroy_all" /\ pc = "item"
    BY <1>5 DEF OpenParent
  <2>2. Dir \notin parent'
    <3>1. yielded # <<>>
      BY <2>1 DEF ClientOK
    <3>2. Front(ItemPath) \in Seq(Names) /\ Front(ItemPath) # <<>>
      BY <2>1, <3>1, ItemPathIs
    <3>3. Resolve(cwd, Front(ItemPath)) \subseteq DOMAIN vols
      <4>1. Resolve(cwd, Front(ItemPath)) = Place(vols, cwd, Front(ItemPath))
        BY DEF Resolve, Place, Steps, Named, Children, ChildrenOf
      <4> QED BY <3>2, <4>1, PlaceIsThere
    <3> QED BY <1>5, <3>3 DEF OpenParent, TreeOK
  <2> QED BY <2>1, <2>2 DEF ClientOK, walkVars, iterVars
<1>6. CASE DestroyItem
  BY <1>6 DEF DestroyItem, next, ClientOK
<1>7. CASE DestroyTarget
  BY <1>7 DEF DestroyTarget, walkVars, iterVars, ClientOK
<1>8. CASE Other
  BY <1>8 DEF Other, walkVars, iterVars, destroyVars, ClientOK
<1> QED BY <1>1, <1>2, <1>3, <1>4, <1>5, <1>6, <1>7, <1>8 DEF Next, Destroyer

\* With a path the parent of an item is found, and one behind no path is not asked for.
LEMMA PathsStep ==
  ASSUME TypeInv, PathsOK, ClientOK, Next
  PROVE  PathsOK'
<1>0. WalkType /\ stack \in Seq(Entries) /\ yielded \in Seq(Entries) /\ ent \in Entries /\ client' = client
  BY DEF TypeInv, WalkType, Next, Begin, Walk, Take, Destroyer, WalkFailed, OpenParent, DestroyItem, DestroyTarget,
         Other, destroyVars
<1>1. SUFFICES ASSUME client # "get_rootref" PROVE PathsOK'
  BY <1>0 DEF PathsOK
<1> DEFINE Good(e) == e.color # "root" => e.path # <<>>
<1>2. /\ \A k \in 1 .. Len(stack) : Good(stack[k])
      /\ Good(ent)
      /\ \A i \in 1 .. Len(yielded) : yielded[i].path # <<>>
      /\ pc = "open" => refs # <<>> /\ name \in Names
  BY <1>1 DEF PathsOK
<1>3. SUFFICES /\ \A k \in 1 .. Len(stack') : Good(stack'[k])
               /\ Good(ent')
               /\ \A i \in 1 .. Len(yielded') : yielded'[i].path # <<>>
               /\ pc' = "open" => refs' # <<>> /\ name' \in Names
  BY DEF PathsOK
<1>4. CASE UNCHANGED <<stack, ent, yielded>> /\ (pc' = "open" => pc = "open" /\ UNCHANGED <<refs, name>>)
  BY <1>2, <1>4
<1>5. CASE Begin \/ Take \/ Destroyer \/ Other
  <2>1. UNCHANGED <<stack, ent, yielded>> /\ (pc' = "open" => pc = "open" /\ UNCHANGED <<refs, name>>)
    BY <1>5 DEF Begin, Take, Destroyer, WalkFailed, OpenParent, DestroyItem, DestroyTarget, Other, next, walkVars, iterVars
  <2> QED BY <1>4, <2>1
<1>6. CASE Walk
  <2>1. IterStep
    BY <1>1, <1>6 DEF Walk
  <2>2. CASE Pop
    <3>1. stack # <<>> /\ UNCHANGED <<refs, name>> /\ pc' # "open"
      BY <2>2 DEF Pop, Yield
    <3>2. PICK e, rest : e = Last(stack) /\ rest = Front(stack)
      OBVIOUS
    <3>3. /\ e \in Entries /\ rest \in Seq(Entries) /\ Len(stack) \in Nat \ {0} /\ e = stack[Len(stack)]
          /\ Len(rest) = Len(stack) - 1 /\ \A i \in 1 .. Len(rest) : rest[i] = stack[i]
      BY <1>0, <3>1, <3>2, FrontIs
    <3>4. Good(e) /\ \A k \in 1 .. Len(rest) : Good(rest[k])
      <4>1. Len(stack) \in 1 .. Len(stack) /\ \A k \in 1 .. Len(rest) : k \in 1 .. Len(stack)
        BY <3>3
      <4> QED BY <1>2, <3>3, <4>1
    <3> HIDE DEF Good
    <3>5. CASE e.color = "black"
      <4>1. stack' = rest /\ yielded' = Append(yielded, e) /\ ent' = ent
        BY <2>2, <3>2, <3>5 DEF Pop, Yield
      <4>2. e.path # <<>>
        BY <3>4, <3>5 DEF Good
      <4>3. \A i \in 1 .. Len(yielded') : yielded'[i].path # <<>>
        <5>1. Len(yielded') = Len(yielded) + 1 /\ Len(yielded) \in Nat
          BY <1>0, <3>3, <4>1, AppendIs
        <5>2. yielded'[Len(yielded) + 1] = e /\ \A i \in 1 .. Len(yielded) : yielded'[i] = yielded[i]
          BY <1>0, <3>3, <4>1, AppendIs
        <5> HIDE <4>1
        <5>3. \A i \in 1 .. Len(yielded') : i \in 1 .. Len(yielded) \/ i = Len(yielded) + 1
          BY <5>1
        <5> QED BY <1>2, <4>2, <5>2, <5>3
      <4> QED BY <1>2, <3>1, <3>4, <4>1, <4>3
    <3>6. CASE e.color # "black"
      <4>1. /\ stack' = IF e.color = "grey" THEN Repushed(rest, e) ELSE rest
            /\ ent' = e /\ yielded' = yielded
        BY <2>2, <3>2, <3>6 DEF Pop
      <4>2. CASE e.color # "grey"
        BY <1>2, <3>1, <3>4, <4>1, <4>2
      <4>3. CASE e.color = "grey"
        <5>1. PICK b \in Entries : b = [e EXCEPT !.color = "black"]
          BY <3>3, EntryType
        <5>2. Good(b)
          <6>1. b.path = e.path /\ e.path # <<>>
            BY <3>3, <3>4, <4>3, <5>1 DEF Good, Entries
          <6> QED BY <6>1 DEF Good
        <5>3. stack' = Append(rest, b)
          BY <4>1, <4>3, <5>1 DEF Repushed
        <5>4. /\ Len(stack') = Len(rest) + 1 /\ Len(rest) \in Nat /\ stack'[Len(rest) + 1] = b
              /\ \A i \in 1 .. Len(rest) : stack'[i] = rest[i]
          BY <3>3, <5>1, <5>3, AppendIs
        <5>5. \A i \in 1 .. Len(stack') : i \in 1 .. Len(rest) \/ i = Len(rest) + 1
          BY <5>4
        <5>6. \A k \in 1 .. Len(stack') : Good(stack'[k])
          BY <3>4, <5>2, <5>4, <5>5
        <5> QED BY <1>2, <3>1, <3>4, <4>1, <5>6
      <4> QED BY <4>2, <4>3
    <3> QED BY <3>5, <3>6
  <2>3. CASE Exhausted \/ List
    <3>1. UNCHANGED <<stack, ent, yielded>> /\ pc' # "open"
      BY <2>3 DEF Exhausted, List, Err
    <3> QED BY <1>4, <3>1
  <2>4. CASE Expanded
    <3>1. UNCHANGED <<stack, ent>> /\ pc' # "open"
      BY <2>4 DEF Expanded, Yield
    <3>2. CASE ent.color # "pre"
      <4>1. yielded' = yielded
        BY <2>4, <3>2 DEF Expanded
      <4> QED BY <1>4, <3>1, <4>1
    <3>3. CASE ent.color = "pre"
      <4>1. yielded' = Append(yielded, ent)
        BY <2>4, <3>3 DEF Expanded, Yield
      <4>2. ent.path # <<>>
        BY <1>2, <3>3
      <4>3. /\ Len(yielded') = Len(yielded) + 1 /\ Len(yielded) \in Nat /\ yielded'[Len(yielded) + 1] = ent
            /\ \A i \in 1 .. Len(yielded) : yielded'[i] = yielded[i]
        BY <1>0, <4>1, AppendIs
      <4>4. \A i \in 1 .. Len(yielded') : i \in 1 .. Len(yielded) \/ i = Len(yielded) + 1
        BY <4>3
      <4>5. \A i \in 1 .. Len(yielded') : yielded'[i].path # <<>>
        BY <1>2, <4>2, <4>3, <4>4
      <4> QED BY <1>2, <3>1, <4>5
    <3> QED BY <3>2, <3>3
  <2>5. CASE Lookup
    <3>1. UNCHANGED <<stack, ent, yielded>> /\ refs # <<>> /\ pc = "lookup"
      BY <2>5 DEF Lookup
    <3>2. pc' = "open" => UNCHANGED refs /\ name' = vols[Head(refs)].name /\ LookupUser(Head(refs)) = "found"
      BY <2>5, <3>1 DEF Lookup, Err
    <3>3. LookupUser(Head(refs)) = "found" => vols[Head(refs)].name \in Names
      <4>1. LookupUser(Head(refs)) = "found" => Head(refs) \in DOMAIN vols
        BY DEF LookupUser, Children
      <4> QED BY <4>1 DEF PlacesType, TypeInv
    <3> QED BY <1>2, <3>1, <3>2, <3>3
  <2>6. CASE Open
    <3>1. pc = "open" /\ UNCHANGED <<ent, yielded>> /\ pc' # "open"
      BY <2>6 DEF Open, Err
    <3>2. CASE UNCHANGED stack
      BY <1>4, <3>1, <3>2
    <3>3. CASE \E file \in Named(ent.file, name) : stack' = Append(stack, Child(Head(refs), file))
      <4>1. PICK file \in Named(ent.file, name) : stack' = Append(stack, Child(Head(refs), file))
        BY <3>3
      <4>2. refs # <<>> /\ name \in Names /\ Head(refs) \in Ids /\ file \in Ids
        <5>1. refs # <<>> /\ name \in Names /\ refs \in Seq(Ids)
          BY <1>2, <3>1 DEF WalkType, TypeInv
        <5>2. file \in Ids
          BY ChildrenAre DEF TypeInv
        <5> QED BY <5>1, <5>2, TailIs
      <4>3. PICK b \in Entries : b = Child(Head(refs), file) /\ b.path = Append(ent.path, name)
        BY <1>0, <4>2, ChildIs
      <4>4. Good(b)
        <5>1. ent.path \in Seq(Names)
          BY <1>0, EntryType
        <5>2. Append(ent.path, name) # <<>>
          BY <4>2, <5>1
        <5> QED BY <4>3, <5>2
      <4> HIDE DEF Good
      <4>5. /\ Len(stack') = Len(stack) + 1 /\ Len(stack) \in Nat /\ stack'[Len(stack) + 1] = b
            /\ \A i \in 1 .. Len(stack) : stack'[i] = stack[i]
        BY <1>0, <4>1, <4>3, AppendIs
      <4>6. \A i \in 1 .. Len(stack') : i \in 1 .. Len(stack) \/ i = Len(stack) + 1
        BY <4>5
      <4>7. \A k \in 1 .. Len(stack') : Good(stack'[k])
        BY <1>2, <4>4, <4>5, <4>6
      <4> QED BY <1>2, <3>1, <4>7
    <3> QED BY <2>6, <3>2, <3>3 DEF Open
  <2> QED BY <2>1, <2>2, <2>3, <2>4, <2>5, <2>6 DEF IterStep
<1> QED BY <1>5, <1>6 DEF Next

-----------------------------------------------------------------------------
(* What stays in its place, through a step of the filesystem.              *)

\* Where the parents of stable subvolumes are.
LEMMA HomeFacts ==
  ASSUME PlacesType, PlacesOK
  PROVE  /\ \A c \in Stable :
             /\ c \in DOMAIN vols /\ c \in Ids /\ c \in Nat /\ c \notin disturbed /\ c # Target /\ c \in Home
             /\ vols[c].parent \in Home /\ vols[c].parent # c
         /\ \A c \in DOMAIN vols : vols[c].parent \in Home /\ c \notin disturbed => c \in Stable
         /\ \A c \in DOMAIN vols : vols[c].parent \in Home => c # Target
         /\ \A g \in Home : g # Target => g \in Stable
         /\ Dir \notin Home /\ Target \in Home /\ Target \notin Stable
<1>1. GoodPlaces(vols, Moved)
  BY PlacesAreGood
<1>2. Stable = StableIn(vols, Moved) /\ Home = HomeIn(vols, Moved)
  BY HomeIs
<1>3. DOMAIN vols \subseteq Ids /\ Ids \subseteq Nat
  BY VolumesAssumption DEF PlacesType
<1>4. Home = Stable \cup {Target}
  BY DEF Home
<1>5. /\ \A c \in Stable :
             /\ c \in DOMAIN vols /\ c \notin Moved /\ c # Target
             /\ vols[c].parent \in Home /\ vols[c].parent # c
      /\ \A c \in DOMAIN vols : vols[c].parent \in Home /\ c \notin Moved => c \in Stable
      /\ Dir \notin Home
  BY <1>1, <1>2, HomePlaces
<1>6. \A c \in DOMAIN vols : vols[c].parent \in Home => c # Target
  BY <1>4, <1>5 DEF Moved
<1> QED BY <1>3, <1>4, <1>5, <1>6 DEF Moved

\* A step of the filesystem makes no subvolume stable, and moves none that is.
LEMMA ShiftKeeps ==
  ASSUME PlacesType, PlacesOK, Shifted
  PROVE  /\ Stable' \subseteq Stable /\ Home' \subseteq Home
         /\ \A c \in Stable' : vols'[c] = vols[c]
         /\ \A g \in Home', path \in Seq(Names) : g \in Resolve(Target, path)' <=> g \in Resolve(Target, path)
         /\ \A w \in Home', d \in Stable' : d \in Under(w)' => d \in Under(w)
         /\ \A v, n : v # Dir => \A y \in Named(v, n)' : y \in Named(v, n) \/ y \in disturbed'
         /\ disturbed \subseteq disturbed'
<1>1. GoodPlaces(vols, Moved) /\ GoodPlaces(vols', Moved') /\ Kept(vols, Moved, vols', Moved')
  BY PlacesAreGood DEF Shifted, Shifts, PlacesOK
<1>2. /\ Stable = StableIn(vols, Moved) /\ Home = HomeIn(vols, Moved)
      /\ Stable' = StableIn(vols', Moved') /\ Home' = HomeIn(vols', Moved')
  BY HomeIs
<1>3. \A c \in Stable' : c \in Stable /\ vols'[c] = vols[c]
  BY <1>1, <1>2, HomeKept DEF GoodPlaces
<1>4. Home' \subseteq Home
  BY <1>3 DEF Home
<1>5. ASSUME NEW g \in Home', NEW path \in Seq(Names)
      PROVE  g \in Resolve(Target, path)' <=> g \in Resolve(Target, path)
  <2>1. Resolve(Target, path) = Place(vols, Target, path)
    BY DEF Resolve, Place, Steps, Named, Children, ChildrenOf
  <2>2. Resolve(Target, path)' = Place(vols', Target, path)
    BY DEF Resolve, Place, Steps, Named, Children, ChildrenOf
  <2>3. g \in Place(vols', Target, path) <=> g \in Place(vols, Target, path)
    BY <1>1, <1>2, PlaceKept
  <2> QED BY <2>1, <2>2, <2>3
<1>6. ASSUME NEW w \in Home', NEW d \in Stable', d \in Under(w)' PROVE d \in Under(w)
  <2>1. Under(w) = UnderIn(vols, w) /\ Under(w)' = UnderIn(vols', w)
    BY UnderIs
  <2>2. d \in UnderIn(vols, w)
    BY <1>1, <1>2, <1>6, <2>1, UnderKept
  <2> QED BY <2>1, <2>2
<1>7. ASSUME NEW v, NEW n, v # Dir, NEW y \in Named(v, n)' PROVE y \in Named(v, n) \/ y \in disturbed'
  <2>1. y \in DOMAIN vols' /\ vols'[y].parent = v /\ vols'[y].name = n
    BY DEF Named, Children
  <2>2. y = Target => y \in disturbed'
    BY <1>7, <2>1 DEF Shifted, Shifts, TreeOK
  <2>3. y # Target => y \in Named(v, n) \/ y \in disturbed'
    BY <1>1, <2>1 DEF Named, Children, Kept, Moved
  <2> QED BY <2>2, <2>3
<1> QED BY <1>3, <1>4, <1>5, <1>6, <1>7 DEF Shifted, Shifts

\* Descriptor, parent and path of an entry still belong together after a step of the filesystem.
LEMMA MatchedKept ==
  ASSUME PlacesType, PlacesOK, Shifted, NEW CONSTANT e \in Entries, Matched(e)
  PROVE  Matched(e)'
<1>1. e.path \in Seq(Names)
  BY EntryType
<1>2. /\ Home' \subseteq Home /\ \A c \in Stable' : vols'[c] = vols[c]
      /\ \A g \in Home', path \in Seq(Names) : g \in Resolve(Target, path)' <=> g \in Resolve(Target, path)
  BY ShiftKeeps
<1>3. \A g \in Home' : g # Target => g \in Stable'
  BY DEF Home
<1>4. ASSUME NEW g \in Home'
      PROVE  /\ e.id = g <=> e.file = g
             /\ e.file = g <=> g \in Resolve(Target, e.path)'
             /\ g # Target /\ e.id = g => e.parent = vols'[g].parent
  <2>1. g \in Home
    BY <1>2
  <2>2. /\ e.id = g <=> e.file = g
        /\ e.file = g <=> g \in Resolve(Target, e.path)
        /\ g # Target /\ e.id = g => e.parent = vols[g].parent
    BY <2>1 DEF Matched
  <2>3. g \in Resolve(Target, e.path)' <=> g \in Resolve(Target, e.path)
    BY <1>1, <1>2
  <2>4. g # Target => vols'[g] = vols[g]
    BY <1>2, <1>3
  <2> QED BY <2>2, <2>3, <2>4
<1>5. Near(e.file)'
  BY NearKept DEF Matched, Shifted, PlacesOK
<1> QED BY <1>4, <1>5 DEF Matched

\* The predicates about where something is do not look at the filesystem.
WalkRests ==
    /\ UNCHANGED <<order, direction, outside, stack, ent, refs, name, yielded, erred, calls, client>>
    /\ pc' = pc \/ (pc \in {"item", "error"} /\ pc' = "pop")

\* So do those of the items, none of which is there twice.
LEMMA YieldedKept ==
  ASSUME TypeInv, PlacesOK, YieldedMatch, YieldedOnce, Shifted, UNCHANGED yielded
  PROVE  YieldedMatch' /\ YieldedOnce'
<1>0. PlacesType /\ yielded \in Seq(Entries)
  BY DEF TypeInv, WalkType
<1>1. YieldedMatch'
  <2>1. ASSUME NEW i \in 1 .. Len(yielded) PROVE Matched(yielded[i])' /\ yielded[i]'.color # "root"
    <3>1. PICK e \in Entries : e = yielded[i]
      BY <1>0
    <3>2. Matched(e) /\ e.color # "root"
      BY <3>1 DEF YieldedMatch
    <3>3. Matched(e)'
      BY <1>0, <3>2, MatchedKept
    <3>4. e = yielded[i]'
      BY <3>1
    <3> QED BY <3>2, <3>3, <3>4
  <2> QED BY <2>1 DEF YieldedMatch
<1>2. YieldedOnce'
  <2>1. Stable' \subseteq Stable
    BY <1>0, ShiftKeeps
  <2> QED BY <2>1 DEF YieldedOnce
<1> QED BY <1>1, <1>2

-----------------------------------------------------------------------------
(* The walk does not move.                                                 *)

\* A walk that rests sees no other subvolumes and waits for no others.
LEMMA RestsFacts ==
  ASSUME WalkRests
  PROVE  /\ \A c : Returned(c)' <=> Returned(c)
         /\ \A c : OnStack(c)' <=> OnStack(c)
         /\ \A c : InHand(c)' <=> InHand(c)
         /\ \A c : Listed(c)' <=> Listed(c)
         /\ \A c : Seen(c)' <=> Seen(c)
         /\ \A c : Waiting(c)' <=> Waiting(c)
         /\ \A c : Opened(c)' <=> Opened(c)
         /\ Expanding' <=> Expanding
<1>1. Expanding' <=> Expanding
  BY DEF WalkRests, Expanding
<1>2. /\ \A c : Returned(c)' <=> Returned(c)
      /\ \A c : OnStack(c)' <=> OnStack(c)
      /\ \A c : Listed(c)' <=> Listed(c)
  BY DEF WalkRests, Returned, OnStack, Listed
<1>3. \A c : InHand(c)' <=> InHand(c)
  BY <1>1 DEF WalkRests, InHand
<1>4. \A c : Seen(c)' <=> Seen(c)
  BY <1>2, <1>3 DEF Seen
<1>5. \A c : Waiting(c)' <=> Waiting(c)
  BY <1>2 DEF WalkRests, Waiting
<1>6. \A c : Opened(c)' <=> Opened(c)
  BY <1>2, <1>3, <1>5 DEF Opened
<1> QED BY <1>1, <1>2, <1>3, <1>4, <1>5, <1>6

\* A step of the filesystem keeps the invariant of the iterator.
LEMMA RestsIter ==
  ASSUME TypeInv, PlacesOK, IterInv, Shifted, WalkRests
  PROVE  IterInv'
<1>0. PlacesType /\ WalkType
  BY DEF TypeInv
<1>1. /\ Stable' \subseteq Stable /\ Home' \subseteq Home
      /\ \A c \in Stable' : vols'[c] = vols[c]
      /\ \A w \in Home', d \in Stable' : d \in Under(w)' => d \in Under(w)
      /\ \A v, n : v # Dir => \A y \in Named(v, n)' : y \in Named(v, n) \/ y \in disturbed'
      /\ disturbed \subseteq disturbed'
  BY <1>0, ShiftKeeps
<1>2. UNCHANGED <<order, direction, outside, stack, ent, refs, name, yielded, erred>>
  BY DEF WalkRests
<1>3. /\ \A c : Returned(c)' <=> Returned(c)
      /\ \A c : OnStack(c)' <=> OnStack(c)
      /\ \A c : InHand(c)' <=> InHand(c)
      /\ \A c : Listed(c)' <=> Listed(c)
      /\ \A c : Seen(c)' <=> Seen(c)
      /\ \A c : Waiting(c)' <=> Waiting(c)
      /\ \A c : Opened(c)' <=> Opened(c)
      /\ Expanding' <=> Expanding
  BY RestsFacts
<1>4. pc' = pc \/ (pc \in {"item", "error"} /\ pc' = "pop")
  BY DEF WalkRests
<1>5. \A c \in Stable' : Hidden(c)' <=> Hidden(c)
  BY <1>1, <1>2 DEF Hidden
<1>6. \A c, d \in Stable' : Siblings(c, d)' => Siblings(c, d)
  BY <1>1, <1>2 DEF Siblings, First
<1>a. StackMatch'
  <2>1. ASSUME NEW k \in 1 .. Len(stack) PROVE Matched(stack[k])'
    <3>1. PICK e \in Entries : e = stack[k]
      BY <1>0 DEF WalkType
    <3>2. Matched(e)
      BY <3>1 DEF IterInv, StackMatch
    <3>3. Matched(e)'
      BY <1>0, <3>2, MatchedKept
    <3>4. e = stack[k]'
      BY <1>2, <3>1
    <3> QED BY <3>3, <3>4
  <2>2. Matched(ent)'
    <3>1. PICK e \in Entries : e = ent
      BY <1>0 DEF WalkType
    <3>2. Matched(e)
      BY <3>1 DEF IterInv, StackMatch
    <3>3. Matched(e)'
      BY <1>0, <3>2, MatchedKept
    <3>4. e = ent'
      BY <1>2, <3>1
    <3> QED BY <3>3, <3>4
  <2> QED BY <1>2, <2>1, <2>2 DEF StackMatch
<1>b. Colors'
  BY <1>2, <1>3, <1>4 DEF IterInv, Colors
<1>c. RefsOK'
  <2>1. ent.file # Dir
    BY DEF IterInv, StackMatch, Matched, Near
  <2> QED BY <1>1, <1>2, <1>4, <2>1 DEF IterInv, RefsOK
<1>d. Once'
  BY <1>1, <1>2, <1>3 DEF IterInv, Once
<1>e. Fresh'
  BY <1>1, <1>3 DEF IterInv, Fresh
<1>f. Covered'
  BY <1>1, <1>2, <1>3, <1>4, <1>5 DEF IterInv, Covered
<1>g. ParentFirst'
  BY <1>1, <1>2, <1>3 DEF IterInv, ParentFirst
<1>h. ParentLast'
  BY <1>1, <1>2, <1>3 DEF IterInv, ParentLast
<1>i. InTurn'
  BY <1>1, <1>2, <1>3, <1>6 DEF IterInv, InTurn
<1> QED BY <1>a, <1>b, <1>c, <1>d, <1>e, <1>f, <1>g, <1>h, <1>i DEF IterInv

\* The calls of get_rootref, the innermost among them.
LEMMA CallTypes ==
  ASSUME WalkType
  PROVE  /\ Len(calls) \in Nat /\ Depth = Len(calls) + 1
         /\ \A k \in 1 .. Depth : Call(k) \in Entries \X Seq(Ids)
         /\ \A k \in 1 .. Depth : Call(k)[1] \in Entries /\ Call(k)[2] \in Seq(Ids) /\ Call(k) = <<Call(k)[1], Call(k)[2]>>
         /\ \A k \in 1 .. Len(calls) : Call(k) = calls[k]
         /\ Call(Depth) = <<ent, refs>>
<1>1. calls \in Seq(Entries \X Seq(Ids)) /\ <<ent, refs>> \in Entries \X Seq(Ids)
  BY DEF WalkType
<1>2. \A k \in 1 .. Depth : Call(k) \in Entries \X Seq(Ids)
  BY <1>1 DEF Depth, Call
<1>3. \A x \in Entries \X Seq(Ids) : x[1] \in Entries /\ x[2] \in Seq(Ids) /\ x = <<x[1], x[2]>>
  OBVIOUS
<1>4. \A k \in 1 .. Depth : Call(k)[1] \in Entries /\ Call(k)[2] \in Seq(Ids) /\ Call(k) = <<Call(k)[1], Call(k)[2]>>
  BY <1>2, <1>3
<1> QED BY <1>1, <1>2, <1>4 DEF Depth, Call

\* A step of the filesystem keeps the invariant of get_rootref.
LEMMA RestsRootRef ==
  ASSUME TypeInv, PlacesOK, RootRefInv, Shifted, WalkRests
  PROVE  RootRefInv'
<1>0. PlacesType /\ WalkType
  BY DEF TypeInv
<1>1. /\ Stable' \subseteq Stable /\ Home' \subseteq Home
      /\ \A c \in Stable' : vols'[c] = vols[c]
  BY <1>0, ShiftKeeps
<1>2. UNCHANGED <<order, direction, outside, stack, ent, refs, name, yielded, erred, calls>>
  BY DEF WalkRests
<1>3. pc' = pc
  BY DEF WalkRests, RootRefInv, CallsOK
<1>4. \A c \in Stable' : Hidden(c)' <=> Hidden(c)
  BY <1>1, <1>2 DEF Hidden
<1>5. \A c, d \in Stable' : Siblings(c, d)' => Siblings(c, d)
  BY <1>1, <1>2 DEF Siblings, First
<1>6. /\ Depth' = Depth /\ \A k : Call(k)' = Call(k)
      /\ \A c : Returned(c)' <=> Returned(c)
  BY <1>2 DEF Depth, Call, Returned
<1>7. \A c : Due(c)' <=> Due(c)
  BY <1>2 DEF Due, Depth, Call
<1>8. \A c : Called(c)' <=> Called(c)
  BY <1>2, <1>3, <1>6 DEF Called
<1>a. CallsMatch'
  <2>1. ASSUME NEW k \in 1 .. Depth PROVE Matched(Call(k)[1])'
    <3>1. PICK e \in Entries : e = Call(k)[1]
      BY <1>0, CallTypes
    <3>2. Matched(e)
      BY <3>1 DEF RootRefInv, CallsMatch
    <3>3. Matched(e)'
      BY <1>0, <3>2, MatchedKept
    <3>4. e = Call(k)'[1]
      BY <1>6, <3>1
    <3> QED BY <3>3, <3>4
  <2>2. ASSUME NEW k \in 1 .. Depth
        PROVE /\ Call(k)[1].color \in {"root", "pre"}
              /\ Call(k)[1].id = Target \/ Returned(Call(k)[1].id)'
              /\ \A l \in 1 .. Depth : Call(k)[1].id \in Home' /\ Call(k)[1].id = Call(l)[1].id => k = l
              /\ \A i \in 1 .. Len(Call(k)[2]) :
                   /\ Call(k)[2][i] # Target
                   /\ Call(k)[2][i] \in Stable' => vols'[Call(k)[2][i]].parent = Call(k)[1].file
                   /\ \A j \in 1 .. Len(Call(k)[2]) : i < j => Call(k)[2][i] < Call(k)[2][j]
    BY <1>1, <1>6 DEF RootRefInv, CallsMatch
  <2> QED BY <1>6, <2>1, <2>2 DEF CallsMatch
<1>b. CallsOK'
  <2>1. CallsOK /\ RootVol' = RootVol
    BY DEF RootRefInv, RootVol, Entry
  <2> QED BY <1>2, <1>3, <2>1 DEF CallsOK
<1>c. CallsCovered'
  BY <1>1, <1>2, <1>4, <1>6, <1>7, <1>8 DEF RootRefInv, CallsCovered
<1>d. CallsInTurn'
  BY <1>1, <1>2, <1>5, <1>6, <1>7 DEF RootRefInv, CallsInTurn
<1> QED BY <1>a, <1>b, <1>c, <1>d DEF RootRefInv

-----------------------------------------------------------------------------
(* The steps of the iterator; the filesystem stands still during each.     *)

\* What is below one that does not move, in terms of parents.
LEMMA UnderHome ==
  ASSUME PlacesType, PlacesOK
  PROVE  /\ \A c \in Stable, p \in Home : vols[c].parent = p => c \in Under(p)
         /\ \A d \in Stable, w \in Home : d \in Under(w) => vols[d].parent = w \/ vols[d].parent \in Under(w)
         /\ \A k \in Stable, w \in Home : k \in Under(w) => Under(k) \subseteq Under(w)
         /\ \A w \in Home : Target \notin Under(w) /\ Under(w) \subseteq Subtree(Target)
<1>1. DOMAIN vols \subseteq Ids
  BY DEF PlacesType
<1>2. \A w : Under(w) = UnderIn(vols, w)
  BY UnderIs
<1>3. /\ \A w : \A d \in Under(w) : d \in DOMAIN vols /\ (vols[d].parent = w \/ vols[d].parent \in Under(w))
      /\ \A w : \A k \in DOMAIN vols : vols[k].parent = w \/ vols[k].parent \in Under(w) => k \in Under(w)
      /\ \A w : \A k \in DOMAIN vols : k \in Under(w) => Under(k) \subseteq Under(w)
  BY <1>1, <1>2, UnderFacts
<1>4. \A c \in Stable : c \in DOMAIN vols
  BY HomeFacts
<1>5. Target \in Ids /\ Target \in Subtree(Target) /\ ClosedIn(vols, Subtree(Target)) /\ Home \subseteq Subtree(Target)
  <2>1. Target \in Ids
    BY VolumesAssumption
  <2>2. Target \in Subtree(Target) /\ ClosedIn(vols, Subtree(Target))
    BY <2>1, SubtreeFacts
  <2> QED BY <2>1, <2>2 DEF Home, Stable
<1>6. ASSUME NEW w \in Home PROVE Under(w) \subseteq Subtree(Target)
  <2>1. SUFFICES ASSUME NEW k \in Children(w) PROVE Subtree(k) \subseteq Subtree(Target)
    BY DEF Under
  <2>2. k \in DOMAIN vols /\ vols[k].parent = w /\ k \in Ids
    BY <1>1 DEF Children
  <2>3. k \in Subtree(Target)
    BY <1>5, <2>2 DEF ClosedIn
  <2> QED BY <1>5, <2>2, <2>3, SubtreeFacts
<1>7. ASSUME NEW w \in Home, Target \in Under(w) PROVE FALSE
  <2>1. Target \in DOMAIN vols /\ (vols[Target].parent = w \/ vols[Target].parent \in Under(w))
    BY <1>3, <1>7
  <2>2. vols[Target].parent \in Subtree(Target)
    BY <1>5, <1>6, <2>1
  <2> QED BY <2>1, <2>2 DEF PlacesOK, Apart
<1> QED BY <1>3, <1>4, <1>6, <1>7

\* Nothing moves when the filesystem does not.
LEMMA PlacesSame ==
  ASSUME UNCHANGED <<vols, disturbed, direction, outside>>
  PROVE  /\ Stable' = Stable /\ Home' = Home
         /\ \A w : Under(w)' = Under(w)
         /\ \A v, n : Named(v, n)' = Named(v, n)
         /\ \A c : Hidden(c)' <=> Hidden(c)
         /\ \A c, d : Siblings(c, d)' <=> Siblings(c, d)
<1>1. Stable' = Stable /\ Home' = Home
  BY HomeIs DEF Moved
<1>2. \A w : Under(w)' = Under(w)
  BY UnderIs
<1> QED BY <1>1, <1>2 DEF Named, Children, Hidden, Siblings, First

\* Nor does what an entry says become wrong.
LEMMA MatchedSame ==
  ASSUME UNCHANGED <<vols, disturbed>>, NEW CONSTANT e, Matched(e)
  PROVE  Matched(e)'
<1>1. Home' = Home
  BY HomeIs DEF Moved
<1>2. Resolve(Target, e.path)' = Resolve(Target, e.path)
  BY ResolveIsPlace
<1>3. Subtree(Target)' = Subtree(Target)
  BY SubtreeIsBelow
<1>4. Near(e.file)' <=> Near(e.file)
  BY <1>3 DEF Near
<1> QED BY <1>1, <1>2, <1>4 DEF Matched

\* The entries of a stack that gains none say what they said.
LEMMA StackMatchSame ==
  ASSUME WalkType, UNCHANGED <<vols, disturbed>>, StackMatch,
         \A k \in 1 .. Len(stack') : \/ \E l \in 1 .. Len(stack) : stack'[k] = stack[l]
                                     \/ \E l \in 1 .. Len(stack) : stack'[k] = [stack[l] EXCEPT !.color = "black"] /\ stack[l].color # "root",
         ent' = ent \/ \E l \in 1 .. Len(stack) : ent' = stack[l]
  PROVE  StackMatch'
<1>1. ASSUME NEW k \in 1 .. Len(stack') PROVE Matched(stack[k])'
  <2>1. CASE \E l \in 1 .. Len(stack) : stack'[k] = stack[l]
    <3>1. PICK l \in 1 .. Len(stack) : stack'[k] = stack[l]
      BY <2>1
    <3>2. PICK e \in Entries : e = stack[l]
      BY DEF WalkType
    <3>3. Matched(e)
      BY <3>2 DEF StackMatch
    <3>4. Matched(e)'
      BY <3>3, MatchedSame
    <3>5. e = stack'[k]
      BY <3>1, <3>2
    <3> QED BY <3>4, <3>5
  <2>2. CASE \E l \in 1 .. Len(stack) : stack'[k] = [stack[l] EXCEPT !.color = "black"] /\ stack[l].color # "root"
    <3>1. PICK l \in 1 .. Len(stack) : stack'[k] = [stack[l] EXCEPT !.color = "black"] /\ stack[l].color # "root"
      BY <2>2
    <3>2. PICK e \in Entries : e = stack[l]
      BY DEF WalkType
    <3>3. PICK b \in Entries : b = [e EXCEPT !.color = "black"]
      BY EntryType
    <3>4. Matched(e) /\ e.color # "root"
      BY <3>1, <3>2 DEF StackMatch
    <3>5. b.id = e.id /\ b.file = e.file /\ b.parent = e.parent /\ b.path = e.path /\ b.color = "black"
      BY <3>3 DEF Entries
    <3>6. Matched(b)
      BY <3>4, <3>5 DEF Matched
    <3>7. Matched(b)'
      BY <3>6, MatchedSame
    <3>8. b = stack'[k]
      BY <3>1, <3>2, <3>3
    <3> QED BY <3>7, <3>8
  <2> QED BY <2>1, <2>2
<1>2. Matched(ent)'
  <2>1. PICK e \in Entries : e = ent' /\ (e = ent \/ \E l \in 1 .. Len(stack) : e = stack[l])
    BY DEF WalkType
  <2>2. Matched(e)
    BY <2>1 DEF StackMatch
  <2>3. Matched(e)'
    BY <2>2, MatchedSame
  <2> QED BY <2>1, <2>3
<1> QED BY <1>1, <1>2 DEF StackMatch

-----------------------------------------------------------------------------
(* Exhausted, and the errors.                                              *)

\* The stack is empty, or an error ends the expansion.
LEMMA WalkEnds ==
  ASSUME TypeInv, PlacesOK, IterInv, UNCHANGED <<vols, disturbed>>,
         UNCHANGED <<order, direction, outside, stack, ent, yielded>>,
         \/ pc = "pop" /\ stack = <<>> /\ pc' = "none" /\ erred' = erred /\ refs' = refs
         \/ Expanding /\ pc' = "error" /\ erred' /\ refs' = <<>>
  PROVE  IterInv'
<1>0. WalkType
  BY DEF TypeInv
<1>1. /\ Stable' = Stable /\ Home' = Home
      /\ \A w : Under(w)' = Under(w)
      /\ \A c : Hidden(c)' <=> Hidden(c)
      /\ \A c, d : Siblings(c, d)' <=> Siblings(c, d)
  BY PlacesSame
<1>2. refs' = <<>> /\ (pc' = "error" => erred')
  BY DEF IterInv, RefsOK
<1>3. ~ Expanding' /\ pc' \in {"none", "error"}
  BY DEF Expanding
<1>4. /\ \A c : Returned(c)' <=> Returned(c)
      /\ \A c : OnStack(c)' <=> OnStack(c)
      /\ \A c : ~ InHand(c)'
      /\ \A c : ~ Listed(c)'
  BY <1>2, <1>3 DEF Returned, OnStack, Listed, InHand
<1>5. \A c : Seen(c)' => Seen(c)
  BY <1>4 DEF Seen
<1>6. \A c : Waiting(c)' => Waiting(c)
  BY <1>3, <1>4 DEF Waiting
<1>7. ~ erred' => \A c : (Seen(c)' <=> Seen(c)) /\ (Opened(c)' <=> Opened(c))
  <2>1. SUFFICES ASSUME ~ erred' PROVE \A c : (Seen(c)' <=> Seen(c)) /\ (Opened(c)' <=> Opened(c))
    OBVIOUS
  <2>2. pc = "pop" /\ stack = <<>> /\ pc' = "none" /\ refs = <<>>
    BY <2>1 DEF IterInv, RefsOK
  <2>3. \A c : ~ InHand(c) /\ ~ Listed(c)
    BY <2>2 DEF InHand, Listed, Expanding
  <2>4. \A c : Waiting(c)' <=> Waiting(c)
    BY <2>2, <2>3, <1>4 DEF Waiting
  <2> QED BY <2>3, <2>4, <1>4 DEF Seen, Opened
<1>8. ~ erred' => ~ erred
  OBVIOUS
<1>a. StackMatch'
  BY <1>0, StackMatchSame DEF IterInv
<1>b. Colors'
  <2>1. Colors
    BY DEF IterInv
  <2>2. ASSUME NEW k \in 1 .. Len(stack) PROVE stack[k].color # "root"
    <3>1. stack # <<>> /\ stack \in Seq(Entries)
      BY <1>0 DEF WalkType
    <3>2. Expanding
      BY <3>1
    <3> QED BY <2>1, <3>2 DEF Colors, Expanding
  <2> QED BY <1>3, <2>1, <2>2 DEF Colors
<1>c. RefsOK'
  BY <1>2, <1>3 DEF IterInv, RefsOK
<1>d. Once'
  BY <1>1, <1>2, <1>4 DEF IterInv, Once
<1>e. Fresh'
  BY <1>1, <1>5, <1>6 DEF IterInv, Fresh
<1>f. Covered'
  BY <1>1, <1>3, <1>4, <1>7, <1>8 DEF IterInv, Covered
<1>g. ParentFirst'
  BY <1>1, <1>4, <1>6 DEF IterInv, ParentFirst
<1>h. ParentLast'
  BY <1>1, <1>4 DEF IterInv, ParentLast
<1>i. InTurn'
  BY <1>1, <1>2, <1>4 DEF IterInv, InTurn
<1> QED BY <1>a, <1>b, <1>c, <1>d, <1>e, <1>f, <1>g, <1>h, <1>i DEF IterInv

\* The types of the iterator, in the form the steps need.
LEMMA OrderIs ==
  ASSUME WalkType, IterInv
  PROVE  /\ order \in {"pre", "post"} /\ stack \in Seq(Entries) /\ Len(stack) \in Nat
         /\ yielded \in Seq(Entries) /\ Len(yielded) \in Nat /\ refs \in Seq(Ids) /\ Len(refs) \in Nat
         /\ ent \in Entries
         /\ pc \notin {"lookup", "open"} => refs = <<>>
  BY IterAssumption DEF WalkType, IterInv, RefsOK

\* An entry whose children are done is returned.
LEMMA PopDone ==
  ASSUME TypeInv, PlacesOK, YieldedMatch, YieldedOnce, IterInv, UNCHANGED <<vols, disturbed>>,
         pc = "pop", stack # <<>>, Last(stack).color = "black",
         stack' = Front(stack), Yield(Last(stack)),
         UNCHANGED <<order, direction, outside, ent, refs, erred>>
  PROVE  YieldedMatch' /\ YieldedOnce' /\ IterInv'
<1>0. PlacesType /\ WalkType
  BY DEF TypeInv
<1>1. /\ Stable' = Stable /\ Home' = Home
      /\ \A w : Under(w)' = Under(w)
      /\ \A c : Hidden(c)' <=> Hidden(c)
      /\ \A c, d : Siblings(c, d)' <=> Siblings(c, d)
  BY PlacesSame
<1>2. /\ order \in {"pre", "post"} /\ stack \in Seq(Entries) /\ yielded \in Seq(Entries)
      /\ refs = <<>> /\ refs' = <<>> /\ pc' = "item"
  BY <1>0, OrderIs DEF Yield
<1>n. PICK n \in Nat : n = Len(stack) /\ n > 0
  BY <1>2
<1>m. PICK m \in Nat : m = Len(yielded)
  BY <1>2
<1>s. PICK e \in Entries : e = Last(stack) /\ e = stack[n]
  BY <1>2, <1>n, FrontIs
<1>3. /\ Len(stack') = n - 1 /\ \A k \in 1 .. (n - 1) : stack'[k] = stack[k]
  BY <1>2, <1>n, FrontIs
<1>4. yielded' = Append(yielded, e)
  BY <1>s DEF Yield
<1>5. Len(yielded') = m + 1 /\ yielded'[m + 1] = e /\ \A i \in 1 .. m : yielded'[i] = yielded[i]
  BY <1>2, <1>4, <1>m, AppendIs
<1>6. Matched(e) /\ e.color = "black" /\ order = "post"
  <2>1. Matched(e)
    BY <1>n, <1>s DEF IterInv, StackMatch
  <2>2. order # "pre"
    BY <1>n, <1>s DEF IterInv, Colors
  <2> QED BY <1>2, <1>s, <2>1, <2>2
<1> DEFINE x == e.id
<1>7. /\ \A c : Returned(c)' <=> Returned(c) \/ c = x
      /\ \A c : OnStack(c) <=> OnStack(c)' \/ c = x
      /\ \A c : ~ InHand(c) /\ ~ InHand(c)' /\ ~ Listed(c) /\ ~ Listed(c)'
  <2>1. \A c : Returned(c)' <=> Returned(c) \/ c = x
    BY <1>m, <1>5 DEF Returned
  <2>2. \A c : OnStack(c) <=> OnStack(c)' \/ c = x
    BY <1>n, <1>s, <1>3 DEF OnStack
  <2>3. \A c : ~ InHand(c) /\ ~ InHand(c)' /\ ~ Listed(c) /\ ~ Listed(c)'
    BY <1>2 DEF InHand, Listed, Expanding
  <2> QED BY <2>1, <2>2, <2>3
<1>8. \A c : Seen(c)' <=> Seen(c)
  BY <1>7 DEF Seen
<1>9. \A c : Waiting(c)' <=> Waiting(c)
  <2>1. \A c : Waiting(c) <=> \E k \in 1 .. n : stack[k].id = c /\ stack[k].color # "black"
    BY <1>7, <1>n DEF Waiting
  <2>2. \A c : Waiting(c)' <=> \E k \in 1 .. (n - 1) : stack'[k].id = c /\ stack'[k].color # "black"
    BY <1>7, <1>2, <1>3 DEF Waiting
  <2> QED BY <2>1, <2>2, <1>s, <1>3, <1>6
<1>10. \A c : Opened(c)' <=> Opened(c)
  BY <1>7, <1>9 DEF Opened
<1>11. \A c \in Stable : OnStack(c)' => c # x
  <2>1. Once
    BY DEF IterInv
  <2>2. ASSUME NEW k \in 1 .. (n - 1), stack[k].id \in Stable, stack[k].id = stack[n].id PROVE FALSE
    BY <1>n, <2>1, <2>2 DEF Once
  <2> QED BY <1>s, <1>n, <1>3, <2>2 DEF OnStack
<1>12. OnStack(x)
  BY <1>7
<1> HIDE DEF x
<1>a. StackMatch'
  <2>1. \A k \in 1 .. Len(stack') : \E l \in 1 .. Len(stack) : stack'[k] = stack[l]
    BY <1>3, <1>n
  <2> QED BY <1>0, <2>1, StackMatchSame DEF IterInv
<1>b. Colors'
  <2>1. Colors
    BY DEF IterInv
  <2>2. \A k \in 1 .. Len(stack) : stack[k].color # "root"
    BY <1>n, <1>s, <1>6, <2>1 DEF Colors
  <2>3. ~ Expanding'
    BY <1>2 DEF Expanding
  <2>4. \A k \in 1 .. (n - 1) : stack[k].color \in {"grey", "black"}
    BY <1>n, <2>1, <2>2, <1>6 DEF Colors
  <2>5. \A k \in 1 .. Len(stack') : stack'[k].color \in {"grey", "black"}
    BY <1>3, <2>4
  <2>6. ent.color \in {"root"} \cup (IF order = "post" THEN {"grey"} ELSE {"pre"})
    BY <2>1 DEF Colors
  <2> QED BY <2>3, <2>5, <2>6, <1>6 DEF Colors
<1>c. RefsOK'
  BY <1>2 DEF RefsOK
<1>d. Once'
  <2>1. Once
    BY DEF IterInv
  <2>2. \A c \in Stable : \A i, j \in 1 .. Len(stack') : stack'[i].id = c /\ stack'[j].id = c => i = j
    BY <1>3, <1>n, <2>1 DEF Once
  <2>3. \A c \in Stable : \A i, j \in 1 .. Len(refs') : refs'[i] = c /\ refs'[j] = c => i = j
    BY <1>2
  <2>4. \A c \in Stable : ~ (Returned(c)' /\ OnStack(c)')
    BY <1>7, <1>11, <2>1 DEF Once
  <2> QED BY <2>2, <2>3, <2>4, <1>1, <1>7 DEF Once
<1>e. Fresh'
  BY <1>1, <1>8, <1>9 DEF IterInv, Fresh
<1>f. Covered'
  BY <1>1, <1>2, <1>7, <1>8, <1>10, <1>12 DEF IterInv, Covered
<1>g. ParentFirst'
  BY <1>6 DEF ParentFirst
<1>h. ParentLast'
  <2>1. SUFFICES ASSUME NEW c \in Stable, NEW p \in Stable, vols[c].parent = p
        PROVE /\ \A k \in 1 .. Len(stack') : stack'[k].id = c => \E l \in 1 .. (k - 1) : stack'[l].id = p
              /\ \A i, j \in 1 .. Len(yielded') : yielded'[i].id = p /\ yielded'[j].id = c => j < i
    BY <1>1, <1>7 DEF ParentLast
  <2>2. /\ \A k \in 1 .. n : stack[k].id = c => \E l \in 1 .. (k - 1) : stack[l].id = p
        /\ \A i, j \in 1 .. m : yielded[i].id = p /\ yielded[j].id = c => j < i
    BY <2>1, <1>6, <1>n, <1>m DEF IterInv, ParentLast
  <2>3. c # p
    BY <2>1, <1>0, HomeFacts
  <2>4. c = x => ~ Returned(p)
    <3>1. c = x => OnStack(p)
      BY <2>2, <1>n, <1>s DEF OnStack, x
    <3> QED BY <3>1, <2>1 DEF IterInv, Once
  <2>5. c = x => \A i \in 1 .. m : yielded[i].id # p
    BY <2>4, <1>m DEF Returned
  <2>6. \A k \in 1 .. Len(stack') : stack'[k].id = c => \E l \in 1 .. (k - 1) : stack'[l].id = p
    BY <2>2, <1>3, <1>n
  <2>7. \A i, j \in 1 .. (m + 1) : yielded'[i].id = p /\ yielded'[j].id = c => j < i
    BY <2>2, <2>3, <2>5, <1>5, <1>m DEF x
  <2> QED BY <2>6, <2>7, <1>5
<1>i. InTurn'
  <2>1. SUFFICES ASSUME NEW c \in Stable, NEW d \in Stable, Siblings(c, d)
        PROVE /\ \A k, l \in 1 .. Len(stack') : stack'[k].id = c /\ stack'[l].id = d => l < k
              /\ \A i, j \in 1 .. Len(yielded') : yielded'[i].id = c /\ yielded'[j].id = d => i < j
              /\ Returned(d)' => ~ OnStack(c)'
    BY <1>1, <1>2, <1>7 DEF InTurn
  <2>2. /\ \A k, l \in 1 .. n : stack[k].id = c /\ stack[l].id = d => l < k
        /\ \A i, j \in 1 .. m : yielded[i].id = c /\ yielded[j].id = d => i < j
        /\ Returned(d) => ~ OnStack(c)
    BY <2>1, <1>n, <1>m DEF IterInv, InTurn
  <2>3. c # d
    BY <2>1 DEF Siblings
  <2>4. c = x => \A j \in 1 .. m : yielded[j].id # d
    BY <2>2, <1>12, <1>m DEF Returned
  <2>5. \A k, l \in 1 .. Len(stack') : stack'[k].id = c /\ stack'[l].id = d => l < k
    BY <2>2, <1>3, <1>n
  <2>6. \A i, j \in 1 .. (m + 1) : yielded'[i].id = c /\ yielded'[j].id = d => i < j
    BY <2>2, <2>3, <2>4, <1>5, <1>m DEF x
  <2>7. d = x => ~ OnStack(c)'
    <3>1. ASSUME d = x, NEW k \in 1 .. (n - 1), stack[k].id = c PROVE FALSE
      <4>1. n \in 1 .. n /\ k \in 1 .. n /\ stack[n].id = d
        BY <3>1, <1>n, <1>s DEF x
      <4>2. n < k
        BY <2>2, <3>1, <4>1
      <4> QED BY <4>2
    <3> QED BY <3>1, <1>3 DEF OnStack
  <2>8. Returned(d)' => ~ OnStack(c)'
    BY <2>2, <2>7, <1>7
  <2> QED BY <2>5, <2>6, <2>8, <1>5
<1>j. YieldedMatch'
  <2>1. ASSUME NEW i \in 1 .. (m + 1) PROVE Matched(yielded[i])' /\ yielded'[i].color # "root"
    <3>1. PICK y \in Entries : y = yielded'[i] /\ Matched(y) /\ y.color # "root"
      <4>1. CASE i = m + 1
        BY <4>1, <1>5, <1>6
      <4>2. CASE i # m + 1
        <5>1. i \in 1 .. m
          BY <4>2
        <5> QED BY <5>1, <1>2, <1>m, <1>5 DEF YieldedMatch
      <4> QED BY <4>1, <4>2
    <3>2. Matched(y)'
      BY <3>1, MatchedSame
    <3> QED BY <3>1, <3>2
  <2> QED BY <2>1, <1>5 DEF YieldedMatch
<1>k. YieldedOnce'
  <2>1. \A c \in Stable : c = x => ~ Returned(c)
    BY <1>12 DEF IterInv, Once
  <2>2. \A c \in Stable : c = x => \A i \in 1 .. m : yielded[i].id # c
    BY <2>1, <1>m DEF Returned
  <2>3. \A c \in Stable : \A i, j \in 1 .. m : yielded[i].id = c /\ yielded[j].id = c => i = j
    BY <1>m DEF YieldedOnce
  <2>4. \A c \in Stable : \A i, j \in 1 .. (m + 1) : yielded'[i].id = c /\ yielded'[j].id = c => i = j
    BY <2>2, <2>3, <1>5 DEF x
  <2> QED BY <2>4, <1>1, <1>5 DEF YieldedOnce
<1> QED BY <1>a, <1>b, <1>c, <1>d, <1>e, <1>f, <1>g, <1>h, <1>i, <1>j, <1>k DEF IterInv

\* An entry is taken off the stack, to be expanded; a post-order one goes back.
LEMMA PopToExpand ==
  ASSUME TypeInv, PlacesOK, IterInv, UNCHANGED <<vols, disturbed>>,
         pc = "pop", stack # <<>>, Last(stack).color # "black",
         stack' = IF Last(stack).color = "grey" THEN Repushed(Front(stack), Last(stack)) ELSE Front(stack),
         ent' = Last(stack), pc' = "list",
         UNCHANGED <<order, direction, outside, refs, yielded, erred>>
  PROVE  IterInv'
<1>0. PlacesType /\ WalkType
  BY DEF TypeInv
<1>1. /\ Stable' = Stable /\ Home' = Home
      /\ \A w : Under(w)' = Under(w)
      /\ \A c : Hidden(c)' <=> Hidden(c)
      /\ \A c, d : Siblings(c, d)' <=> Siblings(c, d)
  BY PlacesSame
<1>2. /\ order \in {"pre", "post"} /\ stack \in Seq(Entries) /\ yielded \in Seq(Entries)
      /\ refs = <<>> /\ refs' = <<>>
  BY <1>0, OrderIs
<1>n. PICK n \in Nat : n = Len(stack) /\ n > 0
  BY <1>2
<1>s. PICK e \in Entries : e = Last(stack) /\ e = stack[n]
  BY <1>2, <1>n, FrontIs
<1>p. PICK f \in Seq(Entries) : f = Front(stack) /\ Len(f) = n - 1 /\ \A k \in 1 .. (n - 1) : f[k] = stack[k]
  BY <1>2, <1>n, FrontIs
<1>3. /\ e.color = "grey" =>
           /\ Len(stack') = n /\ \A k \in 1 .. (n - 1) : stack'[k] = stack[k]
           /\ stack'[n] = [e EXCEPT !.color = "black"]
      /\ e.color # "grey" => Len(stack') = n - 1 /\ \A k \in 1 .. (n - 1) : stack'[k] = stack[k]
  <2>1. CASE e.color = "grey"
    <3>1. PICK b \in Entries : b = [e EXCEPT !.color = "black"]
      BY EntryType
    <3>2. stack' = Append(f, b)
      BY <2>1, <3>1, <1>s, <1>p DEF Repushed
    <3>3. /\ Len(stack') = Len(f) + 1 /\ \A k \in 1 .. Len(f) : stack'[k] = f[k]
          /\ stack'[Len(f) + 1] = b
      BY <3>2, AppendIs
    <3> QED BY <2>1, <3>1, <3>3, <1>p, <1>n
  <2>2. CASE e.color # "grey"
    <3>1. stack' = f
      BY <2>2, <1>s, <1>p
    <3> QED BY <2>2, <3>1, <1>p
  <2> QED BY <2>1, <2>2
<1>4. /\ Colors /\ Once /\ Matched(e)
      /\ e.color # "black" /\ e.color \in {"root"} \cup (IF order = "post" THEN {"grey"} ELSE {"pre"})
      /\ e.color = "root" => n = 1 /\ yielded = <<>>
  <2>1. Colors /\ Once
    BY DEF IterInv
  <2>2. Matched(e)
    BY <1>n, <1>s DEF IterInv, StackMatch
  <2>3. /\ e.color # "black" /\ e.color \in {"root"} \cup (IF order = "post" THEN {"grey", "black"} ELSE {"pre"})
        /\ e.color = "root" => n = 1 /\ yielded = <<>>
    BY <1>n, <1>s, <2>1 DEF Colors
  <2> QED BY <2>1, <2>2, <2>3, <1>2
<1> DEFINE x == e.id
<1>5. /\ \A c : Returned(c)' <=> Returned(c)
      /\ \A c : ~ InHand(c) /\ ~ Listed(c) /\ ~ Listed(c)'
      /\ \A c : InHand(c)' <=> e.color = "pre" /\ c = x
  <2>1. \A c : Returned(c)' <=> Returned(c)
    BY DEF Returned
  <2>2. \A c : ~ InHand(c) /\ ~ Listed(c) /\ ~ Listed(c)'
    BY <1>2 DEF InHand, Listed, Expanding
  <2>3. \A c : InHand(c)' <=> e.color = "pre" /\ c = x
    BY <1>s DEF InHand, Expanding
  <2> QED BY <2>1, <2>2, <2>3
<1>6. /\ e.color = "grey" => \A k \in 1 .. n : stack'[k].id = stack[k].id
      /\ e.color = "grey" => stack'[n].color = "black"
  <2>1. e.color = "grey" => [e EXCEPT !.color = "black"].id = e.id /\ [e EXCEPT !.color = "black"].color = "black"
    BY DEF Entries
  <2>2. e.color = "grey" => stack'[n].id = stack[n].id /\ stack'[n].color = "black"
    BY <2>1, <1>3, <1>s, <1>n
  <2>3. e.color = "grey" => \A k \in 1 .. (n - 1) : stack'[k].id = stack[k].id
    BY <1>3
  <2>4. \A k \in 1 .. n : k = n \/ k \in 1 .. (n - 1)
    OBVIOUS
  <2> QED BY <2>2, <2>3, <2>4
<1>7. \A c : OnStack(c) <=> OnStack(c)' \/ (e.color # "grey" /\ c = x)
  <2>1. CASE e.color = "grey"
    BY <2>1, <1>3, <1>6, <1>n DEF OnStack
  <2>2. CASE e.color # "grey"
    <3>1. \A c : OnStack(c) <=> \E k \in 1 .. n : stack[k].id = c
      BY <1>n DEF OnStack
    <3>2. \A c : OnStack(c)' <=> \E k \in 1 .. (n - 1) : stack[k].id = c
      BY <2>2, <1>3 DEF OnStack
    <3> QED BY <3>1, <3>2, <2>2, <1>s, <1>n
  <2> QED BY <2>1, <2>2
<1>8. OnStack(x) /\ (x = Target <=> e.color = "root")
  BY <1>s, <1>n, <1>4 DEF OnStack, Matched
<1>9. \A c : c # Target => (Seen(c)' <=> Seen(c))
  BY <1>4, <1>5, <1>7, <1>8 DEF Seen
<1>10. \A c : Waiting(c)' <=> Waiting(c)
  <2>1. \A c : Waiting(c) <=> \E k \in 1 .. n : stack[k].id = c /\ stack[k].color # "black"
    BY <1>5, <1>n DEF Waiting
  <2>2. \A c : Waiting(c)' <=> c = x \/ \E k \in 1 .. (n - 1) : stack[k].id = c /\ stack[k].color # "black"
    <3>1. \A c : Waiting(c)' <=> c = x \/ \E k \in 1 .. Len(stack') : stack'[k].id = c /\ stack'[k].color # "black"
      BY <1>5, <1>s DEF Waiting
    <3>2. CASE e.color = "grey"
      BY <3>1, <3>2, <1>3, <1>6, <1>n
    <3>3. CASE e.color # "grey"
      BY <3>1, <3>3, <1>3
    <3> QED BY <3>2, <3>3
  <2> QED BY <2>1, <2>2, <1>s, <1>n, <1>4
<1>11. \A c : Opened(c)' <=> Opened(c)
  <2>1. CASE e.color = "root"
    BY <2>1, <1>5, <1>7, <1>8, <1>10 DEF Opened
  <2>2. CASE e.color # "root"
    BY <2>2, <1>4, <1>5, <1>7, <1>8, <1>10 DEF Opened
  <2> QED BY <2>1, <2>2
<1>12. \A c \in Stable : OnStack(c)' /\ e.color = "pre" => c # x
  <2>2. ASSUME NEW k \in 1 .. (n - 1), stack[k].id \in Stable, stack[k].id = stack[n].id PROVE FALSE
    BY <1>n, <1>4, <2>2 DEF Once
  <2>3. ASSUME e.color = "pre", NEW c \in Stable, OnStack(c)' PROVE c # x
    <3>1. \E k \in 1 .. (n - 1) : stack[k].id = c
      BY <2>3, <1>3 DEF OnStack
    <3> QED BY <3>1, <2>2, <2>3, <1>s
  <2> QED BY <2>3
<1>13. \A c \in Stable : c # Target /\ c \in Home
  BY <1>0, HomeFacts
<1> HIDE DEF x
<1>a. StackMatch'
  <2>1. \A k \in 1 .. Len(stack') : \/ \E l \in 1 .. Len(stack) : stack'[k] = stack[l]
                                    \/ \E l \in 1 .. Len(stack) : stack'[k] = [stack[l] EXCEPT !.color = "black"] /\ stack[l].color # "root"
    BY SMTT(20), <1>3, <1>s, <1>n
  <2>2. \E l \in 1 .. Len(stack) : ent' = stack[l]
    BY <1>s, <1>n
  <2> QED BY <1>0, <2>1, <2>2, StackMatchSame DEF IterInv
<1>b. Colors'
  <2>1. \A k \in 1 .. Len(stack') : stack'[k].color \in IF order = "post" THEN {"grey", "black"} ELSE {"pre"}
    <3>1. \A k \in 1 .. (n - 1) : stack[k].color \in IF order = "post" THEN {"grey", "black"} ELSE {"pre"}
      BY <1>4, <1>n DEF Colors
    <3>2. CASE e.color = "grey"
      <4>1. order = "post"
        BY <3>2, <1>4
      <4> QED BY <3>1, <3>2, <4>1, <1>3, <1>6, <1>n
    <3>3. CASE e.color # "grey"
      BY <3>1, <3>3, <1>3
    <3> QED BY <3>2, <3>3
  <2>2. ent'.color = "grey" => \E k \in 1 .. Len(stack') : stack'[k].id = ent'.id /\ stack'[k].color = "black"
    BY <1>3, <1>6, <1>s, <1>n
  <2>3. ent'.color \in {"root"} \cup (IF order = "post" THEN {"grey"} ELSE {"pre"})
    BY <1>4, <1>s
  <2>4. \A k \in 1 .. Len(stack') : stack'[k].color # "root"
    BY <2>1
  <2>5. \A k \in 1 .. Len(stack') : stack'[k].color \in {"root"} \cup (IF order = "post" THEN {"grey", "black"} ELSE {"pre"})
    BY <2>1
  <2> QED BY <2>2, <2>3, <2>4, <2>5 DEF Colors
<1>c. RefsOK'
  BY <1>2 DEF RefsOK
<1>d. Once'
  <2>2. \A c \in Stable : \A i, j \in 1 .. Len(stack') : stack'[i].id = c /\ stack'[j].id = c => i = j
    <3>1. \A c \in Stable : \A i, j \in 1 .. n : stack[i].id = c /\ stack[j].id = c => i = j
      BY <1>4, <1>n DEF Once
    <3>2. CASE e.color = "grey"
      BY <3>1, <3>2, <1>3, <1>6
    <3>3. CASE e.color # "grey"
      BY <3>1, <3>3, <1>3
    <3> QED BY <3>2, <3>3
  <2>3. \A c \in Stable : \A i, j \in 1 .. Len(refs') : refs'[i] = c /\ refs'[j] = c => i = j
    BY <1>2
  <2>4. \A c \in Stable : ~ (Returned(c)' /\ OnStack(c)') /\ ~ (Returned(c)' /\ InHand(c)') /\ ~ (OnStack(c)' /\ InHand(c)')
    <3>1. \A c \in Stable : ~ (Returned(c) /\ OnStack(c))
      BY <1>4 DEF Once
    <3> QED BY <3>1, <1>5, <1>7, <1>8, <1>12
  <2> QED BY <2>2, <2>3, <2>4, <1>1, <1>5 DEF Once
<1>e. Fresh'
  BY <1>1, <1>9, <1>10, <1>13 DEF IterInv, Fresh
<1>f. Covered'
  <2>1. Covered
    BY DEF IterInv
  <2>2. \A c \in Stable : Hidden(c) => ~ Returned(c)' /\ ~ OnStack(c)' /\ ~ InHand(c)'
    BY <2>1, <1>5, <1>7, <1>8 DEF Covered
  <2> QED BY <2>1, <2>2, <1>1, <1>9, <1>11, <1>13 DEF Covered
<1>g. ParentFirst'
  <2>1. SUFFICES ASSUME order = "pre", NEW c \in Stable, NEW p \in Stable, vols[c].parent = p
        PROVE  /\ Waiting(p)' \/ InHand(p)' => ~ Returned(c)'
               /\ OnStack(c)' \/ Listed(c)' \/ InHand(c)' => ~ OnStack(p)'
               /\ \A i, j \in 1 .. Len(yielded') : yielded'[i].id = p /\ yielded'[j].id = c => i < j
    BY <1>1 DEF ParentFirst
  <2>2. /\ Waiting(p) \/ InHand(p) => ~ Returned(c)
        /\ OnStack(c) => ~ OnStack(p)
        /\ \A i, j \in 1 .. Len(yielded) : yielded[i].id = p /\ yielded[j].id = c => i < j
    BY <2>1 DEF IterInv, ParentFirst
  <2>3. InHand(p)' => Waiting(p)
    BY <1>5, <1>8, <1>10, <1>s, <1>n, <1>4 DEF Waiting, x
  <2> QED BY <2>2, <2>3, <1>5, <1>7, <1>8, <1>10
<1>h. ParentLast'
  <2>1. SUFFICES ASSUME order = "post", NEW c \in Stable, NEW p \in Stable, vols[c].parent = p
        PROVE /\ \A k \in 1 .. Len(stack') : stack'[k].id = c => \E l \in 1 .. (k - 1) : stack'[l].id = p
              /\ \A i, j \in 1 .. Len(yielded) : yielded[i].id = p /\ yielded[j].id = c => j < i
    BY <1>1, <1>5 DEF ParentLast
  <2>2. /\ \A k \in 1 .. n : stack[k].id = c => \E l \in 1 .. (k - 1) : stack[l].id = p
        /\ \A i, j \in 1 .. Len(yielded) : yielded[i].id = p /\ yielded[j].id = c => j < i
    BY <2>1, <1>n DEF IterInv, ParentLast
  <2>3. Len(stack') \in {n, n - 1} /\ \A k \in 1 .. Len(stack') : stack'[k].id = stack[k].id
    BY <1>3, <1>6
  <2>4. ASSUME NEW k \in 1 .. Len(stack'), stack'[k].id = c PROVE \E l \in 1 .. (k - 1) : stack'[l].id = p
    BY <2>2, <2>3, <2>4, <1>n
  <2> QED BY <2>2, <2>4
<1>i. InTurn'
  <2>1. SUFFICES ASSUME NEW c \in Stable, NEW d \in Stable, Siblings(c, d)
        PROVE /\ \A k, l \in 1 .. Len(stack') : stack'[k].id = c /\ stack'[l].id = d => l < k
              /\ \A i, j \in 1 .. Len(yielded) : yielded[i].id = c /\ yielded[j].id = d => i < j
              /\ InHand(d)' \/ Returned(d)' => ~ OnStack(c)' /\ ~ InHand(c)'
    BY <1>1, <1>2, <1>5 DEF InTurn
  <2>2. /\ \A k, l \in 1 .. n : stack[k].id = c /\ stack[l].id = d => l < k
        /\ \A i, j \in 1 .. Len(yielded) : yielded[i].id = c /\ yielded[j].id = d => i < j
        /\ Returned(d) => ~ OnStack(c)
    BY <2>1, <1>n DEF IterInv, InTurn
  <2>3. c # d
    BY <2>1 DEF Siblings
  <2>4. Len(stack') \in {n, n - 1} /\ \A k \in 1 .. Len(stack') : stack'[k].id = stack[k].id
    BY <1>3, <1>6
  <2>5. \A k, l \in 1 .. Len(stack') : stack'[k].id = c /\ stack'[l].id = d => l < k
    BY <2>2, <2>4, <1>n
  <2>6. InHand(d)' => ~ OnStack(c)'
    <3>1. ASSUME e.color = "pre", d = x, NEW k \in 1 .. (n - 1), stack[k].id = c PROVE FALSE
      <4>1. n \in 1 .. n /\ k \in 1 .. n /\ stack[n].id = d
        BY <3>1, <1>n, <1>s DEF x
      <4>2. n < k
        BY <2>2, <3>1, <4>1
      <4> QED BY <4>2
    <3>2. InHand(d)' => e.color = "pre" /\ d = x
      BY <1>5
    <3> QED BY <3>1, <3>2, <1>3 DEF OnStack
  <2>7. InHand(c)' => OnStack(c) /\ c = x
    BY <1>5, <1>8
  <2>8. InHand(d)' => d = x
    BY <1>5
  <2> QED BY <2>2, <2>3, <2>5, <2>6, <2>7, <2>8, <1>5, <1>7
<1> QED BY <1>a, <1>b, <1>c, <1>d, <1>e, <1>f, <1>g, <1>h, <1>i DEF IterInv

\* One that is being expanded is on the stack as such, or not at all.
LEMMA InHandIs ==
  ASSUME PlacesType, PlacesOK, WalkType, IterInv, Expanding
  PROVE  /\ \A k \in 1 .. Len(stack) : stack[k].color # "root"
         /\ ~ \E k \in 1 .. Len(stack) : stack[k].id = ent.id /\ stack[k].color # "black" /\ ent.id \in Home
         /\ ent.id = Target \/ OnStack(ent.id) \/ InHand(ent.id)
         /\ ent.id # Target /\ order = "pre" => InHand(ent.id)
         /\ ent.id # Target /\ order = "post" => OnStack(ent.id) /\ ~ InHand(ent.id)
<1>1. Colors /\ Once /\ StackMatch /\ order \in {"pre", "post"} /\ stack \in Seq(Entries)
  BY OrderIs DEF IterInv
<1>2. \A k \in 1 .. Len(stack) : stack[k].color # "root"
  <2>1. pc # "pop"
    BY DEF Expanding
  <2> QED BY <2>1, <1>1 DEF Colors
<1>3. (ent.id = Target <=> ent.color = "root") /\ \A k \in 1 .. Len(stack) : stack[k].id = Target <=> stack[k].color = "root"
  BY <1>1 DEF StackMatch, Matched
<1>4. ent.id # Target => ent.color = IF order = "post" THEN "grey" ELSE "pre"
  BY <1>1, <1>3 DEF Colors
<1>5. ent.color = "grey" => \E k \in 1 .. Len(stack) : stack[k].id = ent.id /\ stack[k].color = "black"
  BY <1>1 DEF Colors
<1>6. ent.color = "grey" => OnStack(ent.id)
  BY <1>5 DEF OnStack
<1>7. ent.color = "pre" <=> InHand(ent.id)
  BY DEF InHand
<1>8. ASSUME NEW k \in 1 .. Len(stack), stack[k].id = ent.id, stack[k].color # "black", ent.id \in Home PROVE FALSE
  <2>1. ent.id # Target
    BY <1>2, <1>3, <1>8
  <2>2. ent.id \in Stable
    BY <2>1, <1>8 DEF Home
  <2>3. OnStack(ent.id)
    BY <1>8 DEF OnStack
  <2>4. ent.color = "grey"
    BY <2>1, <2>2, <2>3, <1>1, <1>4, <1>7 DEF Once
  <2>5. PICK l \in 1 .. Len(stack) : stack[l].id = ent.id /\ stack[l].color = "black"
    BY <2>4, <1>5
  <2>6. k = l
    BY <2>2, <2>5, <1>1, <1>8 DEF Once
  <2> QED BY <2>5, <2>6, <1>8
<1>9. /\ ent.id = Target \/ OnStack(ent.id) \/ InHand(ent.id)
      /\ ent.id # Target /\ order = "pre" => InHand(ent.id)
      /\ ent.id # Target /\ order = "post" => OnStack(ent.id) /\ ~ InHand(ent.id)
  BY <1>1, <1>4, <1>6, <1>7
<1> QED BY <1>2, <1>8, <1>9

\* The children are listed.
LEMMA ListsChildren ==
  ASSUME TypeInv, PlacesOK, IterInv, UNCHANGED <<vols, disturbed>>,
         pc = "list", pc' = "lookup", refs' = PushOrder(Ascending(Children(ent.file))),
         UNCHANGED <<order, direction, outside, stack, ent, yielded, erred>>
  PROVE  IterInv'
<1>0. PlacesType /\ WalkType
  BY DEF TypeInv
<1>1. /\ Stable' = Stable /\ Home' = Home
      /\ \A w : Under(w)' = Under(w)
      /\ \A c : Hidden(c)' <=> Hidden(c)
      /\ \A c, d : Siblings(c, d)' <=> Siblings(c, d)
  BY PlacesSame
<1>2. /\ order \in {"pre", "post"} /\ stack \in Seq(Entries) /\ yielded \in Seq(Entries)
      /\ refs = <<>> /\ ent \in Entries /\ direction \in Directions
  BY <1>0, OrderIs DEF WalkType
<1> DEFINE S == Children(ent.file)
           x == ent.id
<1>p. PICK r \in Seq(Ids) : r = refs'
  <2>1. S \subseteq Ids
    BY <1>0, ChildrenAre
  <2> QED BY <1>2, <2>1, PushOrderIs
<1>3. /\ Len(r) \in Nat
      /\ \A i \in 1 .. Len(r) : r[i] \in S
      /\ \A c \in S : \E i \in 1 .. Len(r) : r[i] = c
      /\ \A i, j \in 1 .. Len(r) : i # j => r[i] # r[j]
      /\ \A i, j \in 1 .. Len(r) : First(r[j], r[i]) /\ r[j] # r[i] => i < j
  <2>1. S \subseteq Ids
    BY <1>0, ChildrenAre
  <2> QED BY <1>p, <1>2, <2>1, PushOrderIs
<1>4. Expanding /\ Expanding'
  BY DEF Expanding
<1>5. /\ \A c : Returned(c)' <=> Returned(c)
      /\ \A c : OnStack(c)' <=> OnStack(c)
      /\ \A c : InHand(c)' <=> InHand(c)
      /\ \A c : ~ Listed(c)
  BY <1>2, <1>4 DEF Returned, OnStack, InHand, Listed
<1>6. \A c : Listed(c)' <=> c \in S
  BY <1>3, <1>p DEF Listed
<1>7. \A c : Seen(c)' <=> Seen(c) \/ c \in S
  BY <1>5, <1>6 DEF Seen
<1>8. \A p : Waiting(p)' <=> (Waiting(p) /\ \E k \in 1 .. Len(stack) : stack[k].id = p /\ stack[k].color # "black") \/ p \in S
  BY <1>6 DEF Waiting
<1>9. \A p : Waiting(p) <=> p = x \/ \E k \in 1 .. Len(stack) : stack[k].id = p /\ stack[k].color # "black"
  BY <1>5 DEF Waiting
<1>10. /\ \A k \in 1 .. Len(stack) : stack[k].color # "root"
       /\ ~ \E k \in 1 .. Len(stack) : stack[k].id = x /\ stack[k].color # "black" /\ x \in Home
       /\ x = Target \/ OnStack(x) \/ InHand(x)
       /\ x # Target /\ order = "pre" => InHand(x)
       /\ x # Target /\ order = "post" => OnStack(x) /\ ~ InHand(x)
  BY <1>0, <1>4, InHandIs
<1>11. /\ \A c \in Stable :
             /\ c \in DOMAIN vols /\ c \in Ids /\ c \in Nat /\ c \notin disturbed /\ c # Target /\ c \in Home
             /\ vols[c].parent \in Home /\ vols[c].parent # c
       /\ \A c \in DOMAIN vols : vols[c].parent \in Home /\ c \notin disturbed => c \in Stable
       /\ \A g \in Home : g # Target => g \in Stable
       /\ Dir \notin Home /\ Target \in Home /\ Target \notin Stable
  BY <1>0, HomeFacts
<1>12. /\ \A c \in Stable, p \in Home : vols[c].parent = p => c \in Under(p)
       /\ \A d \in Stable, w \in Home : d \in Under(w) => vols[d].parent = w \/ vols[d].parent \in Under(w)
       /\ \A k \in Stable, w \in Home : k \in Under(w) => Under(k) \subseteq Under(w)
       /\ \A w \in Home : Target \notin Under(w)
  BY <1>0, UnderHome
<1>13. \A g \in Home : x = g <=> ent.file = g
  BY DEF IterInv, StackMatch, Matched
<1>14. Target \notin S
  <2>1. Near(ent.file)
    BY DEF IterInv, StackMatch, Matched
  <2> QED BY <1>0, <2>1, NotTheTarget
<1>15. \A c \in Stable : c \in S <=> vols[c].parent = x
  BY <1>11, <1>13 DEF Children
<1>16. \A c \in Stable : c \in S => x \in Home /\ c \in Under(x) /\ ~ Seen(c)
  <2>1. \A c \in Stable : c \in S => x \in Home /\ c \in Under(x)
    BY <1>11, <1>12, <1>15
  <2> QED BY <2>1, <1>9 DEF IterInv, Fresh
<1>17. x \in Stable => Seen(x)
  BY <1>10, <1>11 DEF Seen
<1>18. x \notin S \/ x \notin Home
  BY <1>11, <1>14, <1>15
<1> HIDE DEF S, x
<1>a. StackMatch'
  BY <1>0, StackMatchSame DEF IterInv
<1>b. Colors'
  BY <1>4, <1>10 DEF IterInv, Colors
<1>c. RefsOK'
  <2>1. \A k \in 1 .. Len(r) : r[k] # Target
    BY <1>3, <1>14
  <2>2. \A k \in 1 .. Len(r) : r[k] \in Stable => vols[r[k]].parent = ent.file
    BY <1>3 DEF S, Children
  <2> QED BY <2>1, <2>2, <1>1, <1>p DEF RefsOK
<1>d. Once'
  <2>1. \A c \in Stable : \A i, j \in 1 .. Len(r) : r[i] = c /\ r[j] = c => i = j
    BY <1>3
  <2>2. \A c \in Stable : c \in S => ~ Returned(c) /\ ~ OnStack(c) /\ ~ InHand(c)
    BY <1>16 DEF Seen
  <2>3. Once
    BY DEF IterInv
  <2> QED BY <2>1, <2>2, <2>3, <1>1, <1>5, <1>6, <1>p DEF Once
<1>e. Fresh'
  <2>1. SUFFICES ASSUME NEW w \in Home, Waiting(w)', NEW d \in Stable, d \in Under(w) PROVE ~ Seen(d) /\ d \notin S
    BY <1>1, <1>7 DEF Fresh
  <2>2. \A u \in Home : Waiting(u) => \A y \in Stable : y \in Under(u) => ~ Seen(y)
    BY DEF IterInv, Fresh
  <2>3. CASE w \in S
    <3>1. w \in Stable /\ x \in Home /\ w \in Under(x) /\ Waiting(x) /\ x # w
      BY <2>3, <1>11, <1>14, <1>15, <1>16, <1>9
    <3>2. d \in Under(x)
      BY <2>1, <3>1, <1>12
    <3>3. ~ Seen(d)
      BY <3>1, <3>2, <2>2
    <3>4. d \notin S
      <4>1. SUFFICES ASSUME d \in S PROVE FALSE
        OBVIOUS
      <4>2. x \in Under(w)
        BY <2>1, <3>1, <4>1, <1>12, <1>15
      <4>3. x \in Under(x)
        BY <3>1, <4>2, <1>12
      <4>4. x \in Stable
        BY <3>1, <4>3, <1>11, <1>12
      <4> QED BY <4>3, <4>4, <3>1, <2>2, <1>17
    <3> QED BY <3>3, <3>4
  <2>4. CASE w \notin S
    <3>1. Waiting(w) /\ w # x
      BY <2>1, <2>4, <1>8, <1>10
    <3>2. ~ Seen(d)
      BY <2>1, <2>2, <3>1
    <3>3. d \notin S
      <4>1. SUFFICES ASSUME d \in S PROVE FALSE
        OBVIOUS
      <4>2. x \in Home /\ x \in Under(w)
        BY <2>1, <3>1, <4>1, <1>12, <1>15, <1>16
      <4>3. x \in Stable
        BY <2>1, <4>2, <1>11, <1>12
      <4> QED BY <2>1, <4>2, <4>3, <3>1, <2>2, <1>17
    <3> QED BY <3>2, <3>3
  <2> QED BY <2>3, <2>4
<1>f. Covered'
  <2>1. Covered
    BY DEF IterInv
  <2>2. ASSUME ~ erred, NEW c \in Stable PROVE Seen(c)' => Opened(vols[c].parent)'
    <3> DEFINE p == vols[c].parent
    <3>1. p \in Home
      BY <1>11
    <3>2. CASE c \in S
      <4>1. PICK q \in Home : q = p /\ q = x
        BY <3>1, <3>2, <1>15
      <4>2. ~ Waiting(q)'
        BY <4>1, <1>8, <1>10, <1>18
      <4>3. q = Target \/ OnStack(q)' \/ InHand(q)'
        BY <4>1, <1>5, <1>10
      <4>4. Opened(q)'
        BY <4>2, <4>3 DEF Opened
      <4>5. vols'[c].parent = q
        BY <4>1
      <4> QED BY <4>4, <4>5
    <3>3. CASE c \notin S
      <4>1. SUFFICES ASSUME Seen(c) PROVE Opened(p)'
        BY <3>3, <1>7
      <4>2. Opened(p)
        BY <2>1, <2>2, <4>1 DEF Covered
      <4>3. ~ Waiting(p) /\ (p = Target \/ Returned(p) \/ OnStack(p) \/ InHand(p))
        BY <4>2 DEF Opened
      <4>4. p \notin S
        <5>1. SUFFICES ASSUME p \in S PROVE FALSE
          OBVIOUS
        <5>2. p # Target /\ p \in Stable
          BY <3>1, <5>1, <1>11, <1>14
        <5>3. ~ Seen(p)
          BY <5>1, <5>2, <1>16
        <5> QED BY <4>3, <5>2, <5>3 DEF Seen
      <4>5. ~ Waiting(p)'
        BY <4>3, <4>4, <1>8
      <4> QED BY <4>3, <4>5, <1>5 DEF Opened
    <3> QED BY <3>2, <3>3
  <2>3. ASSUME ~ erred, NEW c \in Stable, Opened(vols[c].parent)', ~ Hidden(c) PROVE Seen(c)'
    <3> DEFINE p == vols[c].parent
    <3>1. ~ Waiting(p)' /\ (p = Target \/ Returned(p) \/ OnStack(p) \/ InHand(p))
      BY <2>3, <1>5 DEF Opened
    <3>2. CASE Waiting(p)
      <4>1. p = x
        BY <3>1, <3>2, <1>8, <1>9
      <4> QED BY <4>1, <1>7, <1>15
    <3>3. CASE ~ Waiting(p)
      <4>1. Opened(p)
        BY <3>1, <3>3 DEF Opened
      <4>2. Seen(c)
        BY <2>1, <2>3, <4>1 DEF Covered
      <4> QED BY <4>2, <1>7
    <3> QED BY <3>2, <3>3
  <2>4. \A c \in Stable : Hidden(c) => ~ Returned(c)' /\ ~ OnStack(c)' /\ ~ InHand(c)'
    BY <2>1, <1>5 DEF Covered
  <2> QED BY <2>2, <2>3, <2>4, <1>1 DEF Covered
<1>g. ParentFirst'
  <2>1. SUFFICES ASSUME order = "pre", NEW c \in Stable, NEW p \in Stable, vols[c].parent = p
        PROVE  /\ Waiting(p)' \/ InHand(p)' => ~ Returned(c)'
               /\ OnStack(c)' \/ Listed(c)' \/ InHand(c)' => ~ OnStack(p)'
               /\ \A i, j \in 1 .. Len(yielded) : yielded[i].id = p /\ yielded[j].id = c => i < j
    BY <1>1 DEF ParentFirst
  <2>2. /\ Waiting(p) \/ InHand(p) => ~ Returned(c)
        /\ OnStack(c) \/ InHand(c) => ~ OnStack(p)
        /\ \A i, j \in 1 .. Len(yielded) : yielded[i].id = p /\ yielded[j].id = c => i < j
    BY <2>1 DEF IterInv, ParentFirst
  <2>3. p \in S => ~ Returned(c)
    <3>1. SUFFICES ASSUME p \in S PROVE ~ Seen(c)
      BY DEF Seen
    <3>2. x \in Home /\ p \in Under(x) /\ Waiting(x)
      BY <3>1, <1>9, <1>16
    <3>3. c \in Under(p) /\ p \in Home
      BY <2>1, <1>11, <1>12
    <3>4. c \in Under(x)
      BY <3>2, <3>3, <1>12
    <3> QED BY <3>2, <3>4 DEF IterInv, Fresh
  <2>4. c \in S => ~ OnStack(p)
    <3>1. SUFFICES ASSUME c \in S PROVE ~ OnStack(p)
      OBVIOUS
    <3>2. p = x /\ x # Target
      BY <2>1, <3>1, <1>11, <1>15
    <3>3. InHand(p)
      BY <2>1, <3>2, <1>10
    <3> QED BY <3>3 DEF IterInv, Once
  <2> QED BY <2>2, <2>3, <2>4, <1>5, <1>6, <1>8
<1>h. ParentLast'
  <2>1. SUFFICES ASSUME order = "post", NEW c \in Stable, NEW p \in Stable, vols[c].parent = p
        PROVE /\ \A k \in 1 .. Len(stack) : stack[k].id = c => \E l \in 1 .. (k - 1) : stack[l].id = p
              /\ \A i, j \in 1 .. Len(yielded) : yielded[i].id = p /\ yielded[j].id = c => j < i
              /\ c \in S => OnStack(p)
    BY <1>1, <1>5, <1>6 DEF ParentLast
  <2>2. c \in S => OnStack(p)
    BY <2>1, <1>10, <1>11, <1>15
  <2> QED BY <2>1, <2>2 DEF IterInv, ParentLast
<1>i. InTurn'
  <2>1. SUFFICES ASSUME NEW c \in Stable, NEW d \in Stable, Siblings(c, d)
        PROVE /\ \A k, l \in 1 .. Len(stack) : stack[k].id = c /\ stack[l].id = d => l < k
              /\ \A i, j \in 1 .. Len(yielded) : yielded[i].id = c /\ yielded[j].id = d => i < j
              /\ \A k, l \in 1 .. Len(r) : r[k] = c /\ r[l] = d => l < k
              /\ d \in S => ~ OnStack(c) /\ ~ InHand(c) /\ ~ Returned(c)
              /\ InHand(d) \/ Returned(d) => ~ OnStack(c) /\ ~ InHand(c) /\ c \notin S
    BY <1>1, <1>5, <1>6, <1>p DEF InTurn
  <2>2. c # d /\ First(c, d) /\ vols[c].parent = vols[d].parent
    BY <2>1 DEF Siblings
  <2>3. c \in S <=> d \in S
    BY <2>2, <1>15
  <2>4. d \in S => ~ Seen(c)
    BY <2>3, <1>16
  <2>5. c \in S => ~ Seen(d)
    BY <2>3, <1>16
  <2>6. \A k, l \in 1 .. Len(r) : r[k] = c /\ r[l] = d => l < k
    BY <2>2, <1>3
  <2>7. /\ \A k, l \in 1 .. Len(stack) : stack[k].id = c /\ stack[l].id = d => l < k
        /\ \A i, j \in 1 .. Len(yielded) : yielded[i].id = c /\ yielded[j].id = d => i < j
        /\ InHand(d) \/ Returned(d) => ~ OnStack(c) /\ ~ InHand(c)
    BY <2>1 DEF IterInv, InTurn
  <2> QED BY <2>4, <2>5, <2>6, <2>7 DEF Seen
<1> QED BY <1>a, <1>b, <1>c, <1>d, <1>e, <1>f, <1>g, <1>h, <1>i DEF IterInv

\* All children are pushed, and a pre-order entry is returned.
LEMMA ExpandedYields ==
  ASSUME TypeInv, PlacesOK, YieldedMatch, YieldedOnce, IterInv, UNCHANGED <<vols, disturbed>>,
         pc = "lookup", refs = <<>>, ent.color = "pre", Yield(ent),
         UNCHANGED <<order, direction, outside, stack, ent, refs, erred>>
  PROVE  YieldedMatch' /\ YieldedOnce' /\ IterInv'
<1>0. PlacesType /\ WalkType
  BY DEF TypeInv
<1>1. /\ Stable' = Stable /\ Home' = Home
      /\ \A w : Under(w)' = Under(w)
      /\ \A c : Hidden(c)' <=> Hidden(c)
      /\ \A c, d : Siblings(c, d)' <=> Siblings(c, d)
  BY PlacesSame
<1>2. /\ order \in {"pre", "post"} /\ stack \in Seq(Entries) /\ yielded \in Seq(Entries)
      /\ pc' = "item" /\ Expanding /\ ~ Expanding'
  BY <1>0, OrderIs DEF Yield, Expanding
<1>m. PICK m \in Nat : m = Len(yielded)
  BY <1>2
<1>s. PICK e \in Entries : e = ent
  BY <1>0, OrderIs
<1>5. Len(yielded') = m + 1 /\ yielded'[m + 1] = e /\ \A i \in 1 .. m : yielded'[i] = yielded[i]
  <2>1. yielded' = Append(yielded, e)
    BY <1>s DEF Yield
  <2> QED BY <1>2, <1>m, <2>1, AppendIs
<1>6. Matched(e) /\ e.color = "pre" /\ order = "pre" /\ Once /\ Colors
  <2>1. Matched(e)
    BY <1>s DEF IterInv, StackMatch
  <2>2. order # "post"
    BY DEF IterInv, Colors
  <2> QED BY <1>2, <1>s, <2>1, <2>2 DEF IterInv
<1> DEFINE x == e.id
<1>7. /\ \A c : Returned(c)' <=> Returned(c) \/ c = x
      /\ \A c : OnStack(c)' <=> OnStack(c)
      /\ \A c : ~ InHand(c)' /\ ~ Listed(c) /\ ~ Listed(c)'
      /\ \A c : InHand(c) <=> c = x
  <2>1. \A c : Returned(c)' <=> Returned(c) \/ c = x
    BY <1>m, <1>5 DEF Returned
  <2>2. \A c : OnStack(c)' <=> OnStack(c)
    BY DEF OnStack
  <2>3. \A c : ~ InHand(c)' /\ ~ Listed(c) /\ ~ Listed(c)'
    BY <1>2 DEF InHand, Listed
  <2>4. \A c : InHand(c) <=> c = x
    BY <1>2, <1>s DEF InHand
  <2> QED BY <2>1, <2>2, <2>3, <2>4
<1>8. \A c : Seen(c)' <=> Seen(c)
  BY <1>7 DEF Seen
<1>9. \A c : Waiting(c)' <=> Waiting(c)
  BY <1>2, <1>7 DEF Waiting
<1>10. \A c : Opened(c)' <=> Opened(c)
  BY <1>7, <1>9 DEF Opened
<1>11. \A c \in Stable : c = x => ~ Returned(c)
  BY <1>6, <1>7 DEF Once
<1>12. \A c \in Stable : c = x => \A i \in 1 .. m : yielded[i].id # c
  BY <1>11, <1>m DEF Returned
<1> HIDE DEF x
<1>a. StackMatch'
  BY <1>0, StackMatchSame DEF IterInv
<1>b. Colors'
  <2>1. \A k \in 1 .. Len(stack) : stack[k].color # "root"
    BY <1>6 DEF Colors
  <2> QED BY <2>1, <1>2, <1>6 DEF Colors
<1>c. RefsOK'
  BY <1>2 DEF RefsOK
<1>d. Once'
  BY <1>1, <1>6, <1>7 DEF Once
<1>e. Fresh'
  BY <1>1, <1>8, <1>9 DEF IterInv, Fresh
<1>f. Covered'
  BY <1>1, <1>2, <1>7, <1>8, <1>10 DEF IterInv, Covered
<1>g. ParentFirst'
  <2>1. SUFFICES ASSUME NEW c \in Stable, NEW p \in Stable, vols[c].parent = p
        PROVE  /\ Waiting(p) => ~ Returned(c)'
               /\ OnStack(c) => ~ OnStack(p)
               /\ \A i, j \in 1 .. Len(yielded') : yielded'[i].id = p /\ yielded'[j].id = c => i < j
    BY <1>1, <1>7, <1>9 DEF ParentFirst
  <2>2. /\ Waiting(p) \/ InHand(p) => ~ Returned(c)
        /\ OnStack(c) => ~ OnStack(p)
        /\ \A i, j \in 1 .. m : yielded[i].id = p /\ yielded[j].id = c => i < j
    BY <2>1, <1>6, <1>m DEF IterInv, ParentFirst
  <2>3. c # p
    BY <2>1, <1>0, HomeFacts
  <2>4. Waiting(p) => c # x
    <3>1. p \in Home
      BY <1>0, HomeFacts
    <3>2. c \in Under(p)
      BY <1>0, <2>1, <3>1, UnderHome
    <3>3. Waiting(p) => ~ Seen(c)
      BY <3>1, <3>2 DEF IterInv, Fresh
    <3> QED BY <3>3, <1>7 DEF Seen
  <2>5. p = x => \A j \in 1 .. m : yielded[j].id # c
    BY <2>2, <1>7, <1>m DEF Returned
  <2>6. \A i, j \in 1 .. (m + 1) : yielded'[i].id = p /\ yielded'[j].id = c => i < j
    BY <2>2, <2>3, <2>5, <1>5, <1>m DEF x
  <2> QED BY <2>2, <2>4, <2>6, <1>5, <1>7
<1>h. ParentLast'
  BY <1>6 DEF ParentLast
<1>i. InTurn'
  <2>1. SUFFICES ASSUME NEW c \in Stable, NEW d \in Stable, Siblings(c, d)
        PROVE /\ \A k, l \in 1 .. Len(stack) : stack[k].id = c /\ stack[l].id = d => l < k
              /\ \A i, j \in 1 .. Len(yielded') : yielded'[i].id = c /\ yielded'[j].id = d => i < j
              /\ Returned(d)' => ~ OnStack(c)
    BY <1>1, <1>7 DEF InTurn
  <2>2. /\ \A k, l \in 1 .. Len(stack) : stack[k].id = c /\ stack[l].id = d => l < k
        /\ \A i, j \in 1 .. m : yielded[i].id = c /\ yielded[j].id = d => i < j
        /\ InHand(d) \/ Returned(d) => ~ OnStack(c) /\ ~ InHand(c)
    BY <2>1, <1>m DEF IterInv, InTurn
  <2>3. c # d
    BY <2>1 DEF Siblings
  <2>4. c = x => \A j \in 1 .. m : yielded[j].id # d
    BY <2>2, <1>7, <1>m DEF Returned
  <2>5. \A i, j \in 1 .. (m + 1) : yielded'[i].id = c /\ yielded'[j].id = d => i < j
    BY <2>2, <2>3, <2>4, <1>5, <1>m DEF x
  <2> QED BY <2>2, <2>5, <1>5, <1>7
<1>j. YieldedMatch'
  <2>1. ASSUME NEW i \in 1 .. (m + 1) PROVE Matched(yielded[i])' /\ yielded'[i].color # "root"
    <3>1. PICK y \in Entries : y = yielded'[i] /\ Matched(y) /\ y.color # "root"
      <4>1. CASE i = m + 1
        BY <4>1, <1>5, <1>6
      <4>2. CASE i # m + 1
        <5>1. i \in 1 .. m
          BY <4>2
        <5> QED BY <5>1, <1>2, <1>m, <1>5 DEF YieldedMatch
      <4> QED BY <4>1, <4>2
    <3>2. Matched(y)'
      BY <3>1, MatchedSame
    <3> QED BY <3>1, <3>2
  <2> QED BY <2>1, <1>5 DEF YieldedMatch
<1>k. YieldedOnce'
  <2>3. \A c \in Stable : \A i, j \in 1 .. m : yielded[i].id = c /\ yielded[j].id = c => i = j
    BY <1>m DEF YieldedOnce
  <2>4. \A c \in Stable : \A i, j \in 1 .. (m + 1) : yielded'[i].id = c /\ yielded'[j].id = c => i = j
    BY <1>12, <2>3, <1>5 DEF x
  <2> QED BY <2>4, <1>1, <1>5 DEF YieldedOnce
<1> QED BY <1>a, <1>b, <1>c, <1>d, <1>e, <1>f, <1>g, <1>h, <1>i, <1>j, <1>k DEF IterInv

\* All children are pushed: back to the stack.  Or the path of one was found.
LEMMA GoesOn ==
  ASSUME TypeInv, PlacesOK, IterInv, UNCHANGED <<vols, disturbed>>,
         pc = "lookup", (pc' = "pop" /\ refs = <<>> /\ ent.color # "pre") \/ pc' = "open",
         pc' = "open" =>
            /\ refs # <<>> /\ name' \in Names
            /\ refs[1] \in Stable => vols[refs[1]].name = name'
            /\ \A y \in Named(ent.file, name') : y = refs[1] \/ y \in disturbed
            /\ ~ Hidden(refs[1]),
         UNCHANGED <<order, direction, outside, stack, ent, refs, yielded, erred>>
  PROVE  IterInv'
<1>0. PlacesType /\ WalkType
  BY DEF TypeInv
<1>1. /\ Stable' = Stable /\ Home' = Home
      /\ \A w : Under(w)' = Under(w)
      /\ \A c : Hidden(c)' <=> Hidden(c)
      /\ \A c, d : Siblings(c, d)' <=> Siblings(c, d)
      /\ \A v, n : Named(v, n)' = Named(v, n)
  BY PlacesSame
<1>2. Expanding /\ (Expanding' => pc' = "open")
  BY DEF Expanding
<1>3. /\ \A c : Returned(c)' <=> Returned(c)
      /\ \A c : OnStack(c)' <=> OnStack(c)
      /\ \A c : InHand(c)' <=> InHand(c)
      /\ \A c : Listed(c)' <=> Listed(c)
  <2>1. \A c : InHand(c)' <=> InHand(c)
    <3>1. pc' = "open" => Expanding'
      BY DEF Expanding
    <3> QED BY <3>1, <1>2 DEF InHand
  <2> QED BY <2>1 DEF Returned, OnStack, Listed
<1>4. \A c : Seen(c)' <=> Seen(c)
  BY <1>3 DEF Seen
<1>5. \A c : Waiting(c)' <=> Waiting(c)
  BY <1>3 DEF Waiting
<1>6. \A c : Opened(c)' <=> Opened(c)
  BY <1>3, <1>5 DEF Opened
<1>a. StackMatch'
  BY <1>0, StackMatchSame DEF IterInv
<1>b. Colors'
  BY <1>2 DEF IterInv, Colors
<1>c. RefsOK'
  <2>1. RefsOK /\ pc' # "none"
    BY DEF IterInv
  <2>2. refs # <<>> => pc' = "open"
    OBVIOUS
  <2>3. \A k \in 1 .. Len(refs) : refs[k] # Target /\ (refs[k] \in Stable => vols[refs[k]].parent = ent.file)
    BY <2>1 DEF RefsOK
  <2> QED BY <2>1, <2>2, <2>3, <1>1 DEF RefsOK
<1>d. Once'
  BY <1>1, <1>3 DEF IterInv, Once
<1>e. Fresh'
  BY <1>1, <1>4, <1>5 DEF IterInv, Fresh
<1>f. Covered'
  BY <1>1, <1>3, <1>4, <1>6 DEF IterInv, Covered
<1>g. ParentFirst'
  BY <1>1, <1>3, <1>5 DEF IterInv, ParentFirst
<1>h. ParentLast'
  BY <1>1, <1>3 DEF IterInv, ParentLast
<1>i. InTurn'
  BY <1>1, <1>3 DEF IterInv, InTurn
<1> QED BY <1>a, <1>b, <1>c, <1>d, <1>e, <1>f, <1>g, <1>h, <1>i DEF IterInv

\* A child out of reach is passed over.
LEMMA PassesOver ==
  ASSUME TypeInv, PlacesOK, IterInv, UNCHANGED <<vols, disturbed>>,
         pc = "lookup", refs # <<>>, refs' = Tail(refs), pc' = pc,
         refs[1] \in Stable => Hidden(refs[1]),
         UNCHANGED <<order, direction, outside, stack, ent, yielded, erred>>
  PROVE  IterInv'
<1>0. PlacesType /\ WalkType
  BY DEF TypeInv
<1>1. /\ Stable' = Stable /\ Home' = Home
      /\ \A w : Under(w)' = Under(w)
      /\ \A c : Hidden(c)' <=> Hidden(c)
      /\ \A c, d : Siblings(c, d)' <=> Siblings(c, d)
  BY PlacesSame
<1>2. Expanding /\ Expanding'
  BY DEF Expanding
<1>n. PICK n \in Nat : n = Len(refs) /\ n > 0
  BY <1>0, OrderIs
<1>r. PICK r \in Seq(Ids) : r = refs' /\ Len(r) = n - 1 /\ \A i \in 1 .. (n - 1) : r[i] = refs[i + 1]
  BY <1>0, <1>n, OrderIs, TailIs
<1>3. /\ \A c : Returned(c)' <=> Returned(c)
      /\ \A c : OnStack(c)' <=> OnStack(c)
      /\ \A c : InHand(c)' <=> InHand(c)
      /\ \A c : Listed(c) <=> Listed(c)' \/ c = refs[1]
  <2>1. \A c : Listed(c)' <=> \E k \in 1 .. (n - 1) : refs[k + 1] = c
    BY <1>r DEF Listed
  <2>2. \A c : Listed(c) <=> \E k \in 1 .. n : refs[k] = c
    BY <1>n DEF Listed
  <2>3. \A c : Listed(c) => Listed(c)' \/ c = refs[1]
    <3>1. ASSUME NEW k \in 1 .. n, k # 1 PROVE (k - 1) \in 1 .. (n - 1) /\ (k - 1) + 1 = k
      BY <3>1, <1>n
    <3> QED BY <2>1, <2>2, <3>1
  <2>4. \A c : Listed(c)' => Listed(c)
    <3>1. \A k \in 1 .. (n - 1) : k + 1 \in 1 .. n
      BY <1>n
    <3> QED BY <2>1, <2>2, <3>1
  <2>5. Listed(refs[1])
    BY <1>n DEF Listed
  <2>6. \A c : Listed(c) <=> Listed(c)' \/ c = refs[1]
    BY <2>3, <2>4, <2>5
  <2>7. /\ \A c : Returned(c)' <=> Returned(c)
        /\ \A c : OnStack(c)' <=> OnStack(c)
        /\ \A c : InHand(c)' <=> InHand(c)
    BY <1>2 DEF Returned, OnStack, InHand
  <2> QED BY <2>6, <2>7
<1>h. PICK h \in Ids : h = refs[1]
  BY <1>0, <1>n, OrderIs
<1>4. \A c : Seen(c) <=> Seen(c)' \/ c = h
  BY <1>3, <1>h DEF Seen
<1>5. \A c : Waiting(c) <=> Waiting(c)' \/ c = h
  BY <1>3, <1>h DEF Waiting
<1>7. h # Target /\ RefsOK /\ Once /\ Covered
  BY <1>h, <1>n DEF IterInv, RefsOK
<1>a. StackMatch'
  BY <1>0, StackMatchSame DEF IterInv
<1>b. Colors'
  BY <1>2 DEF IterInv, Colors
<1>c. RefsOK'
  <2>1. \A k \in 1 .. Len(r) : r[k] # Target /\ (r[k] \in Stable => vols[r[k]].parent = ent.file)
    BY <1>7, <1>n, <1>r DEF RefsOK
  <2> QED BY <2>1, <1>1, <1>r DEF RefsOK
<1>d. Once'
  <2>1. \A c \in Stable : \A i, j \in 1 .. Len(r) : r[i] = c /\ r[j] = c => i = j
    <3>1. ASSUME NEW c \in Stable, NEW i \in 1 .. Len(r), NEW j \in 1 .. Len(r), r[i] = c, r[j] = c PROVE i = j
      <4>1. i + 1 \in 1 .. n /\ j + 1 \in 1 .. n /\ refs[i + 1] = c /\ refs[j + 1] = c
        BY <3>1, <1>n, <1>r
      <4>2. i + 1 = j + 1
        BY <4>1, <1>7, <1>n DEF Once
      <4> QED BY <4>2, <1>r
    <3> QED BY <3>1
  <2> QED BY <2>1, <1>1, <1>3, <1>7, <1>r DEF Once
<1>e. Fresh'
  BY <1>1, <1>4, <1>5 DEF IterInv, Fresh
<1>f. Covered'
  <2>1. ASSUME ~ erred, NEW c \in Stable PROVE Seen(c)' => Opened(vols[c].parent)'
    <3>1. SUFFICES ASSUME Seen(c)' PROVE Opened(vols[c].parent)'
      OBVIOUS
    <3>2. PICK p \in Home : p = vols[c].parent
      BY <1>0, HomeFacts
    <3>3. Opened(p)
      BY <2>1, <3>1, <3>2, <1>4, <1>7 DEF Covered
    <3>4. Opened(p)'
      BY <3>3, <1>3, <1>5 DEF Opened
    <3>5. vols'[c].parent = p
      BY <3>2
    <3> QED BY <3>4, <3>5
  <2>2. ASSUME ~ erred, NEW c \in Stable, Opened(vols[c].parent)', ~ Hidden(c) PROVE Seen(c)'
    <3>1. PICK p \in Home : p = vols[c].parent
      BY <1>0, HomeFacts
    <3>2. vols'[c].parent = p
      BY <3>1
    <3>3. Opened(p)'
      BY <2>2, <3>2
    <3>4. ~ Waiting(p)' /\ (p = Target \/ Returned(p) \/ OnStack(p) \/ InHand(p))
      BY <3>3, <1>3 DEF Opened
    <3>5. p # h
      <4>1. SUFFICES ASSUME p = h PROVE FALSE
        OBVIOUS
      <4>2. p \in Stable
        BY <4>1, <1>0, <1>7, HomeFacts
      <4>3. Hidden(p)
        BY <4>1, <4>2, <1>h
      <4> QED BY <4>1, <4>2, <4>3, <3>4, <1>7 DEF Covered
    <3>6. Opened(p)
      BY <3>4, <3>5, <1>5 DEF Opened
    <3>7. Seen(c)
      BY <2>2, <3>1, <3>6, <1>7 DEF Covered
    <3>8. c # h
      BY <2>2, <1>h
    <3> QED BY <3>7, <3>8, <1>4
  <2>3. \A c \in Stable : Hidden(c) => ~ Returned(c) /\ ~ OnStack(c) /\ ~ InHand(c)
    BY <1>7 DEF Covered
  <2>4. \A c \in Stable : Hidden(c)' => ~ Returned(c)' /\ ~ OnStack(c)' /\ ~ InHand(c)'
    BY <2>3, <1>1, <1>3
  <2>5. Stable' = Stable /\ pc' # "open" /\ erred' = erred
    BY <1>1, <1>3
  <2>6. \A c \in Stable : Hidden(c)' <=> Hidden(c)
    BY <1>1
  <2> QED BY <2>1, <2>2, <2>4, <2>5, <2>6 DEF Covered
<1>g. ParentFirst'
  BY <1>1, <1>3, <1>5 DEF IterInv, ParentFirst
<1>h2. ParentLast'
  BY <1>1, <1>3 DEF IterInv, ParentLast
<1>i. InTurn'
  <2>1. \A c, d \in Stable : Siblings(c, d) => \A k, l \in 1 .. Len(r) : r[k] = c /\ r[l] = d => l < k
    <3>1. ASSUME NEW c \in Stable, NEW d \in Stable, Siblings(c, d),
                 NEW k \in 1 .. Len(r), NEW l \in 1 .. Len(r), r[k] = c, r[l] = d PROVE l < k
      <4>1. k + 1 \in 1 .. n /\ l + 1 \in 1 .. n /\ refs[k + 1] = c /\ refs[l + 1] = d
        BY <3>1, <1>n, <1>r
      <4>2. l + 1 < k + 1
        BY <3>1, <4>1, <1>n DEF IterInv, InTurn
      <4> QED BY <4>2, <1>r
    <3> QED BY <3>1
  <2> QED BY <2>1, <1>1, <1>3, <1>r DEF IterInv, InTurn
<1> QED BY <1>a, <1>b, <1>c, <1>d, <1>e, <1>f, <1>g, <1>h2, <1>i DEF IterInv

\* The path of a child leads where its parent was found.
LEMMA PathBelow ==
  ASSUME PlacesType, PlacesOK, Matched(ent), ent \in Entries,
         NEW CONSTANT n \in Names, NEW CONSTANT file \in Named(ent.file, n)
  PROVE  /\ Near(file) /\ file # Target
         /\ \A y \in Named(ent.file, n) : y = file
         /\ \A g \in Home : file = g <=> g \in Resolve(Target, Append(ent.path, n))
<1>2. ent.path \in Seq(Names)
  BY EntryType
<1>3. GoodPlaces(vols, Moved) /\ DOMAIN vols \subseteq Ids
  BY PlacesAreGood DEF PlacesType
<1>4. /\ \A c \in Stable :
             /\ c \in DOMAIN vols /\ c \in Ids /\ c \notin disturbed /\ c # Target /\ c \in Home
             /\ vols[c].parent \in Home /\ vols[c].parent # c
      /\ \A g \in Home : g # Target => g \in Stable
  BY HomeFacts
<1>5. \A y \in Named(ent.file, n) : y \in DOMAIN vols /\ vols[y].parent = ent.file /\ vols[y].name = n
  BY DEF Named, Children
<1>6. Near(file) /\ file # Target
  <2>1. Near(ent.file) /\ file \in Children(ent.file)
    BY DEF Matched, Named
  <2> QED BY <2>1, NotTheTarget
<1>7. ASSUME NEW y \in Named(ent.file, n), NEW z \in Named(ent.file, n) PROVE y = z
  BY <1>3, <1>5, NamesApart DEF GoodPlaces
<1>8. \A p : Resolve(Target, p) = Place(vols, Target, p)
  BY DEF Resolve, Place, Steps, Named, Children, ChildrenOf
<1>9. Resolve(Target, Append(ent.path, n)) = OneStep(vols, Place(vols, Target, ent.path), n)
  BY <1>8, <1>2, PlaceOf
<1>10. \A g \in Home : ent.file = g <=> g \in Place(vols, Target, ent.path)
  BY <1>8 DEF Matched
<1>11. \A g : g \in OneStep(vols, Place(vols, Target, ent.path), n) <=>
         g \in DOMAIN vols /\ vols[g].name = n /\ vols[g].parent \in Place(vols, Target, ent.path)
  BY DEF OneStep, ChildrenOf
<1>12. Target \in DOMAIN vols => vols[Target].parent \notin Place(vols, Target, ent.path)
  <2>1. Place(vols, Target, ent.path) \subseteq Below(vols, Target)
    BY <1>2, <1>3, PlaceIsOne, VolumesAssumption DEF GoodPlaces
  <2>2. Subtree(Target) = Below(vols, Target)
    BY SubtreeIsBelow
  <2> QED BY <2>1, <2>2 DEF PlacesOK, Apart
<1>14. ASSUME NEW g \in Home PROVE file = g <=> g \in OneStep(vols, Place(vols, Target, ent.path), n)
  <2>1. ASSUME file = g PROVE g \in OneStep(vols, Place(vols, Target, ent.path), n)
    <3>1. g \in Stable
      BY <2>1, <1>4, <1>6
    <3>2. vols[g].parent = ent.file /\ vols[g].name = n /\ vols[g].parent \in Home
      BY <2>1, <3>1, <1>4, <1>5
    <3> QED BY <3>1, <3>2, <1>4, <1>10, <1>11
  <2>2. ASSUME g \in OneStep(vols, Place(vols, Target, ent.path), n) PROVE file = g
    <3>1. g \in DOMAIN vols /\ vols[g].name = n /\ vols[g].parent \in Place(vols, Target, ent.path)
      BY <2>2, <1>11
    <3>2. g # Target
      BY <3>1, <1>12
    <3>3. vols[g].parent \in Home
      BY <3>2, <1>4
    <3>4. g \in Named(ent.file, n)
      BY <3>1, <3>3, <1>10 DEF Named, Children
    <3> QED BY <3>4, <1>7
  <2> QED BY <2>1, <2>2
<1> QED BY <1>6, <1>7, <1>9, <1>14

\* The path of a child is not empty.
LEMMA AppendIsNotEmpty == \A p \in Seq(Names), m \in Names : Append(p, m) # <<>>
<1>1. SUFFICES ASSUME NEW p \in Seq(Names), NEW m \in Names PROVE Append(p, m) # <<>>
  OBVIOUS
<1>2. Len(Append(p, m)) = Len(p) + 1 /\ Len(p) \in Nat
  OBVIOUS
<1>3. PICK s \in Seq(Names) : s = Append(p, m)
  <2>1. Append(p, m) \in Seq(Names)
    OBVIOUS
  <2> QED BY <2>1
<1>4. Len(s) # 0
  BY <1>2, <1>3
<1>5. s # <<>>
  BY <1>4
<1> QED BY <1>3, <1>5

\* What was opened is the child whose path was looked up, if that stays in its
\* place; and the entry pushed for it says so.
LEMMA ChildMatched ==
  ASSUME PlacesType, PlacesOK, WalkType, Matched(ent),
         NEW CONSTANT h \in Ids, NEW CONSTANT file \in Ids, NEW CONSTANT n \in Names, n = name,
         file \in Named(ent.file, n), h # Target,
         h \in Stable => vols[h].parent = ent.file /\ vols[h].name = n,
         \A y \in Named(ent.file, n) : y = h \/ y \in disturbed
  PROVE  Matched(Child(h, file))
<1>0. ent \in Entries
  BY DEF WalkType
<1>1. /\ Child(h, file).id = h /\ Child(h, file).file = file /\ Child(h, file).parent = ent.id
      /\ Child(h, file).color # "root" /\ Child(h, file).path = Append(ent.path, n)
  BY ChildIs
<1>2. /\ Near(file) /\ file # Target
      /\ \A y \in Named(ent.file, n) : y = file
      /\ \A g \in Home : file = g <=> g \in Resolve(Target, Append(ent.path, n))
  BY <1>0, PathBelow
<1>3. Append(ent.path, n) # <<>>
  <2>1. ent.path \in Seq(Names)
    BY <1>0, EntryType
  <2> QED BY <2>1, AppendIsNotEmpty
<1>4. /\ \A c \in Stable : c \in DOMAIN vols /\ c \notin disturbed
      /\ \A g \in Home : g # Target => g \in Stable
  BY HomeFacts
<1>5. h \in Stable => file = h
  <2>1. h \in Stable => h \in Named(ent.file, n)
    BY <1>4 DEF Named, Children
  <2> QED BY <2>1, <1>2
<1>6. \A g \in Home : g \notin disturbed \/ g = Target
  BY <1>4
<1>7. \A g \in Home : h = g <=> file = g
  BY <1>2, <1>4, <1>5, <1>6
<1>8. \A g \in Home : h = g => ent.id = vols[g].parent
  <2>1. \A g \in Home : ent.id = g <=> ent.file = g
    BY DEF Matched
  <2>2. \A c \in Stable : vols[c].parent \in Home
    BY HomeFacts
  <2> QED BY <2>1, <2>2, <1>4
<1> QED BY <1>1, <1>2, <1>3, <1>7, <1>8 DEF Matched

\* A child is opened and pushed.
LEMMA Pushes ==
  ASSUME TypeInv, PlacesOK, IterInv, UNCHANGED <<vols, disturbed>>,
         pc = "open", pc' = "lookup", refs' = Tail(refs),
         NEW CONSTANT file \in Named(ent.file, name), stack' = Append(stack, Child(Head(refs), file)),
         UNCHANGED <<order, direction, outside, ent, yielded, erred>>
  PROVE  IterInv'
<1>0. PlacesType /\ WalkType
  BY DEF TypeInv
<1>1. /\ Stable' = Stable /\ Home' = Home
      /\ \A w : Under(w)' = Under(w)
      /\ \A c : Hidden(c)' <=> Hidden(c)
      /\ \A c, d : Siblings(c, d)' <=> Siblings(c, d)
  BY PlacesSame
<1>2. Expanding /\ Expanding'
  BY DEF Expanding
<1>7. RefsOK /\ Once /\ Covered /\ Colors /\ StackMatch /\ refs # <<>> /\ name \in Names
  BY DEF IterInv, RefsOK
<1>n. PICK n \in Nat : n = Len(refs) /\ n > 0
  BY <1>0, <1>7, OrderIs
<1>r. PICK r \in Seq(Ids) : r = refs' /\ Len(r) = n - 1 /\ \A i \in 1 .. (n - 1) : r[i] = refs[i + 1]
  BY <1>0, <1>7, <1>n, OrderIs, TailIs
<1>h. PICK h \in Ids : h = refs[1] /\ h = Head(refs)
  BY <1>0, <1>7, <1>n, OrderIs, TailIs
<1>8. file \in Ids
  BY <1>0, ChildrenAre
<1>e. PICK e \in Entries : e = Child(h, file)
  BY <1>0, <1>7, <1>8, ChildIs
<1>9. e.id = h /\ e.color = (IF order = "post" THEN "grey" ELSE "pre") /\ Matched(e)
  <2>1. Matched(ent) /\ h # Target
    BY <1>h, <1>n, <1>7 DEF StackMatch, RefsOK
  <2>2. /\ h \in Stable => vols[h].parent = ent.file /\ vols[h].name = name
        /\ \A y \in Named(ent.file, name) : y = h \/ y \in disturbed
    BY <1>h, <1>n, <1>7 DEF RefsOK
  <2>3. Matched(Child(h, file))
    <3>1. PICK n2 \in Names : n2 = name
      BY <1>7
    <3> QED BY <3>1, <1>0, <1>7, <1>8, <2>1, <2>2, ChildMatched
  <2> QED BY <1>0, <1>7, <1>8, <1>e, <2>3, ChildIs
<1>m. PICK m \in Nat : m = Len(stack)
  BY <1>0, OrderIs
<1>s. Len(stack') = m + 1 /\ stack'[m + 1] = e /\ \A k \in 1 .. m : stack'[k] = stack[k]
  <2>1. stack \in Seq(Entries) /\ stack' = Append(stack, e)
    BY <1>0, <1>e, <1>h, OrderIs
  <2> QED BY <2>1, <1>m, AppendIs
<1>3. /\ \A c : Returned(c)' <=> Returned(c)
      /\ \A c : OnStack(c)' <=> OnStack(c) \/ c = h
      /\ \A c : InHand(c)' <=> InHand(c)
      /\ \A c : Listed(c) <=> Listed(c)' \/ c = h
  <2>1. \A c : Listed(c)' <=> \E k \in 1 .. (n - 1) : refs[k + 1] = c
    BY <1>r DEF Listed
  <2>2. \A c : Listed(c) <=> \E k \in 1 .. n : refs[k] = c
    BY <1>n DEF Listed
  <2>3. \A c : Listed(c) => Listed(c)' \/ c = refs[1]
    <3>1. ASSUME NEW k \in 1 .. n, k # 1 PROVE (k - 1) \in 1 .. (n - 1) /\ (k - 1) + 1 = k
      BY <3>1, <1>n
    <3> QED BY <2>1, <2>2, <3>1
  <2>4. \A c : Listed(c)' => Listed(c)
    <3>1. \A k \in 1 .. (n - 1) : k + 1 \in 1 .. n
      BY <1>n
    <3> QED BY <2>1, <2>2, <3>1
  <2>5. Listed(refs[1])
    BY <1>n DEF Listed
  <2>6. \A c : Listed(c) <=> Listed(c)' \/ c = h
    BY <2>3, <2>4, <2>5, <1>h
  <2>7. /\ \A c : Returned(c)' <=> Returned(c)
        /\ \A c : InHand(c)' <=> InHand(c)
    BY <1>2 DEF Returned, InHand
  <2>8. \A c : OnStack(c)' <=> OnStack(c) \/ c = h
    BY <1>m, <1>s, <1>9 DEF OnStack
  <2> QED BY <2>6, <2>7, <2>8
<1>4. Listed(h) /\ \A c : Seen(c)' <=> Seen(c)
  BY <1>3 DEF Seen
<1>5. \A c : Waiting(c)' <=> Waiting(c)
  <2>1. \A c : Waiting(c) <=> Listed(c) \/ \E k \in 1 .. m : stack[k].id = c /\ stack[k].color # "black"
    BY <1>m DEF Waiting
  <2>2. \A c : Waiting(c)' <=> Listed(c)' \/ \E k \in 1 .. (m + 1) : stack'[k].id = c /\ stack'[k].color # "black"
    BY <1>s DEF Waiting
  <2>3. \A c : (\E k \in 1 .. (m + 1) : stack'[k].id = c /\ stack'[k].color # "black") <=>
               c = h \/ \E k \in 1 .. m : stack[k].id = c /\ stack[k].color # "black"
    BY <1>s, <1>m, <1>9
  <2> QED BY <2>1, <2>2, <2>3, <1>3
<1>6. \A c : Opened(c)' <=> Opened(c)
  <2>1. Waiting(h)
    BY <1>4 DEF Waiting
  <2> QED BY <2>1, <1>3, <1>5 DEF Opened
<1>10. h \in Stable => ~ Returned(h) /\ ~ OnStack(h) /\ ~ InHand(h) /\ ~ Listed(h)'
  <2>1. h \in Stable => ~ Returned(h) /\ ~ OnStack(h) /\ ~ InHand(h)
    BY <1>4, <1>7 DEF Once
  <2>2. ASSUME h \in Stable, NEW k \in 1 .. (n - 1), r[k] = h PROVE FALSE
    <3>1. 1 \in 1 .. n /\ k + 1 \in 1 .. n /\ refs[k + 1] = h
      BY <2>2, <1>n, <1>r
    <3>2. k + 1 = 1
      BY <2>2, <3>1, <1>7, <1>h, <1>n DEF Once
    <3> QED BY <3>2
  <2> QED BY <2>1, <2>2, <1>r DEF Listed
<1>a. StackMatch'
  <2>1. ASSUME NEW k \in 1 .. (m + 1) PROVE Matched(stack[k])'
    <3>1. PICK y \in Entries : y = stack'[k] /\ Matched(y)
      <4>1. CASE k = m + 1
        BY <4>1, <1>s, <1>9
      <4>2. CASE k # m + 1
        <5>1. k \in 1 .. m
          BY <4>2
        <5>2. stack[k] \in Entries /\ Matched(stack[k])
          BY <5>1, <1>0, <1>m, <1>7, OrderIs DEF StackMatch
        <5> QED BY <5>1, <5>2, <1>s
      <4> QED BY <4>1, <4>2
    <3>2. Matched(y)'
      BY <3>1, MatchedSame
    <3> QED BY <3>1, <3>2
  <2>2. Matched(ent)'
    <3>1. PICK y \in Entries : y = ent /\ Matched(y)
      BY <1>0, <1>7, OrderIs DEF StackMatch
    <3>2. Matched(y)'
      BY <3>1, MatchedSame
    <3> QED BY <3>1, <3>2
  <2> QED BY <2>1, <2>2, <1>s DEF StackMatch
<1>b. Colors'
  <2>1. \A k \in 1 .. m : stack[k].color \in IF order = "post" THEN {"grey", "black"} ELSE {"pre"}
    BY <1>7, <1>m DEF Colors
  <2>2. \A k \in 1 .. (m + 1) : stack'[k].color \in IF order = "post" THEN {"grey", "black"} ELSE {"pre"}
    BY <2>1, <1>s, <1>9
  <2>3. \A k \in 1 .. (m + 1) : stack'[k].color # "root"
    BY <2>2
  <2>4. ent.color = "grey" => \E k \in 1 .. (m + 1) : stack'[k].id = ent.id /\ stack'[k].color = "black"
    <3>1. ent.color = "grey" => \E k \in 1 .. m : stack[k].id = ent.id /\ stack[k].color = "black"
      BY <1>7, <1>2, <1>m DEF Colors
    <3> QED BY <3>1, <1>s
  <2>5. ent.color \in {"root"} \cup (IF order = "post" THEN {"grey"} ELSE {"pre"})
    BY <1>7 DEF Colors
  <2>6. \A k \in 1 .. (m + 1) : stack'[k].color \in {"root"} \cup (IF order = "post" THEN {"grey", "black"} ELSE {"pre"})
    BY <2>2
  <2> QED BY <2>3, <2>4, <2>5, <2>6, <1>s DEF Colors
<1>c. RefsOK'
  <2>1. \A k \in 1 .. Len(r) : r[k] # Target /\ (r[k] \in Stable => vols[r[k]].parent = ent.file)
    BY <1>7, <1>n, <1>r DEF RefsOK
  <2> QED BY <2>1, <1>1, <1>r DEF RefsOK
<1>d. Once'
  <2>1. \A c \in Stable : \A i, j \in 1 .. Len(r) : r[i] = c /\ r[j] = c => i = j
    <3>1. ASSUME NEW c \in Stable, NEW i \in 1 .. Len(r), NEW j \in 1 .. Len(r), r[i] = c, r[j] = c PROVE i = j
      <4>1. i + 1 \in 1 .. n /\ j + 1 \in 1 .. n /\ refs[i + 1] = c /\ refs[j + 1] = c
        BY <3>1, <1>n, <1>r
      <4>2. i + 1 = j + 1
        BY <3>1, <4>1, <1>7, <1>n DEF Once
      <4> QED BY <4>2, <1>r
    <3> QED BY <3>1
  <2>2. \A c \in Stable : c = h => \A k \in 1 .. m : stack[k].id # c
    BY <1>10, <1>m DEF OnStack
  <2>3. \A c \in Stable : \A i, j \in 1 .. m : stack[i].id = c /\ stack[j].id = c => i = j
    BY <1>7, <1>m DEF Once
  <2>4. \A c \in Stable : \A i, j \in 1 .. (m + 1) : stack'[i].id = c /\ stack'[j].id = c => i = j
    BY <2>2, <2>3, <1>s, <1>9
  <2>5. ASSUME NEW c \in Stable
        PROVE /\ ~ (Returned(c)' /\ OnStack(c)') /\ ~ (Returned(c)' /\ InHand(c)') /\ ~ (Returned(c)' /\ Listed(c)')
              /\ ~ (OnStack(c)' /\ InHand(c)') /\ ~ (OnStack(c)' /\ Listed(c)') /\ ~ (InHand(c)' /\ Listed(c)')
    <3>1. /\ ~ (Returned(c) /\ OnStack(c)) /\ ~ (Returned(c) /\ InHand(c)) /\ ~ (Returned(c) /\ Listed(c))
          /\ ~ (OnStack(c) /\ InHand(c)) /\ ~ (OnStack(c) /\ Listed(c)) /\ ~ (InHand(c) /\ Listed(c))
      BY <1>7 DEF Once
    <3> QED BY <3>1, <1>3, <1>10
  <2>6. \A c \in Stable : \A i, j \in 1 .. Len(stack') : stack'[i].id = c /\ stack'[j].id = c => i = j
    BY <2>4, <1>s
  <2>7. \A c \in Stable : \A i, j \in 1 .. Len(refs') : refs'[i] = c /\ refs'[j] = c => i = j
    <3>1. refs' = r
      BY <1>r
    <3> QED BY <2>1, <3>1
  <2>8. Stable' = Stable
    BY <1>1
  <2> QED BY <2>5, <2>6, <2>7, <2>8 DEF Once
<1>f. Fresh'
  BY <1>1, <1>4, <1>5 DEF IterInv, Fresh
<1>g. Covered'
  <2>1. \A c \in Stable : Hidden(c) => ~ Returned(c) /\ ~ OnStack(c) /\ ~ InHand(c) /\ c # h
    BY <1>7, <1>h DEF Covered
  <2>2. ~ erred => \A c \in Stable :
          /\ Seen(c) => Opened(vols[c].parent)
          /\ Opened(vols[c].parent) /\ ~ Hidden(c) => Seen(c)
    BY <1>7 DEF Covered
  <2> QED BY <2>1, <2>2, <1>1, <1>3, <1>4, <1>6 DEF Covered
<1>p. ParentFirst'
  <2>1. SUFFICES ASSUME order = "pre", NEW c \in Stable, NEW p \in Stable, vols[c].parent = p
        PROVE  /\ Waiting(p) \/ InHand(p) => ~ Returned(c)
               /\ OnStack(c)' \/ Listed(c)' \/ InHand(c) => ~ OnStack(p)'
               /\ \A i, j \in 1 .. Len(yielded) : yielded[i].id = p /\ yielded[j].id = c => i < j
    BY <1>1, <1>3, <1>5 DEF ParentFirst
  <2>2. /\ Waiting(p) \/ InHand(p) => ~ Returned(c)
        /\ OnStack(c) \/ Listed(c) \/ InHand(c) => ~ OnStack(p)
        /\ \A i, j \in 1 .. Len(yielded) : yielded[i].id = p /\ yielded[j].id = c => i < j
    BY <2>1 DEF IterInv, ParentFirst
  <2>3. p = h => ~ Seen(c)
    <3>1. SUFFICES ASSUME p = h PROVE ~ Seen(c)
      OBVIOUS
    <3>2. p \in Home /\ Waiting(p)
      BY <3>1, <1>0, <1>4, HomeFacts DEF Waiting
    <3>3. c \in Under(p)
      BY <2>1, <3>2, <1>0, UnderHome
    <3> QED BY <3>2, <3>3 DEF IterInv, Fresh
  <2>4. OnStack(c)' \/ Listed(c)' \/ InHand(c) => Seen(c)
    BY <1>3, <1>4 DEF Seen
  <2>5. OnStack(c)' => OnStack(c) \/ Listed(c)
    BY <1>3, <1>4
  <2> QED BY <2>2, <2>3, <2>4, <2>5, <1>3
<1>q. ParentLast'
  <2>1. SUFFICES ASSUME order = "post", NEW c \in Stable, NEW p \in Stable, vols[c].parent = p
        PROVE /\ \A k \in 1 .. (m + 1) : stack'[k].id = c => \E l \in 1 .. (k - 1) : stack'[l].id = p
              /\ Listed(c)' => OnStack(p)'
              /\ \A i, j \in 1 .. Len(yielded) : yielded[i].id = p /\ yielded[j].id = c => j < i
    BY SMTT(20), <1>1, <1>s DEF ParentLast
  <2>2. /\ \A k \in 1 .. m : stack[k].id = c => \E l \in 1 .. (k - 1) : stack[l].id = p
        /\ Listed(c) => OnStack(p)
        /\ \A i, j \in 1 .. Len(yielded) : yielded[i].id = p /\ yielded[j].id = c => j < i
    BY <2>1, <1>m DEF IterInv, ParentLast
  <2>3. c = h => \E l \in 1 .. m : stack[l].id = p
    BY <2>2, <1>4, <1>m DEF OnStack
  <2>4. ASSUME NEW k \in 1 .. (m + 1), stack'[k].id = c PROVE \E l \in 1 .. (k - 1) : stack'[l].id = p
    <3>1. CASE k = m + 1
      <4>1. c = h /\ k - 1 = m
        BY <2>4, <3>1, <1>s, <1>9
      <4> QED BY <4>1, <2>3, <1>s
    <3>2. CASE k # m + 1
      <4>1. k \in 1 .. m /\ stack[k].id = c
        BY <2>4, <3>2, <1>s
      <4>2. PICK l \in 1 .. (k - 1) : stack[l].id = p
        BY <4>1, <2>2
      <4>3. stack'[l] = stack[l]
        BY <4>1, <1>s
      <4> QED BY <4>2, <4>3
    <3> QED BY <3>1, <3>2
  <2> QED BY <2>2, <2>4, <1>3
<1>i. InTurn'
  <2>1. SUFFICES ASSUME NEW c \in Stable, NEW d \in Stable, Siblings(c, d)
        PROVE /\ \A k, l \in 1 .. Len(stack') : stack'[k].id = c /\ stack'[l].id = d => l < k
              /\ \A k, l \in 1 .. Len(refs') : refs'[k] = c /\ refs'[l] = d => l < k
              /\ \A i, j \in 1 .. Len(yielded') : yielded'[i].id = c /\ yielded'[j].id = d => i < j
              /\ Listed(d)' => ~ OnStack(c)' /\ ~ InHand(c)' /\ ~ Returned(c)'
              /\ InHand(d)' \/ Returned(d)' => ~ OnStack(c)' /\ ~ InHand(c)' /\ ~ Listed(c)'
    BY <1>1 DEF InTurn
  <2>2. /\ \A k, l \in 1 .. m : stack[k].id = c /\ stack[l].id = d => l < k
        /\ \A i, j \in 1 .. Len(yielded) : yielded[i].id = c /\ yielded[j].id = d => i < j
        /\ Listed(d) => ~ OnStack(c) /\ ~ InHand(c) /\ ~ Returned(c)
        /\ InHand(d) \/ Returned(d) => ~ OnStack(c) /\ ~ InHand(c) /\ ~ Listed(c)
    BY <2>1, <1>m DEF IterInv, InTurn
  <2>3. c # d
    BY <2>1 DEF Siblings
  <2>4. d = h => \A k \in 1 .. m : stack[k].id # c
    BY <2>2, <1>4, <1>m DEF OnStack
  <2>5. \A k, l \in 1 .. (m + 1) : stack'[k].id = c /\ stack'[l].id = d => l < k
    BY <2>2, <2>3, <2>4, <1>s, <1>9
  <2>6. \A k, l \in 1 .. n : refs[k] = c /\ refs[l] = d => l < k
    BY <2>1, <1>n DEF IterInv, InTurn
  <2>7. \A k, l \in 1 .. Len(r) : r[k] = c /\ r[l] = d => l < k
    <3>1. ASSUME NEW k \in 1 .. Len(r), NEW l \in 1 .. Len(r), r[k] = c, r[l] = d PROVE l < k
      <4>1. k + 1 \in 1 .. n /\ l + 1 \in 1 .. n /\ refs[k + 1] = c /\ refs[l + 1] = d
        BY <3>1, <1>n, <1>r
      <4>2. l + 1 < k + 1
        BY <4>1, <2>6
      <4> QED BY <4>2, <1>r
    <3> QED BY <3>1
  <2>8. Listed(d)' => c # h
    <3>1. ASSUME NEW l \in 1 .. (n - 1), r[l] = d, c = h PROVE FALSE
      <4>1. 1 \in 1 .. n /\ l + 1 \in 1 .. n /\ refs[1] = c /\ refs[l + 1] = d
        BY <3>1, <1>n, <1>r, <1>h
      <4>2. l + 1 < 1
        BY <4>1, <2>6
      <4> QED BY <4>2
    <3> QED BY <3>1, <1>r DEF Listed
  <2>9. InHand(d) \/ Returned(d) => c # h
    BY <2>2, <1>4
  <2>10. \A k, l \in 1 .. Len(stack') : stack'[k].id = c /\ stack'[l].id = d => l < k
    BY <2>5, <1>s
  <2>11. \A k, l \in 1 .. Len(refs') : refs'[k] = c /\ refs'[l] = d => l < k
    BY <2>7, <1>r
  <2> QED BY <2>2, <2>10, <2>11, <2>8, <2>9, <1>3
<1> QED BY <1>a, <1>b, <1>c, <1>d, <1>f, <1>g, <1>p, <1>q, <1>i DEF IterInv

\* What the ioctl finds for the next child.
LEMMA LookupFacts ==
  ASSUME PlacesType, PlacesOK, WalkType, Matched(ent), refs # <<>>
  PROVE  /\ Head(refs) = refs[1] /\ refs[1] \in Ids
         /\ LookupUser(refs[1]) = "EACCES" /\ ent.color = "root" => Hidden(refs[1])
         /\ LookupUser(refs[1]) = "found" =>
              /\ vols[refs[1]].name \in Names /\ ~ Hidden(refs[1])
              /\ \A y \in Named(ent.file, vols[refs[1]].name) : y = refs[1]
<1>1. PICK h \in Ids : h = refs[1] /\ Head(refs) = h
  BY TailIs DEF WalkType
<1>2. ent.file = Target <=> ent.color = "root"
  <2>1. Target \in Home
    BY HomeFacts
  <2> QED BY <2>1 DEF Matched
<1>3. ASSUME LookupUser(h) = "EACCES" PROVE Hidden(h)
  BY <1>2, <1>3 DEF LookupUser, Children, Hidden
<1>4. ASSUME LookupUser(h) = "found"
      PROVE  /\ vols[h].name \in Names /\ ~ Hidden(h)
             /\ \A y \in Named(ent.file, vols[h].name) : y = h
  <2>1. h \in DOMAIN vols /\ vols[h].parent = ent.file /\ ~ (ent.color = "root" /\ vols[h].name \in outside)
    BY <1>4 DEF LookupUser, Children
  <2>2. vols[h].name \in Names
    BY <2>1 DEF PlacesType
  <2>3. ~ Hidden(h)
    BY <1>2, <2>1 DEF Hidden
  <2>4. GoodBase(vols, Moved)
    BY TreeIsGood DEF PlacesOK
  <2>5. \A y \in Named(ent.file, vols[h].name) : y \in DOMAIN vols /\ vols[y].parent = vols[h].parent /\ vols[y].name = vols[h].name
    BY <2>1 DEF Named, Children
  <2>6. ASSUME NEW y \in Named(ent.file, vols[h].name) PROVE y = h
    BY <2>1, <2>4, <2>5, NamesApart
  <2> QED BY <2>2, <2>3, <2>6
<1> QED BY <1>1, <1>3, <1>4

\* Every step of the iterator keeps its invariant.
LEMMA IterWalks ==
  ASSUME TypeInv, PlacesOK, YieldedMatch, YieldedOnce, IterInv, IterStep, step # "done"
  PROVE  YieldedMatch' /\ YieldedOnce' /\ IterInv'
<1>0. PlacesType /\ WalkType
  BY DEF TypeInv
<1>1. Works \/ Fails
  BY DEF IterStep, List, Lookup, Open
<1>2. Shifted /\ UNCHANGED <<vols, disturbed>>
  BY <1>0, <1>1, StandStill DEF PlacesOK
<1>3. yielded' = yielded => YieldedMatch' /\ YieldedOnce'
  BY <1>2, YieldedKept
<1>4. CASE Pop
  <2>1. CASE Last(stack).color = "black"
    <3>1. /\ pc = "pop" /\ stack # <<>> /\ stack' = Front(stack) /\ Yield(Last(stack))
          /\ UNCHANGED <<order, direction, outside, ent, refs, erred>>
      BY <1>4, <2>1 DEF Pop
    <3> QED BY <2>1, <3>1, <1>2, PopDone
  <2>2. CASE Last(stack).color # "black"
    <3>1. /\ pc = "pop" /\ stack # <<>> /\ ent' = Last(stack) /\ pc' = "list"
          /\ stack' = IF Last(stack).color = "grey" THEN Repushed(Front(stack), Last(stack)) ELSE Front(stack)
          /\ UNCHANGED <<order, direction, outside, refs, yielded, erred>>
      BY <1>4, <2>2 DEF Pop
    <3>2. IterInv'
      BY <2>2, <3>1, <1>2, PopToExpand
    <3> QED BY <3>1, <3>2, <1>3
  <2> QED BY <2>1, <2>2
<1>5. CASE Exhausted
  <2>1. /\ pc = "pop" /\ stack = <<>> /\ pc' = "none" /\ erred' = erred /\ refs' = refs
        /\ UNCHANGED <<order, direction, outside, stack, ent, yielded>>
    BY <1>5 DEF Exhausted
  <2>2. IterInv'
    BY <2>1, <1>2, WalkEnds
  <2> QED BY <2>1, <2>2, <1>3
<1>6. CASE Expanded
  <2>1. /\ pc = "lookup" /\ refs = <<>>
        /\ UNCHANGED <<order, direction, outside, stack, ent, refs, erred>>
        /\ IF ent.color = "pre" THEN Yield(ent) ELSE pc' = "pop" /\ UNCHANGED yielded
    BY <1>6 DEF Expanded
  <2>2. CASE ent.color = "pre"
    BY <2>1, <2>2, <1>2, ExpandedYields
  <2>3. CASE ent.color # "pre"
    <3>1. pc' = "pop" /\ pc' # "open" /\ UNCHANGED yielded
      BY <2>1, <2>3
    <3>2. IterInv'
      BY <2>1, <2>3, <3>1, <1>2, GoesOn
    <3> QED BY <3>1, <3>2, <1>3
  <2> QED BY <2>2, <2>3
<1>7. CASE List
  <2>1. pc = "list" /\ UNCHANGED <<order, direction, outside, stack, ent, name, yielded>>
    BY <1>7 DEF List
  <2>2. CASE refs' = PushOrder(Ascending(Children(ent.file))) /\ pc' = "lookup" /\ UNCHANGED erred
    <3>1. IterInv'
      BY <2>1, <2>2, <1>0, <1>2, ListsChildren
    <3> QED BY <2>1, <3>1, <1>3
  <2>3. CASE Err
    <3>1. Expanding /\ pc' = "error" /\ erred' /\ refs' = <<>>
      BY <2>1, <2>3 DEF Err, Expanding
    <3>2. IterInv'
      BY <2>1, <3>1, <1>2, WalkEnds
    <3> QED BY <2>1, <3>2, <1>3
  <2> QED BY <1>7, <2>2, <2>3 DEF List
<1>8. CASE Lookup
  <2>1. pc = "lookup" /\ refs # <<>> /\ UNCHANGED <<order, direction, outside, stack, ent, yielded>>
    BY <1>8 DEF Lookup
  <2>2. /\ Head(refs) = refs[1] /\ refs[1] \in Ids
        /\ LookupUser(refs[1]) = "EACCES" /\ ent.color = "root" => Hidden(refs[1])
        /\ LookupUser(refs[1]) = "found" =>
              /\ vols[refs[1]].name \in Names /\ ~ Hidden(refs[1])
              /\ \A y \in Named(ent.file, vols[refs[1]].name) : y = refs[1]
    <3>1. Matched(ent)
      BY DEF IterInv, StackMatch
    <3> QED BY <2>1, <3>1, <1>0, LookupFacts
  <2>3. PICK res \in {LookupUser(Head(refs)), "EIO"} :
           \/ res = "found" /\ name' = vols[Head(refs)].name /\ pc' = "open" /\ UNCHANGED <<refs, erred>>
           \/ Ignored(res) /\ refs' = Tail(refs) /\ UNCHANGED <<name, pc, erred>>
           \/ Err /\ UNCHANGED name
    BY <1>8 DEF Lookup
  <2>4. CASE res = "found" /\ name' = vols[Head(refs)].name /\ pc' = "open" /\ UNCHANGED <<refs, erred>>
    <3>1. LookupUser(refs[1]) = "found" /\ name' = vols[refs[1]].name
      BY <2>2, <2>3, <2>4
    <3>2. /\ refs # <<>> /\ name' \in Names
          /\ refs[1] \in Stable => vols[refs[1]].name = name'
          /\ \A y \in Named(ent.file, name') : y = refs[1] \/ y \in disturbed
          /\ ~ Hidden(refs[1])
      BY <2>1, <2>2, <3>1
    <3>3. IterInv'
      BY <2>1, <2>4, <3>2, <1>2, GoesOn
    <3> QED BY <2>1, <3>3, <1>3
  <2>5. CASE Ignored(res) /\ refs' = Tail(refs) /\ UNCHANGED <<name, pc, erred>>
    <3>1. Hidden(refs[1])
      BY <2>2, <2>3, <2>5 DEF Ignored
    <3>2. IterInv'
      BY <2>1, <2>5, <3>1, <1>2, PassesOver
    <3> QED BY <2>1, <3>2, <1>3
  <2>6. CASE Err /\ UNCHANGED name
    <3>1. Expanding /\ pc' = "error" /\ erred' /\ refs' = <<>>
      BY <2>1, <2>6 DEF Err, Expanding
    <3>2. IterInv'
      BY <2>1, <3>1, <1>2, WalkEnds
    <3> QED BY <2>1, <3>2, <1>3
  <2> QED BY <2>3, <2>4, <2>5, <2>6
<1>9. CASE Open
  <2>1. pc = "open" /\ UNCHANGED <<order, direction, outside, ent, yielded>>
    BY <1>9 DEF Open
  <2>2. CASE \E file \in Named(ent.file, name) :
               /\ stack' = Append(stack, Child(Head(refs), file))
               /\ refs' = Tail(refs) /\ pc' = "lookup" /\ UNCHANGED erred
    <3>1. PICK file \in Named(ent.file, name) :
               /\ stack' = Append(stack, Child(Head(refs), file))
               /\ refs' = Tail(refs) /\ pc' = "lookup" /\ UNCHANGED erred
      BY <2>2
    <3>2. IterInv'
      BY <2>1, <3>1, <1>0, <1>2, Pushes
    <3> QED BY <2>1, <3>2, <1>3
  <2>3. CASE Err /\ UNCHANGED stack
    <3>1. Expanding /\ pc' = "error" /\ erred' /\ refs' = <<>>
      BY <2>1, <2>3 DEF Err, Expanding
    <3>2. IterInv'
      BY <2>1, <2>3, <3>1, <1>2, WalkEnds
    <3> QED BY <2>1, <3>2, <1>3
  <2> QED BY <1>9, <2>2, <2>3 DEF Open
<1> QED BY <1>4, <1>5, <1>6, <1>7, <1>8, <1>9 DEF IterStep

-----------------------------------------------------------------------------
(* The steps of get_rootref.                                               *)

\* Nothing is returned and the calls are left alone but for the state of the
\* innermost one.
LEMMA CallSame ==
  ASSUME WalkType, UNCHANGED <<calls, yielded>>
  PROVE  /\ Depth' = Depth /\ \A k \in 1 .. Len(calls) : Call(k)' = Call(k)
         /\ Call(Depth)' = <<ent', refs'>> /\ Call(Depth) = <<ent, refs>>
         /\ \A c : Returned(c)' <=> Returned(c)
         /\ refs' = refs => \A c : Due(c)' <=> Due(c)
<1>1. Len(calls) \in Nat
  BY DEF WalkType
<1>2. Depth' = Depth /\ Depth = Len(calls) + 1
  BY DEF Depth
<1>3. \A k : Call(k)' = IF k <= Len(calls) THEN calls[k] ELSE <<ent', refs'>>
  BY DEF Call
<1>4. \A k : Call(k) = IF k <= Len(calls) THEN calls[k] ELSE <<ent, refs>>
  BY DEF Call
<1>5. \A k \in 1 .. Len(calls) : Call(k)' = Call(k)
  BY <1>3, <1>4
<1>6. Call(Depth)' = <<ent', refs'>> /\ Call(Depth) = <<ent, refs>>
  BY <1>1, <1>2, <1>3, <1>4
<1>7. \A c : Returned(c)' <=> Returned(c)
  BY DEF Returned
<1>8. ASSUME refs' = refs PROVE \A c : Due(c)' <=> Due(c)
  <2>1. \A k : Call(k)'[2] = Call(k)[2]
    BY <1>3, <1>4, <1>8
  <2> QED BY <2>1, <1>2 DEF Due
<1> QED BY <1>2, <1>5, <1>6, <1>7, <1>8

\* `?`: all calls return.  Or the outermost one returns.
LEMMA CallsEnd ==
  ASSUME TypeInv, PlacesOK, RootRefInv, UNCHANGED <<vols, disturbed>>,
         pc' = "none", erred' \/ (refs = <<>> /\ calls = <<>> /\ erred' = erred /\ pc = "lookup"),
         UNCHANGED <<order, direction, outside, ent, refs, yielded, calls>>
  PROVE  RootRefInv'
<1>0. PlacesType /\ WalkType
  BY DEF TypeInv
<1>1. /\ Stable' = Stable /\ Home' = Home
      /\ \A c : Hidden(c)' <=> Hidden(c)
      /\ \A c, d : Siblings(c, d)' <=> Siblings(c, d)
  BY PlacesSame
<1>2. /\ Depth' = Depth /\ \A k : Call(k)' = Call(k)
      /\ \A c : Returned(c)' <=> Returned(c)
      /\ \A c : Due(c)' <=> Due(c)
  BY DEF Depth, Call, Returned, Due
<1>3. \A c : Called(c) => Called(c)'
  BY <1>2 DEF Called
<1>4. ~ erred' => ~ erred /\ \A c : Called(c)' <=> Called(c)
  BY <1>2 DEF Called
<1>a. CallsMatch'
  <2>1. ASSUME NEW k \in 1 .. Depth PROVE Matched(Call(k)[1])'
    <3>1. PICK e \in Entries : e = Call(k)[1]
      BY <1>0, CallTypes
    <3>2. Matched(e)
      BY <3>1 DEF RootRefInv, CallsMatch
    <3>3. Matched(e)'
      BY <3>2, MatchedSame
    <3>4. e = Call(k)'[1]
      BY <1>2, <3>1
    <3> QED BY <3>3, <3>4
  <2> QED BY <2>1, <1>1, <1>2 DEF RootRefInv, CallsMatch
<1>b. CallsOK'
  BY DEF RootRefInv, CallsOK
<1>c. CallsCovered'
  BY <1>1, <1>2, <1>3, <1>4 DEF RootRefInv, CallsCovered
<1>d. CallsInTurn'
  BY <1>1, <1>2 DEF RootRefInv, CallsInTurn
<1> QED BY <1>a, <1>b, <1>c, <1>d DEF RootRefInv

\* The path of the subvolume is opened.
LEMMA OpensPath ==
  ASSUME TypeInv, PlacesOK, RootRefInv, UNCHANGED <<vols, disturbed>>,
         pc = "open", pc' = "list", NEW CONSTANT file \in Resolve(Target, ent.path), ent' = [ent EXCEPT !.file = file],
         UNCHANGED <<order, direction, outside, refs, yielded, calls, erred>>
  PROVE  RootRefInv'
<1>0. PlacesType /\ WalkType
  BY DEF TypeInv
<1>1. /\ Stable' = Stable /\ Home' = Home
      /\ \A c : Hidden(c)' <=> Hidden(c)
      /\ \A c, d : Siblings(c, d)' <=> Siblings(c, d)
  BY PlacesSame
<1>2. /\ Depth' = Depth /\ \A k \in 1 .. Len(calls) : Call(k)' = Call(k)
      /\ Call(Depth)' = <<ent', refs'>> /\ Call(Depth) = <<ent, refs>>
      /\ \A c : Returned(c)' <=> Returned(c)
      /\ \A c : Due(c)' <=> Due(c)
  BY <1>0, CallSame
<1>3. /\ Len(calls) \in Nat /\ Depth = Len(calls) + 1
      /\ \A k \in 1 .. Depth : Call(k)[1] \in Entries /\ Call(k)[2] \in Seq(Ids)
  BY <1>0, CallTypes
<1>4. CallsMatch /\ CallsOK /\ CallsCovered /\ CallsInTurn /\ refs = <<>>
  BY DEF RootRefInv, CallsOK
<1>e. PICK e \in Entries : e = ent
  BY <1>0 DEF WalkType
<1>5. Matched(e) /\ e.path \in Seq(Names)
  <2>1. Depth \in 1 .. Depth /\ Call(Depth)[1] = e
    BY <1>2, <1>3, <1>e
  <2>2. Matched(Call(Depth)[1])
    BY <2>1, <1>4 DEF CallsMatch
  <2> QED BY <2>1, <2>2, EntryType
<1>6. file \in Ids /\ Near(file) /\ \A y \in Resolve(Target, e.path) : y = file
  <2>1. Resolve(Target, e.path) = Place(vols, Target, e.path) /\ Subtree(Target) = Below(vols, Target)
    BY ResolveIsPlace, SubtreeIsBelow
  <2>2. GoodBase(vols, Moved) /\ DOMAIN vols \subseteq Ids
    BY <1>0, TreeIsGood DEF PlacesType, PlacesOK
  <2>3. Target \in Ids /\ Dir # Target
    BY VolumesAssumption
  <2>4. /\ \A x, y \in Place(vols, Target, e.path) : x = y
        /\ Place(vols, Target, e.path) \subseteq Below(vols, Target)
    BY <2>2, <2>3, <1>5, PlaceIsOne
  <2>5. Below(vols, Target) \subseteq {Target} \cup DOMAIN vols
    BY <2>2, <2>3, BelowIsLeast
  <2>6. file \in Subtree(Target) /\ file \in Ids /\ file # Dir
    BY <2>1, <2>2, <2>3, <2>4, <2>5, <1>e DEF GoodBase
  <2> QED BY <2>1, <2>4, <2>6, <1>e DEF Near
<1>f. PICK f \in Entries : f = ent' /\ f = [e EXCEPT !.file = file]
  BY <1>6, <1>e, EntryType
<1>7. f.id = e.id /\ f.color = e.color /\ f.path = e.path /\ f.parent = e.parent /\ f.file = file
  BY <1>f DEF Entries
<1>8. Matched(f)
  <2>1. ASSUME NEW g \in Home PROVE /\ e.id = g <=> file = g
                                    /\ file = g <=> g \in Resolve(Target, e.path)
                                    /\ g # Target /\ e.id = g => e.parent = vols[g].parent
    <3>1. /\ e.id = g <=> e.file = g
          /\ e.file = g <=> g \in Resolve(Target, e.path)
          /\ g # Target /\ e.id = g => e.parent = vols[g].parent
      BY <1>5 DEF Matched
    <3> QED BY <3>1, <1>6, <1>e
  <2> QED BY <2>1, <1>5, <1>6, <1>7 DEF Matched
<1>9. \A c : Called(c)' <=> Called(c)
  BY <1>2, <1>7, <1>e, <1>f DEF Called
<1>a. CallsMatch'
  <2>1. ASSUME NEW k \in 1 .. Depth
        PROVE /\ Matched(Call(k)[1])' /\ Call(k)'[1].id = Call(k)[1].id /\ Call(k)'[1].color = Call(k)[1].color
              /\ Call(k)'[2] = Call(k)[2] /\ (Call(k)[2] # <<>> => Call(k)'[1].file = Call(k)[1].file)
    <3>1. CASE k = Depth
      <4>1. Matched(f)'
        BY <1>8, MatchedSame
      <4>2. Call(k)' = <<f, <<>> >> /\ Call(k) = <<e, <<>> >>
        BY <3>1, <1>2, <1>4, <1>e, <1>f
      <4> QED BY <4>1, <4>2, <1>7
    <3>2. CASE k # Depth
      <4>1. k \in 1 .. Len(calls)
        BY <3>2, <1>3
      <4>2. PICK y \in Entries : y = Call(k)[1] /\ Matched(y)
        BY <1>3, <1>4 DEF CallsMatch
      <4>3. Matched(y)'
        BY <4>2, MatchedSame
      <4>4. Call(k)' = Call(k)
        BY <4>1, <1>2
      <4> QED BY <4>2, <4>3, <4>4
    <3> QED BY <3>1, <3>2
  <2>2. ASSUME NEW k \in 1 .. Depth, NEW i \in 1 .. Len(Call(k)[2])
        PROVE Call(k)[2] # <<>>
    BY <1>3
  <2> QED BY <2>1, <2>2, <1>1, <1>2, <1>4 DEF CallsMatch
<1>b. CallsOK'
  BY <1>4 DEF CallsOK
<1>c. CallsCovered'
  BY <1>1, <1>2, <1>4, <1>9 DEF CallsCovered
<1>d. CallsInTurn'
  BY <1>1, <1>2, <1>4 DEF CallsInTurn
<1> QED BY <1>a, <1>b, <1>c, <1>d DEF RootRefInv

\* The children of the innermost one are listed.
LEMMA ListsRefs ==
  ASSUME TypeInv, PlacesOK, RootRefInv, UNCHANGED <<vols, disturbed>>,
         pc \in {"list", "pop"}, pc' = "lookup", refs' = Ascending(Children(ent.file)),
         UNCHANGED <<order, direction, outside, ent, yielded, calls, erred>>
  PROVE  RootRefInv'
<1>0. PlacesType /\ WalkType
  BY DEF TypeInv
<1>1. /\ Stable' = Stable /\ Home' = Home
      /\ \A c : Hidden(c)' <=> Hidden(c)
      /\ \A c, d : Siblings(c, d)' <=> Siblings(c, d)
  BY PlacesSame
<1>2. /\ Depth' = Depth /\ \A k \in 1 .. Len(calls) : Call(k)' = Call(k)
      /\ Call(Depth)' = <<ent', refs'>> /\ Call(Depth) = <<ent, refs>>
      /\ \A c : Returned(c)' <=> Returned(c)
  BY <1>0, CallSame
<1>3. /\ Len(calls) \in Nat /\ Depth = Len(calls) + 1
      /\ \A k \in 1 .. Depth : Call(k)[1] \in Entries /\ Call(k)[2] \in Seq(Ids)
  BY <1>0, CallTypes
<1>4. CallsMatch /\ CallsOK /\ CallsCovered /\ CallsInTurn /\ refs = <<>>
  BY DEF RootRefInv, CallsOK
<1> DEFINE S == Children(ent.file)
           x == ent.id
<1>p. PICK r \in Seq(Ids) : r = refs'
  <2>1. S \subseteq Ids
    BY <1>0, ChildrenAre
  <2> QED BY <2>1, AscendingIs
<1>5. /\ Len(r) \in Nat
      /\ \A i \in 1 .. Len(r) : r[i] \in S
      /\ \A c \in S : \E i \in 1 .. Len(r) : r[i] = c
      /\ \A i, j \in 1 .. Len(r) : i < j => r[i] < r[j]
  <2>1. S \subseteq Ids
    BY <1>0, ChildrenAre
  <2> QED BY <1>p, <2>1, AscendingIs
<1>6. Matched(ent) /\ (x = Target \/ Returned(x))
  BY <1>2, <1>3, <1>4 DEF CallsMatch
<1>7. /\ \A g \in Home : x = g <=> ent.file = g
      /\ Near(ent.file)
  BY <1>6 DEF Matched
<1>8. \A c \in Stable : c \in DOMAIN vols /\ vols[c].parent \in Home
  BY <1>0, HomeFacts
<1>9. \A c \in Stable : c \in S <=> vols[c].parent = x
  BY <1>7, <1>8 DEF Children
<1>10. Target \notin S
  BY <1>0, <1>7, NotTheTarget
<1>11. /\ \A c : Called(c)' <=> c = Target \/ Returned(c)
       /\ \A c : Called(c) <=> (c = Target \/ Returned(c)) /\ c # x
  BY <1>2 DEF Called
<1>12. \A c : Due(c)' <=> Due(c) \/ c \in S
  <2>1. \A k \in 1 .. Depth : k = Depth \/ k \in 1 .. Len(calls)
    BY <1>3
  <2>2. \A k \in 1 .. Len(calls) : k \in 1 .. Depth
    BY <1>3
  <2>3. \A c : Due(c)' <=> (\E k \in 1 .. Len(calls) : \E i \in 1 .. Len(Call(k)[2]) : Call(k)[2][i] = c)
                           \/ \E i \in 1 .. Len(r) : r[i] = c
    <3>1. \A c : Due(c)' <=> \E k \in 1 .. Depth : \E i \in 1 .. Len(Call(k)'[2]) : Call(k)'[2][i] = c
      BY <1>2 DEF Due
    <3>2. Call(Depth)'[2] = r /\ Depth \in 1 .. Depth
      BY <1>2, <1>3, <1>p
    <3> QED BY <2>1, <2>2, <3>1, <3>2, <1>2
  <2>4. \A c : Due(c) <=> \E k \in 1 .. Len(calls) : \E i \in 1 .. Len(Call(k)[2]) : Call(k)[2][i] = c
    BY <2>1, <2>2, <1>2, <1>3, <1>4 DEF Due
  <2> QED BY <2>3, <2>4, <1>5
<1> HIDE DEF S, x
<1>a. CallsMatch'
  <2>1. ASSUME NEW k \in 1 .. Depth
        PROVE /\ Matched(Call(k)[1])' /\ Call(k)'[1] = Call(k)[1]
              /\ \A i \in 1 .. Len(Call(k)'[2]) :
                  /\ Call(k)'[2][i] # Target
                  /\ Call(k)'[2][i] \in Stable => vols[Call(k)'[2][i]].parent = Call(k)[1].file
                  /\ \A j \in 1 .. Len(Call(k)'[2]) : i < j => Call(k)'[2][i] < Call(k)'[2][j]
    <3>0. PICK y \in Entries : y = Call(k)[1] /\ Matched(y)
      BY <1>3, <1>4 DEF CallsMatch
    <3>1. Call(k)'[1] = y
      <4>1. CASE k = Depth
        BY <4>1, <3>0, <1>2
      <4>2. CASE k # Depth
        BY <4>2, <3>0, <1>2, <1>3
      <4> QED BY <4>1, <4>2
    <3>2. Matched(y)'
      BY <3>0, MatchedSame
    <3>3. CASE k = Depth
      <4>1. Call(k)'[2] = r /\ Call(k)[1].file = ent.file
        BY <3>3, <1>2, <1>p
      <4>2. \A i \in 1 .. Len(r) :
                  /\ r[i] # Target
                  /\ r[i] \in Stable => vols[r[i]].parent = ent.file
                  /\ \A j \in 1 .. Len(r) : i < j => r[i] < r[j]
        BY <1>5, <1>10 DEF S, Children
      <4>3. \A i \in 1 .. Len(Call(k)'[2]) :
                  /\ Call(k)'[2][i] # Target
                  /\ Call(k)'[2][i] \in Stable => vols[Call(k)'[2][i]].parent = Call(k)[1].file
                  /\ \A j \in 1 .. Len(Call(k)'[2]) : i < j => Call(k)'[2][i] < Call(k)'[2][j]
        BY <4>1, <4>2
      <4>4. Matched(Call(k)[1])' /\ Call(k)'[1] = Call(k)[1]
        BY <3>0, <3>1, <3>2
      <4> QED BY <4>3, <4>4
    <3>4. CASE k # Depth
      <4>1. Call(k)' = Call(k)
        BY <3>4, <1>2, <1>3
      <4> QED BY <3>0, <3>1, <3>2, <4>1, <1>4 DEF CallsMatch
    <3> QED BY <3>3, <3>4
  <2>2. ASSUME NEW k \in 1 .. Depth
        PROVE /\ Call(k)'[1].color \in {"root", "pre"}
              /\ Call(k)'[1].id = Target \/ Returned(Call(k)'[1].id)
              /\ \A l \in 1 .. Depth :
                  Call(k)'[1].id \in Home /\ Call(k)'[1].id = Call(l)'[1].id => k = l
    <3>1. Call(k)'[1] = Call(k)[1] /\ \A l \in 1 .. Depth : Call(l)'[1] = Call(l)[1]
      BY <2>1
    <3>2. /\ Call(k)[1].color \in {"root", "pre"}
          /\ Call(k)[1].id = Target \/ Returned(Call(k)[1].id)
          /\ \A l \in 1 .. Depth :
              Call(k)[1].id \in Home /\ Call(k)[1].id = Call(l)[1].id => k = l
      BY <1>4 DEF CallsMatch
    <3> QED BY <3>1, <3>2
  <2>3. Depth' = Depth /\ Home' = Home /\ Stable' = Stable /\ \A c : Returned(c)' <=> Returned(c)
    BY <1>1, <1>2
  <2>4. ASSUME NEW k \in 1 .. Depth
        PROVE /\ Matched(Call(k)[1])'
              /\ \A i \in 1 .. Len(Call(k)'[2]) :
                  /\ Call(k)'[2][i] # Target
                  /\ Call(k)'[2][i] \in Stable => vols'[Call(k)'[2][i]].parent = Call(k)'[1].file
                  /\ \A j \in 1 .. Len(Call(k)'[2]) : i < j => Call(k)'[2][i] < Call(k)'[2][j]
    BY <2>1
  <2> QED BY <2>2, <2>3, <2>4 DEF CallsMatch
<1>b. CallsOK'
  BY <1>4 DEF CallsOK
<1>c. CallsCovered'
  <2>1. ASSUME NEW c \in Stable
        PROVE /\ ~ (Returned(c) /\ Due(c)')
              /\ Hidden(c) => ~ Returned(c)
              /\ Returned(c) \/ Due(c)' => Called(vols[c].parent)'
              /\ ~ erred /\ Called(vols[c].parent)' => Returned(c) \/ Due(c)'
    <3>1. PICK p \in Home : p = vols[c].parent
      BY <1>8
    <3>2. /\ ~ (Returned(c) /\ Due(c))
          /\ Hidden(c) => ~ Returned(c)
          /\ Returned(c) \/ Due(c) => Called(p)
          /\ ~ erred /\ Called(p) => Returned(c) \/ Due(c)
      BY <3>1, <1>4 DEF CallsCovered
    <3>3. c \in S <=> p = x
      BY <3>1, <1>9
    <3>4. /\ ~ (Returned(c) /\ Due(c)')
          /\ Returned(c) \/ Due(c)' => Called(p)'
          /\ ~ erred /\ Called(p)' => Returned(c) \/ Due(c)'
      BY <3>2, <3>3, <1>6, <1>11, <1>12
    <3>5. vols'[c].parent = p
      BY <3>1
    <3> QED BY <3>2, <3>4, <3>5
  <2> QED BY <2>1, <1>1, <1>2 DEF CallsCovered
<1>d. CallsInTurn'
  <2>1. ASSUME NEW c \in Stable, NEW d \in Stable, Siblings(c, d) PROVE Due(c)' => ~ Returned(d)
    <3>1. CASE c \in S
      <4>1. PICK p \in Home : p = vols[d].parent /\ p = x
        BY <2>1, <3>1, <1>8, <1>9 DEF Siblings
      <4> QED BY <4>1, <1>4, <1>11 DEF CallsCovered
    <3>2. CASE c \notin S
      BY <2>1, <3>2, <1>4, <1>12 DEF CallsInTurn
    <3> QED BY <3>1, <3>2
  <2>2. \A c, p \in Stable : vols[c].parent = p =>
          \A i, j \in 1 .. Len(yielded) : yielded[i].id = p /\ yielded[j].id = c => i < j
    BY <1>4 DEF CallsInTurn
  <2>3. \A c, d \in Stable : Siblings(c, d) =>
          \A i, j \in 1 .. Len(yielded) : yielded[i].id = c /\ yielded[j].id = d => i < j
    BY <1>4 DEF CallsInTurn
  <2> QED BY <2>1, <2>2, <2>3, <1>1, <1>2 DEF CallsInTurn
<1> QED BY <1>a, <1>b, <1>c, <1>d DEF RootRefInv

\* A subvolume is returned, and walked in a call of its own.
LEMMA CallsInner ==
  ASSUME TypeInv, PlacesOK, YieldedMatch, YieldedOnce, RootRefInv, UNCHANGED <<vols, disturbed>>,
         pc = "lookup", refs # <<>>, LookupUser(Head(refs)) = "found",
         ent' = Ref(Head(refs)), yielded' = Append(yielded, Ref(Head(refs))),
         calls' = Append(calls, <<ent, Tail(refs)>>), refs' = <<>>, pc' = "open",
         UNCHANGED <<order, direction, outside, erred>>
  PROVE  YieldedMatch' /\ YieldedOnce' /\ RootRefInv'
<1>0. PlacesType /\ WalkType
  BY DEF TypeInv
<1>1. /\ Stable' = Stable /\ Home' = Home
      /\ \A c : Hidden(c)' <=> Hidden(c)
      /\ \A c, d : Siblings(c, d)' <=> Siblings(c, d)
  BY PlacesSame
<1>2. /\ Len(calls) \in Nat /\ Depth = Len(calls) + 1
      /\ \A k \in 1 .. Depth : Call(k)[1] \in Entries /\ Call(k)[2] \in Seq(Ids)
      /\ \A k \in 1 .. Len(calls) : Call(k) = calls[k]
      /\ Call(Depth) = <<ent, refs>> /\ Depth \in 1 .. Depth
  BY <1>0, CallTypes
<1>D. PICK D \in Nat : D = Depth
  BY <1>2
<1>3. CallsMatch /\ CallsOK /\ CallsCovered /\ CallsInTurn
  BY DEF RootRefInv
<1>e. PICK e \in Entries : e = ent
  BY <1>0 DEF WalkType
<1>4. Matched(e) /\ (e.id = Target \/ Returned(e.id))
  <2>1. Call(Depth)[1] = e
    BY <1>2, <1>e
  <2> QED BY <2>1, <1>2, <1>3 DEF CallsMatch
<1>n. PICK n \in Nat : n = Len(refs) /\ n > 0
  BY <1>0 DEF WalkType
<1>t. PICK t \in Seq(Ids) : t = Tail(refs) /\ Len(t) = n - 1 /\ \A i \in 1 .. (n - 1) : t[i] = refs[i + 1]
  <2>1. refs \in Seq(Ids)
    BY <1>0 DEF WalkType
  <2> QED BY <2>1, <1>n, TailIs
<1>h. PICK h \in Ids : h = refs[1] /\ h = Head(refs)
  <2>1. refs \in Seq(Ids)
    BY <1>0 DEF WalkType
  <2> QED BY <2>1, <1>n, TailIs
<1>5. /\ \A i \in 1 .. n : refs[i] # Target /\ (refs[i] \in Stable => vols[refs[i]].parent = e.file)
      /\ \A i, j \in 1 .. n : i < j => refs[i] < refs[j]
  <2>1. Call(Depth)[1] = e /\ Call(Depth)[2] = refs
    BY <1>2, <1>e
  <2> QED BY <2>1, <1>2, <1>3, <1>n DEF CallsMatch
<1>6. /\ h \in DOMAIN vols /\ vols[h].parent = e.file /\ vols[h].name \in Names /\ ~ Hidden(h)
      /\ h # Target
  <2>1. vols[h].name \in Names /\ ~ Hidden(h)
    BY <1>0, <1>4, <1>e, <1>h, LookupFacts
  <2>2. h \in Children(e.file)
    BY <1>e, <1>h DEF LookupUser
  <2>3. h # Target
    BY <1>h, <1>n, <1>5
  <2> QED BY <2>1, <2>2, <2>3 DEF Children
<1>f. PICK f \in Entries : f = ent' /\ f = Ref(h)
  BY <1>0, <1>6, <1>h, RefIs
<1>7. /\ f.id = h /\ f.file = h /\ f.parent = e.file /\ f.color = "pre"
      /\ f.path = Append(e.path, vols[h].name)
  BY <1>0, <1>6, <1>e, <1>f, RefIs
<1>8. /\ \A c \in Stable : c \in DOMAIN vols /\ c \in Home /\ c # Target /\ vols[c].parent \in Home /\ vols[c].parent # c
      /\ \A g \in Home : g # Target => g \in Stable
      /\ Stable \subseteq Nat
  BY <1>0, HomeFacts
<1>9. Matched(f)
  <2>1. PICK nm \in Names : nm = vols[h].name
    BY <1>6
  <2>2. h \in Named(ent.file, nm)
    BY <2>1, <1>6, <1>e DEF Named, Children
  <2>3. /\ Near(h)
        /\ \A g \in Home : h = g <=> g \in Resolve(Target, Append(ent.path, nm))
    BY <2>2, <1>0, <1>4, <1>e, PathBelow
  <2>4. f.path # <<>>
    <3>1. e.path \in Seq(Names)
      BY EntryType
    <3>2. Append(e.path, nm) # <<>>
      BY <3>1, <2>1
    <3> QED BY <3>2, <2>1, <1>7
  <2>5. ASSUME NEW g \in Home PROVE g \in Resolve(Target, f.path) <=> h = g
    BY <2>1, <2>3, <1>7, <1>e
  <2>6. \A g \in Home : g # Target /\ h = g => e.file = vols[g].parent
    BY <1>6
  <2> QED BY <2>3, <2>4, <2>5, <2>6, <1>6, <1>7 DEF Matched
<1>10. /\ Depth' = D + 1
       /\ \A k \in 1 .. Len(calls) : Call(k)' = Call(k)
       /\ Call(D)' = <<e, t>> /\ Call(D + 1)' = <<f, <<>> >>
  <2>1. PICK y \in Entries \X Seq(Ids) : y = <<e, t>>
    OBVIOUS
  <2>2. calls \in Seq(Entries \X Seq(Ids)) /\ calls' = Append(calls, y)
    BY <2>1, <1>0, <1>e, <1>t DEF WalkType
  <2>3. /\ Len(calls') = Len(calls) + 1 /\ calls'[Len(calls) + 1] = y
        /\ \A k \in 1 .. Len(calls) : calls'[k] = calls[k]
    BY <2>2, AppendIs
  <2>4. Depth' = D + 1
    BY <2>3, <1>2, <1>D DEF Depth
  <2>5. PICK l \in Nat : l = Len(calls) /\ D = l + 1 /\ Len(calls') = l + 1
    BY <2>3, <1>2, <1>D
  <2>6. ASSUME NEW k \in 1 .. (l + 1) PROVE Call(k)' = calls'[k]
    BY <2>5 DEF Call
  <2>7. Call(D + 1)' = <<ent', refs'>>
    <3>1. ~ (D + 1 <= l + 1)
      BY <2>5
    <3> QED BY <2>5, <3>1 DEF Call
  <2>8. ASSUME NEW k \in 1 .. Len(calls) PROVE Call(k)' = Call(k)
    <3>1. k \in 1 .. (l + 1) /\ calls'[k] = calls[k] /\ Call(k) = calls[k]
      BY <2>3, <2>5, <1>2
    <3> QED BY <2>6, <3>1
  <2>9. Call(D)' = <<e, t>>
    <3>1. D \in 1 .. (l + 1) /\ calls'[D] = y
      BY <2>3, <2>5
    <3> QED BY <2>1, <2>6, <3>1
  <2>10. Call(D + 1)' = <<f, <<>> >>
    BY <2>7, <1>f
  <2> QED BY <2>4, <2>8, <2>9, <2>10
<1>11. \A k \in 1 .. (D + 1) : k \in 1 .. Len(calls) \/ k = D \/ k = D + 1
  BY <1>2, <1>D
<1>m. PICK m \in Nat : m = Len(yielded)
  BY <1>0 DEF WalkType
<1>12. Len(yielded') = m + 1 /\ yielded'[m + 1] = f /\ \A i \in 1 .. m : yielded'[i] = yielded[i]
  <2>1. yielded' = Append(yielded, f) /\ yielded \in Seq(Entries)
    BY <1>0, <1>f, <1>h DEF WalkType
  <2> QED BY <2>1, <1>m, AppendIs
<1>13. \A c : Returned(c)' <=> Returned(c) \/ c = h
  <2>1. f.id = h
    BY <1>7
  <2> QED BY <2>1, <1>m, <1>12 DEF Returned
<1>14. \A c : Due(c) <=> Due(c)' \/ c = h
  <2>1. \A c : Due(c) <=> (\E k \in 1 .. Len(calls) : \E i \in 1 .. Len(Call(k)[2]) : Call(k)[2][i] = c)
                          \/ \E i \in 1 .. n : refs[i] = c
    <3>1. Call(D)[2] = refs
      BY <1>2, <1>D
    <3>2. \A k \in 1 .. D : k \in 1 .. Len(calls) \/ k = D
      BY <1>2, <1>D
    <3>3. \A k \in 1 .. Len(calls) : k \in 1 .. D
      BY <1>2, <1>D
    <3> QED BY <3>1, <3>2, <3>3, <1>2, <1>D, <1>n DEF Due
  <2>2. \A c : Due(c)' <=> (\E k \in 1 .. Len(calls) : \E i \in 1 .. Len(Call(k)[2]) : Call(k)[2][i] = c)
                           \/ \E i \in 1 .. (n - 1) : t[i] = c
    <3>1. \A c : Due(c)' <=> \E k \in 1 .. (D + 1) : \E i \in 1 .. Len(Call(k)'[2]) : Call(k)'[2][i] = c
      BY <1>10, <1>D DEF Due
    <3>2. Call(D)'[2] = t /\ Call(D + 1)'[2] = <<>>
      BY <1>10
    <3>3. D \in 1 .. (D + 1) /\ \A k \in 1 .. Len(calls) : k \in 1 .. (D + 1)
      BY <1>2, <1>D
    <3>4. \A k \in 1 .. Len(calls) : Call(k)' = Call(k)
      BY <1>10
    <3>5. \A k \in 1 .. (D + 1) : k \in 1 .. Len(calls) \/ k = D \/ k = D + 1
      BY <1>11
    <3>6. ASSUME NEW c, Due(c)'
          PROVE  (\E k \in 1 .. Len(calls) : \E i \in 1 .. Len(Call(k)[2]) : Call(k)[2][i] = c) \/ \E i \in 1 .. (n - 1) : t[i] = c
      <4>1. PICK k \in 1 .. (D + 1) : \E i \in 1 .. Len(Call(k)'[2]) : Call(k)'[2][i] = c
        BY <3>1, <3>6
      <4>2. CASE k = D
        <5>1. \E i \in 1 .. Len(t) : t[i] = c
          BY <4>1, <4>2, <3>2
        <5> QED BY <5>1, <1>t
      <4>3. CASE k = D + 1
        BY <4>1, <4>3, <3>2
      <4>4. CASE k \in 1 .. Len(calls)
        BY <4>1, <4>4, <3>4
      <4> QED BY <4>2, <4>3, <4>4, <3>5
    <3>7. ASSUME NEW c, \E k \in 1 .. Len(calls) : \E i \in 1 .. Len(Call(k)[2]) : Call(k)[2][i] = c PROVE Due(c)'
      BY <3>1, <3>3, <3>4, <3>7
    <3>8. ASSUME NEW c, \E i \in 1 .. (n - 1) : t[i] = c PROVE Due(c)'
      <4>1. \E i \in 1 .. Len(Call(D)'[2]) : Call(D)'[2][i] = c
        BY <3>2, <3>8, <1>t
      <4> QED BY <4>1, <3>1, <3>3
    <3> QED BY <3>6, <3>7, <3>8
  <2>3. \A c : (\E i \in 1 .. n : refs[i] = c) <=> c = h \/ \E i \in 1 .. (n - 1) : t[i] = c
    <3>1. \A i \in 1 .. n : i = 1 \/ (i - 1 \in 1 .. (n - 1) /\ (i - 1) + 1 = i)
      OBVIOUS
    <3>2. ASSUME NEW i \in 1 .. n PROVE refs[i] = h \/ \E j \in 1 .. (n - 1) : t[j] = refs[i]
      BY <3>1, <1>t, <1>h
    <3>3. ASSUME NEW i \in 1 .. (n - 1) PROVE \E j \in 1 .. n : refs[j] = t[i]
      <4>1. i + 1 \in 1 .. n
        BY <1>n
      <4> QED BY <4>1, <1>t
    <3>4. \E j \in 1 .. n : refs[j] = h
      BY <1>h, <1>n
    <3> QED BY <3>2, <3>3, <3>4
  <2> QED BY <2>1, <2>2, <2>3
\* The calls are of different subvolumes.
<1>15. ASSUME NEW c \in Stable, vols[c].parent = e.file, NEW k \in 1 .. Len(calls), NEW i \in 1 .. Len(Call(k)[2]), Call(k)[2][i] = c
       PROVE FALSE
  <2>1. k \in 1 .. D /\ k # D
    BY <1>2, <1>D
  <2>2. Call(k)[1].file = e.file
    BY <2>1, <1>3, <1>15, <1>D DEF CallsMatch
  <2>3. e.file \in Home
    BY <1>8, <1>15
  <2>4. Call(k)[1].id = e.file
    <3>1. Matched(Call(k)[1])
      BY <2>1, <1>3, <1>D DEF CallsMatch
    <3> QED BY <3>1, <2>2, <2>3 DEF Matched
  <2>5. e.id = e.file
    BY <2>3, <1>4 DEF Matched
  <2>6. Call(D)[1] = e
    BY <1>2, <1>D, <1>e
  <2>7. \A l \in 1 .. D : Call(k)[1].id \in Home /\ Call(k)[1].id = Call(l)[1].id => k = l
    BY <2>1, <1>3, <1>D DEF CallsMatch
  <2> QED BY <2>1, <2>3, <2>4, <2>5, <2>6, <2>7, <1>2, <1>D
\* A child that is still due comes after h.
<1>16. ASSUME NEW c \in Stable, vols[c].parent = e.file, Due(c)' PROVE h < c
  <2>1. PICK k \in 1 .. (D + 1) : \E i \in 1 .. Len(Call(k)'[2]) : Call(k)'[2][i] = c
    BY <1>10, <1>16 DEF Due
  <2>2. k \notin 1 .. Len(calls)
    BY <2>1, <1>10, <1>15, <1>16
  <2>3. k # D + 1
    BY <2>1, <1>10
  <2>4. \E i \in 1 .. (n - 1) : t[i] = c
    <3>1. k = D
      BY <2>2, <2>3, <1>11
    <3>2. Call(D)'[2] = t
      BY <1>10
    <3> QED BY <2>1, <3>1, <3>2, <1>t
  <2>5. PICK i \in 1 .. (n - 1) : refs[i + 1] = c
    BY <2>4, <1>t
  <2>6. 1 \in 1 .. n /\ i + 1 \in 1 .. n /\ 1 < i + 1
    BY <1>n
  <2> QED BY <2>5, <2>6, <1>5, <1>h
<1>17. Due(h) /\ (h \in Stable => ~ Due(h)' /\ ~ Returned(h))
  <2>1. Due(h)
    BY <1>14
  <2>2. h \in Stable => ~ Returned(h)
    BY <2>1, <1>3 DEF CallsCovered
  <2>3. h \in Stable => ~ Due(h)'
    <3>1. h \in Stable /\ Due(h)' => h < h
      BY <1>6, <1>16
    <3>2. h \in Stable => h \in Nat
      BY <1>8
    <3>3. \A x \in Nat : ~ (x < x)
      OBVIOUS
    <3> QED BY <3>1, <3>2, <3>3
  <2> QED BY <2>1, <2>2, <2>3
<1>18. \A p \in Home : Called(p)' <=> Called(p)
  <2>1. \A p : Called(p) <=> p = Target \/ Returned(p)
    BY DEF Called
  <2>2. \A p : Called(p)' <=> (p = Target \/ Returned(p)') /\ p # h
    BY <1>f, <1>7 DEF Called
  <2> QED BY <2>1, <2>2, <1>6, <1>8, <1>13, <1>17
<1>a. CallsMatch'
  <2>1. ASSUME NEW k \in 1 .. (D + 1)
        PROVE /\ Matched(Call(k)[1])' /\ Call(k)'[1].color \in {"root", "pre"}
              /\ Call(k)'[1].id = Target \/ Returned(Call(k)'[1].id) \/ (Call(k)'[1].id = h /\ k = D + 1)
              /\ k # D + 1 => Call(k)'[1] = Call(k)[1]
              /\ \A i \in 1 .. Len(Call(k)'[2]) :
                  /\ Call(k)'[2][i] # Target
                  /\ Call(k)'[2][i] \in Stable => vols[Call(k)'[2][i]].parent = Call(k)'[1].file
                  /\ \A j \in 1 .. Len(Call(k)'[2]) : i < j => Call(k)'[2][i] < Call(k)'[2][j]
    <3>1. CASE k = D + 1
      <4>1. Call(k)'[1] = f /\ Call(k)'[2] = <<>>
        BY <3>1, <1>10
      <4>2. Matched(f)'
        BY <1>9, MatchedSame
      <4> QED BY <3>1, <4>1, <4>2, <1>7
    <3>2. CASE k = D
      <4>1. Call(k)'[1] = e /\ Call(k)'[2] = t /\ Call(k)[1] = e
        BY <3>2, <1>2, <1>D, <1>10, <1>e
      <4>2. Matched(e)'
        BY <1>4, MatchedSame
      <4>3. e.color \in {"root", "pre"}
        BY <3>2, <4>1, <1>2, <1>D, <1>3, <1>D DEF CallsMatch
      <4>4. ASSUME NEW i \in 1 .. (n - 1)
            PROVE t[i] # Target /\ (t[i] \in Stable => vols[t[i]].parent = e.file) /\ \A j \in 1 .. (n - 1) : i < j => t[i] < t[j]
        <5>1. i + 1 \in 1 .. n /\ \A j \in 1 .. (n - 1) : j + 1 \in 1 .. n /\ (i < j => i + 1 < j + 1)
          BY <1>n
        <5> QED BY <5>1, <1>5, <1>t
      <4> QED BY <4>1, <4>2, <4>3, <4>4, <1>4, <1>t
    <3>3. CASE k \in 1 .. Len(calls)
      <4>1. Call(k)' = Call(k) /\ k \in 1 .. D /\ k # D + 1
        BY <3>3, <1>2, <1>D, <1>10
      <4>2. PICK y \in Entries : y = Call(k)[1] /\ Matched(y)
        BY <4>1, <1>2, <1>D, <1>3, <1>D DEF CallsMatch
      <4>3. Matched(y)'
        BY <4>2, MatchedSame
      <4> QED BY <4>1, <4>2, <4>3, <1>3, <1>D DEF CallsMatch
    <3> QED BY <3>1, <3>2, <3>3, <1>11
  <2>2. ASSUME NEW k \in 1 .. (D + 1), NEW l \in 1 .. (D + 1), Call(k)'[1].id \in Home, Call(k)'[1].id = Call(l)'[1].id, k # l
        PROVE FALSE
    <3>1. h \in Home => ~ Returned(h) /\ h # Target
      BY <1>6, <1>8, <1>17
    <3>2. Call(D + 1)'[1].id = h
      BY <1>7, <1>10
    <3>3. CASE k = D + 1
      BY <2>1, <2>2, <3>1, <3>2, <3>3
    <3>4. CASE l = D + 1
      BY <2>1, <2>2, <3>1, <3>2, <3>4
    <3>5. CASE k # D + 1 /\ l # D + 1
      <4>1. k \in 1 .. D /\ l \in 1 .. D
        BY <3>5, <1>2, <1>D, <1>11
      <4>2. Call(k)[1].id \in Home /\ Call(k)[1].id = Call(l)[1].id
        BY <2>1, <2>2, <3>5
      <4> QED BY <2>2, <4>1, <4>2, <1>3, <1>D DEF CallsMatch
    <3> QED BY <3>3, <3>4, <3>5
  <2>3. \A k \in 1 .. (D + 1) : Call(k)'[1].id = Target \/ Returned(Call(k)[1].id)'
    <3>1. ASSUME NEW k \in 1 .. (D + 1) PROVE Call(k)'[1].id = Target \/ \E i \in 1 .. (m + 1) : yielded'[i].id = Call(k)'[1].id
      <4>1. \A c : Returned(c) \/ c = h => \E i \in 1 .. (m + 1) : yielded'[i].id = c
        BY <1>m, <1>7, <1>12 DEF Returned
      <4> QED BY <4>1, <2>1
    <3> QED BY <3>1, <1>12 DEF Returned
  <2> QED BY <2>1, <2>2, <2>3, <1>1, <1>10 DEF CallsMatch
<1>b. CallsOK'
  BY <1>3 DEF CallsOK
<1>c. CallsCovered'
  <2>1. ASSUME NEW c \in Stable
        PROVE /\ ~ (Returned(c)' /\ Due(c)')
              /\ Hidden(c) => ~ Returned(c)'
              /\ Returned(c)' \/ Due(c)' => Called(vols[c].parent)'
              /\ ~ erred /\ Called(vols[c].parent)' => Returned(c)' \/ Due(c)'
    <3>1. PICK p \in Home : p = vols[c].parent
      BY <1>8
    <3>2. /\ ~ (Returned(c) /\ Due(c))
          /\ Hidden(c) => ~ Returned(c)
          /\ Returned(c) \/ Due(c) => Called(p)
          /\ ~ erred /\ Called(p) => Returned(c) \/ Due(c)
      BY <3>1, <1>3 DEF CallsCovered
    <3>3. /\ ~ (Returned(c)' /\ Due(c)')
          /\ Hidden(c) => ~ Returned(c)'
          /\ Returned(c)' \/ Due(c)' => Called(p)'
          /\ ~ erred /\ Called(p)' => Returned(c)' \/ Due(c)'
      BY <3>2, <1>6, <1>13, <1>14, <1>17, <1>18
    <3>4. vols'[c].parent = p
      BY <3>1
    <3> QED BY <3>3, <3>4
  <2> QED BY <2>1, <1>1 DEF CallsCovered
<1>d. CallsInTurn'
  <2>1. ASSUME NEW c \in Stable, NEW p \in Stable, vols[c].parent = p
        PROVE  \A i, j \in 1 .. (m + 1) : yielded'[i].id = p /\ yielded'[j].id = c => i < j
    <3>1. \A i, j \in 1 .. m : yielded[i].id = p /\ yielded[j].id = c => i < j
      BY <2>1, <1>3, <1>m DEF CallsInTurn
    <3>2. p = h => ~ Returned(c)
      <4>1. Returned(c) => Called(p)
        BY <2>1, <1>3 DEF CallsCovered
      <4> QED BY <4>1, <2>1, <1>6, <1>17 DEF Called
    <3>3. p = h => \A j \in 1 .. m : yielded[j].id # c
      BY <3>2, <1>m DEF Returned
    <3>4. c # p
      BY <2>1, <1>8
    <3>5. ASSUME NEW i \in 1 .. (m + 1), NEW j \in 1 .. (m + 1), yielded'[i].id = p, yielded'[j].id = c
          PROVE  i < j
      <4>1. CASE i \in 1 .. m /\ j \in 1 .. m
        BY <3>1, <3>5, <4>1, <1>12
      <4>2. CASE i = m + 1
        <5>1. p = h
          BY <3>5, <4>2, <1>7, <1>12
        <5>2. j \notin 1 .. m
          BY <3>3, <3>5, <5>1, <1>12
        <5>3. j = m + 1
          BY <5>2
        <5> QED BY <3>4, <3>5, <4>2, <5>3
      <4>3. CASE i \in 1 .. m /\ j = m + 1
        BY <4>3
      <4> QED BY <4>1, <4>2, <4>3
    <3> QED BY <3>5
  <2>2. ASSUME NEW c \in Stable, NEW d \in Stable, Siblings(c, d)
        PROVE  /\ Due(c)' => ~ Returned(d)'
               /\ \A i, j \in 1 .. (m + 1) : yielded'[i].id = c /\ yielded'[j].id = d => i < j
    <3>1. /\ Due(c) => ~ Returned(d)
          /\ \A i, j \in 1 .. m : yielded[i].id = c /\ yielded[j].id = d => i < j
      BY <2>2, <1>3, <1>m DEF CallsInTurn
    <3>2. c # d /\ vols[c].parent = vols[d].parent /\ c < d
      BY <2>2, <1>3 DEF Siblings, First, CallsOK
    <3>3. d = h => ~ Due(c)'
      <4>1. d = h /\ Due(c)' => d < c
        BY <3>2, <1>6, <1>16
      <4> QED BY <4>1, <3>2, <1>8
    <3>4. c = h => \A j \in 1 .. m : yielded[j].id # d
      BY <3>1, <1>17, <1>m DEF Returned
    <3>5. \A i, j \in 1 .. (m + 1) : yielded'[i].id = c /\ yielded'[j].id = d => i < j
      BY <3>1, <3>2, <3>4, <1>7, <1>12
    <3> QED BY <3>1, <3>3, <3>5, <1>13, <1>14
  <2>3. Len(yielded') = m + 1
    BY <1>12
  <2>4. ASSUME NEW c \in Stable, NEW p \in Stable, vols[c].parent = p
        PROVE  \A i, j \in 1 .. Len(yielded') : yielded'[i].id = p /\ yielded'[j].id = c => i < j
    BY <2>1, <2>3, <2>4
  <2>5. ASSUME NEW c \in Stable, NEW d \in Stable, Siblings(c, d)
        PROVE  /\ Due(c)' => ~ Returned(d)'
               /\ \A i, j \in 1 .. Len(yielded') : yielded'[i].id = c /\ yielded'[j].id = d => i < j
    BY <2>2, <2>3, <2>5
  <2>6. Stable' = Stable /\ vols' = vols /\ \A c, d : Siblings(c, d)' <=> Siblings(c, d)
    BY <1>1
  <2>7. \A c, p \in Stable' : vols'[c].parent = p =>
          \A i, j \in 1 .. Len(yielded') : yielded'[i].id = p /\ yielded'[j].id = c => i < j
    <3>1. SUFFICES ASSUME NEW c \in Stable', NEW p \in Stable', vols'[c].parent = p
                   PROVE  \A i, j \in 1 .. Len(yielded') : yielded'[i].id = p /\ yielded'[j].id = c => i < j
      OBVIOUS
    <3>2. c \in Stable /\ p \in Stable /\ vols[c].parent = p
      BY <3>1, <2>6
    <3> QED BY <3>2, <2>4
  <2>8. \A c, d \in Stable' : Siblings(c, d)' =>
          /\ Due(c)' => ~ Returned(d)'
          /\ \A i, j \in 1 .. Len(yielded') : yielded'[i].id = c /\ yielded'[j].id = d => i < j
    <3>1. SUFFICES ASSUME NEW c \in Stable', NEW d \in Stable', Siblings(c, d)'
                   PROVE  /\ Due(c)' => ~ Returned(d)'
                          /\ \A i, j \in 1 .. Len(yielded') : yielded'[i].id = c /\ yielded'[j].id = d => i < j
      OBVIOUS
    <3>2. c \in Stable /\ d \in Stable /\ Siblings(c, d)
      BY <3>1, <2>6
    <3> QED BY <3>2, <2>5
  <2> QED BY <2>7, <2>8 DEF CallsInTurn
<1>j. YieldedMatch'
  <2>1. ASSUME NEW i \in 1 .. (m + 1) PROVE Matched(yielded[i])' /\ yielded'[i].color # "root"
    <3>1. PICK y \in Entries : y = yielded'[i] /\ Matched(y) /\ y.color # "root"
      <4>1. CASE i = m + 1
        BY <4>1, <1>12, <1>7, <1>9
      <4>2. CASE i # m + 1
        <5>1. i \in 1 .. m /\ yielded \in Seq(Entries)
          BY <4>2, <1>0 DEF WalkType
        <5> QED BY <5>1, <1>m, <1>12 DEF YieldedMatch
      <4> QED BY <4>1, <4>2
    <3>2. Matched(y)'
      BY <3>1, MatchedSame
    <3> QED BY <3>1, <3>2
  <2> QED BY <2>1, <1>12 DEF YieldedMatch
<1>k. YieldedOnce'
  <2>2. \A c \in Stable : c = h => \A i \in 1 .. m : yielded[i].id # c
    BY <1>17, <1>m DEF Returned
  <2>3. \A c \in Stable : \A i, j \in 1 .. m : yielded[i].id = c /\ yielded[j].id = c => i = j
    BY <1>m DEF YieldedOnce
  <2>4. \A c \in Stable : \A i, j \in 1 .. (m + 1) : yielded'[i].id = c /\ yielded'[j].id = c => i = j
    BY <2>2, <2>3, <1>7, <1>12
  <2> QED BY <2>4, <1>1, <1>12 DEF YieldedOnce
<1> QED BY <1>a, <1>b, <1>c, <1>d, <1>j, <1>k DEF RootRefInv

\* Back in the call around the innermost one.
LEMMA CallsOuter ==
  ASSUME TypeInv, PlacesOK, RootRefInv, UNCHANGED <<vols, disturbed>>,
         pc = "lookup", pc' = "lookup", refs = <<>>, calls # <<>>,
         ent' = Last(calls)[1], refs' = Last(calls)[2], calls' = Front(calls),
         UNCHANGED <<order, direction, outside, yielded, erred>>
  PROVE  RootRefInv'
<1>0. PlacesType /\ WalkType
  BY DEF TypeInv
<1>1. /\ Stable' = Stable /\ Home' = Home
      /\ \A c : Hidden(c)' <=> Hidden(c)
      /\ \A c, d : Siblings(c, d)' <=> Siblings(c, d)
  BY PlacesSame
<1>2. /\ \A k \in 1 .. Depth : Call(k)[1] \in Entries /\ Call(k)[2] \in Seq(Ids) /\ Call(k) = <<Call(k)[1], Call(k)[2]>>
      /\ \A k \in 1 .. Len(calls) : Call(k) = calls[k]
      /\ Call(Depth) = <<ent, refs>>
  BY <1>0, CallTypes
<1>3. CallsMatch /\ CallsOK /\ CallsCovered /\ CallsInTurn
  BY DEF RootRefInv
<1>l. PICK l \in Nat : l = Len(calls) /\ l > 0 /\ Depth = l + 1
  <2>1. calls \in Seq(Entries \X Seq(Ids))
    BY <1>0 DEF WalkType
  <2>2. Len(calls) \in Nat \ {0}
    BY <2>1
  <2> QED BY <2>2 DEF Depth
<1>4. /\ Len(calls') = l - 1 /\ Last(calls) = calls[l]
      /\ \A k \in 1 .. (l - 1) : calls'[k] = calls[k]
  <2>1. calls \in Seq(Entries \X Seq(Ids))
    BY <1>0 DEF WalkType
  <2> QED BY <2>1, <1>l, FrontIs
<1>5. Depth' = l /\ \A k \in 1 .. l : Call(k)' = Call(k)
  <2>1. Depth' = l
    BY <1>4, <1>l DEF Depth
  <2>2. ASSUME NEW k \in 1 .. (l - 1) PROVE Call(k)' = Call(k)
    <3>1. Call(k)' = calls'[k]
      BY <1>4 DEF Call
    <3>2. k \in 1 .. Len(calls)
      BY <1>l
    <3> QED BY <3>1, <3>2, <1>2, <1>4
  <2>3. Call(l)' = Call(l)
    <3>1. Call(l)' = <<Last(calls)[1], Last(calls)[2]>>
      <4>1. ~ (l <= Len(calls'))
        BY <1>4, <1>l
      <4> QED BY <4>1 DEF Call
    <3>2. l \in 1 .. Depth /\ l \in 1 .. Len(calls)
      BY <1>l
    <3> QED BY <3>1, <3>2, <1>2, <1>4
  <2>4. \A k \in 1 .. l : k \in 1 .. (l - 1) \/ k = l
    OBVIOUS
  <2> QED BY <2>1, <2>2, <2>3, <2>4
<1>6. \A c : Returned(c)' <=> Returned(c)
  BY DEF Returned
<1>7. \A c : Due(c)' <=> Due(c)
  <2>1. \A c : Due(c)' <=> \E k \in 1 .. l : \E i \in 1 .. Len(Call(k)[2]) : Call(k)[2][i] = c
    <3>1. \A c : Due(c)' <=> \E k \in 1 .. l : \E i \in 1 .. Len(Call(k)'[2]) : Call(k)'[2][i] = c
      BY <1>5 DEF Due
    <3> QED BY <3>1, <1>5
  <2>2. \A c : Due(c) <=> \E k \in 1 .. (l + 1) : \E i \in 1 .. Len(Call(k)[2]) : Call(k)[2][i] = c
    BY <1>l DEF Due
  <2>3. Call(l + 1)[2] = <<>>
    BY <1>2, <1>l
  <2>4. \A k \in 1 .. (l + 1) : k \in 1 .. l \/ k = l + 1
    OBVIOUS
  <2>5. ASSUME NEW c, NEW k \in 1 .. (l + 1), NEW i \in 1 .. Len(Call(k)[2]), Call(k)[2][i] = c PROVE k \in 1 .. l
    BY <2>3, <2>4, <2>5
  <2>6. \A k \in 1 .. l : k \in 1 .. (l + 1)
    OBVIOUS
  <2> QED BY <2>1, <2>2, <2>5, <2>6
<1>8. \A c : Called(c)' <=> Called(c)
  BY <1>6 DEF Called
<1>a. CallsMatch'
  <2>1. ASSUME NEW k \in 1 .. l PROVE Matched(Call(k)[1])'
    <3>0. k \in 1 .. Depth
      BY <1>l
    <3>1. PICK e \in Entries : e = Call(k)[1] /\ Matched(e)
      BY <3>0, <1>2, <1>3 DEF CallsMatch
    <3>2. Matched(e)'
      BY <3>1, MatchedSame
    <3>3. e = Call(k)'[1]
      BY <1>5, <3>1
    <3> QED BY <3>2, <3>3
  <2>2. \A k \in 1 .. l : k \in 1 .. Depth
    BY <1>l
  <2>3. ASSUME NEW k \in 1 .. l
        PROVE /\ Call(k)[1].color \in {"root", "pre"}
              /\ Call(k)[1].id = Target \/ Returned(Call(k)[1].id)
              /\ \A j \in 1 .. l : Call(k)[1].id \in Home /\ Call(k)[1].id = Call(j)[1].id => k = j
              /\ \A i \in 1 .. Len(Call(k)[2]) :
                  /\ Call(k)[2][i] # Target
                  /\ Call(k)[2][i] \in Stable => vols[Call(k)[2][i]].parent = Call(k)[1].file
                  /\ \A j \in 1 .. Len(Call(k)[2]) : i < j => Call(k)[2][i] < Call(k)[2][j]
    BY <2>2, <1>3 DEF CallsMatch
  <2>4. \A k \in 1 .. l : Call(k)[1].id = Target \/ Returned(Call(k)[1].id)'
    <3>1. \A k \in 1 .. l : Call(k)[1].id = Target \/ \E i \in 1 .. Len(yielded) : yielded[i].id = Call(k)[1].id
      BY <2>3 DEF Returned
    <3> QED BY <3>1, <1>5 DEF Returned
  <2> QED BY <2>1, <2>3, <2>4, <1>1, <1>5 DEF CallsMatch
<1>b. CallsOK'
  BY <1>3 DEF CallsOK
<1>c. CallsCovered'
  BY <1>1, <1>3, <1>6, <1>7, <1>8 DEF CallsCovered
<1>d. CallsInTurn'
  BY <1>1, <1>3, <1>6, <1>7 DEF CallsInTurn
<1> QED BY <1>a, <1>b, <1>c, <1>d DEF RootRefInv

\* Every step of get_rootref keeps its invariant.
LEMMA CallsWalk ==
  ASSUME TypeInv, PlacesOK, YieldedMatch, YieldedOnce, RootRefInv, get_rootref, step # "done"
  PROVE  YieldedMatch' /\ YieldedOnce' /\ RootRefInv'
<1>0. PlacesType /\ WalkType
  BY DEF TypeInv
<1>1. Works \/ Fails
  BY DEF get_rootref, OpenPath, ListRefs, LookupRef, ReturnOk
<1>2. Shifted /\ UNCHANGED <<vols, disturbed>>
  BY <1>0, <1>1, StandStill DEF PlacesOK
<1>3. yielded' = yielded => YieldedMatch' /\ YieldedOnce'
  BY <1>2, YieldedKept
<1>4. CASE OpenPath
  <2>1. pc = "open" /\ UNCHANGED <<order, direction, outside, refs, yielded, calls>>
    BY <1>4 DEF OpenPath
  <2>2. CASE \E file \in Resolve(Target, ent.path) : ent' = [ent EXCEPT !.file = file] /\ pc' = "list" /\ UNCHANGED erred
    <3>1. PICK file \in Resolve(Target, ent.path) : ent' = [ent EXCEPT !.file = file] /\ pc' = "list" /\ UNCHANGED erred
      BY <2>2
    <3>2. RootRefInv'
      BY <2>1, <3>1, <1>2, OpensPath
    <3> QED BY <2>1, <3>2, <1>3
  <2>3. CASE Abort /\ UNCHANGED ent
    <3>1. pc' = "none" /\ erred'
      BY <2>3 DEF Abort
    <3>2. RootRefInv'
      BY <2>1, <2>3, <3>1, <1>2, CallsEnd
    <3> QED BY <2>1, <3>2, <1>3
  <2> QED BY <1>4, <2>2, <2>3 DEF OpenPath
<1>5. CASE ListRefs
  <2>1. pc \in {"list", "pop"} /\ UNCHANGED <<order, direction, outside, ent, yielded, calls>>
    BY <1>5 DEF ListRefs
  <2>2. CASE refs' = Ascending(Children(ent.file)) /\ pc' = "lookup" /\ UNCHANGED erred
    <3>1. RootRefInv'
      BY <2>1, <2>2, <1>0, <1>2, ListsRefs
    <3> QED BY <2>1, <3>1, <1>3
  <2>3. CASE Abort /\ UNCHANGED refs
    <3>1. pc' = "none" /\ erred'
      BY <2>3 DEF Abort
    <3>2. RootRefInv'
      BY <2>1, <2>3, <3>1, <1>2, CallsEnd
    <3> QED BY <2>1, <3>2, <1>3
  <2> QED BY <1>5, <2>2, <2>3 DEF ListRefs
<1>6. CASE LookupRef
  <2>1. pc = "lookup" /\ refs # <<>> /\ UNCHANGED <<order, direction, outside>>
    BY <1>6 DEF LookupRef
  <2>2. CASE /\ LookupUser(Head(refs)) = "found"
             /\ ent' = Ref(Head(refs)) /\ yielded' = Append(yielded, Ref(Head(refs)))
             /\ calls' = Append(calls, <<ent, Tail(refs)>>) /\ refs' = <<>>
             /\ pc' = "open" /\ UNCHANGED erred
    BY <2>1, <2>2, <1>0, <1>2, CallsInner
  <2>3. CASE Abort /\ UNCHANGED <<ent, yielded, calls, refs>>
    <3>1. pc' = "none" /\ erred'
      BY <2>3 DEF Abort
    <3>2. RootRefInv'
      BY <2>1, <2>3, <3>1, <1>2, CallsEnd
    <3> QED BY <2>3, <3>2, <1>3
  <2> QED BY <1>6, <2>2, <2>3 DEF LookupRef
<1>7. CASE ReturnOk
  <2>1. pc = "lookup" /\ refs = <<>> /\ UNCHANGED <<order, direction, outside, yielded, erred>>
    BY <1>7 DEF ReturnOk
  <2>2. CASE calls = <<>>
    <3>1. pc' = "none" /\ UNCHANGED <<ent, refs, calls>>
      BY <1>7, <2>2 DEF ReturnOk
    <3>2. RootRefInv'
      BY <2>1, <2>2, <3>1, <1>2, CallsEnd
    <3> QED BY <2>1, <3>2, <1>3
  <2>3. CASE calls # <<>>
    <3>1. /\ ent' = Last(calls)[1] /\ refs' = Last(calls)[2] /\ calls' = Front(calls)
          /\ pc' = "lookup"
      BY <1>7, <2>3 DEF ReturnOk
    <3>2. RootRefInv'
      BY <2>1, <2>3, <3>1, <1>2, CallsOuter
    <3> QED BY <2>1, <3>2, <1>3
  <2> QED BY <2>2, <2>3
<1> QED BY <1>4, <1>5, <1>6, <1>7 DEF get_rootref

\* Every step keeps the invariant of the walks.
LEMMA WalkStep ==
  ASSUME TypeInv, PlacesOK, ClientOK, WalkInv, Next, Shifted
  PROVE  WalkInv'
<1>0. PlacesType /\ WalkType /\ YieldedMatch /\ YieldedOnce
  BY DEF TypeInv, WalkInv
<1>1. Shifted
  OBVIOUS
<1>2. CASE Walk
  <2>1. step # "done" /\ client' = client
    BY <1>2 DEF Walk, destroyVars
  <2>2. CASE client = "get_rootref"
    <3>1. get_rootref /\ RootRefInv
      BY <1>2, <2>2 DEF Walk, WalkInv
    <3>2. YieldedMatch' /\ YieldedOnce' /\ RootRefInv'
      BY <1>0, <2>1, <3>1, CallsWalk
    <3> QED BY <2>1, <2>2, <3>2 DEF WalkInv
  <2>3. CASE client # "get_rootref"
    <3>1. IterStep /\ IterInv
      BY <1>2, <2>3 DEF Walk, WalkInv
    <3>2. YieldedMatch' /\ YieldedOnce' /\ IterInv'
      BY <1>0, <2>1, <3>1, IterWalks
    <3> QED BY <2>1, <2>3, <3>2 DEF WalkInv
  <2> QED BY <2>2, <2>3
<1>3. CASE WalkRests
  <2>1. YieldedMatch' /\ YieldedOnce'
    BY <1>0, <1>1, <1>3, YieldedKept DEF WalkRests
  <2>2. client' = client
    BY <1>3 DEF WalkRests
  <2>3. CASE client = "get_rootref"
    <3>1. RootRefInv
      BY <2>3 DEF WalkInv
    <3>2. RootRefInv'
      BY <3>1, <1>1, <1>3, RestsRootRef
    <3> QED BY <2>1, <2>2, <2>3, <3>2 DEF WalkInv
  <2>4. CASE client # "get_rootref"
    <3>1. IterInv
      BY <2>4 DEF WalkInv
    <3>2. IterInv'
      BY <3>1, <1>1, <1>3, RestsIter
    <3> QED BY <2>1, <2>2, <2>4, <3>2 DEF WalkInv
  <2> QED BY <2>3, <2>4
<1>4. Walk \/ WalkRests
  <2>1. CASE Begin
    BY <2>1 DEF Begin, walkVars, iterVars, WalkRests
  <2>2. CASE Walk
    BY <2>2
  <2>3. CASE Take
    BY <2>3 DEF Take, next, destroyVars, WalkRests
  <2>4. CASE WalkFailed
    BY <2>4 DEF WalkFailed, next, destroyVars, WalkRests
  <2>5. CASE OpenParent
    BY <2>5 DEF OpenParent, walkVars, iterVars, WalkRests
  <2>6. CASE DestroyItem
    BY <2>6 DEF DestroyItem, next, WalkRests
  <2>7. CASE DestroyTarget
    BY <2>7 DEF DestroyTarget, walkVars, iterVars, WalkRests
  <2>8. CASE Other
    BY <2>8 DEF Other, walkVars, iterVars, destroyVars, WalkRests
  <2> QED BY <2>1, <2>2, <2>3, <2>4, <2>5, <2>6, <2>7, <2>8 DEF Next, Destroyer
<1> QED BY <1>2, <1>3, <1>4

\* At first nothing has been seen but the target.
LEMMA InitWalk == Init => WalkInv
<1> SUFFICES ASSUME Init PROVE WalkInv
  OBVIOUS
<1>0. TypeInv /\ PlacesOK /\ PlacesType /\ WalkType
  BY InitTypes DEF TypeInv
<1>1. /\ stack = <<RootVol>> /\ ent = RootVol /\ refs = <<>> /\ pc = "pop" /\ yielded = <<>> /\ calls = <<>>
      /\ erred = FALSE
      /\ client = "get_rootref" => order = "pre" /\ direction = "ascending"
  BY DEF Init, IterInit
<1>2. /\ RootVol \in Entries /\ RootVol.id = Target /\ RootVol.file = Target /\ RootVol.parent = Dir
      /\ RootVol.color = "root" /\ RootVol.path = <<>>
  BY RootVolIs
<1>e. PICK e \in Entries : e = RootVol
  BY <1>2
<1>3. /\ \A c \in Stable : c # Target /\ c \in Home /\ vols[c].parent \in Home
      /\ Dir \notin Home
  BY <1>0, HomeFacts
<1>4. Matched(e)
  <2>1. Resolve(Target, <<>>) = {Target}
    <3>1. <<>> \in Seq(Names) /\ \E n : n \in Names
      BY VolumesAssumption
    <3>2. Place(vols, Target, <<>>) = {Target}
      BY <3>1, PlaceOf
    <3> QED BY <3>2, ResolveIsPlace
  <2>2. Target # Dir
    BY VolumesAssumption
  <2>3. Near(Target)
    BY <2>2, <1>0, SubtreeFacts, VolumesAssumption DEF Near
  <2> QED BY <2>1, <2>3, <1>2, <1>e DEF Matched
<1>5. Len(stack) = 1 /\ stack[1] = e /\ Len(refs) = 0 /\ Len(yielded) = 0
  BY <1>1, <1>e
<1>6. /\ \A c : ~ Returned(c) /\ ~ InHand(c) /\ ~ Listed(c)
      /\ \A c : OnStack(c) <=> c = Target
      /\ \A c : Waiting(c) <=> c = Target
      /\ ~ Expanding
  <2>1. \A c : ~ Returned(c) /\ ~ InHand(c) /\ ~ Listed(c) /\ ~ Expanding
    BY <1>1, <1>5 DEF Returned, InHand, Listed, Expanding
  <2>2. \A c : OnStack(c) <=> c = Target
    BY <1>2, <1>5, <1>e DEF OnStack
  <2>3. \A c : Waiting(c) <=> c = Target
    BY <2>1, <1>1, <1>2, <1>5, <1>e DEF Waiting
  <2> QED BY <2>1, <2>2, <2>3
<1>7. \A c \in Stable : ~ Seen(c)
  BY <1>3, <1>6 DEF Seen
<1>8. \A p : ~ Opened(p)
  BY <1>6 DEF Opened
<1>9. YieldedMatch /\ YieldedOnce
  BY <1>5 DEF YieldedMatch, YieldedOnce
<1>10. IterInv
  <2>a. StackMatch
    BY <1>1, <1>4, <1>5, <1>e DEF StackMatch
  <2>b. Colors
    BY <1>1, <1>2, <1>5, <1>6, <1>e DEF Colors
  <2>c. RefsOK
    BY <1>1, <1>5 DEF RefsOK
  <2>d. Once
    BY <1>3, <1>5, <1>6 DEF Once
  <2>e. Fresh
    BY <1>7 DEF Fresh
  <2>f. Covered
    BY <1>1, <1>3, <1>6, <1>7, <1>8 DEF Covered
  <2>g. ParentFirst
    BY <1>3, <1>5, <1>6 DEF ParentFirst
  <2>h. ParentLast
    <3>1. \A c \in Stable : \A k \in 1 .. Len(stack) : stack[k].id # c
      BY <1>2, <1>3, <1>5, <1>e
    <3> QED BY <3>1, <1>5, <1>6 DEF ParentLast
  <2>i. InTurn
    <3>1. \A c \in Stable : \A k \in 1 .. Len(stack) : stack[k].id # c
      BY <1>2, <1>3, <1>5, <1>e
    <3> QED BY <3>1, <1>5, <1>6 DEF InTurn
  <2> QED BY <2>a, <2>b, <2>c, <2>d, <2>e, <2>f, <2>g, <2>h, <2>i DEF IterInv
<1>11. client = "get_rootref" => RootRefInv
  <2>1. SUFFICES ASSUME client = "get_rootref" PROVE RootRefInv
    OBVIOUS
  <2>2. Len(calls) = 0 /\ Depth = 1 /\ Call(1) = <<e, <<>> >>
    BY <1>1, <1>e DEF Depth, Call
  <2>3. \A c : ~ Due(c)
    BY <2>2 DEF Due
  <2>4. \A c : ~ Called(c)
    BY <1>1, <1>2, <1>6 DEF Called
  <2>a. CallsMatch
    <3>1. \A k \in 1 .. Depth : Call(k) = <<e, <<>> >>
      BY <2>2
    <3>2. \A k, l \in 1 .. Depth : k = l
      BY <2>2
    <3> QED BY <3>1, <3>2, <1>2, <1>4, <1>e DEF CallsMatch
  <2>b. CallsOK
    BY <2>1, <1>1 DEF CallsOK
  <2>c. CallsCovered
    BY <2>3, <2>4, <1>6 DEF CallsCovered
  <2>d. CallsInTurn
    BY <2>3, <1>5 DEF CallsInTurn
  <2> QED BY <2>a, <2>b, <2>c, <2>d DEF RootRefInv
<1> QED BY <1>9, <1>10, <1>11 DEF WalkInv

\* The entries have paths.
LEMMA InvPaths ==
  ASSUME WalkInv
  PROVE  PathsOK
<1>1. SUFFICES ASSUME client # "get_rootref" PROVE PathsOK
  BY DEF PathsOK
<1>2. YieldedMatch /\ StackMatch /\ RefsOK
  BY <1>1 DEF WalkInv, IterInv
<1> QED BY <1>2 DEF PathsOK, YieldedMatch, StackMatch, Matched, RefsOK

\* A step of the walk keeps its invariant, or takes from it all it had to return.
LEMMA InvStep ==
  ASSUME Inv, Next
  PROVE  Shifts /\ (Inv' \/ Lost')
<1>1. TypeInv /\ PlacesType /\ TreeOK /\ Apart /\ ClientOK /\ WalkInv /\ PathsOK
  BY InvPaths DEF Inv, PlacesOK, TypeInv
<1>2. Shifts /\ (Shifted \/ (Stable' = {} /\ changes' > 0))
  BY <1>1, NextShifts
<1>3. PlacesType' /\ TreeOK' /\ changes' >= changes /\ changes' \in Nat
  BY <1>2 DEF Shifts, PlacesType
<1>4. TypeInv' /\ ClientOK' /\ PathsOK'
  BY <1>1, <1>3, WalkTypeStep, ClientStep, PathsStep DEF TypeInv
<1>5. CASE Shifted
  <2>1. PlacesOK'
    BY <1>3, <1>5 DEF Shifted, PlacesOK
  <2>2. WalkInv'
    BY <1>1, <1>5, WalkStep DEF PlacesOK
  <2> QED BY <1>2, <1>4, <2>1, <2>2 DEF Inv
<1>6. CASE Stable' = {} /\ changes' > 0
  BY <1>2, <1>3, <1>4, <1>6 DEF Lost
<1> QED BY <1>2, <1>5, <1>6

\* None becomes stable.
LEMMA LostStep ==
  ASSUME Lost, Next
  PROVE  Shifts /\ Lost'
<1>1. /\ TypeInv /\ PlacesType /\ TreeOK /\ ClientOK /\ PathsOK /\ Stable = {}
      /\ changes > 0 /\ changes \in Nat
  BY DEF Lost, TypeInv, PlacesType
<1>2. Shifts
  BY <1>1, NextShifts
<1>3. PlacesType' /\ TreeOK' /\ changes' >= changes /\ changes' \in Nat
  BY <1>2 DEF Shifts, PlacesType
<1>4. TypeInv' /\ ClientOK' /\ PathsOK'
  BY <1>1, <1>3, WalkTypeStep, ClientStep, PathsStep DEF TypeInv
<1>5. Stable' = {}
  <2>1. GoodBase(vols, Moved) /\ GoodBase(vols', Moved') /\ Kept(vols, Moved, vols', Moved')
    BY <1>1, <1>2, TreeIsGood DEF Shifts
  <2> QED BY <1>1, <2>1, HomeKept, HomeIs
<1>6. changes' > 0
  BY <1>1, <1>3
<1> QED BY <1>2, <1>3, <1>4, <1>5, <1>6 DEF Lost

\* Nothing happens.
LEMMA WalkStutters ==
  ASSUME UNCHANGED vars
  PROVE  (Inv => Inv') /\ (Lost => Lost')
<1>1. UNCHANGED <<volumeVars, walkVars, destroyVars>>
  BY DEF vars, walkVars, destroyVars
<1>2. TypeInv => TypeInv'
  BY <1>1 DEF TypeInv, PlacesType, WalkType, volumeVars, walkVars, iterVars, destroyVars
<1>3. /\ ClientOK => ClientOK'
      /\ PathsOK => PathsOK'
  BY <1>1 DEF ClientOK, PathsOK, volumeVars, walkVars, iterVars, destroyVars
<1>4. UNCHANGED <<vols, used, disturbed, changes, step>>
  BY <1>1 DEF volumeVars, destroyVars
<1>5. Moved' = Moved /\ Subtree(Target)' = Subtree(Target)
  BY <1>4, SubtreeIsBelow DEF Moved
<1>6. (TreeOK => TreeOK') /\ (Apart => Apart') /\ (Stable = {} => Stable' = {}) /\ (changes > 0 => changes' > 0)
  BY <1>4, <1>5 DEF TreeOK, Apart, Stable
<1>7. ASSUME Inv PROVE WalkInv'
  <2>1. TypeInv /\ PlacesType /\ PlacesOK /\ TreeOK /\ Apart /\ YieldedMatch /\ YieldedOnce /\ WalkInv
    BY <1>7 DEF Inv, TypeInv, WalkInv, PlacesOK
  <2>2. changes \in Nat /\ changes' \in Nat /\ changes' >= changes
    BY <1>4, <2>1 DEF PlacesType
  <2>3. Shifted
    BY <1>4, <2>1, <2>2, Unshifted
  <2>4. WalkRests
    BY <1>1 DEF walkVars, iterVars, destroyVars, WalkRests
  <2>5. YieldedMatch' /\ YieldedOnce'
    BY <2>1, <2>3, <2>4, YieldedKept DEF WalkRests
  <2>6. IF client = "get_rootref" THEN RootRefInv' ELSE IterInv'
    BY <2>1, <2>3, <2>4, RestsIter, RestsRootRef DEF WalkInv
  <2>7. client' = client
    BY <1>1 DEF destroyVars
  <2> QED BY <2>5, <2>6, <2>7 DEF WalkInv
<1>8. Inv => Inv'
  BY <1>2, <1>3, <1>6, <1>7 DEF Inv, PlacesOK
<1>9. Lost => Lost'
  BY <1>2, <1>3, <1>6 DEF Lost
<1> QED BY <1>8, <1>9

\* The invariant of the walks: whatever other processes do around a subvolume
\* that stays in its place, the walk knows it from its parent being listed to
\* its being returned, and the entries made for it say where it is.  Only when
\* none is left in its place, which others bring about, is nothing known but
\* the course of the walk.
THEOREM WalkInvariant == Spec => [](Inv \/ Lost)
<1>1. Init => Inv
  BY InitTypes, InitWalk DEF Inv
<1>2. (Inv \/ Lost) /\ [Next]_vars => (Inv \/ Lost)'
  BY InvStep, LostStep, WalkStutters
<1> QED BY <1>1, <1>2, PTL DEF Spec

\* Types of the variables.
THEOREM WalkTypes == Spec => []TypeOK
<1>1. Inv \/ Lost => TypeOK
  <2>1. SUFFICES ASSUME Inv \/ Lost PROVE TypeOK
    OBVIOUS
  <2>2. PlacesType /\ WalkType
    BY <2>1 DEF Inv, Lost, TypeInv
  <2>3. \A e \in Range(stack) \cup Range(yielded) \cup {ent} : e \in Entries
    BY <2>2 DEF WalkType, Range
  <2>4. ASSUME NEW e \in Entries
        PROVE {e.id, e.parent, e.file} \subseteq Ids /\ e.color \in {"root", "grey", "black", "pre"} /\ e.path \in Seq(Names)
    BY DEF Entries
  <2>5. Range(refs) \subseteq Ids
    BY <2>2 DEF WalkType, Range
  <2>6. IterTypeOK
    BY <2>2, <2>3, <2>4, <2>5 DEF IterTypeOK, PlacesType, WalkType
  <2> QED BY <2>2, <2>6 DEF TypeOK, WalkType
<1> QED BY <1>1, WalkInvariant, PTL

\* At the end without an error just the children of those returned, and of the
\* target, have been returned.
LEMMA WalkDone ==
  ASSUME Inv, pc = "none", ~ erred, NEW CONSTANT c \in Stable
  PROVE  Returned(c) <=> (vols[c].parent = Target \/ Returned(vols[c].parent)) /\ ~ Hidden(c)
<1>1. CASE client = "get_rootref"
  <2>1. CallsOK /\ CallsCovered
    BY <1>1 DEF Inv, WalkInv, RootRefInv
  <2>2. calls = <<>> /\ refs = <<>>
    BY <2>1 DEF CallsOK
  <2>3. ~ Due(c)
    BY <2>2 DEF Due, Depth, Call
  <2>4. \A p : Called(p) <=> p = Target \/ Returned(p)
    BY DEF Called
  <2> QED BY <2>1, <2>3, <2>4 DEF CallsCovered
<1>2. CASE client # "get_rootref"
  <2>1. RefsOK /\ Covered
    BY <1>2 DEF Inv, WalkInv, IterInv
  <2>2. stack = <<>> /\ refs = <<>>
    BY <2>1 DEF RefsOK
  <2>3. \A x : ~ OnStack(x) /\ ~ InHand(x) /\ ~ Listed(x)
    BY <2>2 DEF OnStack, InHand, Listed, Expanding
  <2>4. \A x : (Seen(x) <=> Returned(x)) /\ ~ Waiting(x)
    BY <2>2, <2>3 DEF Seen, Waiting
  <2>5. \A p : Opened(p) <=> p = Target \/ Returned(p)
    BY <2>3, <2>4 DEF Opened
  <2> QED BY <2>1, <2>4, <2>5 DEF Covered
<1> QED BY <1>1, <1>2

\* At the end without an error, by induction down the tree and closure up it: a stable
\* subvolume has been returned just when it is below the directory the walk starts from.
LEMMA ReachedAreReturned ==
  ASSUME Inv, pc = "none", ~ erred, NEW CONSTANT c \in Stable
  PROVE  Returned(c) <=> Reachable(c)
<1>0. PlacesType /\ PlacesOK /\ DOMAIN vols \subseteq Ids /\ Target \in Ids
  BY VolumesAssumption DEF Inv, TypeInv, PlacesType
<1>1. /\ \A x \in Stable : x \in DOMAIN vols /\ x \in Ids /\ x \notin disturbed /\ x # Target /\ vols[x].parent \in Home
      /\ \A x \in DOMAIN vols : vols[x].parent \in Home /\ x \notin disturbed => x \in Stable
      /\ Target \in Home
  BY <1>0, HomeFacts
<1>2. \A x \in Stable : Returned(x) <=> (vols[x].parent = Target \/ Returned(vols[x].parent)) /\ ~ Hidden(x)
  BY WalkDone
<1>3. \A v \in Ids : v \in Subtree(v) /\ ClosedIn(vols, Subtree(v)) /\ Subtree(v) \subseteq {v} \cup DOMAIN vols
  BY <1>0, SubtreeFacts
<1>4. ASSUME Returned(c) PROVE Reachable(c)
  <2> DEFINE s == {x \in Subtree(Target) : x \in Stable /\ Returned(x) => Reachable(x)}
  <2>1. Target \in s
    BY <1>0, <1>1, <1>3
  <2>2. ASSUME NEW x \in s, NEW y \in ChildrenOf(vols, x) PROVE y \in s
    <3>1. y \in Subtree(Target) /\ y \in DOMAIN vols /\ vols[y].parent = x /\ y \in Ids
      BY <1>0, <1>3, <2>2 DEF ClosedIn, ChildrenOf
    <3>2. SUFFICES ASSUME y \in Stable, Returned(y) PROVE Reachable(y)
      BY <3>1
    <3>3. (x = Target \/ Returned(x)) /\ ~ Hidden(y) /\ x \in Home
      BY <1>1, <1>2, <3>1, <3>2
    <3>4. CASE x = Target
      <4>1. y \in Children(Target) /\ vols[y].name \notin outside
        BY <3>1, <3>3, <3>4 DEF Children, Hidden
      <4>2. y \in Subtree(y)
        BY <1>3, <3>1
      <4> QED BY <4>1, <4>2 DEF Reachable
    <3>5. CASE x # Target
      <4>1. Reachable(x)
        BY <2>2, <3>3, <3>5 DEF Home
      <4>2. PICK d \in Children(Target) : vols[d].name \notin outside /\ x \in Subtree(d)
        BY <4>1 DEF Reachable
      <4>3. d \in Ids
        BY <1>0, ChildrenAre
      <4>4. ClosedIn(vols, Subtree(d))
        BY <1>3, <4>3
      <4>5. y \in DOMAIN vols /\ vols[y].parent = x
        BY <3>1 DEF ChildrenOf
      <4>6. y \in Subtree(d)
        BY <4>2, <4>4, <4>5 DEF ClosedIn
      <4> QED BY <4>2, <4>6 DEF Reachable
    <3> QED BY <3>4, <3>5
  <2> HIDE DEF s
  <2>3. ClosedIn(vols, s)
    BY <2>2 DEF ClosedIn, ChildrenOf
  <2>4. Subtree(Target) \subseteq s
    BY <1>0, <2>1, <2>3, SubtreeFacts
  <2> QED BY <2>4, <1>4 DEF Stable, s
<1>5. ASSUME Reachable(c) PROVE Returned(c)
  <2>1. PICK d \in Children(Target) : vols[d].name \notin outside /\ c \in Subtree(d)
    BY <1>5 DEF Reachable
  <2>2. d \in DOMAIN vols /\ vols[d].parent = Target /\ d \in Ids
    BY <1>0, <2>1 DEF Children
  <2>3. Target \notin Subtree(d)
    <3>1. Target \notin Under(Target)
      BY <1>0, <1>1, UnderHome
    <3> QED BY <2>1, <3>1 DEF Under
  <2> DEFINE s == {x \in Subtree(d) : x \in disturbed \/ (x \in Stable /\ Returned(x))}
  <2>4. d \in s
    <3>1. d \notin disturbed => d \in Stable /\ ~ Hidden(d)
      BY <1>1, <2>1, <2>2 DEF Hidden
    <3> QED BY <1>2, <1>3, <2>2, <3>1
  <2>5. ASSUME NEW x \in s, NEW y \in ChildrenOf(vols, x) PROVE y \in s
    <3>1. y \in Subtree(d) /\ y \in DOMAIN vols /\ vols[y].parent = x
      BY <1>3, <2>2, <2>5 DEF ClosedIn, ChildrenOf
    <3>2. SUFFICES ASSUME y \notin disturbed PROVE y \in Stable /\ Returned(y)
      BY <3>1
    <3>5. x # Target
      BY <2>3, <2>5
    <3>3. x \notin disturbed
      BY <1>0, <3>1, <3>2, <3>5 DEF PlacesOK, TreeOK, Moved
    <3>4. x \in Stable /\ Returned(x)
      BY <2>5, <3>3
    <3>6. y \in Stable
      BY <1>1, <3>1, <3>2, <3>4 DEF Home
    <3>7. ~ Hidden(y)
      BY <3>1, <3>5 DEF Hidden
    <3> QED BY <1>2, <3>1, <3>4, <3>6, <3>7
  <2>6. ClosedIn(vols, s)
    <3> HIDE DEF s
    <3> QED BY <2>5 DEF ClosedIn, ChildrenOf
  <2>7. Subtree(d) \subseteq s
    BY <1>0, <2>2, <2>4, <2>6, SubtreeFacts
  <2>8. c \notin disturbed
    BY <1>1
  <2> QED BY <2>1, <2>7, <2>8
<1> QED BY <1>4, <1>5

\* No subvolume that others leave in its place is returned twice, and without
\* an error the walk returns just those below the directory it starts from
\* (next, push_refs; get_rootref), in trees of any size and shape.
THEOREM WalkOnceAndAll == Spec => []OnceAndAll
<1>1. Inv => OnceAndAll
  <2>1. SUFFICES ASSUME Inv, NEW CONSTANT c \in Stable
        PROVE /\ Cardinality(Positions(c)) <= 1
              /\ pc = "none" /\ ~ erred => (Positions(c) # {}) = Reachable(c)
    BY DEF OnceAndAll
  <2>2. Positions(c) # {} <=> Returned(c)
    BY DEF Positions, Returned
  <2>3. \A i, j \in Positions(c) : i = j
    BY <2>1 DEF Inv, WalkInv, YieldedOnce, Positions
  <2>4. Cardinality(Positions(c)) <= 1
    <3>1. CASE Positions(c) = {}
      BY <3>1, FS_EmptySet
    <3>2. CASE Positions(c) # {}
      <4>1. PICK i \in Positions(c) : Positions(c) = {i}
        BY <2>3, <3>2
      <4> QED BY <4>1, FS_Singleton
    <3> QED BY <3>1, <3>2
  <2>5. ASSUME pc = "none", ~ erred PROVE (Positions(c) # {}) = Reachable(c)
    <3>1. Returned(c) <=> Reachable(c)
      BY <2>1, <2>5, ReachedAreReturned
    <3> QED BY <2>2, <3>1 DEF Reachable
  <2> QED BY <2>4, <2>5
<1>2. Lost => OnceAndAll
  BY DEF Lost, OnceAndAll
<1> QED BY <1>1, <1>2, WalkInvariant, PTL

\* A parent comes before its children (pre-order) or after them (post-order),
\* and siblings come in the order of their ids.
THEOREM WalkInOrder == Spec => []InOrder
<1>1. Inv => InOrder
  <2>1. SUFFICES ASSUME Inv, NEW c \in Stable, NEW d \in Stable, NEW i \in Positions(c), NEW j \in Positions(d)
        PROVE  /\ vols[d].parent = c => IF order = "post" THEN j < i ELSE i < j
               /\ vols[c].parent = vols[d].parent /\ c < d => (i < j) = (direction = "ascending")
    BY DEF InOrder
  <2>2. /\ i \in 1 .. Len(yielded) /\ j \in 1 .. Len(yielded)
        /\ yielded[i].id = c /\ yielded[j].id = d
    BY DEF Positions
  <2>3. PlacesType /\ PlacesOK /\ WalkType
    BY <2>1 DEF Inv, TypeInv
  <2>4. c \in Nat /\ d \in Nat
    BY <2>3, HomeFacts
  <2>5. order \in {"pre", "post"} /\ direction \in {"ascending", "descending"}
    BY <2>3, IterAssumption DEF WalkType
  <2>6. vols[d].parent = c => IF order = "post" THEN j < i ELSE i < j
    <3>1. CASE client = "get_rootref"
      BY <2>1, <2>2, <3>1 DEF Inv, WalkInv, RootRefInv, CallsOK, CallsInTurn
    <3>2. CASE client # "get_rootref"
      <4>1. ParentFirst /\ ParentLast
        BY <2>1, <3>2 DEF Inv, WalkInv, IterInv
      <4> QED BY <2>2, <2>5, <4>1 DEF ParentFirst, ParentLast
    <3> QED BY <3>1, <3>2
  <2>7. /\ Siblings(c, d) => i < j
        /\ Siblings(d, c) => j < i
    <3>1. CASE client = "get_rootref"
      BY <2>1, <2>2, <3>1 DEF Inv, WalkInv, RootRefInv, CallsInTurn
    <3>2. CASE client # "get_rootref"
      <4>1. InTurn
        BY <2>1, <3>2 DEF Inv, WalkInv, IterInv
      <4> QED BY <2>2, <4>1 DEF InTurn
    <3> QED BY <3>1, <3>2
  <2>8. ASSUME vols[c].parent = vols[d].parent, c < d PROVE (i < j) = (direction = "ascending")
    <3>1. c # d /\ ~ (d < c)
      BY <2>4, <2>8
    <3>2. CASE direction = "ascending"
      <4>1. Siblings(c, d)
        BY <2>8, <3>1, <3>2 DEF Siblings, First
      <4> QED BY <2>7, <3>2, <4>1
    <3>3. CASE direction # "ascending"
      <4>1. Siblings(d, c)
        BY <2>8, <3>1, <3>3 DEF Siblings, First
      <4>2. ~ (i < j)
        BY <2>2, <2>7, <4>1
      <4> QED BY <3>3, <4>2
    <3> QED BY <3>2, <3>3
  <2> QED BY <2>6, <2>8
<1>2. Lost => InOrder
  BY DEF Lost, InOrder
<1> QED BY <1>1, <1>2, WalkInvariant, PTL

\* The file descriptor, the parent and the path of an item are of the
\* subvolume it names, as long as that stays in its place: its path leads to it
\* and to no other, whatever was renamed around it since.
THEOREM WalkItems == Spec => []ItemIsWhatItSays
<1>1. Inv => ItemIsWhatItSays
  <2>1. SUFFICES ASSUME Inv, NEW CONSTANT c \in Stable, NEW CONSTANT i \in Positions(c)
        PROVE  /\ yielded[i].file = c
               /\ yielded[i].parent = vols[c].parent
               /\ Resolve(Target, yielded[i].path) = {c}
    BY DEF ItemIsWhatItSays
  <2>2. PlacesType /\ PlacesOK /\ WalkType /\ YieldedMatch
    BY <2>1 DEF Inv, TypeInv, WalkInv
  <2>3. i \in 1 .. Len(yielded) /\ yielded[i].id = c
    BY DEF Positions
  <2>4. PICK e \in Entries : e = yielded[i]
    BY <2>2, <2>3 DEF WalkType
  <2>5. Matched(e) /\ e.id = c
    BY <2>2, <2>3, <2>4 DEF YieldedMatch
  <2>6. c \in Home /\ c # Target
    BY <2>2, HomeFacts
  <2>7. e.file = c /\ e.parent = vols[c].parent /\ c \in Resolve(Target, e.path)
    BY <2>5, <2>6 DEF Matched
  <2>8. \A x, y \in Resolve(Target, e.path) : x = y
    <3>1. e.path \in Seq(Names)
      BY EntryType
    <3>2. GoodPlaces(vols, Moved) /\ Target \in Ids
      BY <2>2, PlacesAreGood, VolumesAssumption
    <3>3. \A x, y \in Place(vols, Target, e.path) : x = y
      BY <3>1, <3>2, PlaceIsOne DEF GoodPlaces
    <3> QED BY <3>3, ResolveIsPlace
  <2>9. Resolve(Target, e.path) = {c}
    BY <2>7, <2>8
  <2> QED BY <2>4, <2>7, <2>9
<1>2. Lost => ItemIsWhatItSays
  BY DEF Lost, ItemIsWhatItSays
<1> QED BY <1>1, <1>2, WalkInvariant, PTL

-----------------------------------------------------------------------------
(* What destroy_all destroys.                                              *)

\* A path to one that stays in its place goes through its parent.
LEMMA PathToStable ==
  ASSUME PlacesType, PlacesOK, NEW CONSTANT c \in Stable, NEW CONSTANT q \in Seq(Names), NEW CONSTANT n \in Names,
         c \in Resolve(Target, Append(q, n))
  PROVE  /\ Resolve(Target, Append(q, n)) = {c}
         /\ vols[c].name = n /\ Resolve(Target, q) = {vols[c].parent}
<1>1. GoodPlaces(vols, Moved) /\ Target \in Ids
  BY PlacesAreGood, VolumesAssumption
<1>2. PICK path \in Seq(Names) : path = Append(q, n)
  <2>1. Append(q, n) \in Seq(Names)
    OBVIOUS
  <2> QED BY <2>1
<1>3. Resolve(Target, path) = Place(vols, Target, path) /\ Resolve(Target, q) = Place(vols, Target, q)
  BY ResolveIsPlace
<1>4. \A x, y \in Place(vols, Target, path) : x = y
  BY <1>1, PlaceIsOne DEF GoodPlaces
<1>5. \A x, y \in Place(vols, Target, q) : x = y
  BY <1>1, PlaceIsOne DEF GoodPlaces
<1>6. Place(vols, Target, Append(q, n)) = OneStep(vols, Place(vols, Target, q), n)
  BY PlaceOf
<1>7. c \in DOMAIN vols /\ vols[c].parent \in Place(vols, Target, q) /\ vols[c].name = n
  BY <1>2, <1>3, <1>6 DEF OneStep
<1> QED BY <1>2, <1>3, <1>4, <1>5, <1>7

\* The item destroy_all is about, and the directory it destroys it in.
LEMMA ItemIs ==
  ASSUME TypeInv, TreeOK, YieldedMatch, PathsOK, client # "get_rootref", yielded # <<>>
  PROVE  \E e \in Entries, q \in Seq(Names), n \in Names :
           /\ e = Last(yielded) /\ e = yielded[Len(yielded)] /\ Len(yielded) \in Nat \ {0} /\ Matched(e)
           /\ e.path = Append(q, n) /\ Last(ItemPath) = n
           /\ ItemPath # <<>> /\ Head(ItemPath) = TargetName /\ Tail(ItemPath) = e.path
           /\ Target \in DOMAIN vols \ disturbed => Resolve(Dir, Front(ItemPath)) = Resolve(Target, q)
<1>1. PlacesType /\ WalkType
  BY DEF TypeInv
<1>2. /\ Last(yielded) \in Entries /\ Last(yielded) = yielded[Len(yielded)] /\ Len(yielded) \in Nat \ {0}
      /\ \E q \in Seq(Names), n \in Names :
              /\ Last(yielded).path = Append(q, n)
              /\ Front(ItemPath) = <<TargetName>> \o q
              /\ Last(ItemPath) = n
  BY <1>1, ItemPathIs
<1>3. PICK e \in Entries : e = Last(yielded)
  BY <1>2
<1>4. PICK q \in Seq(Names), n \in Names :
              /\ e.path = Append(q, n)
              /\ Front(ItemPath) = <<TargetName>> \o q
              /\ Last(ItemPath) = n
  BY <1>2, <1>3
<1>5. Matched(e)
  BY <1>2, <1>3 DEF YieldedMatch
<1>6. ItemPath # <<>> /\ Head(ItemPath) = TargetName /\ Tail(ItemPath) = e.path
  <2>1. e.path \in Seq(Names) /\ TargetName \in Names
    BY EntryType, VolumesAssumption
  <2>2. ItemPath = <<TargetName>> \o e.path
    BY <1>3 DEF ItemPath
  <2>3. \A p \in Seq(Names), m \in Names : <<m>> \o p # <<>> /\ Head(<<m>> \o p) = m /\ Tail(<<m>> \o p) = p
    OBVIOUS
  <2> QED BY <2>1, <2>2, <2>3
<1>7. ASSUME Target \in DOMAIN vols \ disturbed PROVE Resolve(Dir, Front(ItemPath)) = Resolve(Target, q)
  <2>1. GoodBase(vols, Moved) /\ vols[Target] = [parent |-> Dir, name |-> TargetName]
    BY <1>1, <1>7, TreeIsGood DEF TreeOK
  <2>2. Place(vols, Dir, <<TargetName>> \o q) = Place(vols, Target, q)
    BY <1>7, <2>1, PlaceFromDir
  <2>3. Resolve(Dir, Front(ItemPath)) = Place(vols, Dir, Front(ItemPath))
    BY DEF Resolve, Place, Steps, Named, Children, ChildrenOf
  <2>4. Resolve(Target, q) = Place(vols, Target, q)
    BY ResolveIsPlace
  <2> QED BY <1>4, <2>2, <2>3, <2>4
<1> QED BY <1>2, <1>3, <1>4, <1>5, <1>6, <1>7

\* What is below the target stays below it when all that moves is U.
LEMMA RestIsBelow ==
  ASSUME PlacesType, PlacesType', NEW U,
         \A d \in DOMAIN vols : d \notin U => d \in DOMAIN vols' /\ vols'[d].parent = vols[d].parent,
         \A d \in DOMAIN vols : vols[d].parent \in U => d \in U
  PROVE  \A x \in Subtree(Target) : x \notin U => x \in Subtree(Target)'
<1>0. Target \in Ids
  BY VolumesAssumption
<1> DEFINE s == {x \in Subtree(Target) : x \in U \/ x \in Subtree(Target)'}
<1>1. Target \in Subtree(Target) /\ ClosedIn(vols, Subtree(Target))
  BY <1>0, SubtreeFacts
<1>2. Target \in Subtree(Target)' /\ ClosedIn(vols', Subtree(Target)')
  BY <1>0, SubtreeFactsAfter
<1>3. Target \in s
  BY <1>1, <1>2
<1>4. ASSUME NEW y \in DOMAIN vols, vols[y].parent \in s PROVE y \in s
  <2>1. y \in Subtree(Target)
    BY <1>1, <1>4 DEF ClosedIn
  <2>2. CASE y \notin U
    <3>1. vols[y].parent \in Subtree(Target)' /\ y \in DOMAIN vols' /\ vols'[y].parent = vols[y].parent
      BY <1>4, <2>2
    <3>2. y \in Subtree(Target)'
      BY <1>2, <3>1 DEF ClosedIn
    <3> QED BY <2>1, <3>2
  <2> QED BY <2>1, <2>2
<1> HIDE DEF s
<1>5. ClosedIn(vols, s)
  BY <1>4 DEF ClosedIn
<1>6. Subtree(Target) \subseteq s
  BY <1>0, <1>3, <1>5, SubtreeFacts
<1> QED BY <1>6 DEF s

\* The steps of others and of the walk, seen from destroy_all.
LEMMA StepsOf ==
  ASSUME Inv, Inv', Next
  PROVE  /\ PlacesType /\ WalkType /\ PlacesOK /\ TreeOK /\ ClientOK /\ WalkInv /\ YieldedMatch /\ YieldedOnce /\ PathsOK
         /\ Shifted /\ client' = client /\ cwd' = cwd
         /\ Begin \/ Walk \/ Take \/ WalkFailed \/ OpenParent => UNCHANGED <<vols, used, disturbed>>
<1>1. TypeInv /\ PlacesOK /\ TreeOK /\ ClientOK /\ WalkInv /\ PathsOK
  BY InvPaths DEF Inv, PlacesOK
<1>2. Shifts /\ (Begin \/ Walk \/ Take \/ WalkFailed \/ OpenParent => UNCHANGED <<vols, used, disturbed>>)
  BY <1>1, NextShifts
<1>3. client' = client /\ cwd' = cwd
  BY DEF Next, Destroyer, Begin, Walk, Take, WalkFailed, OpenParent, DestroyItem, DestroyTarget, Other, destroyVars
<1>4. Shifted
  BY <1>2 DEF Inv, PlacesOK, Shifted
<1> QED BY <1>1, <1>2, <1>3, <1>4 DEF TypeInv, WalkInv

\* When nothing interferes the target is where the caller found it.
LEMMA InItsPlace ==
  ASSUME TreeOK, changes = 0, step # "done"
  PROVE  /\ disturbed = {} /\ Target \in DOMAIN vols
         /\ vols[Target].parent = Dir /\ vols[Target].name = TargetName
<1>1. disturbed = {} /\ Target \in DOMAIN vols
  BY DEF TreeOK
<1>2. vols[Target] = [parent |-> Dir, name |-> TargetName]
  BY <1>1 DEF TreeOK
<1> QED BY <1>1, <1>2

\* While it has something in it, it is there.
LEMMA TargetIsThere ==
  ASSUME PlacesType, TreeOK, NEW c \in Stable
  PROVE  Target \in DOMAIN vols
<1>1. SUFFICES ASSUME Target \notin DOMAIN vols PROVE FALSE
  OBVIOUS
<1>2. ClosedIn(vols, {Target})
  BY <1>1, VolumesAssumption DEF ClosedIn, TreeOK
<1>3. Subtree(Target) \subseteq {Target}
  BY <1>2, VolumesAssumption, SubtreeFacts
<1> QED BY <1>3 DEF Stable

\* The directory destroy_all opens is one the walk may come to, wherever others
\* have brought its path to lead.
LEMMA OpensNear ==
  ASSUME TypeInv, TreeOK, ClientOK, PathsOK, OpenParent, InDir
  PROVE  \A p \in parent' : Near(p)
<1>1. PlacesType /\ WalkType
  BY DEF TypeInv
<1>2. step = "iter" /\ pc = "item" /\ client = "destroy_all" /\ yielded # <<>>
  BY DEF OpenParent, ClientOK
<1>3. cwd = Dir
  BY <1>1, <1>2 DEF WalkType, InDir
<1>4. PICK q \in Seq(Names) : Front(ItemPath) = <<TargetName>> \o q
  BY <1>1, <1>2, ItemPathIs
<1>5. parent' \subseteq Place(vols, Dir, <<TargetName>> \o q)
  <2>1. parent' \subseteq Resolve(Dir, Front(ItemPath))
    BY <1>3 DEF OpenParent
  <2>2. Resolve(Dir, Front(ItemPath)) = Place(vols, Dir, Front(ItemPath))
    BY DEF Resolve, Place, Steps, Named, Children, ChildrenOf
  <2> QED BY <1>4, <2>1, <2>2
<1>6. Place(vols, Dir, <<TargetName>> \o q) \subseteq Below(vols, Target) \cup Moved
  <2>1. GoodBase(vols, Moved)
    BY <1>1, TreeIsGood
  <2>2. \A c \in DOMAIN vols : vols[c] = [parent |-> Dir, name |-> TargetName] => c = Target \/ c \in Moved
    BY DEF TreeOK, Moved
  <2> QED BY <2>1, <2>2, DirPlaces
<1>7. Below(vols, Target) = Subtree(Target)
  BY SubtreeIsBelow
<1>8. Dir \notin Subtree(Target) \cup disturbed
  <2>1. Subtree(Target) \subseteq {Target} \cup DOMAIN vols
    BY <1>1, VolumesAssumption, SubtreeFacts
  <2> QED BY <2>1, VolumesAssumption DEF TreeOK
<1> QED BY <1>5, <1>6, <1>7, <1>8 DEF Near, Moved

\* Unless others have moved the target it is the one its item is in.
LEMMA OpensItsParent ==
  ASSUME Inv, OpenParent, InDir, Target \notin disturbed, NEW CONSTANT c \in Stable, Last(yielded).id = c
  PROVE  parent' \subseteq {vols[c].parent} /\ (changes' = changes => parent' = {vols[c].parent})
<1>1. TypeInv /\ PlacesType /\ WalkType /\ PlacesOK /\ TreeOK /\ ClientOK /\ WalkInv /\ YieldedMatch /\ PathsOK
  BY InvPaths DEF Inv, TypeInv, WalkInv, PlacesOK
<1>2. step = "iter" /\ pc = "item" /\ client = "destroy_all" /\ yielded # <<>> /\ Target \in DOMAIN vols
  BY <1>1, TargetIsThere DEF OpenParent, ClientOK
<1>3. PICK e \in Entries, q \in Seq(Names), n \in Names :
           /\ e = Last(yielded) /\ Matched(e) /\ e.path = Append(q, n)
           /\ Resolve(Dir, Front(ItemPath)) = Resolve(Target, q)
  BY <1>1, <1>2, ItemIs
<1>4. cwd = Dir
  BY <1>1, <1>2 DEF WalkType, InDir
<1>5. parent' \subseteq Resolve(Target, q) /\ (changes' = changes => parent' = Resolve(Target, q))
  BY <1>3, <1>4 DEF OpenParent
<1>6. e.id = c /\ c \in Home
  BY <1>1, <1>3, HomeFacts
<1>7. c \in Resolve(Target, Append(q, n))
  BY <1>3, <1>6 DEF Matched
<1>8. Resolve(Target, q) = {vols[c].parent}
  BY <1>1, <1>7, PathToStable
<1> QED BY <1>5, <1>8

\* What destroy destroys.
LEMMA Destroyed ==
  ASSUME PlacesType, TreeOK, NEW dir, dir # Dir => Near(dir), NEW n, dir = Dir => n = TargetName, SnapDestroy(dir, n)
  PROVE  \A c \in DOMAIN vols \ DOMAIN vols' : c \in Subtree(Target) \cup disturbed
<1>1. PICK v \in Named(dir, n) : vols' = Without(v)
  BY DEF SnapDestroy
<1>2. v \in DOMAIN vols /\ vols[v].parent = dir /\ vols[v].name = n
  BY <1>1 DEF Named, Children
<1>3. DOMAIN vols' = DOMAIN vols \ {v}
  BY <1>1 DEF Without
<1>4. Target \in Subtree(Target) /\ ClosedIn(vols, Subtree(Target))
  BY VolumesAssumption, SubtreeFacts
<1>5. CASE dir = Dir
  <2>1. vols[v] \in [parent : Ids, name : Names]
    BY <1>2 DEF PlacesType
  <2>2. vols[v] = [parent |-> Dir, name |-> TargetName]
    BY <1>2, <1>5, <2>1
  <2>3. v = Target \/ v \in disturbed
    BY <1>2, <2>2 DEF TreeOK
  <2> QED BY <1>3, <1>4, <2>3
<1>6. CASE dir # Dir
  <2>1. dir \in DOMAIN vols
    BY <1>2, <1>6 DEF TreeOK
  <2>2. dir \in Subtree(Target) \cup Moved
    BY <1>4, <1>6, <2>1 DEF Near, Moved
  <2>3. v \in Subtree(Target) \cup disturbed
    BY <1>2, <1>4, <2>2 DEF ClosedIn, TreeOK
  <2> QED BY <1>3, <2>3
<1> QED BY <1>5, <1>6

\* destroy_all destroys what is below the target, or disturbed, whatever others
\* do between its opening the directory of an item and the ioctl.
LEMMA BelowStep ==
  ASSUME TypeInv, TreeOK, ClientOK, PathsOK, Next, InDir, ParentBelow
  PROVE  /\ ParentBelow'
         /\ Destroyer => \A c \in DOMAIN vols \ DOMAIN vols' : c \in Subtree(Target) \cup disturbed
<1>1. PlacesType /\ WalkType /\ Shifts
  BY NextShifts DEF TypeInv
<1>2. \A v : Near(v) => Near(v)'
  BY <1>1, NearKept
<1>3. \A p \in parent : Near(p)'
  BY <1>2 DEF ParentBelow
<1>4. CASE Begin \/ Walk \/ Take \/ WalkFailed \/ OpenParent
  <2>1. vols' = vols
    BY <1>4, NextShifts
  <2>2. parent' = parent \/ \A p \in parent' : Near(p)
    BY <1>4, OpensNear DEF Begin, Walk, Take, WalkFailed, destroyVars
  <2>3. \A p \in parent' : Near(p)'
    BY <1>2, <1>3, <2>2
  <2> QED BY <2>1, <2>3 DEF ParentBelow
<1>5. CASE DestroyItem
  <2>1. parent' = {} /\ step = "destroy"
    BY <1>5 DEF DestroyItem
  <2>2. (\E dir \in parent : SnapDestroy(dir, Last(ItemPath))) \/ vols' = vols
    BY <1>5 DEF DestroyItem, SnapDestroyFails, Works, Fails, volumeVars
  <2>3. ASSUME NEW dir \in parent, SnapDestroy(dir, Last(ItemPath))
        PROVE  \A c \in DOMAIN vols \ DOMAIN vols' : c \in Subtree(Target) \cup disturbed
    <3>1. Near(dir) /\ dir # Dir
      BY <2>3 DEF ParentBelow, Near
    <3> QED BY <1>1, <2>3, <3>1, Destroyed
  <2> QED BY <2>1, <2>2, <2>3 DEF ParentBelow
<1>6. CASE DestroyTarget
  <2>1. parent' = {}
    BY <1>6 DEF DestroyTarget, ClientOK
  <2>2. SnapDestroy(Dir, TargetName) \/ vols' = vols
    BY <1>6 DEF DestroyTarget, SnapDestroyFails, Works, Fails, volumeVars
  <2>3. ASSUME SnapDestroy(Dir, TargetName)
        PROVE  \A c \in DOMAIN vols \ DOMAIN vols' : c \in Subtree(Target) \cup disturbed
    BY <1>1, <2>3, Destroyed
  <2> QED BY <2>1, <2>2, <2>3 DEF ParentBelow
<1>7. CASE Other
  <2>1. parent' = parent
    BY <1>7 DEF Other, destroyVars
  <2>2. ~ Destroyer
    BY <1>7 DEF Other, walkVars, iterVars, destroyVars, next,
       Destroyer, WalkFailed, OpenParent, DestroyItem, DestroyTarget
  <2>3. ParentBelow'
    BY <1>3, <2>1 DEF ParentBelow
  <2> QED BY <2>2, <2>3
<1> QED BY <1>4, <1>5, <1>6, <1>7 DEF Next, Destroyer

\* What stays in its place stays in the directory opened for it.
LEMMA ParentRightStep ==
  ASSUME Inv, Inv', Next, InDir, ParentRight
  PROVE  ParentRight'
<1>1. PlacesType /\ PlacesOK /\ Shifted
  BY StepsOf
<1>2. /\ Stable' \subseteq Stable /\ \A c \in Stable' : vols'[c] = vols[c]
      /\ Target \notin disturbed' => Target \notin disturbed
  BY <1>1, ShiftKeeps
<1>3. CASE OpenParent
  <2>1. yielded' = yielded
    BY <1>3 DEF OpenParent, walkVars, iterVars
  <2>2. \A c \in Stable : Target \notin disturbed /\ Last(yielded).id = c => parent' \subseteq {vols[c].parent}
    BY <1>3, OpensItsParent
  <2> QED BY <1>2, <2>1, <2>2 DEF ParentRight
<1>4. CASE Begin \/ Walk \/ Take \/ WalkFailed \/ DestroyItem \/ DestroyTarget
  <2>1. step' # "destroy"
    BY <1>4 DEF Begin, Walk, Take, WalkFailed, DestroyItem, DestroyTarget, destroyVars
  <2> QED BY <2>1 DEF ParentRight
<1>5. CASE Other
  <2>1. UNCHANGED <<yielded, step, parent>>
    BY <1>5 DEF Other, walkVars, iterVars, destroyVars
  <2> QED BY <1>2, <2>1 DEF ParentRight
<1> QED BY <1>3, <1>4, <1>5 DEF Next, Destroyer

\* What was returned has been reported when it is still there.
LEMMA ReportedStep ==
  ASSUME Inv, Inv', Next, ParentRight, Reported
  PROVE  Reported'
<1>1. /\ PlacesType /\ WalkType /\ PlacesOK /\ ClientOK /\ WalkInv /\ YieldedMatch
      /\ TreeOK /\ PathsOK /\ Shifted /\ client' = client
  BY StepsOf
<1>2. PlacesType' /\ PlacesOK' /\ yielded \in Seq(Entries) /\ Len(yielded) \in Nat
  BY <1>1 DEF Shifted, Shifts, PlacesOK, WalkType
<1>3. /\ Stable' \subseteq Stable /\ Home' \subseteq Home /\ Stable' \subseteq Home'
      /\ Target \notin disturbed' => Target \notin disturbed
  BY <1>1, ShiftKeeps DEF Home
<1>4. \A g \in Home', path \in Seq(Names) : g \in Resolve(Target, path)' <=> g \in Resolve(Target, path)
  BY <1>1, ShiftKeeps
<1>5. SUFFICES ASSUME client = "destroy_all", Target \notin disturbed, NEW CONSTANT c \in Stable',
                      NEW CONSTANT i \in 1 .. Len(yielded'), yielded'[i].id = c
               PROVE  \/ pc' = "item" /\ i = Len(yielded')
                      \/ \E path \in reported' :
                          path # <<>> /\ Head(path) = TargetName /\ c \in Resolve(Target, Tail(path))'
  BY <1>1, <1>3 DEF Reported
<1>6. ASSUME NEW path \in reported, path # <<>>, c \in Resolve(Target, Tail(path))
      PROVE  c \in Resolve(Target, Tail(path))'
  <2>1. PICK p \in Seq(Names) : p = Tail(path)
    <3>1. path \in Seq(Names)
      BY <1>1 DEF WalkType
    <3>2. Tail(path) \in Seq(Names)
      BY <1>6, <3>1
    <3> QED BY <3>2
  <2>2. PICK r : r = path
    OBVIOUS
  <2>3. c \in Resolve(Target, p)'
    BY <1>3, <1>4, <1>6, <2>1
  <2>4. Resolve(Target, Tail(r))' = Resolve(Target, p)'
    BY <2>1, <2>2
  <2> QED BY <2>2, <2>3, <2>4
<1>7. ASSUME i \in 1 .. Len(yielded), yielded[i].id = c, ~ (pc = "item" /\ i = Len(yielded)), reported \subseteq reported'
      PROVE  \E path \in reported' :
                path # <<>> /\ Head(path) = TargetName /\ c \in Resolve(Target, Tail(path))'
  <2>1. PICK path \in reported : path # <<>> /\ Head(path) = TargetName /\ c \in Resolve(Target, Tail(path))
    BY <1>3, <1>5, <1>7 DEF Reported
  <2>2. c \in Resolve(Target, Tail(path))'
    BY <1>6, <2>1
  <2> QED BY <1>7, <2>1, <2>2
<1>8. CASE Begin \/ WalkFailed \/ OpenParent \/ DestroyTarget \/ Other
  <2>1. yielded' = yielded /\ reported' = reported /\ (pc = "item" => pc' = "item")
    BY <1>8 DEF Begin, WalkFailed, OpenParent, DestroyTarget, Other, next, walkVars, iterVars, destroyVars
  <2>2. CASE pc = "item" /\ i = Len(yielded)
    BY <2>1, <2>2
  <2>3. CASE ~ (pc = "item" /\ i = Len(yielded))
    BY <1>5, <1>7, <2>1, <2>3
  <2> QED BY <2>2, <2>3
<1>9. CASE Walk
  <2>1. IterStep /\ reported' = reported
    BY <1>5, <1>9 DEF Walk, destroyVars
  <2>2. pc # "item" /\ (yielded' = yielded \/ \E e \in Entries : yielded' = Append(yielded, e) /\ pc' = "item")
    <3>1. stack # <<>> => Last(stack) \in Entries
      BY <1>1, FrontIs DEF WalkType
    <3>2. ent \in Entries
      BY <1>1 DEF WalkType
    <3> QED BY <2>1, <3>1, <3>2 DEF IterStep, Pop, Exhausted, Expanded, List, Lookup, Open, Yield
  <2>3. CASE i \in 1 .. Len(yielded)
    <3>1. yielded[i].id = c
      BY <1>2, <1>5, <2>2, <2>3
    <3> QED BY <1>7, <2>1, <2>2, <2>3, <3>1
  <2>4. CASE i \notin 1 .. Len(yielded)
    <3>1. PICK e \in Entries : yielded' = Append(yielded, e) /\ pc' = "item"
      BY <2>2, <2>4
    <3>2. Len(yielded') = Len(yielded) + 1
      BY <1>2, <3>1
    <3> QED BY <1>2, <2>4, <3>1, <3>2
  <2> QED BY <2>3, <2>4
<1>10. CASE Take
  BY <1>5, <1>10 DEF Take
<1>11. CASE DestroyItem
  <2>1. step = "destroy" /\ yielded' = yielded /\ reported \subseteq reported'
    BY <1>1, <1>11 DEF DestroyItem, next
  <2>2. CASE i # Len(yielded)
    BY <1>5, <1>7, <2>1, <2>2
  <2>3. CASE i = Len(yielded)
    <3>1. yielded # <<>>
      BY <1>1, <2>1 DEF ClientOK
    <3>2. PICK e \in Entries, q \in Seq(Names), n \in Names :
             /\ e = Last(yielded) /\ e = yielded[Len(yielded)] /\ Matched(e)
             /\ e.path = Append(q, n) /\ Last(ItemPath) = n
             /\ ItemPath # <<>> /\ Head(ItemPath) = TargetName /\ Tail(ItemPath) = e.path
      BY <1>1, <1>5, <3>1, ItemIs DEF TypeInv
    <3>3. e.id = c /\ c \in Stable /\ c \in Home
      BY <1>3, <1>5, <2>1, <2>3, <3>2
    <3>4. c \in Resolve(Target, e.path)
      BY <3>2, <3>3 DEF Matched
    <3>5. vols[c].name = n
      BY <1>1, <3>2, <3>3, <3>4, PathToStable
    <3>6. parent \subseteq {vols[c].parent}
      BY <1>5, <2>1, <3>2, <3>3 DEF ParentRight
    <3>7. ASSUME NEW dir \in parent, SnapDestroy(dir, Last(ItemPath)) PROVE FALSE
      <4>1. PICK v \in Named(dir, n) : vols' = Without(v)
        BY <3>2, <3>7 DEF SnapDestroy
      <4>2. v \in DOMAIN vols /\ c \in DOMAIN vols /\ vols[v].parent = vols[c].parent /\ vols[v].name = vols[c].name
        BY <1>1, <3>3, <3>5, <3>6, <3>7, <4>1, HomeFacts DEF Named, Children
      <4>3. v = c
        BY <1>1, <4>2, NamesApart, TreeIsGood
      <4>4. c \notin DOMAIN vols'
        BY <4>1, <4>3 DEF Without
      <4>5. c \in DOMAIN vols'
        <5>1. GoodPlaces(vols', Moved') /\ Stable' = StableIn(vols', Moved')
          BY <1>2, PlacesAreGood, HomeIs
        <5> QED BY <1>5, <5>1, HomePlaces
      <4> QED BY <4>4, <4>5
    <3>8. ItemPath \in reported'
      BY <1>11, <3>7 DEF DestroyItem
    <3>9. PICK r : r = ItemPath
      OBVIOUS
    <3>10. c \in Resolve(Target, Tail(r))'
      <4>1. PICK p \in Seq(Names) : p = e.path
        BY EntryType
      <4>2. c \in Resolve(Target, p)'
        BY <1>3, <1>4, <1>5, <3>4, <4>1
      <4>3. Tail(r) = p
        BY <3>2, <3>9, <4>1
      <4> QED BY <4>2, <4>3
    <3>11. r \in reported' /\ r # <<>> /\ Head(r) = TargetName
      BY <3>2, <3>8, <3>9
    <3> QED BY <3>10, <3>11
  <2> QED BY <2>2, <2>3
<1> QED BY <1>8, <1>9, <1>10, <1>11 DEF Next, Destroyer

\* A step of a post-order walk sees nothing new but the children it lists.
LEMMA WalkSees ==
  ASSUME PlacesType, WalkType, IterInv, IterStep, order = "post"
  PROVE  /\ \A x : Waiting(x)' => Waiting(x) \/ (pc = "list" /\ Listed(x)')
         /\ \A x : Seen(x)' => Seen(x) \/ (pc = "list" /\ Listed(x)')
         /\ \A x : OnStack(x) \/ Returned(x) => OnStack(x)' \/ Returned(x)' \/ Waiting(x)
<1>1. /\ stack \in Seq(Entries) /\ Len(stack) \in Nat /\ yielded \in Seq(Entries) /\ Len(yielded) \in Nat
      /\ refs \in Seq(Ids) /\ Len(refs) \in Nat /\ ent \in Entries
      /\ (pc \notin {"lookup", "open"} => refs = <<>>)
  BY OrderIs
<1>2. /\ \A k \in 1 .. Len(stack) : stack[k].color \in {"root", "grey", "black"}
      /\ ent.color \in {"root", "grey"}
  BY DEF IterInv, Colors
<1>3. CASE Pop
  <2>0. /\ Len(stack) \in Nat \ {0} /\ Last(stack) = stack[Len(stack)] /\ Last(stack) \in Entries
        /\ Front(stack) \in Seq(Entries) /\ Len(Front(stack)) = Len(stack) - 1
        /\ \A i \in 1 .. (Len(stack) - 1) : Front(stack)[i] = stack[i]
    BY <1>1, <1>3, FrontIs DEF Pop
  <2>1. PICK m \in Nat \ {0} : m = Len(stack)
    BY <2>0
  <2>2. PICK e \in Entries : e = Last(stack) /\ e = stack[m]
    BY <2>0, <2>1
  <2>3. PICK f \in Seq(Entries) : f = Front(stack) /\ Len(f) = m - 1 /\ \A k \in 1 .. (m - 1) : f[k] = stack[k]
    BY <2>0, <2>1
  <2>4. pc = "pop" /\ refs' = refs /\ refs = <<>>
    BY <1>1, <1>3 DEF Pop
  <2>5. CASE e.color = "black"
    <3>1. stack' = f /\ yielded' = Append(yielded, e) /\ pc' = "item" /\ ent' = ent
      BY <1>3, <2>2, <2>3, <2>5 DEF Pop, Yield
    <3>2. \A x : OnStack(x)' <=> \E k \in 1 .. (m - 1) : stack[k].id = x
      BY <2>3, <3>1 DEF OnStack
    <3>3. \A x : Waiting(x)' => Waiting(x)
      BY <2>1, <2>3, <2>4, <3>1 DEF Waiting, Listed
    <3>4. \A x : Returned(x)' <=> Returned(x) \/ x = e.id
      <4>0. PICK n \in Nat : n = Len(yielded)
        BY <1>1
      <4>1. Len(yielded') = n + 1 /\ yielded'[n + 1] = e /\ \A k \in 1 .. n : yielded'[k] = yielded[k]
        BY <1>1, <3>1, <4>0
      <4>2. \A k \in 1 .. (n + 1) : k = n + 1 \/ k \in 1 .. n
        BY <4>0
      <4>3. n + 1 \in 1 .. (n + 1) /\ \A k \in 1 .. n : k \in 1 .. (n + 1)
        BY <4>0
      <4> QED BY <4>0, <4>1, <4>2, <4>3 DEF Returned
    <3>5. \A x : OnStack(x) <=> x = e.id \/ \E k \in 1 .. (m - 1) : stack[k].id = x
      <4>1. m \in 1 .. m /\ \A k \in 1 .. m : k = m \/ k \in 1 .. (m - 1)
        BY <2>1
      <4>2. \A k \in 1 .. (m - 1) : k \in 1 .. m
        BY <2>1
      <4> QED BY <2>1, <2>2, <4>1, <4>2 DEF OnStack
    <3>6. \A x : ~ InHand(x)' /\ (Listed(x)' <=> Listed(x))
      BY <2>4, <3>1 DEF InHand, Expanding, Listed
    <3> QED BY <3>2, <3>3, <3>4, <3>5, <3>6 DEF Seen
  <2>6. CASE e.color # "black"
    <3>1. /\ stack' = (IF e.color = "grey" THEN Append(f, [e EXCEPT !.color = "black"]) ELSE f)
          /\ yielded' = yielded /\ pc' = "list" /\ ent' = e
      BY <1>3, <2>2, <2>3, <2>6 DEF Pop, Repushed
    <3>2. m \in 1 .. m /\ stack[m].id = e.id /\ stack[m].color # "black" /\ e.color \in {"root", "grey"}
      BY <1>2, <2>1, <2>2, <2>6
    <3>3. Waiting(e.id) /\ OnStack(e.id)
      BY <2>1, <3>2 DEF Waiting, OnStack
    <3>4. /\ Len(stack') \in {m - 1, m}
          /\ \A k \in 1 .. (m - 1) : k \in 1 .. Len(stack') /\ stack'[k] = stack[k]
          /\ \A k \in 1 .. Len(stack') : k \in 1 .. (m - 1) \/ (stack'[k].id = e.id /\ stack'[k].color = "black")
      <4>1. CASE e.color = "grey"
        <5>1. PICK b \in Entries : b = [e EXCEPT !.color = "black"] /\ b.id = e.id /\ b.color = "black"
          <6>1. [e EXCEPT !.color = "black"] \in Entries
            BY EntryType
          <6>2. [e EXCEPT !.color = "black"].id = e.id /\ [e EXCEPT !.color = "black"].color = "black"
            BY DEF Entries
          <6> QED BY <6>1, <6>2
        <5>2. stack' = Append(f, b)
          BY <3>1, <4>1, <5>1
        <5>3. Len(stack') = m /\ stack'[m] = b /\ \A k \in 1 .. (m - 1) : stack'[k] = stack[k]
          BY <2>1, <2>3, <5>2
        <5>4. \A k \in 1 .. m : k = m \/ k \in 1 .. (m - 1)
          BY <2>1
        <5>5. \A k \in 1 .. (m - 1) : k \in 1 .. m
          BY <2>1
        <5> QED BY <5>1, <5>3, <5>4, <5>5
      <4>2. CASE e.color # "grey"
        BY <2>1, <2>3, <3>1, <4>2
      <4> QED BY <4>1, <4>2
    <3>5. \A k \in 1 .. (m - 1) : k \in 1 .. Len(stack)
      BY <2>1
    <3>6. \A x : OnStack(x)' => OnStack(x)
      BY <3>3, <3>4, <3>5 DEF OnStack
    <3>7. \A x : Waiting(x)' => Waiting(x)
      <4>1. ASSUME NEW x, Waiting(x)' PROVE Waiting(x)
        <5>1. CASE \E k \in 1 .. Len(stack') : stack'[k].id = x /\ stack'[k].color # "black"
          BY <3>4, <3>5, <5>1 DEF Waiting
        <5>2. CASE ent'.id = x
          BY <3>1, <3>3, <5>2
        <5>3. ~ Listed(x)'
          BY <2>4 DEF Listed
        <5> QED BY <4>1, <5>1, <5>2, <5>3 DEF Waiting
      <4> QED BY <4>1
    <3>8. \A x : OnStack(x) => OnStack(x)' \/ Waiting(x)
      <4>1. \A k \in 1 .. Len(stack) : k = m \/ k \in 1 .. (m - 1)
        BY <2>1
      <4> QED BY <3>2, <3>3, <3>4, <4>1 DEF OnStack
    <3>9. \A x : ~ InHand(x)' /\ (Listed(x)' <=> Listed(x)) /\ (Returned(x)' <=> Returned(x))
      BY <2>4, <3>1, <3>2 DEF InHand, Listed, Returned
    <3> QED BY <3>6, <3>7, <3>8, <3>9 DEF Seen
  <2> QED BY <2>5, <2>6
<1>4. CASE Exhausted \/ Expanded
  <2>1. UNCHANGED <<stack, refs, yielded, ent>> /\ pc' \in {"pop", "none"}
    BY <1>2, <1>4 DEF Exhausted, Expanded
  <2> QED BY <2>1 DEF Waiting, Seen, OnStack, Returned, Listed, InHand, Expanding
<1>5. CASE List
  <2>1. UNCHANGED <<stack, yielded, ent>> /\ pc = "list" /\ pc' \in {"lookup", "error"}
    BY <1>5 DEF List, Err
  <2>2. \A x : ~ InHand(x)'
    BY <1>2, <2>1 DEF InHand
  <2> QED BY <2>1, <2>2 DEF Waiting, Seen, OnStack, Returned, Listed
<1>6. CASE Lookup
  <2>1. UNCHANGED <<stack, yielded, ent>> /\ pc' # "list" /\ refs # <<>>
    BY <1>6 DEF Lookup, Err
  <2>2. \A x : Listed(x)' => Listed(x)
    <3>1. refs' = refs \/ refs' = Tail(refs) \/ refs' = <<>>
      BY <1>6 DEF Lookup, Err
    <3>2. PICK t \in Seq(Ids), n \in Nat : t = Tail(refs) /\ n = Len(refs) /\ Len(t) = n - 1 /\ \A k \in 1 .. (n - 1) : t[k] = refs[k + 1]
      BY <1>1, <2>1, TailIs
    <3>3. \A k \in 1 .. (n - 1) : k + 1 \in 1 .. n
      BY <3>2
    <3>4. ASSUME refs' = t, NEW x, Listed(x)' PROVE Listed(x)
      BY <3>2, <3>3, <3>4 DEF Listed
    <3>5. ASSUME refs' = <<>>, NEW x, Listed(x)' PROVE Listed(x)
      BY <3>5 DEF Listed
    <3>6. ASSUME refs' = refs, NEW x, Listed(x)' PROVE Listed(x)
      BY <3>6 DEF Listed
    <3> QED BY <3>1, <3>2, <3>4, <3>5, <3>6
  <2>3. \A x : ~ InHand(x)'
    BY <1>2, <2>1 DEF InHand
  <2> QED BY <2>1, <2>2, <2>3 DEF Waiting, Seen, OnStack, Returned
<1>7. CASE Open
  <2>1. UNCHANGED <<yielded, ent>> /\ pc' # "list" /\ pc = "open" /\ refs # <<>> /\ name \in Names
    BY <1>7 DEF Open, Err, IterInv, RefsOK
  <2>2. PICK h \in Ids : h = Head(refs) /\ h = refs[1] /\ 1 \in 1 .. Len(refs)
    BY <1>1, <2>1, TailIs
  <2>3. Listed(h)
    BY <2>2 DEF Listed
  <2>4. \A x : Listed(x)' => Listed(x)
    <3>1. refs' = Tail(refs) \/ refs' = <<>>
      BY <1>7 DEF Open, Err
    <3>2. PICK t \in Seq(Ids), n \in Nat : t = Tail(refs) /\ n = Len(refs) /\ Len(t) = n - 1 /\ \A k \in 1 .. (n - 1) : t[k] = refs[k + 1]
      BY <1>1, <2>1, TailIs
    <3>3. \A k \in 1 .. (n - 1) : k + 1 \in 1 .. n
      BY <3>2
    <3>4. ASSUME refs' = t, NEW x, Listed(x)' PROVE Listed(x)
      BY <3>2, <3>3, <3>4 DEF Listed
    <3>5. ASSUME refs' = <<>>, NEW x, Listed(x)' PROVE Listed(x)
      BY <3>5 DEF Listed
    <3>6. ASSUME refs' = refs, NEW x, Listed(x)' PROVE Listed(x)
      BY <3>6 DEF Listed
    <3> QED BY <3>1, <3>2, <3>4, <3>5, <3>6
  <2>5. stack' = stack \/ \E e \in Entries : stack' = Append(stack, e) /\ e.id = h
    <3>1. \A file \in Ids : Child(h, file) \in Entries /\ Child(h, file).id = h
      BY <2>1, ChildIs
    <3>2. \A file \in Named(ent.file, name) : file \in Ids
      BY ChildrenAre
    <3> QED BY <1>7, <2>2, <3>1, <3>2 DEF Open
  <2>6. /\ Len(stack') \in {Len(stack), Len(stack) + 1}
        /\ \A k \in 1 .. Len(stack) : k \in 1 .. Len(stack') /\ stack'[k] = stack[k]
        /\ \A k \in 1 .. Len(stack') : k \in 1 .. Len(stack) \/ stack'[k].id = h
    <3>1. CASE stack' = stack
      BY <1>1, <3>1
    <3>2. CASE \E e \in Entries : stack' = Append(stack, e) /\ e.id = h
      <4>1. PICK e \in Entries : stack' = Append(stack, e) /\ e.id = h
        BY <3>2
      <4>2. PICK m \in Nat : m = Len(stack)
        BY <1>1
      <4>3. Len(stack') = m + 1 /\ stack'[m + 1] = e /\ \A k \in 1 .. m : stack'[k] = stack[k]
        BY <1>1, <4>1, <4>2
      <4>4. \A k \in 1 .. (m + 1) : k = m + 1 \/ k \in 1 .. m
        BY <4>2
      <4>5. \A k \in 1 .. m : k \in 1 .. (m + 1)
        BY <4>2
      <4> QED BY <4>1, <4>2, <4>3, <4>4, <4>5
    <3> QED BY <2>5, <3>1, <3>2
  <2>7. \A x : Waiting(x)' => Waiting(x)
    BY <2>1, <2>3, <2>4, <2>6 DEF Waiting
  <2>8. \A x : /\ OnStack(x)' => OnStack(x) \/ x = h
               /\ OnStack(x) => OnStack(x)'
               /\ ~ InHand(x)' /\ (Returned(x)' <=> Returned(x))
    BY <1>2, <2>1, <2>6 DEF OnStack, InHand, Returned
  <2> QED BY <2>3, <2>4, <2>7, <2>8 DEF Seen
<1> QED BY <1>3, <1>4, <1>5, <1>6, <1>7 DEF IterStep

\* Where the iterator has its subvolumes from.
LEMMA WalkIds ==
  ASSUME PlacesType, WalkType, IterInv, IterStep
  PROVE  /\ \A x : OnStack(x)' => OnStack(x) \/ Listed(x)
         /\ (ent' = ent /\ (Expanding' => Expanding)) \/ OnStack(ent'.id)
         /\ \A x : Listed(x)' => Listed(x) \/ (pc = "list" /\ x \in Children(ent.file))
<1>1. /\ stack \in Seq(Entries) /\ Len(stack) \in Nat /\ yielded \in Seq(Entries) /\ Len(yielded) \in Nat
      /\ refs \in Seq(Ids) /\ Len(refs) \in Nat /\ ent \in Entries /\ direction \in Directions
      /\ (pc \notin {"lookup", "open"} => refs = <<>>)
  BY OrderIs DEF WalkType
<1>2. CASE Pop
  <2>0. /\ Len(stack) \in Nat \ {0} /\ Last(stack) = stack[Len(stack)] /\ Last(stack) \in Entries
        /\ Front(stack) \in Seq(Entries) /\ Len(Front(stack)) = Len(stack) - 1
        /\ \A i \in 1 .. (Len(stack) - 1) : Front(stack)[i] = stack[i]
    BY <1>1, <1>2, FrontIs DEF Pop
  <2>1. PICK m \in Nat \ {0} : m = Len(stack)
    BY <2>0
  <2>2. PICK e \in Entries : e = Last(stack) /\ e = stack[m]
    BY <2>0, <2>1
  <2>3. PICK f \in Seq(Entries) : f = Front(stack) /\ Len(f) = m - 1 /\ \A k \in 1 .. (m - 1) : f[k] = stack[k]
    BY <2>0, <2>1
  <2>4. PICK b \in Entries : b = [e EXCEPT !.color = "black"] /\ b.id = e.id
    <3>1. [e EXCEPT !.color = "black"] \in Entries
      BY EntryType
    <3>2. [e EXCEPT !.color = "black"].id = e.id
      BY DEF Entries
    <3> QED BY <3>1, <3>2
  <2>5. refs' = refs /\ (stack' = f \/ stack' = Append(f, b)) /\ ((ent' = ent /\ pc' = "item") \/ ent' = e)
    BY <1>2, <2>2, <2>3, <2>4 DEF Pop, Repushed, Yield
  <2>6. m \in 1 .. m /\ \A k \in 1 .. (m - 1) : k \in 1 .. m
    BY <2>1
  <2>7. OnStack(e.id) /\ \A k \in 1 .. (m - 1) : OnStack(stack[k].id)
    BY <2>1, <2>2, <2>6 DEF OnStack
  <2>8. ASSUME NEW x, OnStack(x)' PROVE OnStack(x)
    <3>1. CASE stack' = f
      BY <2>3, <2>7, <2>8, <3>1 DEF OnStack
    <3>2. CASE stack' = Append(f, b)
      <4>1. Len(stack') = m /\ stack'[m] = b /\ \A k \in 1 .. (m - 1) : stack'[k] = stack[k]
        BY <2>1, <2>3, <3>2
      <4>2. \A k \in 1 .. m : k = m \/ k \in 1 .. (m - 1)
        BY <2>1
      <4>3. PICK k \in 1 .. m : stack'[k].id = x
        BY <2>8, <4>1 DEF OnStack
      <4>4. CASE k = m
        BY <2>4, <2>7, <4>1, <4>3, <4>4
      <4>5. CASE k \in 1 .. (m - 1)
        BY <2>7, <4>1, <4>3, <4>5
      <4> QED BY <4>2, <4>4, <4>5
    <3> QED BY <2>5, <3>1, <3>2
  <2>9. \A x : Listed(x)' => Listed(x)
    BY <2>5 DEF Listed
  <2> QED BY <2>5, <2>7, <2>8, <2>9 DEF Expanding
<1>3. CASE Exhausted \/ Expanded
  <2>1. UNCHANGED <<stack, refs, ent>> /\ (Expanding' => Expanding)
    BY <1>3 DEF Exhausted, Expanded, Expanding, Yield
  <2> QED BY <2>1 DEF OnStack, Listed
<1>4. CASE List
  <2>1. UNCHANGED <<stack, ent>> /\ Expanding /\ pc = "list"
    BY <1>4 DEF List, Expanding
  <2>2. PICK s : s = Children(ent.file) /\ s \subseteq Ids
    BY ChildrenAre
  <2>3. refs' = PushOrder(Ascending(s)) \/ refs' = <<>>
    BY <1>4, <2>2 DEF List, Err
  <2>4. \A i \in 1 .. Len(PushOrder(Ascending(s))) : PushOrder(Ascending(s))[i] \in s
    BY <1>1, <2>2, PushOrderIs
  <2>5. ASSUME NEW x, Listed(x)' PROVE x \in s
    <3>1. CASE refs' = PushOrder(Ascending(s))
      BY <2>4, <2>5, <3>1 DEF Listed
    <3>2. CASE refs' = <<>>
      BY <2>5, <3>2 DEF Listed
    <3> QED BY <2>3, <3>1, <3>2
  <2> QED BY <2>1, <2>2, <2>5 DEF OnStack
<1>5. CASE Lookup \/ Open
  <2>1. refs # <<>> /\ ent' = ent /\ Expanding
    BY <1>5 DEF Lookup, Open, Expanding, IterInv, RefsOK
  <2>2. PICK t \in Seq(Ids), n \in Nat : t = Tail(refs) /\ n = Len(refs) /\ Len(t) = n - 1 /\ \A k \in 1 .. (n - 1) : t[k] = refs[k + 1]
    BY <1>1, <2>1, TailIs
  <2>3. PICK h \in Ids : h = Head(refs) /\ Listed(h)
    <3>1. Head(refs) \in Ids /\ Head(refs) = refs[1] /\ 1 \in 1 .. Len(refs)
      BY <1>1, <2>1
    <3> QED BY <3>1 DEF Listed
  <2>4. ASSUME NEW x, Listed(x)' PROVE Listed(x)
    <3>1. refs' = t \/ refs' = <<>> \/ refs' = refs
      BY <1>5, <2>2 DEF Lookup, Open, Err
    <3>2. CASE refs' = t
      <4>1. \A k \in 1 .. (n - 1) : k + 1 \in 1 .. n
        BY <2>2
      <4> QED BY <2>2, <2>4, <3>2, <4>1 DEF Listed
    <3>3. CASE refs' = <<>> \/ refs' = refs
      BY <2>4, <3>3 DEF Listed
    <3> QED BY <3>1, <3>2, <3>3
  <2>5. ASSUME NEW x, OnStack(x)' PROVE OnStack(x) \/ x = h
    <3>1. CASE stack' = stack
      BY <2>5, <3>1 DEF OnStack
    <3>2. CASE \E e \in Entries : stack' = Append(stack, e) /\ e.id = h
      <4>1. PICK e \in Entries : stack' = Append(stack, e) /\ e.id = h
        BY <3>2
      <4>2. PICK m \in Nat : m = Len(stack)
        BY <1>1
      <4>3. Len(stack') = m + 1 /\ stack'[m + 1] = e /\ \A k \in 1 .. m : stack'[k] = stack[k]
        BY <1>1, <4>1, <4>2
      <4>4. \A k \in 1 .. (m + 1) : k = m + 1 \/ k \in 1 .. m
        BY <4>2
      <4> QED BY <2>5, <4>1, <4>2, <4>3, <4>4 DEF OnStack
    <3>3. stack' = stack \/ \E e \in Entries : stack' = Append(stack, e) /\ e.id = h
      <4>1. CASE Lookup
        BY <4>1 DEF Lookup
      <4>2. CASE Open
        <5>1. name \in Names
          BY <4>2 DEF Open, IterInv, RefsOK
        <5>2. \A file \in Ids : Child(h, file) \in Entries /\ Child(h, file).id = h
          BY <5>1, ChildIs
        <5>3. \A file \in Named(ent.file, name) : file \in Ids
          BY ChildrenAre
        <5> QED BY <2>3, <4>2, <5>2, <5>3 DEF Open
      <4> QED BY <1>5, <4>1, <4>2
    <3> QED BY <3>1, <3>2, <3>3
  <2> QED BY <2>1, <2>3, <2>4, <2>5
<1> QED BY <1>2, <1>3, <1>4, <1>5 DEF IterStep

\* When nothing interferes.
LEMMA Undisturbed ==
  ASSUME PlacesType, PlacesOK, changes = 0
  PROVE  /\ disturbed = {} /\ \A v \in Home : Children(v) \subseteq Stable
         /\ \A e : Matched(e) /\ e.id \in Home => e.file = e.id
<1>1. disturbed = {}
  BY DEF PlacesOK, TreeOK
<1>2. \A v \in Home : \A c \in Children(v) : c \in Stable
  BY <1>1, HomeFacts DEF Children
<1>3. \A e : Matched(e) /\ e.id \in Home => e.file = e.id
  BY DEF Matched
<1> QED BY <1>1, <1>2, <1>3

\* The iterator stays with what is there,
LEMMA IterCalm ==
  ASSUME Inv, Inv', IterStep, Calm, client # "get_rootref", client' = client,
         UNCHANGED <<vols, disturbed>>, changes' >= changes
  PROVE  Calm'
<1>1. PlacesType /\ WalkType /\ PlacesOK /\ IterInv /\ changes \in Nat
  BY DEF Inv, TypeInv, PlacesType, WalkInv
<1>2. SUFFICES ASSUME changes' = 0, client = "destroy_all" => ~ erred'
               PROVE  /\ \A k \in 1 .. Len(stack') : stack'[k].id \in Home'
                      /\ Expanding' => ent'.id \in Home'
                      /\ \A k \in 1 .. Len(refs') : refs'[k] \in Stable'
  BY DEF Calm
<1>3. changes = 0 /\ (client = "destroy_all" => ~ erred)
  BY <1>1, <1>2 DEF IterStep, Pop, Exhausted, Expanded, List, Lookup, Open, Err
<1>4. Home' = Home /\ Stable' = Stable /\ Stable \subseteq Home
  BY HomeIs DEF Home, Moved
<1>5. /\ \A x : OnStack(x) => x \in Home
      /\ Expanding => ent.id \in Home
      /\ \A x : Listed(x) => x \in Stable
  BY <1>3 DEF Calm, OnStack, Listed
<1>6. /\ \A x : OnStack(x)' => OnStack(x) \/ Listed(x)
      /\ (ent' = ent /\ (Expanding' => Expanding)) \/ OnStack(ent'.id)
      /\ \A x : Listed(x)' => Listed(x) \/ (pc = "list" /\ x \in Children(ent.file))
  BY <1>1, WalkIds
<1>7. pc = "list" => Children(ent.file) \subseteq Stable
  BY <1>1, <1>3, <1>5, Undisturbed DEF IterInv, StackMatch, Expanding
<1>8. \A x : OnStack(x)' => x \in Home
  BY <1>4, <1>5, <1>6
<1>9. \A x : Listed(x)' => x \in Stable
  BY <1>5, <1>6, <1>7
<1>10. Expanding' => ent'.id \in Home
  BY <1>5, <1>6
<1>11. \A k \in 1 .. Len(stack') : stack'[k].id \in Home
  BY <1>8 DEF OnStack
<1>12. \A k \in 1 .. Len(refs') : refs'[k] \in Stable
  BY <1>9 DEF Listed
<1> QED BY <1>4, <1>10, <1>11, <1>12

\* and an error is one of a subvolume with too many children.
LEMMA IterErr ==
  ASSUME Inv, IterStep, Calm, client # "get_rootref", ~ erred, erred', changes = 0, changes' = 0
  PROVE  /\ pc = "list" /\ ent.id \in Home /\ ent.file = ent.id /\ Cardinality(Children(ent.file)) > RefMax
         /\ refs' = <<>> /\ pc' = "error" /\ UNCHANGED <<stack, ent, yielded>>
<1>1. PlacesType /\ WalkType /\ PlacesOK /\ IterInv
  BY DEF Inv, TypeInv, WalkInv
<1>2. /\ Expanding => ent.id \in Home
      /\ \A k \in 1 .. Len(refs) : refs[k] \in Stable
  BY DEF Calm
<1>3. Matched(ent)
  BY <1>1 DEF IterInv, StackMatch
<1>4. ~ Fails
  BY DEF Fails, Change
<1>5. ASSUME refs # <<>>
      PROVE  Head(refs) = refs[1] /\ refs[1] \in DOMAIN vols /\ vols[refs[1]].parent = ent.file
  <2>1. Head(refs) = refs[1] /\ 1 \in 1 .. Len(refs)
    BY <1>1, <1>5 DEF WalkType
  <2>2. refs[1] \in Stable
    BY <1>2, <2>1
  <2> QED BY <1>1, <2>1, <2>2, HomeFacts DEF IterInv, RefsOK
<1>6. ~ Lookup
  <2>1. SUFFICES ASSUME Lookup PROVE FALSE
    OBVIOUS
  <2>2. refs # <<>>
    BY <2>1 DEF Lookup
  <2>3. LookupUser(Head(refs)) = "found" \/ Ignored(LookupUser(Head(refs)))
    BY <1>5, <2>2 DEF LookupUser, Ignored, Children
  <2>4. PICK r \in {LookupUser(Head(refs)), "EIO"} :
          /\ IF r = "EIO" THEN Fails ELSE Works
          /\ \/ r = "found" /\ UNCHANGED erred
             \/ Ignored(r) /\ UNCHANGED erred
             \/ r # "found" /\ ~ Ignored(r) /\ Err
    BY <2>1 DEF Lookup
  <2>5. r = LookupUser(Head(refs))
    BY <1>4, <2>4
  <2> QED BY <2>3, <2>4, <2>5
<1>7. ~ Open
  <2>1. SUFFICES ASSUME Open PROVE FALSE
    OBVIOUS
  <2>2. pc = "open" /\ Named(ent.file, name) = {}
    BY <1>4, <2>1 DEF Open
  <2>3. refs # <<>> /\ (refs[1] \in Stable => vols[refs[1]].name = name)
    BY <1>1, <2>2 DEF IterInv, RefsOK
  <2>4. 1 \in 1 .. Len(refs)
    BY <1>1, <2>3 DEF WalkType
  <2>5. refs[1] \in Named(ent.file, name)
    BY <1>2, <1>5, <2>3, <2>4 DEF Named, Children
  <2> QED BY <2>2, <2>5
<1>8. List
  BY <1>6, <1>7 DEF IterStep, Pop, Exhausted, Expanded
<1>9. pc = "list" /\ Err /\ Cardinality(Children(ent.file)) > RefMax /\ UNCHANGED <<stack, ent, yielded>>
  BY <1>4, <1>8 DEF List
<1>10. ent.id \in Home /\ ent.file = ent.id
  BY <1>1, <1>2, <1>3, <1>9, Undisturbed DEF Expanding
<1> QED BY <1>9, <1>10 DEF Err

\* So do the calls of get_rootref.
LEMMA CallsCalm ==
  ASSUME Inv, get_rootref, Calm, client = "get_rootref", client' = client,
         UNCHANGED <<vols, disturbed>>, changes' >= changes
  PROVE  Calm'
<1>1. PlacesType /\ WalkType /\ PlacesOK /\ RootRefInv /\ changes \in Nat
  BY DEF Inv, TypeInv, PlacesType, WalkInv
<1>2. SUFFICES ASSUME changes' = 0
               PROVE  /\ \A k \in 1 .. Len(stack') : stack'[k].id \in Home'
                      /\ Expanding' => ent'.id \in Home'
                      /\ \A k \in 1 .. Len(refs') : refs'[k] \in Stable'
                      /\ \A k \in 1 .. Len(calls') :
                            /\ calls'[k][1].id \in Home'
                            /\ \A i \in 1 .. Len(calls'[k][2]) : calls'[k][2][i] \in Stable'
  BY DEF Calm
<1>3. changes = 0
  BY <1>1, <1>2
<1>4. Home' = Home /\ Stable' = Stable /\ Stable \subseteq Home /\ Target \in Home
  BY HomeIs DEF Home, Moved
<1>5. /\ \A k \in 1 .. Len(stack) : stack[k].id \in Home
      /\ Expanding => ent.id \in Home
      /\ \A k \in 1 .. Len(refs) : refs[k] \in Stable
      /\ \A k \in 1 .. Len(calls) :
            /\ calls[k][1].id \in Home
            /\ \A i \in 1 .. Len(calls[k][2]) : calls[k][2][i] \in Stable
  BY <1>3 DEF Calm
<1>6. stack' = stack
  BY DEF get_rootref, OpenPath, ListRefs, LookupRef, ReturnOk
<1>7. CASE pc' = "none" /\ UNCHANGED <<refs, calls>>
  BY <1>4, <1>5, <1>6, <1>7 DEF Expanding
<1>8. CASE \E file \in Ids : ent' = [ent EXCEPT !.file = file] /\ pc = "open" /\ UNCHANGED <<refs, calls>>
  <2>1. ent'.id = ent.id
    <3>1. PICK file \in Ids : ent' = [ent EXCEPT !.file = file]
      BY <1>8
    <3> QED BY <1>1, <3>1 DEF WalkType, Entries
  <2> QED BY <1>4, <1>5, <1>6, <1>8, <2>1 DEF Expanding
<1>9. CASE pc \in {"pop", "list"} /\ ent' = ent /\ refs' = Ascending(Children(ent.file)) /\ UNCHANGED calls
  <2>1. Matched(ent)
    <3>1. Depth \in 1 .. Depth /\ Call(Depth)[1] = ent
      BY <1>1, CallTypes
    <3> QED BY <1>1, <3>1 DEF RootRefInv, CallsMatch
  <2>2. ent.id \in Home
    <3>1. pc = "pop" => ent.id = Target
      BY <1>1, RootVolIs DEF RootRefInv, CallsOK
    <3> QED BY <1>4, <1>5, <1>9, <3>1 DEF Expanding
  <2>3. PICK s : s = Children(ent.file) /\ s \subseteq Stable /\ s \subseteq Ids
    BY <1>1, <1>3, <2>1, <2>2, Undisturbed, ChildrenAre
  <2>4. \A i \in 1 .. Len(Ascending(s)) : Ascending(s)[i] \in s
    BY <2>3, AscendingIs
  <2>5. refs' = Ascending(s)
    BY <1>9, <2>3
  <2>6. \A k \in 1 .. Len(refs') : refs'[k] \in Stable
    BY <2>3, <2>4, <2>5
  <2> QED BY <1>4, <1>5, <1>6, <1>9, <2>2, <2>6
<1>10. CASE pc = "lookup" /\ refs # <<>> /\ LookupUser(Head(refs)) = "found" /\ ent' = Ref(Head(refs))
            /\ calls' = Append(calls, <<ent, Tail(refs)>>) /\ refs' = <<>>
  <2>0. refs \in Seq(Ids) /\ refs # <<>>
    BY <1>1, <1>10 DEF WalkType
  <2>1. PICK t \in Seq(Ids), n \in Nat \ {0} : t = Tail(refs) /\ n = Len(refs) /\ Len(t) = n - 1 /\ \A k \in 1 .. (n - 1) : t[k] = refs[k + 1]
    BY <2>0, TailIs
  <2>2. PICK h \in Ids : h = Head(refs) /\ h = refs[1]
    BY <1>1, <1>10, TailIs DEF WalkType
  <2>3. h \in Stable
    <3>1. 1 \in 1 .. Len(refs)
      BY <2>1
    <3> QED BY <1>5, <2>2, <3>1
  <2>4. ent'.id = h
    <3>1. h \in DOMAIN vols
      BY <1>1, <2>3, HomeFacts
    <3> QED BY <1>1, <1>10, <2>2, <3>1, RefIs
  <2>5. \A k \in 1 .. (n - 1) : t[k] \in Stable
    <3>1. \A k \in 1 .. (n - 1) : k + 1 \in 1 .. n
      BY <2>1
    <3> QED BY <1>5, <2>1, <3>1
  <2>6. PICK m \in Nat : m = Len(calls)
    BY <1>1 DEF WalkType
  <2>7. calls \in Seq(Entries \X Seq(Ids)) /\ ent \in Entries
    BY <1>1 DEF WalkType
  <2>8. PICK p \in Entries \X Seq(Ids) : p = <<ent, t>> /\ p[1] = ent /\ p[2] = t
    <3>1. <<ent, t>> \in Entries \X Seq(Ids)
      BY <2>1, <2>7
    <3> QED BY <3>1
  <2>9. calls' = Append(calls, p)
    BY <1>10, <2>1, <2>8
  <2>10. Len(calls') = m + 1 /\ calls'[m + 1] = p /\ \A k \in 1 .. m : calls'[k] = calls[k]
    BY <2>6, <2>7, <2>9
  <2>11. \A k \in 1 .. (m + 1) : k = m + 1 \/ k \in 1 .. m
    BY <2>6
  <2>12. ent.id \in Home
    BY <1>5, <1>10 DEF Expanding
  <2>13. ASSUME NEW k \in 1 .. Len(calls')
         PROVE  calls'[k][1].id \in Home /\ \A i \in 1 .. Len(calls'[k][2]) : calls'[k][2][i] \in Stable
    <3>1. CASE k = m + 1
      BY <2>1, <2>5, <2>8, <2>10, <2>12, <3>1
    <3>2. CASE k \in 1 .. m
      BY <1>5, <2>6, <2>10, <3>2
    <3> QED BY <2>10, <2>11, <3>1, <3>2
  <2> QED BY <1>4, <1>5, <1>6, <1>10, <2>3, <2>4, <2>13
<1>11. CASE refs = <<>> /\ calls # <<>> /\ ent' = Last(calls)[1] /\ refs' = Last(calls)[2] /\ calls' = Front(calls)
  <2>1. PICK m \in Nat \ {0} : m = Len(calls)
    BY <1>1, <1>11, FrontIs DEF WalkType
  <2>2. Last(calls) = calls[m] /\ Len(Front(calls)) = m - 1 /\ \A i \in 1 .. (m - 1) : Front(calls)[i] = calls[i]
    BY <1>1, <1>11, <2>1, FrontIs DEF WalkType
  <2>3. m \in 1 .. Len(calls) /\ \A k \in 1 .. (m - 1) : k \in 1 .. Len(calls)
    BY <2>1
  <2>4. ent'.id \in Home /\ \A k \in 1 .. Len(refs') : refs'[k] \in Stable
    BY <1>5, <1>11, <2>2, <2>3
  <2>5. \A k \in 1 .. Len(calls') :
            /\ calls'[k][1].id \in Home
            /\ \A i \in 1 .. Len(calls'[k][2]) : calls'[k][2][i] \in Stable
    BY <1>5, <1>11, <2>2, <2>3
  <2> QED BY <1>4, <1>5, <1>6, <2>4, <2>5
<1>12. CASE OpenPath
  <2>1. Resolve(Target, ent.path) \subseteq Ids
    <3>1. PICK path \in Seq(Names) : path = ent.path
      BY <1>1, EntryType DEF WalkType
    <3>2. GoodBase(vols, Moved) /\ Target \in Ids
      BY <1>1, TreeIsGood, VolumesAssumption DEF PlacesOK
    <3>3. Place(vols, Target, path) \subseteq Below(vols, Target)
      BY <3>2, PlaceIsOne
    <3>4. Subtree(Target) \subseteq {Target} \cup DOMAIN vols
      BY <1>1, <3>2, SubtreeFacts
    <3>5. DOMAIN vols \subseteq Ids
      BY <1>1 DEF PlacesType
    <3> QED BY <3>1, <3>2, <3>3, <3>4, <3>5, ResolveIsPlace, SubtreeIsBelow
  <2> QED BY <1>7, <1>8, <1>12, <2>1 DEF OpenPath, Abort
<1>13. CASE ListRefs
  BY <1>7, <1>9, <1>13 DEF ListRefs, Abort
<1>14. CASE LookupRef
  BY <1>7, <1>10, <1>14 DEF LookupRef, Abort
<1>15. CASE ReturnOk
  BY <1>7, <1>11, <1>15 DEF ReturnOk
<1> QED BY <1>12, <1>13, <1>14, <1>15 DEF get_rootref

\* Destroying one leaves the others in their places.
LEMMA OthersStay ==
  ASSUME PlacesType, PlacesType', NEW CONSTANT c \in DOMAIN vols, Children(c) = {}, vols' = Without(c),
         disturbed' = disturbed
  PROVE  /\ \A x \in Stable : x # c => x \in Stable'
         /\ \A x \in Home : x # c => x \in Home'
         /\ DOMAIN vols' = DOMAIN vols \ {c} /\ \A x \in DOMAIN vols' : vols'[x] = vols[x]
<1>1. DOMAIN vols' = DOMAIN vols \ {c} /\ \A x \in DOMAIN vols' : vols'[x] = vols[x]
  BY DEF Without
<1>2. PICK U : U = {c}
  OBVIOUS
<1>3. \A d \in DOMAIN vols : d \notin U => d \in DOMAIN vols' /\ vols'[d].parent = vols[d].parent
  BY <1>1, <1>2
<1>4. \A d \in DOMAIN vols : vols[d].parent \in U => d \in U
  BY <1>2 DEF Children
<1>5. \A x \in Subtree(Target) : x \notin U => x \in Subtree(Target)'
  BY <1>3, <1>4, RestIsBelow
<1>6. \A x \in Stable : x # c => x \in Stable'
  BY <1>2, <1>5 DEF Stable
<1> QED BY <1>1, <1>6 DEF Home

\* When nothing interferes destroy_all destroys what the walk returned.
LEMMA QuietItem ==
  ASSUME Inv, Inv', Next, DestroyItem, Quiet, changes' = 0, ~ erred
  PROVE  \E c \in Stable :
           /\ c = Last(yielded).id /\ Returned(c) /\ Children(c) = {} /\ vols' = Without(c)
           /\ UNCHANGED <<reported, disturbed>> /\ changes = 0
           /\ \A x \in Stable : x # c => x \in Stable'
           /\ \A x \in Home : x # c => x \in Home'
           /\ c \notin Stable'
<1>1. /\ PlacesType /\ WalkType /\ PlacesOK /\ TreeOK /\ ClientOK /\ WalkInv /\ YieldedMatch /\ PathsOK
      /\ Shifted /\ PlacesType'
  BY StepsOf DEF Inv, TypeInv
<1>2. step = "destroy" /\ client = "destroy_all" /\ pc = "item" /\ outside = {} /\ yielded # <<>> /\ order = "post"
  BY <1>1 DEF DestroyItem, ClientOK
<1>3. IterInv
  BY <1>1, <1>2 DEF WalkInv
<1>4. changes = 0
  BY <1>1 DEF Shifted, Shifts, PlacesType
<1>5. PICK c \in Stable : c = Last(yielded).id /\ parent = {vols[c].parent}
  BY <1>2, <1>4 DEF Quiet
<1>6. \A x \in Stable : Returned(x) => x = c
  BY <1>2, <1>4, <1>5 DEF Quiet
<1>7. PICK e \in Entries, q \in Seq(Names), n \in Names :
           /\ e = Last(yielded) /\ e = yielded[Len(yielded)] /\ Len(yielded) \in Nat \ {0} /\ Matched(e)
           /\ e.path = Append(q, n) /\ Last(ItemPath) = n
  BY <1>1, <1>2, ItemIs DEF TypeInv
<1>8. c \in Home /\ c \in DOMAIN vols /\ e.id = c
  BY <1>1, <1>5, <1>7, HomeFacts
<1>9. vols[c].name = n
  <2>1. c \in Resolve(Target, Append(q, n))
    BY <1>7, <1>8 DEF Matched
  <2> QED BY <1>1, <2>1, PathToStable
<1>10. Named(vols[c].parent, n) = {c}
  <2>1. \A v \in Named(vols[c].parent, n) : v = c
    BY <1>1, <1>8, <1>9, NamesApart, TreeIsGood DEF Named, Children
  <2>2. c \in Named(vols[c].parent, n)
    BY <1>8, <1>9 DEF Named, Children
  <2> QED BY <2>1, <2>2
<1>11. Returned(c)
  <2>1. Len(yielded) \in 1 .. Len(yielded)
    BY <1>7
  <2> QED BY <1>7, <1>8, <2>1 DEF Returned
<1>12. refs = <<>> /\ ~ Expanding
  BY <1>1, <1>2, <1>3 DEF IterInv, RefsOK, Expanding
<1>13. ~ OnStack(c)
  BY <1>3, <1>11 DEF IterInv, Once
<1>14. ~ Waiting(c)
  BY <1>2, <1>12, <1>13 DEF Waiting, OnStack, Listed
<1>15. Children(c) = {}
  <2>1. SUFFICES ASSUME NEW d \in Children(c) PROVE FALSE
    OBVIOUS
  <2>2. d \in Stable /\ vols[d].parent = c /\ d # c
    <3>1. d \in Stable
      BY <1>1, <1>4, <1>8, Undisturbed
    <3> QED BY <1>1, <2>1, <3>1, HomeFacts DEF Children
  <2>3. Opened(c)
    BY <1>11, <1>14 DEF Opened
  <2>4. ~ Hidden(d)
    BY <1>2 DEF Hidden
  <2>5. Seen(d)
    BY <1>3, <2>2, <2>3, <2>4 DEF IterInv, Covered
  <2>6. ~ Returned(d)
    BY <1>6, <2>2
  <2>7. ~ OnStack(d)
    <3>1. SUFFICES ASSUME OnStack(d) PROVE FALSE
      OBVIOUS
    <3>2. PICK k \in 1 .. Len(stack) : stack[k].id = d
      BY <3>1 DEF OnStack
    <3>3. PICK l \in 1 .. (k - 1) : stack[l].id = c
      BY <1>2, <1>3, <2>2, <3>2 DEF IterInv, ParentLast
    <3>4. Len(stack) \in Nat
      BY <1>1, <1>3, OrderIs
    <3>5. l \in 1 .. Len(stack)
      BY <3>2, <3>3, <3>4
    <3> QED BY <1>13, <3>3, <3>5 DEF OnStack
  <2> QED BY <1>12, <2>5, <2>6, <2>7 DEF Seen, InHand, Listed
<1>16. \A dir \in parent : ~ SnapDestroyFails(dir, Last(ItemPath))
  <2>1. SUFFICES ASSUME SnapDestroyFails(vols[c].parent, n) PROVE FALSE
    BY <1>5, <1>7
  <2>2. ~ Fails
    BY <1>4 DEF Fails, Change
  <2> QED BY <1>10, <1>15, <2>1, <2>2 DEF SnapDestroyFails
<1>17. SnapDestroy(vols[c].parent, n) /\ reported' = reported
  BY <1>5, <1>7, <1>16 DEF DestroyItem
<1>18. vols' = Without(c) /\ disturbed' = disturbed
  BY <1>10, <1>17 DEF SnapDestroy
<1>19. /\ \A x \in Stable : x # c => x \in Stable'
       /\ \A x \in Home : x # c => x \in Home'
  BY <1>1, <1>8, <1>15, <1>18, OthersStay
<1>20. c \notin Stable'
  <2>1. c \notin DOMAIN vols' /\ c # Target
    BY <1>1, <1>18, HomeFacts DEF Without
  <2>2. Subtree(Target)' \subseteq {Target} \cup DOMAIN vols'
    BY <1>1, VolumesAssumption, SubtreeFactsAfter
  <2> QED BY <2>1, <2>2 DEF Stable
<1> QED BY <1>4, <1>5, <1>11, <1>15, <1>17, <1>18, <1>19, <1>20

\* The walk is about nothing but what is there.
LEMMA CalmStep ==
  ASSUME Inv, Inv', Next, Calm, Quiet
  PROVE  Calm'
<1>1. /\ PlacesType /\ WalkType /\ PlacesOK /\ TreeOK /\ ClientOK /\ WalkInv /\ Shifted /\ client' = client
  BY StepsOf
<1>2. changes \in Nat /\ changes' \in Nat /\ changes' >= changes
  BY <1>1 DEF Shifted, Shifts, PlacesType
<1>3. CASE Walk
  <2>1. UNCHANGED <<vols, disturbed>>
    BY <1>3, StepsOf
  <2>2. CASE client = "get_rootref"
    BY <1>1, <1>2, <1>3, <2>1, <2>2, CallsCalm DEF Walk
  <2>3. CASE client # "get_rootref"
    BY <1>1, <1>2, <1>3, <2>1, <2>3, IterCalm DEF Walk
  <2> QED BY <2>2, <2>3
<1>4. CASE Begin \/ Take \/ WalkFailed \/ OpenParent
  <2>1. UNCHANGED <<vols, disturbed>>
    BY <1>4, StepsOf
  <2>2. UNCHANGED <<stack, ent, refs, calls, erred>> /\ (Expanding' => Expanding)
    BY <1>4 DEF Begin, Take, WalkFailed, OpenParent, next, walkVars, iterVars, Expanding
  <2>3. Home' = Home /\ Stable' = Stable
    BY <2>1, HomeIs DEF Moved
  <2> QED BY <1>1, <1>2, <2>2, <2>3 DEF Calm
<1>5. CASE Other
  <2>1. changes' > 0
    BY <1>1, <1>5, OthersShift DEF Other, PlacesOK, destroyVars, Finished
  <2> QED BY <2>1 DEF Calm
<1>6. CASE DestroyTarget
  <2>1. /\ UNCHANGED <<stack, refs, calls, pc, client>> /\ pc = "none" /\ client = "destroy_all"
    BY <1>6 DEF DestroyTarget, walkVars, iterVars
  <2>2. stack = <<>> /\ refs = <<>>
    BY <1>1, <2>1 DEF WalkInv, IterInv, RefsOK
  <2> QED BY <2>1, <2>2 DEF Calm, Expanding
<1>7. CASE DestroyItem
  <2>1. UNCHANGED <<stack, refs, erred>> /\ pc' = "pop" /\ step = "destroy"
    BY <1>7 DEF DestroyItem, next
  <2>2. client = "destroy_all"
    BY <1>1, <2>1 DEF ClientOK
  <2>3. SUFFICES ASSUME changes' = 0, ~ erred PROVE \A k \in 1 .. Len(stack') : stack'[k].id \in Home'
    <3>1. refs = <<>>
      BY <1>1, <2>1, <2>2 DEF WalkInv, IterInv, RefsOK, ClientOK
    <3> QED BY <1>1, <2>1, <2>2, <3>1 DEF Calm, Expanding
  <2>4. PICK c \in Stable : Returned(c) /\ \A x \in Home : x # c => x \in Home'
    BY <1>7, <2>3, QuietItem
  <2>5. ~ OnStack(c)
    BY <1>1, <2>2, <2>4 DEF WalkInv, IterInv, Once
  <2>6. \A k \in 1 .. Len(stack) : stack[k].id \in Home
    BY <1>2, <2>3 DEF Calm
  <2> QED BY <2>1, <2>4, <2>5, <2>6 DEF OnStack
<1> QED BY <1>3, <1>4, <1>5, <1>6, <1>7 DEF Next, Destroyer

\* What the walk of destroy_all returns when nothing interferes.
LEMMA QuietWalk ==
  ASSUME Inv, IterStep, Calm, client = "destroy_all", changes = 0, ~ erred
  PROVE  \/ yielded' = yielded /\ pc' # "item"
         \/ \E e \in Entries : yielded' = Append(yielded, e) /\ e.id \in Stable /\ pc' = "item"
<1>1. PlacesType /\ WalkType /\ PlacesOK /\ IterInv /\ order = "post" /\ ent.color # "pre"
  BY DEF Inv, TypeInv, WalkInv, ClientOK, IterInv, Colors
<1>2. CASE Pop
  <2>1. PICK m \in Nat \ {0} : m = Len(stack) /\ Last(stack) = stack[m] /\ Last(stack) \in Entries
    BY <1>1, <1>2, FrontIs DEF WalkType, Pop
  <2>2. PICK e \in Entries : e = Last(stack)
    BY <2>1
  <2>3. m \in 1 .. Len(stack) /\ stack[m] = e
    BY <2>1, <2>2
  <2>4. e.id \in Home /\ Matched(e)
    BY <1>1, <2>3 DEF Calm, IterInv, StackMatch
  <2>5. CASE e.color = "black"
    <3>1. e.id \in Stable
      BY <2>4, <2>5 DEF Matched, Home
    <3>2. yielded' = Append(yielded, e) /\ pc' = "item"
      BY <1>2, <2>2, <2>5 DEF Pop, Yield
    <3> QED BY <3>1, <3>2
  <2>6. CASE e.color # "black"
    BY <1>2, <2>2, <2>6 DEF Pop
  <2> QED BY <2>5, <2>6
<1>3. CASE ~ Pop
  BY <1>1, <1>3 DEF IterStep, Exhausted, Expanded, List, Lookup, Open, Err
<1> QED BY <1>2, <1>3

\* What destroy_all was given is gone before it asks for more.
LEMMA QuietStep ==
  ASSUME Inv, Inv', Next, Calm, Quiet, InDir
  PROVE  Quiet'
<1>1. /\ PlacesType /\ WalkType /\ PlacesOK /\ TreeOK /\ ClientOK /\ WalkInv /\ Shifted /\ client' = client
      /\ PlacesType' /\ PlacesOK'
  BY StepsOf DEF Inv, TypeInv
<1>2. changes \in Nat /\ changes' \in Nat /\ changes' >= changes
  BY <1>1 DEF Shifted, Shifts, PlacesType
<1>3. SUFFICES ASSUME client = "destroy_all", changes' = 0, ~ erred'
               PROVE  /\ reported' = {}
                      /\ pc' = "item" => Last(yielded').id \in Stable'
                      /\ \A c \in Stable' : Returned(c)' => pc' = "item" /\ Last(yielded').id = c
                      /\ step' = "destroy" => parent' = {vols'[Last(yielded').id].parent}
                      /\ step' = "done" => result' = "ok" \/ outside' # {}
  BY <1>1 DEF Quiet
<1>4. changes = 0 /\ Stable' \subseteq Stable
  BY <1>1, <1>2, <1>3, ShiftKeeps
<1>5. ~ erred
  BY <1>3 DEF Next, Walk, Take, Destroyer, Begin, WalkFailed, OpenParent, DestroyItem, DestroyTarget, Other,
     next, walkVars, iterVars, get_rootref, OpenPath, ListRefs, LookupRef, ReturnOk, Abort,
     IterStep, Pop, Exhausted, Expanded, List, Lookup, Open, Err
<1>6. /\ reported = {}
      /\ pc = "item" => Last(yielded).id \in Stable
      /\ \A c \in Stable : Returned(c) => pc = "item" /\ Last(yielded).id = c
      /\ step = "destroy" => parent = {vols[Last(yielded).id].parent}
      /\ step = "done" => result = "ok" \/ outside # {}
  BY <1>3, <1>4, <1>5 DEF Quiet
<1>7. CASE Begin
  <2>1. UNCHANGED <<pc, yielded, reported, outside>> /\ step = "start" /\ step' # "destroy"
    BY <1>7 DEF Begin, walkVars, iterVars
  <2>2. pc # "item"
    BY <1>1, <2>1 DEF ClientOK
  <2>3. step' = "done" => outside # {}
    BY <1>3, <1>4, <1>7 DEF Begin, Fails, Change
  <2> QED BY <1>4, <1>6, <2>1, <2>2, <2>3 DEF Returned
<1>8. CASE Walk
  <2>1. IterStep /\ UNCHANGED <<step, reported, result, outside>> /\ step = "iter"
    BY <1>3, <1>8 DEF Walk, destroyVars, IterStep, Pop, Exhausted, Expanded, List, Lookup, Open
  <2>2. pc # "item" /\ Stable' = Stable
    <3>1. UNCHANGED <<vols, disturbed>>
      BY <1>8, StepsOf
    <3> QED BY <2>1, <3>1, HomeIs DEF Moved, IterStep, Pop, Exhausted, Expanded, List, Lookup, Open
  <2>3. CASE yielded' = yielded /\ pc' # "item"
    BY <1>6, <2>1, <2>2, <2>3 DEF Returned
  <2>4. CASE \E e \in Entries : yielded' = Append(yielded, e) /\ e.id \in Stable /\ pc' = "item"
    <3>1. PICK e \in Entries : yielded' = Append(yielded, e) /\ e.id \in Stable /\ pc' = "item"
      BY <2>4
    <3>2. PICK n \in Nat : n = Len(yielded) /\ yielded \in Seq(Entries)
      BY <1>1 DEF WalkType
    <3>3. Len(yielded') = n + 1 /\ yielded'[n + 1] = e /\ \A k \in 1 .. n : yielded'[k] = yielded[k]
      BY <3>1, <3>2
    <3>4. Last(yielded') = e
      BY <3>2, <3>3 DEF Last
    <3>5. ASSUME NEW c \in Stable, Returned(c)' PROVE c = e.id
      <4>1. PICK i \in 1 .. (n + 1) : yielded'[i].id = c
        BY <3>3, <3>5 DEF Returned
      <4>2. CASE i \in 1 .. n
        BY <1>6, <2>2, <3>2, <3>3, <4>1, <4>2 DEF Returned
      <4>3. CASE i = n + 1
        BY <3>3, <4>1, <4>3
      <4>4. i = n + 1 \/ i \in 1 .. n
        BY <3>2, <4>1
      <4> QED BY <4>2, <4>3, <4>4
    <3> QED BY <1>6, <2>1, <2>2, <3>1, <3>4, <3>5
  <2> QED BY <1>3, <1>4, <1>5, <2>1, <2>3, <2>4, QuietWalk
<1>9. CASE Take
  BY <1>3, <1>9 DEF Take
<1>10. CASE WalkFailed
  <2>1. UNCHANGED <<yielded, reported, step>> /\ pc = "error" /\ pc' = "pop" /\ step = "iter"
    BY <1>10 DEF WalkFailed, next, destroyVars
  <2> QED BY <1>4, <1>6, <2>1 DEF Returned
<1>11. CASE OpenParent
  <2>1. UNCHANGED <<pc, yielded, reported>> /\ pc = "item" /\ step' = "destroy"
    BY <1>11 DEF OpenParent, walkVars, iterVars
  <2>2. Stable' = Stable /\ vols' = vols
    BY <1>11, StepsOf, HomeIs DEF Moved
  <2>3. PICK c \in Stable : Last(yielded).id = c
    BY <1>6, <2>1
  <2>4. parent' = {vols[c].parent}
    <3>1. Target \notin disturbed
      BY <1>1, <1>4 DEF TreeOK
    <3> QED BY <1>3, <1>4, <1>11, <2>3, <3>1, OpensItsParent
  <2> QED BY <1>6, <2>1, <2>2, <2>3, <2>4 DEF Returned
<1>12. CASE DestroyItem
  <2>1. yielded' = yielded /\ pc' = "pop" /\ step' = "iter"
    BY <1>12 DEF DestroyItem, next
  <2>2. PICK c \in Stable : c = Last(yielded).id /\ reported' = reported /\ c \notin Stable'
    BY <1>1, <1>3, <1>5, <1>12, QuietItem
  <2> QED BY <1>4, <1>6, <2>1, <2>2 DEF Returned
<1>13. CASE DestroyTarget
  <2>1. UNCHANGED <<yielded, reported, outside, pc>> /\ pc = "none" /\ step = "iter" /\ step' = "done"
    BY <1>13 DEF DestroyTarget, walkVars, iterVars
  <2>2. /\ outside = {} /\ Target \in DOMAIN vols
        /\ vols[Target].parent = Dir /\ vols[Target].name = TargetName
    <3>1. outside = {}
      BY <1>1, <1>3, <2>1 DEF ClientOK
    <3> QED BY <1>1, <1>4, <2>1, <3>1, InItsPlace
  <2>3. Children(Target) = {}
    <3>1. SUFFICES ASSUME NEW d \in Children(Target) PROVE FALSE
      OBVIOUS
    <3>2. PICK c \in Stable : c = d
      BY <1>1, <1>4, Undisturbed, HomeFacts
    <3>3. Reachable(c)
      <4>1. c \in Subtree(c)
        BY <1>1, HomeFacts, SubtreeFacts
      <4> QED BY <2>2, <3>2, <4>1 DEF Reachable
    <3>4. Returned(c)
      BY <1>5, <2>1, <3>3, ReachedAreReturned
    <3> QED BY <1>6, <2>1, <3>4
  <2>4. \A v \in Named(Dir, TargetName) : v = Target
    BY <1>1, <2>2, NamesApart, TreeIsGood DEF Named, Children
  <2>5. Target \in Named(Dir, TargetName)
    BY <2>2 DEF Named, Children
  <2>6. ~ SnapDestroyFails(Dir, TargetName)
    BY <1>3, <1>4, <2>3, <2>5 DEF SnapDestroyFails, Fails, Change
  <2>7. result' = "ok"
    BY <1>13, <2>6 DEF DestroyTarget
  <2> QED BY <1>4, <1>6, <2>1, <2>7 DEF Returned
<1>14. CASE Other
  <2>1. changes' > 0
    BY <1>1, <1>14, OthersShift DEF Other, PlacesOK, destroyVars, Finished
  <2> QED BY <1>3, <2>1
<1> QED BY <1>7, <1>8, <1>9, <1>10, <1>11, <1>12, <1>13, <1>14 DEF Next, Destroyer

\* The directory destroy_all opens is the one the path leads to.
LEMMA ParentNamedStep ==
  ASSUME Inv, Inv', Next, ParentNamed, InDir
  PROVE  ParentNamed'
<1>1. PlacesType /\ WalkType /\ PlacesOK /\ ClientOK /\ Shifted
  BY StepsOf
<1>2. CASE OpenParent
  <2>1. UNCHANGED <<vols, yielded>> /\ cwd = Dir
    BY <1>1, <1>2, StepsOf DEF OpenParent, walkVars, iterVars, WalkType, InDir
  <2>2. parent' \subseteq Resolve(Dir, Front(ItemPath))
    BY <1>2, <2>1 DEF OpenParent
  <2>3. PICK path : path = Front(ItemPath)
    OBVIOUS
  <2>4. Front(ItemPath)' = path
    BY <2>1, <2>3 DEF ItemPath
  <2>5. Resolve(Dir, path)' = Resolve(Dir, path)
    BY <2>1 DEF Resolve, Named, Children
  <2>6. Resolve(Dir, Front(ItemPath))' = Resolve(Dir, path)'
    BY <2>4
  <2> QED BY <2>2, <2>3, <2>5, <2>6 DEF ParentNamed
<1>3. CASE Other
  <2>1. changes' > 0
    BY <1>1, <1>3, OthersShift DEF Other, PlacesOK, destroyVars, Finished
  <2> QED BY <2>1 DEF ParentNamed
<1>4. CASE Begin \/ Walk \/ Take \/ WalkFailed \/ DestroyItem \/ DestroyTarget
  <2>1. step' # "destroy"
    BY <1>4 DEF Begin, Walk, Take, WalkFailed, DestroyItem, DestroyTarget, destroyVars
  <2> QED BY <2>1 DEF ParentNamed
<1> QED BY <1>2, <1>3, <1>4 DEF Next, Destroyer

\* What it destroys has been returned.
LEMMA DestroysReturned ==
  ASSUME Inv, step = "destroy", changes = 0, ParentNamed, NEW CONSTANT dir \in parent,
         NEW CONSTANT v \in Named(dir, Last(ItemPath))
  PROVE  v \in Stable /\ Returned(v)
<1>0. /\ TypeInv /\ PlacesType /\ WalkType /\ PlacesOK /\ TreeOK /\ ClientOK /\ YieldedMatch /\ PathsOK
      /\ client # "get_rootref" /\ yielded # <<>>
  BY InvPaths DEF Inv, TypeInv, WalkInv, PlacesOK, ClientOK
<1>1. PlacesType /\ YieldedMatch /\ disturbed = {} /\ Target \in DOMAIN vols /\ vols[Target].parent = Dir
  BY <1>0, InItsPlace
<1>2. PICK e \in Entries, q \in Seq(Names), n \in Names :
           /\ e = Last(yielded) /\ e = yielded[Len(yielded)] /\ Len(yielded) \in Nat \ {0} /\ Matched(e)
           /\ e.path = Append(q, n) /\ Last(ItemPath) = n
           /\ Resolve(Dir, Front(ItemPath)) = Resolve(Target, q)
  BY <1>0, <1>1, ItemIs
<1>3. GoodBase(vols, Moved) /\ Target \in Ids
  BY <1>0, TreeIsGood, VolumesAssumption
<1>4. dir \in Resolve(Target, q)
  BY <1>2 DEF ParentNamed
<1>5. v \in DOMAIN vols /\ vols[v].parent = dir /\ vols[v].name = n
  BY <1>2 DEF Named, Children
<1>6. v \in Resolve(Target, Append(q, n))
  <2>1. Append(q, n) \in Seq(Names)
    BY <1>2
  <2>2. Resolve(Target, Append(q, n)) = Place(vols, Target, Append(q, n))
    BY <2>1, ResolveIsPlace
  <2>3. Resolve(Target, q) = Place(vols, Target, q)
    BY <1>2, ResolveIsPlace
  <2>4. Place(vols, Target, Append(q, n)) = OneStep(vols, Place(vols, Target, q), n)
    BY <1>2, PlaceOf
  <2> QED BY <1>4, <1>5, <2>2, <2>3, <2>4 DEF OneStep
<1>7. v \in Stable
  <2>1. dir \in Subtree(Target)
    <3>1. Place(vols, Target, q) \subseteq Below(vols, Target)
      BY <1>2, <1>3, PlaceIsOne
    <3>2. Resolve(Target, q) = Place(vols, Target, q)
      BY <1>2, ResolveIsPlace
    <3> QED BY <1>4, <3>1, <3>2, SubtreeIsBelow
  <2>2. v \in Subtree(Target)
    <3>1. ClosedIn(vols, Subtree(Target))
      BY <1>1, <1>3, SubtreeFacts
    <3> QED BY <1>5, <2>1, <3>1 DEF ClosedIn
  <2>3. v # Target
    <3>1. Dir \notin Subtree(Target)
      <4>1. Subtree(Target) \subseteq {Target} \cup DOMAIN vols
        BY <1>1, <1>3, SubtreeFacts
      <4>2. Dir \notin DOMAIN vols /\ Dir # Target
        BY <1>0, VolumesAssumption DEF TreeOK
      <4> QED BY <4>1, <4>2
    <3> QED BY <1>1, <1>5, <2>1, <3>1
  <2> QED BY <1>1, <2>2, <2>3 DEF Stable
<1>8. e.id = v
  <2>1. v \in Home
    BY <1>7 DEF Home
  <2> QED BY <1>2, <1>6, <2>1 DEF Matched
<1>9. Len(yielded) \in 1 .. Len(yielded)
  BY <1>2
<1> QED BY <1>2, <1>7, <1>8, <1>9 DEF Returned

\* An error of get_rootref is one of a subvolume with too many children, or of
\* one outside the directory it starts from.
LEMMA CallsErr ==
  ASSUME Inv, get_rootref, Calm, client = "get_rootref", ~ erred, erred', changes = 0, changes' = 0
  PROVE  \/ \E v \in Home : Cardinality(Children(v)) > RefMax
         \/ \E v \in Children(Target) : vols[v].name \in outside
<1>1. PlacesType /\ WalkType /\ PlacesOK /\ RootRefInv
  BY DEF Inv, TypeInv, WalkInv
<1>2. Expanding => ent.id \in Home
  BY DEF Calm
<1>3. /\ Matched(ent) /\ ent.color \in {"root", "pre"}
      /\ \A i \in 1 .. Len(refs) : refs[i] \in Stable => vols[refs[i]].parent = ent.file
  <2>1. Depth \in 1 .. Depth /\ Call(Depth)[1] = ent /\ Call(Depth)[2] = refs
    BY <1>1, CallTypes
  <2> QED BY <1>1, <2>1 DEF RootRefInv, CallsMatch
<1>4. ~ Fails
  BY DEF Fails, Change
<1>5. \A e : Matched(e) /\ e.id \in Home => e.file = e.id
  BY <1>1, Undisturbed
<1>6. CASE OpenPath
  <2>1. pc = "open" /\ Resolve(Target, ent.path) = {}
    BY <1>4, <1>6 DEF OpenPath
  <2>2. ent.id \in Home
    BY <1>2, <2>1 DEF Expanding
  <2> QED BY <1>3, <2>1, <2>2 DEF Matched
<1>7. CASE ListRefs
  <2>1. Cardinality(Children(ent.file)) > RefMax /\ pc \in {"list", "pop"}
    BY <1>4, <1>7 DEF ListRefs
  <2>2. ent.id \in Home
    <3>1. pc = "pop" => ent.id = Target
      BY <1>1, RootVolIs DEF RootRefInv, CallsOK
    <3> QED BY <1>2, <2>1, <3>1 DEF Expanding, Home
  <2> QED BY <1>3, <1>5, <2>1, <2>2
<1>8. CASE LookupRef
  <2>1. refs # <<>> /\ LookupUser(Head(refs)) # "found"
    BY <1>4, <1>8 DEF LookupRef
  <2>2. 1 \in 1 .. Len(refs) /\ Head(refs) = refs[1]
    BY <1>1, <2>1 DEF WalkType
  <2>3. refs[1] \in Stable /\ vols[refs[1]].parent = ent.file
    BY <1>3, <2>2 DEF Calm
  <2>4. refs[1] \in Children(ent.file)
    BY <1>1, <2>3, HomeFacts DEF Children
  <2>5. ent.color = "root" /\ vols[refs[1]].name \in outside
    BY <2>1, <2>2, <2>4 DEF LookupUser
  <2>6. ent.file = Target
    BY <1>3, <1>5, <2>5 DEF Matched, Home
  <2> QED BY <2>4, <2>5, <2>6
<1>9. ~ ReturnOk
  BY DEF ReturnOk
<1> QED BY <1>6, <1>7, <1>8, <1>9 DEF get_rootref

\* A subvolume with too many children stays one in a walk of destroy_all,
LEMMA TooManyWalks ==
  ASSUME Inv, Inv', IterStep, UNCHANGED <<vols, disturbed>>, client = "destroy_all", client' = client,
         changes = 0, NEW CONSTANT v \in Home, TooMany(v)
  PROVE  v \in Home' /\ TooMany(v)'
<1>1. PlacesType /\ WalkType /\ PlacesOK /\ IterInv /\ order = "post"
  BY DEF Inv, TypeInv, WalkInv, ClientOK
<1>2. IterInv' /\ PlacesOK' /\ PlacesType'
  BY DEF Inv, TypeInv, WalkInv
<1>3. Home' = Home /\ Stable' = Stable /\ Children(v)' = Children(v)
  BY HomeIs DEF Children, Moved
<1>4. PICK s : s = Children(v)
  OBVIOUS
<1>5. /\ Cardinality(s) > RefMax
      /\ ~ Waiting(v) /\ (v = Target \/ OnStack(v) \/ Returned(v))
      /\ \A c \in s : ~ Seen(c)
  BY <1>4 DEF TooMany
<1>6. /\ \A x : Waiting(x)' => Waiting(x) \/ (pc = "list" /\ Listed(x)')
      /\ \A x : Seen(x)' => Seen(x) \/ (pc = "list" /\ Listed(x)')
      /\ \A x : OnStack(x) \/ Returned(x) => OnStack(x)' \/ Returned(x)' \/ Waiting(x)
  BY <1>1, WalkSees
<1>7. \A x : Listed(x)' => Listed(x) \/ (pc = "list" /\ x \in Children(ent.file))
  BY <1>1, WalkIds
<1>8. v = Target \/ OnStack(v)' \/ Returned(v)'
  BY <1>5, <1>6
<1>9. ~ Listed(v)'
  <2>1. SUFFICES ASSUME Listed(v)' PROVE FALSE
    OBVIOUS
  <2>2. v # Target
    <3>1. PICK k \in 1 .. Len(refs') : refs'[k] = v
      BY <2>1 DEF Listed
    <3>2. refs'[k] # Target
      BY <1>2, <3>1 DEF IterInv, RefsOK
    <3> QED BY <3>1, <3>2
  <2>3. v \in Stable'
    BY <1>3, <2>2 DEF Home
  <2> QED BY <1>2, <1>8, <2>1, <2>2, <2>3 DEF IterInv, Once
<1>10. ~ Waiting(v)'
  BY <1>5, <1>6, <1>9
<1>11. ASSUME NEW c \in s, Seen(c)' PROVE FALSE
  <2>1. pc = "list" /\ Listed(c)' /\ ~ Listed(c)
    BY <1>5, <1>6, <1>11 DEF Seen
  <2>2. c \in Children(ent.file)
    BY <1>7, <2>1
  <2>3. ent.file = v
    BY <1>4, <1>11, <2>2 DEF Children
  <2>4. ent.id = v
    BY <1>1, <2>3 DEF IterInv, StackMatch, Matched
  <2> QED BY <1>5, <2>1, <2>4 DEF Waiting
<1>12. \A c \in s : ~ Seen(c)'
  BY <1>11
<1> QED BY <1>3, <1>4, <1>5, <1>8, <1>10, <1>12 DEF TooMany

\* in which its error is the first one.
LEMMA TooManyIs ==
  ASSUME Inv, IterStep, Calm, UNCHANGED <<vols, disturbed>>, client = "destroy_all", client' = client,
         ~ erred, erred', changes = 0, changes' = 0
  PROVE  \E v \in Home' : TooMany(v)'
<1>1. PlacesType /\ WalkType /\ PlacesOK /\ IterInv /\ order = "post"
  BY DEF Inv, TypeInv, WalkInv, ClientOK
<1>2. /\ pc = "list" /\ ent.id \in Home /\ ent.file = ent.id /\ Cardinality(Children(ent.file)) > RefMax
      /\ refs' = <<>> /\ pc' = "error" /\ UNCHANGED <<stack, ent, yielded>>
  BY IterErr
<1>3. PICK v \in Home : v = ent.id
  BY <1>2
<1>4. /\ ~ \E k \in 1 .. Len(stack) : stack[k].id = v /\ stack[k].color # "black"
      /\ v = Target \/ OnStack(v)
  <2>1. Expanding
    BY <1>2 DEF Expanding
  <2>2. /\ ~ \E k \in 1 .. Len(stack) : stack[k].id = ent.id /\ stack[k].color # "black" /\ ent.id \in Home
        /\ ent.id # Target /\ order = "post" => OnStack(ent.id)
    BY <1>1, <2>1, InHandIs
  <2> QED BY <1>1, <1>3, <2>2
<1>5. ~ Waiting(v)' /\ (v = Target \/ OnStack(v)')
  BY <1>2, <1>4 DEF Waiting, OnStack, Listed
<1>6. PICK s : s = Children(v)
  OBVIOUS
<1>7. \A c \in s : ~ Seen(c)
  <2>1. SUFFICES ASSUME NEW c \in s PROVE ~ Seen(c)
    OBVIOUS
  <2>2. c \in Stable
    BY <1>1, <1>2, <1>6, Undisturbed
  <2>3. c \in Under(v)
    BY <1>1, <1>6, <2>2, UnderHome DEF Children
  <2>4. Waiting(v)
    BY <1>2, <1>3 DEF Waiting
  <2> QED BY <1>1, <2>2, <2>3, <2>4 DEF IterInv, Fresh
<1>8. \A c \in s : ~ Seen(c)'
  BY <1>2, <1>7 DEF Seen, Returned, OnStack, InHand, Expanding, Listed
<1>9. Home' = Home /\ Children(v)' = s
  BY <1>6, HomeIs DEF Children, Moved
<1> QED BY <1>2, <1>3, <1>5, <1>6, <1>8, <1>9 DEF TooMany

\* It is not destroyed while it has children.
LEMMA TooManyStays ==
  ASSUME PlacesType, PlacesType', NEW CONSTANT d \in DOMAIN vols, Children(d) = {}, vols' = Without(d),
         disturbed' = disturbed, NEW CONSTANT v \in Home, TooMany(v), d \notin Children(v)
  PROVE  v \in Home' /\ Children(v)' = Children(v)
<1>1. v # d
  <2>1. Cardinality(Children(v)) > RefMax
    BY DEF TooMany
  <2>2. Cardinality({}) = 0 /\ RefMax \in Nat
    BY FS_EmptySet, IterAssumption
  <2>3. Children(v) # {}
    <3>1. SUFFICES ASSUME Children(v) = {} PROVE FALSE
      OBVIOUS
    <3>2. Cardinality(Children(v)) = 0
      BY <2>2, <3>1
    <3> QED BY <2>1, <2>2, <3>2
  <2> QED BY <2>3
<1>2. v \in Home'
  BY <1>1, OthersStay
<1>3. \A c : c \in Children(v)' <=> c \in Children(v)
  BY DEF Children, Without
<1> QED BY <1>2, <1>3

\* Nor does it change while the walk rests.
LEMMA TooManyRests ==
  ASSUME UNCHANGED <<stack, refs, ent, yielded, client>>, pc \notin {"list", "lookup", "open"}, pc' \notin {"list", "lookup", "open"},
         NEW CONSTANT v, TooMany(v), Children(v)' = Children(v)
  PROVE  TooMany(v)'
<1>1. Waiting(v)' <=> Waiting(v)
  BY DEF Waiting, Listed
<1>2. (OnStack(v)' <=> OnStack(v)) /\ (Returned(v)' <=> Returned(v))
  BY DEF OnStack, Returned
<1>3. \A c : Seen(c)' <=> Seen(c)
  BY DEF Seen, OnStack, Returned, InHand, Expanding, Listed
<1>4. PICK s : s = Children(v) /\ s = Children(v)'
  OBVIOUS
<1> QED BY <1>1, <1>2, <1>3, <1>4 DEF TooMany

\* The cause of an error is still there.
LEMMA CausedStep ==
  ASSUME Inv, Inv', Next, Calm, ParentNamed, Caused
  PROVE  Caused'
<1>1. /\ PlacesType /\ WalkType /\ PlacesOK /\ TreeOK /\ ClientOK /\ WalkInv /\ Shifted /\ client' = client
      /\ PlacesType' /\ PlacesOK'
  BY StepsOf DEF Inv, TypeInv
<1>2. SUFFICES ASSUME erred', changes' = 0
               PROVE  \/ \E v \in Home' : TooMany(v)'
                      \/ client = "get_rootref" /\ \E v \in Children(Target)' : vols'[v].name \in outside'
  BY <1>1 DEF Caused
<1>3. changes = 0
  BY <1>1, <1>2 DEF Shifted, Shifts, PlacesType
<1>4. erred => \/ \E v \in Home : TooMany(v)
               \/ client = "get_rootref" /\ \E v \in Children(Target) : vols[v].name \in outside
  BY <1>3 DEF Caused
<1>5. CASE client # "destroy_all" /\ UNCHANGED <<vols, disturbed, outside>>
  <2>1. Home' = Home /\ Children(Target)' = Children(Target)
    BY <1>5, HomeIs DEF Children, Moved
  <2>2. ASSUME NEW CONSTANT v \in Home, Cardinality(Children(v)) > RefMax PROVE TooMany(v)'
    <3>1. PICK s : s = Children(v) /\ s = Children(v)'
      BY <1>5 DEF Children
    <3> QED BY <1>1, <1>5, <2>2, <3>1 DEF TooMany
  <2>3. CASE erred
    BY <1>4, <1>5, <2>1, <2>2, <2>3 DEF TooMany
  <2>4. CASE ~ erred
    <3>1. Walk
      BY <1>2, <2>4 DEF Next, Take, Destroyer, Begin, WalkFailed, OpenParent, DestroyItem, DestroyTarget, Other,
         next, walkVars, iterVars
    <3>2. CASE client = "get_rootref"
      <4>1. get_rootref
        BY <3>1, <3>2 DEF Walk
      <4> QED BY <1>2, <1>3, <1>5, <2>1, <2>2, <2>4, <3>2, <4>1, CallsErr
    <3>3. CASE client # "get_rootref"
      <4>1. IterStep
        BY <3>1, <3>3 DEF Walk
      <4>2. ent.id \in Home /\ ent.file = ent.id /\ Cardinality(Children(ent.file)) > RefMax
        BY <1>2, <1>3, <2>4, <3>3, <4>1, IterErr
      <4> QED BY <2>1, <2>2, <4>2
    <3> QED BY <3>2, <3>3
  <2> QED BY <2>3, <2>4
<1>6. CASE Begin \/ Walk \/ Take \/ WalkFailed \/ OpenParent
  <2>1. UNCHANGED <<vols, disturbed, outside>>
    <3>1. outside' = outside
      BY <1>6 DEF Begin, Walk, Take, WalkFailed, OpenParent, next, walkVars, iterVars,
         get_rootref, OpenPath, ListRefs, LookupRef, ReturnOk, IterStep, Pop, Exhausted, Expanded, List, Lookup, Open
    <3> QED BY <1>6, <3>1, StepsOf
  <2>2. CASE client = "destroy_all" /\ Walk
    <3>1. IterStep
      BY <2>2 DEF Walk
    <3>2. CASE erred
      <4>1. PICK v \in Home : TooMany(v)
        BY <1>4, <2>2, <3>2
      <4> QED BY <1>1, <1>3, <2>1, <2>2, <3>1, <4>1, TooManyWalks
    <3>3. CASE ~ erred
      BY <1>1, <1>2, <1>3, <2>1, <2>2, <3>1, <3>3, TooManyIs
    <3> QED BY <3>2, <3>3
  <2>3. CASE client = "destroy_all" /\ ~ Walk
    <3>1. /\ erred' = erred /\ UNCHANGED <<stack, refs, ent, yielded>>
          /\ (pc' = pc \/ (pc \in {"item", "error"} /\ pc' = "pop"))
      BY <1>6, <2>3 DEF Begin, Take, WalkFailed, OpenParent, next, walkVars, iterVars
    <3>2. pc \notin {"list", "lookup", "open"} /\ pc' \notin {"list", "lookup", "open"}
      BY <1>1, <1>6, <2>3 DEF Begin, Take, WalkFailed, OpenParent, next, walkVars, iterVars, ClientOK
    <3>3. PICK v \in Home : TooMany(v)
      BY <1>2, <1>4, <2>3, <3>1
    <3>4. Home' = Home /\ Children(v)' = Children(v)
      BY <2>1, HomeIs DEF Children, Moved
    <3>5. TooMany(v)'
      BY <1>1, <3>1, <3>2, <3>3, <3>4, TooManyRests
    <3> QED BY <3>3, <3>4, <3>5
  <2> QED BY <1>5, <2>1, <2>2, <2>3
<1>7. CASE DestroyItem
  <2>1. /\ UNCHANGED <<stack, refs, ent, yielded, erred>> /\ pc' = "pop" /\ step = "destroy"
        /\ pc = "item" /\ client = "destroy_all"
    BY <1>1, <1>7 DEF DestroyItem, next, ClientOK
  <2>2. PICK v \in Home : TooMany(v)
    BY <1>2, <1>4, <2>1
  <2>3. v \in Home' /\ Children(v)' = Children(v)
    <3>1. CASE UNCHANGED <<vols, disturbed>>
      BY <3>1, <2>2, HomeIs DEF Children, Moved
    <3>2. CASE ~ UNCHANGED <<vols, disturbed>>
      <4>1. PICK dir \in parent : SnapDestroy(dir, Last(ItemPath))
        BY <1>7, <3>2 DEF DestroyItem, SnapDestroyFails, Works, Fails, volumeVars
      <4>2. PICK d \in Named(dir, Last(ItemPath)) : Children(d) = {} /\ vols' = Without(d) /\ disturbed' = disturbed
        BY <4>1 DEF SnapDestroy
      <4>3. d \in Stable /\ Returned(d)
        BY <1>3, <2>1, <4>1, <4>2, DestroysReturned
      <4>4. d \in DOMAIN vols /\ d \notin Children(v)
        BY <1>1, <2>1, <2>2, <4>3, HomeFacts DEF TooMany, Seen
      <4> QED BY <1>1, <2>2, <4>2, <4>4, TooManyStays
    <3> QED BY <3>1, <3>2
  <2>4. TooMany(v)'
    BY <1>1, <2>1, <2>2, <2>3, TooManyRests
  <2> QED BY <2>3, <2>4
<1>8. CASE DestroyTarget
  <2>1. /\ UNCHANGED <<stack, refs, ent, yielded, erred, pc>> /\ pc = "none" /\ client = "destroy_all" /\ step = "iter"
    BY <1>8 DEF DestroyTarget, walkVars, iterVars
  <2>2. PICK v \in Home : TooMany(v)
    BY <1>2, <1>4, <2>1
  <2>3. UNCHANGED <<vols, disturbed>>
    <3>1. SUFFICES ASSUME SnapDestroy(Dir, TargetName) PROVE FALSE
      BY <1>8 DEF DestroyTarget, SnapDestroyFails, Works, Fails, volumeVars
    <3>2. PICK d \in Named(Dir, TargetName) : Children(d) = {}
      BY <3>1 DEF SnapDestroy
    <3>3. Target \in DOMAIN vols /\ vols[Target].parent = Dir /\ vols[Target].name = TargetName
      BY <1>1, <1>3, <2>1, InItsPlace
    <3>4. d = Target
      BY <1>1, <3>2, <3>3, NamesApart, TreeIsGood DEF Named, Children
    <3>5. ClosedIn(vols, {Target})
      BY <3>2, <3>4 DEF ClosedIn, Children
    <3>6. Subtree(Target) \subseteq {Target}
      BY <1>1, <3>5, VolumesAssumption, SubtreeFacts
    <3>7. v = Target
      BY <2>2, <3>6 DEF Home, Stable
    <3>8. Cardinality({}) > RefMax
      BY <2>2, <3>2, <3>4, <3>7 DEF TooMany
    <3> QED BY <3>8, FS_EmptySet, IterAssumption
  <2>4. Home' = Home /\ Children(v)' = Children(v)
    BY <2>3, HomeIs DEF Children, Moved
  <2>5. TooMany(v)'
    BY <1>1, <2>1, <2>2, <2>4, TooManyRests
  <2> QED BY <2>2, <2>4, <2>5
<1>9. CASE Other
  <2>1. changes' > 0
    BY <1>1, <1>9, OthersShift DEF Other, PlacesOK, destroyVars, Finished
  <2> QED BY <1>2, <2>1
<1> QED BY <1>6, <1>7, <1>8, <1>9 DEF Next, Destroyer

\* At first nothing has been returned, reported or opened.
LEMMA DestroyStart == Init => DestroyInv
<1>1. SUFFICES ASSUME Init PROVE DestroyInv
  OBVIOUS
<1>2. /\ stack = <<RootVol>> /\ ent = RootVol /\ refs = <<>> /\ pc = "pop" /\ yielded = <<>> /\ calls = <<>>
      /\ erred = FALSE /\ step = "start" /\ parent = {} /\ reported = {} /\ result = "none"
  BY <1>1 DEF Init, IterInit
<1>3. RootVol.id = Target
  BY RootVolIs
<1>4. Len(stack) = 1 /\ stack[1].id = Target /\ Len(yielded) = 0 /\ Len(refs) = 0 /\ Len(calls) = 0
  BY <1>2, <1>3
<1>5. ParentBelow /\ ParentRight /\ ParentNamed
  BY <1>2 DEF ParentBelow, ParentRight, ParentNamed
<1>6. Reported
  BY <1>4 DEF Reported
<1>7. Calm
  BY <1>2, <1>4 DEF Calm, Expanding, Home
<1>8. Quiet
  BY <1>2, <1>4 DEF Quiet, Returned
<1>9. Caused
  BY <1>2 DEF Caused
<1> QED BY <1>5, <1>6, <1>7, <1>8, <1>9 DEF DestroyInv

\* Nothing changes when nothing does.
LEMMA DestroyStutters ==
  ASSUME DestroyInv, UNCHANGED vars
  PROVE  DestroyInv'
<1>1. UNCHANGED <<volumeVars, walkVars, destroyVars>>
  BY DEF vars, walkVars, destroyVars
<1>2. UNCHANGED <<vols, disturbed, changes, stack, ent, refs, pc, yielded, erred, calls, outside>>
  BY <1>1 DEF volumeVars, walkVars, iterVars
<1>3. UNCHANGED <<client, step, parent, reported, result>>
  BY <1>1 DEF destroyVars
<1>4. /\ \A v : Children(v)' = Children(v)
      /\ Subtree(Target)' = Subtree(Target) /\ Stable' = Stable /\ Home' = Home
  <2>1. \A v : Children(v)' = Children(v)
    BY <1>2 DEF Children
  <2>2. Subtree(Target)' = Subtree(Target)
    BY <1>2 DEF Subtree, Children
  <2> QED BY <1>2, <2>1, <2>2, HomeIs DEF Moved
<1>5. ParentBelow'
  BY <1>2, <1>3, <1>4 DEF DestroyInv, ParentBelow, Near
<1>6. ParentRight'
  BY <1>2, <1>3, <1>4 DEF DestroyInv, ParentRight
<1>7. ParentNamed'
  <2>1. Resolve(Dir, Front(ItemPath))' = Resolve(Dir, Front(ItemPath))
    BY <1>2 DEF Resolve, Named, Children, ItemPath
  <2> QED BY <1>2, <1>3, <2>1 DEF DestroyInv, ParentNamed
<1>8. Reported'
  <2>1. \A path : Resolve(Target, Tail(path))' = Resolve(Target, Tail(path))
    BY <1>2 DEF Resolve, Named, Children
  <2> QED BY <1>2, <1>3, <1>4, <2>1 DEF DestroyInv, Reported
<1>9. Calm'
  BY <1>2, <1>3, <1>4 DEF DestroyInv, Calm, Expanding
<1>10. Quiet'
  BY <1>2, <1>3, <1>4 DEF DestroyInv, Quiet, Returned
<1>11. Caused'
  <2>1. \A v : Waiting(v)' <=> Waiting(v)
    BY <1>2 DEF Waiting, Listed
  <2>2. \A v : OnStack(v)' <=> OnStack(v)
    BY <1>2 DEF OnStack
  <2>3. \A v : Returned(v)' <=> Returned(v)
    BY <1>2 DEF Returned
  <2>4. \A v : Seen(v)' <=> Seen(v)
    BY <1>2, <2>2, <2>3 DEF Seen, InHand, Expanding, Listed
  <2>5. ASSUME NEW v, TooMany(v) PROVE TooMany(v)'
    BY <1>3, <1>4, <2>1, <2>2, <2>3, <2>4, <2>5 DEF TooMany
  <2> QED BY <1>2, <1>3, <1>4, <2>5 DEF DestroyInv, Caused
<1> QED BY <1>5, <1>6, <1>7, <1>8, <1>9, <1>10, <1>11 DEF DestroyInv

\* Every step keeps the invariant of destroy_all.
LEMMA DestroyStep ==
  ASSUME InDir, Inv, Inv', DestroyInv, Next
  PROVE  DestroyInv'
<1>0. TypeInv /\ TreeOK /\ ClientOK /\ PathsOK
  BY InvPaths DEF Inv, PlacesOK
<1>1. ParentBelow /\ ParentRight /\ ParentNamed /\ Reported /\ Calm /\ Quiet /\ Caused
  BY DEF DestroyInv
<1>2. ParentBelow' /\ ParentRight' /\ ParentNamed'
  BY <1>0, <1>1, BelowStep, ParentRightStep, ParentNamedStep
<1>3. Reported'
  BY <1>1, ReportedStep
<1>4. Calm' /\ Quiet'
  BY <1>1, CalmStep, QuietStep
<1>5. Caused'
  BY <1>1, CausedStep
<1> QED BY <1>2, <1>3, <1>4, <1>5 DEF DestroyInv

\* The invariant of destroy_all, called from the directory the subvolume is
\* in: what it destroys, what it reports, and what is gone when nothing
\* interferes with it; and the cause of an error of any of the walks.  When none
\* is left in its place what it destroys in is still below the subvolume, or
\* was moved.
THEOREM DestroyInvariant ==
  ASSUME InDir
  PROVE  Spec => []((Inv /\ DestroyInv) \/ (Lost /\ ParentBelow))
<1>1. Init => Inv /\ DestroyInv
  BY InitTypes, InitWalk, DestroyStart DEF Inv
<1>2. ASSUME Inv, DestroyInv, Next PROVE (Inv' /\ DestroyInv') \/ (Lost' /\ ParentBelow')
  <2>1. CASE Inv'
    BY <1>2, <2>1, DestroyStep
  <2>2. CASE Lost'
    <3>1. TypeInv /\ TreeOK /\ ClientOK /\ PathsOK /\ ParentBelow
      BY <1>2, InvPaths DEF Inv, PlacesOK, DestroyInv
    <3>2. ParentBelow'
      BY <1>2, <3>1, BelowStep
    <3> QED BY <2>2, <3>2
  <2> QED BY <1>2, <2>1, <2>2, InvStep
<1>3. ASSUME Lost, ParentBelow, Next PROVE Lost' /\ ParentBelow'
  <2>1. TypeInv /\ TreeOK /\ ClientOK /\ PathsOK
    BY <1>3 DEF Lost
  <2> QED BY <1>3, <2>1, LostStep, BelowStep
<1>4. ASSUME UNCHANGED vars PROVE /\ Inv /\ DestroyInv => Inv' /\ DestroyInv'
                                  /\ Lost /\ ParentBelow => Lost' /\ ParentBelow'
  <2>1. ParentBelow => ParentBelow'
    <3>1. vols' = vols /\ disturbed' = disturbed /\ parent' = parent
      BY <1>4 DEF vars, volumeVars
    <3>2. Subtree(Target)' = Subtree(Target)
      BY <3>1 DEF Subtree, Children
    <3> QED BY <3>1, <3>2 DEF ParentBelow, Near
  <2> QED BY <1>4, <2>1, WalkStutters, DestroyStutters
<1>5. ((Inv /\ DestroyInv) \/ (Lost /\ ParentBelow)) /\ [Next]_vars
        => ((Inv /\ DestroyInv) \/ (Lost /\ ParentBelow))'
  BY <1>2, <1>3, <1>4
<1> QED BY <1>1, <1>5, PTL DEF Spec

\* destroy_all destroys nothing but the subvolume and what is below it, and of
\* what is elsewhere only what others have moved or made since it began,
\* however they change the filesystem between its opening the directory of an
\* item and the ioctl: they may move out of the subvolume what it is about to
\* destroy, or the subvolume itself, and put another one in its place.
THEOREM DestroyBelow ==
  ASSUME InDir
  PROVE  Spec => DestroysOnlyBelow
<1>1. ASSUME (Inv /\ DestroyInv) \/ (Lost /\ ParentBelow), [Next]_vars
      PROVE  [Destroyer => \A c \in DOMAIN vols \ DOMAIN vols' : c \in Subtree(Target) \cup disturbed]_vars
  <2>1. TypeInv /\ TreeOK /\ ClientOK /\ PathsOK /\ ParentBelow
    BY <1>1, InvPaths DEF Inv, PlacesOK, Lost, DestroyInv
  <2>2. CASE Next
    BY <2>1, <2>2, BelowStep
  <2>3. CASE UNCHANGED vars
    BY <2>3
  <2> QED BY <1>1, <2>2, <2>3
<1> QED BY <1>1, DestroyInvariant, PTL DEF Spec, DestroysOnlyBelow

\* Without an error of the walk each subvolume that destroy_all left, and that
\* nobody disturbed, was reported by a path that leads to it.
THEOREM DestroyReports ==
  ASSUME InDir
  PROVE  Spec => []LeftIsReported
<1>1. Inv /\ DestroyInv => LeftIsReported
  <2>1. SUFFICES ASSUME Inv, DestroyInv, step = "done", pc = "none", ~ erred, Target \notin disturbed,
                        NEW CONSTANT c \in Stable
                 PROVE  \E path \in reported : Resolve(Dir, path) = {c}
    BY DEF LeftIsReported
  <2>2. PlacesType /\ TreeOK /\ WalkType /\ ClientOK /\ GoodBase(vols, Moved) /\ Target \in Ids
    BY <2>1, TreeIsGood, VolumesAssumption DEF Inv, PlacesOK, TypeInv
  <2>3. client = "destroy_all" /\ outside = {}
    BY <2>1, <2>2 DEF ClientOK
  <2>4. Returned(c)
    <3> DEFINE s == {x \in Subtree(Target) : x = Target \/ x \in disturbed \/ Returned(x)}
    <3>1. Target \in Subtree(Target) /\ ClosedIn(vols, Subtree(Target))
      BY <2>2, SubtreeFacts
    <3>2. ASSUME NEW CONSTANT y \in DOMAIN vols, vols[y].parent \in s PROVE y \in s
      <4>1. y \in Subtree(Target)
        BY <3>1, <3>2 DEF ClosedIn
      <4>2. CASE y \in disturbed \/ y = Target
        BY <4>1, <4>2
      <4>3. CASE y \notin disturbed /\ y # Target
        <5>1. y \in Stable
          BY <4>1, <4>3 DEF Stable
        <5>2. vols[y].parent \notin disturbed
          BY <2>1, <2>2, <4>3 DEF TreeOK, Moved
        <5>3. vols[y].parent = Target \/ Returned(vols[y].parent)
          BY <3>2, <5>2
        <5>4. ~ Hidden(y)
          BY <2>3 DEF Hidden
        <5>5. Returned(y)
          BY <2>1, <5>1, <5>3, <5>4, WalkDone
        <5> QED BY <4>1, <5>5
      <4> QED BY <4>2, <4>3
    <3>3. Target \in s
      BY <3>1
    <3> HIDE DEF s
    <3>4. ClosedIn(vols, s)
      BY <3>2 DEF ClosedIn
    <3>5. Subtree(Target) \subseteq s
      BY <2>2, <3>3, <3>4, SubtreeFacts
    <3> QED BY <3>5 DEF s, Stable
  <2>5. PICK path \in reported : path # <<>> /\ Head(path) = TargetName /\ c \in Resolve(Target, Tail(path))
    <3>1. PICK i \in 1 .. Len(yielded) : yielded[i].id = c
      BY <2>4 DEF Returned
    <3> QED BY <2>1, <2>3, <3>1 DEF DestroyInv, Reported
  <2>6. PICK tail \in Seq(Names) : tail = Tail(path) /\ path = <<TargetName>> \o tail
    <3>1. path \in Seq(Names)
      BY <2>2 DEF WalkType
    <3>2. path = <<Head(path)>> \o Tail(path) /\ Tail(path) \in Seq(Names)
      BY <2>5, <3>1
    <3> QED BY <2>5, <3>2
  <2>7. Target \in DOMAIN vols /\ vols[Target] = [parent |-> Dir, name |-> TargetName]
    <3>1. Target \in DOMAIN vols
      BY <2>2, TargetIsThere
    <3> QED BY <2>1, <2>2, <3>1 DEF TreeOK
  <2>8. Resolve(Dir, path) = Place(vols, Target, tail)
    <3>1. Place(vols, Dir, <<TargetName>> \o tail) = Place(vols, Target, tail)
      BY <2>2, <2>7, PlaceFromDir
    <3>2. Resolve(Dir, path) = Place(vols, Dir, path)
      BY DEF Resolve, Place, Steps, Named, Children, ChildrenOf
    <3> QED BY <2>6, <3>1, <3>2
  <2>9. c \in Place(vols, Target, tail)
    BY <2>5, <2>6, ResolveIsPlace
  <2>10. \A x, y \in Place(vols, Target, tail) : x = y
    BY <2>2, PlaceIsOne
  <2> QED BY <2>8, <2>9, <2>10
<1>2. Lost => LeftIsReported
  BY DEF Lost, LeftIsReported
<1> QED BY <1>1, <1>2, DestroyInvariant, PTL

\* When nothing interferes destroy_all destroys the subvolume and all that is
\* below it, and reports nothing.
THEOREM DestroyQuiet ==
  ASSUME InDir
  PROVE  Spec => []QuietDestroysAll
<1>1. Inv /\ DestroyInv => QuietDestroysAll
  BY DEF Inv, DestroyInv, ClientOK, Quiet, QuietDestroysAll
<1>2. Lost => QuietDestroysAll
  BY DEF Lost, QuietDestroysAll
<1> QED BY <1>1, <1>2, DestroyInvariant, PTL

\* When nothing interferes an error of a walk is one of a subvolume with more
\* children than the ioctl returns, which is still there; or, of get_rootref,
\* of one outside the directory it starts from.
THEOREM WalkErrorsHaveCauses ==
  ASSUME InDir
  PROVE  Spec => []ErrorsHaveCauses
<1>1. Inv /\ DestroyInv => ErrorsHaveCauses
  <2>1. SUFFICES ASSUME Inv, DestroyInv, erred, ~ (changes > 0)
                 PROVE  \/ \E v \in {Target} \cup DOMAIN vols : Cardinality(Children(v)) > RefMax
                        \/ client = "get_rootref" /\ \E v \in Children(Target) : vols[v].name \in outside
    BY DEF ErrorsHaveCauses
  <2>2. PlacesType /\ PlacesOK /\ changes = 0
    BY <2>1 DEF Inv, TypeInv, PlacesType
  <2>3. \A v \in Home : v \in {Target} \cup DOMAIN vols
    BY <2>2, HomeFacts
  <2> QED BY <2>1, <2>2, <2>3 DEF DestroyInv, Caused, TooMany
<1>2. Lost => ErrorsHaveCauses
  BY DEF Lost, ErrorsHaveCauses
<1> QED BY <1>1, <1>2, DestroyInvariant, PTL
=============================================================================

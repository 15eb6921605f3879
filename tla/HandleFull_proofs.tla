--------------------------- MODULE HandleFull_proofs ---------------------------
(***************************************************************************)
(* The handler changes nothing outside the subvolume of the current        *)
(* stream, whatever tree is there, whatever a sender of full streams        *)
(* sends, and at whatever step a call fails.                               *)
(*                                                                         *)
(* Every path given to a system call begins with the name of the           *)
(* subvolume, because both buffers do and current_subvol has their length. *)
(* That alone is not enough: a write through a name within the subvolume   *)
(* would show outside if the inode had a name there too, so the invariant  *)
(* also says that no inode has names on both sides (Apart).                *)
(*                                                                         *)
(* And when no write is short, it replays: beneath the name of the         *)
(* subvolume there is what the sender has (ReplayInv), by a match of the   *)
(* inodes of the two trees that each pair of calls carries on.             *)
(*                                                                         *)
(* First, what the system calls do to any tree.  What a call at a path     *)
(* below one top-level name does to the rest of a tree: nothing.  What it  *)
(* does beneath that name: when the same call is made in another tree,     *)
(* whose inodes have other numbers, and a correspondence of inodes (a      *)
(* match) held between that tree and what is beneath the name, the call    *)
(* succeeds in both or in neither, and one holds afterwards.               *)
(***************************************************************************)
EXTENDS HandleFull, FiniteSetTheorems, SequenceTheorems, TLAPS

Path == Seq(STRING)

-----------------------------------------------------------------------------
(* Paths.                                                                    *)

\* A sequence of one element.
LEMMA OneElement ==
  ASSUME NEW S, NEW e \in S
  PROVE  <<e>> \in Seq(S)
OBVIOUS

\* A name alone is a path.
LEMMA NameIsPath ==
  ASSUME NEW s \in STRING
  PROVE  <<s>> \in Path
BY OneElement DEF Path

\* p is the beginning of q, name by name.
LEMMA WithinByNames ==
  ASSUME NEW p \in Path, NEW q \in Path
  PROVE  Within(p, q) <=> Len(p) <= Len(q) /\ \A i \in 1 .. Len(p) : q[i] = p[i]
<1>1. Len(p) \in Nat /\ Len(q) \in Nat
  BY DEF Path
<1>2. ASSUME Len(p) <= Len(q)
      PROVE  /\ SubSeq(q, 1, Len(p)) \in Path /\ Len(SubSeq(q, 1, Len(p))) = Len(p)
             /\ \A i \in 1 .. Len(p) : SubSeq(q, 1, Len(p))[i] = q[i]
  BY <1>1, <1>2 DEF Path
<1>3. ASSUME Len(p) <= Len(q), \A i \in 1 .. Len(p) : q[i] = p[i]
      PROVE  SubSeq(q, 1, Len(p)) = p
  BY <1>2, <1>3, SeqEqual DEF Path
<1> QED BY <1>1, <1>2, <1>3 DEF Within

\* The parent of a path is one name shorter.
LEMMA ParentByNames ==
  ASSUME NEW p \in Path, p # <<>>
  PROVE  /\ Parent(p) \in Path /\ Len(Parent(p)) = Len(p) - 1 /\ Len(p) \in Nat \ {0}
         /\ \A i \in 1 .. (Len(p) - 1) : Parent(p)[i] = p[i]
         /\ Within(Parent(p), p) /\ Parent(p) # p
<1>1. Len(p) \in Nat \ {0}
  BY EmptySeq DEF Path
<1>2. /\ Parent(p) \in Path /\ Len(Parent(p)) = Len(p) - 1
      /\ \A i \in 1 .. (Len(p) - 1) : Parent(p)[i] = p[i]
  <2>1. \A i \in 1 .. (Len(p) - 1) : p[i] \in STRING
    BY <1>1 DEF Path
  <2>2. /\ SubSeq(p, 1, Len(p) - 1) \in Seq(STRING)
        /\ Len(SubSeq(p, 1, Len(p) - 1)) = IF 1 <= Len(p) - 1 THEN Len(p) - 1 - 1 + 1 ELSE 0
        /\ \A i \in 1 .. (Len(p) - 1 - 1 + 1) : SubSeq(p, 1, Len(p) - 1)[i] = p[1 + i - 1]
    BY <1>1, <2>1, SubSeqProperties
  <2>3. /\ Parent(p) \in Path /\ Len(Parent(p)) = Len(p) - 1
        /\ \A i \in 1 .. (Len(p) - 1 - 1 + 1) : Parent(p)[i] = p[1 + i - 1]
    <3>1. Parent(p) = SubSeq(p, 1, Len(p) - 1)
      BY DEF Parent
    <3>2. (IF 1 <= Len(p) - 1 THEN Len(p) - 1 - 1 + 1 ELSE 0) = Len(p) - 1
      BY <1>1
    <3>3. Len(Parent(p)) = Len(p) - 1
      BY <2>2, <3>1, <3>2
    <3>4. \A i \in 1 .. (Len(p) - 1 - 1 + 1) : Parent(p)[i] = p[1 + i - 1]
      BY <2>2, <3>1
    <3>5. Parent(p) \in Path
      BY <2>2, <3>1 DEF Path
    <3> QED BY <3>3, <3>4, <3>5
  <2>4. ASSUME NEW i \in 1 .. (Len(p) - 1) PROVE Parent(p)[i] = p[i]
    <3>1. i \in 1 .. (Len(p) - 1 - 1 + 1) /\ 1 + i - 1 = i
      BY <1>1
    <3> QED BY <2>3, <3>1
  <2> QED BY <2>3, <2>4
<1>3. Within(Parent(p), p)
  BY <1>1, <1>2, WithinByNames
<1> QED BY <1>1, <1>2, <1>3

\* Within is an order, and what is beneath a path is within or beneath it with
\* its parent.
LEMMA WithinOrder ==
  ASSUME NEW p \in Path, NEW q \in Path, NEW r \in Path
  PROVE  /\ Within(p, p)
         /\ Within(p, q) /\ Within(q, r) => Within(p, r)
         /\ Within(p, q) /\ Within(q, p) => p = q
         /\ q # <<>> /\ Beneath(p, q) => Within(p, Parent(q))
         /\ q # <<>> /\ Within(p, Parent(q)) => Beneath(p, q)
<1>1. Len(p) \in Nat /\ Len(q) \in Nat /\ Len(r) \in Nat
  BY DEF Path
<1>2. Within(p, p) /\ (Within(p, q) /\ Within(q, r) => Within(p, r))
  BY <1>1, WithinByNames
<1>3. Within(p, q) /\ Len(p) = Len(q) => p = q
  BY <1>1, WithinByNames, SeqEqual DEF Path
<1>4. Within(p, q) /\ Within(q, p) => p = q
  BY <1>1, <1>3, WithinByNames
<1>5. ASSUME q # <<>>, Beneath(p, q) PROVE Within(p, Parent(q))
  <2>1. Len(p) <= Len(q) - 1
    BY <1>1, <1>3, <1>5, WithinByNames DEF Beneath
  <2> QED BY <1>1, <1>5, <2>1, WithinByNames, ParentByNames DEF Beneath
<1>6. ASSUME q # <<>>, Within(p, Parent(q)) PROVE Beneath(p, q)
  BY <1>1, <1>6, WithinByNames, ParentByNames DEF Beneath
<1> QED BY <1>2, <1>4, <1>5, <1>6

\* Of several paths one is shortest.
LEMMA ShortestPath ==
  ASSUME NEW S, S \subseteq Path, S # {}
  PROVE  \E p \in S : \A q \in S : Len(p) <= Len(q)
<1> DEFINE Less == OpToRel(<, Nat)
           Lengths == {Len(p) : p \in S}
<1>1. IsWellFoundedOn(Less, Nat)
  BY NatLessThanWellFounded
<1>2. Lengths \subseteq Nat /\ Lengths # {}
  <2>1. \A p \in S : Len(p) \in Nat
    BY DEF Path
  <2> QED BY <2>1
<1>3. \A m, n \in Nat : <<m, n>> \in Less <=> m < n
  BY DEF OpToRel
<1> HIDE DEF Less
<1>4. PICK n \in Lengths : \A m \in Lengths : <<m, n>> \notin Less
  <2> HIDE DEF Lengths
  <2> QED BY <1>1, <1>2, WFMin
<1>5. PICK p \in S : Len(p) = n
  BY <1>4
<1>6. ASSUME NEW q \in S PROVE Len(p) <= Len(q)
  <2>1. Len(q) \in Lengths /\ Len(p) \in Nat /\ Len(q) \in Nat
    BY <1>2
  <2>2. ~ (Len(q) < Len(p))
    BY <1>3, <1>4, <1>5, <2>1
  <2> QED BY <2>1, <2>2
<1> QED BY <1>6

-----------------------------------------------------------------------------
(* Replacing the beginning a of a path by b: what Rename does to names.      *)

Replaced(q, a, b) == b \o SubSeq(q, Len(a) + 1, Len(q))

\* The new path name by name.
LEMMA ReplacedByNames ==
  ASSUME NEW a \in Path, NEW b \in Path, NEW q \in Path, Within(a, q)
  PROVE  /\ Replaced(q, a, b) \in Path /\ Within(b, Replaced(q, a, b))
         /\ Len(Replaced(q, a, b)) = Len(b) + (Len(q) - Len(a))
         /\ Len(a) \in Nat /\ Len(b) \in Nat /\ Len(q) \in Nat /\ Len(a) <= Len(q)
         /\ \A i \in 1 .. Len(b) : Replaced(q, a, b)[i] = b[i]
         /\ \A i \in 1 .. (Len(q) - Len(a)) : Replaced(q, a, b)[Len(b) + i] = q[Len(a) + i]
<1> DEFINE rest == SubSeq(q, Len(a) + 1, Len(q))
<1>1. Len(a) \in Nat /\ Len(b) \in Nat /\ Len(q) \in Nat /\ Len(a) <= Len(q)
  BY DEF Path, Within
<1>2. /\ rest \in Path /\ Len(rest) = Len(q) - Len(a)
      /\ \A i \in 1 .. (Len(q) - Len(a)) : rest[i] = q[Len(a) + i]
  BY <1>1 DEF Path
<1> HIDE DEF rest
<1>3. /\ b \o rest \in Path /\ Len(b \o rest) = Len(b) + Len(rest)
      /\ \A i \in 1 .. Len(b) : (b \o rest)[i] = b[i]
      /\ \A i \in 1 .. Len(rest) : (b \o rest)[Len(b) + i] = rest[i]
  <2>1. /\ b \o rest \in Path /\ Len(b \o rest) = Len(b) + Len(rest)
        /\ \A i \in 1 .. (Len(b) + Len(rest)) :
             (b \o rest)[i] = IF i <= Len(b) THEN b[i] ELSE rest[i - Len(b)]
    BY <1>2, ConcatProperties DEF Path
  <2>2. ASSUME NEW i \in 1 .. Len(rest) PROVE (b \o rest)[Len(b) + i] = rest[i]
    <3>1. Len(b) + i \in 1 .. (Len(b) + Len(rest)) /\ ~ (Len(b) + i <= Len(b)) /\ (Len(b) + i) - Len(b) = i
      BY <1>1, <1>2
    <3> QED BY <2>1, <3>1
  <2> QED BY <1>1, <1>2, <2>1, <2>2
<1>4. Replaced(q, a, b) = b \o rest
  BY DEF Replaced, rest
<1>5. Within(b, b \o rest)
  <2>1. PICK c \in Path : c = b \o rest
    BY <1>3
  <2>2. Len(b) <= Len(c) /\ \A i \in 1 .. Len(b) : c[i] = b[i]
    BY <1>1, <1>2, <1>3, <2>1
  <2> QED BY <2>1, <2>2, WithinByNames
<1> QED BY <1>1, <1>2, <1>3, <1>4, <1>5

\* Back again, and its parent.
LEMMA ReplacedBack ==
  ASSUME NEW a \in Path, NEW b \in Path, NEW q \in Path, Within(a, q)
  PROVE  /\ Replaced(Replaced(q, a, b), b, a) = q
         /\ Replaced(a, a, b) = b
         /\ Replaced(q, a, b) = b => q = a
         /\ q # <<>> /\ Replaced(q, a, b) # <<>> /\ Beneath(a, q) =>
                Parent(Replaced(q, a, b)) = Replaced(Parent(q), a, b)
<1> DEFINE m == Replaced(q, a, b)
<1>1. /\ m \in Path /\ Within(b, m) /\ Len(m) = Len(b) + (Len(q) - Len(a))
      /\ Len(a) \in Nat /\ Len(b) \in Nat /\ Len(q) \in Nat /\ Len(a) <= Len(q)
      /\ \A i \in 1 .. Len(b) : m[i] = b[i]
      /\ \A i \in 1 .. (Len(q) - Len(a)) : m[Len(b) + i] = q[Len(a) + i]
  BY ReplacedByNames
<1>2. Replaced(m, b, a) = q
  <2> DEFINE l == Replaced(m, b, a)
  <2> HIDE DEF m
  <2>1. /\ l \in Path /\ Len(l) = Len(a) + (Len(m) - Len(b))
        /\ \A i \in 1 .. Len(a) : l[i] = a[i]
        /\ \A i \in 1 .. (Len(m) - Len(b)) : l[Len(a) + i] = m[Len(b) + i]
    BY <1>1, ReplacedByNames
  <2>2. \A i \in 1 .. Len(a) : q[i] = a[i]
    BY WithinByNames
  <2>3. Len(l) = Len(q)
    BY <1>1, <2>1
  <2>4. ASSUME NEW i \in 1 .. Len(q) PROVE l[i] = q[i]
    <3>1. CASE i <= Len(a)
      BY <1>1, <2>1, <2>2, <3>1
    <3>2. CASE Len(a) < i
      <4>1. i - Len(a) \in 1 .. (Len(q) - Len(a)) /\ Len(a) + (i - Len(a)) = i
        BY <1>1, <3>2
      <4>2. Len(m) - Len(b) = Len(q) - Len(a)
        BY <1>1
      <4>3. l[Len(a) + (i - Len(a))] = m[Len(b) + (i - Len(a))]
        BY <2>1, <4>1, <4>2
      <4>4. m[Len(b) + (i - Len(a))] = q[Len(a) + (i - Len(a))]
        BY <1>1, <4>1
      <4> QED BY <4>1, <4>3, <4>4
    <3> QED BY <1>1, <3>1, <3>2
  <2> HIDE DEF l
  <2>5. l = q
    BY <2>1, <2>3, <2>4, SeqEqual DEF Path
  <2> QED BY <2>5 DEF l
<1>3. Replaced(a, a, b) = b
  <2>1. Within(a, a)
    BY WithinOrder
  <2>2. /\ Replaced(a, a, b) \in Path /\ Len(Replaced(a, a, b)) = Len(b)
        /\ \A i \in 1 .. Len(b) : Replaced(a, a, b)[i] = b[i]
    <3>1. /\ Replaced(a, a, b) \in Path
          /\ Len(Replaced(a, a, b)) = Len(b) + (Len(a) - Len(a))
          /\ \A i \in 1 .. Len(b) : Replaced(a, a, b)[i] = b[i]
      BY <2>1, ReplacedByNames
    <3> QED BY <1>1, <3>1
  <2> QED BY <2>2, SeqEqual DEF Path
<1>4. m = b => q = a
  <2>1. m = b => Len(q) = Len(a)
    BY <1>1
  <2> QED BY <2>1, WithinByNames, SeqEqual DEF Path
<1>5. ASSUME q # <<>>, m # <<>>, Beneath(a, q)
      PROVE  Parent(m) = Replaced(Parent(q), a, b)
  <2> DEFINE l == Replaced(Parent(q), a, b)
  <2>1. Within(a, Parent(q))
    BY <1>5, WithinOrder
  <2>2. /\ Parent(q) \in Path /\ Len(Parent(q)) = Len(q) - 1
        /\ \A i \in 1 .. (Len(q) - 1) : Parent(q)[i] = q[i]
    BY <1>5, ParentByNames
  <2>3. /\ l \in Path /\ Len(l) = Len(b) + ((Len(q) - 1) - Len(a)) /\ Len(a) <= Len(q) - 1
        /\ \A i \in 1 .. Len(b) : l[i] = b[i]
        /\ \A i \in 1 .. ((Len(q) - 1) - Len(a)) : l[Len(b) + i] = Parent(q)[Len(a) + i]
    <3>1. /\ l \in Path /\ Len(l) = Len(b) + (Len(Parent(q)) - Len(a)) /\ Len(a) <= Len(Parent(q))
          /\ \A i \in 1 .. Len(b) : l[i] = b[i]
          /\ \A i \in 1 .. (Len(Parent(q)) - Len(a)) : l[Len(b) + i] = Parent(q)[Len(a) + i]
      BY <2>1, <2>2, ReplacedByNames
    <3> HIDE DEF l
    <3> QED BY <2>2, <3>1
  <2> HIDE DEF m, l
  <2>4. /\ Parent(m) \in Path /\ Len(Parent(m)) = Len(m) - 1
        /\ \A i \in 1 .. (Len(m) - 1) : Parent(m)[i] = m[i]
    BY <1>1, <1>5, ParentByNames
  <2>5. Len(Parent(m)) = Len(l)
    BY <1>1, <2>3, <2>4
  <2>6. ASSUME NEW i \in 1 .. Len(l) PROVE Parent(m)[i] = l[i]
    <3>1. i \in 1 .. (Len(m) - 1) /\ Parent(m)[i] = m[i]
      BY <1>1, <2>3, <2>4
    <3>2. CASE i <= Len(b)
      BY <1>1, <2>3, <3>1, <3>2
    <3>3. CASE Len(b) < i
      <4> DEFINE j == i - Len(b)
      <4>1. j \in 1 .. ((Len(q) - 1) - Len(a)) /\ Len(b) + j = i
        BY <1>1, <2>3, <3>3
      <4>2. j \in 1 .. (Len(q) - Len(a)) /\ Len(a) + j \in 1 .. (Len(q) - 1)
        BY <1>1, <2>3, <4>1
      <4>3. l[i] = q[Len(a) + j]
        BY <2>2, <2>3, <4>1, <4>2
      <4>4. m[i] = q[Len(a) + j]
        BY <1>1, <4>1, <4>2
      <4> QED BY <3>1, <4>3, <4>4
    <3> QED BY <1>1, <2>3, <3>2, <3>3
  <2>7. Parent(m) = l
    BY <2>3, <2>4, <2>5, <2>6, SeqEqual DEF Path
  <2> QED BY <2>7 DEF l
<1> QED BY <1>2, <1>3, <1>4, <1>5

-----------------------------------------------------------------------------
(* Trees.                                                                    *)

\* Every name has a path, an inode, and a parent that is a directory.
LEMMA TreeParts ==
  ASSUME NEW t, IsTree(t)
  PROVE  /\ DOMAIN t.names \subseteq Path
         /\ \A p \in DOMAIN t.names :
              /\ p # <<>> /\ IsDir(t, Parent(p))
              /\ t.names[p] \in DOMAIN t.nodes /\ Node(t, p) = t.nodes[t.names[p]]
  BY DEF IsTree, Path, Node

\* Nothing is beneath what is not a directory.
LEMMA NothingBeneath ==
  ASSUME NEW t, IsTree(t), NEW p \in Path, ~ IsDir(t, p)
  PROVE  \A q \in DOMAIN t.names : ~ Beneath(p, q)
<1> DEFINE S == {q \in DOMAIN t.names : Beneath(p, q)}
<1>1. SUFFICES ASSUME S # {} PROVE FALSE
  OBVIOUS
<1>2. S \subseteq Path
  BY TreeParts
<1>3. PICK q \in S : \A r \in S : Len(q) <= Len(r)
  <2> HIDE DEF S
  <2> QED BY <1>1, <1>2, ShortestPath
<1>4. q \in DOMAIN t.names /\ q \in Path /\ q # <<>> /\ IsDir(t, Parent(q)) /\ Beneath(p, q)
  BY TreeParts
<1>5. /\ Within(p, Parent(q)) /\ Parent(q) \in Path
      /\ Len(Parent(q)) = Len(q) - 1 /\ Len(q) \in Nat
  BY <1>4, WithinOrder, ParentByNames
<1>6. Parent(q) # p
  BY <1>4
<1>7. Parent(q) # <<>>
  <2>1. SUFFICES ASSUME Parent(q) = <<>> PROVE FALSE
    OBVIOUS
  <2>2. Len(p) = 0
    <3>1. Len(p) <= Len(Parent(q))
      BY <1>5 DEF Within
    <3>2. Len(<<>>) = 0
      OBVIOUS
    <3>3. Len(p) \in Nat
      BY DEF Path
    <3> QED BY <2>1, <3>1, <3>2, <3>3
  <2>3. p = <<>>
    BY <2>2, EmptySeq DEF Path
  <2> QED BY <2>3 DEF IsDir
<1>8. Parent(q) \in S
  BY <1>4, <1>5, <1>6, <1>7 DEF IsDir, Exists, Beneath
<1>9. Len(q) <= Len(Parent(q))
  <2> HIDE DEF S
  <2> QED BY <1>3, <1>8
<1> QED BY <1>5, <1>9

\* Unused is an inode that is not in use.
LEMMA UnusedIsUnused ==
  ASSUME NEW t, IsTree(t)
  PROVE  Unused(t) \in Nat /\ Unused(t) \notin DOMAIN t.nodes
<1> DEFINE used == DOMAIN t.nodes
           some == 1 .. Cardinality(used) + 1
<1>1. IsFiniteSet(used) /\ Cardinality(used) \in Nat
  BY FS_CardinalityType DEF IsTree
<1>2. IsFiniteSet(some) /\ Cardinality(some) = Cardinality(used) + 1
  <2> HIDE DEF used
  <2>1. Cardinality(used) + 1 \in Int /\ 1 \in Int /\ 1 <= Cardinality(used) + 1
    BY <1>1
  <2> QED BY <1>1, <2>1, FS_Interval
<1>3. \E i \in some : i \notin used
  <2>1. SUFFICES ASSUME some \subseteq used PROVE FALSE
    OBVIOUS
  <2> HIDE DEF used, some
  <2>2. Cardinality(some) <= Cardinality(used)
    BY <1>1, <2>1, FS_Subset
  <2> QED BY <1>1, <1>2, <2>2
<1>4. Unused(t) \in some /\ Unused(t) \notin used
  BY <1>3 DEF Unused
<1> QED BY <1>1, <1>4

-----------------------------------------------------------------------------
(* The part of a tree at and below one of its top-level names.               *)

\* No inode has names both within s and outside.
Apart(t, s) ==
    \A p, q \in DOMAIN t.names :
        Within(<<s>>, p) /\ ~ Within(<<s>>, q) => t.names[p] # t.names[q]

\* The rest is as it was.
Kept(t, u, s) ==
    \A q : ~ Within(<<s>>, q) =>
        /\ q \in DOMAIN u.names <=> q \in DOMAIN t.names
        /\ q \in DOMAIN t.names => u.names[q] = t.names[q] /\ Node(u, q) = Node(t, q)

\* What Kept says in terms of Outside.
LEMMA KeptOutside ==
  ASSUME NEW t, NEW u, NEW s, Kept(t, u, s)
  PROVE  Outside(u, <<s>>) = Outside(t, <<s>>)
<1>1. {r \in DOMAIN u.names : ~ Within(<<s>>, r)} = {r \in DOMAIN t.names : ~ Within(<<s>>, r)}
  BY DEF Kept
<1>2. \A q \in {r \in DOMAIN t.names : ~ Within(<<s>>, r)} :
        <<q, u.names[q], Node(u, q)>> = <<q, t.names[q], Node(t, q)>>
  BY DEF Kept
<1> QED BY <1>1, <1>2 DEF Outside

\* A directory with the same name and kind is still one.
LEMMA DirKept ==
  ASSUME NEW t, NEW u, NEW p, IsDir(t, p),
         p \in DOMAIN t.names => p \in DOMAIN u.names /\ Node(u, p).kind = Node(t, p).kind
  PROVE  IsDir(u, p)
  BY DEF IsDir, Exists
-----------------------------------------------------------------------------
(* What the calls do.                                                        *)

\* p is a new name.
Added(t, u, p) ==
    /\ p \notin DOMAIN t.names /\ DOMAIN u.names = DOMAIN t.names \cup {p}
    /\ \A q \in DOMAIN t.names : u.names[q] = t.names[q] /\ Node(u, q) = Node(t, q)

\* The name p is gone.
Taken(t, u, p) ==
    /\ DOMAIN u.names = DOMAIN t.names \ {p}
    /\ \A q \in DOMAIN u.names : u.names[q] = t.names[q] /\ Node(u, q) = Node(t, q)

\* What p is bound to is node.
Changed(t, u, p, node) ==
    /\ u.names = t.names
    /\ \A q \in DOMAIN t.names :
          Node(u, q) = IF t.names[q] = t.names[p] THEN node ELSE Node(t, q)

\* Names at and below old are names at and below new.
Renamed(t, u, old, new) ==
    LET Now(q) == IF Within(old, q) THEN Replaced(q, old, new) ELSE q IN
    /\ old \in DOMAIN t.names /\ old # <<>> /\ new # <<>> /\ ~ Within(old, new)
    /\ \A q \in DOMAIN t.names : ~ Within(new, q)
    /\ \A q \in DOMAIN t.names :
          Now(q) \in DOMAIN u.names /\ u.names[Now(q)] = t.names[q] /\ Node(u, Now(q)) = Node(t, q)
    /\ \A m \in DOMAIN u.names : \E q \in DOMAIN t.names : m = Now(q)

IsNode(n) == n = [kind |-> n.kind, content |-> n.content, xattr |-> n.xattr, meta |-> n.meta]

\* Nodes keep their shape when new names are bound.
LEMMA NodesOf ==
  ASSUME NEW t, IsTree(t)
  PROVE  /\ t = [names |-> t.names, nodes |-> t.nodes]
         /\ t.names = [p \in DOMAIN t.names |-> t.names[p]]
         /\ t.nodes = [i \in DOMAIN t.nodes |-> t.nodes[i]]
         /\ \A i \in DOMAIN t.nodes : IsNode(t.nodes[i])
  BY DEF IsTree, IsNode

\* Replacing one part of a tree.
LEMMA Replacing ==
  ASSUME NEW N, NEW D, NEW x, NEW i
  PROVE  /\ [[names |-> N, nodes |-> D] EXCEPT !.names = x] = [names |-> x, nodes |-> D]
         /\ [[names |-> N, nodes |-> D] EXCEPT !.nodes[i] = x] = [names |-> N, nodes |-> [D EXCEPT ![i] = x]]
  OBVIOUS

\* A tree, from its parts.
LEMMA TreeFromParts ==
  ASSUME NEW names, NEW nodes, NEW u, u = [names |-> names, nodes |-> nodes],
         names = [p \in DOMAIN names |-> names[p]], nodes = [i \in DOMAIN nodes |-> nodes[i]],
         \A p \in DOMAIN names : p \in Path /\ p # <<>> /\ names[p] \in DOMAIN nodes /\ IsDir(u, Parent(p)),
         \A i \in DOMAIN nodes : IsNode(nodes[i]),
         DOMAIN nodes \subseteq Nat, IsFiniteSet(DOMAIN nodes)
  PROVE  IsTree(u)
<1>1. u.names = names /\ u.nodes = nodes
  OBVIOUS
<1>2. names \in [DOMAIN names -> DOMAIN nodes]
  OBVIOUS
<1>3. nodes = [i \in DOMAIN nodes |->
                 [kind |-> nodes[i].kind, content |-> nodes[i].content,
                  xattr |-> nodes[i].xattr, meta |-> nodes[i].meta]]
  BY DEF IsNode
<1> QED BY <1>1, <1>2, <1>3 DEF IsTree, Path

\* Create adds a name for a new inode.
LEMMA CreateEffect ==
  ASSUME NEW t, IsTree(t), NEW p \in Path,
         NEW node, IsNode(node), NEW u \in Create(t, p, node)
  PROVE  /\ IsTree(u)
         /\ Added(t, u, p) /\ Node(u, p) = node
         /\ \A q \in DOMAIN t.names : u.names[q] # u.names[p]
<1> DEFINE i     == Unused(t)
           names == Bind(t.names, p, i)
           nodes == Bind(t.nodes, i, node)
<1>1. Free(t, p) /\ u = [names |-> names, nodes |-> nodes]
  BY DEF Create, When
<1>2. i \in Nat /\ i \notin DOMAIN t.nodes /\ p \notin DOMAIN t.names /\ p # <<>> /\ IsDir(t, Parent(p))
  BY <1>1, UnusedIsUnused DEF Free, Exists
<1> HIDE DEF i
<1>3. /\ DOMAIN names = DOMAIN t.names \cup {p} /\ names[p] = i
      /\ \A q \in DOMAIN t.names : names[q] = t.names[q]
      /\ DOMAIN nodes = DOMAIN t.nodes \cup {i} /\ nodes[i] = node
      /\ \A j \in DOMAIN t.nodes : nodes[j] = t.nodes[j]
      /\ names = [q \in DOMAIN names |-> names[q]] /\ nodes = [j \in DOMAIN nodes |-> nodes[j]]
  BY <1>2 DEF Bind
<1> HIDE DEF names, nodes
<1>4. u.names = names /\ u.nodes = nodes
  BY <1>1
<1>5. \A q \in DOMAIN t.names : Node(u, q) = Node(t, q)
  BY <1>3, <1>4, TreeParts DEF Node
<1>6. \A q : IsDir(t, q) => IsDir(u, q)
  BY <1>3, <1>4, <1>5 DEF IsDir, Exists
<1>7. IsTree(u)
  <2>1. \A q \in DOMAIN names : q \in Path /\ q # <<>> /\ names[q] \in DOMAIN nodes /\ IsDir(u, Parent(q))
    BY <1>2, <1>3, <1>6, TreeParts
  <2>2. \A j \in DOMAIN nodes : IsNode(nodes[j])
    BY <1>3, NodesOf
  <2>3. DOMAIN nodes \subseteq Nat /\ IsFiniteSet(DOMAIN nodes)
    BY <1>2, <1>3, FS_AddElement DEF IsTree
  <2> QED BY <1>1, <1>3, <2>1, <2>2, <2>3, TreeFromParts
<1>8. Node(u, p) = node
  BY <1>3, <1>4 DEF Node
<1>9. \A q \in DOMAIN t.names : u.names[q] # u.names[p]
  BY <1>2, <1>3, <1>4, TreeParts
<1> QED BY <1>2, <1>3, <1>4, <1>5, <1>7, <1>8, <1>9 DEF Added

\* Link adds a name for an inode that has one.
LEMMA LinkEffect ==
  ASSUME NEW t, IsTree(t), NEW old \in Path, NEW p \in Path, NEW u \in Link(t, old, p)
  PROVE  /\ IsTree(u)
         /\ old \in DOMAIN t.names /\ Added(t, u, p)
         /\ u.names[p] = t.names[old] /\ Node(u, p) = Node(t, old)
<1> DEFINE i     == t.names[old]
           names == Bind(t.names, p, i)
<1>1. /\ Free(t, p) /\ old \in DOMAIN t.names
      /\ u = [t EXCEPT !.names = names]
  BY DEF Link, When, Exists
<1>2. u = [names |-> names, nodes |-> t.nodes]
  <2> HIDE DEF names
  <2>1. PICK N, D : t = [names |-> N, nodes |-> D]
    BY NodesOf
  <2>2. [t EXCEPT !.names = names] = [names |-> names, nodes |-> D]
    BY <2>1, Replacing
  <2>3. t.nodes = D
    BY <2>1
  <2> QED BY <1>1, <2>2, <2>3
<1>3. i \in DOMAIN t.nodes /\ p \notin DOMAIN t.names /\ p # <<>> /\ IsDir(t, Parent(p))
  BY <1>1, TreeParts DEF Free, Exists
<1> HIDE DEF i
<1>4. /\ DOMAIN names = DOMAIN t.names \cup {p} /\ names[p] = i
      /\ \A q \in DOMAIN t.names : names[q] = t.names[q]
      /\ names = [q \in DOMAIN names |-> names[q]]
  BY <1>3 DEF Bind
<1> HIDE DEF names
<1>5. u.names = names /\ u.nodes = t.nodes
  BY <1>2
<1>6. \A q \in DOMAIN t.names : Node(u, q) = Node(t, q)
  BY <1>4, <1>5 DEF Node
<1>7. \A q : IsDir(t, q) => IsDir(u, q)
  BY <1>4, <1>5, <1>6 DEF IsDir, Exists
<1>8. IsTree(u)
  <2>1. \A q \in DOMAIN names : q \in Path /\ q # <<>> /\ names[q] \in DOMAIN t.nodes /\ IsDir(u, Parent(q))
    BY <1>3, <1>4, <1>7, TreeParts
  <2>2. DOMAIN t.nodes \subseteq Nat /\ IsFiniteSet(DOMAIN t.nodes)
    BY DEF IsTree
  <2>3. t.nodes = [j \in DOMAIN t.nodes |-> t.nodes[j]] /\ \A j \in DOMAIN t.nodes : IsNode(t.nodes[j])
    BY NodesOf
  <2> QED BY <1>2, <1>4, <2>1, <2>2, <2>3, TreeFromParts
<1>9. u.names[p] = t.names[old] /\ Node(u, p) = Node(t, old)
  BY <1>4, <1>5 DEF Node, i
<1> QED BY <1>1, <1>3, <1>4, <1>5, <1>6, <1>8, <1>9 DEF Added

\* Unlink and rmdir take a name away that nothing is beneath.
LEMMA RemoveEffect ==
  ASSUME NEW t, IsTree(t), NEW p \in Path, p \in DOMAIN t.names,
         \A q \in DOMAIN t.names : ~ Beneath(p, q),
         NEW u, u = Named(Restrict(t.names, DOMAIN t.names \ {p}), t.nodes)
  PROVE  IsTree(u) /\ Taken(t, u, p)
<1> DEFINE names == Restrict(t.names, DOMAIN t.names \ {p})
           nodes == Restrict(t.nodes, Range(names))
<1>1. u = [names |-> names, nodes |-> nodes]
  BY DEF Named
<1>2. /\ DOMAIN names = DOMAIN t.names \ {p}
      /\ \A q \in DOMAIN names : names[q] = t.names[q]
      /\ names = [q \in DOMAIN names |-> names[q]]
  BY DEF Restrict
<1> HIDE DEF names
<1>3. /\ DOMAIN nodes = {names[q] : q \in DOMAIN names}
      /\ \A j \in DOMAIN nodes : nodes[j] = t.nodes[j]
      /\ nodes = [j \in DOMAIN nodes |-> nodes[j]]
  BY DEF Restrict, Range
<1> HIDE DEF nodes
<1>4. u.names = names /\ u.nodes = nodes
  BY <1>1
<1>5. \A q \in DOMAIN names : names[q] \in DOMAIN nodes /\ Node(u, q) = Node(t, q)
  BY <1>2, <1>3, <1>4 DEF Node
<1>6. \A q : IsDir(t, q) /\ q # p => IsDir(u, q)
  BY <1>2, <1>4, <1>5 DEF IsDir, Exists
<1>7. DOMAIN nodes \subseteq DOMAIN t.nodes
  BY <1>2, <1>3, TreeParts
<1>8. IsTree(u)
  <2>1. ASSUME NEW q \in DOMAIN names
        PROVE  q \in Path /\ q # <<>> /\ names[q] \in DOMAIN nodes /\ IsDir(u, Parent(q))
    <3>1. q \in DOMAIN t.names /\ q \in Path /\ q # <<>> /\ IsDir(t, Parent(q))
      BY <1>2, TreeParts
    <3>2. Within(Parent(q), q) /\ Parent(q) # q
      BY <3>1, ParentByNames
    <3>3. Parent(q) # p
      BY <3>1, <3>2 DEF Beneath
    <3> QED BY <1>5, <1>6, <3>1, <3>3
  <2>2. \A j \in DOMAIN nodes : IsNode(nodes[j])
    BY <1>3, <1>7, NodesOf
  <2>3. DOMAIN nodes \subseteq Nat /\ IsFiniteSet(DOMAIN nodes)
    BY <1>7, FS_Subset DEF IsTree
  <2> QED BY <1>1, <1>2, <1>3, <2>1, <2>2, <2>3, TreeFromParts
<1> QED BY <1>2, <1>4, <1>5, <1>8 DEF Taken

\* Unlink.
LEMMA UnlinkEffect ==
  ASSUME NEW t, IsTree(t), NEW p \in Path, NEW u \in Unlink(t, p)
  PROVE  IsTree(u) /\ p \in DOMAIN t.names /\ Taken(t, u, p)
<1>1. /\ p \in DOMAIN t.names /\ ~ IsDir(t, p)
      /\ u = Named(Restrict(t.names, DOMAIN t.names \ {p}), t.nodes)
  BY DEF Unlink, When, Exists
<1> QED BY <1>1, NothingBeneath, RemoveEffect

\* Rmdir.
LEMMA RmdirEffect ==
  ASSUME NEW t, IsTree(t), NEW p \in Path, NEW u \in Rmdir(t, p)
  PROVE  IsTree(u) /\ p \in DOMAIN t.names /\ Taken(t, u, p)
<1>1. /\ p \in DOMAIN t.names /\ \A q \in DOMAIN t.names : ~ Beneath(p, q)
      /\ u = Named(Restrict(t.names, DOMAIN t.names \ {p}), t.nodes)
  BY DEF Rmdir, When, Exists
<1> QED BY <1>1, RemoveEffect

\* Change of a node that stays of its kind.
LEMMA ChangeEffect ==
  ASSUME NEW t, IsTree(t), NEW p \in Path, NEW node,
         p \in DOMAIN t.names => IsNode(node) /\ node.kind = Node(t, p).kind,
         NEW u \in Change(t, p, node)
  PROVE  IsTree(u) /\ p \in DOMAIN t.names /\ Changed(t, u, p, node)
<1> DEFINE i     == t.names[p]
           nodes == [t.nodes EXCEPT ![i] = node]
<1>1. p \in DOMAIN t.names /\ u = [t EXCEPT !.nodes[i] = node]
  BY DEF Change, When, Exists
<1>2. u = [names |-> t.names, nodes |-> nodes]
  <2> HIDE DEF i
  <2>1. PICK N, D : t = [names |-> N, nodes |-> D]
    BY NodesOf
  <2>2. [t EXCEPT !.nodes[i] = node] = [names |-> N, nodes |-> [D EXCEPT ![i] = node]]
    BY <2>1, Replacing
  <2>3. t.names = N /\ t.nodes = D
    BY <2>1
  <2> QED BY <1>1, <2>2, <2>3
<1>3. i \in DOMAIN t.nodes /\ Node(t, p) = t.nodes[i]
  BY <1>1, TreeParts
<1>4. /\ DOMAIN nodes = DOMAIN t.nodes /\ nodes[i] = node
      /\ \A j \in DOMAIN t.nodes \ {i} : nodes[j] = t.nodes[j]
      /\ nodes = [j \in DOMAIN nodes |-> nodes[j]]
  BY <1>3, NodesOf
<1> HIDE DEF nodes
<1>5. u.names = t.names /\ u.nodes = nodes
  BY <1>2
<1>6. /\ \A q \in DOMAIN t.names : Node(u, q).kind = Node(t, q).kind
      /\ \A q \in DOMAIN t.names : t.names[q] # i => Node(u, q) = Node(t, q)
  BY <1>1, <1>3, <1>4, <1>5, TreeParts DEF Node
<1>7. \A q : IsDir(t, q) => IsDir(u, q)
  BY <1>5, <1>6 DEF IsDir, Exists
<1>8. IsTree(u)
  <2>1. \A q \in DOMAIN t.names : q \in Path /\ q # <<>> /\ t.names[q] \in DOMAIN nodes /\ IsDir(u, Parent(q))
    BY <1>4, <1>7, TreeParts
  <2>2. \A j \in DOMAIN nodes : IsNode(nodes[j])
    BY <1>1, <1>4, NodesOf
  <2>3. DOMAIN nodes \subseteq Nat /\ IsFiniteSet(DOMAIN nodes)
    BY <1>4 DEF IsTree
  <2>4. t.names = [q \in DOMAIN t.names |-> t.names[q]]
    BY NodesOf
  <2> QED BY <1>2, <1>4, <2>1, <2>2, <2>3, <2>4, TreeFromParts
<1>9. \A q \in DOMAIN t.names : t.names[q] = i => Node(u, q) = node
  BY <1>4, <1>5 DEF Node
<1> QED BY <1>1, <1>5, <1>6, <1>8, <1>9 DEF Changed

\* Rename moves a name and what is beneath it.
LEMMA RenameEffect ==
  ASSUME NEW t, IsTree(t), NEW old \in Path, NEW new \in Path, NEW u \in Rename(t, old, new)
  PROVE  IsTree(u) /\ Renamed(t, u, old, new)
<1> DEFINE moved    == {q \in DOMAIN t.names : Within(old, q)}
           Moved(q) == Replaced(q, old, new)
           Was(q)   == IF Within(new, q) THEN Replaced(q, new, old) ELSE q
           after    == (DOMAIN t.names \ moved) \cup {Moved(q) : q \in moved}
           names    == [q \in after |-> t.names[Was(q)]]
<1>1. /\ old \in DOMAIN t.names /\ Free(t, new) /\ ~ Within(old, new)
      /\ u = [t EXCEPT !.names = names]
  BY DEF Rename, When, Exists, Replaced
<1>2. u = [names |-> names, nodes |-> t.nodes]
  <2> HIDE DEF names
  <2>1. PICK N, D : t = [names |-> N, nodes |-> D]
    BY NodesOf
  <2>2. [t EXCEPT !.names = names] = [names |-> names, nodes |-> D]
    BY <2>1, Replacing
  <2>3. t.nodes = D
    BY <2>1
  <2> QED BY <1>1, <2>2, <2>3
<1>3. u.names = names /\ u.nodes = t.nodes /\ DOMAIN names = after
  BY <1>2
<1>4. /\ old # <<>> /\ new # <<>> /\ new \notin DOMAIN t.names /\ IsDir(t, Parent(new))
  BY <1>1, TreeParts DEF Free, Exists, Path
<1>5. \A q \in DOMAIN t.names : ~ Within(new, q)
  <2>1. ~ IsDir(t, new)
    BY <1>4 DEF IsDir, Exists
  <2> QED BY <1>4, <2>1, NothingBeneath DEF Beneath

\* The names that stay, and those that are moved.
<1>6. ASSUME NEW r \in moved
      PROVE  /\ r \in DOMAIN t.names /\ r \in Path /\ Within(old, r)
             /\ Moved(r) \in Path /\ Within(new, Moved(r)) /\ Moved(r) # <<>>
             /\ Was(Moved(r)) = r
  <2>1. r \in DOMAIN t.names /\ r \in Path /\ Within(old, r)
    BY TreeParts
  <2>2. Moved(r) \in Path /\ Within(new, Moved(r)) /\ Replaced(Moved(r), new, old) = r
    BY <2>1, ReplacedByNames, ReplacedBack
  <2> HIDE DEF Moved
  <2>4. Moved(r) # <<>>
    <3>1. Len(new) \in Nat \ {0} /\ Len(new) <= Len(Moved(r))
      BY <1>4, <2>2, ParentByNames DEF Within
    <3>2. Len(<<>>) = 0
      OBVIOUS
    <3> QED BY <3>1, <3>2
  <2> QED BY <2>1, <2>2, <2>4
<1>7. ASSUME NEW q \in DOMAIN t.names, ~ Within(old, q)
      PROVE  q \in after /\ Was(q) = q /\ names[q] = t.names[q] /\ Node(u, q) = Node(t, q)
  <2>1. q \in after /\ Was(q) = q
    BY <1>5, <1>7
  <2> HIDE DEF after, Was
  <2>2. names[q] = t.names[q]
    BY <2>1
  <2> HIDE DEF names
  <2> QED BY <1>3, <2>1, <2>2 DEF Node
<1>8. ASSUME NEW r \in moved
      PROVE  Moved(r) \in after /\ names[Moved(r)] = t.names[r] /\ Node(u, Moved(r)) = Node(t, r)
  <2>1. Moved(r) \in after /\ Was(Moved(r)) = r
    BY <1>6
  <2> HIDE DEF after, Was, Moved
  <2>2. names[Moved(r)] = t.names[r]
    BY <2>1
  <2> HIDE DEF names
  <2> QED BY <1>3, <2>1, <2>2 DEF Node
<1>9. ASSUME NEW q \in after
      PROVE  (q \in DOMAIN t.names /\ ~ Within(old, q)) \/ \E r \in moved : q = Moved(r)
  OBVIOUS
<1> HIDE DEF after, Moved, Was, names
<1>10. ASSUME NEW q, IsDir(t, q), ~ Within(old, q)
       PROVE  IsDir(u, q)
  <2>1. q \in DOMAIN t.names => q \in DOMAIN u.names /\ Node(u, q).kind = Node(t, q).kind
    BY <1>3, <1>7, <1>10
  <2> QED BY <1>10, <2>1, DirKept
<1>11. ASSUME NEW q \in after
       PROVE  q \in Path /\ q # <<>> /\ names[q] \in DOMAIN t.nodes /\ IsDir(u, Parent(q))
  <2>1. CASE q \in DOMAIN t.names /\ ~ Within(old, q)
    <3>1. q \in Path /\ q # <<>> /\ IsDir(t, Parent(q)) /\ t.names[q] \in DOMAIN t.nodes
      BY <2>1, TreeParts
    <3>2. ~ Within(old, Parent(q))
      BY <2>1, <3>1, ParentByNames, WithinOrder
    <3> QED BY <1>7, <1>10, <2>1, <3>1, <3>2
  <2>2. ASSUME NEW r \in moved, q = Moved(r)
        PROVE  q \in Path /\ q # <<>> /\ names[q] \in DOMAIN t.nodes /\ IsDir(u, Parent(q))
    <3>1. /\ r \in DOMAIN t.names /\ r \in Path /\ Within(old, r)
          /\ Moved(r) \in Path /\ Moved(r) # <<>>
      BY <1>6
    <3>2. r # <<>> /\ IsDir(t, Parent(r)) /\ t.names[r] \in DOMAIN t.nodes
      BY <3>1, TreeParts
    <3>3. names[q] \in DOMAIN t.nodes
      BY <1>8, <2>2, <3>2
    <3>4. CASE r = old
      <4>1. q = new
        BY <2>2, <3>1, <3>4, ReplacedBack DEF Moved
      <4>2. ~ Within(old, Parent(new))
        BY <1>1, <1>4, ParentByNames, WithinOrder
      <4>3. IsDir(u, Parent(new))
        BY <1>4, <1>10, <4>2
      <4> QED BY <2>2, <3>1, <3>3, <4>1, <4>3
    <3>5. CASE r # old
      <4>1. Beneath(old, r)
        BY <3>1, <3>5 DEF Beneath
      <4>2. Within(old, Parent(r)) /\ Parent(r) \in Path
        BY <3>1, <3>2, <4>1, WithinOrder, ParentByNames
      <4>3. Parent(Moved(r)) = Moved(Parent(r))
        BY <3>1, <3>2, <4>1, ReplacedBack DEF Moved
      <4>4. Parent(r) # <<>>
        <5>1. Len(old) \in Nat \ {0} /\ Len(old) <= Len(Parent(r))
          BY <1>4, <4>2, ParentByNames DEF Within
        <5>2. Len(<<>>) = 0
          OBVIOUS
        <5> QED BY <5>1, <5>2
      <4>5. Parent(r) \in moved /\ IsDir(t, Parent(r)) /\ Exists(t, Parent(r))
        BY <3>2, <4>2, <4>4 DEF IsDir, Exists
      <4>6. Moved(Parent(r)) \in after /\ Node(u, Moved(Parent(r))) = Node(t, Parent(r))
        BY <1>8, <4>5
      <4>7. IsDir(u, Moved(Parent(r)))
        BY <1>3, <3>2, <4>4, <4>6 DEF IsDir, Exists
      <4> QED BY <2>2, <3>1, <3>3, <4>3, <4>7
    <3> QED BY <3>4, <3>5
  <2> QED BY <1>9, <2>1, <2>2
<1>12. IsTree(u)
  <2>1. names = [q \in DOMAIN names |-> names[q]]
    BY DEF names
  <2>2. \A q \in DOMAIN names : q \in Path /\ q # <<>> /\ names[q] \in DOMAIN t.nodes /\ IsDir(u, Parent(q))
    BY <1>3, <1>11
  <2>3. t.nodes = [j \in DOMAIN t.nodes |-> t.nodes[j]] /\ \A j \in DOMAIN t.nodes : IsNode(t.nodes[j])
    BY NodesOf
  <2>4. DOMAIN t.nodes \subseteq Nat /\ IsFiniteSet(DOMAIN t.nodes)
    BY DEF IsTree
  <2> QED BY <1>2, <2>1, <2>2, <2>3, <2>4, TreeFromParts

<1>13. ASSUME NEW q \in DOMAIN t.names
       PROVE  LET m == IF Within(old, q) THEN Replaced(q, old, new) ELSE q
              IN  m \in DOMAIN u.names /\ u.names[m] = t.names[q] /\ Node(u, m) = Node(t, q)
  <2>1. CASE Within(old, q)
    BY <1>3, <1>8, <2>1 DEF Moved
  <2>2. CASE ~ Within(old, q)
    BY <1>3, <1>7, <2>2
  <2> QED BY <2>1, <2>2
<1>14. ASSUME NEW m \in DOMAIN u.names
       PROVE  \E q \in DOMAIN t.names : m = IF Within(old, q) THEN Replaced(q, old, new) ELSE q
  BY <1>3, <1>9 DEF Moved
<1> QED BY <1>1, <1>4, <1>5, <1>12, <1>13, <1>14 DEF Renamed

-----------------------------------------------------------------------------
(* The calls, at paths within s.                                             *)

\* A new name within s, for a new inode or one that has a name within s.
LEMMA AddedKeeps ==
  ASSUME NEW t, IsTree(t), NEW s \in STRING, Apart(t, s),
         NEW p \in Path, Within(<<s>>, p), NEW u, Added(t, u, p),
         \/ \A q \in DOMAIN t.names : u.names[q] # u.names[p]
         \/ \E q \in DOMAIN t.names : Within(<<s>>, q) /\ u.names[p] = t.names[q]
  PROVE  Apart(u, s) /\ Kept(t, u, s)
<1>1. Kept(t, u, s)
  BY DEF Kept, Added
<1>2. Apart(u, s)
  BY DEF Apart, Added
<1> QED BY <1>1, <1>2

\* Create.
LEMMA CreateKeeps ==
  ASSUME NEW t, IsTree(t), NEW s \in STRING, Apart(t, s),
         NEW p \in Path, Within(<<s>>, p), NEW node, IsNode(node), NEW u \in Create(t, p, node)
  PROVE  IsTree(u) /\ Apart(u, s) /\ Kept(t, u, s)
BY CreateEffect, AddedKeeps

\* Link.
LEMMA LinkKeeps ==
  ASSUME NEW t, IsTree(t), NEW s \in STRING, Apart(t, s),
         NEW old \in Path, Within(<<s>>, old), NEW p \in Path, Within(<<s>>, p),
         NEW u \in Link(t, old, p)
  PROVE  IsTree(u) /\ Apart(u, s) /\ Kept(t, u, s)
BY LinkEffect, AddedKeeps

\* Unlink and rmdir.
LEMMA RemoveKeeps ==
  ASSUME NEW t, IsTree(t), NEW s \in STRING, Apart(t, s),
         NEW p \in Path, Within(<<s>>, p), NEW u \in Unlink(t, p) \cup Rmdir(t, p)
  PROVE  IsTree(u) /\ Apart(u, s) /\ Kept(t, u, s)
<1>1. IsTree(u) /\ Taken(t, u, p)
  BY UnlinkEffect, RmdirEffect
<1> QED BY <1>1 DEF Taken, Apart, Kept

\* Change of a node within s that stays of its kind.
LEMMA ChangeKeeps ==
  ASSUME NEW t, IsTree(t), NEW s \in STRING, Apart(t, s),
         NEW p \in Path, Within(<<s>>, p), NEW node,
         p \in DOMAIN t.names => IsNode(node) /\ node.kind = Node(t, p).kind,
         NEW u \in Change(t, p, node)
  PROVE  IsTree(u) /\ Apart(u, s) /\ Kept(t, u, s)
<1>1. IsTree(u) /\ p \in DOMAIN t.names /\ Changed(t, u, p, node)
  BY ChangeEffect
<1>2. Apart(u, s)
  BY <1>1 DEF Changed, Apart
<1>3. Kept(t, u, s)
  BY <1>1 DEF Changed, Apart, Kept
<1> QED BY <1>1, <1>2, <1>3

\* Rename: what is moved was within s, and is.
LEMMA RenameKeeps ==
  ASSUME NEW t, IsTree(t), NEW s \in STRING, Apart(t, s),
         NEW old \in Path, Within(<<s>>, old), NEW new \in Path, Within(<<s>>, new),
         NEW u \in Rename(t, old, new)
  PROVE  IsTree(u) /\ Apart(u, s) /\ Kept(t, u, s)
<1> DEFINE Now(q) == IF Within(old, q) THEN Replaced(q, old, new) ELSE q
<1>1. IsTree(u) /\ Renamed(t, u, old, new)
  BY RenameEffect
<1>2. <<s>> \in Path
  BY NameIsPath
<1>3. ASSUME NEW q \in DOMAIN t.names
      PROVE  (Within(<<s>>, Now(q)) <=> Within(<<s>>, q)) /\ (~ Within(<<s>>, q) => Now(q) = q)
  <2>1. CASE Within(old, q)
    <3>1. q \in Path
      BY TreeParts
    <3>2. Replaced(q, old, new) \in Path /\ Within(new, Replaced(q, old, new))
      BY <2>1, <3>1, ReplacedByNames
    <3>3. Within(<<s>>, q)
      BY <1>2, <2>1, <3>1, WithinOrder
    <3>4. Within(<<s>>, Replaced(q, old, new))
      BY <1>2, <3>2, WithinOrder
    <3> QED BY <2>1, <3>3, <3>4
  <2>2. CASE ~ Within(old, q)
    BY <2>2
  <2> QED BY <2>1, <2>2
<1>4. /\ \A q \in DOMAIN t.names :
            Now(q) \in DOMAIN u.names /\ u.names[Now(q)] = t.names[q] /\ Node(u, Now(q)) = Node(t, q)
      /\ \A m \in DOMAIN u.names : \E q \in DOMAIN t.names : m = Now(q)
  BY <1>1 DEF Renamed
<1> HIDE DEF Now
<1>5. Apart(u, s)
  BY <1>3, <1>4 DEF Apart
<1>6. Kept(t, u, s)
  BY <1>3, <1>4 DEF Kept
<1> QED BY <1>1, <1>5, <1>6

-----------------------------------------------------------------------------
(* A tree and a copy of it below a name of another one.                      *)

At(s, p) == <<s>> \o p

\* The shortest paths.
LEMMA ShortPaths ==
  ASSUME NEW s \in STRING
  PROVE  <<s>> \in Path /\ <<>> \in Path /\ Len(<<s>>) = 1 /\ <<s>>[1] = s /\ Len(<<>>) = 0
<1>1. <<s>> \in Path
  BY NameIsPath
<1>2. <<>> \in Path
  BY DEF Path
<1>3. Len(<<s>>) = 1 /\ <<s>>[1] = s
  OBVIOUS
<1>4. Len(<<>>) = 0
  OBVIOUS
<1> QED BY <1>1, <1>2, <1>3, <1>4

\* Everything begins with the empty path.
LEMMA WithinEmpty ==
  ASSUME NEW p \in Path
  PROVE  Within(<<>>, p) /\ SubSeq(p, 1, Len(p)) = p
<1>1. <<>> \in Path /\ Len(<<>>) = 0 /\ Len(p) \in Nat
  BY DEF Path
<1>2. Within(<<>>, p)
  <2>1. PICK e \in Path : e = <<>>
    BY <1>1
  <2>2. Len(e) = 0
    BY <1>1, <2>1
  <2>3. Within(e, p)
    BY <1>1, <2>2, WithinByNames
  <2> QED BY <2>1, <2>3
<1>3. SubSeq(p, 1, Len(p)) = p
  BY DEF Path
<1> QED BY <1>2, <1>3

\* Paths below s are like paths from the root, with s in front.
LEMMA AtByNames ==
  ASSUME NEW s \in STRING, NEW p \in Path
  PROVE  /\ At(s, p) = Replaced(p, <<>>, <<s>>)
         /\ At(s, p) \in Path /\ Within(<<s>>, At(s, p)) /\ At(s, p) # <<>>
         /\ Len(At(s, p)) = 1 + Len(p) /\ Len(p) \in Nat
         /\ At(s, p)[1] = s /\ \A i \in 1 .. Len(p) : At(s, p)[1 + i] = p[i]
         /\ Replaced(At(s, p), <<s>>, <<>>) = p
<1> DEFINE a == <<>>
           b == <<s>>
           c == Replaced(p, a, b)
<1>1. b \in Path /\ Len(b) = 1 /\ b[1] = s
  BY ShortPaths
<1>2. a \in Path /\ Len(a) = 0 /\ Within(a, p)
  BY ShortPaths, WithinEmpty
<1>3. Len(p) \in Nat
  BY DEF Path
<1>4. At(s, p) = c
  <2>1. SubSeq(p, Len(a) + 1, Len(p)) = p
    BY <1>2, WithinEmpty
  <2> QED BY <2>1 DEF At, Replaced
<1> HIDE DEF a, b
<1>5. /\ c \in Path /\ Within(b, c)
      /\ Len(c) = Len(b) + (Len(p) - Len(a))
      /\ \A i \in 1 .. Len(b) : c[i] = b[i]
      /\ \A i \in 1 .. (Len(p) - Len(a)) : c[Len(b) + i] = p[Len(a) + i]
  BY <1>1, <1>2, ReplacedByNames
<1>6. Replaced(c, b, a) = p
  BY <1>1, <1>2, ReplacedBack
<1> HIDE DEF c
<1>7. Len(c) = 1 + Len(p) /\ c[1] = s
  <2>1. 1 \in 1 .. Len(b) /\ Len(c) = 1 + Len(p)
    BY <1>1, <1>2, <1>3, <1>5
  <2>2. c[1] = b[1]
    BY <1>5, <2>1
  <2> QED BY <1>1, <2>1, <2>2
<1>8. ASSUME NEW i \in 1 .. Len(p) PROVE c[1 + i] = p[i]
  <2>1. i \in 1 .. (Len(p) - Len(a)) /\ Len(a) + i = i /\ Len(b) = 1
    BY <1>1, <1>2, <1>3
  <2>2. c[Len(b) + i] = p[Len(a) + i]
    BY <1>5, <2>1
  <2> QED BY <2>1, <2>2
<1>9. c # <<>>
  BY <1>3, <1>7
<1> QED BY <1>3, <1>4, <1>5, <1>6, <1>7, <1>8, <1>9 DEF a, b, c

\* Each path within s is one of these.
LEMMA WithinIsAt ==
  ASSUME NEW s \in STRING, NEW q \in Path, Within(<<s>>, q)
  PROVE  /\ Replaced(q, <<s>>, <<>>) \in Path /\ q = At(s, Replaced(q, <<s>>, <<>>))
         /\ Replaced(q, <<s>>, <<>>) = <<>> <=> q = <<s>>
<1>1. <<s>> \in Path /\ <<>> \in Path
  BY ShortPaths
<1> DEFINE p == Replaced(q, <<s>>, <<>>)
<1>2. p \in Path /\ Replaced(p, <<>>, <<s>>) = q
  BY <1>1, ReplacedByNames, ReplacedBack
<1> HIDE DEF p
<1>3. q = At(s, p)
  BY <1>2, AtByNames
<1>4. p = <<>> => q = <<s>>
  BY <1>3 DEF At
<1>5. q = <<s>> => p = <<>>
  BY <1>1, ReplacedBack DEF p
<1> QED BY <1>2, <1>3, <1>4, <1>5 DEF p

\* All that is said of paths is said of those below s.
LEMMA AtOrder ==
  ASSUME NEW s \in STRING, NEW p \in Path, NEW q \in Path
  PROVE  /\ At(s, p) = At(s, q) <=> p = q
         /\ At(s, p) = <<s>> <=> p = <<>>
         /\ Within(At(s, p), At(s, q)) <=> Within(p, q)
         /\ p # <<>> => Parent(At(s, p)) = At(s, Parent(p)) /\ Parent(p) \in Path
<1>1. At(s, p) = At(s, q) <=> p = q
  <2>1. Replaced(At(s, p), <<s>>, <<>>) = p /\ Replaced(At(s, q), <<s>>, <<>>) = q
    BY AtByNames
  <2> QED BY <2>1
<1>2. At(s, p) = <<s>> <=> p = <<>>
  <2>1. <<>> \in Path
    BY ShortPaths
  <2>2. At(s, <<>>) = <<s>>
    BY DEF At
  <2>3. Replaced(At(s, p), <<s>>, <<>>) = p /\ Replaced(At(s, <<>>), <<s>>, <<>>) = <<>>
    BY <2>1, AtByNames
  <2> QED BY <2>2, <2>3
<1>3. Within(At(s, p), At(s, q)) <=> Within(p, q)
  <2> DEFINE a == At(s, p)
             b == At(s, q)
  <2>1. a \in Path /\ b \in Path
    BY AtByNames
  <2>3. /\ Len(a) = 1 + Len(p) /\ Len(p) \in Nat /\ a[1] = s /\ \A i \in 1 .. Len(p) : a[1 + i] = p[i]
        /\ Len(b) = 1 + Len(q) /\ Len(q) \in Nat /\ b[1] = s /\ \A i \in 1 .. Len(q) : b[1 + i] = q[i]
    BY AtByNames
  <2> HIDE DEF a, b
  <2>4. ASSUME Within(p, q) PROVE Within(a, b)
    <3>1. Len(p) <= Len(q) /\ \A i \in 1 .. Len(p) : q[i] = p[i]
      BY <2>4, WithinByNames
    <3>2. ASSUME NEW i \in 1 .. Len(a) PROVE b[i] = a[i]
      <4>1. CASE i = 1
        BY <2>3, <4>1
      <4>2. CASE i # 1
        <5>1. i - 1 \in 1 .. Len(p) /\ i - 1 \in 1 .. Len(q) /\ 1 + (i - 1) = i
          BY <2>3, <3>1, <4>2
        <5>2. b[1 + (i - 1)] = q[i - 1] /\ a[1 + (i - 1)] = p[i - 1] /\ q[i - 1] = p[i - 1]
          BY <2>3, <3>1, <5>1
        <5> QED BY <5>1, <5>2
      <4> QED BY <4>1, <4>2
    <3> QED BY <2>1, <2>3, <3>1, <3>2, WithinByNames
  <2>5. ASSUME Within(a, b) PROVE Within(p, q)
    <3>1. Len(a) <= Len(b) /\ \A i \in 1 .. Len(a) : b[i] = a[i]
      BY <2>1, <2>5, WithinByNames
    <3>2. ASSUME NEW i \in 1 .. Len(p) PROVE q[i] = p[i]
      <4>1. 1 + i \in 1 .. Len(a) /\ i \in 1 .. Len(q)
        BY <2>3, <3>1
      <4>2. b[1 + i] = a[1 + i]
        BY <3>1, <4>1
      <4> QED BY <2>3, <4>1, <4>2
    <3>3. Len(p) <= Len(q)
      BY <2>3, <3>1
    <3> QED BY <3>2, <3>3, WithinByNames
  <2> QED BY <2>4, <2>5 DEF a, b
<1>4. ASSUME p # <<>>
      PROVE  Parent(At(s, p)) = At(s, Parent(p)) /\ Parent(p) \in Path
  <2>1. <<s>> \in Path /\ <<>> \in Path
    BY ShortPaths
  <2>2. Within(<<>>, p) /\ Beneath(<<>>, p)
    BY <1>4, WithinEmpty DEF Beneath
  <2>3. Replaced(p, <<>>, <<s>>) # <<>>
    BY AtByNames
  <2>4. Parent(Replaced(p, <<>>, <<s>>)) = Replaced(Parent(p), <<>>, <<s>>)
    BY <1>4, <2>1, <2>2, <2>3, ReplacedBack
  <2>5. Parent(p) \in Path
    BY <1>4, ParentByNames
  <2> QED BY <2>4, <2>5, AtByNames
<1> QED BY <1>1, <1>2, <1>3, <1>4

\* Replacing below s.
LEMMA AtReplaced ==
  ASSUME NEW s \in STRING, NEW a \in Path, NEW b \in Path, NEW q \in Path, Within(a, q)
  PROVE  Replaced(At(s, q), At(s, a), At(s, b)) = At(s, Replaced(q, a, b))
<1> DEFINE x == At(s, a)
           y == At(s, b)
           z == At(s, q)
           r == Replaced(q, a, b)
           w == At(s, r)
           l == Replaced(z, x, y)
<1>1. /\ r \in Path /\ Len(r) = Len(b) + (Len(q) - Len(a)) /\ Len(a) <= Len(q)
      /\ \A i \in 1 .. Len(b) : r[i] = b[i]
      /\ \A i \in 1 .. (Len(q) - Len(a)) : r[Len(b) + i] = q[Len(a) + i]
  BY ReplacedByNames
<1> HIDE DEF r
<1>2. x \in Path /\ Len(x) = 1 + Len(a) /\ Len(a) \in Nat
  BY AtByNames
<1>3. /\ y \in Path /\ Len(y) = 1 + Len(b) /\ Len(b) \in Nat
      /\ y[1] = s /\ \A i \in 1 .. Len(b) : y[1 + i] = b[i]
  BY AtByNames
<1>4. /\ z \in Path /\ Len(z) = 1 + Len(q) /\ Len(q) \in Nat
      /\ \A i \in 1 .. Len(q) : z[1 + i] = q[i]
  BY AtByNames
<1>5. /\ w \in Path /\ Len(w) = 1 + Len(r) /\ Len(r) \in Nat
      /\ w[1] = s /\ \A i \in 1 .. Len(r) : w[1 + i] = r[i]
  BY <1>1, AtByNames
<1>6. Within(x, z)
  BY AtOrder DEF x, z
<1> HIDE DEF x, y, z, w
<1>7. /\ l \in Path /\ Len(l) = Len(y) + (Len(z) - Len(x))
      /\ \A i \in 1 .. Len(y) : l[i] = y[i]
      /\ \A i \in 1 .. (Len(z) - Len(x)) : l[Len(y) + i] = z[Len(x) + i]
  <2>1. x \in Path /\ y \in Path /\ z \in Path /\ Within(x, z)
    BY <1>2, <1>3, <1>4, <1>6
  <2>2. Replaced(z, x, y) \in Path
    BY <2>1, ReplacedByNames
  <2>3. Len(Replaced(z, x, y)) = Len(y) + (Len(z) - Len(x))
    BY <2>1, ReplacedByNames
  <2>4. \A i \in 1 .. Len(y) : Replaced(z, x, y)[i] = y[i]
    BY <2>1, ReplacedByNames
  <2>5. \A i \in 1 .. (Len(z) - Len(x)) : Replaced(z, x, y)[Len(y) + i] = z[Len(x) + i]
    BY <2>1, ReplacedByNames
  <2> QED BY <2>2, <2>3, <2>4, <2>5
<1> HIDE DEF l
<1>11. Len(l) = Len(w)
  BY <1>1, <1>2, <1>3, <1>4, <1>5, <1>7
<1>12. ASSUME NEW i \in 1 .. Len(l) PROVE l[i] = w[i]
  <2>1. CASE i = 1
    <3>1. 1 \in 1 .. Len(y)
      BY <1>3
    <3>2. l[1] = y[1]
      BY <1>7, <3>1
    <3> QED BY <1>3, <1>5, <2>1, <3>2
  <2>2. CASE i # 1 /\ i <= Len(y)
    <3>1. i - 1 \in 1 .. Len(b) /\ i - 1 \in 1 .. Len(r) /\ 1 + (i - 1) = i
      BY <1>1, <1>2, <1>3, <1>4, <1>5, <2>2
    <3>2. l[i] = y[i] /\ y[1 + (i - 1)] = b[i - 1]
      BY <1>3, <1>7, <2>2, <3>1
    <3>3. w[1 + (i - 1)] = r[i - 1] /\ r[i - 1] = b[i - 1]
      BY <1>1, <1>5, <3>1
    <3> QED BY <3>1, <3>2, <3>3
  <2>3. CASE Len(y) < i
    <3> DEFINE j == i - Len(y)
    <3>1. /\ j \in 1 .. (Len(z) - Len(x)) /\ j \in 1 .. (Len(q) - Len(a)) /\ Len(y) + j = i
          /\ Len(a) + j \in 1 .. Len(q) /\ Len(b) + j \in 1 .. Len(r) /\ 1 + (Len(b) + j) = i
          /\ Len(x) + j = 1 + (Len(a) + j)
      BY <1>1, <1>2, <1>3, <1>4, <1>5, <1>7, <1>11, <2>3
    <3> HIDE DEF j
    <3>2. l[i] = z[1 + (Len(a) + j)]
      BY <1>7, <3>1
    <3>3. z[1 + (Len(a) + j)] = q[Len(a) + j]
      BY <1>4, <3>1
    <3>4. w[i] = r[Len(b) + j]
      BY <1>5, <3>1
    <3>5. r[Len(b) + j] = q[Len(a) + j]
      BY <1>1, <3>1
    <3> QED BY <3>2, <3>3, <3>4, <3>5
  <2> QED BY <1>3, <1>7, <2>1, <2>2, <2>3
<1>13. l = w
  BY <1>5, <1>7, <1>11, <1>12, SeqEqual DEF Path
<1> QED BY <1>13 DEF x, y, z, r, w, l

-----------------------------------------------------------------------------
(* d holds below s what t holds: the same names and hard links, and at each  *)
(* name nodes that are alike.  For nodes of the kinds in loose the content   *)
(* is left open.                                                             *)

AlikeIn(a, b, loose) ==
    IF a.kind \in loose THEN b = [a EXCEPT !.content = b.content] ELSE a = b

Match(d, s, t, loose) ==
    /\ IsDir(d, <<s>>)
    /\ \A p \in Path \ {<<>>} : At(s, p) \in DOMAIN d.names <=> p \in DOMAIN t.names
    /\ \A p \in DOMAIN t.names : AlikeIn(Node(d, At(s, p)), Node(t, p), loose)
    /\ \A p, q \in DOMAIN t.names :
          d.names[At(s, p)] = d.names[At(s, q)] <=> t.names[p] = t.names[q]

\* The trees a call may lead to in d, and those the same call may lead to in t:
\* it is possible in d if it is in t, and what comes of it matches again.
Follow(ds, ts, s, loose) ==
    ts # {} => ds # {} /\ \A v \in ds, u \in ts : IsTree(u) /\ Match(v, s, u, loose)

\* Alike, field by field.
LEMMA AlikeByParts ==
  ASSUME NEW a, IsNode(a), NEW b, IsNode(b), NEW loose
  PROVE  AlikeIn(a, b, loose) <=>
           /\ a.kind = b.kind /\ a.xattr = b.xattr /\ a.meta = b.meta
           /\ a.kind \notin loose => a.content = b.content
<1>1. PICK k, c, x, m : a = [kind |-> k, content |-> c, xattr |-> x, meta |-> m]
  BY DEF IsNode
<1>2. PICK k2, c2, x2, m2 : b = [kind |-> k2, content |-> c2, xattr |-> x2, meta |-> m2]
  BY DEF IsNode
<1>3. [a EXCEPT !.content = b.content] = [kind |-> k, content |-> c2, xattr |-> x, meta |-> m]
  BY <1>1, <1>2
<1> QED BY <1>1, <1>2, <1>3 DEF AlikeIn

\* The nodes of a tree have all their fields.
LEMMA NamesHaveNodes ==
  ASSUME NEW t, IsTree(t), NEW p \in DOMAIN t.names
  PROVE  IsNode(Node(t, p))
<1>1. t.names[p] \in DOMAIN t.nodes /\ Node(t, p) = t.nodes[t.names[p]]
  BY TreeParts
<1>2. IsNode(t.nodes[t.names[p]])
  BY <1>1, NodesOf
<1> QED BY <1>1, <1>2

\* Nodes of trees that match.
LEMMA MatchNodes ==
  ASSUME NEW d, IsTree(d), NEW t, IsTree(t), NEW s \in STRING, NEW loose, Match(d, s, t, loose),
         NEW p \in DOMAIN t.names
  PROVE  /\ p \in Path /\ p # <<>> /\ At(s, p) \in DOMAIN d.names
         /\ IsNode(Node(d, At(s, p))) /\ IsNode(Node(t, p))
         /\ Node(d, At(s, p)).kind = Node(t, p).kind
         /\ Node(d, At(s, p)).xattr = Node(t, p).xattr /\ Node(d, At(s, p)).meta = Node(t, p).meta
         /\ Node(t, p).kind \notin loose => Node(d, At(s, p)).content = Node(t, p).content
<1>1. p \in Path /\ p # <<>>
  BY TreeParts
<1>2. At(s, p) \in DOMAIN d.names /\ AlikeIn(Node(d, At(s, p)), Node(t, p), loose)
  BY <1>1 DEF Match
<1>3. IsNode(Node(d, At(s, p))) /\ IsNode(Node(t, p))
  BY <1>2, NamesHaveNodes
<1> QED BY <1>1, <1>2, <1>3, AlikeByParts

\* What the calls ask of a path has the same answer in both.
LEMMA MatchAnswers ==
  ASSUME NEW d, IsTree(d), NEW t, IsTree(t), NEW s \in STRING, NEW loose, Match(d, s, t, loose),
         NEW p \in Path
  PROVE  /\ p # <<>> => (Exists(d, At(s, p)) <=> Exists(t, p))
         /\ IsDir(d, At(s, p)) <=> IsDir(t, p)
         /\ p # <<>> => (IsFile(d, At(s, p)) <=> IsFile(t, p))
         /\ Free(t, p) => Free(d, At(s, p))
<1>1. ASSUME NEW q \in Path
      PROVE  /\ q # <<>> => (Exists(d, At(s, q)) <=> Exists(t, q))
             /\ IsDir(d, At(s, q)) <=> IsDir(t, q)
             /\ q # <<>> => (IsFile(d, At(s, q)) <=> IsFile(t, q))
  <2>1. CASE q = <<>>
    <3>1. At(s, q) = <<s>>
      BY <2>1, AtOrder
    <3> QED BY <2>1, <3>1 DEF Match, IsDir
  <2>2. CASE q # <<>>
    <3>1. At(s, q) \in DOMAIN d.names <=> q \in DOMAIN t.names
      BY <2>2 DEF Match
    <3>2. q \in DOMAIN t.names => Node(d, At(s, q)).kind = Node(t, q).kind
      BY MatchNodes
    <3>3. At(s, q) # <<>>
      BY AtByNames
    <3> QED BY <2>2, <3>1, <3>2, <3>3 DEF IsDir, IsFile, Exists
  <2> QED BY <2>1, <2>2
<1>2. ASSUME Free(t, p) PROVE Free(d, At(s, p))
  <2>1. p # <<>> /\ ~ Exists(t, p) /\ IsDir(t, Parent(p))
    BY <1>2 DEF Free
  <2>2. Parent(At(s, p)) = At(s, Parent(p)) /\ Parent(p) \in Path
    BY <2>1, AtOrder
  <2>3. At(s, p) # <<>>
    BY AtByNames
  <2> QED BY <1>1, <2>1, <2>2, <2>3 DEF Free
<1> QED BY <1>1, <1>2

\* Trees match when each name has an origin in trees that match.
LEMMA MatchFromOrigins ==
  ASSUME NEW d, NEW s, NEW t, NEW loose, Match(d, s, t, loose), NEW v, NEW u, IsDir(v, <<s>>),
         \A m \in Path \ {<<>>} : At(s, m) \in DOMAIN v.names <=> m \in DOMAIN u.names,
         \A m \in DOMAIN u.names : \E o \in DOMAIN t.names :
             /\ u.names[m] = t.names[o] /\ Node(u, m) = Node(t, o)
             /\ v.names[At(s, m)] = d.names[At(s, o)] /\ Node(v, At(s, m)) = Node(d, At(s, o))
  PROVE  Match(v, s, u, loose)
<1>1. ASSUME NEW m \in DOMAIN u.names PROVE AlikeIn(Node(v, At(s, m)), Node(u, m), loose)
  BY DEF Match
<1>2. ASSUME NEW m \in DOMAIN u.names, NEW n \in DOMAIN u.names
      PROVE  v.names[At(s, m)] = v.names[At(s, n)] <=> u.names[m] = u.names[n]
  <2>1. PICK o \in DOMAIN t.names : u.names[m] = t.names[o] /\ v.names[At(s, m)] = d.names[At(s, o)]
    OBVIOUS
  <2>2. PICK o2 \in DOMAIN t.names : u.names[n] = t.names[o2] /\ v.names[At(s, n)] = d.names[At(s, o2)]
    OBVIOUS
  <2> QED BY <2>1, <2>2 DEF Match
<1> QED BY <1>1, <1>2 DEF Match

-----------------------------------------------------------------------------
(* The calls, one by one: at At(s, p) in d and at p in t.                    *)

\* A directory stays one when its name and the kind of its node do.
LEMMA TopStays ==
  ASSUME NEW d, NEW v, NEW s \in STRING, IsDir(d, <<s>>),
         <<s>> \in DOMAIN d.names => <<s>> \in DOMAIN v.names /\ Node(v, <<s>>).kind = Node(d, <<s>>).kind
  PROVE  IsDir(v, <<s>>)
BY DirKept

\* Create.
LEMMA CreateFollows ==
  ASSUME NEW d, IsTree(d), NEW t, IsTree(t), NEW s \in STRING, NEW loose, Match(d, s, t, loose),
         NEW p \in Path, NEW a, IsNode(a), NEW b, IsNode(b), AlikeIn(a, b, loose)
  PROVE  Follow(Create(d, At(s, p), a), Create(t, p, b), s, loose)
<1>1. At(s, p) \in Path
  BY AtByNames
<1>2. ASSUME Create(t, p, b) # {} PROVE Create(d, At(s, p), a) # {}
  <2>1. Free(t, p)
    BY <1>2 DEF Create, When
  <2>2. Free(d, At(s, p))
    BY <2>1, MatchAnswers
  <2> QED BY <2>2 DEF Create, When
<1>3. ASSUME NEW v \in Create(d, At(s, p), a), NEW u \in Create(t, p, b)
      PROVE  IsTree(u) /\ Match(v, s, u, loose)
  <2>1. /\ IsTree(u) /\ Added(t, u, p) /\ Node(u, p) = b
        /\ \A q \in DOMAIN t.names : u.names[q] # u.names[p]
    BY CreateEffect
  <2>2. /\ Added(d, v, At(s, p)) /\ Node(v, At(s, p)) = a
        /\ \A q \in DOMAIN d.names : v.names[q] # v.names[At(s, p)]
    BY <1>1, CreateEffect
  <2>3. IsDir(v, <<s>>)
    BY <2>2, TopStays DEF Added, Match
  <2>4. ASSUME NEW m \in Path \ {<<>>} PROVE At(s, m) \in DOMAIN v.names <=> m \in DOMAIN u.names
    <3>1. At(s, m) = At(s, p) <=> m = p
      BY AtOrder
    <3>2. At(s, m) \in DOMAIN d.names <=> m \in DOMAIN t.names
      BY DEF Match
    <3> QED BY <2>1, <2>2, <3>1, <3>2 DEF Added
  <2>5. ASSUME NEW m \in DOMAIN t.names
        PROVE  /\ At(s, m) \in DOMAIN d.names
               /\ v.names[At(s, m)] = d.names[At(s, m)] /\ u.names[m] = t.names[m]
               /\ AlikeIn(Node(v, At(s, m)), Node(u, m), loose)
    <3>1. m \in Path /\ m # <<>>
      BY TreeParts
    <3>2. At(s, m) \in DOMAIN d.names /\ AlikeIn(Node(d, At(s, m)), Node(t, m), loose)
      BY <3>1 DEF Match
    <3> QED BY <2>1, <2>2, <3>2 DEF Added
  <2>6. DOMAIN u.names = DOMAIN t.names \cup {p}
    BY <2>1 DEF Added
  <2>7. ASSUME NEW m \in DOMAIN u.names PROVE AlikeIn(Node(v, At(s, m)), Node(u, m), loose)
    BY <2>1, <2>2, <2>5, <2>6
  <2>8. ASSUME NEW m \in DOMAIN u.names, NEW n \in DOMAIN u.names
        PROVE  v.names[At(s, m)] = v.names[At(s, n)] <=> u.names[m] = u.names[n]
    <3>1. CASE m \in DOMAIN t.names /\ n \in DOMAIN t.names
      BY <2>5, <3>1 DEF Match
    <3>2. CASE m = p /\ n = p
      BY <3>2
    <3>3. CASE m = p /\ n \in DOMAIN t.names
      BY <2>1, <2>2, <2>5, <3>3
    <3>4. CASE n = p /\ m \in DOMAIN t.names
      BY <2>1, <2>2, <2>5, <3>4
    <3> QED BY <2>6, <3>1, <3>2, <3>3, <3>4
  <2> QED BY <2>1, <2>3, <2>4, <2>7, <2>8 DEF Match
<1> QED BY <1>2, <1>3 DEF Follow

\* Link.
LEMMA LinkFollows ==
  ASSUME NEW d, IsTree(d), NEW t, IsTree(t), NEW s \in STRING, NEW loose, Match(d, s, t, loose),
         NEW old \in Path, NEW p \in Path
  PROVE  Follow(Link(d, At(s, old), At(s, p)), Link(t, old, p), s, loose)
<1>1. At(s, p) \in Path /\ At(s, old) \in Path
  BY AtByNames
<1>2. ASSUME Link(t, old, p) # {} PROVE Link(d, At(s, old), At(s, p)) # {}
  <2>1. Exists(t, old) /\ ~ IsDir(t, old) /\ Free(t, p)
    BY <1>2 DEF Link, When
  <2>2. old # <<>>
    BY <2>1, TreeParts DEF Exists
  <2>3. Exists(d, At(s, old)) /\ ~ IsDir(d, At(s, old)) /\ Free(d, At(s, p))
    BY <2>1, <2>2, MatchAnswers
  <2> QED BY <2>3 DEF Link, When
<1>3. ASSUME NEW v \in Link(d, At(s, old), At(s, p)), NEW u \in Link(t, old, p)
      PROVE  IsTree(u) /\ Match(v, s, u, loose)
  <2>1. /\ IsTree(u) /\ old \in DOMAIN t.names /\ Added(t, u, p)
        /\ u.names[p] = t.names[old] /\ Node(u, p) = Node(t, old)
    BY LinkEffect
  <2>2. /\ At(s, old) \in DOMAIN d.names /\ Added(d, v, At(s, p))
        /\ v.names[At(s, p)] = d.names[At(s, old)] /\ Node(v, At(s, p)) = Node(d, At(s, old))
    BY <1>1, LinkEffect
  <2>3. IsDir(v, <<s>>)
    BY <2>2, TopStays DEF Added, Match
  <2>4. ASSUME NEW m \in Path \ {<<>>} PROVE At(s, m) \in DOMAIN v.names <=> m \in DOMAIN u.names
    <3>1. At(s, m) = At(s, p) <=> m = p
      BY AtOrder
    <3>2. At(s, m) \in DOMAIN d.names <=> m \in DOMAIN t.names
      BY DEF Match
    <3> QED BY <2>1, <2>2, <3>1, <3>2 DEF Added
  <2>5. ASSUME NEW m \in DOMAIN u.names
        PROVE  \E o \in DOMAIN t.names :
                 /\ u.names[m] = t.names[o] /\ Node(u, m) = Node(t, o)
                 /\ v.names[At(s, m)] = d.names[At(s, o)] /\ Node(v, At(s, m)) = Node(d, At(s, o))
    <3>1. CASE m = p
      BY <2>1, <2>2, <3>1
    <3>2. CASE m \in DOMAIN t.names
      <4>1. At(s, m) \in DOMAIN d.names
        BY <3>2, MatchNodes
      <4> QED BY <2>1, <2>2, <3>2, <4>1 DEF Added
    <3> QED BY <2>1, <3>1, <3>2 DEF Added
  <2> QED BY <2>1, <2>3, <2>4, <2>5, MatchFromOrigins
<1> QED BY <1>2, <1>3 DEF Follow

\* What is left when a name is taken from both.
LEMMA TakenMatch ==
  ASSUME NEW d, IsTree(d), NEW t, IsTree(t), NEW s \in STRING, NEW loose, Match(d, s, t, loose),
         NEW p \in Path, p # <<>>, NEW v, Taken(d, v, At(s, p)), NEW u, Taken(t, u, p)
  PROVE  Match(v, s, u, loose)
<1>1. <<s>> # At(s, p)
  BY AtOrder
<1>2. IsDir(v, <<s>>)
  BY <1>1, TopStays DEF Taken, Match
<1>3. ASSUME NEW m \in Path \ {<<>>} PROVE At(s, m) \in DOMAIN v.names <=> m \in DOMAIN u.names
  <2>1. At(s, m) = At(s, p) <=> m = p
    BY AtOrder
  <2>2. At(s, m) \in DOMAIN d.names <=> m \in DOMAIN t.names
    BY DEF Match
  <2> QED BY <2>1, <2>2 DEF Taken
<1>4. ASSUME NEW m \in DOMAIN u.names
      PROVE  \E o \in DOMAIN t.names :
               /\ u.names[m] = t.names[o] /\ Node(u, m) = Node(t, o)
               /\ v.names[At(s, m)] = d.names[At(s, o)] /\ Node(v, At(s, m)) = Node(d, At(s, o))
  <2>1. m \in DOMAIN t.names
    BY DEF Taken
  <2>2. m \in Path /\ m # <<>>
    BY <2>1, TreeParts
  <2>3. At(s, m) \in DOMAIN v.names
    BY <1>3, <2>2
  <2> QED BY <2>1, <2>3 DEF Taken
<1> QED BY <1>2, <1>3, <1>4, MatchFromOrigins

\* Unlink.
LEMMA UnlinkFollows ==
  ASSUME NEW d, IsTree(d), NEW t, IsTree(t), NEW s \in STRING, NEW loose, Match(d, s, t, loose),
         NEW p \in Path
  PROVE  Follow(Unlink(d, At(s, p)), Unlink(t, p), s, loose)
<1>1. At(s, p) \in Path
  BY AtByNames
<1>2. ASSUME Unlink(t, p) # {} PROVE Unlink(d, At(s, p)) # {}
  <2>1. Exists(t, p) /\ ~ IsDir(t, p)
    BY <1>2 DEF Unlink, When
  <2>2. p # <<>>
    BY <2>1, TreeParts DEF Exists
  <2>3. Exists(d, At(s, p)) /\ ~ IsDir(d, At(s, p))
    BY <2>1, <2>2, MatchAnswers
  <2> QED BY <2>3 DEF Unlink, When
<1>3. ASSUME NEW v \in Unlink(d, At(s, p)), NEW u \in Unlink(t, p)
      PROVE  IsTree(u) /\ Match(v, s, u, loose)
  <2>1. IsTree(u) /\ p \in DOMAIN t.names /\ Taken(t, u, p)
    BY UnlinkEffect
  <2>2. Taken(d, v, At(s, p))
    BY <1>1, UnlinkEffect
  <2>3. p # <<>>
    BY <2>1, TreeParts
  <2> QED BY <2>1, <2>2, <2>3, TakenMatch
<1> QED BY <1>2, <1>3 DEF Follow

\* Rmdir: what is beneath At(s, p) in d is beneath p in t.
LEMMA RmdirFollows ==
  ASSUME NEW d, IsTree(d), NEW t, IsTree(t), NEW s \in STRING, NEW loose, Match(d, s, t, loose),
         NEW p \in Path
  PROVE  Follow(Rmdir(d, At(s, p)), Rmdir(t, p), s, loose)
<1>1. At(s, p) \in Path /\ Within(<<s>>, At(s, p)) /\ <<s>> \in Path
  BY AtByNames, ShortPaths
<1>2. ASSUME Rmdir(t, p) # {} PROVE Rmdir(d, At(s, p)) # {}
  <2>1. Exists(t, p) /\ IsDir(t, p) /\ \A q \in DOMAIN t.names : ~ Beneath(p, q)
    BY <1>2 DEF Rmdir, When
  <2>2. p # <<>>
    BY <2>1, TreeParts DEF Exists
  <2>3. Exists(d, At(s, p)) /\ IsDir(d, At(s, p))
    BY <2>1, <2>2, MatchAnswers
  <2>4. ASSUME NEW q \in DOMAIN d.names, Beneath(At(s, p), q) PROVE FALSE
    <3>1. q \in Path
      BY TreeParts
    <3>2. Within(<<s>>, q)
      BY <1>1, <2>4, <3>1, WithinOrder DEF Beneath
    <3>3. PICK r \in Path : q = At(s, r)
      BY <3>1, <3>2, WithinIsAt
    <3>4. Beneath(p, r)
      BY <2>4, <3>3, AtOrder DEF Beneath
    <3>5. r # <<>>
      <4>1. Within(<<>>, p) /\ <<>> \in Path
        BY WithinEmpty, ShortPaths
      <4> QED BY <3>4, <4>1, WithinOrder DEF Beneath
    <3>6. r \in DOMAIN t.names
      BY <3>3, <3>5 DEF Match
    <3> QED BY <2>1, <3>4, <3>6
  <2> QED BY <2>3, <2>4 DEF Rmdir, When
<1>3. ASSUME NEW v \in Rmdir(d, At(s, p)), NEW u \in Rmdir(t, p)
      PROVE  IsTree(u) /\ Match(v, s, u, loose)
  <2>1. IsTree(u) /\ p \in DOMAIN t.names /\ Taken(t, u, p)
    BY RmdirEffect
  <2>2. Taken(d, v, At(s, p))
    BY <1>1, RmdirEffect
  <2>3. p # <<>>
    BY <2>1, TreeParts
  <2> QED BY <2>1, <2>2, <2>3, TakenMatch
<1> QED BY <1>2, <1>3 DEF Follow

\* Rename.
LEMMA RenameFollows ==
  ASSUME NEW d, IsTree(d), NEW t, IsTree(t), NEW s \in STRING, NEW loose, Match(d, s, t, loose),
         NEW old \in Path, NEW new \in Path
  PROVE  Follow(Rename(d, At(s, old), At(s, new)), Rename(t, old, new), s, loose)
<1>1. /\ At(s, old) \in Path /\ At(s, new) \in Path /\ Within(<<s>>, At(s, old))
      /\ <<s>> \in Path /\ <<>> \in Path
  BY AtByNames, ShortPaths
<1>2. ASSUME Rename(t, old, new) # {} PROVE Rename(d, At(s, old), At(s, new)) # {}
  <2>1. Exists(t, old) /\ Free(t, new) /\ ~ Within(old, new)
    BY <1>2 DEF Rename, When
  <2>2. old # <<>>
    BY <2>1, TreeParts DEF Exists
  <2>3. Exists(d, At(s, old)) /\ Free(d, At(s, new)) /\ ~ Within(At(s, old), At(s, new))
    BY <2>1, <2>2, MatchAnswers, AtOrder
  <2> QED BY <2>3 DEF Rename, When
<1>3. ASSUME NEW v \in Rename(d, At(s, old), At(s, new)), NEW u \in Rename(t, old, new)
      PROVE  IsTree(u) /\ Match(v, s, u, loose)
  <2> DEFINE Now(q)  == IF Within(old, q) THEN Replaced(q, old, new) ELSE q
             NowD(q) == IF Within(At(s, old), q) THEN Replaced(q, At(s, old), At(s, new)) ELSE q
  <2>1. /\ IsTree(u) /\ old \in DOMAIN t.names /\ old # <<>>
        /\ \A q \in DOMAIN t.names :
              Now(q) \in DOMAIN u.names /\ u.names[Now(q)] = t.names[q] /\ Node(u, Now(q)) = Node(t, q)
        /\ \A m \in DOMAIN u.names : \E q \in DOMAIN t.names : m = Now(q)
    BY RenameEffect DEF Renamed
  <2>2. /\ \A q \in DOMAIN d.names :
              NowD(q) \in DOMAIN v.names /\ v.names[NowD(q)] = d.names[q] /\ Node(v, NowD(q)) = Node(d, q)
        /\ \A m \in DOMAIN v.names : \E q \in DOMAIN d.names : m = NowD(q)
    BY <1>1, RenameEffect DEF Renamed
  <2>3. ASSUME NEW q \in DOMAIN t.names
        PROVE  /\ q \in Path /\ At(s, q) \in DOMAIN d.names
               /\ Now(q) \in Path /\ NowD(At(s, q)) = At(s, Now(q))
    <3>1. q \in Path /\ At(s, q) \in DOMAIN d.names
      BY MatchNodes
    <3>2. Within(At(s, old), At(s, q)) <=> Within(old, q)
      BY <3>1, AtOrder
    <3>3. CASE Within(old, q)
      BY <3>1, <3>2, <3>3, AtReplaced, ReplacedByNames
    <3>4. CASE ~ Within(old, q)
      BY <3>1, <3>2, <3>4
    <3> QED BY <3>1, <3>3, <3>4
  <2>4. IsDir(v, <<s>>)
    <3>1. At(s, <<>>) = <<s>>
      BY <1>1, AtOrder
    <3>2. ~ Within(At(s, old), <<s>>)
      BY <1>1, <2>1, <3>1, AtOrder, WithinEmpty, WithinOrder
    <3>3. NowD(<<s>>) = <<s>>
      BY <3>2
    <3> HIDE DEF NowD
    <3> QED BY <2>2, <3>3, TopStays DEF Match
  <2>5. ASSUME NEW m \in Path \ {<<>>}, At(s, m) \in DOMAIN v.names
        PROVE  m \in DOMAIN u.names
    <3>1. PICK q \in DOMAIN d.names : At(s, m) = NowD(q)
      BY <2>2, <2>5
    <3>2. q \in Path
      BY TreeParts
    <3>3. PICK r \in Path \ {<<>>} : q = At(s, r)
      <4>1. CASE Within(At(s, old), q)
        <5>1. Within(<<s>>, q)
          BY <1>1, <3>2, <4>1, WithinOrder
        <5>2. PICK r \in Path : q = At(s, r)
          BY <3>2, <5>1, WithinIsAt
        <5>3. Within(old, r)
          BY <4>1, <5>2, AtOrder
        <5>4. r # <<>>
          BY <1>1, <2>1, <5>3, WithinEmpty, WithinOrder
        <5> QED BY <5>2, <5>4
      <4>2. CASE ~ Within(At(s, old), q)
        BY <3>1, <4>2
      <4> QED BY <4>1, <4>2
    <3>4. r \in DOMAIN t.names
      BY <3>3 DEF Match
    <3>5. At(s, m) = At(s, Now(r)) /\ Now(r) \in Path
      BY <2>3, <3>1, <3>3, <3>4
    <3> HIDE DEF Now
    <3>6. m = Now(r)
      BY <3>5, AtOrder
    <3> QED BY <2>1, <3>4, <3>6
  <2> HIDE DEF Now, NowD
  <2>6. ASSUME NEW m \in DOMAIN u.names
        PROVE  /\ At(s, m) \in DOMAIN v.names
               /\ \E o \in DOMAIN t.names :
                    /\ u.names[m] = t.names[o] /\ Node(u, m) = Node(t, o)
                    /\ v.names[At(s, m)] = d.names[At(s, o)] /\ Node(v, At(s, m)) = Node(d, At(s, o))
    <3>1. PICK q \in DOMAIN t.names : m = Now(q)
      BY <2>1
    <3>2. At(s, q) \in DOMAIN d.names /\ At(s, m) = NowD(At(s, q))
      BY <2>3, <3>1
    <3>3. u.names[m] = t.names[q] /\ Node(u, m) = Node(t, q)
      BY <2>1, <3>1
    <3>4. /\ At(s, m) \in DOMAIN v.names
          /\ v.names[At(s, m)] = d.names[At(s, q)] /\ Node(v, At(s, m)) = Node(d, At(s, q))
      BY <2>2, <3>2
    <3> QED BY <3>3, <3>4
  <2>7. \A m \in Path \ {<<>>} : At(s, m) \in DOMAIN v.names <=> m \in DOMAIN u.names
    BY <2>5, <2>6
  <2>8. \A m \in DOMAIN u.names : \E o \in DOMAIN t.names :
             /\ u.names[m] = t.names[o] /\ Node(u, m) = Node(t, o)
             /\ v.names[At(s, m)] = d.names[At(s, o)] /\ Node(v, At(s, m)) = Node(d, At(s, o))
    BY <2>6
  <2>9. Match(v, s, u, loose)
    BY <2>4, <2>7, <2>8, MatchFromOrigins
  <2> QED BY <2>1, <2>9
<1> QED BY <1>2, <1>3 DEF Follow

\* Change of nodes that stay of their kind, to nodes that are alike.
LEMMA ChangeFollows ==
  ASSUME NEW d, IsTree(d), NEW t, IsTree(t), NEW s \in STRING, NEW loose, Match(d, s, t, loose),
         NEW p \in Path, NEW a, NEW b,
         p \in DOMAIN t.names => /\ IsNode(a) /\ a.kind = Node(d, At(s, p)).kind
                                 /\ IsNode(b) /\ b.kind = Node(t, p).kind
                                 /\ AlikeIn(a, b, loose)
  PROVE  Follow(Change(d, At(s, p), a), Change(t, p, b), s, loose)
<1>1. At(s, p) \in Path
  BY AtByNames
<1>2. ASSUME Change(t, p, b) # {} PROVE p \in DOMAIN t.names
  BY <1>2 DEF Change, When, Exists
<1>3. ASSUME Change(t, p, b) # {} PROVE Change(d, At(s, p), a) # {}
  <2>1. At(s, p) \in DOMAIN d.names
    BY <1>2, <1>3, MatchNodes
  <2> QED BY <2>1 DEF Change, When, Exists
<1>4. ASSUME NEW v \in Change(d, At(s, p), a), NEW u \in Change(t, p, b)
      PROVE  IsTree(u) /\ Match(v, s, u, loose)
  <2>1. /\ p \in DOMAIN t.names /\ IsNode(a) /\ a.kind = Node(d, At(s, p)).kind
        /\ IsNode(b) /\ b.kind = Node(t, p).kind /\ AlikeIn(a, b, loose)
    BY <1>2, <1>4
  <2>2. IsTree(u) /\ Changed(t, u, p, b)
    BY <2>1, ChangeEffect
  <2>3. At(s, p) \in DOMAIN d.names /\ Changed(d, v, At(s, p), a)
    BY <1>1, <2>1, ChangeEffect
  <2>4. IsDir(v, <<s>>)
    <3>1. ASSUME NEW q \in DOMAIN d.names PROVE q \in DOMAIN v.names /\ Node(v, q).kind = Node(d, q).kind
      <4>1. d.names[q] = d.names[At(s, p)] => Node(d, q) = Node(d, At(s, p))
        BY DEF Node
      <4> QED BY <2>1, <2>3, <4>1 DEF Changed
    <3> QED BY <3>1, TopStays DEF Match
  <2>5. ASSUME NEW m \in DOMAIN t.names PROVE AlikeIn(Node(v, At(s, m)), Node(u, m), loose)
    <3>1. At(s, m) \in DOMAIN d.names /\ AlikeIn(Node(d, At(s, m)), Node(t, m), loose)
      BY MatchNodes DEF Match
    <3>2. d.names[At(s, m)] = d.names[At(s, p)] <=> t.names[m] = t.names[p]
      BY <2>1 DEF Match
    <3> QED BY <2>1, <2>2, <2>3, <3>1, <3>2 DEF Changed
  <2> QED BY <2>2, <2>3, <2>4, <2>5 DEF Changed, Match
<1> QED BY <1>3, <1>4 DEF Follow

-----------------------------------------------------------------------------
(* The calls that change a node.                                             *)

\* The content of a node changed, and nothing else.
LEMMA ContentField ==
  ASSUME NEW n, IsNode(n), NEW content
  PROVE  /\ IsNode([n EXCEPT !.content = content]) /\ [n EXCEPT !.content = content].kind = n.kind
         /\ [n EXCEPT !.content = content].content = content
         /\ [n EXCEPT !.content = content].xattr = n.xattr
         /\ [n EXCEPT !.content = content].meta = n.meta
<1>1. PICK k, c, x, m : n = [kind |-> k, content |-> c, xattr |-> x, meta |-> m]
  BY DEF IsNode
<1>2. [n EXCEPT !.content = content] = [kind |-> k, content |-> content, xattr |-> x, meta |-> m]
  BY <1>1
<1> QED BY <1>1, <1>2 DEF IsNode

\* Its extended attribute.
LEMMA XattrField ==
  ASSUME NEW n, IsNode(n), NEW value
  PROVE  /\ IsNode([n EXCEPT !.xattr = value]) /\ [n EXCEPT !.xattr = value].kind = n.kind
         /\ [n EXCEPT !.xattr = value].content = n.content
         /\ [n EXCEPT !.xattr = value].xattr = value
         /\ [n EXCEPT !.xattr = value].meta = n.meta
<1>1. PICK k, c, x, m : n = [kind |-> k, content |-> c, xattr |-> x, meta |-> m]
  BY DEF IsNode
<1>2. [n EXCEPT !.xattr = value] = [kind |-> k, content |-> c, xattr |-> value, meta |-> m]
  BY <1>1
<1> QED BY <1>1, <1>2 DEF IsNode

\* Its mode, owner or times.
LEMMA MetaField ==
  ASSUME NEW n, IsNode(n), NEW field, NEW value
  PROVE  /\ IsNode([n EXCEPT !.meta[field] = value]) /\ [n EXCEPT !.meta[field] = value].kind = n.kind
         /\ [n EXCEPT !.meta[field] = value].content = n.content
         /\ [n EXCEPT !.meta[field] = value].xattr = n.xattr
         /\ [n EXCEPT !.meta[field] = value].meta = [n.meta EXCEPT ![field] = value]
<1>1. PICK k, c, x, m : n = [kind |-> k, content |-> c, xattr |-> x, meta |-> m]
  BY DEF IsNode
<1>2. [n EXCEPT !.meta[field] = value] = [kind |-> k, content |-> c, xattr |-> x, meta |-> [m EXCEPT ![field] = value]]
  BY <1>1
<1> QED BY <1>1, <1>2 DEF IsNode

\* The content of a file: the same in both, or left open for files.
LEMMA SetContentFollows ==
  ASSUME NEW d, IsTree(d), NEW t, IsTree(t), NEW s \in STRING, NEW loose, Match(d, s, t, loose),
         NEW p \in Path, NEW c, NEW e, c = e \/ "file" \in loose
  PROVE  Follow(SetContent(d, At(s, p), c), SetContent(t, p, e), s, loose)
<1> DEFINE a == [Node(d, At(s, p)) EXCEPT !.content = c]
           b == [Node(t, p) EXCEPT !.content = e]
<1>1. CASE ~ IsFile(t, p)
  BY <1>1 DEF SetContent, Follow
<1>2. CASE IsFile(t, p)
  <2>1. p \in DOMAIN t.names /\ Node(t, p).kind = "file"
    BY <1>2 DEF IsFile, Exists
  <2>2. /\ p # <<>> /\ IsNode(Node(d, At(s, p))) /\ IsNode(Node(t, p))
        /\ Node(d, At(s, p)).kind = Node(t, p).kind
        /\ Node(d, At(s, p)).xattr = Node(t, p).xattr /\ Node(d, At(s, p)).meta = Node(t, p).meta
    BY <2>1, MatchNodes
  <2>3. IsFile(d, At(s, p))
    BY <1>2, <2>2, MatchAnswers
  <2>4. /\ IsNode(a) /\ a.kind = Node(d, At(s, p)).kind /\ a.content = c
        /\ a.xattr = Node(d, At(s, p)).xattr /\ a.meta = Node(d, At(s, p)).meta
    <3>1. PICK n : n = Node(d, At(s, p))
      OBVIOUS
    <3>2. IsNode(n)
      BY <2>2, <3>1
    <3> QED BY <3>1, <3>2, ContentField
  <2>5. /\ IsNode(b) /\ b.kind = Node(t, p).kind /\ b.content = e
        /\ b.xattr = Node(t, p).xattr /\ b.meta = Node(t, p).meta
    BY <2>2, ContentField
  <2>6. SetContent(d, At(s, p), c) = Change(d, At(s, p), a) /\ SetContent(t, p, e) = Change(t, p, b)
    BY <1>2, <2>3 DEF SetContent
  <2> HIDE DEF a, b
  <2>7. AlikeIn(a, b, loose)
    BY <2>1, <2>2, <2>4, <2>5, AlikeByParts
  <2>8. Follow(Change(d, At(s, p), a), Change(t, p, b), s, loose)
    BY <2>4, <2>5, <2>7, ChangeFollows
  <2> QED BY <2>6, <2>8
<1> QED BY <1>1, <1>2

\* The extended attribute.
LEMMA SetXattrFollows ==
  ASSUME NEW d, IsTree(d), NEW t, IsTree(t), NEW s \in STRING, NEW loose, Match(d, s, t, loose),
         NEW p \in Path, NEW value
  PROVE  Follow(Change(d, At(s, p), [Node(d, At(s, p)) EXCEPT !.xattr = value]),
                Change(t, p, [Node(t, p) EXCEPT !.xattr = value]), s, loose)
<1> DEFINE a == [Node(d, At(s, p)) EXCEPT !.xattr = value]
           b == [Node(t, p) EXCEPT !.xattr = value]
<1>1. ASSUME p \in DOMAIN t.names
      PROVE  /\ IsNode(a) /\ a.kind = Node(d, At(s, p)).kind
             /\ IsNode(b) /\ b.kind = Node(t, p).kind /\ AlikeIn(a, b, loose)
  <2>1. /\ IsNode(Node(d, At(s, p))) /\ IsNode(Node(t, p))
        /\ Node(d, At(s, p)).kind = Node(t, p).kind /\ Node(d, At(s, p)).meta = Node(t, p).meta
        /\ Node(t, p).kind \notin loose => Node(d, At(s, p)).content = Node(t, p).content
    BY <1>1, MatchNodes
  <2>2. PICK n, k : n = Node(d, At(s, p)) /\ k = Node(t, p)
    OBVIOUS
  <2>3. /\ IsNode(a) /\ a.kind = n.kind /\ a.content = n.content
        /\ a.xattr = value /\ a.meta = n.meta
    BY <2>1, <2>2, XattrField
  <2>4. /\ IsNode(b) /\ b.kind = k.kind /\ b.content = k.content
        /\ b.xattr = value /\ b.meta = k.meta
    BY <2>1, <2>2, XattrField
  <2> HIDE DEF a, b
  <2> QED BY <2>1, <2>2, <2>3, <2>4, AlikeByParts
<1> HIDE DEF a, b
<1>2. Follow(Change(d, At(s, p), a), Change(t, p, b), s, loose)
  BY <1>1, ChangeFollows
<1> QED BY <1>2 DEF a, b

\* Mode, owner and times.
LEMMA SetMetaFollows ==
  ASSUME NEW d, IsTree(d), NEW t, IsTree(t), NEW s \in STRING, NEW loose, Match(d, s, t, loose),
         NEW p \in Path, NEW field, NEW value
  PROVE  Follow(Change(d, At(s, p), [Node(d, At(s, p)) EXCEPT !.meta[field] = value]),
                Change(t, p, [Node(t, p) EXCEPT !.meta[field] = value]), s, loose)
<1> DEFINE a == [Node(d, At(s, p)) EXCEPT !.meta[field] = value]
           b == [Node(t, p) EXCEPT !.meta[field] = value]
<1>1. ASSUME p \in DOMAIN t.names
      PROVE  /\ IsNode(a) /\ a.kind = Node(d, At(s, p)).kind
             /\ IsNode(b) /\ b.kind = Node(t, p).kind /\ AlikeIn(a, b, loose)
  <2>1. /\ IsNode(Node(d, At(s, p))) /\ IsNode(Node(t, p))
        /\ Node(d, At(s, p)).kind = Node(t, p).kind /\ Node(d, At(s, p)).meta = Node(t, p).meta
        /\ Node(d, At(s, p)).xattr = Node(t, p).xattr
        /\ Node(t, p).kind \notin loose => Node(d, At(s, p)).content = Node(t, p).content
    BY <1>1, MatchNodes
  <2>2. PICK n, k : n = Node(d, At(s, p)) /\ k = Node(t, p)
    OBVIOUS
  <2>3. /\ IsNode(a) /\ a.kind = n.kind /\ a.content = n.content
        /\ a.xattr = n.xattr /\ a.meta = [n.meta EXCEPT ![field] = value]
    BY <2>1, <2>2, MetaField
  <2>4. /\ IsNode(b) /\ b.kind = k.kind /\ b.content = k.content
        /\ b.xattr = k.xattr /\ b.meta = [k.meta EXCEPT ![field] = value]
    BY <2>1, <2>2, MetaField
  <2> HIDE DEF a, b
  <2> QED BY <2>1, <2>2, <2>3, <2>4, AlikeByParts
<1> HIDE DEF a, b
<1>2. Follow(Change(d, At(s, p), a), Change(t, p, b), s, loose)
  BY <1>1, ChangeFollows
<1> QED BY <1>2 DEF a, b

\* What SetContent does to a tree.
LEMMA SetContentEffect ==
  ASSUME NEW t, IsTree(t), NEW p \in Path, NEW c, NEW u \in SetContent(t, p, c)
  PROVE  /\ IsTree(u) /\ p \in DOMAIN t.names /\ IsFile(t, p) /\ IsFile(u, p) /\ u.names = t.names
         /\ \A q \in DOMAIN t.names :
               Node(u, q) = IF t.names[q] = t.names[p] THEN [Node(t, p) EXCEPT !.content = c]
                                                      ELSE Node(t, q)
         /\ [Node(t, p) EXCEPT !.content = c].kind = Node(t, p).kind
         /\ IsNode(Node(t, p)) /\ Node(t, p).kind = "file"
<1>1. IsFile(t, p) /\ u \in Change(t, p, [Node(t, p) EXCEPT !.content = c])
  BY DEF SetContent
<1>2. p \in DOMAIN t.names /\ Node(t, p).kind = "file"
  BY <1>1 DEF IsFile, Exists
<1>3. IsNode(Node(t, p))
  BY <1>2, NamesHaveNodes
<1>4. PICK n : n = Node(t, p)
  OBVIOUS
<1>5. IsNode([n EXCEPT !.content = c]) /\ [n EXCEPT !.content = c].kind = n.kind
  BY <1>3, <1>4, ContentField
<1>6. IsTree(u) /\ Changed(t, u, p, [Node(t, p) EXCEPT !.content = c])
  BY <1>1, <1>4, <1>5, ChangeEffect
<1>7. IsFile(u, p)
  <2>1. p \in DOMAIN u.names /\ Node(u, p) = [n EXCEPT !.content = c]
    BY <1>2, <1>4, <1>6 DEF Changed
  <2> QED BY <1>2, <1>4, <1>5, <2>1 DEF IsFile, Exists
<1> QED BY <1>1, <1>2, <1>3, <1>4, <1>5, <1>6, <1>7 DEF Changed

\* Where the content of files is left open, it may change in d alone or in t
\* alone.
LEMMA ContentIsOpen ==
  ASSUME NEW d, IsTree(d), NEW t, IsTree(t), NEW s \in STRING, NEW loose, Match(d, s, t, loose),
         NEW p \in Path, NEW c, "file" \in loose
  PROVE  /\ \A v \in SetContent(d, At(s, p), c) : Match(v, s, t, loose)
         /\ \A u \in SetContent(t, p, c) : Match(d, s, u, loose)
<1>1. At(s, p) \in Path
  BY AtByNames
<1>2. ASSUME NEW n, IsNode(n), n.kind = "file", NEW m, IsNode(m), AlikeIn(n, m, loose)
      PROVE  /\ AlikeIn([n EXCEPT !.content = c], m, loose)
             /\ AlikeIn(n, [m EXCEPT !.content = c], loose)
  <2>1. /\ IsNode([n EXCEPT !.content = c]) /\ [n EXCEPT !.content = c].kind = n.kind
        /\ [n EXCEPT !.content = c].xattr = n.xattr /\ [n EXCEPT !.content = c].meta = n.meta
    BY <1>2, ContentField
  <2>2. /\ IsNode([m EXCEPT !.content = c]) /\ [m EXCEPT !.content = c].kind = m.kind
        /\ [m EXCEPT !.content = c].xattr = m.xattr /\ [m EXCEPT !.content = c].meta = m.meta
    BY <1>2, ContentField
  <2>3. PICK x, y : x = [n EXCEPT !.content = c] /\ y = [m EXCEPT !.content = c]
    OBVIOUS
  <2>4. n.kind = m.kind /\ n.xattr = m.xattr /\ n.meta = m.meta
    BY <1>2, AlikeByParts
  <2>5. AlikeIn(x, m, loose)
    BY <1>2, <2>1, <2>3, <2>4, AlikeByParts
  <2>6. AlikeIn(n, y, loose)
    BY <1>2, <2>2, <2>3, <2>4, AlikeByParts
  <2> QED BY <2>3, <2>5, <2>6
<1>3. ASSUME NEW m \in DOMAIN t.names
      PROVE  /\ m \in Path /\ m # <<>> /\ At(s, m) \in DOMAIN d.names
             /\ IsNode(Node(d, At(s, m))) /\ IsNode(Node(t, m))
             /\ Node(d, At(s, m)).kind = Node(t, m).kind
             /\ AlikeIn(Node(d, At(s, m)), Node(t, m), loose)
  BY MatchNodes DEF Match
<1>4. ASSUME NEW v \in SetContent(d, At(s, p), c) PROVE Match(v, s, t, loose)
  <2>1. /\ v.names = d.names /\ At(s, p) \in DOMAIN d.names
        /\ \A q \in DOMAIN d.names :
              Node(v, q) = IF d.names[q] = d.names[At(s, p)]
                           THEN [Node(d, At(s, p)) EXCEPT !.content = c] ELSE Node(d, q)
        /\ [Node(d, At(s, p)) EXCEPT !.content = c].kind = Node(d, At(s, p)).kind
        /\ Node(d, At(s, p)).kind = "file"
    BY <1>1, SetContentEffect
  <2>2. \A q \in DOMAIN d.names : d.names[q] = d.names[At(s, p)] => Node(d, q) = Node(d, At(s, p))
    BY DEF Node
  <2>3. IsDir(v, <<s>>)
    BY <2>1, <2>2, TopStays DEF Match
  <2>4. ASSUME NEW m \in DOMAIN t.names PROVE AlikeIn(Node(v, At(s, m)), Node(t, m), loose)
    <3>1. CASE d.names[At(s, m)] = d.names[At(s, p)]
      <4>1. Node(d, At(s, m)) = Node(d, At(s, p))
        BY <1>3, <2>2, <3>1
      <4>2. Node(v, At(s, m)) = [Node(d, At(s, m)) EXCEPT !.content = c] /\ Node(d, At(s, m)).kind = "file"
        BY <1>3, <2>1, <3>1, <4>1
      <4>3. /\ AlikeIn(Node(d, At(s, m)), Node(t, m), loose)
            /\ IsNode(Node(d, At(s, m))) /\ IsNode(Node(t, m))
        BY <1>3
      <4>4. AlikeIn([Node(d, At(s, m)) EXCEPT !.content = c], Node(t, m), loose)
        BY <1>2, <4>2, <4>3
      <4> QED BY <4>2, <4>4
    <3>2. CASE d.names[At(s, m)] # d.names[At(s, p)]
      BY <1>3, <2>1, <3>2
    <3> QED BY <3>1, <3>2
  <2> QED BY <2>1, <2>3, <2>4 DEF Match
<1>5. ASSUME NEW u \in SetContent(t, p, c) PROVE Match(d, s, u, loose)
  <2>1. /\ u.names = t.names /\ p \in DOMAIN t.names
        /\ \A q \in DOMAIN t.names :
              Node(u, q) = IF t.names[q] = t.names[p]
                           THEN [Node(t, p) EXCEPT !.content = c] ELSE Node(t, q)
        /\ Node(t, p).kind = "file"
    BY SetContentEffect
  <2>2. \A q \in DOMAIN t.names : t.names[q] = t.names[p] => Node(t, q) = Node(t, p)
    BY DEF Node
  <2>3. ASSUME NEW m \in DOMAIN t.names PROVE AlikeIn(Node(d, At(s, m)), Node(u, m), loose)
    <3>1. CASE t.names[m] = t.names[p]
      <4>1. Node(t, m) = Node(t, p)
        BY <2>2, <3>1
      <4>2. Node(u, m) = [Node(t, m) EXCEPT !.content = c] /\ Node(t, m).kind = "file"
        BY <2>1, <3>1, <4>1
      <4>3. /\ AlikeIn(Node(d, At(s, m)), Node(t, m), loose) /\ Node(d, At(s, m)).kind = "file"
            /\ IsNode(Node(d, At(s, m))) /\ IsNode(Node(t, m))
        BY <1>3, <4>2
      <4>4. AlikeIn(Node(d, At(s, m)), [Node(t, m) EXCEPT !.content = c], loose)
        BY <1>2, <4>3
      <4> QED BY <4>2, <4>4
    <3>2. CASE t.names[m] # t.names[p]
      BY <1>3, <2>1, <3>2
    <3> QED BY <3>1, <3>2
  <2> QED BY <2>1, <2>3 DEF Match
<1> QED BY <1>4, <1>5

-----------------------------------------------------------------------------
(* Streams.                                                                  *)

\* A subvolume that has just been created matches an empty tree.
LEMMA NewMatches ==
  ASSUME NEW d, IsTree(d), NEW s \in STRING, ~ Exists(d, <<s>>), NEW loose
  PROVE  LET ds == Create(d, <<s>>, NewNode("subvol", <<>>))
         IN  ds # {} /\ \A v \in ds : Match(v, s, EmptyTree, loose)
<1> DEFINE node == NewNode("subvol", <<>>)
<1>1. <<s>> \in Path /\ <<s>> # <<>> /\ Len(<<s>>) = 1
  BY ShortPaths, AtByNames
<1>2. IsNode(node) /\ node.kind \in DirKinds
  BY DEF IsNode, NewNode, DirKinds
<1>3. Parent(<<s>>) = <<>>
  <2>1. PICK p \in Path : p = <<s>>
    BY <1>1
  <2>2. Parent(p) \in Path /\ Len(Parent(p)) = Len(p) - 1 /\ Len(p) = 1
    BY <1>1, <2>1, ParentByNames
  <2>3. Len(Parent(p)) = 0
    BY <2>2
  <2> QED BY <2>1, <2>2, <2>3, EmptySeq DEF Path
<1>4. Free(d, <<s>>)
  BY <1>1, <1>3 DEF Free, IsDir
<1> HIDE DEF node
<1>5. Create(d, <<s>>, node) # {}
  BY <1>4 DEF Create, When
<1>6. DOMAIN EmptyTree.names = {}
  BY DEF EmptyTree
<1>7. ASSUME NEW v \in Create(d, <<s>>, node) PROVE Match(v, s, EmptyTree, loose)
  <2>1. Added(d, v, <<s>>) /\ Node(v, <<s>>) = node
    BY <1>1, <1>2, CreateEffect
  <2>2. IsDir(v, <<s>>)
    BY <1>2, <2>1 DEF Added, IsDir, Exists
  <2>3. ASSUME NEW p \in Path \ {<<>>} PROVE At(s, p) \notin DOMAIN v.names
    <3>1. At(s, p) # <<s>> /\ Within(<<s>>, At(s, p))
      BY AtOrder, AtByNames
    <3>2. ~ IsDir(d, <<s>>)
      BY <1>1 DEF IsDir
    <3>3. At(s, p) \notin DOMAIN d.names
      BY <1>1, <3>1, <3>2, NothingBeneath DEF Beneath
    <3> QED BY <2>1, <3>1, <3>3 DEF Added
  <2> QED BY <1>6, <2>2, <2>3 DEF Match
<1> QED BY <1>5, <1>7 DEF node

\* The tree of a stream that begins.
LEMMA EmptyIsTree == IsTree(EmptyTree)
<1>1. EmptyTree.names = <<>> /\ EmptyTree.nodes = <<>>
  BY DEF EmptyTree
<1>2. DOMAIN <<>> = {} /\ IsFiniteSet({})
  BY FS_EmptySet
<1>3. <<>> \in [{} -> {}]
  BY <1>2
<1>4. <<>> = [i \in {} |->
          [kind |-> <<>>[i].kind, content |-> <<>>[i].content,
           xattr |-> <<>>[i].xattr, meta |-> <<>>[i].meta]]
  OBVIOUS
<1> QED BY <1>1, <1>2, <1>3, <1>4 DEF IsTree, EmptyTree

\* What is done within another subvolume.
LEMMA KeptMatch ==
  ASSUME NEW d, NEW v, NEW r \in STRING, Kept(d, v, r),
         NEW s \in STRING, s # r, NEW t, IsTree(t), NEW loose, Match(d, s, t, loose)
  PROVE  Match(v, s, t, loose)
<1>1. <<r>> \in Path /\ Len(<<r>>) = 1 /\ <<r>>[1] = r /\ <<s>> \in Path /\ <<s>>[1] = s
  BY ShortPaths
<1>2. ASSUME NEW p \in Path, p[1] = s PROVE ~ Within(<<r>>, p)
  <2>1. 1 \in 1 .. Len(<<r>>)
    BY <1>1
  <2> QED BY <1>1, <1>2, <2>1, WithinByNames
<1>3. ASSUME NEW p \in Path
      PROVE  /\ At(s, p) \in DOMAIN v.names <=> At(s, p) \in DOMAIN d.names
             /\ At(s, p) \in DOMAIN d.names =>
                   v.names[At(s, p)] = d.names[At(s, p)] /\ Node(v, At(s, p)) = Node(d, At(s, p))
  <2>1. At(s, p) \in Path /\ At(s, p)[1] = s
    BY AtByNames
  <2> QED BY <1>2, <2>1 DEF Kept
<1>4. IsDir(v, <<s>>)
  <2>1. ~ Within(<<r>>, <<s>>)
    BY <1>1, <1>2
  <2> QED BY <2>1, TopStays DEF Kept, Match
<1>5. ASSUME NEW p \in DOMAIN t.names
      PROVE  v.names[At(s, p)] = d.names[At(s, p)] /\ Node(v, At(s, p)) = Node(d, At(s, p))
  <2>1. p \in Path /\ p # <<>>
    BY TreeParts
  <2>2. At(s, p) \in DOMAIN d.names
    BY <2>1 DEF Match
  <2> QED BY <1>3, <2>1, <2>2
<1> QED BY <1>3, <1>4, <1>5 DEF Match

\* What is below s in a tree, seen from there.
LEMMA BelowByNames ==
  ASSUME NEW d, IsTree(d), NEW s \in STRING
  PROVE  /\ DOMAIN Below(d, <<s>>).names = {p \in Path \ {<<>>} : At(s, p) \in DOMAIN d.names}
         /\ \A p \in Path \ {<<>>} : At(s, p) \in DOMAIN d.names =>
               /\ Below(d, <<s>>).names[p] = d.names[At(s, p)]
               /\ Node(Below(d, <<s>>), p) = Node(d, At(s, p))
<1> DEFINE beneath == {r \in DOMAIN d.names : Beneath(<<s>>, r)}
           From(q) == SubSeq(q, Len(<<s>>) + 1, Len(q))
           inside  == {From(q) : q \in beneath}
           names   == [q \in inside |-> d.names[<<s>> \o q]]
           b       == Below(d, <<s>>)
<1>1. b = [names |-> names, nodes |-> d.nodes]
  BY DEF Below
<1>2. ASSUME NEW q \in Path, Within(<<s>>, q) PROVE From(q) = Replaced(q, <<s>>, <<>>)
  <2>1. From(q) \in Path
    <3>1. Len(<<s>>) \in Nat /\ Len(q) \in Nat /\ Len(<<s>>) <= Len(q)
      <4>1. Len(<<s>>) \in Nat
        BY ShortPaths
      <4>2. Len(q) \in Nat
        BY DEF Path
      <4>3. Len(<<s>>) <= Len(q)
        BY <1>2 DEF Within
      <4> QED BY <4>1, <4>2, <4>3
    <3>2. PICK n \in Nat : n = Len(<<s>>)
      BY <3>1
    <3>3. SubSeq(q, n + 1, Len(q)) \in Path
      BY <3>1, <3>2 DEF Path
    <3> QED BY <3>2, <3>3
  <2>2. \A x \in Path : <<>> \o x = x
    BY ConcatEmptySeq DEF Path
  <2> QED BY <2>1, <2>2 DEF Replaced
<1>3. ASSUME NEW q \in beneath
      PROVE  From(q) \in Path \ {<<>>} /\ At(s, From(q)) = q
  <2>1. q \in Path /\ Within(<<s>>, q) /\ q # <<s>>
    BY TreeParts DEF Beneath
  <2>2. From(q) = Replaced(q, <<s>>, <<>>)
    BY <1>2, <2>1
  <2> HIDE DEF From
  <2> QED BY <2>1, <2>2, WithinIsAt
<1>4. ASSUME NEW p \in Path \ {<<>>}, At(s, p) \in DOMAIN d.names
      PROVE  At(s, p) \in beneath /\ From(At(s, p)) = p
  <2>1. At(s, p) \in Path /\ Within(<<s>>, At(s, p)) /\ Replaced(At(s, p), <<s>>, <<>>) = p
    BY AtByNames
  <2>2. At(s, p) # <<s>>
    BY AtOrder
  <2>3. From(At(s, p)) = p
    BY <1>2, <2>1
  <2> QED BY <1>4, <2>1, <2>2, <2>3 DEF Beneath
<1> HIDE DEF From, beneath
<1>5. inside = {p \in Path \ {<<>>} : At(s, p) \in DOMAIN d.names}
  <2>1. ASSUME NEW p \in inside PROVE p \in Path \ {<<>>} /\ At(s, p) \in DOMAIN d.names
    <3>1. PICK q \in beneath : p = From(q)
      OBVIOUS
    <3>2. q \in DOMAIN d.names
      BY DEF beneath
    <3> QED BY <1>3, <3>1, <3>2
  <2>2. ASSUME NEW p \in Path \ {<<>>}, At(s, p) \in DOMAIN d.names PROVE p \in inside
    BY <1>4, <2>2
  <2> QED BY <2>1, <2>2
<1> HIDE DEF inside
<1>6. DOMAIN names = inside /\ \A p \in inside : names[p] = d.names[At(s, p)]
  BY DEF At
<1> HIDE DEF names, b
<1>7. b.names = names /\ b.nodes = d.nodes
  BY <1>1
<1> QED BY <1>5, <1>6, <1>7 DEF b, Node

-----------------------------------------------------------------------------
(* The handler.                                                            *)

\* A stream of the subvolume s is replayed: the buffers begin with its name.
InStream(s) ==
    /\ current_subvol = <<s>>
    /\ Apart(dest, s)
    /\ path_buf \in Path /\ Within(<<s>>, path_buf)
    /\ path_buf_secondary \in Path /\ Within(<<s>>, path_buf_secondary)

\* A write in progress is to a file within s.
InWrite(s) ==
    /\ job = [path |-> job.path, off |-> job.off, data |-> job.data]
    /\ job.path \in Path /\ Within(<<s>>, job.path)

HandlerInv ==
    /\ IsTree(dest)
    /\ workload \in Workloads
    /\ phase = "idle" /\ origin # "none" => current_subvol # <<>>
    /\ phase = "writing" => current_subvol # <<>>
    /\ phase \in {"idle", "writing"} /\ current_subvol # <<>> =>
          \E s \in Subvols : InStream(s) /\ (phase = "writing" => InWrite(s))

\* What a call at a path within s may make of the tree.
Fine(u, s) == IsTree(u) /\ Apart(u, s) /\ Kept(dest, u, s)

\* What a step does during the stream of s: the rest is kept, and the stream
\* goes on or the handler has stopped.
StaysIn(s) ==
    /\ IsTree(dest') /\ Kept(dest, dest', s)
    /\ current_subvol' = <<s>>
    /\ phase' \in {"idle", "writing"} => InStream(s)'
    /\ phase' = "writing" => InWrite(s)'

-----------------------------------------------------------------------------
(* Paths.                                                                    *)

\* The path of a subvolume is one name.
LEMMA SubvolPath ==
  ASSUME NEW s \in Subvols
  PROVE  /\ s \in STRING /\ <<s>> \in Path /\ <<s>> # <<>> /\ Len(<<s>>) = 1
         /\ Within(<<s>>, <<s>>) /\ <<s>>[1] = s
<1>1. s \in STRING
  BY HandlerAssumption
<1>2. <<s>> \in Path
  BY <1>1, NameIsPath
<1>3. <<s>> # <<>>
  OBVIOUS
<1>4. Len(<<s>>) = 1
  OBVIOUS
<1>5. <<s>>[1] = s
  OBVIOUS
<1> QED BY <1>1, <1>2, <1>3, <1>4, <1>5, WithinOrder

\* <<s>> \o p is a path within s.
LEMMA BehindSubvol ==
  ASSUME NEW s \in Subvols, NEW p \in Path
  PROVE  <<s>> \o p \in Path /\ Within(<<s>>, <<s>> \o p)
<1>1. <<s>> \in Path /\ Len(<<s>>) = 1 /\ <<s>>[1] = s
  BY SubvolPath
<1>2. /\ <<s>> \o p \in Path /\ Len(<<s>> \o p) = 1 + Len(p) /\ Len(p) \in Nat
      /\ (<<s>> \o p)[1] = s
  BY <1>1 DEF Path
<1>3. PICK c \in Path : c = <<s>> \o p
  BY <1>2
<1>4. \A i \in 1 .. 1 : c[i] = <<s>>[i]
  BY <1>1, <1>2, <1>3
<1>5. 1 <= Len(c)
  BY <1>2, <1>3
<1> QED BY <1>1, <1>3, <1>4, <1>5, WithinByNames

\* do_c_path puts a path behind the name of the subvolume.
LEMMA CPathWithin ==
  ASSUME NEW s \in Subvols, current_subvol = <<s>>,
         NEW buf \in Path, Within(<<s>>, buf), NEW p \in Path
  PROVE  CPath(buf, p) \in Path /\ Within(<<s>>, CPath(buf, p))
<1>1. SubSeq(buf, 1, Len(current_subvol)) = <<s>>
  BY DEF Within
<1> QED BY <1>1, BehindSubvol DEF CPath

\* So does each method, in its buffers.
LEMMA PathsWithin ==
  ASSUME NEW s \in Subvols, InStream(s), NEW p \in Path
  PROVE  /\ C(p) \in Path /\ Within(<<s>>, C(p))
         /\ C2(p) \in Path /\ Within(<<s>>, C2(p))
         /\ FallbackPath(p) \in Path /\ Within(<<s>>, FallbackPath(p))
<1>1. FallbackPath(p) = <<s>> \o p
  BY DEF FallbackPath, InStream
<1> QED BY <1>1, BehindSubvol, CPathWithin DEF C, C2, InStream

\* The paths a sender uses.
LEMMA PathsOf ==
  ASSUME HandlerInv
  PROVE  Paths \subseteq Path /\ workload.subvols \subseteq Subvols
BY HandlerAssumption DEF HandlerInv, Paths, Path

\* A command of the sender finds the handler in a stream.
LEMMA SendInStream ==
  ASSUME HandlerInv, NEW kind, NEW trees, Send(kind, trees)
  PROVE  /\ phase = "idle" /\ workload' = workload /\ origin' = origin
         /\ \E s \in Subvols : InStream(s)
BY DEF Send, Command, HandlerInv

-----------------------------------------------------------------------------
(* The outcome of system calls.                                              *)

\* The tree as it is.
LEMMA SameTreeIsFine ==
  ASSUME IsTree(dest), NEW s, Apart(dest, s)
  PROVE  Fine(dest, s)
BY DEF Fine, Kept

\* A call at paths within s, which may fail, stays in s.
LEMMA CallStays ==
  ASSUME IsTree(dest), NEW s \in Subvols, InStream(s), phase = "idle",
         NEW trees, \A u \in trees : Fine(u, s), call(trees)
  PROVE  /\ IsTree(dest') /\ Kept(dest, dest', s)
         /\ phase' \in {"idle", "failed"}
         /\ phase' = "idle" => Apart(dest', s)
<1>1. CASE dest' \in trees /\ UNCHANGED <<phase, cause>>
  BY <1>1 DEF Fine
<1>2. CASE phase' = "failed" /\ dest' = dest
  BY <1>2, SameTreeIsFine DEF Fine, InStream
<1> QED BY <1>1, <1>2 DEF call, fail

\* A method with one path.
LEMMA OnePath ==
  ASSUME IsTree(dest), NEW s \in Subvols, InStream(s), phase = "idle", NEW p \in Path,
         NEW trees, \A u \in trees : Fine(u, s), with_path(p, trees)
  PROVE  StaysIn(s)
<1>1. /\ IsTree(dest') /\ Kept(dest, dest', s) /\ phase' \in {"idle", "failed"}
      /\ phase' = "idle" => Apart(dest', s)
  <2>1. CASE Fits(p)
    BY <2>1, CallStays DEF with_path
  <2>2. CASE ~ Fits(p)
    BY <2>2, SameTreeIsFine DEF with_path, fail, Fine, InStream
  <2> QED BY <2>1, <2>2
<1>2. path_buf' \in Path /\ Within(<<s>>, path_buf')
  BY CPathWithin DEF with_path, get_c_path, InStream
<1> QED BY <1>1, <1>2 DEF StaysIn, InStream, with_path

\* A method with two.
LEMMA TwoPaths ==
  ASSUME IsTree(dest), NEW s \in Subvols, InStream(s), phase = "idle",
         NEW p \in Path, NEW path2 \in Path,
         NEW trees, \A u \in trees : Fine(u, s), with_paths(p, path2, trees)
  PROVE  StaysIn(s)
<1>1. /\ IsTree(dest') /\ Kept(dest, dest', s) /\ phase' \in {"idle", "failed"}
      /\ phase' = "idle" => Apart(dest', s)
  <2>1. CASE Fits(p) /\ Fits(path2)
    BY <2>1, CallStays DEF with_paths
  <2>2. CASE ~ (Fits(p) /\ Fits(path2))
    BY <2>2, SameTreeIsFine DEF with_paths, fail, Fine, InStream
  <2> QED BY <2>1, <2>2
<1>2. path_buf' \in Path /\ Within(<<s>>, path_buf')
  BY CPathWithin DEF with_paths, get_c_path, InStream
<1>3. path_buf_secondary' \in Path /\ Within(<<s>>, path_buf_secondary')
  BY CPathWithin DEF with_paths, get_c_path_secondary, InStream
<1> QED BY <1>1, <1>2, <1>3 DEF StaysIn, InStream, with_paths

-----------------------------------------------------------------------------
(* Each call the handler makes, at paths within s.                           *)

\* The nodes of a tree have all their fields, and so has one that is changed.
LEMMA Nodes ==
  ASSUME IsTree(dest), NEW p, p \in DOMAIN dest.names, NEW content, NEW value, NEW field
  PROVE  /\ IsNode(Node(dest, p))
         /\ IsNode([Node(dest, p) EXCEPT !.content = content])
         /\ [Node(dest, p) EXCEPT !.content = content].kind = Node(dest, p).kind
         /\ IsNode([Node(dest, p) EXCEPT !.xattr = value])
         /\ [Node(dest, p) EXCEPT !.xattr = value].kind = Node(dest, p).kind
         /\ IsNode([Node(dest, p) EXCEPT !.meta[field] = value])
         /\ [Node(dest, p) EXCEPT !.meta[field] = value].kind = Node(dest, p).kind
<1>1. IsNode(Node(dest, p))
  BY TreeParts, NodesOf DEF Node
<1>2. PICK k, c, x, m : Node(dest, p) = [kind |-> k, content |-> c, xattr |-> x, meta |-> m]
  BY <1>1 DEF IsNode
<1>3. /\ [Node(dest, p) EXCEPT !.content = content]
            = [kind |-> k, content |-> content, xattr |-> x, meta |-> m]
      /\ [Node(dest, p) EXCEPT !.xattr = value]
            = [kind |-> k, content |-> c, xattr |-> value, meta |-> m]
      /\ [Node(dest, p) EXCEPT !.meta[field] = value]
            = [kind |-> k, content |-> c, xattr |-> x, meta |-> [m EXCEPT ![field] = value]]
  BY <1>2
<1> QED BY <1>1, <1>2, <1>3 DEF IsNode

\* So has a new one.
LEMMA NewNodes ==
  ASSUME NEW kind, NEW content
  PROVE  IsNode(NewNode(kind, content))
BY DEF IsNode, NewNode

\* The calls with one path.
LEMMA CallsAreFine ==
  ASSUME IsTree(dest), NEW s \in Subvols, Apart(dest, s), NEW p \in Path, Within(<<s>>, p)
  PROVE  /\ \A kind, content : \A u \in Create(dest, p, NewNode(kind, content)) : Fine(u, s)
         /\ \A u \in Unlink(dest, p) : Fine(u, s)
         /\ \A u \in Rmdir(dest, p) : Fine(u, s)
         /\ \A content : \A u \in SetContent(dest, p, content) : Fine(u, s)
         /\ \A value : \A u \in SetXattr(dest, p, value) : Fine(u, s)
         /\ \A field, value : \A u \in SetMeta(dest, p, field, value) : Fine(u, s)
<1>0. s \in STRING
  BY HandlerAssumption
<1>1. ASSUME NEW kind, NEW content, NEW u \in Create(dest, p, NewNode(kind, content))
      PROVE  Fine(u, s)
  BY <1>0, <1>1, NewNodes, CreateKeeps DEF Fine
<1>2. ASSUME NEW u \in Unlink(dest, p) PROVE Fine(u, s)
  BY <1>0, <1>2, RemoveKeeps DEF Fine
<1>3. ASSUME NEW u \in Rmdir(dest, p) PROVE Fine(u, s)
  BY <1>0, <1>3, RemoveKeeps DEF Fine
<1>4. ASSUME NEW content, NEW u \in SetContent(dest, p, content) PROVE Fine(u, s)
  <2>1. /\ p \in DOMAIN dest.names
        /\ u \in Change(dest, p, [Node(dest, p) EXCEPT !.content = content])
    BY <1>4 DEF SetContent, IsFile, Exists
  <2> QED BY <1>0, <2>1, Nodes, ChangeKeeps DEF Fine
<1>5. ASSUME NEW value, NEW u \in SetXattr(dest, p, value) PROVE Fine(u, s)
  <2>1. /\ p \in DOMAIN dest.names
        /\ u \in Change(dest, p, [Node(dest, p) EXCEPT !.xattr = value])
    BY <1>5 DEF SetXattr, Exists
  <2> QED BY <1>0, <2>1, Nodes, ChangeKeeps DEF Fine
<1>6. ASSUME NEW field, NEW value, NEW u \in SetMeta(dest, p, field, value) PROVE Fine(u, s)
  <2>1. /\ p \in DOMAIN dest.names
        /\ u \in Change(dest, p, [Node(dest, p) EXCEPT !.meta[field] = value])
    BY <1>6 DEF SetMeta, Exists
  <2> QED BY <1>0, <2>1, Nodes, ChangeKeeps DEF Fine
<1> QED BY <1>1, <1>2, <1>3, <1>4, <1>5, <1>6

\* Those with two.
LEMMA TwoPathCallsAreFine ==
  ASSUME IsTree(dest), NEW s \in Subvols, Apart(dest, s),
         NEW p \in Path, Within(<<s>>, p), NEW q \in Path, Within(<<s>>, q)
  PROVE  /\ \A u \in Rename(dest, p, q) : Fine(u, s)
         /\ \A u \in Link(dest, q, p) : Fine(u, s)
<1>1. s \in STRING
  BY HandlerAssumption
<1> QED BY <1>1, RenameKeeps, LinkKeeps DEF Fine

-----------------------------------------------------------------------------
(* The methods.                                                              *)

\* A panic leaves everything as it is.
LEMMA PanicStays ==
  ASSUME IsTree(dest), NEW s, InStream(s), panic
  PROVE  StaysIn(s)
BY SameTreeIsFine DEF panic, StaysIn, InStream, Fine

\* What every step during a stream keeps.
StreamStep ==
    /\ workload' = workload /\ origin' = origin
    /\ \E s \in Subvols : InStream(s) /\ StaysIn(s)

\* Creating, renaming, linking and removing names.
LEMMA NameStepStays ==
  ASSUME HandlerInv, NameStep
  PROVE  StreamStep
<1> USE DEF HandlerInv
<1>1. CASE mkfile
  <2>1. PICK p \in Paths :
          /\ Send("mkfile", Create(sent, p, NewNode("file", <<>>)))
          /\ with_path(p, OpenCreate(dest, C(p)))
    BY <1>1 DEF mkfile
  <2>2. PICK s \in Subvols : InStream(s)
    BY <2>1, SendInStream
  <2>3. p \in Path /\ C(p) \in Path /\ Within(<<s>>, C(p))
    BY <2>2, PathsOf, PathsWithin
  <2>4. \A u \in OpenCreate(dest, C(p)) : Fine(u, s)
    BY <2>2, <2>3, CallsAreFine DEF OpenCreate, InStream
  <2> QED BY <2>1, <2>2, <2>3, <2>4, SendInStream, OnePath DEF StreamStep
<1>2. CASE mkdir
  <2>1. PICK p \in Paths :
          /\ Send("mkdir", Create(sent, p, NewNode("dir", <<>>)))
          /\ with_path(p, Create(dest, C(p), NewNode("dir", <<>>)))
    BY <1>2 DEF mkdir
  <2>2. PICK s \in Subvols : InStream(s)
    BY <2>1, SendInStream
  <2>3. p \in Path /\ C(p) \in Path /\ Within(<<s>>, C(p))
    BY <2>2, PathsOf, PathsWithin
  <2>4. \A u \in Create(dest, C(p), NewNode("dir", <<>>)) : Fine(u, s)
    BY <2>2, <2>3, CallsAreFine DEF InStream
  <2> QED BY <2>1, <2>2, <2>3, <2>4, SendInStream, OnePath DEF StreamStep
<1>3. CASE mknod
  <2>1. PICK p \in Paths, kind \in {"device", "fifo", "socket"} :
          /\ Send("mknod", Create(sent, p, NewNode(kind, <<>>)))
          /\ with_path(p, Create(dest, C(p), NewNode(kind, <<>>)))
    BY <1>3 DEF mknod
  <2>2. PICK s \in Subvols : InStream(s)
    BY <2>1, SendInStream
  <2>3. p \in Path /\ C(p) \in Path /\ Within(<<s>>, C(p))
    BY <2>2, PathsOf, PathsWithin
  <2>4. \A u \in Create(dest, C(p), NewNode(kind, <<>>)) : Fine(u, s)
    BY <2>2, <2>3, CallsAreFine DEF InStream
  <2> QED BY <2>1, <2>2, <2>3, <2>4, SendInStream, OnePath DEF StreamStep
<1>4. CASE symlink
  <2>1. PICK p \in Paths, target \in Paths :
          /\ Send("symlink", Create(sent, p, NewNode("symlink", target)))
          /\ with_paths(p, target, Create(dest, C(p), NewNode("symlink", C2(target))))
    BY <1>4 DEF symlink
  <2>2. PICK s \in Subvols : InStream(s)
    BY <2>1, SendInStream
  <2>3. /\ p \in Path /\ C(p) \in Path /\ Within(<<s>>, C(p))
        /\ target \in Path /\ C2(target) \in Path /\ Within(<<s>>, C2(target))
    BY <2>2, PathsOf, PathsWithin
  <2>4. \A u \in Create(dest, C(p), NewNode("symlink", C2(target))) : Fine(u, s)
    BY <2>2, <2>3, CallsAreFine DEF InStream
  <2> QED BY <2>1, <2>2, <2>3, <2>4, SendInStream, TwoPaths DEF StreamStep
<1>5. CASE rename
  <2>1. PICK p \in Paths, path_to \in Paths :
          /\ Send("rename", Rename(sent, p, path_to))
          /\ with_paths(p, path_to, Rename(dest, C(p), C2(path_to)))
    BY <1>5 DEF rename
  <2>2. PICK s \in Subvols : InStream(s)
    BY <2>1, SendInStream
  <2>3. /\ p \in Path /\ C(p) \in Path /\ Within(<<s>>, C(p))
        /\ path_to \in Path /\ C2(path_to) \in Path /\ Within(<<s>>, C2(path_to))
    BY <2>2, PathsOf, PathsWithin
  <2>4. \A u \in Rename(dest, C(p), C2(path_to)) : Fine(u, s)
    BY <2>2, <2>3, TwoPathCallsAreFine DEF InStream
  <2> QED BY <2>1, <2>2, <2>3, <2>4, SendInStream, TwoPaths DEF StreamStep
<1>6. CASE link
  <2>1. PICK p \in Paths, path_link \in Paths :
          /\ Send("link", Link(sent, path_link, p))
          /\ with_paths(p, path_link, Link(dest, C2(path_link), C(p)))
    BY <1>6 DEF link
  <2>2. PICK s \in Subvols : InStream(s)
    BY <2>1, SendInStream
  <2>3. /\ p \in Path /\ C(p) \in Path /\ Within(<<s>>, C(p))
        /\ path_link \in Path /\ C2(path_link) \in Path /\ Within(<<s>>, C2(path_link))
    BY <2>2, PathsOf, PathsWithin
  <2>4. \A u \in Link(dest, C2(path_link), C(p)) : Fine(u, s)
    BY <2>2, <2>3, TwoPathCallsAreFine DEF InStream
  <2> QED BY <2>1, <2>2, <2>3, <2>4, SendInStream, TwoPaths DEF StreamStep
<1>7. CASE unlink
  <2>1. PICK p \in Paths :
          /\ Send("unlink", Unlink(sent, p))
          /\ with_path(p, Unlink(dest, C(p)))
    BY <1>7 DEF unlink
  <2>2. PICK s \in Subvols : InStream(s)
    BY <2>1, SendInStream
  <2>3. p \in Path /\ C(p) \in Path /\ Within(<<s>>, C(p))
    BY <2>2, PathsOf, PathsWithin
  <2>4. \A u \in Unlink(dest, C(p)) : Fine(u, s)
    BY <2>2, <2>3, CallsAreFine DEF InStream
  <2> QED BY <2>1, <2>2, <2>3, <2>4, SendInStream, OnePath DEF StreamStep
<1>8. CASE rmdir
  <2>1. PICK p \in Paths :
          /\ Send("rmdir", Rmdir(sent, p))
          /\ with_path(p, Rmdir(dest, C(p)))
    BY <1>8 DEF rmdir
  <2>2. PICK s \in Subvols : InStream(s)
    BY <2>1, SendInStream
  <2>3. p \in Path /\ C(p) \in Path /\ Within(<<s>>, C(p))
    BY <2>2, PathsOf, PathsWithin
  <2>4. \A u \in Rmdir(dest, C(p)) : Fine(u, s)
    BY <2>2, <2>3, CallsAreFine DEF InStream
  <2> QED BY <2>1, <2>2, <2>3, <2>4, SendInStream, OnePath DEF StreamStep
<1> QED BY <1>1, <1>2, <1>3, <1>4, <1>5, <1>6, <1>7, <1>8 DEF NameStep

\* File data, also between two turns of the write loop.
LEMMA DataStepStays ==
  ASSUME HandlerInv, DataStep
  PROVE  StreamStep
<1> USE DEF HandlerInv
<1>1. CASE write
  <2>1. PICK p \in Paths, off \in 0 .. MaxSize, data \in Data :
          /\ Send("write", SentPatch(p, off, data))
          /\ get_c_path(p)
          /\ UNCHANGED <<dest, path_buf_secondary, current_subvol>>
          /\ \/ phase' = "writing" /\ job' = [path |-> C(p), off |-> off, data |-> data]
             \/ phase' = "failed"
    BY <1>1 DEF write
  <2>2. PICK s \in Subvols : InStream(s)
    BY <2>1, SendInStream
  <2>3. p \in Path /\ C(p) \in Path /\ Within(<<s>>, C(p))
    BY <2>2, PathsOf, PathsWithin
  <2>4. IsTree(dest') /\ Kept(dest, dest', s)
    BY <2>1, <2>2, SameTreeIsFine DEF Fine, InStream
  <2>5. InStream(s)'
    BY <2>1, <2>2, <2>3 DEF InStream, get_c_path, C
  <2>6. phase' = "writing" => InWrite(s)'
    BY <2>1, <2>3 DEF InWrite
  <2> QED BY <2>1, <2>2, <2>4, <2>5, <2>6, SendInStream DEF StreamStep, StaysIn, InStream
<1>2. CASE pwrite
  <2>1. /\ phase = "writing"
        /\ UNCHANGED <<path_buf, path_buf_secondary, current_subvol, workload, origin>>
    BY <1>2 DEF pwrite, senderVars
  <2>2. PICK s \in Subvols : InStream(s) /\ InWrite(s)
    BY <2>1
  <2>3. Fine(dest', s) /\ (phase' = "writing" => InWrite(s)')
    <3>1. CASE dest' = dest /\ phase' = "failed"
      BY <2>2, <3>1, SameTreeIsFine DEF InStream
    <3>2. CASE \E n \in 1 .. Len(job.data) :
                 /\ dest' \in SetContent(dest, job.path,
                                 Patch(Node(dest, job.path).content, job.off,
                                       SubSeq(job.data, 1, n)))
                 /\ LET rest == SubSeq(job.data, n + 1, Len(job.data))
                    IN  IF rest = <<>> THEN phase' = "idle" /\ job' = NoJob
                                       ELSE job' = [job EXCEPT !.data = rest] /\ UNCHANGED phase
      <4>1. PICK n \in 1 .. Len(job.data) :
              /\ dest' \in SetContent(dest, job.path,
                              Patch(Node(dest, job.path).content, job.off,
                                    SubSeq(job.data, 1, n)))
              /\ \/ phase' = "idle"
                 \/ job' = [job EXCEPT !.data = SubSeq(job.data, n + 1, Len(job.data))]
        BY <3>2
      <4>2. Fine(dest', s)
        BY <2>2, <4>1, CallsAreFine DEF InStream, InWrite
      <4>3. ASSUME NEW rest, job' = [job EXCEPT !.data = rest] PROVE InWrite(s)'
        <5>1. PICK q, o, d : job = [path |-> q, off |-> o, data |-> d]
          BY <2>2 DEF InWrite
        <5>2. job' = [path |-> q, off |-> o, data |-> rest] /\ q = job.path
          BY <4>3, <5>1
        <5> QED BY <2>2, <5>2 DEF InWrite
      <4> QED BY <4>1, <4>2, <4>3
    <3> QED BY <1>2, <3>1, <3>2 DEF pwrite, fail
  <2> QED BY <2>1, <2>2, <2>3 DEF StreamStep, StaysIn, InStream, Fine
<1>3. CASE encoded_write
  <2>1. PICK p \in Paths, off \in 0 .. MaxSize, data \in Data :
          /\ Send("encoded_write", SentPatch(p, off, data))
          /\ with_path(p, IF IsFile(dest, C(p))
                        THEN SetContent(dest, C(p), Patch(Node(dest, C(p)).content, off, data))
                        ELSE {})
    BY <1>3 DEF encoded_write
  <2>2. PICK s \in Subvols : InStream(s)
    BY <2>1, SendInStream
  <2>3. p \in Path /\ C(p) \in Path /\ Within(<<s>>, C(p))
    BY <2>2, PathsOf, PathsWithin
  <2>4. \A u \in IF IsFile(dest, C(p))
                        THEN SetContent(dest, C(p), Patch(Node(dest, C(p)).content, off, data))
                        ELSE {} : Fine(u, s)
    BY <2>2, <2>3, CallsAreFine DEF InStream
  <2> QED BY <2>1, <2>2, <2>3, <2>4, SendInStream, OnePath DEF StreamStep
<1>4. CASE fallocate
  <2>1. PICK p \in Paths, off \in 0 .. MaxSize, size \in 1 .. MaxSize :
          /\ Send("fallocate", SentPatch(p, off, [i \in 1 .. size |-> 0]))
          /\ with_path(p, IF IsFile(dest, C(p))
                        THEN SetContent(dest, C(p), Patch(Node(dest, C(p)).content, off, [i \in 1 .. size |-> 0]))
                        ELSE {})
    BY <1>4 DEF fallocate
  <2>2. PICK s \in Subvols : InStream(s)
    BY <2>1, SendInStream
  <2>3. p \in Path /\ C(p) \in Path /\ Within(<<s>>, C(p))
    BY <2>2, PathsOf, PathsWithin
  <2>4. \A u \in IF IsFile(dest, C(p))
                        THEN SetContent(dest, C(p), Patch(Node(dest, C(p)).content, off, [i \in 1 .. size |-> 0]))
                        ELSE {} : Fine(u, s)
    BY <2>2, <2>3, CallsAreFine DEF InStream
  <2> QED BY <2>1, <2>2, <2>3, <2>4, SendInStream, OnePath DEF StreamStep
<1>5. CASE truncate
  <2>1. PICK p \in Paths, size \in 0 .. MaxSize :
          /\ Send("truncate", IF IsFile(sent, p)
                            THEN SetContent(sent, p, Resize(Node(sent, p).content, size)) ELSE {})
          /\ with_path(p, IF ~ IsFile(dest, C(p)) THEN {}
                        ELSE IF size = 0 THEN SetContent(dest, C(p), <<>>)
                        ELSE SetContent(dest, C(p), Resize(Node(dest, C(p)).content, size)))
    BY <1>5 DEF truncate
  <2>2. PICK s \in Subvols : InStream(s)
    BY <2>1, SendInStream
  <2>3. p \in Path /\ C(p) \in Path /\ Within(<<s>>, C(p))
    BY <2>2, PathsOf, PathsWithin
  <2>4. \A u \in IF ~ IsFile(dest, C(p)) THEN {}
                        ELSE IF size = 0 THEN SetContent(dest, C(p), <<>>)
                        ELSE SetContent(dest, C(p), Resize(Node(dest, C(p)).content, size)) : Fine(u, s)
    BY <2>2, <2>3, CallsAreFine DEF InStream
  <2> QED BY <2>1, <2>2, <2>3, <2>4, SendInStream, OnePath DEF StreamStep
<1>6. CASE clone
  <2>1. PICK p \in Paths, clone_path \in Paths, file_offset, clone_offset \in 0 .. MaxSize,
             clone_len \in 1 .. MaxSize :
          /\ Send("clone", SentPatch(p, file_offset, Extent(sent, clone_path, clone_offset, clone_len)))
          /\ \/ with_paths(p, clone_path,
                   IF IsFile(dest, C(p)) /\ IsFile(dest, C2(clone_path))
                   THEN SetContent(dest, C(p),
                           Patch(Node(dest, C(p)).content, file_offset,
                                 Extent(dest, C2(clone_path), clone_offset, clone_len)))
                   ELSE {})
             \/ panic
    BY <1>6 DEF clone
  <2>2. PICK s \in Subvols : InStream(s)
    BY <2>1, SendInStream
  <2>3. p \in Path /\ C(p) \in Path /\ Within(<<s>>, C(p)) /\ clone_path \in Path
    BY <2>2, PathsOf, PathsWithin
  <2>4. \A content : \A u \in SetContent(dest, C(p), content) : Fine(u, s)
    BY <2>2, <2>3, CallsAreFine DEF InStream
  <2>5. CASE panic
    BY <2>1, <2>2, <2>5, SendInStream, PanicStays DEF StreamStep
  <2>6. CASE ~ panic
    BY <2>1, <2>2, <2>3, <2>4, <2>6, SendInStream, TwoPaths DEF StreamStep
  <2> QED BY <2>5, <2>6
<1> QED BY <1>1, <1>2, <1>3, <1>4, <1>5, <1>6 DEF DataStep

\* Attributes, with the path of the fallback.
LEMMA AttrStepStays ==
  ASSUME HandlerInv, AttrStep
  PROVE  StreamStep
<1> USE DEF HandlerInv
<1>1. CASE setattr
  <2>1. PICK p \in Paths, field \in {"mode", "owner", "times"}, v \in {1, 2} :
          /\ Send("setattr", SetMeta(sent, p, field, v))
          /\ with_path(p, SetMeta(dest, C(p), field, v))
    BY <1>1 DEF setattr
  <2>2. PICK s \in Subvols : InStream(s)
    BY <2>1, SendInStream
  <2>3. p \in Path /\ C(p) \in Path /\ Within(<<s>>, C(p))
    BY <2>2, PathsOf, PathsWithin
  <2>4. \A u \in SetMeta(dest, C(p), field, v) : Fine(u, s)
    BY <2>2, <2>3, CallsAreFine DEF InStream
  <2> QED BY <2>1, <2>2, <2>3, <2>4, SendInStream, OnePath DEF StreamStep
<1>2. ASSUME NEW p \in Paths, NEW v, NEW trees, Send("xattr", trees), xattr(p, v)
      PROVE  StreamStep
  <2>1. PICK s \in Subvols : InStream(s)
    BY <1>2, SendInStream
  <2>2. p \in Path /\ FallbackPath(p) \in Path /\ Within(<<s>>, FallbackPath(p))
    BY <2>1, PathsOf, PathsWithin
  <2>3. \A u \in SetXattr(dest, FallbackPath(p), v) : Fine(u, s)
    BY <2>1, <2>2, CallsAreFine DEF InStream
  <2>4. /\ IsTree(dest') /\ Kept(dest, dest', s) /\ phase' \in {"idle", "failed"}
        /\ phase' = "idle" => Apart(dest', s)
    <3>1. CASE call(SetXattr(dest, FallbackPath(p), v))
      BY <1>2, <2>1, <2>3, <3>1, SendInStream, CallStays
    <3>2. CASE phase' = "failed" /\ dest' = dest
      BY <2>1, <3>2, SameTreeIsFine DEF Fine, InStream
    <3> QED BY <1>2, <3>1, <3>2 DEF xattr, fail
  <2>5. path_buf' \in Path /\ Within(<<s>>, path_buf')
    BY <1>2, <2>1, <2>2, CPathWithin DEF xattr, get_c_path, InStream
  <2>6. UNCHANGED <<path_buf_secondary, current_subvol>>
    BY <1>2 DEF xattr
  <2> QED BY <1>2, <2>1, <2>4, <2>5, <2>6, SendInStream DEF StreamStep, StaysIn, InStream
<1>3. CASE set_xattr \/ remove_xattr
  BY <1>2, <1>3 DEF set_xattr, remove_xattr
<1>4. CASE update_extent \/ fileattr
  <2>1. UNCHANGED handlerVars /\ \E kind : Send(kind, {sent})
    BY <1>4 DEF update_extent, fileattr
  <2>2. PICK s \in Subvols : InStream(s)
    BY <2>1, SendInStream
  <2> QED BY <2>1, <2>2, SendInStream, SameTreeIsFine
          DEF StreamStep, StaysIn, InStream, Fine, handlerVars
<1> QED BY <1>1, <1>3, <1>4 DEF AttrStep
-----------------------------------------------------------------------------
(* The theorems.                                                             *)

\* What OnlyInSubvol says of a step.
InSubvolStep ==
    LET s == IF current_subvol = <<>> THEN current_subvol' ELSE current_subvol
    IN  Outside(dest', s) = Outside(dest, s)

\* A step during a stream keeps the invariant and the rest of the tree.
LEMMA StreamStepKeeps ==
  ASSUME HandlerInv, StreamStep
  PROVE  HandlerInv' /\ InSubvolStep
<1>1. PICK s \in Subvols : InStream(s) /\ StaysIn(s)
  BY DEF StreamStep
<1>2. current_subvol = <<s>> /\ current_subvol' = <<s>> /\ <<s>> # <<>>
  BY <1>1, SubvolPath DEF InStream, StaysIn
<1>3. HandlerInv'
  BY <1>1, <1>2 DEF HandlerInv, StreamStep, StaysIn
<1>4. Outside(dest', <<s>>) = Outside(dest, <<s>>)
  BY <1>1, KeptOutside DEF StaysIn
<1> QED BY <1>2, <1>3, <1>4 DEF InSubvolStep

\* A subvolume is created where nothing is.
LEMMA NewSubvolIsFine ==
  ASSUME IsTree(dest), NEW s \in Subvols, ~ Exists(dest, <<s>>),
         NEW u \in Create(dest, <<s>>, NewNode("subvol", <<>>))
  PROVE  Fine(u, s)
<1>1. <<s>> \in Path /\ <<s>> # <<>> /\ Within(<<s>>, <<s>>)
  BY SubvolPath
<1>2. Apart(dest, s)
  <2>1. \A q \in DOMAIN dest.names : ~ Beneath(<<s>>, q)
    BY <1>1, NothingBeneath DEF IsDir
  <2> QED BY <2>1 DEF Apart, Beneath, Exists
<1> QED BY <1>1, <1>2, CallsAreFine

\* So does the beginning of a stream: nothing is where the subvolume will be.
LEMMA SubvolKeeps ==
  ASSUME HandlerInv, subvol
  PROVE  HandlerInv' /\ InSubvolStep
<1>1. PICK s \in workload.subvols, uuid \in Uuids :
        /\ Command("subvol")
        /\ IF current_subvol # <<>>
           THEN fail("protocol") /\ UNCHANGED <<current_subvol, origin>>
           ELSE /\ Prefixed(s)
                /\ current_subvol' = <<s>>
                /\ IF Exists(dest, <<s>>) THEN fail("exists")
                   ELSE call(Create(dest, <<s>>, NewNode("subvol", <<>>)))
                /\ origin' = uuid
  BY DEF subvol
<1>2. s \in Subvols /\ IsTree(dest) /\ phase = "idle" /\ workload \in Workloads /\ workload' = workload
  BY <1>1, PathsOf DEF HandlerInv, Command
<1>3. s \in STRING /\ <<s>> \in Path /\ <<s>> # <<>> /\ Within(<<s>>, <<s>>)
  BY <1>2, SubvolPath
<1>4. CASE dest' = dest /\ phase' = "failed"
  BY <1>2, <1>4 DEF HandlerInv, InSubvolStep
<1>5. CASE /\ current_subvol = <<>> /\ ~ Exists(dest, <<s>>)
           /\ dest' \in Create(dest, <<s>>, NewNode("subvol", <<>>)) /\ phase' = phase
  <2>2. Fine(dest', s)
    BY <1>2, <1>5, NewSubvolIsFine
  <2>3. current_subvol' = <<s>> /\ path_buf' = <<s>> /\ path_buf_secondary' = <<s>>
    BY <1>1, <1>5 DEF Prefixed
  <2>4. HandlerInv'
    BY <1>2, <1>3, <1>5, <2>2, <2>3 DEF HandlerInv, InStream, Fine
  <2>5. InSubvolStep
    BY <1>5, <2>2, <2>3, KeptOutside DEF Fine, InSubvolStep
  <2> QED BY <2>4, <2>5
<1>6. \/ dest' = dest /\ phase' = "failed"
      \/ /\ current_subvol = <<>> /\ ~ Exists(dest, <<s>>)
         /\ dest' \in Create(dest, <<s>>, NewNode("subvol", <<>>)) /\ phase' = phase
  BY <1>1 DEF fail, call
<1> QED BY <1>4, <1>5, <1>6

\* And its end, and a command that is not implemented.
LEMMA EndKeeps ==
  ASSUME HandlerInv, end \/ incremental
  PROVE  HandlerInv' /\ InSubvolStep
<1>1. dest' = dest /\ workload' = workload
  BY DEF end, incremental, panic, Command, fail
<1>2. \/ phase' \in {"failed", "panicked"}
      \/ phase' = "idle" /\ origin' = "none" /\ current_subvol' = <<>>
  <2>1. CASE incremental
    BY <2>1 DEF incremental, panic
  <2>2. CASE end /\ current_subvol = <<>>
    BY <2>2 DEF end, fail
  <2>3. CASE end /\ current_subvol # <<>>
    <3>1. /\ phase = "idle" /\ current_subvol' = <<>>
          /\ \/ origin' = "none" /\ phase' = phase
             \/ phase' = "failed"
      BY <2>3 DEF end, fail, Command
    <3> QED BY <3>1
  <2> QED BY <2>1, <2>2, <2>3
<1> QED BY <1>1, <1>2 DEF HandlerInv, InSubvolStep

\* The first state.
LEMMA HandlerInvInit == Init => HandlerInv
BY HandlerAssumption DEF Init, HandlerInv

\* Every step.
LEMMA HandlerInvStep ==
    HandlerInv /\ [Next]_vars => HandlerInv' /\ (InSubvolStep \/ UNCHANGED vars)
<1> SUFFICES ASSUME HandlerInv, [Next]_vars
             PROVE  HandlerInv' /\ (InSubvolStep \/ UNCHANGED vars)
  OBVIOUS
<1>1. CASE NameStep \/ DataStep \/ AttrStep
  BY <1>1, NameStepStays, DataStepStays, AttrStepStays, StreamStepKeeps
<1>2. CASE SubvolStep
  BY <1>2, SubvolKeeps, EndKeeps DEF SubvolStep
<1>3. CASE UNCHANGED vars
  <2>1. UNCHANGED <<dest, path_buf, path_buf_secondary, current_subvol, phase, job, workload, origin>>
    BY <1>3 DEF vars, handlerVars, senderVars
  <2>2. HandlerInv'
    BY <2>1 DEF HandlerInv, InStream, InWrite
  <2> QED BY <1>3, <2>2
<1> QED BY <1>1, <1>2, <1>3 DEF Next, Stopped

\* The tree stays one, and the buffers begin with the current subvolume.
THEOREM HandlerInvariant == Spec => []HandlerInv
<1>1. HandlerInv /\ [Next]_vars => HandlerInv'
  BY HandlerInvStep
<1> QED BY <1>1, HandlerInvInit, PTL DEF Spec

\* No step touches anything outside the subvolume of the current stream,
\* whatever is there, however many commands are sent, and whatever fails.
THEOREM HandlerOnlyInSubvol == Spec => OnlyInSubvol
<1>1. HandlerInv /\ [Next]_vars => [InSubvolStep]_vars
  BY HandlerInvStep
<1>2. OnlyInSubvol <=> [][InSubvolStep]_vars
  BY DEF OnlyInSubvol, InSubvolStep
<1> QED BY <1>1, <1>2, HandlerInvariant, PTL DEF Spec

-----------------------------------------------------------------------------
(* What is replayed.  At every command the subvolume matches the tree the    *)
(* sender has described (Match); during the turns of the write loop it       *)
(* matches the tree in front of the write, and the patch is still to come.   *)
(* A subvolume that was received matches the tree at the end of its stream:  *)
(* its name exists, so that no later stream is of that name, and what later  *)
(* streams do is outside (Kept).                                             *)

\* The targets of symlinks go through a path buffer.  The data of a write whose
\* pwrites may be short is not compared.
Loose == IF ShortWrites THEN {"symlink", "file"} ELSE {"symlink"}

\* What the turns of the write loop have still to do.
Writing(s) ==
    \E p \in Path :
        /\ job.path = At(s, p) /\ IsFile(dest, job.path)
        /\ IF ShortWrites THEN Match(dest, s, sent, Loose)
           ELSE /\ job.data \in Seq(Nat)
                /\ \E t : /\ IsTree(t) /\ Match(dest, s, t, Loose)
                          /\ sent \in SetContent(t, p, Patch(Node(t, p).content, job.off, job.data))

\* The stream of s: s is not marked as received yet, and matches.
Replaying(s) ==
    /\ received[s] = "none" /\ received_uuid = origin
    /\ phase = "idle" => Match(dest, s, sent, Loose)
    /\ phase = "writing" => Writing(s)

\* A stream that was ended.
Received(s) ==
    /\ received[s] = complete[s].uuid
    /\ IsTree(complete[s].tree) /\ Match(dest, s, complete[s].tree, Loose)

ReplayInv ==
    /\ IsTree(sent)
    /\ received = [s \in Subvols |-> received[s]] /\ complete = [s \in Subvols |-> complete[s]]
    /\ \A s \in Subvols : current_subvol = <<s>> /\ phase \in {"idle", "writing"} => Replaying(s)
    /\ \A s \in Subvols : received[s] # "none" => Received(s)
    /\ phase \in {"idle", "writing"} => cause # "refused"

\* What a step makes of it during the stream of s.
Replays(s) ==
    /\ IsTree(sent') /\ UNCHANGED <<received, complete, received_uuid>>
    /\ phase' = "idle" => Match(dest', s, sent', Loose)
    /\ phase' = "writing" => Writing(s)'
    /\ cause' = "refused" => phase' = "failed" /\ AttributeByXattrat

-----------------------------------------------------------------------------
(* Commands.                                                                 *)

\* The path of each system call is that of the command, below the subvolume.
LEMMA PathsAre ==
  ASSUME NEW s \in Subvols, InStream(s), NEW p \in Path
  PROVE  C(p) = At(s, p) /\ C2(p) = At(s, p) /\ FallbackPath(p) = At(s, p)
<1>1. current_subvol = <<s>> /\ Within(<<s>>, path_buf) /\ Within(<<s>>, path_buf_secondary)
  BY DEF InStream
<1>2. SubSeq(path_buf, 1, Len(current_subvol)) = <<s>>
  BY <1>1 DEF Within
<1>3. SubSeq(path_buf_secondary, 1, Len(current_subvol)) = <<s>>
  BY <1>1 DEF Within
<1> QED BY <1>1, <1>2, <1>3 DEF C, C2, CPath, FallbackPath, At

\* The trees at a command.
LEMMA InReplay ==
  ASSUME HandlerInv, ReplayInv, NEW s \in Subvols, InStream(s), phase = "idle"
  PROVE  /\ IsTree(dest) /\ IsTree(sent) /\ s \in STRING /\ Match(dest, s, sent, Loose)
         /\ received[s] = "none" /\ received_uuid = origin /\ cause # "refused"
BY HandlerAssumption DEF HandlerInv, ReplayInv, Replaying, InStream

\* A system call that follows the sender's.
LEMMA CallReplays ==
  ASSUME NEW s, phase = "idle", cause # "refused", NEW trees, trees # {},
         \A v \in trees : Match(v, s, sent', Loose), call(trees)
  PROVE  /\ phase' = "idle" => Match(dest', s, sent', Loose)
         /\ phase' # "writing" /\ cause' # "refused"
BY DEF call, fail

\* What the sender describes.
LEMMA SentFollows ==
  ASSUME NEW s, NEW kind, NEW sents, Send(kind, sents), NEW trees, Follow(trees, sents, s, Loose)
  PROVE  /\ trees # {} /\ IsTree(sent') /\ \A v \in trees : Match(v, s, sent', Loose)
         /\ complete' = complete
<1>1. sent' \in sents /\ complete' = complete
  BY DEF Send
<1>2. trees # {} /\ \A v \in trees : IsTree(sent') /\ Match(v, s, sent', Loose)
  BY <1>1 DEF Follow
<1> QED BY <1>1, <1>2

\* A method with one path.
LEMMA OnePathReplays ==
  ASSUME HandlerInv, ReplayInv, NEW s \in Subvols, InStream(s),
         NEW kind, NEW sents, Send(kind, sents), NEW trees, Follow(trees, sents, s, Loose),
         NEW p, with_path(p, trees)
  PROVE  Replays(s)
<1>1. phase = "idle" /\ cause # "refused"
  BY SendInStream, InReplay
<1>2. /\ phase' = "idle" => Match(dest', s, sent', Loose)
      /\ phase' # "writing" /\ cause' # "refused"
  <2>1. CASE Fits(p)
    BY <1>1, <2>1, SentFollows, CallReplays DEF with_path
  <2>2. CASE ~ Fits(p)
    BY <2>2 DEF with_path, fail
  <2> QED BY <2>1, <2>2
<1> QED BY <1>2, SentFollows DEF Replays, with_path

\* A method with two.
LEMMA TwoPathsReplay ==
  ASSUME HandlerInv, ReplayInv, NEW s \in Subvols, InStream(s),
         NEW kind, NEW sents, Send(kind, sents), NEW trees, Follow(trees, sents, s, Loose),
         NEW p, NEW path2, with_paths(p, path2, trees)
  PROVE  Replays(s)
<1>1. phase = "idle" /\ cause # "refused"
  BY SendInStream, InReplay
<1>2. /\ phase' = "idle" => Match(dest', s, sent', Loose)
      /\ phase' # "writing" /\ cause' # "refused"
  <2>1. CASE Fits(p) /\ Fits(path2)
    BY <1>1, <2>1, SentFollows, CallReplays DEF with_paths
  <2>2. CASE ~ (Fits(p) /\ Fits(path2))
    BY <2>2 DEF with_paths, fail
  <2> QED BY <2>1, <2>2
<1> QED BY <1>2, SentFollows DEF Replays, with_paths

\* Nodes that are created: all but the target of a symlink is the same.
LEMMA CreatedFollow ==
  ASSUME HandlerInv, ReplayInv, NEW s \in Subvols, InStream(s), phase = "idle",
         NEW p \in Path, NEW kind, NEW c, NEW e, c = e \/ kind = "symlink"
  PROVE  Follow(Create(dest, At(s, p), NewNode(kind, c)), Create(sent, p, NewNode(kind, e)), s, Loose)
<1>1. IsNode(NewNode(kind, c)) /\ IsNode(NewNode(kind, e))
  BY NewNodes
<1>2. AlikeIn(NewNode(kind, c), NewNode(kind, e), Loose)
  BY DEF AlikeIn, NewNode, Loose
<1> QED BY <1>1, <1>2, InReplay, CreateFollows

\* mkfile finds no file where the sender created one.
LEMMA OpenCreateFollows ==
  ASSUME HandlerInv, ReplayInv, NEW s \in Subvols, InStream(s), phase = "idle", NEW p \in Path
  PROVE  Follow(OpenCreate(dest, At(s, p)), Create(sent, p, NewNode("file", <<>>)), s, Loose)
<1>1. CASE Free(sent, p)
  <2>1. ~ Exists(dest, At(s, p))
    BY <1>1, InReplay, MatchAnswers DEF Free
  <2> QED BY <2>1, CreatedFollow DEF OpenCreate
<1>2. CASE ~ Free(sent, p)
  BY <1>2 DEF Create, When, Follow
<1> QED BY <1>1, <1>2

\* Files have the same content, unless pwrites may be short.
LEMMA SameContent ==
  ASSUME NEW d, IsTree(d), NEW t, IsTree(t), NEW s \in STRING, Match(d, s, t, Loose),
         NEW p \in Path, IsFile(t, p)
  PROVE  /\ IsFile(d, At(s, p))
         /\ "file" \in Loose \/ Node(d, At(s, p)).content = Node(t, p).content
<1>1. p \in DOMAIN t.names /\ Node(t, p).kind = "file"
  BY DEF IsFile, Exists
<1>2. p # <<>> /\ (Node(t, p).kind \notin Loose => Node(d, At(s, p)).content = Node(t, p).content)
  BY <1>1, MatchNodes
<1> QED BY <1>1, <1>2, MatchAnswers

\* Data put into a file.
LEMMA PatchFollows ==
  ASSUME HandlerInv, ReplayInv, NEW s \in Subvols, InStream(s), phase = "idle", NEW p \in Path,
         NEW off, NEW data, NEW given, given = data \/ "file" \in Loose
  PROVE  Follow(IF IsFile(dest, At(s, p))
                THEN SetContent(dest, At(s, p), Patch(Node(dest, At(s, p)).content, off, given))
                ELSE {},
                SentPatch(p, off, data), s, Loose)
<1>1. CASE ~ (IsFile(sent, p) /\ off + Len(data) <= MaxSize)
  BY <1>1 DEF SentPatch, Follow
<1>2. CASE IsFile(sent, p) /\ off + Len(data) <= MaxSize
  <2>1. /\ IsFile(dest, At(s, p))
        /\ "file" \in Loose \/ Node(dest, At(s, p)).content = Node(sent, p).content
    BY <1>2, InReplay, SameContent
  <2>2. \/ Patch(Node(dest, At(s, p)).content, off, given) = Patch(Node(sent, p).content, off, data)
        \/ "file" \in Loose
    BY <2>1
  <2>3. Follow(SetContent(dest, At(s, p), Patch(Node(dest, At(s, p)).content, off, given)),
               SetContent(sent, p, Patch(Node(sent, p).content, off, data)), s, Loose)
    BY <2>2, InReplay, SetContentFollows
  <2> QED BY <1>2, <2>1, <2>3 DEF SentPatch
<1> QED BY <1>1, <1>2

\* Nothing is left of a file that is resized to 0.
LEMMA ResizeToNothing ==
  ASSUME NEW content
  PROVE  Resize(content, 0) = <<>>
<1>1. 1 .. 0 = {}
  OBVIOUS
<1> QED BY <1>1 DEF Resize

\* A file resized.
LEMMA ResizeFollows ==
  ASSUME HandlerInv, ReplayInv, NEW s \in Subvols, InStream(s), phase = "idle", NEW p \in Path,
         NEW size
  PROVE  Follow(IF ~ IsFile(dest, At(s, p)) THEN {}
                ELSE IF size = 0 THEN SetContent(dest, At(s, p), <<>>)
                ELSE SetContent(dest, At(s, p), Resize(Node(dest, At(s, p)).content, size)),
                IF IsFile(sent, p)
                THEN SetContent(sent, p, Resize(Node(sent, p).content, size)) ELSE {}, s, Loose)
<1> DEFINE new == IF size = 0 THEN <<>> ELSE Resize(Node(dest, At(s, p)).content, size)
<1>1. CASE ~ IsFile(sent, p)
  BY <1>1 DEF Follow
<1>2. CASE IsFile(sent, p)
  <2>1. /\ IsFile(dest, At(s, p))
        /\ "file" \in Loose \/ Node(dest, At(s, p)).content = Node(sent, p).content
    BY <1>2, InReplay, SameContent
  <2>2. new = Resize(Node(sent, p).content, size) \/ "file" \in Loose
    BY <2>1, ResizeToNothing
  <2>3. Follow(SetContent(dest, At(s, p), new),
               SetContent(sent, p, Resize(Node(sent, p).content, size)), s, Loose)
    <3> HIDE DEF new
    <3> QED BY <2>2, InReplay, SetContentFollows
  <2> QED BY <1>2, <2>1, <2>3
<1> QED BY <1>1, <1>2

\* Attributes.
LEMMA AttributesFollow ==
  ASSUME HandlerInv, ReplayInv, NEW s \in Subvols, InStream(s), phase = "idle", NEW p \in Path,
         NEW field, NEW v
  PROVE  /\ Follow(SetMeta(dest, At(s, p), field, v), SetMeta(sent, p, field, v), s, Loose)
         /\ Follow(SetXattr(dest, At(s, p), v), SetXattr(sent, p, v), s, Loose)
<1>1. CASE ~ Exists(sent, p)
  BY <1>1 DEF SetMeta, SetXattr, Follow
<1>2. CASE Exists(sent, p)
  <2>1. p # <<>>
    BY <1>2, InReplay, TreeParts DEF Exists
  <2>2. Exists(dest, At(s, p))
    BY <1>2, <2>1, InReplay, MatchAnswers
  <2>3. Follow(Change(dest, At(s, p), [Node(dest, At(s, p)) EXCEPT !.meta[field] = v]),
               Change(sent, p, [Node(sent, p) EXCEPT !.meta[field] = v]), s, Loose)
    BY InReplay, SetMetaFollows
  <2>4. Follow(Change(dest, At(s, p), [Node(dest, At(s, p)) EXCEPT !.xattr = v]),
               Change(sent, p, [Node(sent, p) EXCEPT !.xattr = v]), s, Loose)
    BY InReplay, SetXattrFollows
  <2> QED BY <1>2, <2>2, <2>3, <2>4 DEF SetMeta, SetXattr
<1> QED BY <1>1, <1>2

-----------------------------------------------------------------------------
(* The methods again.                                                        *)

\* Names.
LEMMA NameStepReplays ==
  ASSUME HandlerInv, ReplayInv, NEW s \in Subvols, InStream(s), NameStep
  PROVE  Replays(s)
<1>1. CASE mkfile
  <2>1. PICK p \in Paths :
          /\ Send("mkfile", Create(sent, p, NewNode("file", <<>>)))
          /\ with_path(p, OpenCreate(dest, C(p)))
    BY <1>1 DEF mkfile
  <2>2. /\ p \in Path /\ C(p) = At(s, p)
        /\ phase = "idle"
    BY <2>1, SendInStream, PathsOf, PathsAre
  <2>3. Follow(OpenCreate(dest, C(p)),
               Create(sent, p, NewNode("file", <<>>)), s, Loose)
    BY <2>2, OpenCreateFollows
  <2> QED BY <2>1, <2>2, <2>3, OnePathReplays
<1>2. CASE mkdir
  <2>1. PICK p \in Paths :
          /\ Send("mkdir", Create(sent, p, NewNode("dir", <<>>)))
          /\ with_path(p, Create(dest, C(p), NewNode("dir", <<>>)))
    BY <1>2 DEF mkdir
  <2>2. /\ p \in Path /\ C(p) = At(s, p)
        /\ phase = "idle"
    BY <2>1, SendInStream, PathsOf, PathsAre
  <2>3. Follow(Create(dest, C(p), NewNode("dir", <<>>)),
               Create(sent, p, NewNode("dir", <<>>)), s, Loose)
    BY <2>2, CreatedFollow
  <2> QED BY <2>1, <2>2, <2>3, OnePathReplays
<1>3. CASE mknod
  <2>1. PICK p \in Paths, kind \in {"device", "fifo", "socket"} :
          /\ Send("mknod", Create(sent, p, NewNode(kind, <<>>)))
          /\ with_path(p, Create(dest, C(p), NewNode(kind, <<>>)))
    BY <1>3 DEF mknod
  <2>2. /\ p \in Path /\ C(p) = At(s, p)
        /\ phase = "idle"
    BY <2>1, SendInStream, PathsOf, PathsAre
  <2>3. Follow(Create(dest, C(p), NewNode(kind, <<>>)),
               Create(sent, p, NewNode(kind, <<>>)), s, Loose)
    BY <2>2, CreatedFollow
  <2> QED BY <2>1, <2>2, <2>3, OnePathReplays
<1>4. CASE symlink
  <2>1. PICK p \in Paths, target \in Paths :
          /\ Send("symlink", Create(sent, p, NewNode("symlink", target)))
          /\ with_paths(p, target, Create(dest, C(p), NewNode("symlink", C2(target))))
    BY <1>4 DEF symlink
  <2>2. /\ p \in Path /\ C(p) = At(s, p) /\ target \in Path /\ C2(target) = At(s, target)
        /\ phase = "idle"
    BY <2>1, SendInStream, PathsOf, PathsAre
  <2>3. Follow(Create(dest, C(p), NewNode("symlink", C2(target))),
               Create(sent, p, NewNode("symlink", target)), s, Loose)
    BY <2>2, CreatedFollow
  <2> QED BY <2>1, <2>2, <2>3, TwoPathsReplay
<1>5. CASE rename
  <2>1. PICK p \in Paths, path_to \in Paths :
          /\ Send("rename", Rename(sent, p, path_to))
          /\ with_paths(p, path_to, Rename(dest, C(p), C2(path_to)))
    BY <1>5 DEF rename
  <2>2. /\ p \in Path /\ C(p) = At(s, p) /\ path_to \in Path /\ C2(path_to) = At(s, path_to)
        /\ phase = "idle"
    BY <2>1, SendInStream, PathsOf, PathsAre
  <2>3. Follow(Rename(dest, C(p), C2(path_to)),
               Rename(sent, p, path_to), s, Loose)
    BY <2>2, InReplay, RenameFollows
  <2> QED BY <2>1, <2>2, <2>3, TwoPathsReplay
<1>6. CASE link
  <2>1. PICK p \in Paths, path_link \in Paths :
          /\ Send("link", Link(sent, path_link, p))
          /\ with_paths(p, path_link, Link(dest, C2(path_link), C(p)))
    BY <1>6 DEF link
  <2>2. /\ p \in Path /\ C(p) = At(s, p) /\ path_link \in Path /\ C2(path_link) = At(s, path_link)
        /\ phase = "idle"
    BY <2>1, SendInStream, PathsOf, PathsAre
  <2>3. Follow(Link(dest, C2(path_link), C(p)),
               Link(sent, path_link, p), s, Loose)
    BY <2>2, InReplay, LinkFollows
  <2> QED BY <2>1, <2>2, <2>3, TwoPathsReplay
<1>7. CASE unlink
  <2>1. PICK p \in Paths :
          /\ Send("unlink", Unlink(sent, p))
          /\ with_path(p, Unlink(dest, C(p)))
    BY <1>7 DEF unlink
  <2>2. /\ p \in Path /\ C(p) = At(s, p)
        /\ phase = "idle"
    BY <2>1, SendInStream, PathsOf, PathsAre
  <2>3. Follow(Unlink(dest, C(p)),
               Unlink(sent, p), s, Loose)
    BY <2>2, InReplay, UnlinkFollows
  <2> QED BY <2>1, <2>2, <2>3, OnePathReplays
<1>8. CASE rmdir
  <2>1. PICK p \in Paths :
          /\ Send("rmdir", Rmdir(sent, p))
          /\ with_path(p, Rmdir(dest, C(p)))
    BY <1>8 DEF rmdir
  <2>2. /\ p \in Path /\ C(p) = At(s, p)
        /\ phase = "idle"
    BY <2>1, SendInStream, PathsOf, PathsAre
  <2>3. Follow(Rmdir(dest, C(p)),
               Rmdir(sent, p), s, Loose)
    BY <2>2, InReplay, RmdirFollows
  <2> QED BY <2>1, <2>2, <2>3, OnePathReplays
<1> QED BY <1>1, <1>2, <1>3, <1>4, <1>5, <1>6, <1>7, <1>8 DEF NameStep

\* write opens the file.
LEMMA WriteReplays ==
  ASSUME HandlerInv, ReplayInv, NEW s \in Subvols, InStream(s), write
  PROVE  Replays(s)
<1>1. PICK p \in Paths, off \in 0 .. MaxSize, data \in Data :
        /\ Send("write", SentPatch(p, off, data))
        /\ UNCHANGED <<dest, received, received_uuid>>
        /\ \/ /\ phase' = "writing"
              /\ job' = [path |-> C(p), off |-> off, data |-> data]
              /\ UNCHANGED cause
           \/ /\ ~ (Fits(p) /\ IsFile(dest, C(p))) \/ Faults
              /\ phase' = "failed"
              /\ cause' = IF ~ Fits(p) THEN "too long"
                          ELSE IF IsFile(dest, C(p)) THEN "fault" ELSE "refused"
  BY DEF write
<1>2. p \in Path /\ C(p) = At(s, p) /\ phase = "idle" /\ data \in Seq(Nat)
  BY <1>1, SendInStream, PathsOf, PathsAre, HandlerAssumption
<1>3. IsTree(dest) /\ IsTree(sent) /\ s \in STRING /\ Match(dest, s, sent, Loose) /\ cause # "refused"
  BY <1>2, InReplay
<1> DEFINE new == Patch(Node(sent, p).content, off, data)
<1>4. sent' \in SetContent(sent, p, new) /\ complete' = complete
  BY <1>1 DEF Send, SentPatch
<1> HIDE DEF new
<1>5. IsTree(sent') /\ IsFile(sent, p)
  BY <1>2, <1>3, <1>4, SetContentEffect
<1>6. IsFile(dest, C(p))
  BY <1>2, <1>3, <1>5, SameContent
<1>7. ASSUME phase' = "writing" PROVE Writing(s)'
  <2>1. dest' = dest /\ job' = [path |-> At(s, p), off |-> off, data |-> data]
    BY <1>1, <1>2, <1>7
  <2>2. job'.path = At(s, p) /\ job'.off = off /\ job'.data = data
    BY <2>1
  <2>3. IsFile(dest', job'.path)
    BY <1>2, <1>6, <2>1, <2>2
  <2>4. CASE ShortWrites
    <3>1. Match(dest, s, sent', Loose)
      BY <1>2, <1>3, <1>4, <2>4, ContentIsOpen DEF Loose
    <3> QED BY <1>2, <2>1, <2>2, <2>3, <2>4, <3>1 DEF Writing
  <2>5. CASE ~ ShortWrites
    <3>1. sent' \in SetContent(sent, p, Patch(Node(sent, p).content, job'.off, job'.data))
      BY <1>4, <2>2 DEF new
    <3>2. Match(dest', s, sent, Loose) /\ job'.data \in Seq(Nat)
      BY <1>2, <1>3, <2>1, <2>2
    <3> QED BY <1>2, <1>3, <2>2, <2>3, <2>5, <3>1, <3>2 DEF Writing
  <2> QED BY <2>4, <2>5
<1>8. phase' # "idle" /\ cause' # "refused"
  BY <1>1, <1>3, <1>6
<1> QED BY <1>1, <1>4, <1>5, <1>7, <1>8 DEF Replays

\* One turn of the loop: the last one, unless pwrites may be short.
LEMMA PwriteReplays ==
  ASSUME HandlerInv, ReplayInv, NEW s \in Subvols, InStream(s), pwrite
  PROVE  Replays(s)
<1>1. phase = "writing" /\ UNCHANGED <<received, received_uuid, sent, complete>>
  BY DEF pwrite, senderVars
<1>2. IsTree(dest) /\ IsTree(sent) /\ s \in STRING /\ Writing(s) /\ cause # "refused" /\ InWrite(s)
  <2>1. Replaying(s) /\ IsTree(dest) /\ IsTree(sent) /\ cause # "refused"
    BY <1>1 DEF HandlerInv, ReplayInv, InStream
  <2>2. PICK r \in Subvols : InStream(r) /\ InWrite(r)
    BY <1>1 DEF HandlerInv, InStream
  <2>3. r = s
    BY <2>2 DEF InStream
  <2> QED BY <1>1, <2>1, <2>2, <2>3, HandlerAssumption DEF Replaying
<1>3. PICK p \in Path :
        /\ job.path = At(s, p) /\ IsFile(dest, At(s, p))
        /\ ShortWrites => Match(dest, s, sent, Loose)
        /\ ~ ShortWrites =>
             /\ job.data \in Seq(Nat)
             /\ \E t : /\ IsTree(t) /\ Match(dest, s, t, Loose)
                       /\ sent \in SetContent(t, p, Patch(Node(t, p).content, job.off, job.data))
  BY <1>2 DEF Writing
<1>4. CASE phase' = "failed" /\ cause' = "fault"
  BY <1>1, <1>2, <1>4 DEF Replays
<1>5. ASSUME NEW n \in 1 .. Len(job.data), n = Len(job.data) \/ ShortWrites,
             dest' \in SetContent(dest, job.path,
                          Patch(Node(dest, job.path).content, job.off, SubSeq(job.data, 1, n))),
             \/ SubSeq(job.data, n + 1, Len(job.data)) = <<>> /\ phase' = "idle"
             \/ /\ SubSeq(job.data, n + 1, Len(job.data)) # <<>>
                /\ job' = [job EXCEPT !.data = SubSeq(job.data, n + 1, Len(job.data))]
                /\ phase' = phase,
             cause' = cause
      PROVE  Replays(s)
  <2> DEFINE rest == SubSeq(job.data, n + 1, Len(job.data))
             part == Patch(Node(dest, At(s, p)).content, job.off, SubSeq(job.data, 1, n))
  <2>1. dest' \in SetContent(dest, At(s, p), part) /\ At(s, p) \in Path
    BY <1>2, <1>3, <1>5, AtByNames
  <2> HIDE DEF part
  <2>2. CASE ShortWrites
    <3>1. Match(dest', s, sent, Loose)
      BY <1>2, <1>3, <2>1, <2>2, ContentIsOpen DEF Loose
    <3>2. IsFile(dest', At(s, p))
      BY <1>2, <2>1, SetContentEffect
    <3>3. job' = [job EXCEPT !.data = rest] => job'.path = job.path
      <4>1. PICK x, y, z : job = [path |-> x, off |-> y, data |-> z]
        BY <1>2 DEF InWrite
      <4> HIDE DEF rest
      <4> QED BY <4>1
    <3>4. phase' = "writing" => Writing(s)'
      <4>1. ASSUME phase' = "writing"
            PROVE  job'.path = At(s, p) /\ IsFile(dest', job'.path) /\ Match(dest', s, sent', Loose)
        BY <1>1, <1>3, <1>5, <3>1, <3>2, <3>3, <4>1
      <4> QED BY <2>2, <4>1 DEF Writing
    <3> QED BY <1>1, <1>2, <1>5, <3>1, <3>4 DEF Replays
  <2>3. CASE ~ ShortWrites
    <3>1. /\ job.data \in Seq(Nat) /\ n = Len(job.data) /\ Len(job.data) \in Nat
      BY <1>3, <1>5, <2>3
    <3>2. SubSeq(job.data, 1, n) = job.data /\ rest = <<>>
      <4>1. PICK data \in Seq(Nat) : data = job.data
        BY <3>1
      <4>2. SubSeq(data, 1, Len(data)) = data
        OBVIOUS
      <4>3. SubSeq(data, Len(data) + 1, Len(data)) = <<>>
        OBVIOUS
      <4> QED BY <3>1, <4>1, <4>2, <4>3
    <3>3. PICK t : /\ IsTree(t) /\ Match(dest, s, t, Loose)
                   /\ sent \in SetContent(t, p, Patch(Node(t, p).content, job.off, job.data))
      BY <1>3, <2>3
    <3>4. IsFile(t, p)
      BY <3>3 DEF SetContent
    <3>5. Node(dest, At(s, p)).content = Node(t, p).content
      BY <1>2, <2>3, <3>3, <3>4, SameContent DEF Loose
    <3>6. part = Patch(Node(t, p).content, job.off, job.data)
      BY <3>2, <3>5 DEF part
    <3> DEFINE whole == Patch(Node(t, p).content, job.off, job.data)
    <3>7. Follow(SetContent(dest, At(s, p), part), SetContent(t, p, whole), s, Loose)
      <4> HIDE DEF whole
      <4> QED BY <1>2, <3>3, <3>6, SetContentFollows DEF whole
    <3>8. Match(dest', s, sent, Loose)
      BY <2>1, <3>3, <3>7 DEF Follow
    <3>9. phase' = "idle"
      BY <1>5, <3>2
    <3> QED BY <1>1, <1>2, <1>5, <3>8, <3>9 DEF Replays
  <2> QED BY <2>2, <2>3
<1> QED BY <1>4, <1>5 DEF pwrite, fail

\* File data.
LEMMA DataStepReplays ==
  ASSUME HandlerInv, ReplayInv, NEW s \in Subvols, InStream(s), DataStep
  PROVE  Replays(s)
<1>1. CASE write \/ pwrite
  BY <1>1, WriteReplays, PwriteReplays
<1>2. CASE encoded_write
  <2>1. PICK p \in Paths, off \in 0 .. MaxSize, data \in Data :
          /\ Send("encoded_write", SentPatch(p, off, data))
          /\ with_path(p, IF IsFile(dest, C(p))
                        THEN SetContent(dest, C(p), Patch(Node(dest, C(p)).content, off, data))
                        ELSE {})
    BY <1>2 DEF encoded_write
  <2>2. /\ p \in Path /\ C(p) = At(s, p)
        /\ phase = "idle"
    BY <2>1, SendInStream, PathsOf, PathsAre
  <2>3. Follow(IF IsFile(dest, C(p))
                        THEN SetContent(dest, C(p), Patch(Node(dest, C(p)).content, off, data))
                        ELSE {},
               SentPatch(p, off, data), s, Loose)
    BY <2>2, PatchFollows
  <2> QED BY <2>1, <2>2, <2>3, OnePathReplays
<1>3. CASE fallocate
  <2>1. PICK p \in Paths, off \in 0 .. MaxSize, size \in 1 .. MaxSize :
          /\ Send("fallocate", SentPatch(p, off, [i \in 1 .. size |-> 0]))
          /\ with_path(p, IF IsFile(dest, C(p))
                        THEN SetContent(dest, C(p), Patch(Node(dest, C(p)).content, off, [i \in 1 .. size |-> 0]))
                        ELSE {})
    BY <1>3 DEF fallocate
  <2>2. /\ p \in Path /\ C(p) = At(s, p)
        /\ phase = "idle"
    BY <2>1, SendInStream, PathsOf, PathsAre
  <2>3. Follow(IF IsFile(dest, C(p))
                        THEN SetContent(dest, C(p), Patch(Node(dest, C(p)).content, off, [i \in 1 .. size |-> 0]))
                        ELSE {},
               SentPatch(p, off, [i \in 1 .. size |-> 0]), s, Loose)
    BY <2>2, PatchFollows
  <2> QED BY <2>1, <2>2, <2>3, OnePathReplays
<1>4. CASE truncate
  <2>1. PICK p \in Paths, size \in 0 .. MaxSize :
          /\ Send("truncate", IF IsFile(sent, p)
                            THEN SetContent(sent, p, Resize(Node(sent, p).content, size)) ELSE {})
          /\ with_path(p, IF ~ IsFile(dest, C(p)) THEN {}
                        ELSE IF size = 0 THEN SetContent(dest, C(p), <<>>)
                        ELSE SetContent(dest, C(p), Resize(Node(dest, C(p)).content, size)))
    BY <1>4 DEF truncate
  <2>2. /\ p \in Path /\ C(p) = At(s, p)
        /\ phase = "idle"
    BY <2>1, SendInStream, PathsOf, PathsAre
  <2>3. Follow(IF ~ IsFile(dest, C(p)) THEN {}
                        ELSE IF size = 0 THEN SetContent(dest, C(p), <<>>)
                        ELSE SetContent(dest, C(p), Resize(Node(dest, C(p)).content, size)),
               IF IsFile(sent, p)
                            THEN SetContent(sent, p, Resize(Node(sent, p).content, size)) ELSE {}, s, Loose)
    BY <2>2, ResizeFollows
  <2> QED BY <2>1, <2>2, <2>3, OnePathReplays
<1>5. CASE clone
  <2>1. PICK p \in Paths, clone_path \in Paths, file_offset, clone_offset \in 0 .. MaxSize,
             clone_len \in 1 .. MaxSize :
          /\ IsFile(sent, clone_path)
          /\ Send("clone", SentPatch(p, file_offset, Extent(sent, clone_path, clone_offset, clone_len)))
          /\ IF received_uuid = origin
             THEN with_paths(p, clone_path,
                     IF IsFile(dest, C(p)) /\ IsFile(dest, C2(clone_path))
                     THEN SetContent(dest, C(p),
                             Patch(Node(dest, C(p)).content, file_offset,
                                   Extent(dest, C2(clone_path), clone_offset, clone_len)))
                     ELSE {})
             ELSE panic
    BY <1>5 DEF clone
  <2>2. /\ p \in Path /\ C(p) = At(s, p) /\ clone_path \in Path /\ C2(clone_path) = At(s, clone_path)
        /\ phase = "idle"
    BY <2>1, SendInStream, PathsOf, PathsAre
  <2>3. received_uuid = origin
    BY <2>2, InReplay
  <2> DEFINE data  == Extent(sent, clone_path, clone_offset, clone_len)
             given == Extent(dest, At(s, clone_path), clone_offset, clone_len)
             trees == IF IsFile(dest, At(s, p))
                      THEN SetContent(dest, At(s, p),
                              Patch(Node(dest, At(s, p)).content, file_offset, given))
                      ELSE {}
  <2>4. /\ IsFile(dest, At(s, clone_path))
        /\ "file" \in Loose \/ Node(dest, At(s, clone_path)).content = Node(sent, clone_path).content
    BY <2>1, <2>2, InReplay, SameContent
  <2>5. given = data \/ "file" \in Loose
    BY <2>4 DEF Extent
  <2>6. Send("clone", SentPatch(p, file_offset, data)) /\ with_paths(p, clone_path, trees)
    BY <2>1, <2>2, <2>3, <2>4
  <2> HIDE DEF given, data
  <2>7. Follow(trees, SentPatch(p, file_offset, data), s, Loose)
    BY <2>2, <2>5, PatchFollows
  <2> HIDE DEF trees
  <2> QED BY <2>6, <2>7, TwoPathsReplay
<1> QED BY <1>1, <1>2, <1>3, <1>4, <1>5 DEF DataStep

\* Attributes.
LEMMA AttrStepReplays ==
  ASSUME HandlerInv, ReplayInv, NEW s \in Subvols, InStream(s), AttrStep
  PROVE  Replays(s)
<1>1. CASE setattr
  <2>1. PICK p \in Paths, field \in {"mode", "owner", "times"}, v \in {1, 2} :
          /\ Send("setattr", SetMeta(sent, p, field, v))
          /\ with_path(p, SetMeta(dest, C(p), field, v))
    BY <1>1 DEF setattr
  <2>2. /\ p \in Path /\ C(p) = At(s, p)
        /\ phase = "idle"
    BY <2>1, SendInStream, PathsOf, PathsAre
  <2>3. Follow(SetMeta(dest, C(p), field, v),
               SetMeta(sent, p, field, v), s, Loose)
    BY <2>2, AttributesFollow
  <2> QED BY <2>1, <2>2, <2>3, OnePathReplays
<1>2. ASSUME NEW p \in Paths, NEW v, Send("xattr", SetXattr(sent, p, v)), xattr(p, v),
             set_xattr \/ remove_xattr
      PROVE  Replays(s)
  <2>1. p \in Path /\ FallbackPath(p) = At(s, p) /\ phase = "idle"
    BY <1>2, SendInStream, PathsOf, PathsAre
  <2>2. Follow(SetXattr(dest, At(s, p), v), SetXattr(sent, p, v), s, Loose)
    BY <2>1, AttributesFollow
  <2>3. /\ SetXattr(dest, At(s, p), v) # {} /\ IsTree(sent') /\ complete' = complete
        /\ \A u \in SetXattr(dest, At(s, p), v) : Match(u, s, sent', Loose)
    BY <1>2, <2>2, SentFollows
  <2>4. cause # "refused"
    BY <2>1, InReplay
  <2>5. /\ phase' = "idle" => Match(dest', s, sent', Loose)
        /\ phase' # "writing"
        /\ cause' = "refused" => phase' = "failed" /\ AttributeByXattrat
    <3>1. CASE call(SetXattr(dest, At(s, p), v))
      BY <2>1, <2>3, <2>4, <3>1, CallReplays
    <3>2. CASE phase' = "failed" /\ cause' = "too long"
      BY <3>2
    <3>3. CASE workload.xattrat /\ phase' = "failed"
      BY <1>2, <3>3 DEF AttributeByXattrat
    <3> QED BY <1>2, <2>1, <3>1, <3>2, <3>3 DEF xattr, fail
  <2>6. UNCHANGED <<received, received_uuid>>
    BY <1>2 DEF xattr
  <2> QED BY <2>3, <2>5, <2>6 DEF Replays
<1>3. CASE set_xattr \/ remove_xattr
  BY <1>2, <1>3 DEF set_xattr, remove_xattr
<1>4. CASE update_extent \/ fileattr
  <2>1. UNCHANGED handlerVars /\ \E kind : Send(kind, {sent})
    BY <1>4 DEF update_extent, fileattr
  <2>2. phase = "idle" /\ sent' = sent /\ complete' = complete
    BY <2>1, SendInStream DEF Send
  <2>3. UNCHANGED <<dest, received, received_uuid, phase, cause>>
    BY <2>1 DEF handlerVars
  <2> QED BY <2>2, <2>3, InReplay DEF Replays
<1> QED BY <1>1, <1>3, <1>4 DEF AttrStep

-----------------------------------------------------------------------------
(* Streams begin and end.                                                    *)

\* Nothing that is done within s shows in what was received before.
LEMMA ReceivedStays ==
  ASSUME ReplayInv, NEW s \in Subvols, IsTree(dest), Kept(dest, dest', s),
         NEW r \in Subvols, r # s, received[r] # "none", received' = received, complete' = complete
  PROVE  Received(r)'
<1>1. /\ received[r] = complete[r].uuid
      /\ IsTree(complete[r].tree) /\ Match(dest, r, complete[r].tree, Loose)
  BY DEF ReplayInv, Received
<1>2. r \in STRING /\ s \in STRING
  BY HandlerAssumption
<1>3. Match(dest', r, complete[r].tree, Loose)
  BY <1>1, <1>2, KeptMatch
<1> QED BY <1>1, <1>3 DEF Received

\* A step during a stream.
LEMMA StreamStepReplays ==
  ASSUME HandlerInv, ReplayInv, NameStep \/ DataStep \/ AttrStep
  PROVE  ReplayInv'
<1>1. PICK s \in Subvols : InStream(s) /\ StaysIn(s) /\ origin' = origin
  BY NameStepStays, DataStepStays, AttrStepStays DEF StreamStep
<1>2. Replays(s)
  BY <1>1, NameStepReplays, DataStepReplays, AttrStepReplays
<1>3. /\ IsTree(dest) /\ Kept(dest, dest', s) /\ current_subvol' = <<s>>
      /\ received' = received /\ complete' = complete /\ received_uuid' = received_uuid
  BY <1>1, <1>2 DEF HandlerInv, StaysIn, Replays
<1>4. received[s] = "none" /\ received_uuid = origin
  <2>1. current_subvol = <<s>>
    BY <1>1 DEF InStream
  <2>2. phase \in {"idle", "writing"}
    <3>1. CASE pwrite
      BY <3>1 DEF pwrite
    <3>2. CASE \E kind, trees : Send(kind, trees)
      BY <3>2 DEF Send, Command
    <3> QED BY <3>1, <3>2 DEF NameStep, DataStep, AttrStep, mkfile, mkdir, mknod, symlink, rename,
              link, unlink, rmdir, write, encoded_write, fallocate, truncate, clone, setattr,
              set_xattr, remove_xattr, update_extent, fileattr
  <2> QED BY <2>1, <2>2 DEF ReplayInv, Replaying
<1>5. ASSUME NEW r \in Subvols, current_subvol' = <<r>>, phase' \in {"idle", "writing"}
      PROVE  Replaying(r)'
  <2>1. r = s
    BY <1>3, <1>5
  <2> QED BY <1>1, <1>2, <1>3, <1>4, <2>1 DEF Replaying, Replays
<1>6. ASSUME NEW r \in Subvols, received'[r] # "none" PROVE Received(r)'
  BY <1>3, <1>4, <1>6, ReceivedStays
<1> QED BY <1>2, <1>3, <1>5, <1>6 DEF ReplayInv, Replays

\* A stream begins: nothing of the name was received.
LEMMA SubvolReplays ==
  ASSUME HandlerInv, ReplayInv, subvol
  PROVE  ReplayInv' /\ cause' # "refused"
<1>1. PICK s \in workload.subvols, uuid \in Uuids :
        /\ Command("subvol")
        /\ IF current_subvol # <<>>
           THEN fail("protocol") /\ UNCHANGED <<current_subvol, received_uuid, sent, origin>>
           ELSE /\ current_subvol' = <<s>>
                /\ received_uuid' = uuid
                /\ IF Exists(dest, <<s>>) THEN fail("exists")
                   ELSE call(Create(dest, <<s>>, NewNode("subvol", <<>>)))
                /\ sent' = EmptyTree /\ origin' = uuid
        /\ UNCHANGED <<received, complete>>
  BY DEF subvol
<1>2. s \in Subvols /\ s \in STRING /\ IsTree(dest) /\ phase = "idle" /\ cause # "refused"
  BY <1>1, PathsOf, HandlerAssumption DEF HandlerInv, Command, ReplayInv
<1>3. IsTree(sent')
  BY <1>1, EmptyIsTree DEF ReplayInv
<1>4. CASE dest' = dest /\ phase' = "failed" /\ cause' # "refused"
  <2>1. \A r \in Subvols : received'[r] # "none" => Received(r)'
    BY <1>1, <1>4 DEF ReplayInv, Received
  <2> QED BY <1>1, <1>3, <1>4, <2>1 DEF ReplayInv
<1>5. CASE /\ current_subvol = <<>> /\ ~ Exists(dest, <<s>>)
           /\ dest' \in Create(dest, <<s>>, NewNode("subvol", <<>>))
           /\ phase' = phase /\ cause' = cause
  <2>1. Kept(dest, dest', s)
    BY <1>2, <1>5, NewSubvolIsFine DEF Fine
  <2>2. Match(dest', s, sent', Loose)
    BY <1>1, <1>2, <1>5, NewMatches
  <2>3. received[s] = "none"
    <3>1. ASSUME received[s] # "none" PROVE FALSE
      <4>1. IsDir(dest, <<s>>) /\ <<s>> # <<>>
        BY <1>2, <3>1, SubvolPath DEF ReplayInv, Received, Match
      <4> QED BY <1>5, <4>1 DEF IsDir
    <3> QED BY <3>1
  <2>4. ASSUME NEW r \in Subvols, current_subvol' = <<r>> PROVE Replaying(r)'
    <3>1. r = s
      BY <1>1, <1>5, <2>4
    <3> QED BY <1>1, <1>2, <1>5, <2>2, <2>3, <3>1 DEF Replaying
  <2>5. ASSUME NEW r \in Subvols, received'[r] # "none" PROVE Received(r)'
    BY <1>1, <1>2, <2>1, <2>3, <2>5, ReceivedStays
  <2> QED BY <1>1, <1>2, <1>3, <1>5, <2>4, <2>5 DEF ReplayInv
<1>6. \/ dest' = dest /\ phase' = "failed" /\ cause' # "refused"
      \/ /\ current_subvol = <<>> /\ ~ Exists(dest, <<s>>)
         /\ dest' \in Create(dest, <<s>>, NewNode("subvol", <<>>))
         /\ phase' = phase /\ cause' = cause
  <2>1. ~ Exists(dest, <<s>>) => Create(dest, <<s>>, NewNode("subvol", <<>>)) # {}
    BY <1>2, NewMatches
  <2> QED BY <1>1, <2>1 DEF fail, call
<1> QED BY <1>4, <1>5, <1>6

\* A stream ends: its subvolume is marked with its uuid.
LEMMA EndReplays ==
  ASSUME HandlerInv, ReplayInv, end
  PROVE  ReplayInv' /\ cause' # "refused"
<1>1. phase = "idle" /\ cause # "refused" /\ sent' = sent
  BY DEF end, Command, ReplayInv
<1>2. CASE dest' = dest /\ phase' = "failed" /\ cause' # "refused" /\ UNCHANGED <<received, complete>>
  <2>1. \A r \in Subvols : received'[r] # "none" => Received(r)'
    BY <1>2 DEF ReplayInv, Received
  <2> QED BY <1>1, <1>2, <2>1 DEF ReplayInv
<1>3. CASE /\ current_subvol # <<>> /\ current_subvol' = <<>>
           /\ received' = [received EXCEPT ![current_subvol[1]] = received_uuid]
           /\ complete' = [complete EXCEPT ![current_subvol[1]] = [uuid |-> origin, tree |-> sent]]
           /\ UNCHANGED <<dest, phase, cause>>
  <2>1. PICK s \in Subvols : InStream(s)
    BY <1>1, <1>3 DEF HandlerInv
  <2>2. current_subvol = <<s>> /\ current_subvol[1] = s
    BY <2>1, SubvolPath DEF InStream
  <2>3. IsTree(sent) /\ Match(dest, s, sent, Loose) /\ received_uuid = origin
    BY <1>1, <2>1, InReplay
  <2>4. /\ received' = [received EXCEPT ![s] = received_uuid]
        /\ complete' = [complete EXCEPT ![s] = [uuid |-> origin, tree |-> sent]]
    BY <1>3, <2>2
  <2>5. /\ received'[s] = received_uuid /\ complete'[s] = [uuid |-> origin, tree |-> sent]
        /\ \A r \in Subvols : r # s => received'[r] = received[r] /\ complete'[r] = complete[r]
        /\ received' = [r \in Subvols |-> received'[r]] /\ complete' = [r \in Subvols |-> complete'[r]]
    BY <2>4 DEF ReplayInv
  <2>6. ASSUME NEW r \in Subvols, received'[r] # "none" PROVE Received(r)'
    <3>1. CASE r = s
      <4>1. complete'[s].uuid = origin /\ complete'[s].tree = sent
        BY <2>5
      <4> QED BY <1>3, <2>3, <2>5, <3>1, <4>1 DEF Received
    <3>2. CASE r # s
      <4>1. Received(r) /\ received'[r] = received[r] /\ complete'[r] = complete[r]
        BY <2>5, <2>6, <3>2 DEF ReplayInv
      <4> QED BY <1>3, <4>1 DEF Received
    <3> QED BY <3>1, <3>2
  <2>7. ASSUME NEW r \in Subvols PROVE current_subvol' # <<r>>
    BY <1>3, SubvolPath
  <2> QED BY <1>1, <1>3, <2>5, <2>6, <2>7 DEF ReplayInv
<1> QED BY <1>1, <1>2, <1>3 DEF end, fail

\* The first state.
LEMMA ReplayInvInit == Init => ReplayInv
BY EmptyIsTree, SubvolPath DEF Init, ReplayInv

\* Every step.
LEMMA ReplayInvStep ==
    HandlerInv /\ ReplayInv /\ [Next]_vars => ReplayInv'
<1> SUFFICES ASSUME HandlerInv, ReplayInv, [Next]_vars PROVE ReplayInv'
  OBVIOUS
<1>1. CASE NameStep \/ DataStep \/ AttrStep
  BY <1>1, StreamStepReplays
<1>2. CASE subvol \/ end
  BY <1>2, SubvolReplays, EndReplays
<1>3. CASE incremental
  <2>1. UNCHANGED <<dest, received, complete, sent, cause>> /\ phase' = "panicked"
    BY <1>3 DEF incremental, panic
  <2> QED BY <2>1 DEF ReplayInv, Received
<1>4. CASE UNCHANGED vars
  BY <1>4 DEF vars, handlerVars, senderVars, ReplayInv, Replaying, Received, Writing
<1> QED BY <1>1, <1>2, <1>3, <1>4 DEF Next, SubvolStep, Stopped

\* What is below s in dest is what t is, but for the targets of symlinks.
LEMMA MatchIsSame ==
  ASSUME NEW s \in STRING, NEW t, IsTree(t), IsTree(dest), Match(dest, s, t, {"symlink"})
  PROVE  SameTree(Below(dest, <<s>>), t, AlikeBut)
<1> DEFINE b == Below(dest, <<s>>)
<1>1. /\ DOMAIN b.names = {p \in Path \ {<<>>} : At(s, p) \in DOMAIN dest.names}
      /\ \A p \in Path \ {<<>>} : At(s, p) \in DOMAIN dest.names =>
            b.names[p] = dest.names[At(s, p)] /\ Node(b, p) = Node(dest, At(s, p))
  BY BelowByNames
<1> HIDE DEF b
<1>2. DOMAIN t.names \subseteq Path \ {<<>>}
  BY TreeParts
<1>3. DOMAIN b.names = DOMAIN t.names
  BY <1>1, <1>2 DEF Match
<1>4. ASSUME NEW p \in DOMAIN t.names
      PROVE  b.names[p] = dest.names[At(s, p)] /\ Node(b, p) = Node(dest, At(s, p))
  BY <1>1, <1>2 DEF Match
<1>5. ASSUME NEW p \in DOMAIN t.names PROVE AlikeBut(Node(b, p), Node(t, p))
  <2>1. AlikeIn(Node(dest, At(s, p)), Node(t, p), {"symlink"})
    BY DEF Match
  <2> QED BY <1>4, <2>1 DEF AlikeIn, AlikeBut
<1>6. ASSUME NEW p \in DOMAIN t.names, NEW q \in DOMAIN t.names
      PROVE  b.names[p] = b.names[q] <=> t.names[p] = t.names[q]
  BY <1>4 DEF Match
<1>7. SameTree(b, t, AlikeBut)
  BY <1>3, <1>5, <1>6 DEF SameTree
<1> QED BY <1>7 DEF b

\* The handler's tree and the sender's go together at every step.
THEOREM HandlerReplayInvariant == Spec => []ReplayInv
<1>1. HandlerInv /\ ReplayInv /\ [Next]_vars => ReplayInv'
  BY ReplayInvStep
<1> QED BY <1>1, ReplayInvInit, HandlerInvariant, PTL DEF Spec

\* Of the commands that made sense in the sender's tree, the kernel refuses none but
\* those that set or remove an attribute, and these where it has setxattrat and
\* removexattrat; whether there are short writes and failed calls or not.
THEOREM HandlerOnlyXattratRefused == Spec => OnlyXattratRefused
<1>1. ASSUME HandlerInv, ReplayInv, [Next]_vars, cause # "refused", cause' = "refused"
      PROVE  AttributeByXattrat
  <2>1. ~ UNCHANGED cause
    BY <1>1
  <2>2. CASE NameStep \/ DataStep \/ AttrStep
    <3>1. PICK s \in Subvols : InStream(s)
      BY <1>1, <2>2, NameStepStays, DataStepStays, AttrStepStays DEF StreamStep
    <3>2. Replays(s)
      BY <1>1, <2>2, <3>1, NameStepReplays, DataStepReplays, AttrStepReplays
    <3> QED BY <1>1, <3>2 DEF Replays
  <2>3. CASE subvol \/ end
    BY <1>1, <2>3, SubvolReplays, EndReplays
  <2>4. CASE incremental
    BY <2>1, <2>4 DEF incremental, panic
  <2> QED BY <1>1, <2>1, <2>2, <2>3, <2>4 DEF Next, SubvolStep, Stopped, vars, handlerVars, senderVars
<1> QED BY <1>1, HandlerInvariant, HandlerReplayInvariant, PTL DEF Spec, OnlyXattratRefused

\* As long as every pwrite takes all the data, the subvolume is what the sender
\* has described after each command: names, hard links, data and attributes.
THEOREM HandlerReplayed ==
  ASSUME ~ ShortWrites
  PROVE  Spec => []Replayed
<1>1. HandlerInv /\ ReplayInv => Replayed
  <2>1. SUFFICES ASSUME HandlerInv, ReplayInv, phase = "idle", current_subvol # <<>>
                 PROVE  SameTree(Below(dest, current_subvol), sent, AlikeBut)
    BY DEF Replayed
  <2>2. PICK s \in Subvols : InStream(s)
    BY <2>1 DEF HandlerInv
  <2>3. /\ IsTree(dest) /\ IsTree(sent) /\ s \in STRING /\ Match(dest, s, sent, {"symlink"})
        /\ current_subvol = <<s>>
    BY <2>1, <2>2, InReplay DEF Loose, InStream
  <2> QED BY <2>3, MatchIsSame
<1> QED BY <1>1, HandlerInvariant, HandlerReplayInvariant, PTL

\* Then what is marked as received is all of its stream, with the uuid of that
\* stream, and stays so whatever later streams do.
THEOREM HandlerReceivedIsComplete ==
  ASSUME ~ ShortWrites
  PROVE  Spec => []ReceivedIsComplete
<1>1. HandlerInv /\ ReplayInv => ReceivedIsComplete
  <2>1. SUFFICES ASSUME HandlerInv, ReplayInv, NEW s \in Subvols, received[s] # "none"
                 PROVE  /\ received[s] = complete[s].uuid
                        /\ SameTree(Below(dest, <<s>>), complete[s].tree, AlikeBut)
    BY DEF ReceivedIsComplete
  <2>2. /\ received[s] = complete[s].uuid /\ IsTree(complete[s].tree) /\ IsTree(dest)
        /\ s \in STRING /\ Match(dest, s, complete[s].tree, {"symlink"})
    BY <2>1, HandlerAssumption DEF HandlerInv, ReplayInv, Received, Loose
  <2> QED BY <2>2, MatchIsSame
<1> QED BY <1>1, HandlerInvariant, HandlerReplayInvariant, PTL
=============================================================================

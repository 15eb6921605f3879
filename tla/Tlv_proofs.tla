----------------------------- MODULE Tlv_proofs -----------------------------
(***************************************************************************)
(* What the parsers of attributes hand to a method, for strings and data   *)
(* of any length and for every place a payload may be cut at.              *)
(***************************************************************************)
EXTENDS Tlv, FiniteSetTheorems, SequenceTheorems, WellFoundedInduction, TLAPS

-----------------------------------------------------------------------------
(* The tables.                                                               *)

\* The attribute of a type.
Named(n) ==
    CASE n = 1 -> "uuid" [] n = 2 -> "ctransid" [] n = 3 -> "ino"
      [] n = 4 -> "size" [] n = 5 -> "mode" [] n = 6 -> "uid"
      [] n = 7 -> "gid" [] n = 8 -> "rdev" [] n = 9 -> "ctime"
      [] n = 10 -> "mtime" [] n = 11 -> "atime" [] n = 13 -> "xattr_name"
      [] n = 14 -> "xattr_data" [] n = 15 -> "path" [] n = 16 -> "path_to"
      [] n = 17 -> "path_link" [] n = 18 -> "file_offset" [] n = 19 -> "data"
      [] n = 20 -> "clone_uuid" [] n = 21 -> "clone_ctransid" [] n = 22 -> "clone_path"
      [] n = 23 -> "clone_offset" [] n = 24 -> "clone_len" [] n = 25 -> "fallocate_mode"
      [] n = 26 -> "fileattr" [] n = 27 -> "unencoded_file_len" [] n = 28 -> "unencoded_len"
      [] n = 29 -> "unencoded_offset" [] n = 30 -> "compression" [] n = 31 -> "encryption"

\* No two attributes have the same type.
LEMMA TypesDiffer ==
  /\ \A a \in DOMAIN Attr : Attr[a] \in Nat /\ Attr[a] \in 1 .. 31
  /\ \A a, b \in DOMAIN Attr : Attr[a] = Attr[b] => a = b
<1>1. ASSUME NEW a \in DOMAIN Attr PROVE Attr[a] \in Nat /\ Attr[a] \in 1 .. 31 /\ Named(Attr[a]) = a
  BY <1>1 DEF Attr, Named
<1> QED BY <1>1

\* The attributes of a command are attributes; but for the end of a stream a
\* command has some; and only those of an encoded write can be optional.
LEMMA CommandAttributes ==
  ASSUME NEW k \in Commands
  PROVE  /\ AttributesOf(k) \subseteq DOMAIN Attr
         /\ k # 21 => "path" \in AttributesOf(k) \ Optional
         /\ k # encoded_write => AttributesOf(k) \cap Optional = {}
<1> DEFINE Table(attrs) == /\ attrs \subseteq DOMAIN Attr
                           /\ k # 21 => "path" \in attrs \ Optional
                           /\ k # encoded_write => attrs \cap Optional = {}
<1>1. k \in 1 .. 25
  BY DEF Commands
<1>2. CASE k = 1
  BY <1>2 DEF Attr, Optional, AttributesOf, NamingCommands, Commands, write, encoded_write
<1>3. CASE k = 2
  BY <1>3 DEF Attr, Optional, AttributesOf, NamingCommands, Commands, write, encoded_write
<1>4. CASE k = 3
  BY <1>4 DEF Attr, Optional, AttributesOf, NamingCommands, Commands, write, encoded_write
<1>5. CASE k = 4
  BY <1>5 DEF Attr, Optional, AttributesOf, NamingCommands, Commands, write, encoded_write
<1>6. CASE k = 5
  BY <1>6 DEF Attr, Optional, AttributesOf, NamingCommands, Commands, write, encoded_write
<1>7. CASE k = 6
  BY <1>7 DEF Attr, Optional, AttributesOf, NamingCommands, Commands, write, encoded_write
<1>8. CASE k = 7
  BY <1>8 DEF Attr, Optional, AttributesOf, NamingCommands, Commands, write, encoded_write
<1>9. CASE k = 8
  BY <1>9 DEF Attr, Optional, AttributesOf, NamingCommands, Commands, write, encoded_write
<1>10. CASE k = 9
  BY <1>10 DEF Attr, Optional, AttributesOf, NamingCommands, Commands, write, encoded_write
<1>11. CASE k = 10
  BY <1>11 DEF Attr, Optional, AttributesOf, NamingCommands, Commands, write, encoded_write
<1>12. CASE k = 11
  BY <1>12 DEF Attr, Optional, AttributesOf, NamingCommands, Commands, write, encoded_write
<1>13. CASE k = 12
  BY <1>13 DEF Attr, Optional, AttributesOf, NamingCommands, Commands, write, encoded_write
<1>14. CASE k = 13
  BY <1>14 DEF Attr, Optional, AttributesOf, DataCommands, Commands, write, encoded_write
<1>15. CASE k = 14
  BY <1>15 DEF Attr, Optional, AttributesOf, DataCommands, Commands, write, encoded_write
<1>16. CASE k = 15
  BY <1>16 DEF Attr, Optional, AttributesOf, DataCommands, Commands, write, encoded_write
<1>17. CASE k = 16
  BY <1>17 DEF Attr, Optional, AttributesOf, DataCommands, Commands, write, encoded_write
<1>18. CASE k = 17
  BY <1>18 DEF Attr, Optional, AttributesOf, AttributeCommands, Commands, write, encoded_write
<1>19. CASE k = 18
  BY <1>19 DEF Attr, Optional, AttributesOf, AttributeCommands, Commands, write, encoded_write
<1>20. CASE k = 19
  BY <1>20 DEF Attr, Optional, AttributesOf, AttributeCommands, Commands, write, encoded_write
<1>21. CASE k = 20
  BY <1>21 DEF Attr, Optional, AttributesOf, AttributeCommands, Commands, write, encoded_write
<1>22. CASE k = 21
  BY <1>22 DEF Attr, Optional, AttributesOf, AttributeCommands, Commands, write, encoded_write
<1>23. CASE k = 22
  BY <1>23 DEF Attr, Optional, AttributesOf, AttributeCommands, Commands, write, encoded_write
<1>24. CASE k = 23
  BY <1>24 DEF Attr, Optional, AttributesOf, AttributeCommands, Commands, write, encoded_write
<1>25. CASE k = 24
  BY <1>25 DEF Attr, Optional, AttributesOf, AttributeCommands, Commands, write, encoded_write
<1>26. CASE k = 25
  BY <1>26 DEF Attr, Optional, AttributesOf, EncodedWrite, Commands, write, encoded_write
<1> QED BY <1>1, <1>2, <1>3, <1>4, <1>5, <1>6, <1>7, <1>8, <1>9, <1>10, <1>11, <1>12, <1>13, <1>14, <1>15, <1>16, <1>17, <1>18, <1>19, <1>20, <1>21, <1>22, <1>23, <1>24, <1>25, <1>26

\* The commands whose data may come without its length need it.
LEMMA DataIsNeeded ==
  /\ write \in Commands /\ encoded_write \in Commands
  /\ \A k \in {write, encoded_write} : "data" \in AttributesOf(k) \ Optional
<1>1. "data" \in AttributesOf(15) \ Optional
  BY DEF Optional, AttributesOf, DataCommands, write, encoded_write, Commands
<1>2. "data" \in AttributesOf(25) \ Optional
  BY DEF Optional, AttributesOf, EncodedWrite, encoded_write, Commands
<1> QED BY <1>1, <1>2 DEF write, encoded_write, Commands

\* The end of a stream has no attributes, what is no command has none either.
LEMMA NoAttributes == AttributesOf(21) = {} /\ \A k : k \notin Commands => AttributesOf(k) = {}
  BY DEF AttributesOf, AttributeCommands, Commands, encoded_write

-----------------------------------------------------------------------------
(* Numbers.                                                                  *)

Less == OpToRel(<, Nat)

\* A set with zero, and with each number up to N whose predecessor it has, has
\* all of them.
LEMMA UpTo ==
  ASSUME NEW N \in Nat, NEW T, 0 \in T, \A n \in 1 .. N : n - 1 \in T => n \in T
  PROVE  \A n \in 0 .. N : n \in T
<1> DEFINE Bad == {n \in 0 .. N : n \notin T}
<1>1. SUFFICES ASSUME Bad # {} PROVE FALSE
  OBVIOUS
<1>2. PICK n \in Bad : \A m \in Bad : <<m, n>> \notin Less
  <2>1. IsWellFoundedOn(Less, Nat)
    BY NatLessThanWellFounded DEF Less
  <2>2. Bad \subseteq Nat
    OBVIOUS
  <2> HIDE DEF Bad
  <2> QED BY <1>1, <2>1, <2>2, WFMin
<1>3. n \in 0 .. N /\ n # 0
  BY <1>2
<1>4. n \in 1 .. N /\ n - 1 \in 0 .. N
  BY <1>3
<1>5. n - 1 \notin Bad
  <2>1. <<n - 1, n>> \in Less
    BY <1>3, <1>4 DEF Less, OpToRel
  <2> QED BY <1>2, <2>1
<1> QED BY <1>2, <1>4, <1>5

-----------------------------------------------------------------------------
(* The order in which the sender puts attributes into a payload.             *)

\* It is an order of all attributes.
LEMMA BeforeIsOrder ==
  ASSUME NEW up, NEW a \in DOMAIN Attr, NEW b \in DOMAIN Attr, NEW c \in DOMAIN Attr
  PROVE  /\ ~ Before(a, a, up)
         /\ a = b \/ Before(a, b, up) \/ Before(b, a, up)
         /\ Before(a, b, up) /\ Before(b, c, up) => Before(a, c, up)
<1>1. \A d \in {a, b, c} : Attr[d] \in Nat
  BY TypesDiffer
<1>2. a # b => Attr[a] # Attr[b]
  BY TypesDiffer
<1> QED BY <1>1, <1>2 DEF Before

\* How many attributes of attrs come before a.
Rank(attrs, a, up) == Cardinality({b \in attrs : Before(b, a, up)})

\* A set of attributes is finite.
LEMMA AttributesFinite ==
  ASSUME NEW attrs \in SUBSET DOMAIN Attr
  PROVE  IsFiniteSet(attrs) /\ Cardinality(attrs) \in Nat
<1> DEFINE f == [a \in attrs |-> Attr[a]]
<1>1. f \in Injection(attrs, 1 .. 31)
  BY TypesDiffer DEF Injection, IsInjective
<1>2. IsFiniteSet(1 .. 31)
  <2>1. 1 \in Int /\ 31 \in Int
    OBVIOUS
  <2> QED BY <2>1, FS_Interval
<1>3. IsFiniteSet(attrs)
  <2> HIDE DEF f
  <2> QED BY <1>1, <1>2, FS_Injection
<1> QED BY <1>3, FS_CardinalityType

\* A rank is less than the number of attributes, and grows in the order.
LEMMA Ranks ==
  ASSUME NEW up, NEW attrs \in SUBSET DOMAIN Attr, NEW a \in attrs
  PROVE  /\ Rank(attrs, a, up) \in 0 .. (Cardinality(attrs) - 1)
         /\ \A b \in attrs : Before(a, b, up) => Rank(attrs, a, up) < Rank(attrs, b, up)
<1> DEFINE Earlier(b) == {c \in attrs : Before(c, b, up)}
<1>1. IsFiniteSet(attrs) /\ Cardinality(attrs) \in Nat
  BY AttributesFinite
<1>2. \A t \in SUBSET attrs : IsFiniteSet(t) /\ Cardinality(t) \in Nat /\ Cardinality(t) <= Cardinality(attrs)
  BY <1>1, FS_Subset, FS_CardinalityType
<1>3. a \notin Earlier(a) /\ Earlier(a) \in SUBSET attrs
  BY BeforeIsOrder
<1>4. Cardinality(Earlier(a) \cup {a}) = Cardinality(Earlier(a)) + 1
  BY <1>2, <1>3, FS_AddElement
<1>5. Rank(attrs, a, up) \in 0 .. (Cardinality(attrs) - 1)
  <2>1. Earlier(a) \cup {a} \in SUBSET attrs
    OBVIOUS
  <2>2. Cardinality(Earlier(a)) \in Nat /\ Cardinality(Earlier(a)) + 1 <= Cardinality(attrs)
    BY <1>2, <1>3, <1>4, <2>1
  <2> QED BY <1>1, <2>2 DEF Rank
<1>6. ASSUME NEW b \in attrs, Before(a, b, up) PROVE Rank(attrs, a, up) < Rank(attrs, b, up)
  <2>1. Earlier(a) \cup {a} \in SUBSET Earlier(b)
    BY <1>6, BeforeIsOrder
  <2>2. IsFiniteSet(Earlier(b)) /\ Cardinality(Earlier(b)) \in Nat
    BY <1>2
  <2>3. Cardinality(Earlier(a) \cup {a}) <= Cardinality(Earlier(b))
    BY <2>1, <2>2, FS_Subset
  <2>4. Cardinality(Earlier(a)) \in Nat
    BY <1>2, <1>3
  <2> QED BY <1>4, <2>2, <2>3, <2>4 DEF Rank
<1> QED BY <1>5, <1>6

\* Arranged(attrs, up) has each attribute of attrs once, and the data last.
LEMMA ArrangedOnce ==
  ASSUME NEW up, NEW attrs \in SUBSET DOMAIN Attr
  PROVE  /\ Cardinality(attrs) \in Nat
         /\ Arranged(attrs, up) \in [1 .. Cardinality(attrs) -> attrs]
         /\ \A i, j \in 1 .. Cardinality(attrs) : Arranged(attrs, up)[i] = Arranged(attrs, up)[j] => i = j
         /\ \A a \in attrs : \E i \in 1 .. Cardinality(attrs) : Arranged(attrs, up)[i] = a
         /\ \A i \in 1 .. Cardinality(attrs) : Arranged(attrs, up)[i] = "data" => i = Cardinality(attrs)
<1> DEFINE N == Cardinality(attrs)
           q == Arranged(attrs, up)
           f == [a \in attrs |-> Rank(attrs, a, up)]
<1>1. IsFiniteSet(attrs) /\ N \in Nat
  BY AttributesFinite
<1>2. IsFiniteSet(0 .. (N - 1)) /\ Cardinality(0 .. (N - 1)) = N
  BY <1>1, FS_Interval
<1>3. \A a \in attrs : Rank(attrs, a, up) \in 0 .. (N - 1)
  BY Ranks
<1>4. ASSUME NEW a \in attrs, NEW b \in attrs, Rank(attrs, a, up) = Rank(attrs, b, up) PROVE a = b
  <2>1. Rank(attrs, a, up) \in Int /\ Rank(attrs, b, up) \in Int
    BY <1>1, <1>3
  <2>2. ~ Before(a, b, up) /\ ~ Before(b, a, up)
    BY <1>4, <2>1, Ranks
  <2> QED BY <2>2, BeforeIsOrder
<1>5. f \in Surjection(attrs, 0 .. (N - 1))
  <2>1. f \in Injection(attrs, 0 .. (N - 1))
    BY <1>3, <1>4 DEF Injection, IsInjective
  <2> HIDE DEF f
  <2> QED BY <1>1, <1>2, <2>1, FS_Injection
<1>6. ASSUME NEW i \in 1 .. N PROVE q[i] \in attrs /\ Rank(attrs, q[i], up) = i - 1
  <2>1. i - 1 \in 0 .. (N - 1)
    BY <1>1
  <2>2. \E a \in attrs : Rank(attrs, a, up) = i - 1
    BY <1>5, <2>1 DEF Surjection
  <2>3. q[i] = CHOOSE a \in attrs : Rank(attrs, a, up) = i - 1
    BY DEF Arranged, Rank
  <2> QED BY <2>2, <2>3
<1>7. q \in [1 .. N -> attrs]
  <2> DEFINE Pick(i) == CHOOSE a \in attrs : Cardinality({b \in attrs : Before(b, a, up)}) = i - 1
  <2>1. q = [i \in 1 .. N |-> Pick(i)]
    BY DEF Arranged
  <2> HIDE DEF q, N, Pick
  <2> QED BY <1>6, <2>1
<1>8. \A i, j \in 1 .. N : q[i] = q[j] => i = j
  <2>1. SUFFICES ASSUME NEW i \in 1 .. N, NEW j \in 1 .. N, q[i] = q[j] PROVE i = j
    OBVIOUS
  <2>2. i - 1 = j - 1
    BY <1>6, <2>1
  <2> QED BY <1>1, <2>2
<1>9. ASSUME NEW a \in attrs PROVE \E i \in 1 .. N : q[i] = a
  <2>1. PICK i \in 1 .. N : i - 1 = Rank(attrs, a, up)
    BY <1>1, <1>3
  <2>2. q[i] \in attrs /\ Rank(attrs, q[i], up) = Rank(attrs, a, up)
    BY <1>6, <2>1
  <2> QED BY <1>4, <2>2
<1>10. ASSUME NEW i \in 1 .. N, q[i] = "data" PROVE i = N
  <2>1. SUFFICES ASSUME i # N PROVE FALSE
    OBVIOUS
  <2>2. N \in 1 .. N /\ i < N
    BY <1>1, <2>1
  <2>3. q[N] \in attrs /\ q[N] # "data" /\ Rank(attrs, q[N], up) = N - 1 /\ Rank(attrs, "data", up) = i - 1
    BY <1>6, <1>8, <1>10, <2>1, <2>2
  <2>4. Before(q[N], "data", up)
    BY <2>3 DEF Before
  <2>5. "data" \in attrs
    BY <1>6, <1>10
  <2>6. Rank(attrs, q[N], up) < Rank(attrs, "data", up)
    BY <2>3, <2>4, <2>5, Ranks
  <2> QED BY <1>1, <2>2, <2>3, <2>6
<1> QED BY <1>1, <1>7, <1>8, <1>9, <1>10

-----------------------------------------------------------------------------
(* A payload and the pieces it is made of.                                   *)

\* The first n of some pieces, one after the other.
Joined(pieces) ==
    LET joined[n \in 0 .. Len(pieces)] == IF n = 0 THEN <<>> ELSE joined[n - 1] \o pieces[n]
    IN  joined

\* They exist.
LEMMA JoinedExist ==
  ASSUME NEW pieces \in Seq(Seq(Nat))
  PROVE  Joined(pieces) = [n \in 0 .. Len(pieces) |->
                              IF n = 0 THEN <<>> ELSE Joined(pieces)[n - 1] \o pieces[n]]
<1> DEFINE N == Len(pieces)
           Joins(f, n) == f \in [0 .. n -> Seq(Nat)] /\ f[0] = <<>> /\ \A m \in 1 .. n : f[m] = f[m - 1] \o pieces[m]
           T == {n \in 0 .. N : \E f : Joins(f, n)}
<1>1. N \in Nat /\ \A n \in 1 .. N : pieces[n] \in Seq(Nat)
  OBVIOUS
<1>2. 0 \in T
  <2>1. Joins([m \in 0 .. 0 |-> <<>>], 0)
    OBVIOUS
  <2>2. 0 \in 0 .. N
    BY <1>1
  <2> HIDE DEF Joins
  <2> QED BY <2>1, <2>2
<1>3. ASSUME NEW n \in 1 .. N, n - 1 \in T PROVE n \in T
  <2>1. n \in Nat /\ n # 0 /\ n \in 0 .. N /\ pieces[n] \in Seq(Nat)
    BY <1>1
  <2>2. PICK f : Joins(f, n - 1)
    BY <1>3
  <2> DEFINE g == [m \in 0 .. n |-> IF m = n THEN f[n - 1] \o pieces[n] ELSE f[m]]
  <2>3. \A m \in 0 .. (n - 1) : f[m] \in Seq(Nat)
    BY <2>2
  <2>4. f[n - 1] \o pieces[n] \in Seq(Nat)
    <3>1. f[n - 1] \in Seq(Nat)
      BY <2>1, <2>3
    <3> QED BY <2>1, <3>1, ConcatProperties
  <2>5. ASSUME NEW m \in 0 .. n PROVE g[m] \in Seq(Nat)
    <3>1. m # n => m \in 0 .. (n - 1)
      BY <2>1
    <3> QED BY <2>3, <2>4, <3>1
  <2>6. g[0] = <<>>
    BY <2>1, <2>2
  <2>7. ASSUME NEW m \in 1 .. n PROVE g[m] = g[m - 1] \o pieces[m]
    <3>1. m \in 0 .. n /\ m - 1 \in 0 .. n /\ m - 1 # n
      BY <2>1
    <3>2. g[m - 1] = f[m - 1]
      BY <3>1
    <3>3. m # n => m \in 1 .. (n - 1)
      BY <2>1
    <3>4. m # n => f[m] = f[m - 1] \o pieces[m]
      BY <2>2, <3>3
    <3> QED BY <3>1, <3>2, <3>4
  <2>8. Joins(g, n)
    BY <2>5, <2>6, <2>7
  <2> HIDE DEF Joins
  <2> QED BY <2>1, <2>8
<1>4. N \in T
  <2>1. \A n \in 0 .. N : n \in T
    <3> HIDE DEF T
    <3> QED BY <1>1, <1>2, <1>3, UpTo
  <2> HIDE DEF T
  <2> QED BY <1>1, <2>1
<1>5. PICK f : Joins(f, N)
  <2> HIDE DEF Joins
  <2> QED BY <1>4
<1>6. f = [n \in 0 .. N |-> IF n = 0 THEN <<>> ELSE f[n - 1] \o pieces[n]]
  <2>1. ASSUME NEW n \in 0 .. N PROVE f[n] = IF n = 0 THEN <<>> ELSE f[n - 1] \o pieces[n]
    <3>1. n # 0 => n \in 1 .. N
      BY <1>1
    <3> QED BY <1>5, <3>1
  <2>2. f = [n \in 0 .. N |-> f[n]]
    BY <1>5
  <2> QED BY <2>1, <2>2
<1> HIDE DEF Joins
<1> QED BY <1>6 DEF Joined

\* What they are.
LEMMA JoinedAre ==
  ASSUME NEW pieces \in Seq(Seq(Nat))
  PROVE  /\ Joined(pieces)[0] = <<>>
         /\ \A n \in 0 .. Len(pieces) : Joined(pieces)[n] \in Seq(Nat)
         /\ \A n \in 1 .. Len(pieces) : Joined(pieces)[n] = Joined(pieces)[n - 1] \o pieces[n]
<1> DEFINE N == Len(pieces)
<1>1. PICK f : f = Joined(pieces)
  OBVIOUS
<1>2. N \in Nat /\ \A n \in 1 .. N : pieces[n] \in Seq(Nat)
  OBVIOUS
<1>3. f = [n \in 0 .. N |-> IF n = 0 THEN <<>> ELSE f[n - 1] \o pieces[n]]
  BY <1>1, JoinedExist
<1>4. f[0] = <<>> /\ \A n \in 1 .. N : f[n] = f[n - 1] \o pieces[n]
  <2>1. ASSUME NEW n \in 0 .. N PROVE f[n] = IF n = 0 THEN <<>> ELSE f[n - 1] \o pieces[n]
    BY <1>3
  <2>2. 0 \in 0 .. N /\ \A n \in 1 .. N : n \in 0 .. N /\ n # 0
    BY <1>2
  <2> QED BY <2>1, <2>2
<1> DEFINE T == {n \in 0 .. N : f[n] \in Seq(Nat)}
<1>5. 0 \in T
  <2>1. <<>> \in Seq(Nat) /\ 0 \in 0 .. N
    BY <1>2
  <2> QED BY <1>4, <2>1
<1>6. ASSUME NEW n \in 1 .. N, n - 1 \in T PROVE n \in T
  <2>1. f[n - 1] \in Seq(Nat) /\ pieces[n] \in Seq(Nat) /\ n \in 0 .. N
    BY <1>2, <1>6
  <2>2. f[n - 1] \o pieces[n] \in Seq(Nat)
    BY <2>1, ConcatProperties
  <2> QED BY <1>4, <2>1, <2>2
<1>7. \A n \in 0 .. N : n \in T
  <2> HIDE DEF T
  <2> QED BY <1>2, <1>5, <1>6, UpTo
<1> QED BY <1>1, <1>4, <1>7

\* All of them are what FlattenSeq makes of them.
LEMMA FlattenIsJoined ==
  ASSUME NEW pieces \in Seq(Seq(Nat))
  PROVE  FlattenSeq(pieces) = Joined(pieces)[Len(pieces)]
<1>0. SUFFICES ASSUME Len(pieces) # 0 PROVE FlattenSeq(pieces) = Joined(pieces)[Len(pieces)]
  <2>1. Len(pieces) = 0 => FlattenSeq(pieces) = pieces /\ pieces = <<>>
    BY DEF FlattenSeq
  <2> QED BY <2>1, JoinedAre
<1> DEFINE N == Len(pieces)
           j == Joined(pieces)
           Flattens(h) == h = [n \in 1 .. N |-> IF n = 1 THEN pieces[n] ELSE h[n - 1] \o pieces[n]]
           h == CHOOSE g : Flattens(g)
<1>1. N \in Nat /\ N # 0 /\ \A n \in 1 .. N : pieces[n] \in Seq(Nat)
  BY <1>0
<1>2. j[1] = pieces[1] /\ \A n \in 1 .. N : n # 1 => j[n] = j[n - 1] \o pieces[n]
  <2>1. 1 \in 1 .. N
    BY <1>1
  <2>2. j[1] = j[1 - 1] \o pieces[1] /\ j[1 - 1] = <<>>
    <3>1. 1 - 1 = 0
      OBVIOUS
    <3> QED BY <2>1, <3>1, JoinedAre
  <2>3. <<>> \o pieces[1] = pieces[1]
    BY <1>1, <2>1, ConcatEmptySeq
  <2> QED BY <2>2, <2>3, JoinedAre
<1>3. Flattens([n \in 1 .. N |-> j[n]])
  <2> DEFINE g == [n \in 1 .. N |-> j[n]]
  <2>1. ASSUME NEW n \in 1 .. N PROVE g[n] = IF n = 1 THEN pieces[n] ELSE g[n - 1] \o pieces[n]
    <3>1. n # 1 => n - 1 \in 1 .. N
      BY <1>1
    <3> HIDE DEF j
    <3> QED BY <1>2, <3>1
  <2> HIDE DEF j
  <2> QED BY <2>1
<1>4. Flattens(h)
  <2> HIDE DEF Flattens
  <2> QED BY <1>3
<1>5. FlattenSeq(pieces) = h[N]
  BY <1>1 DEF FlattenSeq
<1>6. h[1] = pieces[1] /\ \A n \in 1 .. N : n # 1 => h[n] = h[n - 1] \o pieces[n]
  <2>1. 1 \in 1 .. N
    BY <1>1
  <2> HIDE DEF h
  <2> QED BY <1>4, <2>1
<1> DEFINE T == {n \in 0 .. N : n = 0 \/ h[n] = j[n]}
<1> HIDE DEF h, j
<1>7. 0 \in T
  BY <1>1
<1>8. ASSUME NEW n \in 1 .. N, n - 1 \in T PROVE n \in T
  <2>1. n \in 0 .. N
    BY <1>1
  <2>2. n # 1 => n - 1 # 0
    BY <1>1
  <2> QED BY <1>2, <1>6, <1>8, <2>1, <2>2
<1>9. \A n \in 0 .. N : n \in T
  <2> HIDE DEF T
  <2> QED BY <1>1, <1>7, <1>8, UpTo
<1>10. N \in T /\ N # 0
  BY <1>1, <1>9
<1> QED BY <1>5, <1>10 DEF j

\* The parts of a concatenation.
LEMMA ConcatParts ==
  ASSUME NEW s \in Seq(Nat), NEW t \in Seq(Nat)
  PROVE  /\ s \o t \in Seq(Nat)
         /\ Len(s) \in Nat /\ Len(t) \in Nat /\ Len(s \o t) = Len(s) + Len(t)
         /\ \A i \in 1 .. Len(s) : (s \o t)[i] = s[i]
         /\ \A i \in 1 .. Len(t) : (s \o t)[Len(s) + i] = t[i]
<1>1. Len(s) \in Nat /\ Len(t) \in Nat
  OBVIOUS
<1>2. /\ s \o t \in Seq(Nat) /\ Len(s \o t) = Len(s) + Len(t)
      /\ \A i \in 1 .. Len(s) + Len(t) : (s \o t)[i] = IF i <= Len(s) THEN s[i] ELSE t[i - Len(s)]
  BY ConcatProperties
<1>3. ASSUME NEW i \in 1 .. Len(s) PROVE (s \o t)[i] = s[i]
  <2>1. i \in 1 .. Len(s) + Len(t) /\ i <= Len(s)
    BY <1>1
  <2> QED BY <1>2, <2>1
<1>4. ASSUME NEW i \in 1 .. Len(t) PROVE (s \o t)[Len(s) + i] = t[i]
  <2>1. PICK l : l = Len(s) + i
    OBVIOUS
  <2>2. l \in 1 .. Len(s) + Len(t) /\ ~ l <= Len(s) /\ l - Len(s) = i
    BY <1>1, <2>1
  <2>3. (s \o t)[l] = t[i]
    BY <1>2, <2>2
  <2> QED BY <2>1, <2>3
<1> QED BY <1>1, <1>2, <1>3, <1>4

\* A number within a part is within the whole.
LEMMA WithinWhole ==
  ASSUME NEW p \in Nat, NEW q \in Nat, NEW r \in Nat, p + q <= r, NEW i \in 1 .. q
  PROVE  p + i \in 1 .. r
  OBVIOUS

\* What is not longer than the first part is not longer than both.
LEMMA NotLonger ==
  ASSUME NEW p \in Nat, NEW q \in Nat, NEW r \in Nat, NEW s \in Nat, p <= q, r = q + s
  PROVE  p <= r
  OBVIOUS

\* Each piece is behind those before it.
LEMMA PiecesInPlace ==
  ASSUME NEW pieces \in Seq(Seq(Nat))
  PROVE  LET N == Len(pieces)
             j == Joined(pieces)
         IN  /\ \A n \in 0 .. N : Len(j[n]) \in Nat /\ Len(j[n]) <= Len(j[N])
             /\ \A n \in 1 .. N : Len(j[n]) = Len(j[n - 1]) + Len(pieces[n])
             /\ \A n \in 1 .. N : \A i \in 1 .. Len(pieces[n]) :
                   j[N][Len(j[n - 1]) + i] = pieces[n][i]
<1> DEFINE N == Len(pieces)
<1>1. PICK j : j = Joined(pieces)
  OBVIOUS
<1>2. N \in Nat /\ \A n \in 1 .. N : pieces[n] \in Seq(Nat) /\ Len(pieces[n]) \in Nat
  OBVIOUS
<1>3. /\ \A n \in 0 .. N : j[n] \in Seq(Nat) /\ Len(j[n]) \in Nat
      /\ \A n \in 1 .. N : j[n] = j[n - 1] \o pieces[n]
  <2>1. \A n \in 0 .. N : j[n] \in Seq(Nat)
    BY <1>1, JoinedAre
  <2>2. \A n \in 1 .. N : j[n] = j[n - 1] \o pieces[n]
    BY <1>1, JoinedAre
  <2>3. ASSUME NEW n \in 0 .. N PROVE Len(j[n]) \in Nat
    BY <2>1
  <2> QED BY <2>1, <2>2, <2>3
<1>4. ASSUME NEW n \in 1 .. N
      PROVE  /\ n \in 0 .. N /\ n - 1 \in 0 .. N
             /\ Len(j[n]) = Len(j[n - 1]) + Len(pieces[n])
             /\ \A i \in 1 .. Len(j[n - 1]) : j[n][i] = j[n - 1][i]
             /\ \A i \in 1 .. Len(pieces[n]) : j[n][Len(j[n - 1]) + i] = pieces[n][i]
  <2>1. n \in 0 .. N /\ n - 1 \in 0 .. N
    BY <1>2
  <2>2. j[n - 1] \in Seq(Nat) /\ pieces[n] \in Seq(Nat)
    BY <1>2, <1>3, <2>1
  <2>3. j[n] = j[n - 1] \o pieces[n]
    BY <1>3
  <2>4. /\ Len(j[n - 1] \o pieces[n]) = Len(j[n - 1]) + Len(pieces[n])
        /\ \A i \in 1 .. Len(j[n - 1]) : (j[n - 1] \o pieces[n])[i] = j[n - 1][i]
        /\ \A i \in 1 .. Len(pieces[n]) : (j[n - 1] \o pieces[n])[Len(j[n - 1]) + i] = pieces[n][i]
    BY <2>2, ConcatParts
  <2> QED BY <2>1, <2>3, <2>4
<1> DEFINE InPlace(m) == /\ \A n \in 0 .. m : Len(j[n]) <= Len(j[m])
                         /\ \A n \in 1 .. m : \A i \in 1 .. Len(pieces[n]) :
                               j[m][Len(j[n - 1]) + i] = pieces[n][i]
           T == {m \in 0 .. N : InPlace(m)}
<1>5. 0 \in T
  <2>1. 0 \in 0 .. N
    BY <1>2
  <2>2. InPlace(0)
    BY <1>3, <2>1
  <2> HIDE DEF InPlace
  <2> QED BY <2>1, <2>2
<1>6. ASSUME NEW m \in 1 .. N, m - 1 \in T PROVE m \in T
  <2>1. m \in Nat /\ m \in 0 .. N /\ m - 1 \in 0 .. N /\ InPlace(m - 1)
    <3> HIDE DEF InPlace
    <3> QED BY <1>2, <1>6
  <2>2. /\ Len(j[m]) \in Nat /\ Len(j[m - 1]) \in Nat /\ Len(pieces[m]) \in Nat
        /\ Len(j[m]) = Len(j[m - 1]) + Len(pieces[m])
    BY <1>2, <1>3, <1>4, <2>1
  <2>3. ASSUME NEW n \in 0 .. m PROVE Len(j[n]) <= Len(j[m])
    <3>1. n # m => n \in 0 .. (m - 1)
      BY <2>1
    <3>2. n \in 0 .. N
      BY <1>2, <2>1
    <3>3. Len(j[n]) \in Nat
      BY <1>3, <3>2
    <3>4. n # m => Len(j[n]) <= Len(j[m - 1])
      BY <2>1, <3>1
    <3>5. CASE n = m
      BY <3>3, <3>5
    <3>6. CASE n # m
      BY <2>2, <3>3, <3>4, <3>6, NotLonger
    <3> QED BY <3>5, <3>6
  <2>4. ASSUME NEW n \in 1 .. m, NEW i \in 1 .. Len(pieces[n])
        PROVE  j[m][Len(j[n - 1]) + i] = pieces[n][i]
    <3>1. CASE n = m
      BY <1>4, <3>1
    <3>2. CASE n # m
      <4>1. n \in 1 .. (m - 1) /\ n \in 0 .. (m - 1) /\ n \in 1 .. N /\ n - 1 \in 0 .. N
        BY <1>2, <2>1, <3>2
      <4>2. /\ Len(j[n]) <= Len(j[m - 1])
            /\ j[m - 1][Len(j[n - 1]) + i] = pieces[n][i]
        BY <2>1, <4>1
      <4>3. Len(j[n]) = Len(j[n - 1]) + Len(pieces[n]) /\ Len(j[n]) \in Nat /\ Len(j[n - 1]) \in Nat
        BY <1>3, <1>4, <4>1
      <4>4. Len(pieces[n]) \in Nat
        BY <1>2, <4>1
      <4>5. Len(j[n - 1]) + i \in 1 .. Len(j[m - 1])
        <5>1. Len(j[n - 1]) + Len(pieces[n]) <= Len(j[m - 1])
          BY <4>2, <4>3
        <5> QED BY <2>2, <4>3, <4>4, <5>1, WithinWhole
      <4>6. \A l \in 1 .. Len(j[m - 1]) : j[m][l] = j[m - 1][l]
        BY <1>4
      <4>7. j[m][Len(j[n - 1]) + i] = j[m - 1][Len(j[n - 1]) + i]
        BY <4>5, <4>6
      <4> QED BY <4>2, <4>7
    <3> QED BY <3>1, <3>2
  <2>5. InPlace(m)
    BY <2>3, <2>4
  <2> HIDE DEF InPlace
  <2> QED BY <2>1, <2>5
<1>7. InPlace(N)
  <2>1. \A n \in 0 .. N : n \in T
    <3> HIDE DEF T
    <3> QED BY <1>2, <1>5, <1>6, UpTo
  <2>2. N \in 0 .. N
    BY <1>2
  <2> HIDE DEF InPlace
  <2> QED BY <2>1, <2>2
<1> QED BY <1>1, <1>3, <1>4, <1>7

\* An attribute on the wire.
LEMMA EncodedIs ==
  ASSUME NEW a \in DOMAIN Attr, NEW v \in Seq(Nat), NEW bare
  PROVE  /\ Encoded(a, v, bare) \in Seq(Nat)
         /\ Encoded(a, v, bare)[1] = Attr[a]
         /\ a \in bare =>
               /\ Len(Encoded(a, v, bare)) = 1 + Len(v)
               /\ \A i \in 1 .. Len(v) : Encoded(a, v, bare)[1 + i] = v[i]
         /\ a \notin bare =>
               /\ Len(Encoded(a, v, bare)) = 2 + Len(v)
               /\ Encoded(a, v, bare)[2] = Len(v)
               /\ \A i \in 1 .. Len(v) : Encoded(a, v, bare)[2 + i] = v[i]
<1>1. Attr[a] \in Nat /\ Len(v) \in Nat
  BY TypesDiffer
<1> DEFINE one == <<Attr[a]>>
           two == <<Attr[a], Len(v)>>
<1>2. /\ one \in Seq(Nat) /\ Len(one) = 1 /\ one[1] = Attr[a]
      /\ two \in Seq(Nat) /\ Len(two) = 2 /\ two[1] = Attr[a] /\ two[2] = Len(v)
  BY <1>1
<1> HIDE DEF one, two
<1>3. /\ one \o v \in Seq(Nat) /\ Len(one \o v) = 1 + Len(v)
      /\ (one \o v)[1] = Attr[a] /\ \A i \in 1 .. Len(v) : (one \o v)[1 + i] = v[i]
  <2>1. one \o v \in Seq(Nat) /\ Len(one \o v) = Len(one) + Len(v)
    BY <1>2, ConcatParts
  <2>2. /\ \A i \in 1 .. Len(one) : (one \o v)[i] = one[i]
        /\ \A i \in 1 .. Len(v) : (one \o v)[Len(one) + i] = v[i]
    BY <1>2, ConcatParts
  <2>3. 1 \in 1 .. 1
    OBVIOUS
  <2> QED BY <1>2, <2>1, <2>2, <2>3
<1>4. /\ two \o v \in Seq(Nat) /\ Len(two \o v) = 2 + Len(v)
      /\ (two \o v)[1] = Attr[a] /\ (two \o v)[2] = Len(v)
      /\ \A i \in 1 .. Len(v) : (two \o v)[2 + i] = v[i]
  <2>1. two \o v \in Seq(Nat) /\ Len(two \o v) = Len(two) + Len(v)
    BY <1>2, ConcatParts
  <2>2. /\ \A i \in 1 .. Len(two) : (two \o v)[i] = two[i]
        /\ \A i \in 1 .. Len(v) : (two \o v)[Len(two) + i] = v[i]
    BY <1>2, ConcatParts
  <2>3. 1 \in 1 .. 2 /\ 2 \in 1 .. 2
    OBVIOUS
  <2> QED BY <1>2, <2>1, <2>2, <2>3
<1>5. CASE a \in bare
  <2>1. Encoded(a, v, bare) = one \o v
    BY <1>5 DEF Encoded, one
  <2> QED BY <1>3, <1>5, <2>1
<1>6. CASE a \notin bare
  <2>1. Encoded(a, v, bare) = two \o v
    BY <1>6 DEF Encoded, two
  <2> QED BY <1>4, <1>6, <2>1
<1> QED BY <1>5, <1>6

-----------------------------------------------------------------------------
(* The payload of a state.                                                   *)

\* The attributes that were sent, in their order, and what they are sent as.
Order(up) == Arranged(DOMAIN sent, up)

Total == Cardinality(DOMAIN sent)

PiecesSent(up) == Pieces(sent, Bare(key, version), up)

\* Before it was cut.
Whole(up, extra) == Payload(key, version, sent, up, extra)

\* Where the attribute after the first n begins.
Offset(up, extra, n) == Len(extra) + Len(Joined(PiecesSent(up))[n])

\* What is sent is a value of each attribute that is needed, and of no attribute
\* that the command does not have.
SentTypes ==
    /\ version \in 1 .. 2
    /\ DOMAIN sent \subseteq AttributesOf(key) /\ Needed \subseteq DOMAIN sent
    /\ sent = [a \in DOMAIN sent |-> sent[a]]
    /\ \A a \in DOMAIN sent : sent[a] \in Seq(Nat)

\* The attributes of whatever command are attributes.
LEMMA AttributesKnown == \A k : AttributesOf(k) \subseteq DOMAIN Attr
  BY CommandAttributes, NoAttributes

\* The pieces are what is sent, one for each attribute.
LEMMA PiecesAre ==
  ASSUME SentTypes, NEW up
  PROVE  /\ Total \in Nat /\ PiecesSent(up) \in Seq(Seq(Nat)) /\ Len(PiecesSent(up)) = Total
         /\ \A n \in 1 .. Total :
               /\ Order(up)[n] \in DOMAIN sent
               /\ PiecesSent(up)[n] = Encoded(Order(up)[n], sent[Order(up)[n]], Bare(key, version))
<1>1. DOMAIN sent \in SUBSET DOMAIN Attr
  BY AttributesKnown DEF SentTypes
<1>2. Total \in Nat /\ Order(up) \in [1 .. Total -> DOMAIN sent]
  BY <1>1, ArrangedOnce DEF Total, Order
<1>3. Len(Order(up)) = Total
  BY <1>2
<1> DEFINE bare == Bare(key, version)
           E(n) == Encoded(Order(up)[n], sent[Order(up)[n]], bare)
<1>4. PiecesSent(up) = [n \in 1 .. Total |-> E(n)]
  BY <1>3 DEF PiecesSent, Pieces, Order
<1>5. ASSUME NEW n \in 1 .. Total PROVE Order(up)[n] \in DOMAIN sent /\ E(n) \in Seq(Nat)
  <2>1. Order(up)[n] \in DOMAIN sent
    BY <1>2
  <2>2. Order(up)[n] \in DOMAIN Attr /\ sent[Order(up)[n]] \in Seq(Nat)
    BY <1>1, <2>1 DEF SentTypes
  <2> QED BY <2>1, <2>2, EncodedIs
<1> HIDE DEF E
<1>6. [n \in 1 .. Total |-> E(n)] \in [1 .. Total -> Seq(Nat)]
  BY <1>5
<1>7. PiecesSent(up) \in Seq(Seq(Nat)) /\ Len(PiecesSent(up)) = Total
  BY <1>2, <1>4, <1>6
<1>8. \A n \in 1 .. Total : PiecesSent(up)[n] = E(n)
  BY <1>4
<1> QED BY <1>2, <1>5, <1>7, <1>8 DEF E

\* A payload begins with what is in front of the attributes and ends with the last.
LEMMA WholeIs ==
  ASSUME SentTypes, NEW up, NEW extra \in Seq(Nat)
  PROVE  /\ Whole(up, extra) \in Seq(Nat)
         /\ Offset(up, extra, 0) = Len(extra)
         /\ Offset(up, extra, Total) = Len(Whole(up, extra))
         /\ \A n \in 0 .. Total : /\ Offset(up, extra, n) \in Nat
                                  /\ Offset(up, extra, n) <= Len(Whole(up, extra))
         /\ \A i \in 1 .. Len(extra) : Whole(up, extra)[i] = extra[i]
         /\ \A n \in 1 .. Total :
               /\ Offset(up, extra, n) = Offset(up, extra, n - 1) + Len(PiecesSent(up)[n])
               /\ \A i \in 1 .. Len(PiecesSent(up)[n]) :
                     Whole(up, extra)[Offset(up, extra, n - 1) + i] = PiecesSent(up)[n][i]
<1>1. PICK pieces : pieces = PiecesSent(up)
  OBVIOUS
<1>2. PICK j : j = Joined(pieces)
  OBVIOUS
<1>3. PICK N : N = Total
  OBVIOUS
<1>4. N \in Nat /\ pieces \in Seq(Seq(Nat)) /\ Len(pieces) = N
  BY <1>1, <1>3, PiecesAre
<1>5. /\ \A n \in 0 .. N : Len(j[n]) \in Nat /\ Len(j[n]) <= Len(j[N])
      /\ \A n \in 1 .. N : Len(j[n]) = Len(j[n - 1]) + Len(pieces[n])
      /\ \A n \in 1 .. N : \A i \in 1 .. Len(pieces[n]) : j[N][Len(j[n - 1]) + i] = pieces[n][i]
  BY <1>2, <1>4, PiecesInPlace
<1>6. j[0] = <<>> /\ j[N] \in Seq(Nat)
  <2>1. N \in 0 .. N
    BY <1>4
  <2> QED BY <1>2, <1>4, <2>1, JoinedAre
<1>7. Whole(up, extra) = extra \o j[N]
  BY <1>1, <1>2, <1>4, FlattenIsJoined DEF Whole, Payload, PiecesSent
<1>8. /\ extra \o j[N] \in Seq(Nat) /\ Len(extra) \in Nat
      /\ Len(extra \o j[N]) = Len(extra) + Len(j[N])
      /\ \A i \in 1 .. Len(extra) : (extra \o j[N])[i] = extra[i]
      /\ \A i \in 1 .. Len(j[N]) : (extra \o j[N])[Len(extra) + i] = j[N][i]
  BY <1>6, ConcatParts
<1>9. \A n : Offset(up, extra, n) = Len(extra) + Len(j[n])
  BY <1>1, <1>2 DEF Offset
<1>10. Offset(up, extra, 0) = Len(extra)
  <2>1. Len(j[0]) = 0
    BY <1>6
  <2> QED BY <1>8, <1>9, <2>1
<1>11. Offset(up, extra, N) = Len(Whole(up, extra))
  BY <1>7, <1>8, <1>9
<1>12. ASSUME NEW n \in 0 .. N
       PROVE  Offset(up, extra, n) \in Nat /\ Offset(up, extra, n) <= Len(Whole(up, extra))
  <2>1. Len(j[n]) \in Nat /\ Len(j[N]) \in Nat /\ Len(j[n]) <= Len(j[N])
    <3>1. N \in 0 .. N
      BY <1>4
    <3> QED BY <1>5, <3>1
  <2>2. Len(extra) + Len(j[n]) \in Nat /\ Len(extra) + Len(j[n]) <= Len(extra) + Len(j[N])
    BY <1>8, <2>1
  <2> QED BY <1>7, <1>8, <1>9, <2>2
<1>13. ASSUME NEW n \in 1 .. N
       PROVE  /\ Offset(up, extra, n) = Offset(up, extra, n - 1) + Len(pieces[n])
              /\ \A i \in 1 .. Len(pieces[n]) :
                    Whole(up, extra)[Offset(up, extra, n - 1) + i] = pieces[n][i]
  <2>1. n - 1 \in 0 .. N /\ n \in 0 .. N /\ N \in 0 .. N
    BY <1>4
  <2>2. /\ Len(j[n - 1]) \in Nat /\ Len(j[n]) \in Nat /\ Len(j[N]) \in Nat /\ Len(pieces[n]) \in Nat
        /\ Len(j[n]) = Len(j[n - 1]) + Len(pieces[n]) /\ Len(j[n]) <= Len(j[N])
    <3>1. pieces[n] \in Seq(Nat)
      BY <1>4
    <3>2. Len(pieces[n]) \in Nat
      BY <3>1
    <3> QED BY <1>5, <2>1, <3>2
  <2>3. Offset(up, extra, n) = Offset(up, extra, n - 1) + Len(pieces[n])
    <3>1. /\ Offset(up, extra, n) = Len(extra) + Len(j[n])
          /\ Offset(up, extra, n - 1) = Len(extra) + Len(j[n - 1])
      BY <1>9
    <3>2. Len(extra) + Len(j[n]) = Len(extra) + Len(j[n - 1]) + Len(pieces[n])
      <4>1. PICK p, q, r, s : p = Len(extra) /\ q = Len(j[n]) /\ r = Len(j[n - 1]) /\ s = Len(pieces[n])
        OBVIOUS
      <4>2. p \in Nat /\ q \in Nat /\ r \in Nat /\ s \in Nat /\ q = r + s
        BY <1>8, <2>2, <4>1
      <4>3. p + q = p + r + s
        BY <4>2
      <4> QED BY <4>1, <4>3
    <3> QED BY <3>1, <3>2
  <2>4. ASSUME NEW i \in 1 .. Len(pieces[n])
        PROVE  Whole(up, extra)[Offset(up, extra, n - 1) + i] = pieces[n][i]
    <3>1. PICK l : l = Len(j[n - 1]) + i
      OBVIOUS
    <3>2. l \in 1 .. Len(j[N])
      <4>1. Len(j[n - 1]) + Len(pieces[n]) <= Len(j[N])
        BY <2>2
      <4> QED BY <2>2, <3>1, <4>1, WithinWhole
    <3>3. (extra \o j[N])[Len(extra) + l] = j[N][l]
      BY <1>8, <3>2
    <3>4. j[N][l] = pieces[n][i]
      BY <1>5, <3>1
    <3>5. Offset(up, extra, n - 1) + i = Len(extra) + l
      BY <1>8, <1>9, <2>2, <3>1
    <3> QED BY <1>7, <3>3, <3>4, <3>5
  <2> QED BY <2>3, <2>4
<1> QED BY <1>1, <1>3, <1>7, <1>8, <1>10, <1>11, <1>12, <1>13

\* The cells of v are in w behind the first ones.
Holds(w, from, v) == \A i \in 1 .. Len(v) : w[from + i] = v[i]

\* What is in a payload behind its first n attributes.
LEMMA NextPiece ==
  ASSUME SentTypes, NEW up, NEW extra \in Seq(Nat), NEW n \in Nat, n < Total
  PROVE  LET a    == Order(up)[n + 1]
             v    == sent[a]
             from == Offset(up, extra, n)
             to   == Offset(up, extra, n + 1)
         IN  /\ a \in DOMAIN sent /\ from \in Nat /\ to \in Nat /\ to <= Len(Whole(up, extra))
             /\ v \in Seq(Nat) /\ Len(v) \in Nat
             /\ Whole(up, extra)[from + 1] = Attr[a]
             /\ a \in Bare(key, version) =>
                   /\ n + 1 = Total /\ to = from + 1 + Len(v)
                   /\ Holds(Whole(up, extra), from + 1, v)
             /\ a \notin Bare(key, version) =>
                   /\ to = from + 2 + Len(v) /\ Whole(up, extra)[from + 2] = Len(v)
                   /\ Holds(Whole(up, extra), from + 2, v)
<1>1. Total \in Nat /\ n + 1 \in 1 .. Total /\ n \in 0 .. Total /\ n + 1 \in 0 .. Total /\ (n + 1) - 1 = n
  BY PiecesAre
<1>2. PICK a : a = Order(up)[n + 1]
  OBVIOUS
<1>3. PICK v : v = sent[a]
  OBVIOUS
<1>4. PICK bare : bare = Bare(key, version)
  OBVIOUS
<1>5. PICK e : e = Encoded(a, v, bare)
  OBVIOUS
<1>6. PICK w : w = Whole(up, extra)
  OBVIOUS
<1>7. PICK from : from = Offset(up, extra, n)
  OBVIOUS
<1>8. PICK to : to = Offset(up, extra, n + 1)
  OBVIOUS
<1>9. a \in DOMAIN sent /\ PiecesSent(up)[n + 1] = e
  BY <1>1, <1>2, <1>3, <1>4, <1>5, PiecesAre
<1>10. a \in DOMAIN Attr /\ v \in Seq(Nat)
  BY <1>3, <1>9, AttributesKnown DEF SentTypes
<1>11. Len(v) \in Nat
  BY <1>10
<1>12. /\ from \in Nat /\ to \in Nat /\ to <= Len(w) /\ to = from + Len(e)
       /\ \A i \in 1 .. Len(e) : w[from + i] = e[i]
  <2>1. PICK k : k = n + 1
    OBVIOUS
  <2>2. k \in 1 .. Total /\ k \in 0 .. Total /\ k - 1 = n
    BY <1>1, <2>1
  <2>3. /\ Offset(up, extra, n) \in Nat /\ Offset(up, extra, k) \in Nat
        /\ Offset(up, extra, k) <= Len(Whole(up, extra))
    BY <1>1, <2>2, WholeIs
  <2>4. /\ Offset(up, extra, k) = Offset(up, extra, k - 1) + Len(PiecesSent(up)[k])
        /\ \A i \in 1 .. Len(PiecesSent(up)[k]) :
              Whole(up, extra)[Offset(up, extra, k - 1) + i] = PiecesSent(up)[k][i]
    BY <2>2, WholeIs
  <2>5. PiecesSent(up)[k] = e /\ Offset(up, extra, k - 1) = from /\ Offset(up, extra, k) = to
    BY <1>7, <1>8, <1>9, <2>1, <2>2
  <2> QED BY <1>6, <1>7, <2>3, <2>4, <2>5
<1>13. a \in bare => n + 1 = Total
  BY <1>1, <1>2, ArrangedOnce, <1>4, AttributesKnown DEF SentTypes, Total, Order, Bare
<1>14. CASE a \in bare
  <2>1. /\ e[1] = Attr[a] /\ Len(e) = 1 + Len(v)
        /\ \A i \in 1 .. Len(v) : e[1 + i] = v[i]
    <3>1. /\ Encoded(a, v, bare)[1] = Attr[a] /\ Len(Encoded(a, v, bare)) = 1 + Len(v)
          /\ \A i \in 1 .. Len(v) : Encoded(a, v, bare)[1 + i] = v[i]
      BY <1>10, <1>14, EncodedIs
    <3> QED BY <1>5, <3>1
  <2>2. 1 \in 1 .. Len(e)
    BY <1>11, <2>1
  <2>3. w[from + 1] = Attr[a]
    BY <1>12, <2>1, <2>2
  <2>4. to = from + 1 + Len(v)
    BY <1>11, <1>12, <2>1
  <2>5. ASSUME NEW i \in 1 .. Len(v) PROVE w[(from + 1) + i] = v[i]
    <3>1. 1 + i \in 1 .. Len(e) /\ from + (1 + i) = (from + 1) + i
      BY <1>11, <1>12, <2>1
    <3>2. w[from + (1 + i)] = e[1 + i]
      BY <1>12, <3>1
    <3> QED BY <2>1, <3>1, <3>2
  <2>6. Holds(w, from + 1, v)
    BY <2>5 DEF Holds
  <2> QED BY <1>2, <1>3, <1>4, <1>6, <1>7, <1>8, <1>9, <1>10, <1>11, <1>12, <1>13, <1>14, <2>3, <2>4, <2>6
<1>15. CASE a \notin bare
  <2>1. /\ e[1] = Attr[a] /\ Len(e) = 2 + Len(v) /\ e[2] = Len(v)
        /\ \A i \in 1 .. Len(v) : e[2 + i] = v[i]
    <3>1. /\ Encoded(a, v, bare)[1] = Attr[a] /\ Len(Encoded(a, v, bare)) = 2 + Len(v)
          /\ Encoded(a, v, bare)[2] = Len(v)
          /\ \A i \in 1 .. Len(v) : Encoded(a, v, bare)[2 + i] = v[i]
      BY <1>10, <1>15, EncodedIs
    <3> QED BY <1>5, <3>1
  <2>2. 1 \in 1 .. Len(e) /\ 2 \in 1 .. Len(e)
    BY <1>11, <2>1
  <2>3. w[from + 1] = Attr[a] /\ w[from + 2] = Len(v)
    BY <1>12, <2>1, <2>2
  <2>4. to = from + 2 + Len(v)
    BY <1>11, <1>12, <2>1
  <2>5. ASSUME NEW i \in 1 .. Len(v) PROVE w[(from + 2) + i] = v[i]
    <3>1. 2 + i \in 1 .. Len(e) /\ from + (2 + i) = (from + 2) + i
      BY <1>11, <1>12, <2>1
    <3>2. w[from + (2 + i)] = e[2 + i]
      BY <1>12, <3>1
    <3> QED BY <2>1, <3>1, <3>2
  <2>6. Holds(w, from + 2, v)
    BY <2>5 DEF Holds
  <2> QED BY <1>2, <1>3, <1>4, <1>6, <1>7, <1>8, <1>9, <1>10, <1>11, <1>12, <1>15, <2>3, <2>4, <2>6
<1> QED BY <1>14, <1>15

-----------------------------------------------------------------------------
(* The invariant.                                                            *)

\* The first n attributes.
Done(up, n) == {Order(up)[i] : i \in 1 .. n}

\* A parser that found f, and is at s, has parsed the first n attributes, none of
\* them data without a length.  It is behind them, or in front of what this
\* library does not know; or it skipped an attribute that was cut.
At(up, extra, n, f, s) ==
    /\ f = [a \in Done(up, n) |-> sent[a]]
    /\ \A a \in Done(up, n) : Fits(a, sent[a])
    /\ Bare(key, version) # {} => n < Total
    /\ \/ s = Offset(up, extra, n) /\ s <= cut
       \/ s = 0 /\ n = 0 /\ extra # <<>>
       \/ s \in Nat /\ s > cut /\ cut < size /\ Bare(key, version) # {}

\* data is what was left of the payload.
Left(up, extra) ==
    /\ size = Len(Whole(up, extra)) /\ cut \in 0 .. size
    /\ data = SubSeq(Whole(up, extra), 1, cut)

\* Which parser runs for which commands.
Parses(p) ==
    /\ p = "parse_tlv" =>
          /\ key \in Commands /\ key # encoded_write /\ AttributesOf(key) # {}
          /\ Bare(key, version) = {}
    /\ p = "parse_tlv_v2" => key \in {write, encoded_write} /\ version = 2

Parsers == {"parse_tlv", "parse_tlv_v2"}

TlvInv ==
    /\ SentTypes /\ Parses(pc)
    /\ \E up \in BOOLEAN, extra \in Extras :
        /\ Left(up, extra)
        /\ pc \in Parsers => \E n \in 0 .. Total : At(up, extra, n, found, start)
    /\ pc \in {"dispatch", "call", "error", "panic"} \cup Parsers
    /\ pc = "dispatch" => start = 0 /\ found = <<>>
    /\ ParsedIsSent /\ NothingMisread

-----------------------------------------------------------------------------
(* The cells of what is left.                                                *)

\* What is left of a payload.
LEMMA DataIs ==
  ASSUME SentTypes, NEW up, NEW extra \in Seq(Nat), Left(up, extra)
  PROVE  /\ Whole(up, extra) \in Seq(Nat) /\ size \in Nat /\ cut \in Nat /\ cut <= size
         /\ data \in Seq(Nat) /\ Len(data) = cut
         /\ \A i \in 1 .. cut : data[i] = Whole(up, extra)[i]
<1>1. PICK w : w = Whole(up, extra)
  OBVIOUS
<1>2. w \in Seq(Nat) /\ size = Len(w) /\ cut \in 0 .. size /\ data = SubSeq(w, 1, cut)
  BY <1>1, WholeIs DEF Left
<1>3. size \in Nat /\ cut \in Nat /\ cut <= size
  BY <1>2
<1>4. \A i \in 1 .. cut : w[i] \in Nat
  BY <1>2, <1>3
<1>5. /\ data \in Seq(Nat) /\ Len(data) = IF 1 <= cut THEN cut - 1 + 1 ELSE 0
      /\ \A i \in 1 .. cut - 1 + 1 : data[i] = w[1 + i - 1]
  BY <1>2, <1>3, <1>4, SubSeqProperties
<1>6. Len(data) = cut
  BY <1>3, <1>5
<1>7. ASSUME NEW i \in 1 .. cut PROVE data[i] = w[i]
  <2>1. i \in 1 .. cut - 1 + 1 /\ 1 + i - 1 = i
    BY <1>3
  <2> QED BY <1>5, <2>1
<1> QED BY <1>1, <1>2, <1>3, <1>5, <1>6, <1>7

\* data begins like w.
BeginsLike(w) == data \in Seq(Nat) /\ \A i \in 1 .. Len(data) : data[i] = w[i]

\* What is cut out of data where a value begins is the value, as far as it goes.
LEMMA CellsAre ==
  ASSUME NEW w, BeginsLike(w), NEW from \in Nat, NEW v \in Seq(Nat), Holds(w, from, v),
         NEW l \in 0 .. Len(v), from + l <= Len(data)
  PROVE  /\ Cells(from, from + l) \in Seq(Nat) /\ Len(Cells(from, from + l)) = l
         /\ \A i \in 1 .. l : Cells(from, from + l)[i] = v[i]
<1>1. Len(v) \in Nat /\ l \in Nat /\ l <= Len(v) /\ Len(data) \in Nat
  BY DEF BeginsLike
<1>2. PICK m, n : m = from + 1 /\ n = from + l
  OBVIOUS
<1>3. m \in Int /\ n \in Int /\ n - m + 1 = l /\ (m <= n <=> 1 <= l)
  BY <1>1, <1>2
<1>4. \A i \in m .. n : data[i] \in Nat
  <2>1. ASSUME NEW i \in m .. n PROVE i \in 1 .. Len(data)
    BY <1>1, <1>2
  <2> QED BY <2>1 DEF BeginsLike
<1>5. PICK c : c = Cells(from, from + l)
  OBVIOUS
<1>6. c = SubSeq(data, m, n)
  BY <1>2, <1>5 DEF Cells
<1>7. /\ c \in Seq(Nat) /\ Len(c) = IF m <= n THEN n - m + 1 ELSE 0
      /\ \A i \in 1 .. n - m + 1 : c[i] = data[m + i - 1]
  BY <1>3, <1>4, <1>6, SubSeqProperties
<1>8. Len(c) = l
  BY <1>1, <1>3, <1>7
<1>9. ASSUME NEW i \in 1 .. l PROVE c[i] = v[i]
  <2>1. c[i] = data[m + i - 1]
    BY <1>3, <1>7
  <2>2. m + i - 1 = from + i
    BY <1>2
  <2>3. from + i \in 1 .. Len(data) /\ i \in 1 .. Len(v)
    BY <1>1
  <2>4. data[from + i] = w[from + i]
    BY <2>3 DEF BeginsLike
  <2>5. w[from + i] = v[i]
    BY <2>3 DEF Holds
  <2> QED BY <2>1, <2>2, <2>4, <2>5
<1> QED BY <1>5, <1>7, <1>8, <1>9

\* All of a value is the value.
LEMMA CellsAll ==
  ASSUME NEW w, BeginsLike(w), NEW from \in Nat, NEW v \in Seq(Nat), Holds(w, from, v),
         from + Len(v) <= Len(data)
  PROVE  Cells(from, from + Len(v)) = v
<1>1. Len(v) \in 0 .. Len(v)
  OBVIOUS
<1>2. PICK c : c = Cells(from, from + Len(v))
  OBVIOUS
<1>3. c \in Seq(Nat) /\ Len(c) = Len(v) /\ \A i \in 1 .. Len(v) : c[i] = v[i]
  <2>1. PICK l : l = Len(v)
    OBVIOUS
  <2>2. l \in 0 .. Len(v) /\ from + l <= Len(data)
    BY <1>1, <2>1
  <2>3. /\ Cells(from, from + l) \in Seq(Nat) /\ Len(Cells(from, from + l)) = l
        /\ \A i \in 1 .. l : Cells(from, from + l)[i] = v[i]
    BY <2>2, CellsAre
  <2> QED BY <1>2, <2>1, <2>3
<1>4. c = v
  BY <1>3, SeqEqual
<1> QED BY <1>2, <1>4

\* Some of it is a prefix of it.
LEMMA CellsPrefix ==
  ASSUME NEW w, BeginsLike(w), NEW from \in Nat, NEW v \in Seq(Nat), Holds(w, from, v),
         NEW l \in 0 .. Len(v), from + l <= Len(data)
  PROVE  IsPrefix(Cells(from, from + l), v)
<1>1. PICK c : c = Cells(from, from + l)
  OBVIOUS
<1>2. c \in Seq(Nat) /\ Len(c) = l /\ \A i \in 1 .. l : c[i] = v[i]
  <2>1. /\ Cells(from, from + l) \in Seq(Nat) /\ Len(Cells(from, from + l)) = l
        /\ \A i \in 1 .. l : Cells(from, from + l)[i] = v[i]
    BY CellsAre
  <2> QED BY <1>1, <2>1
<1>3. Len(v) \in Nat /\ l \in Nat /\ l <= Len(v)
  OBVIOUS
<1>4. \A i \in 1 .. l : c[i] \in Nat /\ v[i] \in Nat
  <2>1. \A i \in 1 .. l : i \in 1 .. Len(v) /\ i \in 1 .. Len(c)
    BY <1>2, <1>3
  <2>2. ASSUME NEW i \in 1 .. l PROVE c[i] \in Nat
    BY <1>2, <2>1
  <2>3. ASSUME NEW i \in 1 .. l PROVE v[i] \in Nat
    BY <2>1
  <2> QED BY <2>2, <2>3
<1>5. /\ SubSeq(c, 1, l) \in Seq(Nat) /\ Len(SubSeq(c, 1, l)) = IF 1 <= l THEN l - 1 + 1 ELSE 0
      /\ \A i \in 1 .. l - 1 + 1 : SubSeq(c, 1, l)[i] = c[1 + i - 1]
  BY <1>3, <1>4, SubSeqProperties
<1>6. /\ SubSeq(v, 1, l) \in Seq(Nat) /\ Len(SubSeq(v, 1, l)) = IF 1 <= l THEN l - 1 + 1 ELSE 0
      /\ \A i \in 1 .. l - 1 + 1 : SubSeq(v, 1, l)[i] = v[1 + i - 1]
  BY <1>3, <1>4, SubSeqProperties
<1>7. PICK s, t : s = SubSeq(c, 1, l) /\ t = SubSeq(v, 1, l)
  OBVIOUS
<1>8. Len(s) = l /\ Len(t) = l
  BY <1>3, <1>5, <1>6, <1>7
<1>9. ASSUME NEW i \in 1 .. l PROVE s[i] = t[i]
  <2>1. i \in 1 .. l - 1 + 1 /\ 1 + i - 1 = i
    BY <1>3
  <2> QED BY <1>2, <1>5, <1>6, <1>7, <2>1
<1>10. s = t
  BY <1>5, <1>6, <1>7, <1>8, <1>9, SeqEqual
<1> QED BY <1>1, <1>2, <1>3, <1>7, <1>10 DEF IsPrefix

-----------------------------------------------------------------------------
(* One turn of a parser's loop.                                              *)

\* The type, the length and the value of the attribute behind the first n, as far
\* as they were not cut.
LEMMA NextCells ==
  ASSUME SentTypes, NEW up, NEW extra \in Seq(Nat), Left(up, extra), NEW n \in Nat, n < Total
  PROVE  LET a    == Order(up)[n + 1]
             from == Offset(up, extra, n)
             to   == Offset(up, extra, n + 1)
         IN  /\ a \in DOMAIN sent /\ from \in Nat /\ to \in Nat /\ from + 1 <= to /\ to <= size
             /\ from + 1 <= cut => data[from + 1] = Attr[a]
             /\ a \in Bare(key, version) =>
                   /\ n + 1 = Total
                   /\ from + 1 <= cut => IsPrefix(Cells(from + 1, cut), sent[a])
                   /\ from + 1 <= cut /\ cut = size => Cells(from + 1, cut) = sent[a]
             /\ a \notin Bare(key, version) =>
                   /\ from + 2 <= to
                   /\ from + 2 <= cut => to = from + 2 + data[from + 2]
                   /\ to <= cut => Cells(from + 2, to) = sent[a]
<1>1. PICK a : a = Order(up)[n + 1]
  OBVIOUS
<1>2. PICK v : v = sent[a]
  OBVIOUS
<1>3. PICK w : w = Whole(up, extra)
  OBVIOUS
<1>4. PICK from : from = Offset(up, extra, n)
  OBVIOUS
<1>5. PICK to : to = Offset(up, extra, n + 1)
  OBVIOUS
<1>6. PICK bare : bare = Bare(key, version)
  OBVIOUS
<1>7. /\ a \in DOMAIN sent /\ from \in Nat /\ to \in Nat /\ to <= Len(w)
      /\ v \in Seq(Nat) /\ Len(v) \in Nat /\ w[from + 1] = Attr[a]
  BY <1>1, <1>2, <1>3, <1>4, <1>5, NextPiece
<1>8. a \in bare =>
         /\ n + 1 = Total /\ to = from + 1 + Len(v)
         /\ Holds(w, from + 1, v)
  BY <1>1, <1>2, <1>3, <1>4, <1>5, <1>6, NextPiece
<1>9. a \notin bare =>
         /\ to = from + 2 + Len(v) /\ w[from + 2] = Len(v)
         /\ Holds(w, from + 2, v)
  BY <1>1, <1>2, <1>3, <1>4, <1>5, <1>6, NextPiece
<1>10. /\ size \in Nat /\ cut \in Nat /\ cut <= size /\ size = Len(w) /\ Len(data) = cut
       /\ BeginsLike(w) /\ \A i \in 1 .. cut : data[i] = w[i]
  BY <1>3, DataIs DEF Left, BeginsLike
<1>11. from + 1 <= to
  BY <1>7, <1>8, <1>9
<1>12. from + 1 <= cut => data[from + 1] = Attr[a]
  <2>1. from + 1 <= cut => from + 1 \in 1 .. cut
    BY <1>7, <1>10
  <2> QED BY <1>7, <1>10, <2>1
<1>13. ASSUME a \in bare, from + 1 <= cut
       PROVE  /\ IsPrefix(Cells(from + 1, cut), v)
              /\ cut = size => Cells(from + 1, cut) = v
  <2>1. PICK f, l : f = from + 1 /\ l = cut - (from + 1)
    OBVIOUS
  <2>2. f \in Nat /\ Holds(w, f, v)
    BY <1>7, <1>8, <1>13, <2>1
  <2>3. n + 1 = Total /\ to = size
    <3>1. n + 1 = Total /\ Offset(up, extra, Total) = Len(Whole(up, extra))
      BY <1>8, <1>13, WholeIs
    <3> QED BY <1>3, <1>5, <1>10, <3>1
  <2>4. l \in 0 .. Len(v) /\ f + l = cut /\ f + l <= Len(data)
    BY <1>7, <1>8, <1>10, <1>13, <2>1, <2>3
  <2>5. IsPrefix(Cells(f, f + l), v)
    BY <1>7, <1>10, <2>2, <2>4, CellsPrefix
  <2>6. ASSUME cut = size PROVE Cells(f, cut) = v
    <3>1. f + Len(v) = cut /\ f + Len(v) <= Len(data)
      BY <1>7, <1>8, <1>10, <1>13, <2>1, <2>3, <2>6
    <3>2. Cells(f, f + Len(v)) = v
      BY <1>7, <1>10, <2>2, <3>1, CellsAll
    <3> QED BY <3>1, <3>2
  <2> QED BY <2>1, <2>4, <2>5, <2>6
<1>14. ASSUME a \notin bare
       PROVE  /\ from + 2 <= to
              /\ from + 2 <= cut => to = from + 2 + data[from + 2]
              /\ to <= cut => Cells(from + 2, to) = v
  <2>1. PICK f : f = from + 2
    OBVIOUS
  <2>2. f \in Nat /\ f >= 1 /\ Holds(w, f, v) /\ to = f + Len(v) /\ f <= to
    BY <1>7, <1>9, <1>14, <2>1
  <2>3. ASSUME f <= cut PROVE to = f + data[f]
    <3>1. f \in 1 .. cut
      BY <1>10, <2>2, <2>3
    <3>2. data[f] = w[f] /\ w[f] = Len(v)
      BY <1>9, <1>10, <1>14, <2>1, <3>1
    <3> QED BY <2>2, <3>2
  <2>4. ASSUME to <= cut PROVE Cells(f, to) = v
    <3>1. f + Len(v) <= Len(data)
      BY <1>10, <2>2, <2>4
    <3>2. Cells(f, f + Len(v)) = v
      BY <1>7, <1>10, <2>2, <3>1, CellsAll
    <3> QED BY <2>2, <3>2
  <2> QED BY <2>1, <2>2, <2>3, <2>4
<1> QED BY <1>1, <1>2, <1>4, <1>5, <1>6, <1>7, <1>8, <1>10, <1>11, <1>12, <1>13, <1>14

\* What can be in front of the attributes.
LEMMA ExtraCells ==
  ASSUME SentTypes, NEW up, NEW extra \in Extras, Left(up, extra)
  PROVE  /\ extra \in Seq(Nat)
         /\ extra = <<>> => Offset(up, extra, 0) = 0
         /\ extra # <<>> =>
               /\ Offset(up, extra, 0) = 3 /\ 3 <= size
               /\ 1 <= cut => data[1] = Unknown
               /\ 2 <= cut => data[2] = 1
<1>1. Unknown \in Nat
  BY TlvAssumption
<1>2. extra \in Seq(Nat)
  <2>1. <<>> \in Seq(Nat) /\ <<Unknown, 1, 0>> \in Seq(Nat)
    BY <1>1
  <2> QED BY <2>1 DEF Extras
<1>3. Total \in Nat /\ Offset(up, extra, 0) = Len(extra) /\ Offset(up, extra, 0) <= Len(Whole(up, extra))
  <2>1. Total \in Nat
    BY PiecesAre
  <2>2. 0 \in 0 .. Total
    BY <2>1
  <2> QED BY <1>2, <2>1, <2>2, WholeIs
<1>4. /\ size = Len(Whole(up, extra)) /\ cut \in Nat
      /\ \A i \in 1 .. cut : data[i] = Whole(up, extra)[i]
  BY <1>2, DataIs DEF Left
<1>5. CASE extra = <<>>
  BY <1>2, <1>3, <1>5
<1>6. CASE extra # <<>>
  <2>1. extra = <<Unknown, 1, 0>>
    BY <1>6 DEF Extras
  <2>2. Len(extra) = 3 /\ extra[1] = Unknown /\ extra[2] = 1
    BY <2>1
  <2>3. 1 \in 1 .. Len(extra) /\ 2 \in 1 .. Len(extra)
    BY <2>2
  <2>4. Whole(up, extra)[1] = Unknown /\ Whole(up, extra)[2] = 1
    BY <1>2, <2>2, <2>3, WholeIs
  <2>5. (1 <= cut => 1 \in 1 .. cut) /\ (2 <= cut => 2 \in 1 .. cut)
    BY <1>4
  <2> QED BY <1>2, <1>3, <1>4, <1>6, <2>2, <2>4, <2>5
<1> QED BY <1>5, <1>6

\* The first n attributes and the next one.
LEMMA DoneNext ==
  ASSUME SentTypes, NEW up, NEW n \in Nat, n < Total
  PROVE  /\ Done(up, n + 1) = Done(up, n) \cup {Order(up)[n + 1]}
         /\ Order(up)[n + 1] \in DOMAIN sent /\ Order(up)[n + 1] \notin Done(up, n)
         /\ Done(up, n) \subseteq DOMAIN sent
<1>1. /\ Total \in Nat /\ \A i \in 1 .. Total : Order(up)[i] \in DOMAIN sent
      /\ \A i, j \in 1 .. Total : Order(up)[i] = Order(up)[j] => i = j
  BY PiecesAre, ArrangedOnce, AttributesKnown DEF SentTypes, Total, Order
<1>2. \A i : i \in 1 .. n + 1 <=> i \in 1 .. n \/ i = n + 1
  OBVIOUS
<1>3. n + 1 \in 1 .. Total /\ \A i \in 1 .. n : i \in 1 .. Total /\ i # n + 1
  BY <1>1
<1> QED BY <1>1, <1>2, <1>3 DEF Done

\* All of them.
LEMMA DoneAll ==
  ASSUME SentTypes, NEW up
  PROVE  Done(up, 0) = {} /\ Done(up, Total) = DOMAIN sent
<1>1. /\ Total \in Nat /\ \A i \in 1 .. Total : Order(up)[i] \in DOMAIN sent
      /\ \A a \in DOMAIN sent : \E i \in 1 .. Total : Order(up)[i] = a
  <2>1. Total \in Nat /\ \A i \in 1 .. Total : Order(up)[i] \in DOMAIN sent
    BY PiecesAre
  <2>2. DOMAIN sent \in SUBSET DOMAIN Attr
    BY AttributesKnown DEF SentTypes
  <2>3. \A a \in DOMAIN sent : \E i \in 1 .. Total : Order(up)[i] = a
    BY <2>2, ArrangedOnce DEF Total, Order
  <2> QED BY <2>1, <2>3
<1> QED BY <1>1 DEF Done

\* Data without a length is needed, and the last.
LEMMA BareLast ==
  ASSUME SentTypes, NEW up, Bare(key, version) # {}
  PROVE  /\ key \in Commands /\ Bare(key, version) = {"data"}
         /\ "data" \in Needed /\ "data" \in DOMAIN sent
         /\ Total \in Nat /\ Total # 0 /\ Order(up)[Total] = "data"
         /\ \A n \in Nat : n < Total => "data" \notin Done(up, n)
<1>1. key \in {write, encoded_write} /\ Bare(key, version) = {"data"}
  BY DEF Bare
<1>2. key \in Commands /\ "data" \in Needed /\ "data" \in DOMAIN sent
  BY <1>1, DataIsNeeded DEF Needed, SentTypes
<1>3. DOMAIN sent \in SUBSET DOMAIN Attr /\ Total \in Nat
  BY AttributesKnown, PiecesAre DEF SentTypes
<1>4. PICK i \in 1 .. Total : Order(up)[i] = "data"
  BY <1>2, <1>3, ArrangedOnce DEF Total, Order
<1>5. i = Total
  BY <1>3, <1>4, ArrangedOnce DEF Total, Order
<1>6. ASSUME NEW n \in Nat, n < Total, "data" \in Done(up, n) PROVE FALSE
  <2>1. PICK j \in 1 .. n : Order(up)[j] = "data"
    BY <1>6 DEF Done
  <2>2. j \in 1 .. Total /\ j # Total
    BY <1>3, <1>6, <2>1
  <2> QED BY <1>3, <2>1, <2>2, ArrangedOnce DEF Total, Order
<1> QED BY <1>1, <1>2, <1>3, <1>4, <1>5, <1>6

\* A parser that has not parsed all that was sent misses something.
LEMMA SomethingIsMissing ==
  ASSUME SentTypes, NEW up, NEW n \in Nat, n < Total, NEW f, DOMAIN f = Done(up, n),
         key \in Commands, Bare(key, version) = {} => key # encoded_write
  PROVE  Missing(f)
<1>1. CASE Bare(key, version) # {}
  <2>1. "data" \in Needed /\ "data" \notin Done(up, n)
    BY <1>1, BareLast
  <2> QED BY <2>1 DEF Missing
<1>2. CASE Bare(key, version) = {}
  <2>1. PICK a : a \in DOMAIN sent /\ a \notin Done(up, n)
    BY DoneNext
  <2>2. a \in Needed
    BY <1>2, <2>1, CommandAttributes DEF SentTypes, Needed
  <2> QED BY <2>1, <2>2 DEF Missing
<1> QED BY <1>1, <1>2

\* What a method is called with.
Returned(f) ==
    /\ f = [a \in DOMAIN sent |-> f[a]]
    /\ \A a \in DOMAIN sent :
          \/ f[a] = sent[a] /\ Fits(a, f[a])
          \/ a \in Bare(key, version) /\ IsPrefix(f[a], sent[a])
    /\ cut = size => f = sent
    /\ cut < size => Bare(key, version) # {}

\* What a turn of the parser p comes to.
Outcome(up, extra, p) ==
    \/ pc' = p /\ \E m \in 0 .. Total : At(up, extra, m, found', start')
    \/ pc' = "error" /\ (cut < size \/ ~ Sendable)
    \/ pc' = "panic" /\ Bare(key, version) # {} /\ cut < size /\ start' + 1 = cut
    \/ pc' = "call" /\ Returned(found')

\* The attribute behind the first n, if all of it is there.
LEMMA KeepNext ==
  ASSUME SentTypes, NEW up, NEW extra \in Seq(Nat), Left(up, extra), NEW n \in Nat, n < Total,
         found = [a \in Done(up, n) |-> sent[a]], \A a \in Done(up, n) : Fits(a, sent[a]),
         Order(up)[n + 1] \notin Bare(key, version), Offset(up, extra, n + 1) <= cut,
         keep(Attr[Order(up)[n + 1]], sent[Order(up)[n + 1]], Offset(up, extra, n + 1))
  PROVE  Outcome(up, extra, pc)
<1>1. PICK a : a = Order(up)[n + 1]
  OBVIOUS
<1>2. /\ Done(up, n + 1) = Done(up, n) \cup {a} /\ a \in DOMAIN sent /\ a \notin Done(up, n)
      /\ Done(up, n) \subseteq DOMAIN sent
  BY <1>1, DoneNext
<1>3. {b \in AttributesOf(key) : Attr[b] = Attr[a]} = {a}
  BY <1>2, TypesDiffer, AttributesKnown DEF SentTypes
<1>4. /\ start' = Offset(up, extra, n + 1)
      /\ found' = Some({b \in {a} : Fits(b, sent[a])}, sent[a])
      /\ pc' = IF \E b \in {a} : ~ Fits(b, sent[a]) THEN "error" ELSE pc
  BY <1>1, <1>3 DEF keep
<1>5. CASE ~ Fits(a, sent[a])
  <2>1. ~ Sendable
    BY <1>2, <1>5 DEF Sendable
  <2> QED BY <1>4, <1>5, <2>1 DEF Outcome
<1>6. CASE Fits(a, sent[a])
  <2>1. found' = Some({a}, sent[a]) /\ pc' = pc
    BY <1>4, <1>6
  <2>2. found' = [b \in Done(up, n + 1) |-> sent[b]]
    <3>1. DOMAIN found = Done(up, n) /\ \A b \in Done(up, n) : found[b] = sent[b]
      OBVIOUS
    <3>2. found' = [b \in {a} \cup Done(up, n) |-> IF b \in {a} THEN sent[a] ELSE found[b]]
      BY <2>1, <3>1 DEF Some
    <3>3. {a} \cup Done(up, n) = Done(up, n + 1)
      BY <1>2
    <3>4. \A b \in {a} \cup Done(up, n) : (IF b \in {a} THEN sent[a] ELSE found[b]) = sent[b]
      BY <3>1
    <3> QED BY <3>2, <3>3, <3>4
  <2>3. \A b \in Done(up, n + 1) : Fits(b, sent[b])
    BY <1>2, <1>6
  <2>4. Total \in Nat
    BY PiecesAre
  <2>5. Bare(key, version) # {} => n + 1 < Total
    <3>1. Bare(key, version) # {} => n + 1 # Total
      BY <1>1, BareLast
    <3> QED BY <2>4, <3>1
  <2>6. At(up, extra, n + 1, found', start')
    BY <1>4, <2>2, <2>3, <2>5 DEF At
  <2>7. n + 1 \in 0 .. Total
    BY <2>4
  <2> QED BY <2>1, <2>6, <2>7 DEF Outcome
<1> QED BY <1>5, <1>6

\* What this library does not know, if all of it is there.
LEMMA KeepNothing ==
  ASSUME SentTypes, NEW up, NEW extra, NEW v, Offset(up, extra, 0) = 3, 3 <= cut,
         At(up, extra, 0, found, start), keep(Unknown, v, 3)
  PROVE  Outcome(up, extra, pc)
<1>1. {a \in AttributesOf(key) : Attr[a] = Unknown} = {}
  BY TlvAssumption, AttributesKnown
<1>2. start' = 3 /\ found' = Some({}, v) /\ pc' = pc
  BY <1>1 DEF keep
<1>3. found' = found
  <2>1. found = [a \in Done(up, 0) |-> sent[a]]
    BY DEF At
  <2>2. found = [a \in DOMAIN found |-> found[a]]
    BY <2>1
  <2> QED BY <1>2, <2>2 DEF Some
<1>4. At(up, extra, 0, found', start')
  BY <1>2, <1>3 DEF At
<1>5. 0 \in 0 .. Total
  BY PiecesAre
<1> QED BY <1>2, <1>4, <1>5 DEF Outcome

\* A turn of parse_tlv.
LEMMA TlvTurn ==
  ASSUME SentTypes, Parses("parse_tlv"), NEW up, NEW extra \in Extras, Left(up, extra),
         NEW n \in 0 .. Total, At(up, extra, n, found, start), pc = "parse_tlv", parse_tlv
  PROVE  Outcome(up, extra, pc)
<1>1. /\ key \in Commands /\ key # encoded_write /\ AttributesOf(key) # {}
      /\ Bare(key, version) = {}
  BY DEF Parses
<1>2. /\ size \in Nat /\ cut \in Nat /\ cut <= size /\ Len(data) = cut /\ extra \in Seq(Nat)
      /\ Total \in Nat /\ n \in Nat
  <2>1. extra \in Seq(Nat)
    BY ExtraCells
  <2>2. Total \in Nat /\ n \in Nat
    BY PiecesAre
  <2> QED BY <2>1, <2>2, DataIs
<1>3. found = [a \in Done(up, n) |-> sent[a]] /\ \A a \in Done(up, n) : Fits(a, sent[a])
  BY DEF At
<1>4. ASSUME start + 2 > cut PROVE finish(found)
  BY <1>2, <1>4 DEF parse_tlv
<1>5. ASSUME ~ start + 2 > cut, start + 2 + data[start + 2] <= cut
      PROVE  keep(data[start + 1], Cells(start + 2, start + 2 + data[start + 2]), start + 2 + data[start + 2])
  BY <1>2, <1>5 DEF parse_tlv
<1>6. ASSUME ~ start + 2 > cut, ~ start + 2 + data[start + 2] <= cut
      PROVE  pc' = "error"
  BY <1>2, <1>6 DEF parse_tlv
<1>7. ASSUME n < Total, finish(found), cut < size PROVE Outcome(up, extra, pc)
  <2>1. DOMAIN found = Done(up, n)
    BY <1>3
  <2>2. Missing(found)
    BY <1>1, <1>2, <1>7, <2>1, SomethingIsMissing
  <2> QED BY <1>7, <2>2 DEF finish, Outcome
<1>8. CASE start = Offset(up, extra, n) /\ start <= cut
  <2>1. CASE n = Total
    <3>1. start = size /\ cut = size
      BY <1>2, <1>8, <2>1, WholeIs DEF Left
    <3>2. finish(found)
      BY <1>2, <1>4, <3>1
    <3>3. found = sent
      BY <1>3, <2>1, DoneAll DEF SentTypes
    <3>4. ~ Missing(found)
      BY <3>3 DEF Missing, SentTypes
    <3>5. \A a \in DOMAIN sent : Fits(a, sent[a])
      BY <1>3, <2>1, DoneAll
    <3>6. Returned(found)
      <4>1. sent = [a \in DOMAIN sent |-> sent[a]]
        BY DEF SentTypes
      <4>2. ~ cut < size
        BY <1>2, <3>1
      <4>3. Returned(sent)
        BY <3>5, <4>1, <4>2 DEF Returned
      <4> QED BY <3>3, <4>3
    <3> QED BY <3>2, <3>4, <3>6 DEF finish, Outcome
  <2>2. CASE n # Total
    <3>1. n < Total
      BY <1>2, <2>2
    <3>2. PICK a, to : a = Order(up)[n + 1] /\ to = Offset(up, extra, n + 1)
      OBVIOUS
    <3>3. a \notin Bare(key, version)
      BY <1>1
    <3>4. /\ start \in Nat /\ to \in Nat /\ to <= size /\ start + 2 <= to
          /\ start + 1 <= cut => data[start + 1] = Attr[a]
          /\ start + 2 <= cut => to = start + 2 + data[start + 2]
          /\ to <= cut => Cells(start + 2, to) = sent[a]
      BY <1>2, <1>8, <3>1, <3>2, <3>3, NextCells
    <3>5. CASE start + 2 > cut
      <4>1. cut < size
        BY <1>2, <3>4, <3>5
      <4> QED BY <1>4, <1>7, <3>1, <3>5, <4>1
    <3>6. CASE ~ start + 2 > cut /\ to <= cut
      <4>1. start + 1 <= cut /\ start + 2 <= cut
        BY <1>2, <3>4, <3>6
      <4>2. keep(Attr[a], sent[a], to)
        BY <1>5, <3>4, <3>6, <4>1
      <4> QED BY <1>2, <1>3, <3>1, <3>2, <3>3, <3>6, <4>2, KeepNext
    <3>7. CASE ~ start + 2 > cut /\ ~ to <= cut
      <4>1. start + 2 <= cut /\ cut < size
        BY <1>2, <3>4, <3>7
      <4>2. pc' = "error"
        BY <1>6, <3>4, <3>7, <4>1
      <4> QED BY <4>1, <4>2 DEF Outcome
    <3> QED BY <3>5, <3>6, <3>7
  <2> QED BY <2>1, <2>2
<1>9. CASE start = 0 /\ n = 0 /\ extra # <<>>
  <2>1. /\ Offset(up, extra, 0) = 3 /\ 3 <= size
        /\ 1 <= cut => data[1] = Unknown
        /\ 2 <= cut => data[2] = 1
    BY <1>9, ExtraCells
  <2>2. start + 1 = 1 /\ start + 2 = 2
    BY <1>9
  <2>3. CASE start + 2 > cut
    <3>1. cut < size
      BY <1>2, <2>1, <2>2, <2>3
    <3>2. n < Total
      <4>1. Needed # {}
        BY <1>1, CommandAttributes DEF Needed
      <4>2. DOMAIN sent # {}
        BY <4>1 DEF SentTypes
      <4> QED BY <1>2, <1>9, <4>2, DoneAll
    <3> QED BY <1>4, <1>7, <2>3, <3>1, <3>2
  <2>4. CASE ~ start + 2 > cut
    <3>1. 1 <= cut /\ 2 <= cut /\ start + 2 + data[start + 2] = 3
      BY <1>2, <2>1, <2>2, <2>4
    <3>2. CASE 3 <= cut
      <4>1. keep(Unknown, Cells(start + 2, 3), 3)
        BY <1>5, <2>1, <2>2, <2>4, <3>1, <3>2
      <4> QED BY <1>9, <2>1, <3>2, <4>1, KeepNothing
    <3>3. CASE ~ 3 <= cut
      <4>1. pc' = "error"
        BY <1>6, <2>4, <3>1, <3>3
      <4>2. cut < size
        BY <1>2, <2>1, <3>3
      <4> QED BY <4>1, <4>2 DEF Outcome
    <3> QED BY <3>2, <3>3
  <2> QED BY <2>3, <2>4
<1> QED BY <1>1, <1>8, <1>9 DEF At

\* A turn of parse_tlv_v2.
LEMMA V2Turn ==
  ASSUME SentTypes, Parses("parse_tlv_v2"), NEW up, NEW extra \in Extras, Left(up, extra),
         NEW n \in 0 .. Total, At(up, extra, n, found, start), pc = "parse_tlv_v2", parse_v2
  PROVE  Outcome(up, extra, pc)
<1>1. Bare(key, version) # {} /\ Bare(key, version) = {"data"} /\ key \in Commands
  <2>1. Bare(key, version) # {}
    BY DEF Parses, Bare
  <2> QED BY <2>1, BareLast
<1>2. /\ size \in Nat /\ cut \in Nat /\ cut <= size /\ Len(data) = cut /\ extra \in Seq(Nat)
      /\ Total \in Nat /\ n \in Nat
  <2>1. extra \in Seq(Nat)
    BY ExtraCells
  <2>2. Total \in Nat /\ n \in Nat
    BY PiecesAre
  <2> QED BY <2>1, <2>2, DataIs
<1>3. /\ found = [a \in Done(up, n) |-> sent[a]] /\ \A a \in Done(up, n) : Fits(a, sent[a])
      /\ n < Total
  BY <1>1 DEF At
<1>4. ASSUME start + 1 > cut PROVE finish(found)
  BY <1>2, <1>4 DEF parse_v2
<1>5. ASSUME ~ start + 1 > cut, data[start + 1] = Attr.data
      PROVE  finish(Some({"data"}, Cells(start + 1, cut)))
  BY <1>2, <1>5 DEF parse_v2
<1>6. ASSUME ~ start + 1 > cut, data[start + 1] # Attr.data, start + 1 + 1 > cut
      PROVE  pc' = "panic" /\ UNCHANGED start
  BY <1>2, <1>6 DEF parse_v2
<1>7. ASSUME ~ start + 1 > cut, data[start + 1] # Attr.data, ~ start + 1 + 1 > cut,
             start + 1 + 1 + data[start + 1 + 1] <= cut
      PROVE  keep(data[start + 1], Cells(start + 1 + 1, start + 1 + 1 + data[start + 1 + 1]),
                  start + 1 + 1 + data[start + 1 + 1])
  BY <1>2, <1>7 DEF parse_v2
<1>8. ASSUME ~ start + 1 > cut, data[start + 1] # Attr.data, ~ start + 1 + 1 > cut,
             ~ start + 1 + 1 + data[start + 1 + 1] <= cut
      PROVE  start' = start + 1 + 1 + data[start + 1 + 1] /\ UNCHANGED <<found, pc>>
  BY <1>2, <1>8 DEF parse_v2
<1>9. ASSUME start + 1 > cut, cut < size PROVE Outcome(up, extra, pc)
  <2>1. DOMAIN found = Done(up, n)
    BY <1>3
  <2>2. Missing(found)
    BY <1>1, <1>2, <1>3, <2>1, SomethingIsMissing
  <2> QED BY <1>4, <1>9, <2>2 DEF finish, Outcome
<1>10. ASSUME start' \in Nat, start' > cut, UNCHANGED <<found, pc>>, cut < size PROVE Outcome(up, extra, pc)
  <2>1. At(up, extra, n, found', start')
    BY <1>1, <1>3, <1>10 DEF At
  <2> QED BY <1>10, <2>1 DEF Outcome
<1>11. CASE start = Offset(up, extra, n) /\ start <= cut
  <2>1. PICK a, to : a = Order(up)[n + 1] /\ to = Offset(up, extra, n + 1)
    OBVIOUS
  <2>2. /\ a \in DOMAIN sent /\ start \in Nat /\ to \in Nat /\ start + 1 <= to /\ to <= size
        /\ start + 1 <= cut => data[start + 1] = Attr[a]
        /\ a \in Bare(key, version) =>
              /\ n + 1 = Total
              /\ start + 1 <= cut => IsPrefix(Cells(start + 1, cut), sent[a])
              /\ start + 1 <= cut /\ cut = size => Cells(start + 1, cut) = sent[a]
        /\ a \notin Bare(key, version) =>
              /\ start + 2 <= to
              /\ start + 2 <= cut => to = start + 2 + data[start + 2]
              /\ to <= cut => Cells(start + 2, to) = sent[a]
    BY <1>2, <1>3, <1>11, <2>1, NextCells
  <2>3. CASE start + 1 > cut
    <3>1. cut < size
      BY <1>2, <2>2, <2>3
    <3> QED BY <1>9, <2>3, <3>1
  <2>4. CASE ~ start + 1 > cut /\ a = "data"
    <3>1. start + 1 <= cut
      BY <1>2, <2>2, <2>4
    <3>2. PICK v : v = Cells(start + 1, cut)
      OBVIOUS
    <3>3. PICK f : f = Some({"data"}, v)
      OBVIOUS
    <3>4. finish(f)
      BY <1>5, <2>2, <2>4, <3>1, <3>2, <3>3
    <3>5. n + 1 = Total /\ IsPrefix(v, sent["data"]) /\ (cut = size => v = sent["data"])
      BY <1>1, <2>2, <2>4, <3>1, <3>2
    <3>6. /\ Done(up, n + 1) = Done(up, n) \cup {"data"}
          /\ Done(up, n + 1) = DOMAIN sent
      <4>1. Done(up, n + 1) = Done(up, n) \cup {Order(up)[n + 1]}
        BY <1>2, <1>3, DoneNext
      <4>2. Done(up, Total) = DOMAIN sent
        BY DoneAll
      <4> QED BY <2>1, <2>4, <3>5, <4>1, <4>2
    <3>7. f = [b \in DOMAIN sent |-> IF b = "data" THEN v ELSE sent[b]]
      <4>1. DOMAIN found = Done(up, n) /\ \A b \in Done(up, n) : found[b] = sent[b]
        BY <1>3
      <4>2. f = [b \in {"data"} \cup Done(up, n) |-> IF b \in {"data"} THEN v ELSE found[b]]
        BY <3>3, <4>1 DEF Some
      <4>3. {"data"} \cup Done(up, n) = DOMAIN sent
        BY <3>6
      <4> QED BY <4>1, <4>2, <4>3
    <3>8. DOMAIN f = DOMAIN sent /\ f["data"] = v /\ \A b \in DOMAIN sent : b # "data" => f[b] = sent[b]
      BY <2>2, <2>4, <3>7
    <3>9. f = [b \in DOMAIN sent |-> f[b]]
      BY <3>7
    <3>10. \A b \in DOMAIN sent : b # "data" => Fits(b, f[b])
      BY <1>3, <3>6, <3>8
    <3>11. cut = size => f = sent
      BY <3>5, <3>8, <3>9 DEF SentTypes
    <3>12. Returned(f)
      BY <1>1, <3>5, <3>8, <3>9, <3>10, <3>11 DEF Returned
    <3>13. ~ Missing(f)
      BY <3>8 DEF Missing, SentTypes
    <3> QED BY <3>4, <3>12, <3>13 DEF finish, Outcome
  <2>5. CASE ~ start + 1 > cut /\ a # "data"
    <3>1. /\ a \notin Bare(key, version) /\ start + 2 <= to
          /\ start + 2 <= cut => to = start + 2 + data[start + 2]
          /\ to <= cut => Cells(start + 2, to) = sent[a]
      BY <1>1, <2>2, <2>5
    <3>2. data[start + 1] = Attr[a] /\ Attr[a] # Attr.data
      <4>1. start + 1 <= cut
        BY <1>2, <2>2, <2>5
      <4>2. a \in DOMAIN Attr /\ "data" \in DOMAIN Attr
        BY <2>2, AttributesKnown, <1>1, BareLast DEF SentTypes
      <4> QED BY <2>2, <2>5, <4>1, <4>2, TypesDiffer
    <3>3. start + 1 + 1 = start + 2
      BY <2>2
    <3>4. CASE start + 2 > cut
      <4>1. cut < size /\ start + 1 = cut
        BY <1>2, <2>2, <2>5, <3>1, <3>4
      <4>2. pc' = "panic" /\ start' = start
        BY <1>6, <2>5, <3>2, <3>3, <3>4
      <4> QED BY <1>1, <4>1, <4>2 DEF Outcome
    <3>5. CASE ~ start + 2 > cut /\ to <= cut
      <4>1. to = start + 2 + data[start + 2] /\ Cells(start + 2, to) = sent[a]
        BY <1>2, <2>2, <3>1, <3>5
      <4>2. keep(Attr[a], sent[a], to)
        BY <1>7, <2>5, <3>2, <3>3, <3>5, <4>1
      <4> QED BY <1>2, <1>3, <2>1, <3>1, <3>5, <4>2, KeepNext
    <3>6. CASE ~ start + 2 > cut /\ ~ to <= cut
      <4>1. to = start + 2 + data[start + 2] /\ cut < size /\ to > cut
        BY <1>2, <2>2, <3>1, <3>6
      <4>2. start' = to /\ UNCHANGED <<found, pc>>
        BY <1>8, <2>5, <3>2, <3>3, <3>6, <4>1
      <4> QED BY <1>10, <2>2, <4>1, <4>2
    <3> QED BY <3>4, <3>5, <3>6
  <2> QED BY <2>3, <2>4, <2>5
<1>12. CASE start = 0 /\ n = 0 /\ extra # <<>>
  <2>1. /\ Offset(up, extra, 0) = 3 /\ 3 <= size
        /\ 1 <= cut => data[1] = Unknown
        /\ 2 <= cut => data[2] = 1
    BY <1>12, ExtraCells
  <2>2. start + 1 = 1 /\ start + 1 + 1 = 2
    BY <1>12
  <2>3. CASE start + 1 > cut
    <3>1. cut < size
      BY <1>2, <2>1, <2>2, <2>3
    <3> QED BY <1>9, <2>3, <3>1
  <2>4. CASE ~ start + 1 > cut
    <3>1. data[start + 1] = Unknown
      BY <1>2, <2>1, <2>2, <2>4
    <3>2. data[start + 1] # Attr.data
      <4>1. "data" \in DOMAIN Attr
        BY <1>1, BareLast, AttributesKnown DEF SentTypes
      <4> QED BY <3>1, <4>1, TlvAssumption
    <3>3. CASE start + 1 + 1 > cut
      <4>1. cut < size /\ start + 1 = cut
        BY <1>2, <2>1, <2>2, <2>4, <3>3
      <4>2. pc' = "panic" /\ start' = start
        BY <1>6, <2>4, <3>2, <3>3
      <4> QED BY <1>1, <4>1, <4>2 DEF Outcome
    <3>4. CASE ~ start + 1 + 1 > cut
      <4>1. start + 1 + 1 + data[start + 1 + 1] = 3
        BY <1>2, <2>1, <2>2, <3>4
      <4>2. CASE 3 <= cut
        <5>1. keep(Unknown, Cells(start + 1 + 1, 3), 3)
          BY <1>7, <2>4, <3>1, <3>2, <3>4, <4>1, <4>2
        <5> QED BY <1>12, <2>1, <4>2, <5>1, KeepNothing
      <4>3. CASE ~ 3 <= cut
        <5>1. start' = 3 /\ UNCHANGED <<found, pc>>
          BY <1>8, <2>4, <3>2, <3>4, <4>1, <4>3
        <5>2. cut < size /\ start' > cut
          BY <1>2, <2>1, <4>3, <5>1
        <5> QED BY <1>10, <5>1, <5>2
      <4> QED BY <4>2, <4>3
    <3> QED BY <3>3, <3>4
  <2> QED BY <2>3, <2>4
<1>13. CASE start \in Nat /\ start > cut /\ cut < size
  <2>1. start + 1 > cut
    BY <1>2, <1>13
  <2> QED BY <1>9, <1>13, <2>1
<1> QED BY <1>11, <1>12, <1>13 DEF At

-----------------------------------------------------------------------------
(* The invariant holds.                                                      *)

\* The sender sends values of what is needed, and a payload that holds them.
LEMMA TlvInvInit == Init => TlvInv
<1>1. SUFFICES ASSUME Init PROVE TlvInv
  OBVIOUS
<1>2. PICK n \in Lengths, opt \in {{}, Optional}, up \in BOOLEAN, extra \in Extras,
           short \in (AttributesOf(key) \ Strings) \cup {"none"} :
         /\ sent = Values(AttributesOf(key) \ opt, n, short)
         /\ size = Len(Whole(up, extra))
         /\ cut \in IF short = "none" THEN 0 .. size ELSE {size}
         /\ data = SubSeq(Whole(up, extra), 1, cut)
  BY <1>1 DEF Init, Whole
<1>3. version \in 1 .. 2 /\ start = 0 /\ found = <<>> /\ pc = "dispatch"
  BY <1>1 DEF Init
<1>4. SentTypes
  <2> DEFINE attrs == AttributesOf(key) \ opt
             L(a) == IF a \in Strings THEN n ELSE IF a = short THEN Width(a) + 1 ELSE Width(a)
  <2>1. DOMAIN sent = attrs /\ \A a \in attrs : sent[a] = Value(a, L(a))
    BY <1>2 DEF Values
  <2>2. sent = [a \in DOMAIN sent |-> sent[a]]
    BY <1>2 DEF Values
  <2>3. ASSUME NEW a \in attrs PROVE Value(a, L(a)) \in Seq(Nat)
    <3>1. n \in Nat
      BY TlvAssumption
    <3>2. Width(a) \in Nat
      BY DEF Width
    <3>3. L(a) \in Nat
      BY <3>1, <3>2
    <3>4. Attr[a] \in Nat
      BY AttributesKnown, TypesDiffer
    <3> HIDE DEF L
    <3> QED BY <3>3, <3>4 DEF Value
  <2>4. Needed \subseteq attrs /\ attrs \subseteq AttributesOf(key)
    BY DEF Needed
  <2> HIDE DEF L
  <2> QED BY <1>3, <2>1, <2>2, <2>3, <2>4 DEF SentTypes
<1>5. Left(up, extra)
  <2>1. extra \in Seq(Nat)
    <3>1. Unknown \in Nat
      BY TlvAssumption
    <3>2. <<>> \in Seq(Nat) /\ <<Unknown, 1, 0>> \in Seq(Nat)
      BY <3>1
    <3> QED BY <3>2 DEF Extras
  <2>2. Whole(up, extra) \in Seq(Nat)
    BY <1>4, <2>1, WholeIs
  <2>3. size \in Nat
    BY <1>2, <2>2
  <2>4. cut \in 0 .. size
    BY <1>2, <2>3
  <2> QED BY <1>2, <2>4 DEF Left
<1>6. Parses(pc) /\ pc \notin Parsers
  BY <1>3 DEF Parses, Parsers
<1>7. ParsedIsSent /\ NothingMisread
  BY <1>3 DEF ParsedIsSent, NothingMisread, Ended
<1> QED BY <1>2, <1>3, <1>4, <1>5, <1>6, <1>7 DEF TlvInv

\* What a step leaves as it is.
Constant == <<key, version, sent, size, cut, data>>

\* What does not change when these do not.
LEMMA ConstantParts ==
  ASSUME UNCHANGED Constant
  PROVE  /\ SentTypes' <=> SentTypes
         /\ \A p : Parses(p)' <=> Parses(p)
         /\ Total' = Total
         /\ \A up, extra : Left(up, extra)' <=> Left(up, extra)
         /\ \A up, extra, n : At(up, extra, n, found, start)' <=> At(up, extra, n, found', start')
<1>1. /\ key' = key /\ version' = version /\ sent' = sent /\ size' = size /\ cut' = cut /\ data' = data
  BY DEF Constant
<1>2. SentTypes' <=> SentTypes
  BY <1>1 DEF SentTypes, Needed
<1>3. \A p : Parses(p)' <=> Parses(p)
  BY <1>1 DEF Parses
<1>4. Total' = Total
  BY <1>1 DEF Total
<1>5. \A up, extra : Left(up, extra)' <=> Left(up, extra)
  BY <1>1 DEF Left, Whole
<1>6. \A up, extra, n : At(up, extra, n, found, start)' <=> At(up, extra, n, found', start')
  BY <1>1, <1>4 DEF At, Done, Order, Offset, PiecesSent
<1> QED BY <1>2, <1>3, <1>4, <1>5, <1>6

\* The dispatch calls a parser, or no parser is needed.
LEMMA TlvInvDispatch ==
  ASSUME TlvInv, handle_cmd
  PROVE  TlvInv'
<1>1. PICK up \in BOOLEAN, extra \in Extras : Left(up, extra)
  BY DEF TlvInv
<1>2. /\ UNCHANGED Constant /\ found' = <<>> /\ start' = 0
      /\ pc' = ParsersFor(key, version)
  BY DEF handle_cmd, TlvInv, Constant
<1>3. SentTypes
  BY DEF TlvInv
<1>4. /\ pc' \in {"call", "error", "panic"} \cup Parsers
      /\ pc' = "parse_tlv" => Parses("parse_tlv")
      /\ pc' = "parse_tlv_v2" => Parses("parse_tlv_v2")
      /\ pc' = "error" => key \notin Commands
      /\ pc' = "panic" => key = encoded_write /\ version # 2
      /\ pc' = "call" => key \in Commands /\ AttributesOf(key) = {}
  <2>1. 15 \in Commands /\ 25 \in Commands /\ AttributesOf(15) # {} /\ AttributesOf(25) # {}
    BY DataIsNeeded DEF Commands, write, encoded_write
  <2>2. ASSUME key \notin Commands PROVE ParsersFor(key, version) = "error"
    <3>1. key # 15 /\ key # 25
      BY <2>1, <2>2
    <3> QED BY <2>2, <3>1 DEF ParsersFor, write, encoded_write
  <2>3. ASSUME key \in Commands
        PROVE  /\ ParsersFor(key, version) \in {"call", "panic"} \cup Parsers
               /\ ParsersFor(key, version) = "parse_tlv_v2" =>
                     key \in {write, encoded_write} /\ version = 2
               /\ ParsersFor(key, version) = "parse_tlv" => 
                     AttributesOf(key) # {} /\ key # encoded_write /\ ~ (key = write /\ version = 2)
               /\ ParsersFor(key, version) = "panic" => key = encoded_write /\ version # 2
               /\ ParsersFor(key, version) = "call" => AttributesOf(key) = {}
    <3>1. CASE key = 15
      BY <2>1, <3>1 DEF ParsersFor, write, encoded_write, Parsers
    <3>2. CASE key = 25
      BY <2>1, <3>2 DEF ParsersFor, write, encoded_write, Parsers
    <3>3. CASE key # 15 /\ key # 25
      BY <2>3, <3>3 DEF ParsersFor, write, encoded_write, Parsers
    <3> QED BY <3>1, <3>2, <3>3
  <2>5. AttributesOf(write) # {}
    BY DataIsNeeded
  <2>6. write # encoded_write
    BY DEF write, encoded_write
  <2> QED BY <1>2, <2>1, <2>2, <2>3, <2>5, <2>6 DEF Parses, Parsers, Bare
<1>5. ASSUME pc' \in Parsers PROVE \E n \in 0 .. Total : At(up, extra, n, found', start')
  <2>1. /\ extra = <<>> => Offset(up, extra, 0) = 0
        /\ Total \in Nat /\ Done(up, 0) = {} /\ cut \in Nat
    <3>1. extra \in Seq(Nat) /\ (extra = <<>> => Offset(up, extra, 0) = 0)
      BY <1>1, <1>3, ExtraCells
    <3> QED BY <1>1, <1>3, <3>1, PiecesAre, DoneAll, DataIs
  <2>2. Bare(key, version) # {} => 0 < Total
    BY <1>3, BareLast
  <2>3. <<>> = [a \in Done(up, 0) |-> sent[a]]
    BY <2>1
  <2>4. At(up, extra, 0, <<>>, 0)
    BY <2>1, <2>2, <2>3 DEF At
  <2>5. 0 \in 0 .. Total
    BY <2>1
  <2> QED BY <1>2, <2>4, <2>5
<1>6. ParsedIsSent' /\ NothingMisread'
  <2>1. key' = key /\ version' = version /\ sent' = sent /\ cut' = cut
    BY <1>2 DEF Constant
  <2>2. CASE pc' \in Parsers
    BY <2>2 DEF ParsedIsSent, NothingMisread, Ended, Parsers
  <2>3. CASE pc' = "error"
    BY <1>4, <2>1, <2>3 DEF ParsedIsSent, NothingMisread, Sendable
  <2>4. CASE pc' = "panic"
    BY <1>4, <2>1, <2>4 DEF ParsedIsSent, NothingMisread, Sendable
  <2>5. CASE pc' = "call"
    <3>1. AttributesOf(key) = {} /\ key \in Commands
      BY <1>4, <2>5
    <3>2. sent = <<>> /\ DOMAIN sent = {}
      <4>1. DOMAIN sent = {} /\ sent = [a \in DOMAIN sent |-> sent[a]]
        BY <1>3, <3>1 DEF SentTypes
      <4>2. sent = [a \in {} |-> sent[a]]
        BY <4>1
      <4> QED BY <4>1, <4>2
    <3>3. Needed = {}
      BY <3>1 DEF Needed
    <3> QED BY <1>2, <2>1, <2>5, <3>1, <3>2, <3>3 DEF ParsedIsSent, NothingMisread, Needed
  <2> QED BY <1>4, <2>2, <2>3, <2>4, <2>5
<1>7. Parses(pc') /\ pc' # "dispatch"
  BY <1>4 DEF Parses, Parsers
<1> QED BY <1>1, <1>2, <1>3, <1>4, <1>5, <1>6, <1>7, ConstantParts DEF TlvInv

\* A parser takes a turn.
LEMMA TlvInvTurn ==
  ASSUME TlvInv, pc \in Parsers, UNCHANGED Constant,
         \A up, extra, n : /\ extra \in Extras /\ n \in 0 .. Total /\ Left(up, extra)
                           /\ At(up, extra, n, found, start)
                           => Outcome(up, extra, pc)
  PROVE  TlvInv'
<1>1. PICK up \in BOOLEAN, extra \in Extras :
         Left(up, extra) /\ \E n \in 0 .. Total : At(up, extra, n, found, start)
  BY DEF TlvInv
<1>2. Outcome(up, extra, pc)
  BY <1>1
<1>3. SentTypes /\ Parses(pc) /\ key \in Commands
  <2>1. SentTypes /\ Parses(pc)
    BY DEF TlvInv
  <2> QED BY <2>1, DataIsNeeded DEF Parses, Parsers
<1>4. key' = key /\ version' = version /\ sent' = sent /\ cut' = cut /\ size' = size
  BY DEF Constant
<1>5. cut \in Nat /\ size \in Nat /\ cut <= size
  BY <1>1, <1>3, ExtraCells, DataIs
<1>6. CASE pc' = pc /\ \E m \in 0 .. Total : At(up, extra, m, found', start')
  <2>1. ParsedIsSent' /\ NothingMisread'
    BY <1>6 DEF ParsedIsSent, NothingMisread, Ended, Parsers
  <2>2. pc' \in Parsers /\ pc' # "dispatch"
    BY <1>6 DEF Parsers
  <2> QED BY <1>1, <1>3, <1>6, <2>1, <2>2, ConstantParts DEF TlvInv
<1>7. CASE pc' = "error" /\ (cut < size \/ ~ Sendable)
  <2>1. ParsedIsSent' /\ NothingMisread'
    <3>1. Sendable' <=> Sendable
      BY <1>4 DEF Sendable
    <3> QED BY <1>4, <1>5, <1>7, <3>1 DEF ParsedIsSent, NothingMisread
  <2>2. Parses(pc') /\ pc' \notin Parsers /\ pc' # "dispatch"
    BY <1>7 DEF Parses, Parsers
  <2> QED BY <1>1, <1>3, <1>7, <2>1, <2>2, ConstantParts DEF TlvInv
<1>8. CASE pc' = "panic" /\ Bare(key, version) # {} /\ cut < size /\ start' + 1 = cut
  <2>1. ParsedIsSent' /\ NothingMisread'
    BY <1>4, <1>5, <1>8 DEF ParsedIsSent, NothingMisread
  <2>2. Parses(pc') /\ pc' \notin Parsers /\ pc' # "dispatch"
    BY <1>8 DEF Parses, Parsers
  <2> QED BY <1>1, <1>3, <1>8, <2>1, <2>2, ConstantParts DEF TlvInv
<1>9. CASE pc' = "call" /\ Returned(found')
  <2>1. DOMAIN found' = DOMAIN sent /\ Needed \subseteq DOMAIN found'
    BY <1>3, <1>9 DEF Returned, SentTypes
  <2>2. Needed' = Needed
    BY <1>4 DEF Needed
  <2>3. ASSUME NEW a \in DOMAIN sent
        PROVE  /\ Fits(a, found'[a])
               /\ \/ found'[a] = sent[a]
                  \/ a \in Bare(key, version) /\ IsPrefix(found'[a], sent[a])
    <3>1. a \in Bare(key, version) => a \in Strings
      BY DEF Bare, Strings
    <3> QED BY <1>9, <3>1 DEF Returned, Fits
  <2>4. cut < size => Bare(key, version) \cap DOMAIN found' # {}
    BY <1>3, <1>9, <2>1, BareLast DEF Returned
  <2>5. NothingMisread'
    BY <1>3, <1>4, <1>9, <2>1, <2>2, <2>3, <2>4 DEF NothingMisread
  <2>6. ParsedIsSent'
    BY <1>4, <1>9 DEF ParsedIsSent, Returned
  <2>7. Parses(pc') /\ pc' \notin Parsers /\ pc' # "dispatch"
    BY <1>9 DEF Parses, Parsers
  <2> QED BY <1>1, <1>3, <1>9, <2>5, <2>6, <2>7, ConstantParts DEF TlvInv
<1> QED BY <1>2, <1>6, <1>7, <1>8, <1>9 DEF Outcome

\* Every step keeps it.
LEMMA TlvInvNext == TlvInv /\ [Next]_vars => TlvInv'
<1>1. SUFFICES ASSUME TlvInv, [Next]_vars PROVE TlvInv'
  OBVIOUS
<1>2. CASE handle_cmd
  BY <1>1, <1>2, TlvInvDispatch
<1>3. CASE parse_tlv
  <2>1. pc = "parse_tlv" /\ UNCHANGED Constant
    BY <1>3 DEF parse_tlv, Constant
  <2>2. SentTypes /\ Parses("parse_tlv")
    BY <1>1, <2>1 DEF TlvInv
  <2>3. ASSUME NEW up, NEW extra \in Extras, NEW n \in 0 .. Total, Left(up, extra),
               At(up, extra, n, found, start)
        PROVE  Outcome(up, extra, pc)
    BY <1>3, <2>1, <2>2, <2>3, TlvTurn
  <2>4. pc \in Parsers
    BY <2>1 DEF Parsers
  <2> QED BY <1>1, <2>1, <2>3, <2>4, TlvInvTurn
<1>4. CASE WriteCmd_parse_tlv_v2 \/ EncodedWriteCmd_parse_tlv_v2
  <2>1. pc = "parse_tlv_v2" /\ parse_v2 /\ UNCHANGED Constant
    BY <1>4 DEF WriteCmd_parse_tlv_v2, EncodedWriteCmd_parse_tlv_v2, parse_v2, Constant
  <2>2. SentTypes /\ Parses("parse_tlv_v2")
    BY <1>1, <2>1 DEF TlvInv
  <2>3. ASSUME NEW up, NEW extra \in Extras, NEW n \in 0 .. Total, Left(up, extra),
               At(up, extra, n, found, start)
        PROVE  Outcome(up, extra, pc)
    BY <2>1, <2>2, <2>3, V2Turn
  <2>4. pc \in Parsers
    BY <2>1 DEF Parsers
  <2> QED BY <1>1, <2>1, <2>3, <2>4, TlvInvTurn
<1>5. CASE UNCHANGED vars
  <2>1. UNCHANGED Constant /\ UNCHANGED <<found, start, pc>>
    BY <1>5 DEF vars, Constant
  <2>2. ParsedIsSent' /\ NothingMisread'
    BY <1>1, <1>5 DEF TlvInv, vars, ParsedIsSent, NothingMisread, Ended, Sendable, Needed
  <2> QED BY <1>1, <2>1, <2>2, ConstantParts DEF TlvInv
<1> QED BY <1>1, <1>2, <1>3, <1>4, <1>5 DEF Next

\* In every reachable state the parser is where it should be in its payload.
THEOREM TlvInvariant == Spec => []TlvInv
  BY TlvInvInit, TlvInvNext, PTL DEF Spec

\* A whole payload reaches its method with what was sent: for strings and data of
\* all lengths, in both orders, whatever else is among the attributes.
THEOREM ParsedAsSent == Spec => []ParsedIsSent
<1>1. TlvInv => ParsedIsSent
  BY DEF TlvInv
<1> QED BY <1>1, TlvInvariant, PTL

\* Of a payload that was cut anywhere, or has an attribute of a wrong size,
\* nothing is taken for something else.
THEOREM NeverMisread == Spec => []NothingMisread
<1>1. TlvInv => NothingMisread
  BY DEF TlvInv
<1> QED BY <1>1, TlvInvariant, PTL
=============================================================================

------------------------ MODULE SearchClients_proofs ------------------------
(***************************************************************************)
(* What the walks and get_default find, for every tree, every bound on the *)
(* three parts of a key, every size of the buffer and any changes by other *)
(* processes: NothingSkipped, Ascending and DefaultFound.  And the path    *)
(* that get_path puts together: PathIsRight.                               *)
(***************************************************************************)
EXTENDS SearchClients, FiniteSetTheorems, NaturalsInduction, WellFoundedInduction, TLAPS

-----------------------------------------------------------------------------
(* The order of the items, and the sequence that InOrder makes of a set.     *)

\* A key has three parts.
LEMMA KeyParts ==
  ASSUME NEW k \in Key
  PROVE  k[1] \in Nat /\ k[2] \in Nat /\ k[3] \in Nat /\ k = <<k[1], k[2], k[3]>> /\ k[3] <= MaxOffset
  BY SearchAssumption DEF Key

\* Keys are in a strict total order.
LEMMA KeyOrder ==
  ASSUME NEW j \in Key, NEW k \in Key, NEW l \in Key
  PROVE  /\ ~ Below(k, k)
         /\ Below(j, k) /\ Below(k, l) => Below(j, l)
         /\ Below(j, k) => ~ Below(k, j)
         /\ j = k \/ Below(j, k) \/ Below(k, j)
  BY KeyParts DEF Below

\* There are finitely many keys.
LEMMA KeysFinite == IsFiniteSet(Key)
<1> DEFINE A == 0 .. MaxObjectid
           B == 0 .. MaxType
           C == 0 .. MaxOffset
           Pairs == (A \X B) \X C
           f == [p \in Pairs |-> <<p[1][1], p[1][2], p[2]>>]
<1>1. IsFiniteSet(A) /\ IsFiniteSet(B) /\ IsFiniteSet(C)
  BY SearchAssumption, FS_Interval
<1>2. IsFiniteSet(Pairs)
  BY <1>1, FS_Product
<1>3. f \in Surjection(Pairs, A \X B \X C)
  <2>1. f \in [Pairs -> A \X B \X C]
    OBVIOUS
  <2>2. ASSUME NEW a \in A, NEW b \in B, NEW c \in C
        PROVE  <<<<a, b>>, c>> \in Pairs /\ f[<<<<a, b>>, c>>] = <<a, b, c>>
    OBVIOUS
  <2>3. \A t \in A \X B \X C : \E p \in Pairs : f[p] = t
    <3>1. SUFFICES ASSUME NEW t \in A \X B \X C PROVE \E p \in Pairs : f[p] = t
      OBVIOUS
    <3>2. PICK a \in A, b \in B, c \in C : t = <<a, b, c>>
      OBVIOUS
    <3>3. <<<<a, b>>, c>> \in Pairs /\ f[<<<<a, b>>, c>>] = t
      BY <2>2, <3>2
    <3> HIDE DEF Pairs, f
    <3> QED BY <3>3
  <2> QED BY <2>1, <2>3 DEF Surjection
<1>4. IsFiniteSet(A \X B \X C)
  BY <1>2, <1>3, FS_Surjection
<1> QED BY <1>4 DEF Key

\* How many keys of s are below k.
Rank(s, k) == Cardinality({j \in s : Below(j, k)})

\* A rank is less than the number of keys, and grows with the key.
LEMMA Ranks ==
  ASSUME NEW s \in SUBSET Key, NEW k \in s
  PROVE  /\ IsFiniteSet(s) /\ Cardinality(s) \in Nat
         /\ Rank(s, k) \in 0 .. (Cardinality(s) - 1)
         /\ \A l \in s : Below(k, l) => Rank(s, k) < Rank(s, l)
<1> DEFINE Lower(l) == {j \in s : Below(j, l)}
<1>1. IsFiniteSet(s) /\ Cardinality(s) \in Nat
  BY KeysFinite, FS_Subset, FS_CardinalityType
<1>2. \A t \in SUBSET s : IsFiniteSet(t) /\ Cardinality(t) \in Nat /\ Cardinality(t) <= Cardinality(s)
  BY <1>1, FS_Subset, FS_CardinalityType
<1>3. k \notin Lower(k) /\ Lower(k) \in SUBSET s
  BY KeyOrder
<1>4. Cardinality(Lower(k) \cup {k}) = Cardinality(Lower(k)) + 1
  BY <1>2, <1>3, FS_AddElement
<1>5. Rank(s, k) \in 0 .. (Cardinality(s) - 1)
  <2>1. Lower(k) \cup {k} \in SUBSET s
    OBVIOUS
  <2>2. Cardinality(Lower(k)) \in Nat /\ Cardinality(Lower(k)) + 1 <= Cardinality(s)
    BY <1>2, <1>3, <1>4, <2>1
  <2> QED BY <1>1, <2>2 DEF Rank
<1>6. ASSUME NEW l \in s, Below(k, l) PROVE Rank(s, k) < Rank(s, l)
  <2>1. Lower(k) \cup {k} \in SUBSET Lower(l)
    BY <1>6, KeyOrder
  <2>2. IsFiniteSet(Lower(l)) /\ Cardinality(Lower(l)) \in Nat
    BY <1>2
  <2>3. Cardinality(Lower(k) \cup {k}) <= Cardinality(Lower(l))
    BY <2>1, <2>2, FS_Subset
  <2>4. Cardinality(Lower(k)) \in Nat
    BY <1>2, <1>3
  <2> QED BY <1>4, <2>2, <2>3, <2>4 DEF Rank
<1> QED BY <1>1, <1>5, <1>6

\* Each number below that of the keys is the rank of one of them.
LEMMA RanksOnto ==
  ASSUME NEW s \in SUBSET Key, NEW r \in 0 .. (Cardinality(s) - 1)
  PROVE  \E k \in s : Rank(s, k) = r
<1> DEFINE n == Cardinality(s)
           f == [k \in s |-> Rank(s, k)]
<1>1. IsFiniteSet(s) /\ n \in Nat
  BY KeysFinite, FS_Subset, FS_CardinalityType
<1>2. IsFiniteSet(0 .. (n - 1)) /\ Cardinality(0 .. (n - 1)) = n
  BY <1>1, FS_Interval
<1>3. f \in [s -> 0 .. (n - 1)]
  BY Ranks
<1>4. \A k, l \in s : Rank(s, k) = Rank(s, l) => k = l
  <2>1. SUFFICES ASSUME NEW k \in s, NEW l \in s, Rank(s, k) = Rank(s, l) PROVE k = l
    OBVIOUS
  <2>2. Rank(s, k) \in Int /\ Rank(s, l) \in Int
    BY <1>1, Ranks
  <2>3. ~ Below(k, l) /\ ~ Below(l, k)
    BY <2>1, <2>2, Ranks
  <2> QED BY <2>3, KeyOrder
<1>5. f \in Injection(s, 0 .. (n - 1))
  BY <1>3, <1>4 DEF Injection, IsInjective
<1>6. f \in Surjection(s, 0 .. (n - 1))
  BY <1>1, <1>2, <1>5, FS_Injection
<1> QED BY <1>6 DEF Surjection

\* InOrder(s) has each key of s once, each one above those before it.
LEMMA InOrderAscends ==
  ASSUME NEW s \in SUBSET Key
  PROVE  /\ IsFiniteSet(s) /\ Cardinality(s) \in Nat
         /\ InOrder(s) \in [1 .. Cardinality(s) -> s]
         /\ \A i, j \in 1 .. Cardinality(s) : i < j => Below(InOrder(s)[i], InOrder(s)[j])
         /\ \A k \in s : \E i \in 1 .. Cardinality(s) : InOrder(s)[i] = k
<1> DEFINE n == Cardinality(s)
           q == InOrder(s)
<1>1. IsFiniteSet(s) /\ n \in Nat
  BY KeysFinite, FS_Subset, FS_CardinalityType
<1>2. ASSUME NEW i \in 1 .. n PROVE q[i] \in s /\ Rank(s, q[i]) = i - 1
  <2>1. i - 1 \in 0 .. (n - 1)
    BY <1>1
  <2>2. \E k \in s : Rank(s, k) = i - 1
    BY <2>1, RanksOnto
  <2>3. q[i] = CHOOSE k \in s : Rank(s, k) = i - 1
    BY DEF InOrder, Rank
  <2> QED BY <2>2, <2>3
<1>3. q \in [1 .. n -> s]
  <2> DEFINE Pick(i) == CHOOSE k \in s : Cardinality({j \in s : Below(j, k)}) = i - 1
  <2>1. q = [i \in 1 .. n |-> Pick(i)]
    BY DEF InOrder
  <2> HIDE DEF q, n, Pick
  <2> QED BY <1>2, <2>1
<1>4. ASSUME NEW i \in 1 .. n, NEW j \in 1 .. n, i < j PROVE Below(q[i], q[j])
  <2>1. q[i] \in s /\ q[j] \in s /\ Rank(s, q[i]) = i - 1 /\ Rank(s, q[j]) = j - 1
    BY <1>2
  <2>2. q[i] # q[j]
    BY <1>1, <1>4, <2>1
  <2>3. ~ Below(q[j], q[i])
    <3>1. Below(q[j], q[i]) => Rank(s, q[j]) < Rank(s, q[i])
      BY <2>1, Ranks
    <3> QED BY <1>1, <1>4, <2>1, <3>1
  <2> QED BY <2>1, <2>2, <2>3, KeyOrder
<1>5. ASSUME NEW k \in s PROVE \E i \in 1 .. n : q[i] = k
  <2>1. Rank(s, k) \in 0 .. (n - 1)
    BY Ranks
  <2>2. PICK i \in 1 .. n : i - 1 = Rank(s, k)
    BY <1>1, <2>1
  <2>3. q[i] \in s /\ Rank(s, q[i]) = Rank(s, k)
    BY <1>2, <2>2
  <2>4. ~ Below(q[i], k) /\ ~ Below(k, q[i])
    BY <1>1, <2>1, <2>3, Ranks
  <2> QED BY <2>3, <2>4, KeyOrder
<1> QED BY <1>1, <1>3, <1>4, <1>5

-----------------------------------------------------------------------------
(* Steps of the search.                                                      *)

\* The items a search may return now.
InReach == {k \in tree : InRange(k, minKey, maxKey)}

\* The kernel's answer: items in reach, ascending; it is empty only when there
\* are none, and those left out are above the last one.
LEMMA QueryAnswers ==
  ASSUME tree \subseteq Item, limit \in Nat \ {0}, query
  PROVE  /\ len' \in Nat
         /\ len' = 0 => InReach = {}
         /\ len' > 0 =>
              /\ buffer' \in [1 .. len' -> InReach]
              /\ \A i, j \in 1 .. len' : i < j => Below(buffer'[i], buffer'[j])
              /\ \A k \in InReach : (\E i \in 1 .. len' : buffer'[i] = k) \/ Below(buffer'[len'], k)
<1> DEFINE s == InReach
           c == Cardinality(s)
           q == InOrder(s)
<1>1. s \in SUBSET Key
  BY DEF InReach, Item
<1>2. /\ c \in Nat /\ q \in [1 .. c -> s]
      /\ \A i, j \in 1 .. c : i < j => Below(q[i], q[j])
      /\ \A k \in s : \E i \in 1 .. c : q[i] = k
  BY <1>1, InOrderAscends
<1> DEFINE Most == IF limit < Capacity THEN limit ELSE Capacity
           Answer(n) == LET batch == IF n < Len(q) THEN SubSeq(q, 1, n) ELSE q
                        IN  /\ buffer' = IF batch = <<>> THEN buffer ELSE batch
                            /\ len' = Len(batch)
<1>3. PICK n \in Nat \ {0} : Answer(n)
  <2>1. \E n \in 1 .. Most : Answer(n)
    BY Zenon DEF query, InReach
  <2>2. 1 .. Most \subseteq Nat \ {0}
    BY SearchAssumption
  <2> HIDE DEF Answer, Most
  <2> QED BY <2>1, <2>2
<1> DEFINE batch == IF n < Len(q) THEN SubSeq(q, 1, n) ELSE q
<1> HIDE DEF s, c, q
<1>4. q \in Seq(s) /\ Len(q) = c
  BY <1>2
<1>5. PICK m \in Nat : /\ m <= c /\ (c > 0 => m > 0)
                       /\ batch \in Seq(s) /\ Len(batch) = m
                       /\ \A i \in 1 .. m : batch[i] = q[i]
  <2>1. CASE n < Len(q)
    <3>1. SubSeq(q, 1, n) \in Seq(s) /\ Len(SubSeq(q, 1, n)) = n
      BY <1>2, <1>4, <2>1
    <3>2. \A i \in 1 .. n : SubSeq(q, 1, n)[i] = q[i]
      BY <1>2, <1>4, <2>1
    <3> QED BY <1>2, <1>4, <2>1, <3>1, <3>2
  <2>2. CASE ~ (n < Len(q))
    BY <1>2, <1>4, <2>2
  <2> QED BY <2>1, <2>2
<1>6. len' = m /\ (m > 0 => buffer' = batch)
  BY <1>3, <1>5
<1> HIDE DEF batch
<1>7. len' = 0 => s = {}
  BY <1>2, <1>5, <1>6
<1>8. ASSUME m > 0
      PROVE  /\ buffer' \in [1 .. m -> s]
             /\ \A i, j \in 1 .. m : i < j => Below(buffer'[i], buffer'[j])
             /\ \A k \in s : (\E i \in 1 .. m : buffer'[i] = k) \/ Below(buffer'[m], k)
  <2>1. buffer' = batch /\ batch \in [1 .. m -> s] /\ 1 .. m \subseteq 1 .. c
    BY <1>2, <1>5, <1>6, <1>8
  <2>2. ASSUME NEW i \in 1 .. m, NEW j \in 1 .. m, i < j PROVE Below(batch[i], batch[j])
    BY <1>2, <1>5, <2>1, <2>2
  <2>3. ASSUME NEW k \in s PROVE (\E i \in 1 .. m : batch[i] = k) \/ Below(batch[m], k)
    <3>1. PICK i \in 1 .. c : q[i] = k
      BY <1>2
    <3>2. CASE i <= m
      BY <1>5, <3>1, <3>2
    <3>3. CASE m < i
      <4>1. m \in 1 .. m /\ m \in 1 .. c
        BY <1>2, <1>5, <1>8
      <4>2. Below(q[m], q[i])
        BY <1>2, <3>3, <4>1
      <4> QED BY <1>5, <3>1, <4>1, <4>2
    <3> QED BY <1>2, <1>5, <3>1, <3>2, <3>3
  <2> QED BY <2>1, <2>2, <2>3
<1> QED BY <1>5, <1>6, <1>7, <1>8 DEF s

-----------------------------------------------------------------------------
(* The invariant of the clients that move a cursor through a range.          *)

Cursor == client \in Walkers \cup {"get_default"}

CursorTypes ==
    /\ search \in Searches
    /\ tree \subseteq Item /\ tree \subseteq search.tree \cup Pool /\ stable \subseteq tree
    /\ maxKey = search.max /\ limit \in Nat \ {0}
    /\ pc \in {"query", "items"} => minKey \in Key /\ ~ Below(minKey, search.min)
    /\ len \in Nat /\ taken \in 0 .. len
    /\ visited \subseteq Key /\ passed \subseteq Key
    /\ pc \in {"query", "items", "done", "found", "NotFound", "recursing"}

\* A batch holds the next items in reach, up to its last one.
CursorBatch ==
    pc = "items" =>
        /\ len > 0 =>
             /\ buffer \in [1 .. len -> Item]
             /\ \A i, j \in 1 .. len : i < j => Below(buffer[i], buffer[j])
             /\ \A i \in 1 .. len :
                  /\ ~ Below(buffer[i], minKey)
                  /\ client = "get_default" => buffer[i][3] < MaxOffset
        /\ \A k \in Wanted : ~ Below(k, minKey) =>
             len > 0 /\ ((\E i \in 1 .. len : buffer[i] = k) \/ Below(buffer[len], k))

\* An item that was taken, or is of the group of one that was.
Reached(k) == \E v \in visited \cup passed : Group(v) = Group(k)

\* What the key has passed was reached.
CursorCovers ==
    /\ pc \in {"query", "items"} => \A k \in Wanted : Below(k, minKey) => Reached(k)
    /\ pc \in {"done", "NotFound"} => \A k \in Wanted : Reached(k)
    /\ client = "get_default" => passed = {} /\ (pc # "found" => Default \notin visited)

\* What was taken is below the key, or among the first of the batch.
CursorTaken ==
    /\ pc = "query" => \A v \in visited : Below(v, minKey)
    /\ pc = "items" => /\ \A v \in visited : Below(v, minKey) \/ \E i \in 1 .. taken : v = buffer[i]
                       /\ \A i \in 1 .. taken : buffer[i] \in visited

CursorInv == CursorTypes /\ CursorBatch /\ CursorCovers /\ CursorTaken

-----------------------------------------------------------------------------
\* At first the key is at the beginning of the range.
LEMMA CursorInitially == Init /\ Cursor => CursorInv
<1>1. SUFFICES ASSUME Init, Cursor PROVE CursorInv
  OBVIOUS
<1>2. /\ search.tree \subseteq Item /\ search.min \in Key /\ search.max \in Key
      /\ search.limit \in Nat \ {0}
  BY <1>1, ClientsAssumption DEF Init
<1>3. ~ Below(search.min, search.min)
  BY <1>2, KeyOrder
<1>4. CursorTypes
  BY <1>1, <1>2, <1>3 DEF Init, CursorTypes
<1>5. CursorBatch /\ CursorTaken
  BY <1>1 DEF Init, CursorBatch, CursorTaken
<1>6. CursorCovers
  BY <1>1 DEF Init, CursorCovers, Wanted, InRange
<1> QED BY <1>4, <1>5, <1>6 DEF CursorInv

\* Whatever others insert and remove, no more is wanted than before.
LEMMA CursorOther ==
  ASSUME CursorInv, Other
  PROVE  CursorInv'
<1>1. stable' \subseteq stable /\ stable' \subseteq tree' /\ tree' \subseteq tree \cup Pool
  <2>1. stable \subseteq tree
    BY DEF CursorInv, CursorTypes
  <2>2. CASE Inserted
    BY <2>1, <2>2 DEF Inserted, Changed
  <2>3. CASE Removed
    BY <2>1, <2>3 DEF Removed, Changed
  <2>4. CASE Moved
    BY <2>1, <2>4 DEF Moved, Changed
  <2> QED BY <2>2, <2>3, <2>4 DEF Other, OtherProcess
<1>2. UNCHANGED <<minKey, maxKey, limit, buffer, len, taken, visited, search, pc, passed>>
  BY DEF Other, searchVars
<1>3. CursorTypes'
  BY <1>1, <1>2, SearchAssumption DEF CursorInv, CursorTypes
<1>4. Wanted' \subseteq Wanted
  BY <1>1, <1>2 DEF Wanted
<1>5. client' = client /\ \A k : Reached(k)' <=> Reached(k)
  BY <1>2 DEF client, Reached, Group
<1>6. CursorBatch'
  BY <1>2, <1>4, <1>5 DEF CursorInv, CursorBatch
<1>7. CursorCovers'
  BY <1>2, <1>4, <1>5 DEF CursorInv, CursorCovers
<1>8. CursorTaken'
  BY <1>2 DEF CursorInv, CursorTaken
<1> QED BY <1>3, <1>6, <1>7, <1>8 DEF CursorInv

\* A query keeps the invariant: the batch is the kernel's answer.
LEMMA CursorQuery ==
  ASSUME CursorInv, Query
  PROVE  CursorInv'
<1>1. /\ pc = "query" /\ pc' = "items" /\ query /\ taken' = 0
      /\ UNCHANGED <<tree, stable, search, passed, minKey, maxKey, limit, visited>>
  BY DEF Query, query, treeVars
<1>2. /\ len' \in Nat
      /\ len' = 0 => InReach = {}
      /\ len' > 0 =>
           /\ buffer' \in [1 .. len' -> InReach]
           /\ \A i, j \in 1 .. len' : i < j => Below(buffer'[i], buffer'[j])
           /\ \A k \in InReach : (\E i \in 1 .. len' : buffer'[i] = k) \/ Below(buffer'[len'], k)
  BY <1>1, QueryAnswers DEF CursorInv, CursorTypes
<1>3. CursorTypes'
  BY <1>1, <1>2 DEF CursorInv, CursorTypes
<1>4. client' = client /\ Wanted' = Wanted /\ \A k : Reached(k)' <=> Reached(k)
  BY <1>1 DEF client, Reached, Group, Wanted
<1>5. \A k \in Wanted : ~ Below(k, minKey) => k \in InReach
  BY DEF CursorInv, CursorTypes, Wanted, InReach, InRange
<1>6. ASSUME NEW k \in InReach
      PROVE  k \in Item /\ ~ Below(k, minKey) /\ (client = "get_default" => k[3] < MaxOffset)
  <2>1. k \in Key /\ k \in Item /\ minKey \in Key /\ search.min \in Key
    BY <1>1, ClientsAssumption DEF CursorInv, CursorTypes, InReach, Item
  <2>2. ~ Below(k, minKey) /\ ~ Below(minKey, search.min) /\ ~ Below(search.max, k)
    BY <1>1 DEF CursorInv, CursorTypes, InReach, InRange
  <2>3. InRange(k, search.min, search.max)
    BY <2>1, <2>2, KeyOrder DEF InRange
  <2>4. k \in search.tree \cup Pool
    BY DEF CursorInv, CursorTypes, InReach
  <2> QED BY <2>1, <2>2, <2>3, <2>4, HashesAssumption DEF CursorInv, CursorTypes, client
<1>7. CursorBatch'
  <2>1. ASSUME len' > 0
        PROVE  /\ buffer' \in [1 .. len' -> Item]
               /\ \A i \in 1 .. len' :
                    /\ ~ Below(buffer'[i], minKey)
                    /\ client = "get_default" => buffer'[i][3] < MaxOffset
    BY <1>2, <1>6, <2>1
  <2> QED BY <1>1, <1>2, <1>4, <1>5, <2>1 DEF CursorBatch
<1>8. CursorCovers'
  BY <1>1, <1>4 DEF CursorInv, CursorCovers
<1>9. CursorTaken'
  BY <1>1 DEF CursorInv, CursorTaken
<1> QED BY <1>3, <1>7, <1>8, <1>9 DEF CursorInv

\* An item is taken.
LEMMA CursorTake ==
  ASSUME CursorInv, WalkTake \/ DefaultTake
  PROVE  CursorInv'
<1>1. /\ pc = "items" /\ taken < len /\ taken' = taken + 1
      /\ visited' = visited \cup {buffer[taken']}
      /\ UNCHANGED <<tree, stable, search, passed, minKey, maxKey, limit, buffer, len>>
  BY DEF WalkTake, DefaultTake, take, treeVars
<1>2. /\ pc' \in {"items", "found"}
      /\ client = "get_default" /\ pc' # "found" => buffer[taken'] # Default
  BY DEF WalkTake, DefaultTake, take, Walkers
<1>3. /\ taken \in Nat /\ len \in Nat /\ taken' \in 1 .. len
      /\ buffer[taken'] \in Key /\ 1 .. taken' = (1 .. taken) \cup {taken'}
  BY <1>1 DEF CursorInv, CursorTypes, CursorBatch, Item
<1>4. CursorTypes'
  BY <1>1, <1>2, <1>3 DEF CursorInv, CursorTypes
<1>5. client' = client /\ Wanted' = Wanted /\ \A k : Reached(k) => Reached(k)'
  BY <1>1 DEF client, Reached, Group, Wanted
<1>6. CursorBatch'
  BY <1>1, <1>2, <1>5 DEF CursorInv, CursorBatch
<1>7. CursorCovers'
  BY <1>1, <1>2, <1>5 DEF CursorInv, CursorCovers
<1>8. CursorTaken'
  BY <1>1, <1>2, <1>3 DEF CursorInv, CursorTaken
<1> QED BY <1>4, <1>6, <1>7, <1>8 DEF CursorInv

-----------------------------------------------------------------------------
\* What on_drop makes of an item is above it, and passes only items below that
\* one or of its group.
LEMMA OnDropMoves ==
  ASSUME NEW k \in Item, client \in Walkers
  PROVE  /\ OnDrop(k) \in Key /\ Below(k, OnDrop(k))
         /\ \A j \in Key : Below(j, OnDrop(k)) => ~ Below(k, j) \/ Group(j) = Group(k)
<1>1. /\ k \in Key /\ k[1] + 1 \in 0 .. MaxObjectid /\ k[2] + 1 \in 0 .. MaxType
      /\ k[1] \in 0 .. MaxObjectid /\ k[2] \in 0 .. MaxType /\ k[3] \in 0 .. MaxOffset
      /\ 0 \in 0 .. MaxType /\ 0 \in 0 .. MaxOffset
  BY SearchAssumption DEF Item, Key
<1>2. CASE client = "next_objectid"
  <2>1. OnDrop(k) = <<k[1] + 1, 0, 0>>
    BY <1>1, <1>2, SearchAssumption DEF OnDrop, next_objectid, Item
  <2>2. \A j : Group(j) = <<j[1]>>
    BY <1>2 DEF Group
  <2>3. OnDrop(k) \in Key /\ Below(k, OnDrop(k))
    BY <1>1, <2>1 DEF Key, Below
  <2>4. ASSUME NEW j \in Key, Below(j, OnDrop(k)), Below(k, j) PROVE j[1] = k[1]
    BY <1>1, <2>1, <2>4, KeyParts DEF Below
  <2> QED BY <2>2, <2>3, <2>4
<1>3. CASE client = "next_type"
  <2>1. OnDrop(k) = <<k[1], k[2] + 1, 0>>
    BY <1>3 DEF OnDrop, next_type
  <2>2. \A j : Group(j) = <<j[1], j[2]>>
    BY <1>3 DEF Group
  <2>3. OnDrop(k) \in Key /\ Below(k, OnDrop(k))
    BY <1>1, <2>1 DEF Key, Below
  <2>4. ASSUME NEW j \in Key, Below(j, OnDrop(k)), Below(k, j) PROVE j[1] = k[1] /\ j[2] = k[2]
    BY <1>1, <2>1, <2>4, KeyParts DEF Below
  <2> QED BY <2>2, <2>3, <2>4
<1>4. CASE client = "next_offset"
  <2>1. OnDrop(k) = IF k[3] = MaxOffset THEN <<k[1], k[2] + 1, 0>> ELSE <<k[1], k[2], k[3] + 1>>
    BY <1>4 DEF OnDrop, next_offset, next_type
  <2>2. k[3] # MaxOffset => k[3] + 1 \in 0 .. MaxOffset
    BY <1>1, SearchAssumption
  <2>3. OnDrop(k) \in Key /\ Below(k, OnDrop(k))
    BY <1>1, <2>1, <2>2 DEF Key, Below
  <2>4. ASSUME NEW j \in Key, Below(j, OnDrop(k)), Below(k, j) PROVE FALSE
    BY <1>1, <2>1, <2>4, KeyParts, SearchAssumption DEF Below
  <2> QED BY <2>3, <2>4
<1> QED BY <1>2, <1>3, <1>4 DEF Walkers

\* So does the function of get_default, at a directory item.
LEMMA DefaultMoves ==
  ASSUME NEW k \in Item, k[3] < MaxOffset
  PROVE  /\ get_default_on(k) \in Key /\ Below(k, get_default_on(k))
         /\ \A j \in Key : Below(j, get_default_on(k)) => ~ Below(k, j)
<1>1. /\ k[1] \in 0 .. MaxObjectid /\ k[2] \in 0 .. MaxType /\ k[3] \in 0 .. MaxOffset
      /\ k[3] + 1 \in 0 .. MaxOffset
  BY SearchAssumption DEF Item, Key
<1>2. get_default_on(k) = <<k[1], k[2], k[3] + 1>>
  <2>1. (k[3] + 1) % (MaxOffset + 1) = k[3] + 1
    BY <1>1, SearchAssumption
  <2> QED BY <2>1 DEF get_default_on
<1>3. get_default_on(k) \in Key /\ Below(k, get_default_on(k))
  BY <1>1, <1>2 DEF Key, Below
<1>4. ASSUME NEW j \in Key, Below(j, get_default_on(k)), Below(k, j) PROVE FALSE
  BY <1>1, <1>2, <1>4, KeyParts DEF Below
<1> QED BY <1>3, <1>4

\* When the key moves on behind an item of the batch that was reached, and all
\* before it was taken, what the new key has passed was reached.
LEMMA CursorMoves ==
  ASSUME CursorInv, pc = "items", len > 0,
         NEW t \in 1 .. len, t = taken \/ (taken = 0 /\ t = 1),
         NEW new \in Key, Below(buffer[t], new),
         \A j \in Key : Below(j, new) => ~ Below(buffer[t], j) \/ Group(j) = Group(buffer[t]),
         NEW more, passed \subseteq more, buffer[t] \in visited \cup more
  PROVE  /\ Below(minKey, new)
         /\ \A k \in Wanted : Below(k, new) => \E v \in visited \cup more : Group(v) = Group(k)
         /\ \A v \in visited : Below(v, new)
<1>1. /\ minKey \in Key /\ taken \in 0 .. len /\ len \in Nat
      /\ visited \subseteq Key /\ Wanted \subseteq Key
      /\ \A i \in 1 .. len : buffer[i] \in Key /\ ~ Below(buffer[i], minKey)
  BY DEF CursorInv, CursorTypes, CursorBatch, Wanted, Item
<1>2. \A i, j \in 1 .. len : i < j => Below(buffer[i], buffer[j])
  BY DEF CursorInv, CursorBatch
<1>3. Below(minKey, new)
  <2>1. buffer[t] \in Key /\ (minKey = buffer[t] \/ Below(minKey, buffer[t]))
    BY <1>1, KeyOrder
  <2> QED BY <1>1, <2>1, KeyOrder
<1>4. ASSUME NEW k \in Wanted, Below(k, new)
      PROVE  \E v \in visited \cup more : Group(v) = Group(k)
  <2>1. CASE Below(k, minKey)
    BY <2>1 DEF CursorInv, CursorCovers, Reached
  <2>2. CASE Group(k) = Group(buffer[t])
    BY <2>2
  <2>3. CASE ~ Below(k, minKey) /\ ~ Below(buffer[t], k)
    <3>1. ~ Below(buffer[len], k)
      <4>1. len \in 1 .. len /\ (t = len \/ Below(buffer[t], buffer[len]))
        BY <1>1, <1>2
      <4> QED BY <1>1, <2>3, <4>1, KeyOrder
    <3>2. PICK i \in 1 .. len : buffer[i] = k
      BY <2>3, <3>1 DEF CursorInv, CursorBatch
    <3>3. i <= t
      BY <1>2, <2>3, <3>2
    <3>4. i = t \/ i \in 1 .. taken
      BY <1>1, <3>3
    <3>5. k \in visited \cup more
      BY <3>2, <3>4 DEF CursorInv, CursorTaken
    <3> QED BY <3>5
  <2> QED BY <1>1, <1>4, <2>1, <2>2, <2>3
<1>5. ASSUME NEW v \in visited PROVE Below(v, new)
  <2>1. CASE Below(v, minKey)
    BY <1>1, <1>3, <2>1, KeyOrder
  <2>2. ASSUME NEW i \in 1 .. taken, v = buffer[i] PROVE Below(v, new)
    <3>1. i \in 1 .. len /\ t = taken /\ (i = t \/ i < t)
      BY <1>1
    <3>2. v = buffer[t] \/ Below(v, buffer[t])
      BY <1>2, <2>2, <3>1
    <3> QED BY <1>1, <3>2, KeyOrder
  <2> QED BY <2>1, <2>2 DEF CursorInv, CursorTaken
<1> QED BY <1>3, <1>4, <1>5

\* When on_drop does not return, nothing is claimed any more.
LEMMA CursorRecursing ==
  ASSUME CursorInv, WalkOn, pc' = "recursing"
  PROVE  CursorInv'
<1>1. /\ client \in Walkers
      /\ UNCHANGED <<tree, stable, search, passed, maxKey, limit, len, taken, visited>>
  <2>1. pc' # (IF len = 0 THEN "done" ELSE "query")
    OBVIOUS
  <2> QED BY <2>1 DEF WalkOn, treeVars, searchVars
<1>2. client' = client /\ client # "get_default"
  BY <1>1 DEF client, Walkers
<1>3. CursorTypes'
  BY <1>1 DEF CursorInv, CursorTypes
<1> QED BY <1>2, <1>3 DEF CursorInv, CursorBatch, CursorCovers, CursorTaken

\* The iterator of a walk is dropped.
LEMMA CursorWalkOn ==
  ASSUME CursorInv, WalkOn, pc' # "recursing"
  PROVE  CursorInv'
<1>1. /\ client \in Walkers /\ pc = "items"
      /\ pc' = IF len = 0 THEN "done" ELSE "query"
      /\ passed' = IF taken = 0 /\ len > 0 THEN passed \cup {buffer[1]} ELSE passed
      /\ minKey' \in {OnDrop(k) : k \in LastSeen}
      /\ UNCHANGED <<tree, stable, search, maxKey, limit, buffer, len, taken, visited>>
  BY DEF WalkOn, drop, treeVars
<1>2. /\ len \in Nat /\ taken \in 0 .. len /\ visited \subseteq Key
      /\ minKey \in Key /\ search.min \in Key /\ ~ Below(minKey, search.min)
  BY <1>1, ClientsAssumption DEF CursorInv, CursorTypes
<1>3. client' = client /\ Wanted' = Wanted /\ client # "get_default"
  BY <1>1 DEF client, Wanted, Walkers
<1>4. \A k : Reached(k)' <=> \E v \in visited \cup passed' : Group(v) = Group(k)
  BY <1>1 DEF client, Reached, Group
<1>5. CASE len = 0
  <2>1. pc' = "done" /\ passed' = passed
    BY <1>1, <1>5
  <2>2. \A k \in Wanted : Reached(k)
    BY <1>1, <1>5 DEF CursorInv, CursorBatch, CursorCovers
  <2>3. CursorCovers'
    BY <1>3, <2>1, <2>2, <1>4 DEF CursorCovers, Reached
  <2>4. CursorTypes'
    BY <1>1, <2>1, <1>3 DEF CursorInv, CursorTypes
  <2> QED BY <2>1, <2>3, <2>4 DEF CursorInv, CursorBatch, CursorTaken
<1>6. CASE len > 0
  <2> DEFINE t == IF taken = 0 THEN 1 ELSE taken
  <2>1. t \in 1 .. len /\ (t = taken \/ (taken = 0 /\ t = 1))
    BY <1>2, <1>6
  <2>2. buffer \in [1 .. len -> Item] /\ buffer[t] \in Item /\ buffer # <<>>
    BY <1>1, <1>2, <1>6, <2>1 DEF CursorInv, CursorBatch
  <2>3. minKey' = OnDrop(buffer[t])
    BY <1>1, <2>1, <2>2 DEF LastSeen
  <2>4. passed \subseteq passed' /\ buffer[t] \in visited \cup passed' /\ passed' \subseteq Key
    BY <1>1, <1>6, <2>1, <2>2 DEF CursorInv, CursorTypes, CursorTaken, Item
  <2> HIDE DEF t
  <2>5. /\ minKey' \in Key /\ Below(buffer[t], minKey')
        /\ \A j \in Key : Below(j, minKey') => ~ Below(buffer[t], j) \/ Group(j) = Group(buffer[t])
    BY <1>1, <2>2, <2>3, OnDropMoves
  <2>6. /\ Below(minKey, minKey')
        /\ \A k \in Wanted : Below(k, minKey') => \E v \in visited \cup passed' : Group(v) = Group(k)
        /\ \A v \in visited : Below(v, minKey')
    BY <1>1, <1>6, <2>1, <2>4, <2>5, CursorMoves
  <2>7. pc' = "query"
    BY <1>1, <1>6
  <2>8. CursorTypes'
    <3>1. ~ Below(minKey', search.min)
      BY <1>2, <2>5, <2>6, KeyOrder
    <3> QED BY <1>1, <1>3, <2>4, <2>5, <2>7, <3>1 DEF CursorInv, CursorTypes
  <2>9. CursorCovers'
    BY <1>3, <1>4, <2>6, <2>7 DEF CursorCovers
  <2>10. CursorTaken'
    BY <1>1, <2>6, <2>7 DEF CursorTaken
  <2> QED BY <2>7, <2>8, <2>9, <2>10 DEF CursorInv, CursorBatch
<1> QED BY <1>2, <1>5, <1>6

\* get_default goes on when it has taken all items of a batch.
LEMMA CursorDefaultOn ==
  ASSUME CursorInv, DefaultOn
  PROVE  CursorInv'
<1>1. /\ client = "get_default" /\ pc = "items" /\ taken = len
      /\ pc' = IF len = 0 THEN "NotFound" ELSE "query"
      /\ minKey' \in {get_default_on(k) : k \in LastSeen}
      /\ UNCHANGED <<tree, stable, search, passed, maxKey, limit, buffer, len, taken, visited>>
  BY DEF DefaultOn, drop, treeVars
<1>2. /\ len \in Nat /\ visited \subseteq Key
      /\ minKey \in Key /\ search.min \in Key /\ ~ Below(minKey, search.min)
  BY <1>1, ClientsAssumption DEF CursorInv, CursorTypes
<1>3. client' = client /\ Wanted' = Wanted /\ \A k : Reached(k)' <=> Reached(k)
  BY <1>1 DEF client, Wanted, Reached, Group
<1>4. CASE len = 0
  <2>1. pc' = "NotFound"
    BY <1>1, <1>4
  <2>2. \A k \in Wanted : Reached(k)
    BY <1>1, <1>4 DEF CursorInv, CursorBatch, CursorCovers
  <2>3. CursorCovers'
    BY <1>1, <1>3, <2>1, <2>2 DEF CursorInv, CursorCovers
  <2>4. CursorTypes'
    BY <1>1, <1>3, <2>1 DEF CursorInv, CursorTypes
  <2> QED BY <2>1, <2>3, <2>4 DEF CursorInv, CursorBatch, CursorTaken
<1>5. CASE len > 0
  <2>1. taken \in 1 .. len /\ buffer \in [1 .. len -> Item] /\ buffer # <<>>
    BY <1>1, <1>2, <1>5 DEF CursorInv, CursorBatch
  <2>2. buffer[taken] \in Item /\ buffer[taken][3] < MaxOffset /\ buffer[taken] \in visited
    BY <1>1, <1>5, <2>1 DEF CursorInv, CursorBatch, CursorTaken
  <2>3. minKey' = get_default_on(buffer[taken])
    BY <1>1, <1>5, <2>1 DEF LastSeen
  <2>4. /\ minKey' \in Key /\ Below(buffer[taken], minKey')
        /\ \A j \in Key : Below(j, minKey') => ~ Below(buffer[taken], j)
    BY <2>2, <2>3, DefaultMoves
  <2>5. /\ Below(minKey, minKey')
        /\ \A k \in Wanted : Below(k, minKey') => \E v \in visited \cup passed : Group(v) = Group(k)
        /\ \A v \in visited : Below(v, minKey')
    BY <1>1, <1>5, <2>1, <2>2, <2>4, CursorMoves
  <2>6. pc' = "query"
    BY <1>1, <1>5
  <2>7. CursorTypes'
    <3>1. ~ Below(minKey', search.min)
      BY <1>2, <2>4, <2>5, KeyOrder
    <3> QED BY <1>1, <1>3, <2>4, <2>6, <3>1 DEF CursorInv, CursorTypes
  <2>8. CursorCovers'
    BY <1>1, <1>3, <2>5, <2>6 DEF CursorInv, CursorCovers, Reached
  <2>9. CursorTaken'
    BY <1>1, <2>5, <2>6 DEF CursorTaken
  <2> QED BY <2>6, <2>7, <2>8, <2>9 DEF CursorInv, CursorBatch
<1> QED BY <1>2, <1>4, <1>5

-----------------------------------------------------------------------------
\* Every step keeps the invariant; a client stays what it is.
LEMMA CursorNext ==
  ASSUME Cursor => CursorInv, [Next]_vars
  PROVE  (Cursor => CursorInv)'
<1>1. client' = client
  BY DEF Next, Client, Query, WalkTake, WalkOn, DefaultTake, DefaultOn, PathOn, PathNotFound, Other, vars, client
<1>2. SUFFICES ASSUME Cursor, CursorInv PROVE CursorInv'
  BY <1>1 DEF Cursor
<1>3. CASE UNCHANGED vars
  <2>1. UNCHANGED <<tree, stable, search, passed, minKey, maxKey, limit, buffer, len, taken, visited, pc>>
    BY <1>3 DEF vars, treeVars, searchVars
  <2>2. client' = client /\ Wanted' = Wanted /\ \A k : Reached(k)' <=> Reached(k)
    BY <2>1 DEF client, Wanted, Reached, Group
  <2>3. CursorTypes' /\ CursorTaken'
    BY <1>2, <2>1, <2>2 DEF CursorInv, CursorTypes, CursorTaken
  <2>4. CursorBatch' /\ CursorCovers'
    BY <1>2, <2>1, <2>2 DEF CursorInv, CursorBatch, CursorCovers
  <2> QED BY <2>3, <2>4 DEF CursorInv
<1>4. ~ PathOn /\ ~ PathNotFound
  BY <1>2 DEF Cursor, Walkers, PathOn, PathNotFound
<1> QED BY <1>2, <1>3, <1>4, CursorQuery, CursorTake, CursorWalkOn, CursorRecursing, CursorDefaultOn,
           CursorOther
        DEF Next, Client

\* The invariant holds of every behaviour of a walk and of get_default.
THEOREM CursorInvariant == Spec => [](Cursor => CursorInv)
<1>1. Init => (Cursor => CursorInv)
  BY CursorInitially
<1> QED BY <1>1, CursorNext, PTL DEF Spec

\* A walk with next_offset, next_type or next_objectid, wherever it stops taking
\* items and whatever others do, passes no item by that stayed in the tree,
\* except for the first one of a batch none of which was taken.
THEOREM SearchNothingSkipped == Spec => []NothingSkipped
<1>1. (Cursor => CursorInv) => NothingSkipped
  BY DEF Cursor, CursorInv, CursorCovers, Reached, NothingSkipped
<1> QED BY <1>1, CursorInvariant, PTL

\* get_default reports NotFound only when its directory item was not in the tree
\* all the time.
THEOREM SearchDefaultFound == Spec => []DefaultFound
<1>1. (Cursor => CursorInv) => DefaultFound
  <2>1. SUFFICES ASSUME CursorInv, client = "get_default", pc = "NotFound", Default \in stable
                 PROVE FALSE
    BY DEF Cursor, DefaultFound
  <2>2. Default \in Wanted
    BY <2>1, HashesAssumption DEF CursorInv, CursorTypes, Wanted, client
  <2>3. \E v \in visited : Group(v) = Group(Default)
    BY <2>1, <2>2 DEF CursorInv, CursorCovers, Reached
  <2>4. \A k : Group(k) = k
    BY <2>1 DEF Group
  <2> QED BY <2>1, <2>3, <2>4 DEF CursorInv, CursorCovers
<1> QED BY <1>1, CursorInvariant, PTL

\* Walks and get_default take items in the order of their keys, none twice.
THEOREM SearchAscending == Spec => Ascending
<1> DEFINE Ascends == client # "get_path" /\ taken' = taken + 1 =>
                        \A k \in visited : Below(k, buffer[taken'])
<1>1. ASSUME Cursor => CursorInv, [Next]_vars, search \in Searches PROVE [Ascends]_vars
  <2>1. SUFFICES ASSUME client # "get_path", taken' = taken + 1, Next
                 PROVE \A k \in visited : Below(k, buffer[taken'])
    BY <1>1 DEF vars
  <2>2. CursorInv
    BY <1>1, <2>1, ClientsAssumption DEF Cursor, client
  <2>3. taken \in Nat
    BY <2>2 DEF CursorInv, CursorTypes
  <2>4. WalkTake \/ DefaultTake
    BY <2>1, <2>3 DEF Next, Client, Query, query, WalkOn, DefaultOn, PathOn, PathNotFound, Other, drop, searchVars
  <2>5. /\ pc = "items" /\ taken' \in 1 .. len /\ len > 0
        /\ visited \subseteq Key /\ minKey \in Key /\ len \in Nat
    BY <2>1, <2>2, <2>4 DEF WalkTake, DefaultTake, take, CursorInv, CursorTypes
  <2>6. buffer[taken'] \in Key /\ ~ Below(buffer[taken'], minKey)
    BY <2>2, <2>5 DEF CursorInv, CursorBatch, Item
  <2>7. ASSUME NEW k \in visited PROVE Below(k, buffer[taken'])
    <3>1. CASE Below(k, minKey)
      BY <2>5, <2>6, <3>1, KeyOrder
    <3>2. ASSUME NEW i \in 1 .. taken, k = buffer[i] PROVE Below(k, buffer[taken'])
      <4>1. i \in 1 .. len /\ i < taken'
        BY <2>1, <2>3, <2>5
      <4> QED BY <2>2, <2>5, <3>2, <4>1 DEF CursorInv, CursorBatch
    <3> QED BY <2>2, <2>5, <3>1, <3>2 DEF CursorInv, CursorTaken
  <2> QED BY <2>7
<1>2. Spec => [](search \in Searches)
  <2>1. Init => search \in Searches
    BY DEF Init
  <2>2. search \in Searches /\ [Next]_vars => (search \in Searches)'
    BY DEF Next, Client, Query, WalkTake, WalkOn, DefaultTake, DefaultOn, PathOn, PathNotFound, Other, vars
  <2> QED BY <2>1, <2>2, PTL DEF Spec
<1> QED BY <1>1, <1>2, CursorInvariant, PTL DEF Spec, Ascending

-----------------------------------------------------------------------------
(* Recursive functions: there are such functions, and what holds of one       *)
(* value and of what follows it holds of all of them.                         *)

Less == OpToRel(<, Nat)

\* A set of numbers has a least one.
LEMMA LeastNumber ==
  ASSUME NEW T, T \subseteq Nat, T # {}
  PROVE  \E x \in T : \A y \in T : x <= y
<1>1. PICK x \in T : \A y \in T : <<y, x>> \notin Less
  <2>1. IsWellFoundedOn(Less, Nat)
    BY NatLessThanWellFounded DEF Less
  <2> QED BY <2>1, WFMin
<1>2. ASSUME NEW y \in T PROVE x <= y
  <2>1. x \in Nat /\ y \in Nat
    OBVIOUS
  <2>2. <<y, x>> \notin Less
    BY <1>1
  <2>3. <<y, x>> \in Less <=> y < x
    BY <2>1 DEF Less, OpToRel
  <2> QED BY <2>1, <2>2, <2>3
<1> QED BY <1>2

\* A set with zero, and with each number up to N whose predecessor it has, has
\* all of them.
LEMMA UpTo ==
  ASSUME NEW N \in Nat, NEW T, 0 \in T, \A n \in 1 .. N : n - 1 \in T => n \in T
  PROVE  \A n \in 0 .. N : n \in T
<1> DEFINE Bad == {n \in 0 .. N : n \notin T}
<1>1. SUFFICES ASSUME Bad # {} PROVE FALSE
  OBVIOUS
<1>2. PICK n \in Bad : \A m \in Bad : n <= m
  <2>1. Bad \subseteq Nat
    OBVIOUS
  <2> HIDE DEF Bad
  <2> QED BY <1>1, <2>1, LeastNumber
<1>3. n \in 0 .. N /\ n # 0
  BY <1>2
<1>4. n \in 1 .. N /\ n - 1 \in 0 .. N
  BY <1>3
<1>5. n - 1 \notin Bad
  <2>1. n - 1 \in Bad => n <= n - 1
    BY <1>2
  <2> QED BY <1>3, <2>1
<1> QED BY <1>2, <1>4, <1>5

\* For each number up to N, what follows a value; and a function of these
\* numbers whose values follow each other.
Stepwise(step, N, S) == step \in [1 .. N -> [S -> S]]

Follows(f, N, S, base, step) ==
    f \in [0 .. N -> S] /\ f[0] = base /\ \A n \in 1 .. N : f[n] = step[n][f[n - 1]]

\* There is such a function.
LEMMA Recursion ==
  ASSUME NEW N \in Nat, NEW S, NEW base \in S, NEW step, Stepwise(step, N, S)
  PROVE  \E f : Follows(f, N, S, base, step)
<1> DEFINE Adds(f, n) == f \in [0 .. n -> S] /\ f[0] = base /\ \A m \in 1 .. n : f[m] = step[m][f[m - 1]]
           T == {n \in 0 .. N : \E f : Adds(f, n)}
<1>1. 0 \in T
  <2>1. Adds([m \in 0 .. 0 |-> base], 0)
    OBVIOUS
  <2> HIDE DEF Adds
  <2> QED BY <2>1
<1>2. ASSUME NEW n \in 1 .. N, n - 1 \in T PROVE n \in T
  <2>1. PICK f : Adds(f, n - 1)
    <3> HIDE DEF Adds
    <3> QED BY <1>2
  <2>2. n \in Nat /\ n - 1 \in Nat /\ n - 1 \in 0 .. (n - 1) /\ n \in 0 .. N
    OBVIOUS
  <2> DEFINE g == [m \in 0 .. n |-> IF m = n THEN step[n][f[n - 1]] ELSE f[m]]
  <2>3. step[n][f[n - 1]] \in S
    BY <2>1, <2>2 DEF Stepwise
  <2>4. \A m \in 0 .. n : m # n => m \in 0 .. (n - 1)
    BY <2>2
  <2>5. g \in [0 .. n -> S]
    BY <2>1, <2>3, <2>4
  <2>6. g[0] = base
    BY <2>1, <2>2
  <2>7. ASSUME NEW m \in 1 .. n PROVE g[m] = step[m][g[m - 1]]
    <3>1. m \in 0 .. n /\ m - 1 \in 0 .. n /\ m - 1 # n
      BY <2>2
    <3>2. CASE m = n
      BY <3>1, <3>2
    <3>3. CASE m # n
      <4>1. m \in 1 .. (n - 1)
        BY <2>2, <3>3
      <4> QED BY <2>1, <3>1, <3>3, <4>1
    <3> QED BY <3>2, <3>3
  <2>8. Adds(g, n)
    BY <2>5, <2>6, <2>7
  <2> HIDE DEF Adds
  <2> QED BY <2>2, <2>8
<1>3. N \in T
  <2> HIDE DEF T
  <2>1. N \in 0 .. N
    OBVIOUS
  <2> QED BY <1>1, <1>2, <2>1, UpTo
<1> QED BY <1>3 DEF Follows

-----------------------------------------------------------------------------
(* The bytes of get_path: the buffer that is doubled, names and separators.   *)

Char == {<<"uninit">>, Slash} \cup {<<v, n>> : v \in 0 .. MaxObjectid, n \in Nat}

\* The bytes of b behind the first p are those of t.
Behind(b, p, t) == Len(b) = p + Len(t) /\ \A i \in 1 .. Len(t) : b[p + i] = t[i]

Room == [bytes : Seq(Char), pos : Nat]

\* Its parts.
LEMMA RoomParts ==
  ASSUME NEW d \in Room
  PROVE  d.bytes \in Seq(Char) /\ d.pos \in Nat
  BY DEF Room

\* And those of what it is doubled to.
LEMMA DoubledParts ==
  ASSUME NEW d
  PROVE  Doubled(d).bytes = d.bytes \o d.bytes /\ Doubled(d).pos = d.pos + Len(d.bytes)
  BY DEF Doubled

\* The elements of a sequence.
LEMMA Elements ==
  ASSUME NEW S, NEW q \in Seq(S)
  PROVE  Len(q) \in Nat /\ \A i \in 1 .. Len(q) : q[i] \in S
  OBVIOUS

\* The parts of a concatenation.
LEMMA Joined ==
  ASSUME NEW S, NEW p \in Seq(S), NEW q \in Seq(S)
  PROVE  /\ p \o q \in Seq(S) /\ Len(p \o q) = Len(p) + Len(q)
         /\ \A i \in 1 .. Len(p) : (p \o q)[i] = p[i]
         /\ \A i \in 1 .. Len(q) : (p \o q)[Len(p) + i] = q[i]
<1>1. Len(p) \in Nat /\ Len(q) \in Nat
  OBVIOUS
<1> QED BY <1>1

\* Each turn doubles the bytes, ahead of the same ones.
LEMMA TurnsAre ==
  ASSUME NEW needed \in Nat, buf \in Seq(Char), pos \in Nat
  PROVE  /\ Turns(needed) \in [0 .. needed -> Room]
         /\ Turns(needed)[0] = [bytes |-> buf, pos |-> pos]
         /\ \A n \in 1 .. needed : Turns(needed)[n] = Doubled(Turns(needed)[n - 1])
<1> DEFINE base == [bytes |-> buf, pos |-> pos]
           step == [n \in 1 .. needed |-> [d \in Room |-> Doubled(d)]]
           Is(f) == f = [n \in 0 .. needed |-> IF n = 0 THEN base ELSE Doubled(f[n - 1])]
<1>1. base \in Room
  BY DEF Room
<1>2. ASSUME NEW d \in Room PROVE Doubled(d) \in Room
  BY DEF Room, Doubled
<1>3. Stepwise(step, needed, Room)
  BY <1>2 DEF Stepwise
<1>4. PICK f : Follows(f, needed, Room, base, step)
  <2> HIDE DEF base, step
  <2> QED BY <1>1, <1>3, Recursion
<1>5. f \in [0 .. needed -> Room] /\ f[0] = base /\ \A n \in 1 .. needed : f[n] = step[n][f[n - 1]]
  BY <1>4 DEF Follows
<1>6. ASSUME NEW n \in 1 .. needed PROVE f[n] = Doubled(f[n - 1])
  <2>1. n - 1 \in 0 .. needed
    OBVIOUS
  <2>2. f[n - 1] \in Room
    BY <1>5, <2>1
  <2> QED BY <1>5, <2>2
<1>7. Is(f)
  <2>1. ASSUME NEW n \in 0 .. needed PROVE f[n] = IF n = 0 THEN base ELSE Doubled(f[n - 1])
    <3>1. n # 0 => n \in 1 .. needed
      OBVIOUS
    <3> QED BY <1>5, <1>6, <3>1
  <2> HIDE DEF base
  <2> QED BY <1>5, <2>1
<1>8. Turns(needed) = CHOOSE g : Is(g)
  BY DEF Turns
<1>9. Is(Turns(needed))
  <2> HIDE DEF Is
  <2> QED BY <1>7, <1>8
<1> DEFINE T == Turns(needed)
<1> HIDE DEF T
<1>10. T = [n \in 0 .. needed |-> IF n = 0 THEN base ELSE Doubled(T[n - 1])]
  BY <1>9 DEF T
<1>11. T[0] = base
  BY <1>10
<1>12. ASSUME NEW n \in 1 .. needed PROVE T[n] = Doubled(T[n - 1])
  BY <1>10
<1>13. \A n \in 0 .. needed : T[n] \in Room
  <2> DEFINE G == {n \in 0 .. needed : T[n] \in Room}
  <2>1. 0 \in G
    BY <1>1, <1>11
  <2>2. ASSUME NEW n \in 1 .. needed, n - 1 \in G PROVE n \in G
    BY <1>2, <1>12, <2>2
  <2>3. \A n \in 0 .. needed : n \in G
    <3> HIDE DEF G
    <3> QED BY <2>1, <2>2, UpTo
  <2> QED BY <2>3
<1>14. T \in [0 .. needed -> Room]
  <2>1. T = [n \in 0 .. needed |-> T[n]]
    BY <1>10
  <2> HIDE DEF base
  <2> QED BY <1>13, <2>1
<1> QED BY <1>11, <1>12, <1>14 DEF T

\* What get_path has before it copies a name: room for it in front of what it
\* had behind pos.
LEMMA ExtendedIs ==
  ASSUME NEW needed \in Nat, buf \in Seq(Char), pos \in Nat, Len(buf) > 0,
         NEW t \in Seq(Char), Behind(buf, pos, t)
  PROVE  /\ Extended(needed) \in Room
         /\ Extended(needed).pos >= needed
         /\ Behind(Extended(needed).bytes, Extended(needed).pos, t)
<1> DEFINE T == Turns(needed)
<1>1. /\ T \in [0 .. needed -> Room]
      /\ T[0] = [bytes |-> buf, pos |-> pos]
      /\ \A n \in 1 .. needed : T[n] = Doubled(T[n - 1])
  BY TurnsAre
<1> HIDE DEF T
<1> DEFINE G == {n \in 0 .. needed : /\ T[n].pos >= n /\ Len(T[n].bytes) > 0
                                     /\ Behind(T[n].bytes, T[n].pos, t)}
<1>2. 0 \in G
  BY <1>1
<1>3. ASSUME NEW n \in 1 .. needed, n - 1 \in G PROVE n \in G
  <2> DEFINE d == T[n - 1]
  <2>1. d \in Room /\ d.pos >= n - 1 /\ Len(d.bytes) > 0 /\ Behind(d.bytes, d.pos, t)
    BY <1>1, <1>3
  <2>2. T[n] = Doubled(d)
    BY <1>1
  <2> HIDE DEF d
  <2>3. d.bytes \in Seq(Char) /\ d.pos \in Nat /\ Len(d.bytes) \in Nat
    <3>1. d.bytes \in Seq(Char) /\ d.pos \in Nat
      BY <2>1, RoomParts
    <3> QED BY <3>1, Elements
  <2>4. T[n].bytes = d.bytes \o d.bytes /\ T[n].pos = d.pos + Len(d.bytes)
    BY <2>2, DoubledParts
  <2>5. Len(d.bytes \o d.bytes) = Len(d.bytes) + Len(d.bytes)
    BY <2>3
  <2>6. T[n].pos >= n /\ Len(T[n].bytes) > 0
    BY <2>1, <2>3, <2>4, <2>5
  <2>7. Len(T[n].bytes) = T[n].pos + Len(t)
    BY <2>1, <2>3, <2>4, <2>5 DEF Behind
  <2>8. ASSUME NEW i \in 1 .. Len(t) PROVE T[n].bytes[T[n].pos + i] = t[i]
    <3>1. d.pos + i \in 1 .. Len(d.bytes) /\ d.bytes[d.pos + i] = t[i]
      <4>1. Len(d.bytes) = d.pos + Len(t) /\ d.bytes[d.pos + i] = t[i]
        BY <2>1 DEF Behind
      <4>2. Len(t) \in Nat
        OBVIOUS
      <4> QED BY <2>3, <4>1, <4>2
    <3>2. (d.bytes \o d.bytes)[Len(d.bytes) + (d.pos + i)] = d.bytes[d.pos + i]
      <4>1. \A j \in 1 .. Len(d.bytes) : (d.bytes \o d.bytes)[Len(d.bytes) + j] = d.bytes[j]
        BY <2>3, Joined
      <4> QED BY <3>1, <4>1
    <3>3. T[n].pos + i = Len(d.bytes) + (d.pos + i)
      BY <2>3, <2>4
    <3> QED BY <2>4, <3>1, <3>2, <3>3
  <2> QED BY <2>6, <2>7, <2>8 DEF Behind
<1>4. \A n \in 0 .. needed : n \in G
  <2> HIDE DEF G
  <2> QED BY <1>2, <1>3, UpTo
<1> DEFINE Enough == {n \in 0 .. needed : T[n].pos >= needed}
           Least(n) == T[n].pos >= needed /\ \A m \in 0 .. (n - 1) : T[m].pos < needed
<1>5. PICK n \in Enough : \A m \in Enough : n <= m
  <2>1. needed \in Enough
    BY <1>4
  <2>2. Enough \subseteq Nat /\ Enough # {}
    BY <2>1
  <2> HIDE DEF Enough
  <2> QED BY <2>2, LeastNumber
<1>6. n \in 0 .. needed /\ Least(n)
  <2>1. ASSUME NEW m \in 0 .. (n - 1) PROVE T[m].pos < needed
    <3>1. m \in 0 .. needed /\ ~ (n <= m)
      OBVIOUS
    <3>2. m \notin Enough
      BY <1>5, <3>1
    <3>3. T[m].pos \in Nat
      BY <1>1, <3>1 DEF Room
    <3> QED BY <3>1, <3>2, <3>3
  <2> QED BY <2>1
<1> DEFINE c == CHOOSE k \in 0 .. needed : Least(k)
<1>7. c \in 0 .. needed /\ Least(c)
  <2> HIDE DEF Least
  <2> QED BY <1>6
<1>8. Extended(needed) = T[c]
  BY DEF Extended, T
<1>9. T[c] \in Room /\ Behind(T[c].bytes, T[c].pos, t)
  BY <1>1, <1>4, <1>7
<1>10. T[c].pos >= needed
  BY <1>7
<1> HIDE DEF c
<1> QED BY <1>8, <1>9, <1>10

\* Bytes of a name.
LEMMA BytesAre ==
  ASSUME NEW v \in 0 .. MaxObjectid
  PROVE  /\ PathLength[v] \in Nat \ {0}
         /\ Bytes(v) \in Seq(Char) /\ Len(Bytes(v)) = PathLength[v]
<1>1. PathLength[v] \in Nat \ {0}
  BY ClientsAssumption
<1>2. \A n \in 1 .. PathLength[v] : <<v, n>> \in Char
  BY <1>1 DEF Char
<1>3. Bytes(v) \in [1 .. PathLength[v] -> Char]
  <2> HIDE DEF Char
  <2> QED BY <1>2 DEF Bytes
<1> QED BY <1>1, <1>3

\* The names of a way, from the last one up.
LEMMA LowestIs ==
  ASSUME NEW way \in Seq(0 .. MaxObjectid)
  PROVE  /\ Lowest(way) \in [0 .. Len(way) -> Seq(Char)]
         /\ \A n \in 1 .. Len(way) :
              Lowest(way)[n] = Bytes(way[Len(way) + 1 - n]) \o
                                 IF n = 1 THEN <<>> ELSE <<Slash>> \o Lowest(way)[n - 1]
<1> DEFINE N == Len(way)
           More(n, t) == Bytes(way[N + 1 - n]) \o IF n = 1 THEN <<>> ELSE <<Slash>> \o t
           step == [n \in 1 .. N |-> [t \in Seq(Char) |-> More(n, t)]]
           Is(f) == f = [n \in 0 .. N |-> IF n = 0 THEN <<>> ELSE More(n, f[n - 1])]
<1>1. N \in Nat /\ <<>> \in Seq(Char) /\ <<Slash>> \in Seq(Char)
  BY DEF Char
<1>2. ASSUME NEW n \in 1 .. N, NEW t \in Seq(Char) PROVE More(n, t) \in Seq(Char)
  <2>1. way[N + 1 - n] \in 0 .. MaxObjectid
    <3>1. N + 1 - n \in 1 .. N
      BY <1>1
    <3>2. \A i \in 1 .. N : way[i] \in 0 .. MaxObjectid
      BY Elements
    <3> HIDE DEF N
    <3> QED BY <3>1, <3>2
  <2>2. Bytes(way[N + 1 - n]) \in Seq(Char)
    BY <2>1, BytesAre
  <2>3. <<Slash>> \o t \in Seq(Char)
    BY <1>1
  <2> QED BY <1>1, <2>2, <2>3
<1>3. Stepwise(step, N, Seq(Char))
  <2> HIDE DEF More
  <2> QED BY <1>2 DEF Stepwise
<1>4. PICK f : Follows(f, N, Seq(Char), <<>>, step)
  <2> HIDE DEF step, N
  <2> QED BY <1>1, <1>3, Recursion
<1>5. f \in [0 .. N -> Seq(Char)] /\ f[0] = <<>> /\ \A n \in 1 .. N : f[n] = step[n][f[n - 1]]
  BY <1>4 DEF Follows
<1>6. ASSUME NEW n \in 1 .. N PROVE f[n] = More(n, f[n - 1])
  <2>1. n - 1 \in 0 .. N
    OBVIOUS
  <2>2. f[n - 1] \in Seq(Char)
    BY <1>5, <2>1
  <2> HIDE DEF More
  <2> QED BY <1>5, <2>2
<1>7. Is(f)
  <2>1. ASSUME NEW n \in 0 .. N PROVE f[n] = IF n = 0 THEN <<>> ELSE More(n, f[n - 1])
    <3>1. n # 0 => n \in 1 .. N
      OBVIOUS
    <3> HIDE DEF More
    <3> QED BY <1>5, <1>6, <3>1
  <2> HIDE DEF More
  <2> QED BY <1>5, <2>1
<1>8. Lowest(way) = CHOOSE g : Is(g)
  BY DEF Lowest
<1>9. Is(Lowest(way))
  <2> HIDE DEF Is
  <2> QED BY <1>7, <1>8
<1> DEFINE L == Lowest(way)
<1> HIDE DEF L
<1>10. L = [n \in 0 .. N |-> IF n = 0 THEN <<>> ELSE More(n, L[n - 1])]
  BY <1>9 DEF L
<1>11. L[0] = <<>>
  <2> HIDE DEF More
  <2> QED BY <1>1, <1>10
<1>12. ASSUME NEW n \in 1 .. N PROVE L[n] = More(n, L[n - 1])
  <2> HIDE DEF More
  <2> QED BY <1>10
<1>13. \A n \in 0 .. N : L[n] \in Seq(Char)
  <2> DEFINE G == {n \in 0 .. N : L[n] \in Seq(Char)}
  <2> HIDE DEF More, N
  <2>1. 0 \in G
    <3>1. 0 \in 0 .. N
      BY <1>1
    <3>2. L[0] \in Seq(Char)
      BY <1>1, <1>11, Zenon
    <3> QED BY <3>1, <3>2
  <2>2. ASSUME NEW n \in 1 .. N, n - 1 \in G PROVE n \in G
    BY <1>2, <1>12, <2>2
  <2>3. \A n \in 0 .. N : n \in G
    <3> HIDE DEF G
    <3> QED BY <1>1, <2>1, <2>2, UpTo
  <2> QED BY <2>3
<1>14. L \in [0 .. N -> Seq(Char)]
  <2>1. L = [n \in 0 .. N |-> L[n]]
    <3> HIDE DEF More
    <3> QED BY <1>10
  <2> QED BY <1>13, <2>1
<1> QED BY <1>12, <1>14 DEF L

\* A number behind the first ones.
LEMMA Beyond ==
  ASSUME NEW a \in Nat, NEW c \in Nat, NEW i \in 1 .. (a + c), i \notin 1 .. a
  PROVE  i - a \in 1 .. c /\ i = a + (i - a)
  OBVIOUS

\* Two ways to add.
LEMMA Shift ==
  ASSUME NEW a \in Nat, NEW c \in Nat, NEW n \in Nat, NEW j \in 1 .. n
  PROVE  a + (c + j) = (a + c) + j
  OBVIOUS

\* Bytes copied right in front of others are there, and those too.
LEMMA CopiedBehind ==
  ASSUME NEW b \in Seq(Char), NEW p \in Nat, NEW q \in Seq(Char), NEW t \in Seq(Char),
         Len(q) <= p, Behind(b, p, t)
  PROVE  /\ Copied(b, p - Len(q), q) \in Seq(Char)
         /\ Len(Copied(b, p - Len(q), q)) = Len(b)
         /\ Behind(Copied(b, p - Len(q), q), p - Len(q), q \o t)
<1> DEFINE start == p - Len(q)
           c == Copied(b, start, q)
           Byte(i) == IF i - start \in 1 .. Len(q) THEN q[i - start] ELSE b[i]
<1>1. start \in Nat /\ start + Len(q) = p /\ Len(q) \in Nat /\ Len(t) \in Nat /\ Len(b) = p + Len(t)
  BY DEF Behind
<1> HIDE DEF start
<1>2. c = [i \in 1 .. Len(b) |-> Byte(i)]
  <2>1. DOMAIN b = 1 .. Len(b) /\ DOMAIN q = 1 .. Len(q)
    OBVIOUS
  <2> QED BY <2>1 DEF Copied
<1>3. \A i \in 1 .. Len(b) : Byte(i) \in Char
  <2>1. \A i \in 1 .. Len(b) : b[i] \in Char
    BY Elements
  <2>2. \A i \in 1 .. Len(q) : q[i] \in Char
    BY Elements
  <2> QED BY <2>1, <2>2
<1> HIDE DEF c
<1>4. c \in [1 .. Len(b) -> Char]
  <2> HIDE DEF Byte
  <2> QED BY <1>2, <1>3
<1>5. c \in Seq(Char) /\ Len(c) = Len(b)
  BY <1>1, <1>4
<1>6. q \o t \in Seq(Char) /\ Len(q \o t) = Len(q) + Len(t)
  BY Joined
<1>7. ASSUME NEW i \in 1 .. (Len(q) + Len(t)) PROVE c[start + i] = (q \o t)[i]
  <2>1. start + i \in 1 .. Len(b) /\ (start + i) - start = i
    BY <1>1
  <2>2. c[start + i] = IF i \in 1 .. Len(q) THEN q[i] ELSE b[start + i]
    BY <1>2, <2>1
  <2>3. CASE i \in 1 .. Len(q)
    BY <2>2, <2>3, Joined
  <2>4. CASE i \notin 1 .. Len(q)
    <3> DEFINE j == i - Len(q)
    <3>1. j \in 1 .. Len(t) /\ i = Len(q) + j
      BY <1>1, <2>4, Beyond
    <3> HIDE DEF j
    <3>2. start + i = p + j
      <4>1. start + (Len(q) + j) = (start + Len(q)) + j
        BY <1>1, <3>1, Shift
      <4> QED BY <1>1, <3>1, <4>1
    <3>3. (q \o t)[Len(q) + j] = t[j]
      BY <3>1, Joined
    <3>4. b[p + j] = t[j]
      BY <3>1 DEF Behind
    <3> QED BY <2>2, <2>4, <3>1, <3>2, <3>3, <3>4
  <2> QED BY <2>3, <2>4
<1>8. Behind(c, start, q \o t)
  <2> DEFINE u == q \o t
  <2>1. Len(u) = Len(q) + Len(t) /\ \A i \in 1 .. (Len(q) + Len(t)) : c[start + i] = u[i]
    BY <1>6, <1>7
  <2> HIDE DEF u
  <2>2. Behind(c, start, u)
    <3>1. Len(c) = start + Len(u)
      <4>1. Len(b) = start + (Len(q) + Len(t))
        BY <1>1
      <4> QED BY <1>5, <2>1, <4>1
    <3>2. \A i \in 1 .. Len(u) : c[start + i] = u[i]
      BY <2>1
    <3> QED BY <3>1, <3>2 DEF Behind
  <2> QED BY <2>2 DEF u
<1> QED BY <1>5, <1>8 DEF c, start

\* What is behind the first p bytes, drained of these.
LEMMA Drained ==
  ASSUME NEW b \in Seq(Char), NEW p \in Nat, NEW t \in Seq(Char), Behind(b, p, t)
  PROVE  SubSeq(b, p + 1, Len(b)) = t
<1>1. Len(t) \in Nat /\ Len(b) = p + Len(t)
  BY DEF Behind
<1> DEFINE s == SubSeq(b, p + 1, Len(b))
<1>2. s \in Seq(Char) /\ Len(s) = Len(t)
  BY <1>1
<1>3. \A i \in 1 .. Len(t) : s[i] = b[p + i]
  BY <1>1
<1>4. \A i \in 1 .. Len(t) : s[i] = t[i]
  BY <1>3 DEF Behind
<1> HIDE DEF s
<1>5. s = [i \in 1 .. Len(t) |-> s[i]] /\ t = [i \in 1 .. Len(t) |-> t[i]]
  BY <1>2
<1> QED BY <1>4, <1>5 DEF s

\* A step up puts the name in front of the path, and a separator in front of
\* that unless the path is complete.
LEMMA PrependIs ==
  ASSUME NEW v \in 0 .. MaxObjectid, NEW rootvol \in BOOLEAN,
         buf \in Seq(Char), pos \in Nat, Len(buf) > 0,
         NEW t \in Seq(Char), Behind(buf, pos, t), Prepend(v, rootvol)
  PROVE  /\ rootvol => buf' = Bytes(v) \o t
         /\ ~ rootvol => /\ buf' \in Seq(Char) /\ Len(buf') > 0 /\ pos' \in Nat
                         /\ Behind(buf', pos', <<Slash>> \o (Bytes(v) \o t))
<1> DEFINE needed == Needed(v, rootvol)
           d == Extended(needed)
           start == d.pos - PathLength[v]
           b == Copied(d.bytes, start, Bytes(v))
<1>1. /\ PathLength[v] \in Nat \ {0}
      /\ Bytes(v) \in Seq(Char) /\ Len(Bytes(v)) = PathLength[v]
  BY BytesAre
<1>2. needed \in Nat /\ needed >= PathLength[v] /\ (~ rootvol => needed >= PathLength[v] + 1)
  BY <1>1 DEF Needed
<1>3. IF rootvol THEN buf' = SubSeq(b, start + 1, Len(b)) /\ pos' = 0
                 ELSE buf' = Copied(b, start - 1, <<Slash>>) /\ pos' = start - 1
  BY DEF Prepend
<1> HIDE DEF needed
<1>4. d \in Room /\ d.pos >= needed /\ Behind(d.bytes, d.pos, t)
  BY <1>2, ExtendedIs
<1> HIDE DEF d
<1>5. d.bytes \in Seq(Char) /\ d.pos \in Nat
  BY <1>4 DEF Room
<1>6. Len(Bytes(v)) <= d.pos /\ start \in Nat /\ (~ rootvol => start - 1 \in Nat)
  BY <1>1, <1>2, <1>4, <1>5
<1>7. b \in Seq(Char) /\ Behind(b, start, Bytes(v) \o t)
  BY <1>1, <1>4, <1>5, <1>6, CopiedBehind
<1> HIDE DEF b, start
<1>8. Bytes(v) \o t \in Seq(Char)
  BY <1>1
<1>9. CASE rootvol
  BY <1>3, <1>6, <1>7, <1>8, <1>9, Drained
<1>10. CASE ~ rootvol
  <2> DEFINE sep == <<Slash>>
             c == Copied(b, start - 1, sep)
             rest == Bytes(v) \o t
  <2>1. sep \in Seq(Char) /\ Len(sep) = 1
    BY DEF Char
  <2>2. /\ c \in Seq(Char) /\ Len(c) = Len(b)
        /\ Behind(c, start - 1, sep \o rest)
    <3> HIDE DEF sep, rest
    <3>1. Behind(b, start, rest) /\ rest \in Seq(Char)
      BY <1>7, <1>8 DEF rest
    <3>2. Len(sep) <= start
      BY <1>6, <1>10, <2>1
    <3>3. /\ Copied(b, start - Len(sep), sep) \in Seq(Char)
          /\ Len(Copied(b, start - Len(sep), sep)) = Len(b)
          /\ Behind(Copied(b, start - Len(sep), sep), start - Len(sep), sep \o rest)
      BY <1>6, <1>7, <2>1, <3>1, <3>2, CopiedBehind
    <3> QED BY <2>1, <3>3
  <2>3. Len(b) > 0
    BY <1>6, <1>7, <1>8, <1>10 DEF Behind
  <2>4. buf' = c /\ pos' = start - 1
    BY <1>3, <1>10
  <2> HIDE DEF c
  <2> QED BY <1>6, <1>10, <2>2, <2>3, <2>4
<1> QED BY <1>9, <1>10

-----------------------------------------------------------------------------
(* The invariant of get_path.                                                *)

\* The back reference of the n-th on a way.
LinkOf(way, n) == <<way[n], Backref, IF n = 1 THEN FsTree ELSE way[n - 1]>>

\* What is behind pos when the last n names are there.
Text(way, n) == IF n = 0 THEN <<>> ELSE <<Slash>> \o Lowest(way)[n]

\* get_path has the last n names of a way and looks for the back reference of
\* the one above them; the kernel's answer is this one, or none, when it is out
\* of the range.
AtName(way, n) ==
    LET m == Len(way) - n IN
        /\ minKey = <<way[m], Backref, 0>>
        /\ Behind(buf, pos, Text(way, n))
        /\ pc = "items" => IF len = 0 THEN way[m] > search.min[1] ELSE buffer[1] = LinkOf(way, m)

OnWay(way) ==
    \/ /\ pc \in {"query", "items"}
       /\ buf \in Seq(Char) /\ Len(buf) > 0 /\ pos \in Nat
       /\ \E n \in 0 .. (Len(way) - 1) : AtName(way, n)
    \/ pc = "found" /\ buf = Lowest(way)[Len(way)]
    \/ pc = "NotFound" /\ \E n \in DOMAIN way : way[n] > search.min[1]

PathTypes ==
    /\ search \in Searches /\ maxKey = search.max /\ limit \in Nat \ {0} /\ len \in Nat
    /\ tree \subseteq Item /\ stable \subseteq tree
    /\ \A j, k \in tree : j[1] = k[1] /\ j[2] = Backref /\ k[2] = Backref => j = k
    /\ pc \in {"query", "items", "found", "NotFound", "error"}

PathInv == PathTypes /\ \A way \in Ways(search.min[1]) : OnWay(way)

-----------------------------------------------------------------------------
\* What a way is made of.
LEMMA WayParts ==
  ASSUME NEW way \in Ways(search.min[1]), PathTypes
  PROVE  /\ way \in Seq(0 .. MaxObjectid) /\ Len(way) \in Nat \ {0}
         /\ way[Len(way)] = search.min[1]
         /\ \A n \in 1 .. Len(way) :
              /\ way[n] \in 0 .. MaxObjectid /\ way[n] # FsTree
              /\ LinkOf(way, n) \in stable /\ LinkOf(way, n) \in tree /\ LinkOf(way, n) \in Item
<1>1. way \in SeqOf(0 .. MaxObjectid, MaxObjectid)
  BY DEF Ways
<1>2. /\ way # <<>> /\ Last(way) = search.min[1]
      /\ \A n \in DOMAIN way : way[n] # FsTree /\ LinkOf(way, n) \in stable
  BY DEF Ways, LinkOf
<1>3. PICK m \in 0 .. MaxObjectid : way \in [1 .. m -> 0 .. MaxObjectid]
  BY <1>1 DEF SeqOf
<1>4. way \in Seq(0 .. MaxObjectid) /\ Len(way) = m /\ m \in Nat /\ DOMAIN way = 1 .. m
  BY <1>3, SearchAssumption
<1>5. m # 0
  BY <1>2, <1>4
<1> QED BY <1>2, <1>3, <1>4, <1>5 DEF Last, PathTypes

\* At first the search is for the back reference of the last one.
LEMMA PathInitially == Init /\ client = "get_path" => PathInv
<1>1. SUFFICES ASSUME Init, client = "get_path" PROVE PathInv
  OBVIOUS
<1>2. /\ search \in Searches /\ search.tree \subseteq Item /\ search.limit \in Nat \ {0}
      /\ \A j, k \in search.tree : j[1] = k[1] /\ j[2] = Backref /\ k[2] = Backref => j = k
  BY <1>1, ClientsAssumption, PathsAssumption DEF Init, client
<1>3. PICK v \in 0 .. MaxObjectid : search.min = <<v, Backref, 0>>
  BY <1>1, <1>2, PathsAssumption DEF client
<1>4. PathTypes
  BY <1>1, <1>2 DEF Init, PathTypes
<1>5. buf \in Seq(Char) /\ Len(buf) = BufferSize /\ BufferSize \in Nat \ {0} /\ pos = BufferSize
  <2>1. BufferSize \in Nat \ {0}
    BY ClientsAssumption
  <2>2. <<"uninit">> \in Char
    BY DEF Char
  <2>3. buf = [n \in 1 .. BufferSize |-> <<"uninit">>] /\ pos = BufferSize
    BY <1>1 DEF Init
  <2>4. buf \in [1 .. BufferSize -> Char]
    BY <2>2, <2>3
  <2> QED BY <2>1, <2>3, <2>4
<1>6. ASSUME NEW way \in Ways(search.min[1]) PROVE OnWay(way)
  <2>1. Len(way) \in Nat \ {0} /\ way[Len(way)] = v
    BY <1>3, <1>4, WayParts
  <2>2. Behind(buf, pos, <<>>)
    BY <1>5 DEF Behind
  <2>3. AtName(way, 0)
    BY <1>1, <1>3, <2>1, <2>2 DEF Init, AtName, Text
  <2>4. 0 \in 0 .. (Len(way) - 1)
    BY <2>1
  <2> QED BY <1>1, <1>5, <2>3, <2>4 DEF Init, OnWay
<1> QED BY <1>4, <1>6 DEF PathInv

\* Others leave the names alone; a way they change is none any more.
LEMMA PathOther ==
  ASSUME PathInv, Other
  PROVE  PathInv'
<1>1. UNCHANGED <<minKey, maxKey, limit, buffer, len, search, pc, buf, pos>>
  BY DEF Other, searchVars, pathVars
<1>2. stable' \subseteq stable /\ stable' \subseteq tree' /\ tree' \subseteq Item
  <2>1. stable \subseteq tree /\ tree \subseteq Item /\ Pool \subseteq Item
    BY SearchAssumption DEF PathInv, PathTypes
  <2>2. CASE Inserted
    BY <2>1, <2>2 DEF Inserted, Changed
  <2>3. CASE Removed
    BY <2>1, <2>3 DEF Removed, Changed
  <2>4. CASE Moved
    BY <2>1, <2>4 DEF Moved, Changed
  <2> QED BY <2>2, <2>3, <2>4 DEF Other, OtherProcess
<1>3. ASSUME NEW j \in tree', NEW k \in tree', j[1] = k[1], j[2] = Backref, k[2] = Backref
      PROVE  j = k
  <2>1. \A a, b \in tree : a[1] = b[1] /\ a[2] = Backref /\ b[2] = Backref => a = b
    BY DEF PathInv, PathTypes
  <2>2. CASE Inserted
    <3>1. PICK new \in Pool \ tree : /\ new[2] = Backref => Parent(new[1]) = {}
                                     /\ tree' = tree \cup {new}
      BY <2>2 DEF Inserted, Changed
    <3>2. new[2] = Backref => \A a \in tree : ~ (a[1] = new[1] /\ a[2] = Backref)
      BY <3>1 DEF Parent
    <3> QED BY <1>3, <2>1, <3>1, <3>2
  <2>3. CASE Removed
    BY <1>3, <2>1, <2>3 DEF Removed, Changed
  <2>4. CASE Moved
    <3>1. PICK old \in tree, new \in Pool \ tree :
            old[1] = new[1] /\ old[2] = Backref /\ new[2] = Backref /\ tree' = (tree \ {old}) \cup {new}
      BY <2>4 DEF Moved, Changed
    <3>2. \A a \in tree : a[1] = new[1] /\ a[2] = Backref => a = old
      BY <2>1, <3>1
    <3> QED BY <1>3, <2>1, <3>1, <3>2
  <2> QED BY <2>2, <2>3, <2>4 DEF Other, OtherProcess
<1>4. PathTypes'
  BY <1>1, <1>2, <1>3 DEF PathInv, PathTypes
<1>5. Ways(search.min[1])' \subseteq Ways(search.min[1])
  BY <1>1, <1>2 DEF Ways
<1>6. ASSUME NEW way \in Ways(search.min[1]) PROVE OnWay(way)'
  <2>1. OnWay(way)
    BY <1>6 DEF PathInv
  <2>2. \A n : AtName(way, n)' <=> AtName(way, n)
    BY <1>1 DEF AtName
  <2> QED BY <1>1, <2>1, <2>2 DEF OnWay
<1> QED BY <1>4, <1>5, <1>6 DEF PathInv

\* The kernel's answer is the back reference that is looked for, when it is in
\* the range.
LEMMA PathQuery ==
  ASSUME PathInv, client = "get_path", Query
  PROVE  PathInv'
<1>1. /\ pc = "query" /\ pc' = "items" /\ query
      /\ UNCHANGED <<tree, stable, search, minKey, maxKey, limit, buf, pos>>
  BY DEF Query, query, treeVars, pathVars
<1>2. PathTypes
  BY DEF PathInv
<1>3. /\ len' \in Nat
      /\ len' = 0 => InReach = {}
      /\ len' > 0 =>
           /\ buffer' \in [1 .. len' -> InReach]
           /\ \A i, j \in 1 .. len' : i < j => Below(buffer'[i], buffer'[j])
           /\ \A k \in InReach : (\E i \in 1 .. len' : buffer'[i] = k) \/ Below(buffer'[len'], k)
  BY <1>1, <1>2, QueryAnswers DEF PathTypes
<1>4. PathTypes'
  BY <1>1, <1>2, <1>3 DEF PathTypes
<1>5. PICK v \in 0 .. MaxObjectid : search.min = <<v, Backref, 0>> /\ maxKey = <<v, Backref, MaxOffset>>
  BY <1>2, PathsAssumption DEF client, PathTypes
<1>6. Ways(search.min[1])' = Ways(search.min[1])
  BY <1>1 DEF Ways
<1>7. ASSUME NEW way \in Ways(search.min[1]) PROVE OnWay(way)'
  <2>1. /\ buf \in Seq(Char) /\ Len(buf) > 0 /\ pos \in Nat
        /\ \E n \in 0 .. (Len(way) - 1) : AtName(way, n)
    BY <1>1 DEF PathInv, OnWay
  <2>2. PICK n \in 0 .. (Len(way) - 1) : AtName(way, n)
    BY <2>1
  <2> DEFINE m == Len(way) - n
             link == LinkOf(way, m)
  <2>3. m \in 1 .. Len(way)
    <3>1. Len(way) \in Nat
      BY <1>2, WayParts
    <3> QED BY <3>1
  <2> HIDE DEF m
  <2>4. /\ way[m] \in 0 .. MaxObjectid /\ link \in tree /\ link \in Item
        /\ link[1] = way[m] /\ link[2] = Backref
    BY <1>2, <2>3, WayParts DEF LinkOf
  <2>5. minKey = <<way[m], Backref, 0>>
    BY <2>2 DEF AtName, m
  <2> HIDE DEF link
  <2>6. link[3] \in 0 .. MaxOffset /\ v \in Nat /\ way[m] \in Nat /\ Backref \in Nat /\ MaxOffset \in Nat
    BY <2>4, SearchAssumption DEF Item, Key
  <2>7. CASE len' = 0
    <3>1. link \notin InReach
      BY <1>3, <2>7
    <3>2. way[m] > v
      BY <1>5, <2>4, <2>5, <2>6, <3>1 DEF InReach, InRange, Below
    <3> QED BY <1>1, <1>5, <2>1, <2>2, <2>7, <3>2 DEF OnWay, AtName, m
  <2>8. CASE len' # 0
    <3>1. /\ len' > 0 /\ 1 \in 1 .. len' /\ buffer'[1] \in InReach
          /\ \A j \in 1 .. len' : j = 1 \/ Below(buffer'[1], buffer'[j])
          /\ \A k \in InReach : (\E i \in 1 .. len' : buffer'[i] = k) \/ Below(buffer'[len'], k)
      BY <1>3, <2>8
    <3> DEFINE first == buffer'[1]
    <3>2. first \in tree /\ first \in Key /\ ~ Below(first, minKey) /\ ~ Below(maxKey, first)
      BY <1>2, <3>1 DEF InReach, InRange, Item, PathTypes
    <3>3. way[m] <= v
      <4>1. first[1] \in Nat /\ first[2] \in Nat /\ first[3] \in Nat
        BY <3>2, KeyParts
      <4> HIDE DEF first
      <4> QED BY <1>5, <2>5, <2>6, <3>2, <4>1 DEF Below
    <3>4. link \in InReach
      BY <1>5, <2>4, <2>5, <2>6, <3>3 DEF InReach, InRange, Below
    <3>5. link = first \/ Below(first, link)
      <4>1. \A j \in 1 .. len' : buffer'[j] \in Key
        BY <1>2, <1>3, <3>1 DEF InReach, Item, PathTypes
      <4>2. len' \in 1 .. len'
        BY <1>3, <3>1
      <4>3. link \in Key
        BY <2>4 DEF Item
      <4>4. first = buffer'[len'] \/ Below(first, buffer'[len'])
        BY <3>1, <4>2
      <4>5. CASE \E i \in 1 .. len' : buffer'[i] = link
        BY <3>1, <4>5
      <4>6. CASE Below(buffer'[len'], link)
        BY <3>2, <4>1, <4>2, <4>3, <4>4, <4>6, KeyOrder
      <4> QED BY <3>1, <3>4, <4>5, <4>6
    <3>6. first[1] = link[1] /\ first[2] = Backref
      <4>1. first[1] \in Nat /\ first[2] \in Nat /\ first[3] \in Nat
        BY <3>2, KeyParts
      <4> HIDE DEF first
      <4> QED BY <2>4, <2>5, <2>6, <3>2, <3>5, <4>1 DEF Below
    <3>7. first = link
      BY <1>2, <2>4, <3>2, <3>6 DEF PathTypes
    <3> QED BY <1>1, <2>1, <2>2, <2>8, <3>7 DEF OnWay, AtName, m, link
  <2> QED BY <2>7, <2>8
<1> QED BY <1>1, <1>4, <1>6, <1>7 DEF PathInv

\* The text of one name more.
LEMMA TextAbove ==
  ASSUME NEW way \in Seq(0 .. MaxObjectid), NEW n \in 0 .. (Len(way) - 1)
  PROVE  /\ Text(way, n) \in Seq(Char)
         /\ Lowest(way)[n + 1] = Bytes(way[Len(way) - n]) \o Text(way, n)
<1>1. Len(way) \in Nat
  OBVIOUS
<1>2. /\ Lowest(way) \in [0 .. Len(way) -> Seq(Char)]
      /\ \A k \in 1 .. Len(way) :
           Lowest(way)[k] = Bytes(way[Len(way) + 1 - k]) \o
                              IF k = 1 THEN <<>> ELSE <<Slash>> \o Lowest(way)[k - 1]
  BY LowestIs
<1>3. n + 1 \in 1 .. Len(way) /\ Len(way) + 1 - (n + 1) = Len(way) - n /\ (n + 1) - 1 = n /\ (n + 1 = 1 <=> n = 0)
  BY <1>1
<1>4. Lowest(way)[n + 1] = Bytes(way[Len(way) + 1 - (n + 1)]) \o
                              IF n + 1 = 1 THEN <<>> ELSE <<Slash>> \o Lowest(way)[(n + 1) - 1]
  BY <1>2, <1>3
<1>5. Lowest(way)[n + 1] = Bytes(way[Len(way) - n]) \o Text(way, n)
  BY <1>3, <1>4, Zenon DEF Text
<1>6. Lowest(way)[n] \in Seq(Char)
  BY <1>1, <1>2
<1>7. <<Slash>> \in Seq(Char) /\ <<>> \in Seq(Char)
  BY DEF Char
<1>8. Text(way, n) \in Seq(Char)
  <2> DEFINE low == Lowest(way)[n]
  <2>1. low \in Seq(Char) /\ Text(way, n) = IF n = 0 THEN <<>> ELSE <<Slash>> \o low
    BY <1>6 DEF Text
  <2> HIDE DEF low
  <2> QED BY <1>7, <2>1
<1> QED BY <1>5, <1>8

\* The name of the back reference comes in front of the others; above the last
\* one there is none.
LEMMA PathUp ==
  ASSUME PathInv, client = "get_path", PathOn
  PROVE  PathInv'
<1>1. /\ pc = "items" /\ len > 0
      /\ minKey' = get_path_on(buffer[1])
      /\ UNCHANGED <<tree, stable, search, maxKey, limit, buffer, len>>
  BY DEF PathOn, treeVars
<1> DEFINE rootvol == buffer[1][3] = FsTree
<1>2. \/ Prepend(buffer[1][1], rootvol) /\ pc' = IF rootvol THEN "found" ELSE "query"
      \/ buffer[1] \notin tree /\ pc' = "error"
  BY DEF PathOn
<1>3. PathTypes
  BY DEF PathInv
<1>4. PathTypes'
  <2>1. pc' \in {"query", "found", "error"}
    BY <1>2
  <2> QED BY <1>1, <1>3, <2>1 DEF PathTypes
<1>5. Ways(search.min[1])' = Ways(search.min[1])
  BY <1>1 DEF Ways
<1>6. ASSUME NEW way \in Ways(search.min[1]) PROVE OnWay(way)'
  <2>1. /\ buf \in Seq(Char) /\ Len(buf) > 0 /\ pos \in Nat
        /\ \E n \in 0 .. (Len(way) - 1) : AtName(way, n)
    BY <1>1 DEF PathInv, OnWay
  <2>2. PICK n \in 0 .. (Len(way) - 1) : AtName(way, n)
    BY <2>1
  <2> DEFINE m == Len(way) - n
             up == Lowest(way)[n + 1]
  <2>3. way \in Seq(0 .. MaxObjectid) /\ Len(way) \in Nat \ {0} /\ m \in 1 .. Len(way)
    <3>1. way \in Seq(0 .. MaxObjectid) /\ Len(way) \in Nat \ {0}
      BY <1>3, WayParts
    <3> QED BY <3>1
  <2>4. buffer[1] = LinkOf(way, m) /\ Behind(buf, pos, Text(way, n))
    BY <1>1, <1>3, <2>2 DEF AtName, PathTypes
  <2>5. Text(way, n) \in Seq(Char) /\ up = Bytes(way[m]) \o Text(way, n)
    BY <2>3, TextAbove
  <2>6. m = 1 <=> n + 1 = Len(way)
    BY <2>3
  <2>7. m # 1 => m - 1 \in 1 .. Len(way) /\ m - 1 = Len(way) - (n + 1) /\ n + 1 \in 0 .. (Len(way) - 1) /\ n + 1 # 0
    BY <2>3
  <2> HIDE DEF m, up
  <2>8. way[m] \in 0 .. MaxObjectid /\ buffer[1] \in tree
    BY <1>3, <2>3, <2>4, WayParts
  <2>9. buffer[1][1] = way[m] /\ buffer[1][3] = IF m = 1 THEN FsTree ELSE way[m - 1]
    BY <2>4 DEF LinkOf
  <2>10. rootvol <=> m = 1
    <3>1. m # 1 => way[m - 1] # FsTree
      BY <1>3, <2>7, WayParts
    <3> QED BY <2>9, <3>1
  <2>11. minKey' = <<buffer[1][3], Backref, 0>>
    BY <1>1 DEF get_path_on
  <2> HIDE DEF rootvol
  <2>12. Prepend(way[m], m = 1) /\ pc' = IF m = 1 THEN "found" ELSE "query"
    <3>1. Prepend(buffer[1][1], rootvol) /\ pc' = IF rootvol THEN "found" ELSE "query"
      BY <1>2, <2>8
    <3>2. rootvol = (m = 1)
      BY <2>10 DEF rootvol
    <3> QED BY <2>9, <3>1, <3>2
  <2>13. /\ (m = 1) => buf' = up
         /\ ~ (m = 1) => /\ buf' \in Seq(Char) /\ Len(buf') > 0 /\ pos' \in Nat
                         /\ Behind(buf', pos', <<Slash>> \o up)
    <3>1. (m = 1) \in BOOLEAN
      OBVIOUS
    <3>2. /\ (m = 1) => buf' = Bytes(way[m]) \o Text(way, n)
          /\ ~ (m = 1) => /\ buf' \in Seq(Char) /\ Len(buf') > 0 /\ pos' \in Nat
                          /\ Behind(buf', pos', <<Slash>> \o (Bytes(way[m]) \o Text(way, n)))
      BY <2>1, <2>4, <2>5, <2>8, <2>12, <3>1, PrependIs
    <3> QED BY <2>5, <3>2
  <2>14. CASE m = 1
    <3>1. up = Lowest(way)[Len(way)]
      BY <2>6, <2>14 DEF up
    <3>2. pc' = "found" /\ buf' = Lowest(way)[Len(way)]
      BY <2>12, <2>13, <2>14, <3>1
    <3> QED BY <3>2 DEF OnWay
  <2>15. CASE m # 1
    <3>1. pc' = "query"
      BY <2>12, <2>15
    <3>2. minKey' = <<way[Len(way) - (n + 1)], Backref, 0>>
      BY <2>7, <2>9, <2>11, <2>15
    <3>3. Text(way, n + 1) = <<Slash>> \o up
      BY <2>7, <2>15 DEF Text, up
    <3>4. AtName(way, n + 1)'
      BY <2>13, <2>15, <3>1, <3>2, <3>3 DEF AtName, Text, Lowest, Bytes
    <3> QED BY <2>7, <2>13, <2>15, <3>1, <3>4 DEF OnWay
  <2> QED BY <2>14, <2>15
<1> QED BY <1>1, <1>4, <1>5, <1>6 DEF PathInv

\* Without an item the one that is looked for is out of the range.
LEMMA PathEnds ==
  ASSUME PathInv, client = "get_path", PathNotFound
  PROVE  PathInv'
<1>1. /\ pc = "items" /\ len = 0 /\ pc' = "NotFound"
      /\ UNCHANGED <<tree, stable, search, maxKey, limit, buffer, len>>
  BY DEF PathNotFound, drop, treeVars
<1>2. PathTypes /\ PathTypes'
  BY <1>1 DEF PathInv, PathTypes
<1>3. Ways(search.min[1])' = Ways(search.min[1])
  BY <1>1 DEF Ways
<1>4. ASSUME NEW way \in Ways(search.min[1]) PROVE OnWay(way)'
  <2>1. PICK n \in 0 .. (Len(way) - 1) : AtName(way, n)
    BY <1>1 DEF PathInv, OnWay
  <2>2. Len(way) \in Nat \ {0} /\ way \in Seq(0 .. MaxObjectid)
    BY <1>2, WayParts
  <2>3. Len(way) - n \in DOMAIN way
    BY <2>2
  <2>4. way[Len(way) - n] > search.min[1]
    BY <1>1, <2>1 DEF AtName
  <2> QED BY <1>1, <2>3, <2>4 DEF OnWay
<1> QED BY <1>1, <1>2, <1>3, <1>4 DEF PathInv

\* Every step of get_path keeps the invariant.
LEMMA PathNext ==
  ASSUME client = "get_path" => PathInv, [Next]_vars
  PROVE  (client = "get_path" => PathInv)'
<1>1. client' = client
  BY DEF Next, Client, Query, WalkTake, WalkOn, DefaultTake, DefaultOn, PathOn, PathNotFound, Other, vars, client
<1>2. SUFFICES ASSUME client = "get_path", PathInv PROVE PathInv'
  BY <1>1
<1>3. CASE UNCHANGED vars
  <2>1. UNCHANGED <<tree, stable, search, minKey, maxKey, limit, buffer, len, pc, buf, pos>>
    BY <1>3 DEF vars, treeVars, searchVars, pathVars
  <2>2. Ways(search.min[1])' = Ways(search.min[1])
    BY <2>1 DEF Ways
  <2>3. \A way : OnWay(way)' <=> OnWay(way)
    BY <2>1 DEF OnWay, AtName
  <2>4. PathTypes'
    BY <1>2, <2>1 DEF PathInv, PathTypes
  <2> QED BY <1>2, <2>1, <2>2, <2>3, <2>4 DEF PathInv
<1>4. ~ WalkTake /\ ~ WalkOn /\ ~ DefaultTake /\ ~ DefaultOn
  BY <1>2 DEF Walkers, WalkTake, WalkOn, DefaultTake, DefaultOn
<1> QED BY <1>2, <1>3, <1>4, PathQuery, PathUp, PathEnds, PathOther DEF Next, Client

\* The invariant holds of every behaviour of get_path.
THEOREM PathInvariant == Spec => [](client = "get_path" => PathInv)
<1>1. Init => (client = "get_path" => PathInv)
  BY PathInitially
<1> QED BY <1>1, PathNext, PTL DEF Spec

\* However deep a subvolume lies, whatever the lengths of the names and of the
\* buffer and whatever others do elsewhere: get_path gives the names of the way
\* from the root, with separators between them, or finds nothing when one above
\* the subvolume has a larger id.
THEOREM SearchPathIsRight == Spec => []PathIsRight
<1>1. (client = "get_path" => PathInv) => PathIsRight
  <2>1. SUFFICES ASSUME PathInv, client = "get_path", Ended, NEW way \in Ways(search.min[1])
                 PROVE  \/ pc = "found" /\ buf = Lowest(way)[Len(way)]
                        \/ pc = "NotFound" /\ \E n \in DOMAIN way : way[n] > search.min[1]
    BY DEF PathIsRight
  <2>2. OnWay(way) /\ pc \notin {"query", "items"}
    BY <2>1 DEF PathInv, Ended
  <2> QED BY <2>2 DEF OnWay
<1> QED BY <1>1, PathInvariant, PTL
=============================================================================

----------------------------- MODULE TreeSearch -----------------------------
(***************************************************************************)
(* tree_search: a search of a tree of the filesystem, as a cursor.  query  *)
(* asks the kernel for the items from the minimum key on, as many as fit;  *)
(* the caller takes items from the iterator; dropping it moves the minimum *)
(* key past the last item taken, by a function the caller gave to query.   *)
(* Between two queries other processes insert and remove items.            *)
(***************************************************************************)
EXTENDS Integers, Sequences, FiniteSets, SequencesExt

CONSTANTS
    MaxObjectid,   \* u64::MAX, scaled down
    MaxType,       \* u8::MAX, scaled down
    MaxOffset,     \* u64::MAX, scaled down
    Capacity,      \* items that fit in the buffer at most
    Backref,       \* RootBackref::KEY: a subvolume has one of these
    Pool,          \* keys that other processes insert and remove
    MaxChanges     \* bound: items they insert and remove

Key == (0 .. MaxObjectid) \X (0 .. MaxType) \X (0 .. MaxOffset)

\* No item has the largest type (u8::MAX, that of btrfs is 253) or objectid.
Item == {k \in Key : k[1] < MaxObjectid /\ k[2] < MaxType}

ASSUME SearchAssumption ==
    /\ MaxObjectid \in Nat /\ MaxType \in Nat /\ MaxOffset \in Nat
    /\ Capacity \in Nat \ {0}
    /\ Backref \in 0 .. (MaxType - 1)
    /\ Pool \subseteq Item
    /\ MaxChanges \in Nat

VARIABLES
    tree,       \* the keys of the items in the tree
    stable,     \* history: those in it from the start on
    changes,    \* changes so far
    minKey, maxKey, limit,   \* the search key: bounds and nr_items
    buffer,     \* the headers the kernel last wrote, <<>> before
    len,        \* items of the last query, 0 when there were none
    taken,      \* how many of them were taken
    visited     \* history: the items taken

treeVars   == <<tree, stable, changes>>
searchVars == <<minKey, maxKey, limit, buffer, len, taken, visited>>

-----------------------------------------------------------------------------
\* The order of the items.
Below(j, k) ==
    \/ j[1] < k[1]
    \/ j[1] = k[1] /\ j[2] < k[2]
    \/ j[1] = k[1] /\ j[2] = k[2] /\ j[3] < k[3]

InRange(k, lo, hi) == ~ Below(k, lo) /\ ~ Below(hi, k)

\* A set of keys in that order.
InOrder(s) ==
    [i \in 1 .. Cardinality(s) |-> CHOOSE k \in s : Cardinality({j \in s : Below(j, k)}) = i - 1]

next_objectid(k) ==
    IF k[1] = MaxObjectid THEN k ELSE <<k[1] + 1, 0, 0>>

\* Slip: and the next objectid.
next_type_objectid(k) == <<k[1] + 1, 0, 0>>

next_type(k) == <<k[1], k[2] + 1, 0>>

\* For the largest type next_type calls itself with the same key, for ever.
TypeReturns(k) == k[2] < MaxType

\* Slip: the largest offset wraps, and the type stays.
next_offset_wraps(k) == <<k[1], k[2], (k[3] + 1) % (MaxOffset + 1)>>

next_offset(k) ==
    IF k[3] = MaxOffset THEN next_type(k) ELSE <<k[1], k[2], k[3] + 1>>

OffsetReturns(k) == k[3] < MaxOffset \/ TypeReturns(k)

\* External: BTRFS_IOC_TREE_SEARCH(_V2): the first items of the range, as many
\* as were asked for and fit, which depends on their sizes.
query ==
    /\ \E n \in 1 .. (IF limit < Capacity THEN limit ELSE Capacity) :
        LET found == InOrder({k \in tree : InRange(k, minKey, maxKey)})
            batch == IF n < Len(found) THEN SubSeq(found, 1, n) ELSE found
        IN  /\ buffer' = IF batch = <<>> THEN buffer ELSE batch
            /\ len' = Len(batch)
    /\ taken' = 0
    /\ UNCHANGED <<minKey, maxKey, limit, visited>>

\* Iter::next, when there is an item left.
take ==
    /\ taken < len
    /\ taken' = taken + 1
    /\ visited' = visited \cup {buffer[taken']}
    /\ UNCHANGED <<minKey, maxKey, limit, buffer, len>>

\* Slip: prev_offset stays zero.
LastSeen_first == IF buffer = <<>> THEN Key ELSE {buffer[1]}

\* The header at prev_offset: of the last item taken, or the first one in the
\* buffer, whichever query wrote it.  It is uninitialised before the first item.
LastSeen ==
    IF buffer = <<>> THEN Key
    ELSE IF taken = 0 THEN {buffer[1]}
    ELSE {buffer[taken]}

\* Drop for Iter: the next minimum is what the on_drop function of the query
\* makes of the key seen last.
drop(minima) ==
    /\ minKey' \in minima
    /\ UNCHANGED <<maxKey, limit, buffer, len, taken, visited>>

-----------------------------------------------------------------------------
(* Other processes.  A subvolume has one back reference; one that others are *)
(* in is not deleted, and is not moved below itself.                         *)

Parent(c) == {k[3] : k \in {j \in tree : j[1] = c /\ j[2] = Backref}}
Childless(c) == \A k \in tree : k[2] = Backref => k[3] # c

\* c and the subvolumes above it.
Above(c) ==
    LET Up[n \in Nat] == IF n = 0 THEN {c} ELSE Up[n - 1] \cup UNION {Parent(d) : d \in Up[n - 1]}
    IN  Up[MaxObjectid]

Changed(removed, inserted) ==
    /\ changes < MaxChanges /\ changes' = changes + 1
    /\ tree' = (tree \ removed) \cup inserted
    /\ stable' = stable \ removed

Inserted ==
    \E k \in Pool \ tree :
        /\ k[2] = Backref => Parent(k[1]) = {}
        /\ Changed({}, {k})

Removed ==
    \E k \in tree :
        /\ k[2] = Backref => Childless(k[1])
        /\ Changed({k}, {})

\* A subvolume moves to another parent.
Moved ==
    \E j \in tree, k \in Pool \ tree :
        /\ j[1] = k[1] /\ j[2] = Backref /\ k[2] = Backref
        /\ k[1] \notin Above(k[3])
        /\ Changed({j}, {k})

OtherProcess == Inserted \/ Removed \/ Moved
=============================================================================

---------------------------- MODULE SearchBuffer ----------------------------
(***************************************************************************)
(* tree_search/mod.rs to the byte: the kernel writes items into a buffer,  *)
(* each behind a header that says how long it is; Iter finds the next one  *)
(* by adding up lengths; views read fields through pointers into the       *)
(* buffer.  The buffer of TreeSearch has a fixed size and is never written *)
(* before the first query, that of BoxedTreeSearch is allocated.           *)
(***************************************************************************)
EXTENDS TreeItems, FiniteSetsExt

CONSTANTS
    Searches,     \* what is searched: records of the client, the items of the
                  \* tree, the bounds, the limit and the size of the buffer,
                  \* 0 for TreeSearch
    MaxObjectid,  \* u64::MAX, scaled down
    MaxOffset,    \* u64::MAX, scaled down
    MaxItems,     \* u32::MAX, scaled down: items asked for at most
    Garbage       \* keys that uninitialised memory may look like

MaxType == 255

Keys == (0 .. MaxObjectid) \X (0 .. MaxType) \X (0 .. MaxOffset)

\* An item: its key, its length, how much of the structure of its type it has,
\* and the length of its name, which is behind the whole of the structure.
ASSUME SearchesAssumption ==
    /\ MaxObjectid \in Nat /\ MaxOffset \in Nat
    /\ MaxItems \in Nat \ {0} /\ Searches # {}
    /\ Garbage # {} /\ Garbage \subseteq Keys
    /\ \A s \in Searches :
        /\ s.limit \in 1 .. MaxItems /\ s.buf_size \in Nat
        /\ \A i \in s.items :
            /\ i.key \in Keys /\ i.len \in Nat /\ i.has \in 0 .. i.len /\ i.name_len \in Nat
            /\ get(i.key[2]) # {}
            /\ \A v \in get(i.key[2]) :
                v.named => i.has = SizeOf(v.struct) /\ i.has + i.name_len <= i.len
        /\ \A i, j \in s.items : i.key = j.key => i = j

VARIABLES
    asked,        \* the one of Searches
    min_key, nr_items,         \* of the search key; the rest of it stays
    buf_size,     \* of btrfs_ioctl_search_args_v2
    placed,       \* the items the kernel last wrote, at their offsets
    found,        \* how many, in the last query
    index, curr_offset, prev_offset,   \* Iter
    handed,       \* the items taken from it, as pointers (offsets)
    visited,      \* history: the keys of the items taken so far
    at            \* query, items, overflow, dropped, recursing (on_drop does
                  \* not return), or what a client adds

searchVars ==
    <<asked, min_key, nr_items, buf_size, placed, found, index, curr_offset, prev_offset,
      handed, visited, at>>

boxed == asked.buf_size > 0

header == SizeOf(btrfs_ioctl_search_header)

\* The same search with keys for items.
Abstract == INSTANCE TreeSearch WITH
    Capacity <- MaxItems, Backref <- 144, Pool <- {}, MaxChanges <- 0,
    tree <- {i.key : i \in asked.items}, stable <- {i.key : i \in asked.items}, changes <- 0,
    minKey <- min_key, maxKey <- asked.max, limit <- nr_items,
    buffer <- [n \in DOMAIN placed |-> placed[n].key],
    len <- found, taken <- Len(handed)

SearchInit ==
    /\ asked \in Searches
    /\ min_key = asked.min /\ nr_items = asked.limit /\ buf_size = asked.buf_size
    /\ placed = <<>> /\ found = 0
    /\ index = 0 /\ curr_offset = 0 /\ prev_offset = 0
    /\ handed = <<>> /\ visited = {}
    /\ at = IF asked.client = "walk" THEN "query" ELSE "loop"

-----------------------------------------------------------------------------
(* External: BTRFS_IOC_TREE_SEARCH and BTRFS_IOC_TREE_SEARCH_V2.  *)

Room == IF boxed THEN buf_size ELSE buf_bytes

\* The items of the range, in order.
Wanted ==
    LET keys == Abstract!InOrder({k \in {i.key : i \in asked.items} : Abstract!InRange(k, min_key, asked.max)})
    IN  [n \in DOMAIN keys |-> CHOOSE i \in asked.items : i.key = keys[n]]

\* The bytes of the first n of them.
Filled(items, n) == Sums([i \in DOMAIN items |-> header + items[i].len])[n]

Fitting(items) ==
    Max({n \in 0 .. Len(items) : n <= nr_items /\ Filled(items, n) <= Room})

\* The first n of them in the buffer.
Place(items, n) ==
    [m \in 1 .. n |->
        [offset |-> Filled(items, m - 1), key |-> items[m].key, len |-> items[m].len,
         has |-> items[m].has, name_len |-> items[m].name_len]]

\* As many as fit.  When the first one does not, the fixed buffer is given its
\* header, with no length; V2 fails, and says in buf_size what it needs.
Copied ==
    IF Wanted # <<>> /\ Fitting(Wanted) = 0
    THEN <<[offset |-> 0, key |-> Wanted[1].key, len |-> 0, has |-> 0, name_len |-> 0]>>
    ELSE Place(Wanted, Fitting(Wanted))

Overflows == boxed /\ Wanted # <<>> /\ Fitting(Wanted) = 0

-----------------------------------------------------------------------------
\* Slip: the kernel's count stays in the key.
nr_items_after_count(count) == count

\* The limit of the caller, which the kernel has overwritten with its count.
nr_items_after(count) == nr_items

\* Nothing is written when nothing is found.
Query ==
    /\ at \in {"query", "overflow"} /\ ~ Overflows
    /\ found' = Len(Copied)
    /\ placed' = IF Copied = <<>> THEN placed ELSE Copied
    /\ nr_items' = nr_items_after(Len(Copied))
    /\ index' = Len(Copied) /\ curr_offset' = 0 /\ prev_offset' = 0 /\ handed' = <<>>
    /\ at' = "items"
    /\ UNCHANGED <<asked, min_key, buf_size, visited>>

\* EOVERFLOW.  A query after this one is told of more room than there is: where
\* the library would write behind its memory, the model goes on with a buffer of
\* that size.
QueryFails ==
    /\ at \in {"query", "overflow"} /\ Overflows
    /\ buf_size' = header + Wanted[1].len
    /\ at' = "overflow"
    /\ UNCHANGED <<asked, min_key, nr_items, placed, found, index, curr_offset, prev_offset,
                   handed, visited>>

\* What there is at an offset where a header should be.
HeadersAt(offset) ==
    LET there == {i \in Range(placed) : i.offset = offset}
    IN  IF there # {} THEN there
        ELSE {[offset |-> offset, key |-> k, len |-> 0, has |-> 0, name_len |-> 0] : k \in Garbage}

\* Slip: the header is not counted.
total_len_data(item) == item.len

total_len(item) == header + item.len

\* Iter::next, when there is an item left.
Take ==
    /\ at = "items" /\ index > 0
    /\ index' = index - 1
    /\ handed' = Append(handed, curr_offset)
    /\ prev_offset' = curr_offset
    /\ \E item \in HeadersAt(curr_offset) :
        /\ curr_offset' = curr_offset + total_len(item)
        /\ visited' = visited \cup {item.key}
    /\ UNCHANGED <<asked, min_key, nr_items, buf_size, placed, found, at>>

\* Drop for Iter: what on_drop makes of the key of the header at prev_offset, taken
\* or not, is for whose query it is.
DropIter(next) ==
    /\ at' = next
    /\ UNCHANGED <<asked, nr_items, buf_size, placed, found, index, curr_offset, prev_offset,
                   handed, visited>>

\* A walk takes some of the items, and asks again or not.  Its on_drop is
\* next_offset, which may not return.
WalkOn ==
    /\ at = "items"
    /\ \E item \in HeadersAt(prev_offset) :
        \/ /\ Abstract!OffsetReturns(item.key)
           /\ min_key' = Abstract!next_offset(item.key)
           /\ DropIter("query")
        \/ /\ ~ Abstract!OffsetReturns(item.key)
           /\ DropIter("recursing") /\ UNCHANGED min_key

\* Drop for BoxedTreeSearch, or the end of TreeSearch.
DropSearch ==
    /\ at \in {"query", "overflow"}
    /\ at' = "dropped"
    /\ UNCHANGED <<asked, min_key, nr_items, buf_size, placed, found, index, curr_offset,
                   prev_offset, handed, visited>>

-----------------------------------------------------------------------------
\* What is stored under a key type.
Stored(type) ==
    IF type = ExtentInlineRef.key THEN btrfs_extent_item \o btrfs_extent_inline_ref
    ELSE (CHOOSE v \in get(type) : TRUE).struct

\* Where the field is that an accessor is for.
Field == [v \in Views |-> [g \in {h \in v.get : <<v.key, h[1]>> \notin Misreads} |->
                              Extent(Stored(v.key), Meant(g[1]))]]

\* get: the pointer is moved behind the header.
Body(pointer) == pointer + header

\* Whatever an item is read through, an accessor returns the field it is named
\* after, of this item, and the name is the name, when the item is long enough
\* to have them: not in root items of old kernels, inline extents and items cut
\* to nothing, of which the accessors read what comes next.
ReadsAreRight ==
    \A p \in Range(handed) : \E i \in HeadersAt(p) : i \in Range(placed) /\ \A v \in get(i.key[2]) :
        /\ \A g \in DOMAIN Field[v] :
            Field[v][g].from + Field[v][g].size <= i.has =>
                /\ Body(p) + ReadBy[v][g].from = i.offset + header + Field[v][g].from
                /\ ReadBy[v][g].size = Field[v][g].size
        /\ v.named /\ i.has > 0 =>
            LET name == NameOf(v, i.name_len)
            IN  Body(p) + name.from = i.offset + header + i.has /\ name.from + name.size <= i.len

\* It is the search of TreeSearch: the items of a query come one after the
\* other, whatever their sizes are, and the next query starts behind the last
\* one taken.
ImplementsSearch ==
    [][Abstract!query \/ Abstract!take
       \/ Abstract!drop({Abstract!next_offset(k) :
                             k \in {j \in Abstract!LastSeen : Abstract!OffsetReturns(j)}})]_(Abstract!searchVars)
=============================================================================

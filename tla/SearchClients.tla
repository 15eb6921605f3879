--------------------------- MODULE SearchClients ---------------------------
(***************************************************************************)
(* What the library and its documentation do with a tree search: walk over *)
(* all items of a range (the example of tree_search, and the utility       *)
(* functions for on_drop), subvol::get_default and subvol::get_path.       *)
(***************************************************************************)
EXTENDS TreeSearch

CONSTANTS
    Searches,   \* what is asked: records of the client, the tree at first,
                \* the bounds of the range and the item limit
    FsTree,     \* TreeId::FsTree, the subvolume at the root
    RootRef,    \* RootRef::KEY: the subvolumes in a subvolume
    Default,    \* the key of the directory item of the default subvolume
    PathLength, \* of a subvolume in its parent: bytes of its directory and name
    BufferSize  \* 128, scaled down

Walkers == {"next_offset", "next_type", "next_objectid"}

ASSUME ClientsAssumption ==
    /\ \A s \in Searches :
        /\ s.client \in Walkers \cup {"get_default", "get_path"}
        /\ s.tree \subseteq Item
        /\ s.min \in Key /\ s.max \in Key
        /\ s.limit \in Nat \ {0}
    /\ RootRef \in 0 .. (MaxType - 1)
    /\ Default \in Item
    /\ PathLength \in [0 .. MaxObjectid -> Nat \ {0}] /\ BufferSize \in Nat \ {0}

\* get_default looks through directory items, whose offsets are hashes of 32
\* bits: the largest offset does not occur.
ASSUME HashesAssumption ==
    \A s \in Searches : s.client = "get_default" =>
        /\ InRange(Default, s.min, s.max)
        /\ \A k \in s.tree \cup Pool : InRange(k, s.min, s.max) => k[3] < MaxOffset

\* get_path asks for the back references up to that of a subvolume, one at a
\* time; a subvolume has one.
ASSUME PathsAssumption ==
    \A s \in Searches : s.client = "get_path" =>
        /\ \E v \in 0 .. MaxObjectid : s.min = <<v, Backref, 0>> /\ s.max = <<v, Backref, MaxOffset>>
        /\ s.limit = 1
        /\ \A j, k \in s.tree : j[1] = k[1] /\ j[2] = Backref /\ k[2] = Backref => j = k

VARIABLES
    search,    \* the one of Searches
    pc,        \* query, items, or how it ended: done, found, NotFound, error;
               \* recursing when on_drop does not return
    passed,    \* history: the first items of batches none of which was taken
    buf, pos   \* of get_path: bytes, and where the path begins that is behind pos

pathVars == <<buf, pos>>
vars == <<treeVars, searchVars, search, pc, passed, pathVars>>

client == search.client

Init ==
    /\ search \in Searches
    /\ tree = search.tree /\ stable = tree /\ changes = 0
    /\ minKey = search.min /\ maxKey = search.max /\ limit = search.limit
    /\ buffer = <<>> /\ len = 0 /\ taken = 0 /\ visited = {}
    /\ pc = "query" /\ passed = {}
    /\ buf = [n \in 1 .. BufferSize |-> <<"uninit">>] /\ pos = BufferSize

Query ==
    /\ pc = "query"
    /\ query
    /\ pc' = "items"
    /\ UNCHANGED <<treeVars, search, passed, pathVars>>

-----------------------------------------------------------------------------
\* A walk takes items, all of them or not, and queries again until there are
\* none.
OnDrop(k) ==
    CASE client = "next_objectid" -> next_objectid(k)
      [] client = "next_type"     -> next_type(k)
      [] OTHER                    -> next_offset(k)

OnDropReturns(k) ==
    CASE client = "next_objectid" -> TRUE
      [] client = "next_type"     -> TypeReturns(k)
      [] OTHER                    -> OffsetReturns(k)

WalkTake ==
    /\ client \in Walkers /\ pc = "items"
    /\ take
    /\ UNCHANGED <<treeVars, search, pc, passed, pathVars>>

WalkOn ==
    /\ client \in Walkers /\ pc = "items"
    /\ \/ /\ drop({OnDrop(k) : k \in {j \in LastSeen : OnDropReturns(j)}})
          /\ pc' = IF len = 0 THEN "done" ELSE "query"
          /\ passed' = IF taken = 0 /\ len > 0 THEN passed \cup {buffer[1]} ELSE passed
       \/ /\ \E k \in LastSeen : ~ OnDropReturns(k)
          /\ pc' = "recursing"
          /\ UNCHANGED <<searchVars, passed>>
    /\ UNCHANGED <<treeVars, search, pathVars>>

-----------------------------------------------------------------------------
\* Slip: as in the example, one objectid after the other.
get_default_on_objectid(k) == <<k[1] + 1, 0, 0>>

\* |k| (k.0, k.1, k.2 + 1), see HashesAssumption.
get_default_on(k) == <<k[1], k[2], (k[3] + 1) % (MaxOffset + 1)>>

\* find: items are taken up to the one named "default".
DefaultTake ==
    /\ client = "get_default" /\ pc = "items"
    /\ take
    /\ pc' = IF buffer[taken'] = Default THEN "found" ELSE pc
    /\ UNCHANGED <<treeVars, search, passed, pathVars>>

DefaultOn ==
    /\ client = "get_default" /\ pc = "items" /\ taken = len
    /\ pc' = IF len = 0 THEN "NotFound" ELSE "query"
    /\ drop({get_default_on(k) : k \in LastSeen})
    /\ UNCHANGED <<treeVars, search, passed, pathVars>>

-----------------------------------------------------------------------------
\* What Lookup and the back reference say: the way from the parent to v.
Bytes(v) == [n \in 1 .. PathLength[v] |-> <<v, n>>]

Slash == <<"/">>

\* Slip: no room for the separator.
Needed_bare(v, rootvol) == PathLength[v]

\* total_len + !rootvol
Needed(v, rootvol) == IF rootvol THEN PathLength[v] ELSE PathLength[v] + 1

\* The buffer is doubled until that much is free in front of the path: what is
\* behind pos is repeated at the new end, and pos is moved there.
Doubled(d) == [bytes |-> d.bytes \o d.bytes, pos |-> d.pos + Len(d.bytes)]

Turns(needed) ==
    LET after[n \in 0 .. needed] ==
            IF n = 0 THEN [bytes |-> buf, pos |-> pos] ELSE Doubled(after[n - 1])
    IN  after

Extended(needed) ==
    Turns(needed)[CHOOSE n \in 0 .. needed :
        Turns(needed)[n].pos >= needed /\ \A m \in 0 .. (n - 1) : Turns(needed)[m].pos < needed]

\* Bytes copied into b behind position p.
Copied(b, p, bytes) == [i \in DOMAIN b |-> IF i - p \in DOMAIN bytes THEN bytes[i - p] ELSE b[i]]

\* What is behind pos is drained of what is before it and returned; else there
\* is a separator in front, for the name of the parent.
Prepend(v, rootvol) ==
    LET d     == Extended(Needed(v, rootvol))
        start == d.pos - PathLength[v]
        b     == Copied(d.bytes, start, Bytes(v))
    IN  IF rootvol
        THEN buf' = SubSeq(b, start + 1, Len(b)) /\ pos' = 0
        ELSE buf' = Copied(b, start - 1, <<Slash>>) /\ pos' = start - 1

\* |(.., off)| (off, RootBackref::KEY, 0)
get_path_on(k) == <<k[3], Backref, 0>>

\* The first item is the back reference, of whatever key: its parent is in the
\* offset.  The lookup in the parent fails when the subvolume has left it
\* meanwhile.
PathOn ==
    /\ client = "get_path" /\ pc = "items" /\ len > 0
    /\ taken' = 1 /\ visited' = visited \cup {buffer[1]}
    /\ minKey' = get_path_on(buffer[1])
    /\ LET rootvol == buffer[1][3] = FsTree IN
        \/ /\ Prepend(buffer[1][1], rootvol)
           /\ pc' = IF rootvol THEN "found" ELSE "query"
        \/ /\ buffer[1] \notin tree
           /\ pc' = "error" /\ UNCHANGED pathVars
    /\ UNCHANGED <<treeVars, maxKey, limit, buffer, len, search, passed>>

PathNotFound ==
    /\ client = "get_path" /\ pc = "items" /\ len = 0
    /\ pc' = "NotFound"
    /\ drop({get_path_on(k) : k \in LastSeen})
    /\ UNCHANGED <<treeVars, search, passed, pathVars>>

-----------------------------------------------------------------------------
Client == Query \/ WalkTake \/ WalkOn \/ DefaultTake \/ DefaultOn \/ PathOn \/ PathNotFound

Ended == pc \notin {"query", "items", "recursing"}

Other == OtherProcess /\ ~ Ended /\ UNCHANGED <<searchVars, search, pc, passed, pathVars>>

Next == Client \/ Other

Spec == Init /\ [][Next]_vars /\ WF_vars(Client)

-----------------------------------------------------------------------------
TypeOK ==
    /\ tree \subseteq Item /\ stable \subseteq tree /\ changes \in 0 .. MaxChanges
    /\ minKey \in Key /\ maxKey \in Key /\ limit \in Nat \ {0}
    /\ Range(buffer) \subseteq Item /\ visited \subseteq Item
    /\ len \in 0 .. Capacity /\ len <= limit /\ taken \in 0 .. len
    /\ len > 0 => Len(buffer) = len
    /\ search \in Searches /\ passed \subseteq Item
    /\ pos \in 0 .. Len(buf)
    /\ pc \in {"query", "items", "done", "found", "NotFound", "error", "recursing"}

\* The items in the range of the search that nobody touched.
Wanted == {k \in stable : InRange(k, search.min, maxKey)}

\* What on_drop does not tell apart.
Group(k) ==
    CASE client = "next_objectid" -> <<k[1]>>
      [] client = "next_type"     -> <<k[1], k[2]>>
      [] OTHER                    -> k

\* A walk passes no item by, wherever it stops taking items: when the key has
\* moved past one, it or another of its type (its objectid) was taken, and so
\* were all at the end; but the first of a batch is lost when none was taken.
NothingSkipped ==
    client \in Walkers =>
        \A k \in Wanted :
            pc = "done" \/ (pc = "query" /\ Below(k, minKey)) =>
                \E v \in visited \cup passed : Group(v) = Group(k)

\* Items come in the order of their keys, none of them twice.
Ascending ==
    [][client # "get_path" /\ taken' = taken + 1 =>
         \A k \in visited : Below(k, buffer[taken'])]_vars

\* get_default fails with NotFound only when the item was not there all the
\* time.
DefaultFound ==
    client = "get_default" /\ pc = "NotFound" => Default \notin stable

\* The way from the root down to v: each is in the one before it, which nobody
\* has changed.
Ways(v) ==
    {way \in SeqOf(0 .. MaxObjectid, MaxObjectid) :
        /\ way # <<>> /\ Last(way) = v
        /\ \A n \in DOMAIN way :
            /\ way[n] # FsTree
            /\ <<way[n], Backref, IF n = 1 THEN FsTree ELSE way[n - 1]>> \in stable}

\* The names of the last n of these, for each n, with separators between them.
Lowest(way) ==
    LET joined[n \in 0 .. Len(way)] ==
            IF n = 0 THEN <<>>
            ELSE Bytes(way[Len(way) + 1 - n]) \o IF n = 1 THEN <<>> ELSE <<Slash>> \o joined[n - 1]
    IN  joined

\* get_path, when nobody moves the subvolume or those above it: the path is
\* theirs, byte by byte, and it is found unless one above has a larger id, which
\* the range of the search leaves out.
PathIsRight ==
    LET v == search.min[1] IN
        client = "get_path" /\ Ended => \A way \in Ways(v) :
            \/ pc = "found" /\ buf = Lowest(way)[Len(way)]
            \/ pc = "NotFound" /\ \E n \in DOMAIN way : way[n] > v

\* Nothing has been found since the search was built, and the uninitialised
\* buffer, which Drop reads a header from all the same, looks like a key of the
\* largest type: next_type never returns.
LostInUnwritten ==
    /\ pc = "recursing" /\ client \in {"next_offset", "next_type"}
    /\ buffer = <<>> /\ visited = {} /\ minKey = search.min

\* Every search ends, but for that: once an item was found, the key moves on
\* until there are none.
SearchEnds == <>(Ended \/ LostInUnwritten)

=============================================================================

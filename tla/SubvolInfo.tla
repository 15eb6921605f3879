----------------------------- MODULE SubvolInfo -----------------------------
(***************************************************************************)
(* subvol::get_info_by_id (subvol/info.rs): fills the structure of         *)
(* BTRFS_IOC_GET_SUBVOL_INFO from the root item of a subvolume and the     *)
(* back reference to its parent, found by a tree search.  The structure is *)
(* not initialised before.                                                 *)
(***************************************************************************)
EXTENDS SearchBuffer

VARIABLES
    got_root_item, got_root_ref,
    info   \* for each field, whose it is: <<objectid, key type, field>>; or
           \* <<"beyond">> when it was read from behind the item, <<"uninit">>, <<"zero">>

infoVars == <<got_root_item, got_root_ref, info>>

\* The id of the top level, which has no back reference.
FsTree == 5

treeid == asked.treeid

-----------------------------------------------------------------------------
\* Slip: an end alone leaves the lower bound as it was.
set_key_by_range_end(key, start, end) ==
    [min |-> IF start = <<>> THEN key.min ELSE start[1],
     max |-> IF end = <<>> THEN key.max ELSE end[1]]

\* SearchKeyBuilder: a range for one part of the key, start and end are <<bound,
\* kind>> or <<>>.  An inclusive end without a start is both bounds.
set_key_by_range(key, start, end) ==
    IF start = <<>> /\ end # <<>> /\ end[2] = "included"
    THEN [min |-> end[1], max |-> end[1]]
    ELSE [min |-> IF start = <<>> THEN key.min ELSE start[1],
          max |-> IF end = <<>> THEN key.max ELSE end[1]]

\* The bounds of the search: .objectid(..=treeid), .item_type(ROOT_ITEM..last).
InfoBounds(id) ==
    LET objectid == set_key_by_range([min |-> 0, max |-> MaxObjectid], <<>>, <<id, "included">>)
        last     == IF id = FsTree THEN 132 ELSE 144
        type     == set_key_by_range([min |-> 0, max |-> MaxType],
                                     <<132, "included">>, <<last, "excluded">>)
    IN  [min |-> <<objectid.min, type.min, 0>>, max |-> <<objectid.max, type.max, MaxOffset>>]

\* The items of a subvolume that are looked at.
InfoItems(s) == {i \in s.items : i.key[1] = s.treeid /\ i.key[2] \in 132 .. 144}

\* The search of get_info_by_id, and what the kernel keeps of a subvolume: one
\* root item, and with it at most one back reference, for a subvolume has one
\* parent; the two are far smaller than the buffer.
ASSUME InfosAssumption ==
    \A s \in Searches : s.client = "get_info_by_id" =>
        /\ s.treeid \in 0 .. MaxObjectid
        /\ s.min = InfoBounds(s.treeid).min /\ s.max = InfoBounds(s.treeid).max
        /\ s.buf_size = 0 /\ s.limit >= 2
        /\ \A i \in InfoItems(s) :
            /\ i.key[2] \in {132, 144}
            /\ \E root \in InfoItems(s) : root.key[2] = 132
            /\ \A j \in InfoItems(s) :
                /\ i.key[2] = j.key[2] => i = j
                /\ header + i.len + header + j.len <= buf_bytes

InfoInit ==
    /\ got_root_item = FALSE
    /\ got_root_ref = (treeid = FsTree)
    /\ info = [f \in {g[1][1] : g \in Range(btrfs_ioctl_get_subvol_info_args)} |-> <<"uninit">>]

\* The fields of the structure that are also fields of a root item.
InRootItem ==
    {"generation", "flags", "uuid", "parent_uuid", "received_uuid", "ctransid", "otransid",
     "stransid", "rtransid", "ctime", "otime", "stime", "rtime"}

\* A field of the item, when it is long enough.
Source(item, field) ==
    LET e == Extent(btrfs_root_item, <<field>>)
    IN  IF e.from + e.size <= item.len THEN <<item.key[1], item.key[2], field>> ELSE <<"beyond">>

subvol_info_args_from_root_item(item) == [f \in InRootItem |-> Source(item, f)]

\* The name and dirid of a back reference; the parent is the offset of its key.
from_root_ref(item) ==
    LET by(field) == <<item.key[1], item.key[2], field>>
    IN  [name |-> by("name"), dirid |-> by("dirid"), parent_id |-> by("key offset")]

\* The structure with these fields written.
Overwritten(fields) == [f \in DOMAIN info |-> IF f \in DOMAIN fields THEN fields[f] ELSE info[f]]

\* The loop goes on as long as neither was found.
Wanting == ~ got_root_item /\ ~ got_root_ref

InfoLoop ==
    /\ at = "loop"
    /\ IF Wanting
       THEN at' = "query" /\ UNCHANGED info
       ELSE /\ at' = "Ok"
            /\ info' = [info EXCEPT !.treeid = <<treeid, 132, "key objectid">>, !.reserved = <<"zero">>]
    /\ UNCHANGED <<asked, min_key, nr_items, buf_size, placed, found, index, curr_offset,
                   prev_offset, handed, visited, got_root_item, got_root_ref>>

InfoQuery == Query /\ UNCHANGED infoVars

\* Other types in between are passed over.
InfoTake ==
    /\ Take
    /\ \E item \in HeadersAt(curr_offset) :
        /\ got_root_item' = (got_root_item \/ item.key[2] = 132)
        /\ got_root_ref' = (got_root_ref \/ item.key[2] = 144)
        /\ info' = CASE item.key[2] = 132 -> Overwritten(subvol_info_args_from_root_item(item))
                     [] item.key[2] = 144 -> Overwritten(from_root_ref(item))
                     [] OTHER             -> info

\* The iterator is dropped, |_| None: the key stays.
InfoOn ==
    /\ at = "items" /\ index = 0
    /\ DropIter(IF found = 0 THEN "NotFound" ELSE "loop")
    /\ UNCHANGED <<min_key, infoVars>>

get_info_by_id == asked.client = "get_info_by_id" /\ (InfoLoop \/ InfoQuery \/ InfoTake \/ InfoOn)

-----------------------------------------------------------------------------
\* What a field is to be.
Promised(field) ==
    CASE field \in {"name", "dirid"} -> <<treeid, 144, field>>
      [] field = "parent_id"         -> <<treeid, 144, "key offset">>
      [] field = "treeid"            -> <<treeid, 132, "key objectid">>
      [] field = "reserved"          -> <<"zero">>
      [] OTHER                       -> <<treeid, 132, field>>

\* get_info_by_id returns each field of this subvolume, none of another, when
\* there is a root item and a back reference.  Otherwise fields are returned as
\* they were, uninitialised: all of them for the top level, which is never
\* searched for; the parent and the name of a subvolume without a back reference
\* (a deleted one that is being cleaned).  Root items of old kernels end before
\* the uuid.
InfoIsComplete ==
    at = "Ok" => \A f \in DOMAIN info :
        \/ info[f] = Promised(f)
        \/ info[f] = <<"uninit">> /\ treeid = FsTree
        \/ info[f] = <<"uninit">> /\ f \in {"name", "dirid", "parent_id"}
           /\ ~ \E i \in asked.items : i.key[1] = treeid /\ i.key[2] = 144
        \/ info[f] = <<"beyond">>
           /\ \E i \in asked.items : i.key[1] = treeid /\ i.key[2] = 132 /\ i.len < SizeOf(btrfs_root_item)
=============================================================================

----------------------------- MODULE TreeItems -----------------------------
(***************************************************************************)
(* tree_search/tree_item.rs: an item of a search is read through a view of *)
(* its type, a pointer to a structure behind the header of the item.  A    *)
(* view has accessors; each reads one field, from_le of its bytes, or is   *)
(* itself a view of a part.                                                *)
(*                                                                         *)
(* A view is [key, struct, get, named]: the key type of its items, the     *)
(* structure, <<accessor, field>> for each accessor and the field that it  *)
(* reads, and whether the item has a name.  Accessors and fields are       *)
(* paths.                                                                  *)
(***************************************************************************)
EXTENDS Layout, FiniteSets

\* Accessors that are called like the fields they read.
Own(names) == {<<<<n>>, <<n>>>> : n \in names}

Reads(accessor, field) == {<<<<accessor>>, <<field>>>>}

\* An accessor that returns a view of the part at a field.
Part(accessor, field, get) == {<<<<accessor>> \o g[1], <<field>> \o g[2]>> : g \in get}

View(key, struct, get)  == [key |-> key, struct |-> struct, get |-> get, named |-> FALSE]
Named(key, struct, get) == [key |-> key, struct |-> struct, get |-> get, named |-> TRUE]

\* A view without accessors, of an item whose key says it all.
Bare(key) == View(key, <<>>, {})

-----------------------------------------------------------------------------
(* Parts of items.  *)

Timespec == Own({"sec", "nsec"})

DiskKey == Own({"objectid", "offset", "type_"})

Stripe == Own({"devid", "offset", "dev_uuid"})

\* Which of usage and usage_range, of limit and limit_range is meant the flags
\* tell; a debug build checks that the caller looked.
DiskBalanceArgs ==
    Own({"profiles", "devid", "pstart", "vstart", "vend", "target", "flags",
         "stripes_min", "stripes_max"})
    \cup Reads("limit", "inner2") \cup Reads("limit_range", "inner2")
    \cup Reads("usage", "inner1") \cup Reads("usage_range", "inner1")

-----------------------------------------------------------------------------
(* Items.  *)

\* Slip: two of the times change places.
InodeItem_times ==
    View(1, btrfs_inode_item,
        Own({"generation", "transid", "size", "nbytes", "block_group", "nlink", "uid", "gid",
             "mode", "rdev", "flags", "sequence"})
        \cup Part("atime", "ctime", Timespec) \cup Part("ctime", "atime", Timespec)
        \cup Part("mtime", "mtime", Timespec) \cup Part("otime", "otime", Timespec))

InodeItem ==
    View(1, btrfs_inode_item,
        Own({"generation", "transid", "size", "nbytes", "block_group", "nlink", "uid", "gid",
             "mode", "rdev", "flags", "sequence"})
        \cup Part("atime", "atime", Timespec) \cup Part("ctime", "ctime", Timespec)
        \cup Part("mtime", "mtime", Timespec) \cup Part("otime", "otime", Timespec))

RootItem ==
    View(132, btrfs_root_item,
        Part("inode_item", "inode", InodeItem.get)
        \cup Own({"generation", "root_dirid", "bytenr", "byte_limit", "bytes_used",
                "last_snapshot", "flags", "refs", "drop_level", "generation_v2", "uuid",
                "parent_uuid", "received_uuid", "otransid", "ctransid", "stransid", "rtransid"})
        \cup Part("drop_progress", "drop_progress", DiskKey)
        \cup Part("ctime", "ctime", Timespec) \cup Part("otime", "otime", Timespec)
        \cup Part("stime", "stime", Timespec) \cup Part("rtime", "rtime", Timespec))

RootRefs == {Named(key, btrfs_root_ref, Own({"dirid", "sequence"})) : key \in {156, 144}}

\* sub_stripes reads the length of a stripe.
ChunkItem ==
    View(228, btrfs_chunk,
        Own({"length", "owner", "stripe_len", "type_", "io_align", "io_width", "sector_size",
             "num_stripes"})
        \cup Reads("sub_stripes", "stripe_len") \cup Part("stripts", "stripe", Stripe))

DevItem ==
    View(216, btrfs_dev_item,
        Own({"devid", "total_bytes", "bytes_used", "io_align", "io_width", "sector_size",
             "uuid", "fsid"}))

DevExtent ==
    View(204, btrfs_dev_extent,
        Own({"chunk_tree", "chunk_objectid", "chunk_offset", "length", "chunk_tree_uuid"}))

DevStatsItem == View(249, btrfs_dev_stats_item, Own({"values"}))

DevReplaceItem ==
    View(250, btrfs_dev_replace_item,
        Own({"src_devid", "cursor_left", "cursor_right", "cont_reading_from_srcdev_mode",
             "time_started", "time_stopped", "num_write_errors",
             "num_uncorrectable_read_errors"}))

BlockGroupItem == View(192, btrfs_block_group_item, Own({"used", "chunk_objectid", "flags"}))

FileExtentItem ==
    View(108, btrfs_file_extent_item,
        Own({"generation", "ram_bytes", "compression", "encryption", "other_encoding", "type_",
             "disk_bytenr", "disk_num_bytes", "offset", "num_bytes"}))

ExtentItem == View(168, btrfs_extent_item, Own({"refs", "generation", "flags"}))

\* Of METADATA_ITEM, which begins like an EXTENT_ITEM.
ExtentInlineRef == View(169, btrfs_extent_inline_ref, Own({"type_", "offset"}))

ExtentCsum == View(128, btrfs_csum_item, Own({"csum"}))

FreeSpaceInfo == View(198, btrfs_free_space_info, Own({"extent_count", "flags"}))

FreeSpaceExtent == Bare(199)

FreeSpaceBitmap == Bare(200)

FreeSpaceHeader ==
    View(0, btrfs_free_space_header,
        Part("location", "location", DiskKey)
        \cup Own({"generation", "num_entries", "num_bitmaps"}))

\* DirItem, DirIndex and XattrItem.
DirItems ==
    {Named(key, btrfs_dir_item,
        Own({"data_len", "transid"}) \cup Part("location", "location", DiskKey)) :
     key \in {84, 96, 24}}

\* data_len reads the index.
InodeRef == Named(12, btrfs_inode_ref, Reads("data_len", "index"))

InodeExtref ==
    Named(13, btrfs_inode_extref,
        Own({"parent_objectid", "index"}) \cup Reads("data_len", "index"))

QgroupStatus ==
    View(240, btrfs_qgroup_status_item, Own({"version", "generation", "flags", "rescan"}))

QgroupInfo ==
    View(242, btrfs_qgroup_info_item,
        Own({"generation", "rfer", "rfer_cmpr", "excl", "excl_cmpr"}))

QgroupLimit ==
    View(244, btrfs_qgroup_limit_item,
        Own({"flags", "max_rfer", "max_excl", "rsv_rfer", "rsv_excl"}))

QgroupRelation == Bare(246)

OrphanItem == Bare(48)

\* DirLogItem and DirLogIndex.
DirLogItems == {View(key, btrfs_dir_log_item, Own({"end"})) : key \in {60, 72}}

TemporaryItem ==
    View(248, btrfs_balance_item,
        Own({"flags"})
        \cup Part("data", "data", DiskBalanceArgs) \cup Part("meta", "meta", DiskBalanceArgs)
        \cup Part("sys", "sys", DiskBalanceArgs))

UuidItems == {Bare(251), Bare(252)}

Views ==
    {RootItem, InodeItem, ChunkItem, DevItem, DevExtent, DevStatsItem, DevReplaceItem,
     BlockGroupItem, FileExtentItem, ExtentItem, ExtentInlineRef, ExtentCsum, FreeSpaceInfo,
     FreeSpaceExtent, FreeSpaceBitmap, FreeSpaceHeader, InodeRef, InodeExtref, QgroupStatus,
     QgroupInfo, QgroupLimit, QgroupRelation, OrphanItem, TemporaryItem}
    \cup RootRefs \cup DirItems \cup DirLogItems \cup UuidItems

\* SearchItem::get: the views of an item of this type, from its key.
get(type) == {v \in Views : v.key = type}

\* TreeItemName: the name is behind the structure, name_len bytes.
NameOf(view, name_len) == [from |-> SizeOf(view.struct), size |-> name_len]

\* What an accessor reads of the item, counted from behind its header.
ReadBy == [v \in Views |-> [g \in v.get |-> Extent(v.struct, g[2])]]

-----------------------------------------------------------------------------
\* What the accessors are for, where they are not called like the field.
Meant(accessor) ==
    LET field == CASE Head(accessor) = "inode_item" -> "inode"
                   [] Head(accessor) = "stripts"    -> "stripe"
                   [] OTHER -> Head(accessor)
        last  == accessor[Len(accessor)]
    IN  IF last \in {"limit", "limit_range"} THEN [accessor EXCEPT ![Len(accessor)] = "inner2"]
        ELSE IF last \in {"usage", "usage_range"} THEN [accessor EXCEPT ![Len(accessor)] = "inner1"]
        ELSE <<field>> \o Tail(accessor)

\* The accessors that read another field than that.
Misreads ==
    {<<228, <<"sub_stripes">>>>, <<12, <<"data_len">>>>, <<13, <<"data_len">>>>,
     <<169, <<"type_">>>>, <<169, <<"offset">>>>}
=============================================================================

------------------------------- MODULE Layout -------------------------------
(***************************************************************************)
(* bindings: the structures in which the kernel stores the items of its    *)
(* trees, and those of the search ioctls.  A structure is the sequence of  *)
(* its fields <<path, bytes>>; they are packed (repr(C, packed)) or have   *)
(* no gaps anyway, so a field starts where the one before it ends.  Byte   *)
(* order is left out: every accessor converts.                             *)
(***************************************************************************)
EXTENDS Integers, Sequences, SequencesExt

Fields(names, bytes) == [i \in DOMAIN names |-> <<<<names[i]>>, bytes>>]

Le64(names)    == Fields(names, 8)
Le32(names)    == Fields(names, 4)
Le16(names)    == Fields(names, 2)
Byte(names)    == Fields(names, 1)
Uuid(names)    == Fields(names, 16)
Bytes(name, n) == Fields(<<name>>, n)

\* A structure inside another one.
In(field, struct) == [i \in DOMAIN struct |-> <<<<field>> \o struct[i][1], struct[i][2]>>]

\* What the first n of some lengths come to, for each n.
Sums(lens) ==
    LET sum[n \in 0 .. Len(lens)] == IF n = 0 THEN 0 ELSE sum[n - 1] + lens[n]
    IN  sum

SizeOf(struct) == Sums([i \in DOMAIN struct |-> struct[i][2]])[Len(struct)]

\* The bytes of a field, which may itself be a structure: from, up to.
Extent(struct, path) ==
    LET Has(i) == IsPrefix(path, struct[i][1])
        first  == CHOOSE i \in DOMAIN struct : Has(i) /\ \A j \in 1 .. (i - 1) : ~ Has(j)
        size(i) == struct[i][2]
    IN  [from |-> Sums([i \in DOMAIN struct |-> size(i)])[first - 1],
         size |-> Sums([i \in DOMAIN struct |-> IF Has(i) THEN size(i) ELSE 0])[Len(struct)]]

-----------------------------------------------------------------------------
(* Tree searches.  *)

btrfs_ioctl_search_key ==
    Le64(<<"tree_id", "min_objectid", "max_objectid", "min_offset", "max_offset",
           "min_transid", "max_transid">>)
    \o Le32(<<"min_type", "max_type", "nr_items", "unused">>)
    \o Le64(<<"unused1", "unused2", "unused3", "unused4">>)

btrfs_ioctl_search_header ==
    Le64(<<"transid", "objectid", "offset">>) \o Le32(<<"type_", "len">>)

\* The size of the fixed buffer.
buf_bytes == 3992

btrfs_ioctl_search_args == In("key", btrfs_ioctl_search_key) \o Bytes("buf", buf_bytes)

\* The buffer follows, with as many bytes as buf_size says.
btrfs_ioctl_search_args_v2 == In("key", btrfs_ioctl_search_key) \o Le64(<<"buf_size">>)

-----------------------------------------------------------------------------
(* What get_info_by_id fills.  *)

btrfs_ioctl_get_subvol_info_args ==
    Le64(<<"treeid">>) \o Bytes("name", 256)
    \o Le64(<<"parent_id", "dirid", "generation", "flags">>)
    \o Uuid(<<"uuid", "parent_uuid", "received_uuid">>)
    \o Le64(<<"ctransid", "otransid", "stransid", "rtransid">>)
    \o Bytes("ctime", 16) \o Bytes("otime", 16) \o Bytes("stime", 16) \o Bytes("rtime", 16)
    \o Bytes("reserved", 64)

-----------------------------------------------------------------------------
(* Parts of items.  *)

btrfs_timespec == Le64(<<"sec">>) \o Le32(<<"nsec">>)

btrfs_disk_key == Le64(<<"objectid">>) \o Byte(<<"type_">>) \o Le64(<<"offset">>)

btrfs_stripe == Le64(<<"devid", "offset">>) \o Uuid(<<"dev_uuid">>)

\* inner1 and inner2 are unions of a u64 and a pair of u32.
btrfs_disk_balance_args ==
    Le64(<<"profiles", "inner1", "devid", "pstart", "pend", "vstart", "vend", "target",
           "flags", "inner2">>)
    \o Le32(<<"stripes_min", "stripes_max">>) \o Bytes("unused", 48)

-----------------------------------------------------------------------------
(* Items.  *)

btrfs_inode_item ==
    Le64(<<"generation", "transid", "size", "nbytes", "block_group">>)
    \o Le32(<<"nlink", "uid", "gid", "mode">>)
    \o Le64(<<"rdev", "flags", "sequence">>) \o Bytes("reserved", 32)
    \o In("atime", btrfs_timespec) \o In("ctime", btrfs_timespec)
    \o In("mtime", btrfs_timespec) \o In("otime", btrfs_timespec)

btrfs_root_item ==
    In("inode", btrfs_inode_item)
    \o Le64(<<"generation", "root_dirid", "bytenr", "byte_limit", "bytes_used",
              "last_snapshot", "flags">>)
    \o Le32(<<"refs">>) \o In("drop_progress", btrfs_disk_key)
    \o Byte(<<"drop_level", "level">>)
    \o Le64(<<"generation_v2">>)
    \o Uuid(<<"uuid", "parent_uuid", "received_uuid">>)
    \o Le64(<<"ctransid", "otransid", "stransid", "rtransid">>)
    \o In("ctime", btrfs_timespec) \o In("otime", btrfs_timespec)
    \o In("stime", btrfs_timespec) \o In("rtime", btrfs_timespec)
    \o Bytes("reserved", 64)

btrfs_root_ref == Le64(<<"dirid", "sequence">>) \o Le16(<<"name_len">>)

btrfs_chunk ==
    Le64(<<"length", "owner", "stripe_len", "type_">>)
    \o Le32(<<"io_align", "io_width", "sector_size">>)
    \o Le16(<<"num_stripes", "sub_stripes">>) \o In("stripe", btrfs_stripe)

btrfs_dev_item ==
    Le64(<<"devid", "total_bytes", "bytes_used">>)
    \o Le32(<<"io_align", "io_width", "sector_size">>)
    \o Le64(<<"type_", "generation", "start_offset">>) \o Le32(<<"dev_group">>)
    \o Byte(<<"seek_speed", "bandwidth">>) \o Uuid(<<"uuid", "fsid">>)

btrfs_dev_extent ==
    Le64(<<"chunk_tree", "chunk_objectid", "chunk_offset", "length">>)
    \o Uuid(<<"chunk_tree_uuid">>)

btrfs_dev_stats_item == Bytes("values", 40)

btrfs_dev_replace_item ==
    Le64(<<"src_devid", "cursor_left", "cursor_right", "cont_reading_from_srcdev_mode",
           "replace_state", "time_started", "time_stopped", "num_write_errors",
           "num_uncorrectable_read_errors">>)

btrfs_block_group_item == Le64(<<"used", "chunk_objectid", "flags">>)

\* An inline extent ends behind the type; the data of the file follow.
btrfs_file_extent_item ==
    Le64(<<"generation", "ram_bytes">>) \o Byte(<<"compression", "encryption">>)
    \o Le16(<<"other_encoding">>) \o Byte(<<"type_">>)
    \o Le64(<<"disk_bytenr", "disk_num_bytes", "offset", "num_bytes">>)

btrfs_extent_item == Le64(<<"refs", "generation", "flags">>)

btrfs_extent_inline_ref == Byte(<<"type_">>) \o Le64(<<"offset">>)

btrfs_csum_item == Byte(<<"csum">>)

btrfs_free_space_info == Le32(<<"extent_count", "flags">>)

btrfs_free_space_header ==
    In("location", btrfs_disk_key) \o Le64(<<"generation", "num_entries", "num_bitmaps">>)

btrfs_dir_item ==
    In("location", btrfs_disk_key) \o Le64(<<"transid">>)
    \o Le16(<<"data_len", "name_len">>) \o Byte(<<"type_">>)

btrfs_inode_ref == Le64(<<"index">>) \o Le16(<<"name_len">>)

btrfs_inode_extref == Le64(<<"parent_objectid", "index">>) \o Le16(<<"name_len">>)

btrfs_qgroup_status_item == Le64(<<"version", "generation", "flags", "rescan", "enable_gen">>)

btrfs_qgroup_info_item == Le64(<<"generation", "rfer", "rfer_cmpr", "excl", "excl_cmpr">>)

btrfs_qgroup_limit_item == Le64(<<"flags", "max_rfer", "max_excl", "rsv_rfer", "rsv_excl">>)

btrfs_dir_log_item == Le64(<<"end">>)

btrfs_balance_item ==
    Le64(<<"flags">>) \o In("data", btrfs_disk_balance_args)
    \o In("meta", btrfs_disk_balance_args) \o In("sys", btrfs_disk_balance_args)
    \o Bytes("unused", 32)

-----------------------------------------------------------------------------
\* The sizes that the assertions of bindgen give.
ASSUME SizesAssumption ==
    /\ SizeOf(btrfs_ioctl_search_key) = 104    /\ SizeOf(btrfs_ioctl_search_header) = 32
    /\ SizeOf(btrfs_ioctl_search_args) = 4096  /\ SizeOf(btrfs_ioctl_search_args_v2) = 112
    /\ SizeOf(btrfs_ioctl_get_subvol_info_args) = 504
    /\ SizeOf(btrfs_timespec) = 12             /\ SizeOf(btrfs_disk_key) = 17
    /\ SizeOf(btrfs_stripe) = 32               /\ SizeOf(btrfs_disk_balance_args) = 136
    /\ SizeOf(btrfs_inode_item) = 160          /\ SizeOf(btrfs_root_item) = 439
    /\ SizeOf(btrfs_root_ref) = 18             /\ SizeOf(btrfs_chunk) = 80
    /\ SizeOf(btrfs_dev_item) = 98             /\ SizeOf(btrfs_dev_extent) = 48
    /\ SizeOf(btrfs_dev_stats_item) = 40       /\ SizeOf(btrfs_dev_replace_item) = 72
    /\ SizeOf(btrfs_block_group_item) = 24     /\ SizeOf(btrfs_file_extent_item) = 53
    /\ SizeOf(btrfs_extent_item) = 24          /\ SizeOf(btrfs_extent_inline_ref) = 9
    /\ SizeOf(btrfs_csum_item) = 1             /\ SizeOf(btrfs_free_space_info) = 8
    /\ SizeOf(btrfs_free_space_header) = 41    /\ SizeOf(btrfs_dir_item) = 30
    /\ SizeOf(btrfs_inode_ref) = 10            /\ SizeOf(btrfs_inode_extref) = 18
    /\ SizeOf(btrfs_qgroup_status_item) = 40   /\ SizeOf(btrfs_qgroup_info_item) = 40
    /\ SizeOf(btrfs_qgroup_limit_item) = 40    /\ SizeOf(btrfs_dir_log_item) = 8
    /\ SizeOf(btrfs_balance_item) = 448
=============================================================================

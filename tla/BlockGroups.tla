----------------------------- MODULE BlockGroups -----------------------------
(***************************************************************************)
(* fs/block_group.rs: what the flags of a space say, the type of its block *)
(* groups and their RAID profile.  Flags are a set of the names of bits.   *)
(***************************************************************************)
EXTENDS Integers, Sequences, FiniteSetsExt

BTRFS_BLOCK_GROUP_TYPE_MASK    == {"DATA", "SYSTEM", "METADATA", "METADATA_REMAP"}
BTRFS_BLOCK_GROUP_PROFILE_MASK ==
    {"RAID0", "RAID1", "DUP", "RAID10", "RAID5", "RAID6", "RAID1C3", "RAID1C4"}
BTRFS_BLOCK_GROUP_RESERVED     == {"SINGLE", "GLOBAL_RSV"}

BlockType(flags) ==
    LET value == flags \cap (BTRFS_BLOCK_GROUP_TYPE_MASK \cup {"GLOBAL_RSV"})
    IN  CASE value = {"DATA"}       -> "Data"
          [] value = {"SYSTEM"}     -> "System"
          [] value = {"METADATA"}   -> "Metadata"
          [] value = {"GLOBAL_RSV"} -> "GlobalReserve"
          [] OTHER                  -> "Unknown"

-----------------------------------------------------------------------------
\* Stripes, numbers of devices (most, least, lost at most, step) and copies.
RaidProfile(stripes, devs, copies, bg_flag, mindev_error) ==
    [sub_stripes |-> stripes[1], dev_stripes |-> stripes[2],
     devs_max |-> devs[1], devs_min |-> devs[2],
     tolerated_failures |-> devs[3], devs_increment |-> devs[4],
     ncopies |-> copies[1], nparity |-> copies[2],
     bg_flag |-> bg_flag, mindev_error |-> mindev_error]

BTRFS_RAID_RAID10  == RaidProfile(<<2, 1>>, <<0, 2, 1, 2>>, <<2, 0>>, {"RAID10"}, 2)
BTRFS_RAID_RAID1   == RaidProfile(<<1, 1>>, <<2, 2, 1, 2>>, <<2, 0>>, {"RAID1"}, 1)
BTRFS_RAID_DUP     == RaidProfile(<<1, 2>>, <<1, 1, 0, 1>>, <<2, 0>>, {"DUP"}, 0)
BTRFS_RAID_RAID0   == RaidProfile(<<1, 1>>, <<0, 1, 0, 1>>, <<1, 0>>, {"RAID0"}, 0)
BTRFS_RAID_SINGLE  == RaidProfile(<<1, 1>>, <<1, 1, 0, 1>>, <<1, 0>>, {}, 0)
BTRFS_RAID_RAID5   == RaidProfile(<<1, 1>>, <<0, 2, 1, 1>>, <<1, 1>>, {"RAID5"}, 3)
BTRFS_RAID_RAID6   == RaidProfile(<<1, 1>>, <<0, 3, 2, 1>>, <<1, 2>>, {"RAID6"}, 4)
BTRFS_RAID_RAID1C3 == RaidProfile(<<1, 1>>, <<3, 3, 2, 3>>, <<3, 0>>, {"RAID1C3"}, 9)
BTRFS_RAID_RAID1C4 == RaidProfile(<<1, 1>>, <<4, 4, 3, 4>>, <<4, 0>>, {"RAID1C4"}, 10)

\* RaidIndex, whose numbers are places in RAID_ARRAY.
\* Slip: in the order of the bits.
RaidIndex_bits ==
    [SINGLE |-> 0, RAID0 |-> 1, RAID1 |-> 2, DUP |-> 3, RAID10 |-> 4, RAID5 |-> 5, RAID6 |-> 6,
     RAID1C3 |-> 7, RAID1C4 |-> 8]

RaidIndex ==
    [RAID10 |-> 0, RAID1 |-> 1, DUP |-> 2, RAID0 |-> 3, SINGLE |-> 4, RAID5 |-> 5, RAID6 |-> 6,
     RAID1C3 |-> 7, RAID1C4 |-> 8]

RAID_ARRAY ==
    <<BTRFS_RAID_RAID10, BTRFS_RAID_RAID1, BTRFS_RAID_DUP, BTRFS_RAID_RAID0, BTRFS_RAID_SINGLE,
      BTRFS_RAID_RAID5, BTRFS_RAID_RAID6, BTRFS_RAID_RAID1C3, BTRFS_RAID_RAID1C4>>

\* TryFrom: the first of these that is set; an error when there is another bit.
Precedence == <<"RAID10", "RAID1", "RAID1C3", "RAID1C4", "DUP", "RAID0", "RAID5", "RAID6">>

Profile(flags) ==
    LET value == flags \ (BTRFS_BLOCK_GROUP_TYPE_MASK \cup BTRFS_BLOCK_GROUP_RESERVED)
        set   == {n \in DOMAIN Precedence : Precedence[n] \in value}
    IN  IF value \subseteq BTRFS_BLOCK_GROUP_PROFILE_MASK
        THEN RAID_ARRAY[1 + RaidIndex[IF set = {} THEN "SINGLE" ELSE Precedence[Min(set)]]]
        ELSE "InvalidInput"
=============================================================================

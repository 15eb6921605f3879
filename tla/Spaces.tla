------------------------------- MODULE Spaces -------------------------------
(***************************************************************************)
(* fs::get_spaces (fs/mod.rs): the spaces of a filesystem.  One ioctl asks *)
(* how many there are, a second one fills a buffer with room for so many;  *)
(* an iterator hands them out and frees the buffer in the end.  Meanwhile  *)
(* spaces come and go.                                                     *)
(***************************************************************************)
EXTENDS BlockGroups, FiniteSets, SequencesExt

CONSTANTS
    Kinds,            \* spaces there may be: [types, profiles, reserved] flags
    Unwritten,        \* what is in memory that the kernel did not write
    MaxSpaces,        \* bound: spaces at a time
    MaxSpaceChanges   \* bound: changes, calls that fail

ASSUME SpacesAssumption ==
    /\ \A k \in Kinds :
        /\ k.types \subseteq BTRFS_BLOCK_GROUP_TYPE_MASK
        /\ k.profiles \subseteq BTRFS_BLOCK_GROUP_PROFILE_MASK /\ Cardinality(k.profiles) <= 1
        /\ k.reserved \subseteq BTRFS_BLOCK_GROUP_RESERVED
    /\ MaxSpaces \in Nat \ {0} /\ MaxSpaceChanges \in Nat

VARIABLES
    spaces,          \* of the filesystem, in the kernel's order
    spaceChanges,    \* changes and failures so far
    least,           \* history: the least number of spaces since the first ioctl
    slots,           \* of the buffer: what the kernel wrote, or Unwritten
    total, current,  \* Iter
    told,            \* history: the records returned
    memory,          \* the buffer: none, held, freed
    spacePc          \* count, fill, spaces; Err, dropped: how it ended

spaceVars == <<spaces, spaceChanges, least, slots, total, current, told, memory, spacePc>>

SpacesInit ==
    /\ spaces \in {s \in BoundedSeq(Kinds, MaxSpaces) : s # <<>>}
    /\ spaceChanges = 0 /\ least = MaxSpaces
    /\ slots = <<>> /\ total = 0 /\ current = 0 /\ told = <<>>
    /\ memory = "none" /\ spacePc = "count"

Fails(end) ==
    /\ spaceChanges < MaxSpaceChanges /\ spaceChanges' = spaceChanges + 1
    /\ spacePc' = end

\* The first ioctl, with no slots; the buffer is allocated.
CountSpaces ==
    /\ spacePc = "count"
    /\ \/ /\ total' = Len(spaces) /\ least' = Len(spaces)
          /\ slots' = [n \in 1 .. Len(spaces) |-> Unwritten]
          /\ memory' = "held"
          /\ spacePc' = "fill" /\ UNCHANGED spaceChanges
       \/ Fails("Err") /\ UNCHANGED <<total, least, slots, memory>>
    /\ UNCHANGED <<spaces, current, told>>

\* External: BTRFS_IOC_SPACE_INFO fills the slots there are, and says how many;
\* the library goes on with the number of the first ioctl.
Written == [n \in DOMAIN slots |-> IF n <= Len(spaces) THEN spaces[n] ELSE slots[n]]

\* The second ioctl.  When it fails the buffer is not freed.
FillSpaces ==
    /\ spacePc = "fill"
    /\ \/ slots' = Written /\ spacePc' = "spaces" /\ UNCHANGED spaceChanges
       \/ Fails("Err") /\ UNCHANGED slots
    /\ UNCHANGED <<spaces, least, total, current, told, memory>>

\* Slip: counted before it is read.
Slot_next == current + 2

Slot == current + 1

\* Iter::next, when there is another one.
NextSpace ==
    /\ spacePc = "spaces" /\ current # total
    /\ told' = Append(told, IF Slot \in DOMAIN slots THEN slots[Slot] ELSE Unwritten)
    /\ current' = current + 1
    /\ UNCHANGED <<spaces, spaceChanges, least, slots, total, memory, spacePc>>

\* Drop for Iter, at the end or before.
DropSpaces ==
    /\ spacePc = "spaces"
    /\ memory' = "freed" /\ spacePc' = "dropped"
    /\ UNCHANGED <<spaces, spaceChanges, least, slots, total, current, told>>

get_spaces == CountSpaces \/ FillSpaces \/ NextSpace \/ DropSpaces

\* Other processes: spaces are added and removed anywhere.
SpacesChange ==
    /\ spacePc \in {"count", "fill"} /\ spaceChanges < MaxSpaceChanges
    /\ \/ /\ Len(spaces) < MaxSpaces
          /\ \E n \in 1 .. Len(spaces) + 1, k \in Kinds : spaces' = InsertAt(spaces, n, k)
       \/ /\ Len(spaces) > 1
          /\ \E n \in DOMAIN spaces : spaces' = RemoveAt(spaces, n)
    /\ least' = IF Len(spaces') < least THEN Len(spaces') ELSE least
    /\ spaceChanges' = spaceChanges + 1
    /\ UNCHANGED <<slots, total, current, told, memory, spacePc>>

-----------------------------------------------------------------------------
Flags(kind) == kind.types \cup kind.profiles \cup kind.reserved

\* What is lost before data are is what copies on several devices and parity
\* make up for.
Redundancy(profile) == profile.ncopies \div profile.dev_stripes - 1 + profile.nparity

\* The records returned are the first that the kernel wrote, in order; slots
\* never written are returned only when spaces went away between the two ioctls
\* (their number is that of the first).  Each tells its RAID profile, and its
\* type unless it has several or the one of a remap tree, and its numbers fit
\* together.
SpacesAreReal ==
    /\ \A n \in DOMAIN told :
        \/ told[n] = Unwritten /\ least < total
        \/ /\ told[n] \in Kinds /\ told[n] = spaces[n]
           /\ (BlockType(Flags(told[n])) = "Unknown") <=>
                  \/ Cardinality(told[n].types \cup (told[n].reserved \cap {"GLOBAL_RSV"})) # 1
                  \/ told[n].types = {"METADATA_REMAP"}
           /\ LET profile == Profile(Flags(told[n])) IN
                /\ profile.bg_flag = told[n].profiles
                /\ profile.tolerated_failures = Redundancy(profile)
                /\ profile.tolerated_failures < profile.devs_min
    /\ spacePc = "dropped" => memory = "freed"
=============================================================================

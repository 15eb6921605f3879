--------------------------- MODULE Answers_proofs ---------------------------
(***************************************************************************)
(* What the readers of the kernel's answers return, for every filesystem:  *)
(* the iterators over devices and spaces, a tree search to the byte, and   *)
(* the structure that get_info_by_id fills from what a search finds.       *)
(***************************************************************************)
EXTENDS Answers, FiniteSetTheorems, SequenceTheorems, WellFoundedInduction, TLAPS

-----------------------------------------------------------------------------
(* The least and the largest of some numbers.                                *)

Less == OpToRel(<, Nat)

\* The order of the numbers is well-founded.
LEMMA LessWellFounded == IsWellFoundedOn(Less, Nat)
  BY NatLessThanWellFounded DEF Less

\* A set of numbers has a least one.
LEMMA LeastNumber ==
  ASSUME NEW T, T \subseteq Nat, T # {}
  PROVE  \E x \in T : \A y \in T : x <= y
<1>1. PICK x \in T : \A y \in T : <<y, x>> \notin Less
  BY LessWellFounded, WFMin
<1>2. ASSUME NEW y \in T PROVE x <= y
  <2>1. x \in Nat /\ y \in Nat
    OBVIOUS
  <2>2. <<y, x>> \notin Less
    BY <1>1
  <2>3. <<y, x>> \in Less <=> y < x
    BY <2>1 DEF Less, OpToRel
  <2> QED BY <2>1, <2>2, <2>3
<1> QED BY <1>2

\* Max is the largest of a set of numbers.
LEMMA LargestNumber ==
  ASSUME NEW m \in Nat, NEW S, S \subseteq 0 .. m, S # {}
  PROVE  Max(S) \in S /\ \A d \in S : d <= Max(S)
<1> DEFINE Bounds == {b \in Nat : \A d \in S : d <= b}
<1>1. m \in Bounds
  OBVIOUS
<1>2. PICK b \in Bounds : \A c \in Bounds : b <= c
  <2> HIDE DEF Bounds
  <2>1. Bounds \subseteq Nat
    BY DEF Bounds
  <2> QED BY <1>1, <2>1, LeastNumber
<1>3. b \in S
  <2>1. SUFFICES ASSUME b \notin S PROVE FALSE
    OBVIOUS
  <2>2. PICK d \in S : TRUE
    OBVIOUS
  <2>3. d \in Nat /\ d <= b /\ d # b /\ b \in Nat
    BY <2>1, <2>2
  <2>4. \A e \in S : e <= b - 1
    BY <2>1, <2>3
  <2>5. b - 1 \in Bounds
    BY <2>3, <2>4
  <2> QED BY <1>2, <2>3, <2>5
<1>4. \E x \in S : \A y \in S : x >= y
  BY <1>3
<1> QED BY <1>4 DEF Max

\* That of ids is what BTRFS_IOC_FS_INFO says.
LEMMA LargestId ==
  ASSUME NEW m \in Nat, NEW S, S \subseteq 1 .. m, S # {}
  PROVE  Max(S) \in S /\ \A d \in S : d <= Max(S)
<1>1. S \subseteq 0 .. m
  OBVIOUS
<1> QED BY <1>1, LargestNumber

-----------------------------------------------------------------------------
(* The iterator over devices.                                                *)

DevTypes ==
    /\ devices \in SUBSET (1 .. MaxId) /\ devices # {} /\ stable \subseteq devices
    /\ changes \in Nat /\ num_devices \in Nat /\ max_id \in Nat
    /\ found_devices \in Nat /\ last_id \in Nat /\ id \in Nat
    /\ pc \in {"info", "idle", "scan", "item", "error", "none"}

\* No device that stayed lies between the last one returned and the id that is
\* tried; those up to the last one have been returned.
DevPassed ==
    /\ pc # "info" => \A d \in stable : d <= max_id
    /\ pc = "info" => last_id = 0 /\ found_devices = 0 /\ yielded = {}
    /\ pc = "scan" => last_id < id /\ \A d \in stable : d <= last_id \/ id <= d
    /\ pc # "error" => \A d \in stable : d <= last_id => d \in yielded
    /\ pc = "none" => max_id <= last_id

\* Counters, and what is known as long as nothing has changed.
DevCounts ==
    /\ pc # "error" => found_devices <= num_devices
    /\ pc = "error" => changes > 0
    /\ changes = 0 => devices = stable
    /\ changes = 0 /\ pc # "info" => num_devices = Cardinality(devices)
    /\ changes = 0 /\ pc # "error" =>
           /\ yielded = {d \in devices : d <= last_id}
           /\ found_devices = Cardinality(yielded)

DevInv == DevTypes /\ DevPassed /\ DevCounts

\* Ids are finitely many.
LEMMA DevicesFinite ==
  ASSUME DevTypes
  PROVE  /\ IsFiniteSet(devices) /\ Cardinality(devices) \in Nat
         /\ \A S \in SUBSET devices : IsFiniteSet(S) /\ Cardinality(S) \in Nat /\ Cardinality(S) <= Cardinality(devices)
<1>1. MaxId \in Int /\ devices \in SUBSET (1 .. MaxId)
  BY DevicesAssumption DEF DevTypes
<1>2. IsFiniteSet(1 .. MaxId)
  BY <1>1, FS_Interval
<1>3. IsFiniteSet(devices)
  BY <1>1, <1>2, FS_Subset
<1> QED BY <1>3, FS_Subset, FS_CardinalityType

-----------------------------------------------------------------------------
\* At first no id has been tried.
LEMMA DevInitially == DevicesInit => DevInv
<1>1. SUFFICES ASSUME DevicesInit PROVE DevInv
  OBVIOUS
<1>2. DevTypes
  BY <1>1, DevicesAssumption DEF DevicesInit, DevTypes
<1>3. DevPassed
  BY <1>1, <1>2, DevicesAssumption DEF DevicesInit, DevPassed, DevTypes
<1>4. {d \in devices : d <= 0} = {}
  <2>1. \A d \in devices : ~ (d <= 0)
    BY <1>2, DevicesAssumption DEF DevTypes
  <2> QED BY <2>1
<1>5. DevCounts
  BY <1>1, <1>4, FS_EmptySet DEF DevicesInit, DevCounts
<1> QED BY <1>2, <1>3, <1>5 DEF DevInv

\* A step of the library keeps the invariant.
LEMMA DevStep ==
  ASSUME DevInv, Step
  PROVE  DevInv'
<1> USE DEF DevInv
<1>1. CASE new_internal
  <2>1. Max(devices) \in devices /\ \A d \in devices : d <= Max(devices)
    BY LargestId, DevicesAssumption DEF DevTypes
  <2>2. Cardinality(devices) \in Nat /\ Max(devices) \in Nat
    <3>1. Max(devices) \in 1 .. MaxId
      BY <2>1 DEF DevTypes
    <3> QED BY <3>1, DevicesFinite, DevicesAssumption
  <2>3. DevTypes'
    BY <1>1, <2>2 DEF new_internal, Quiet, DevTypes
  <2>4. DevPassed'
    <3>1. \A d \in devices : ~ (d <= 0)
      BY DevicesAssumption DEF DevTypes
    <3> QED BY <1>1, <2>1, <3>1 DEF new_internal, Quiet, DevTypes, DevPassed
  <2>5. DevCounts'
    BY <1>1, <2>2 DEF new_internal, Quiet, DevTypes, DevPassed, DevCounts
  <2> QED BY <2>3, <2>4, <2>5
<1>2. CASE End
  <2>1. DevTypes'
    BY <1>2 DEF End, Quiet, DevTypes
  <2>2. DevPassed'
    BY <1>2 DEF End, AtEnd, Quiet, DevTypes, DevPassed
  <2>3. ASSUME changes = 0 PROVE found_devices = num_devices
    <3>1. \A d \in devices : d <= last_id
      BY <1>2, <2>3 DEF End, AtEnd, DevTypes, DevPassed, DevCounts
    <3>2. yielded = devices
      BY <1>2, <2>3, <3>1 DEF End, DevCounts
    <3> QED BY <1>2, <2>3, <3>2 DEF End, DevCounts
  <2>4. DevCounts'
    BY <1>2, <2>3 DEF End, Quiet, DevTypes, DevCounts
  <2> QED BY <2>1, <2>2, <2>4
<1>3. CASE Scan
  <2>1. DevTypes'
    BY <1>3 DEF Scan, Quiet, DevTypes
  <2>2. DevPassed'
    BY <1>3 DEF Scan, Quiet, DevTypes, DevPassed
  <2>3. DevCounts'
    BY <1>3 DEF Scan, Quiet, DevCounts
  <2> QED BY <2>1, <2>2, <2>3
<1>4. CASE Found
  <2>1. DevTypes'
    BY <1>4 DEF Found, Quiet, DevTypes
  <2>2. DevPassed'
    BY <1>4 DEF Found, Quiet, DevTypes, DevPassed
  <2>3. ASSUME changes = 0
        PROVE  /\ ~ TooMany
               /\ yielded' = {d \in devices : d <= last_id'}
               /\ found_devices' = Cardinality(yielded')
    <3> DEFINE More == yielded \cup {id}
    <3>1. yielded = {d \in devices : d <= last_id} /\ found_devices = Cardinality(yielded)
      BY <1>4, <2>3 DEF Found, DevCounts
    <3>2. id \in devices /\ id \notin yielded
      BY <1>4, <3>1 DEF Found, DevPassed, DevTypes
    <3>3. More = {d \in devices : d <= id}
      <4>1. \A d \in devices : d \in Nat /\ (d <= last_id \/ id <= d)
        BY <1>4, <2>3, DevicesAssumption DEF Found, DevTypes, DevPassed, DevCounts
      <4>2. last_id < id /\ last_id \in Nat /\ id \in Nat
        BY <1>4 DEF Found, DevTypes, DevPassed
      <4>3. \A d \in devices : d <= id <=> d <= last_id \/ d = id
        BY <4>1, <4>2
      <4> QED BY <3>1, <3>2, <4>3
    <3>4. IsFiniteSet(yielded) /\ Cardinality(More) <= Cardinality(devices)
      BY <3>1, <3>3, DevicesFinite
    <3>5. Cardinality(More) = found_devices + 1
      BY <3>1, <3>2, <3>4, FS_AddElement
    <3>6. ~ TooMany
      BY <1>4, <2>3, <3>4, <3>5, DevicesFinite DEF Found, TooMany, DevCounts, DevTypes
    <3> QED BY <1>4, <3>3, <3>5, <3>6 DEF Found
  <2>4. DevCounts'
    BY <1>4, <2>3 DEF Found, TooMany, Quiet, DevTypes, DevCounts
  <2> QED BY <2>1, <2>2, <2>4
<1>5. CASE Gap
  <2>1. DevTypes'
    BY <1>5 DEF Gap, Quiet, DevTypes
  <2>2. DevPassed'
    BY <1>5, DevicesAssumption DEF Gap, Quiet, DevTypes, DevPassed
  <2>3. DevCounts'
    BY <1>5 DEF Gap, Quiet, DevCounts
  <2> QED BY <2>1, <2>2, <2>3
<1>6. CASE Failed
  BY <1>6 DEF Failed, DevTypes, DevPassed, DevCounts
<1> QED BY <1>1, <1>2, <1>3, <1>4, <1>5, <1>6 DEF Step

\* So does one of the caller or of another process.
LEMMA DevOthers ==
  ASSUME DevInv, next \/ Added \/ Removed
  PROVE  DevInv'
<1> USE DEF DevInv
<1>1. CASE next
  BY <1>1 DEF next, Quiet, DevTypes, DevPassed, DevCounts
<1>2. CASE Added
  <2>1. Max(devices) \in devices
    BY LargestId, DevicesAssumption DEF DevTypes
  <2>2. devices' \in SUBSET (1 .. MaxId) /\ devices' # {} /\ devices \subseteq devices'
    <3>1. Max(devices) \in 1 .. MaxId /\ Max(devices) < MaxId
      BY <1>2, <2>1 DEF Added, DevTypes
    <3>2. Max(devices) + 1 \in 1 .. MaxId
      BY <3>1, DevicesAssumption
    <3> QED BY <1>2, <3>2 DEF Added, DevTypes
  <2>3. changes' > 0 /\ changes' \in Nat
    BY <1>2 DEF Added, DevTypes
  <2>4. DevTypes'
    BY <1>2, <2>2, <2>3 DEF Added, iter, DevTypes
  <2>5. DevPassed'
    BY <1>2 DEF Added, iter, DevPassed
  <2>6. DevCounts'
    BY <1>2, <2>3 DEF Added, iter, DevCounts
  <2> QED BY <2>4, <2>5, <2>6
<1>3. CASE Removed
  <2>1. PICK d \in devices : devices' = devices \ {d} /\ stable' = stable \ {d}
    BY <1>3 DEF Removed
  <2>2. devices \ {d} # {}
    <3>1. Cardinality(devices \ {d}) = Cardinality(devices) - 1
      BY <2>1, DevicesFinite, FS_RemoveElement
    <3>2. Cardinality(devices \ {d}) # 0
      BY <1>3, <3>1, DevicesFinite DEF Removed
    <3> QED BY <3>2, FS_EmptySet
  <2>3. changes' > 0 /\ changes' \in Nat
    BY <1>3 DEF Removed, DevTypes
  <2>4. DevTypes'
    BY <1>3, <2>1, <2>2, <2>3 DEF Removed, iter, DevTypes
  <2>5. DevPassed'
    BY <1>3, <2>1 DEF Removed, iter, DevPassed
  <2>6. DevCounts'
    BY <1>3, <2>3 DEF Removed, iter, DevCounts
  <2> QED BY <2>4, <2>5, <2>6
<1> QED BY <1>1, <1>2, <1>3

\* With the invariant the devices returned are those promised.
LEMMA YieldedAreAll == DevInv => AllYielded
<1>1. SUFFICES ASSUME DevInv PROVE AllYielded
  OBVIOUS
<1>2. pc = "none" => stable \subseteq yielded
  <2>1. SUFFICES ASSUME pc = "none", NEW d \in stable PROVE d \in yielded
    OBVIOUS
  <2>2. d <= max_id /\ max_id <= last_id /\ d \in Nat
    BY <1>1, <2>1 DEF DevInv, DevTypes, DevPassed
  <2> QED BY <1>1, <2>1, <2>2 DEF DevInv, DevTypes, DevPassed
<1>3. ASSUME pc \in {"item", "idle"}, changes = 0
      PROVE  num_devices - found_devices = Cardinality(devices \ yielded)
  <2>1. devices \cap yielded = yielded
    BY <1>1, <1>3 DEF DevInv, DevCounts
  <2>2. Cardinality(devices \ yielded) = Cardinality(devices) - Cardinality(yielded)
    BY <1>1, <2>1, DevicesFinite, FS_Difference DEF DevInv
  <2> QED BY <1>1, <1>3, <2>2 DEF DevInv, DevCounts
<1>4. (pc = "error" => changes > 0) /\ (pc # "error" => found_devices <= num_devices)
  BY <1>1 DEF DevInv, DevCounts
<1> QED BY <1>2, <1>3, <1>4 DEF AllYielded

-----------------------------------------------------------------------------
(* What the flags of a space say.                                            *)

\* The flags of the types and of the reservation, and those of the profile.
LEMMA FlagsApart ==
  ASSUME NEW k \in Kinds
  PROVE  /\ Flags(k) \cap (BTRFS_BLOCK_GROUP_TYPE_MASK \cup {"GLOBAL_RSV"})
              = k.types \cup (k.reserved \cap {"GLOBAL_RSV"})
         /\ Flags(k) \ (BTRFS_BLOCK_GROUP_TYPE_MASK \cup BTRFS_BLOCK_GROUP_RESERVED) = k.profiles
<1>1. /\ k.types \subseteq BTRFS_BLOCK_GROUP_TYPE_MASK
      /\ k.profiles \subseteq BTRFS_BLOCK_GROUP_PROFILE_MASK
      /\ k.reserved \subseteq BTRFS_BLOCK_GROUP_RESERVED
  BY SpacesAssumption
<1>2. \A x \in BTRFS_BLOCK_GROUP_PROFILE_MASK :
          x \notin BTRFS_BLOCK_GROUP_TYPE_MASK \cup BTRFS_BLOCK_GROUP_RESERVED \cup {"GLOBAL_RSV"}
  BY DEF BTRFS_BLOCK_GROUP_PROFILE_MASK, BTRFS_BLOCK_GROUP_TYPE_MASK, BTRFS_BLOCK_GROUP_RESERVED
<1>3. \A x \in BTRFS_BLOCK_GROUP_RESERVED : x \notin BTRFS_BLOCK_GROUP_TYPE_MASK
  BY DEF BTRFS_BLOCK_GROUP_TYPE_MASK, BTRFS_BLOCK_GROUP_RESERVED
<1>4. Flags(k) \cap (BTRFS_BLOCK_GROUP_TYPE_MASK \cup {"GLOBAL_RSV"})
        = k.types \cup (k.reserved \cap {"GLOBAL_RSV"})
  BY <1>1, <1>2, <1>3, Zenon DEF Flags
<1>5. Flags(k) \ (BTRFS_BLOCK_GROUP_TYPE_MASK \cup BTRFS_BLOCK_GROUP_RESERVED) = k.profiles
  BY <1>1, <1>2, Zenon DEF Flags
<1> QED BY <1>4, <1>5

\* A type is told unless there are several, or it is that of a remap tree.
LEMMA TypeIsTold ==
  ASSUME NEW k \in Kinds
  PROVE  (BlockType(Flags(k)) = "Unknown") <=>
            \/ Cardinality(k.types \cup (k.reserved \cap {"GLOBAL_RSV"})) # 1
            \/ k.types = {"METADATA_REMAP"}
<1> DEFINE value == k.types \cup (k.reserved \cap {"GLOBAL_RSV"})
           All   == {"DATA", "SYSTEM", "METADATA", "METADATA_REMAP", "GLOBAL_RSV"}
           Told  == {{"DATA"}, {"SYSTEM"}, {"METADATA"}, {"GLOBAL_RSV"}}
<1>1. k.types \subseteq {"DATA", "SYSTEM", "METADATA", "METADATA_REMAP"} /\ value \subseteq All
  BY SpacesAssumption DEF BTRFS_BLOCK_GROUP_TYPE_MASK
<1>2. Flags(k) \cap (BTRFS_BLOCK_GROUP_TYPE_MASK \cup {"GLOBAL_RSV"}) = value
  BY FlagsApart
<1>3. BlockType(Flags(k)) = "Unknown" <=> value \notin Told
  BY <1>2 DEF BlockType
<1>4. CASE \E x : value = {x}
  <2>1. PICK x : value = {x}
    BY <1>4
  <2>2. Cardinality(value) = 1 /\ x \in All
    BY <1>1, <2>1, FS_Singleton
  <2>3. k.types = {"METADATA_REMAP"} <=> x = "METADATA_REMAP"
    <3>1. x = "METADATA_REMAP" => x \in k.types
      BY <2>1
    <3> QED BY <2>1, <3>1
  <2>4. value \notin Told <=> x = "METADATA_REMAP"
    BY <2>1, <2>2
  <2> QED BY <1>3, <2>2, <2>3, <2>4
<1>5. CASE ~ \E x : value = {x}
  <2>1. Cardinality(value) # 1
    <3>1. IsFiniteSet({"DATA"} \cup {"SYSTEM"})
      BY FS_Singleton, FS_Union
    <3>2. IsFiniteSet({"METADATA"} \cup {"METADATA_REMAP"})
      BY FS_Singleton, FS_Union
    <3>3. IsFiniteSet(({"DATA"} \cup {"SYSTEM"}) \cup ({"METADATA"} \cup {"METADATA_REMAP"}))
      BY <3>1, <3>2, FS_Union
    <3>4. IsFiniteSet(value)
      <4>1. IsFiniteSet((({"DATA"} \cup {"SYSTEM"}) \cup ({"METADATA"} \cup {"METADATA_REMAP"}))
                         \cup {"GLOBAL_RSV"})
        BY <3>3, FS_Singleton, FS_Union
      <4> QED BY <1>1, <4>1, FS_Subset
    <3> QED BY <1>5, <3>4, FS_Singleton
  <2> QED BY <1>3, <1>5, <2>1
<1> QED BY <1>4, <1>5

\* The profiles of the table, by their bits.
LEMMA ProfileOfBit ==
  /\ RAID_ARRAY[1 + RaidIndex["RAID10"]]  = BTRFS_RAID_RAID10
  /\ RAID_ARRAY[1 + RaidIndex["RAID1"]]   = BTRFS_RAID_RAID1
  /\ RAID_ARRAY[1 + RaidIndex["DUP"]]     = BTRFS_RAID_DUP
  /\ RAID_ARRAY[1 + RaidIndex["RAID0"]]   = BTRFS_RAID_RAID0
  /\ RAID_ARRAY[1 + RaidIndex["SINGLE"]]  = BTRFS_RAID_SINGLE
  /\ RAID_ARRAY[1 + RaidIndex["RAID5"]]   = BTRFS_RAID_RAID5
  /\ RAID_ARRAY[1 + RaidIndex["RAID6"]]   = BTRFS_RAID_RAID6
  /\ RAID_ARRAY[1 + RaidIndex["RAID1C3"]] = BTRFS_RAID_RAID1C3
  /\ RAID_ARRAY[1 + RaidIndex["RAID1C4"]] = BTRFS_RAID_RAID1C4
BY DEF RAID_ARRAY, RaidIndex

\* What a profile has to be for some bits.
Fits(profile, bits) ==
    /\ profile.bg_flag = bits
    /\ profile.tolerated_failures = Redundancy(profile)
    /\ profile.tolerated_failures < profile.devs_min

\* The numbers of each fit together.
LEMMA ProfilesFit ==
  /\ Fits(BTRFS_RAID_RAID10, {"RAID10"}) /\ Fits(BTRFS_RAID_RAID1, {"RAID1"})
  /\ Fits(BTRFS_RAID_DUP, {"DUP"}) /\ Fits(BTRFS_RAID_RAID0, {"RAID0"})
  /\ Fits(BTRFS_RAID_SINGLE, {})
  /\ Fits(BTRFS_RAID_RAID5, {"RAID5"}) /\ Fits(BTRFS_RAID_RAID6, {"RAID6"})
  /\ Fits(BTRFS_RAID_RAID1C3, {"RAID1C3"}) /\ Fits(BTRFS_RAID_RAID1C4, {"RAID1C4"})
<1> USE DEF Fits, Redundancy, RaidProfile
<1>1. Fits(BTRFS_RAID_RAID10, {"RAID10"})
  BY DEF BTRFS_RAID_RAID10
<1>2. Fits(BTRFS_RAID_RAID1, {"RAID1"})
  BY DEF BTRFS_RAID_RAID1
<1>3. Fits(BTRFS_RAID_DUP, {"DUP"})
  BY DEF BTRFS_RAID_DUP
<1>4. Fits(BTRFS_RAID_RAID0, {"RAID0"})
  BY DEF BTRFS_RAID_RAID0
<1>5. Fits(BTRFS_RAID_SINGLE, {})
  BY DEF BTRFS_RAID_SINGLE
<1>6. Fits(BTRFS_RAID_RAID5, {"RAID5"})
  BY DEF BTRFS_RAID_RAID5
<1>7. Fits(BTRFS_RAID_RAID6, {"RAID6"})
  BY DEF BTRFS_RAID_RAID6
<1>8. Fits(BTRFS_RAID_RAID1C3, {"RAID1C3"})
  BY DEF BTRFS_RAID_RAID1C3
<1>9. Fits(BTRFS_RAID_RAID1C4, {"RAID1C4"})
  BY DEF BTRFS_RAID_RAID1C4
<1> HIDE DEF Fits
<1> QED BY <1>1, <1>2, <1>3, <1>4, <1>5, <1>6, <1>7, <1>8, <1>9

\* The profile of one bit is found whatever the order they are tried in.
LEMMA OneBit ==
  ASSUME NEW flags, NEW m \in DOMAIN Precedence,
         flags \ (BTRFS_BLOCK_GROUP_TYPE_MASK \cup BTRFS_BLOCK_GROUP_RESERVED) = {Precedence[m]}
  PROVE  Profile(flags) = RAID_ARRAY[1 + RaidIndex[Precedence[m]]]
<1> DEFINE set == {n \in DOMAIN Precedence : Precedence[n] \in {Precedence[m]}}
<1>1. DOMAIN Precedence = 1 .. 8 /\ Precedence[m] \in BTRFS_BLOCK_GROUP_PROFILE_MASK
  BY DEF Precedence, BTRFS_BLOCK_GROUP_PROFILE_MASK
<1>2. \A n \in 1 .. 8 : Precedence[n] = Precedence[m] => n = m
  BY <1>1 DEF Precedence
<1>3. set = {m}
  BY <1>1, <1>2
<1>4. Min({m}) = m
  BY <1>1 DEF Min
<1>5. Profile(flags) = RAID_ARRAY[1 + RaidIndex[IF set = {} THEN "SINGLE" ELSE Precedence[Min(set)]]]
  BY <1>1 DEF Profile
<1> QED BY <1>3, <1>4, <1>5

\* A space has the profile of its flags.
LEMMA ProfileIsTold ==
  ASSUME NEW k \in Kinds
  PROVE  Fits(Profile(Flags(k)), k.profiles)
<1>1. Flags(k) \ (BTRFS_BLOCK_GROUP_TYPE_MASK \cup BTRFS_BLOCK_GROUP_RESERVED) = k.profiles
  BY FlagsApart
<1>2. k.profiles \subseteq BTRFS_BLOCK_GROUP_PROFILE_MASK /\ Cardinality(k.profiles) <= 1
  BY SpacesAssumption
<1>3. CASE k.profiles = {}
  <2>1. Profile(Flags(k)) = RAID_ARRAY[1 + RaidIndex["SINGLE"]]
    BY <1>1, <1>3 DEF Profile
  <2> QED BY <1>3, <2>1, ProfileOfBit, ProfilesFit
<1>4. CASE k.profiles # {}
  <2>1. IsFiniteSet(BTRFS_BLOCK_GROUP_PROFILE_MASK)
    <3> DEFINE f == [n \in 1 .. 8 |-> Precedence[n]]
    <3>1. f \in Surjection(1 .. 8, BTRFS_BLOCK_GROUP_PROFILE_MASK)
      <4>1. f \in [1 .. 8 -> BTRFS_BLOCK_GROUP_PROFILE_MASK]
        BY DEF Precedence, BTRFS_BLOCK_GROUP_PROFILE_MASK
      <4>2. /\ f[1] = "RAID10" /\ f[2] = "RAID1" /\ f[3] = "RAID1C3" /\ f[4] = "RAID1C4"
            /\ f[5] = "DUP" /\ f[6] = "RAID0" /\ f[7] = "RAID5" /\ f[8] = "RAID6"
        BY DEF Precedence
      <4>3. \A x \in BTRFS_BLOCK_GROUP_PROFILE_MASK : \E n \in 1 .. 8 : f[n] = x
        <5> HIDE DEF f
        <5> QED BY <4>2 DEF BTRFS_BLOCK_GROUP_PROFILE_MASK
      <4> QED BY <4>1, <4>3 DEF Surjection
    <3>2. IsFiniteSet(1 .. 8)
      <4>1. PICK a \in Int, b \in Int : a = 1 /\ b = 8
        OBVIOUS
      <4>2. IsFiniteSet(a .. b)
        BY FS_Interval
      <4> QED BY <4>1, <4>2
    <3> HIDE DEF f
    <3> QED BY <3>1, <3>2, FS_Surjection
  <2>2. PICK x : x \in k.profiles
    BY <1>4
  <2>3. k.profiles = {x}
    <3>1. IsFiniteSet(k.profiles) /\ Cardinality(k.profiles) \in Nat
      BY <1>2, <2>1, FS_Subset, FS_CardinalityType
    <3>2. Cardinality(k.profiles) # 0
      BY <2>2, <3>1, FS_EmptySet
    <3>3. Cardinality(k.profiles) = 1
      BY <1>2, <3>1, <3>2
    <3>4. PICK y : k.profiles = {y}
      BY <3>1, <3>3, FS_Singleton
    <3> QED BY <2>2, <3>4
  <2>4. PICK m \in DOMAIN Precedence : Precedence[m] = x
    BY <1>2, <2>2 DEF Precedence, BTRFS_BLOCK_GROUP_PROFILE_MASK
  <2>5. Profile(Flags(k)) = RAID_ARRAY[1 + RaidIndex[x]]
    BY <1>1, <2>3, <2>4, OneBit
  <2>6. x \in BTRFS_BLOCK_GROUP_PROFILE_MASK
    BY <1>2, <2>2
  <2> QED BY <2>3, <2>5, <2>6, ProfileOfBit, ProfilesFit DEF BTRFS_BLOCK_GROUP_PROFILE_MASK
<1> QED BY <1>3, <1>4

-----------------------------------------------------------------------------
(* What a listing of the spaces returns.                                     *)

SpaceTypes ==
    /\ spaces \in Seq(Kinds) /\ Len(spaces) <= MaxSpaces
    /\ least \in Nat /\ total \in Nat /\ current \in Nat
    /\ slots \in Seq(Kinds \cup {Unwritten}) /\ told \in Seq(Kinds \cup {Unwritten})
    /\ spacePc \in {"count", "fill", "spaces", "Err", "dropped"}

\* The buffer has as many slots as there were spaces, and the kernel filled
\* those it had a space for.
SpaceSlots ==
    /\ spacePc \in {"fill", "spaces", "dropped"} => Len(slots) = total
    /\ spacePc = "fill" => least <= Len(spaces) /\ \A n \in 1 .. total : slots[n] = Unwritten
    /\ spacePc \in {"spaces", "dropped"} =>
          \A n \in 1 .. total :
              \/ n <= Len(spaces) /\ slots[n] = spaces[n]
              \/ slots[n] = Unwritten /\ least < total
    /\ spacePc = "dropped" => memory = "freed"

\* The records returned are those of the first slots.
SpaceTold ==
    /\ spacePc \in {"count", "fill", "Err"} => told = <<>> /\ current = 0
    /\ spacePc \in {"spaces", "dropped"} =>
          /\ Len(told) = current /\ current <= total
          /\ \A n \in 1 .. current : told[n] = slots[n]

SpaceInv == SpaceTypes /\ SpaceSlots /\ SpaceTold

\* At first nothing is known.
LEMMA SpacesInitially == SpacesInit \/ SpacesIdle => SpaceInv
<1>1. ASSUME SpacesInit PROVE SpaceInv
  <2>1. spaces \in Seq(Kinds) /\ Len(spaces) <= MaxSpaces
    <3>1. PICK m \in 0 .. MaxSpaces : spaces \in [1 .. m -> Kinds]
      BY <1>1 DEF SpacesInit, BoundedSeq, SeqOf
    <3>2. m \in Nat /\ m <= MaxSpaces
      BY SpacesAssumption
    <3> QED BY <3>1, <3>2
  <2>2. SpaceTypes
    BY <1>1, <2>1, SpacesAssumption DEF SpacesInit, SpaceTypes
  <2>3. SpaceSlots /\ SpaceTold
    BY <1>1 DEF SpacesInit, SpaceSlots, SpaceTold
  <2> QED BY <2>2, <2>3 DEF SpaceInv
<1>2. ASSUME SpacesIdle PROVE SpaceInv
  <2>1. SpaceTypes
    BY <1>2, SpacesAssumption DEF SpacesIdle, SpaceTypes
  <2>2. SpaceSlots /\ SpaceTold
    BY <1>2 DEF SpacesIdle, SpaceSlots, SpaceTold
  <2> QED BY <2>1, <2>2 DEF SpaceInv
<1> QED BY <1>1, <1>2

\* A step of the listing keeps the invariant.
LEMMA SpacesStep ==
  ASSUME SpaceInv, get_spaces
  PROVE  SpaceInv'
<1> USE DEF SpaceInv
<1>1. CASE CountSpaces
  <2>1. CASE Fails("Err") /\ UNCHANGED <<total, least, slots, memory>>
    BY <1>1, <2>1 DEF CountSpaces, Fails, SpaceTypes, SpaceSlots, SpaceTold
  <2>2. CASE ~ (Fails("Err") /\ UNCHANGED <<total, least, slots, memory>>)
    <3>1. /\ total' = Len(spaces) /\ least' = Len(spaces) /\ spacePc' = "fill"
          /\ slots' = [n \in 1 .. Len(spaces) |-> Unwritten]
          /\ UNCHANGED <<spaces, current, told>> /\ spacePc = "count"
      BY <1>1, <2>2 DEF CountSpaces
    <3>2. Len(spaces) \in Nat
      BY DEF SpaceTypes
    <3>3. slots' \in Seq(Kinds \cup {Unwritten}) /\ Len(slots') = Len(spaces)
      BY <3>1, <3>2
    <3>4. SpaceTypes'
      BY <3>1, <3>2, <3>3 DEF SpaceTypes
    <3>5. SpaceSlots' /\ SpaceTold'
      BY <3>1, <3>2, <3>3 DEF SpaceSlots, SpaceTold
    <3> QED BY <3>4, <3>5
  <2> QED BY <2>1, <2>2
<1>2. CASE FillSpaces
  <2>1. CASE Fails("Err") /\ UNCHANGED slots
    BY <1>2, <2>1 DEF FillSpaces, Fails, SpaceTypes, SpaceSlots, SpaceTold
  <2>2. CASE ~ (Fails("Err") /\ UNCHANGED slots)
    <3>1. /\ slots' = Written /\ spacePc' = "spaces" /\ spacePc = "fill"
          /\ UNCHANGED <<spaces, least, total, current, told, memory>>
      <4>1. \/ slots' = Written /\ spacePc' = "spaces"
            \/ Fails("Err") /\ UNCHANGED slots
        BY <1>2 DEF FillSpaces
      <4>2. spacePc = "fill" /\ UNCHANGED <<spaces, least, total, current, told, memory>>
        BY <1>2 DEF FillSpaces
      <4> QED BY <2>2, <4>1, <4>2
    <3>2. Len(spaces) \in Nat /\ DOMAIN slots = 1 .. total /\ total \in Nat
      <4>1. slots \in Seq(Kinds \cup {Unwritten}) /\ spaces \in Seq(Kinds) /\ Len(slots) = total
        BY <3>1 DEF SpaceTypes, SpaceSlots
      <4> QED BY <4>1, LenProperties
    <3>3. Written = [n \in 1 .. total |-> IF n <= Len(spaces) THEN spaces[n] ELSE slots[n]]
      <4>1. Written = [n \in DOMAIN slots |-> IF n <= Len(spaces) THEN spaces[n] ELSE slots[n]]
        BY DEF Written
      <4> QED BY <3>2, <4>1, Zenon
    <3>4. ASSUME NEW n \in 1 .. total
          PROVE  /\ slots'[n] \in Kinds \cup {Unwritten}
                 /\ \/ n <= Len(spaces) /\ slots'[n] = spaces[n]
                    \/ slots'[n] = Unwritten /\ least < total
      <4>1. CASE n <= Len(spaces)
        <5>1. slots'[n] = spaces[n] /\ n \in 1 .. Len(spaces)
          BY <3>1, <3>2, <3>3, <4>1
        <5> QED BY <4>1, <5>1 DEF SpaceTypes
      <4>2. CASE ~ (n <= Len(spaces))
        <5>1. slots'[n] = slots[n]
          BY <3>1, <3>3, <4>2
        <5>2. slots[n] = Unwritten /\ least <= Len(spaces)
          BY <3>1 DEF SpaceSlots
        <5>3. least < total
          BY <3>2, <4>2, <5>2 DEF SpaceTypes
        <5> QED BY <5>1, <5>2, <5>3
      <4> QED BY <4>1, <4>2
    <3>5. slots' \in Seq(Kinds \cup {Unwritten}) /\ Len(slots') = total
      <4>1. slots' \in [1 .. total -> Kinds \cup {Unwritten}]
        BY <3>1, <3>3, <3>4
      <4> QED BY <3>2, <4>1
    <3>6. SpaceTypes'
      BY <3>1, <3>5 DEF SpaceTypes
    <3>7. SpaceSlots'
      BY <3>1, <3>4, <3>5 DEF SpaceSlots
    <3>8. SpaceTold'
      BY <3>1 DEF SpaceTold, SpaceTypes
    <3> QED BY <3>6, <3>7, <3>8
  <2> QED BY <2>1, <2>2
<1>3. CASE NextSpace
  <2>1. /\ spacePc = "spaces" /\ current # total /\ current' = current + 1
        /\ told' = Append(told, IF current + 1 \in DOMAIN slots THEN slots[current + 1] ELSE Unwritten)
        /\ UNCHANGED <<spaces, least, slots, total, memory, spacePc>>
    BY <1>3 DEF NextSpace, Slot
  <2>2. current \in Nat /\ total \in Nat /\ current <= total /\ DOMAIN slots = 1 .. total
    BY <2>1 DEF SpaceTypes, SpaceSlots, SpaceTold
  <2>3. current + 1 \in 1 .. total /\ told' = Append(told, slots[current + 1])
    BY <2>1, <2>2
  <2>4. slots[current + 1] \in Kinds \cup {Unwritten}
    BY <2>2, <2>3 DEF SpaceTypes
  <2>5. SpaceTypes'
    BY <2>1, <2>2, <2>3, <2>4 DEF SpaceTypes
  <2>6. SpaceSlots'
    BY <2>1 DEF SpaceSlots
  <2>7. SpaceTold'
    BY <2>1, <2>2, <2>3 DEF SpaceTypes, SpaceTold
  <2> QED BY <2>5, <2>6, <2>7
<1>4. CASE DropSpaces
  BY <1>4 DEF DropSpaces, SpaceTypes, SpaceSlots, SpaceTold
<1> QED BY <1>1, <1>2, <1>3, <1>4 DEF get_spaces

\* So does a change by another process.
LEMMA SpacesOthers ==
  ASSUME SpaceInv, SpacesChange
  PROVE  SpaceInv'
<1> USE DEF SpaceInv
<1>1. /\ spacePc \in {"count", "fill"}
      /\ least' = IF Len(spaces') < least THEN Len(spaces') ELSE least
      /\ UNCHANGED <<slots, total, current, told, memory, spacePc>>
  BY DEF SpacesChange
<1>2. Len(spaces) \in Nat
  BY DEF SpaceTypes
<1>3. spaces' \in Seq(Kinds) /\ Len(spaces') <= MaxSpaces /\ Len(spaces') \in Nat
  <2>1. ASSUME Len(spaces) < MaxSpaces, NEW n \in 1 .. Len(spaces) + 1, NEW k \in Kinds,
               spaces' = InsertAt(spaces, n, k)
        PROVE  spaces' \in Seq(Kinds) /\ Len(spaces') = Len(spaces) + 1
    <3>1. SubSeq(spaces, 1, n - 1) \in Seq(Kinds) /\ Len(SubSeq(spaces, 1, n - 1)) = n - 1
      BY <1>2, <2>1 DEF SpaceTypes
    <3>2. /\ SubSeq(spaces, n, Len(spaces)) \in Seq(Kinds)
          /\ Len(SubSeq(spaces, n, Len(spaces))) = Len(spaces) - n + 1
      BY <1>2, <2>1 DEF SpaceTypes
    <3>3. /\ SubSeq(spaces, 1, n - 1) \o <<k>> \in Seq(Kinds)
          /\ Len(SubSeq(spaces, 1, n - 1) \o <<k>>) = n
      BY <3>1, ConcatProperties
    <3> DEFINE front == SubSeq(spaces, 1, n - 1) \o <<k>>
               back  == SubSeq(spaces, n, Len(spaces))
    <3>4. spaces' = front \o back /\ Len(back) = Len(spaces) - n + 1
      BY <2>1, <3>2 DEF InsertAt
    <3>5. front \in Seq(Kinds) /\ back \in Seq(Kinds) /\ Len(front) = n
      BY <3>2, <3>3
    <3> HIDE DEF front, back
    <3>6. front \o back \in Seq(Kinds) /\ Len(front \o back) = Len(front) + Len(back)
      BY <3>5, ConcatProperties
    <3> QED BY <1>2, <3>4, <3>5, <3>6
  <2>2. ASSUME Len(spaces) > 1, NEW n \in DOMAIN spaces, spaces' = RemoveAt(spaces, n)
        PROVE  spaces' \in Seq(Kinds) /\ Len(spaces') = Len(spaces) - 1
    <3>1. n \in 1 .. Len(spaces)
      BY <2>2 DEF SpaceTypes
    <3>2. SubSeq(spaces, 1, n - 1) \in Seq(Kinds) /\ Len(SubSeq(spaces, 1, n - 1)) = n - 1
      BY <1>2, <3>1 DEF SpaceTypes
    <3>3. /\ SubSeq(spaces, n + 1, Len(spaces)) \in Seq(Kinds)
          /\ Len(SubSeq(spaces, n + 1, Len(spaces))) = Len(spaces) - n
      <4>1. n + 1 \in 1 .. Len(spaces) + 1 /\ Len(spaces) <= Len(spaces) /\ spaces \in Seq(Kinds)
        BY <1>2, <3>1 DEF SpaceTypes
      <4>2. PICK m : m = n + 1
        OBVIOUS
      <4>3. /\ SubSeq(spaces, m, Len(spaces)) \in Seq(Kinds)
            /\ Len(SubSeq(spaces, m, Len(spaces))) = Len(spaces) - m + 1
        BY <1>2, <4>1, <4>2
      <4> QED BY <1>2, <3>1, <4>2, <4>3
    <3> DEFINE front == SubSeq(spaces, 1, n - 1)
               back  == SubSeq(spaces, n + 1, Len(spaces))
    <3>4. spaces' = front \o back
      BY <2>2 DEF RemoveAt
    <3>5. /\ front \in Seq(Kinds) /\ Len(front) = n - 1
          /\ back \in Seq(Kinds) /\ Len(back) = Len(spaces) - n
      BY <3>2, <3>3
    <3> HIDE DEF front, back
    <3>6. front \o back \in Seq(Kinds) /\ Len(front \o back) = Len(front) + Len(back)
      BY <3>5, ConcatProperties
    <3> QED BY <1>2, <3>1, <3>4, <3>5, <3>6
  <2> QED BY <1>2, <2>1, <2>2, SpacesAssumption DEF SpacesChange, SpaceTypes
<1>4. SpaceTypes'
  BY <1>1, <1>3 DEF SpaceTypes
<1>5. SpaceSlots'
  BY <1>1, <1>3 DEF SpaceSlots, SpaceTypes
<1>6. SpaceTold'
  BY <1>1 DEF SpaceTold
<1> QED BY <1>4, <1>5, <1>6

\* What was returned is real.
LEMMA ToldIsReal == SpaceInv => SpacesAreReal
<1>1. SUFFICES ASSUME SpaceInv PROVE SpacesAreReal
  OBVIOUS
<1>2. ASSUME NEW n \in DOMAIN told
      PROVE  \/ told[n] = Unwritten /\ least < total
             \/ told[n] \in Kinds /\ told[n] = spaces[n]
  <2>1. spacePc \in {"spaces", "dropped"} /\ n \in 1 .. current /\ n \in 1 .. total
    <3>1. told # <<>> /\ DOMAIN told = 1 .. Len(told)
      BY <1>1 DEF SpaceInv, SpaceTypes
    <3>2. spacePc \in {"spaces", "dropped"}
      BY <1>1, <3>1 DEF SpaceInv, SpaceTypes, SpaceTold
    <3>3. Len(told) = current /\ current <= total /\ current \in Nat /\ total \in Nat
      BY <1>1, <3>2 DEF SpaceInv, SpaceTypes, SpaceTold
    <3> QED BY <3>1, <3>2, <3>3
  <2>2. told[n] = slots[n]
    BY <1>1, <2>1 DEF SpaceInv, SpaceTold
  <2>3. \/ n <= Len(spaces) /\ slots[n] = spaces[n]
        \/ slots[n] = Unwritten /\ least < total
    BY <1>1, <2>1 DEF SpaceInv, SpaceSlots
  <2>4. n <= Len(spaces) => spaces[n] \in Kinds
    <3>1. spaces \in Seq(Kinds) /\ total \in Nat
      BY <1>1 DEF SpaceInv, SpaceTypes
    <3>2. n <= Len(spaces) => n \in 1 .. Len(spaces)
      BY <2>1, <3>1
    <3> QED BY <3>1, <3>2, ElementOfSeq
  <2> QED BY <2>2, <2>3, <2>4
<1>3. spacePc = "dropped" => memory = "freed"
  BY <1>1 DEF SpaceInv, SpaceSlots
<1> QED BY <1>2, <1>3, TypeIsTold, ProfileIsTold DEF SpacesAreReal, Fits

-----------------------------------------------------------------------------
(* Sums of lengths.                                                          *)

\* The sums of lengths exist.
LEMMA SumsExist ==
  ASSUME NEW w \in Seq(Nat)
  PROVE  Sums(w) = [n \in 0 .. Len(w) |-> IF n = 0 THEN 0 ELSE Sums(w)[n - 1] + w[n]]
<1> DEFINE Adds(f, n) == f \in [0 .. n -> Nat] /\ f[0] = 0 /\ \A m \in 1 .. n : f[m] = f[m - 1] + w[m]
           Bad == {n \in 0 .. Len(w) : ~ \E f : Adds(f, n)}
<1>1. Len(w) \in Nat /\ \A n \in 1 .. Len(w) : w[n] \in Nat
  OBVIOUS
<1>2. PICK f : Adds(f, Len(w))
  <2>1. SUFFICES ASSUME Bad # {} PROVE FALSE
    <3>1. Len(w) \in 0 .. Len(w)
      BY <1>1
    <3> HIDE DEF Adds
    <3> QED BY <3>1
  <2>2. PICK n \in Bad : \A m \in Bad : n <= m
    <3>1. Bad \subseteq Nat
      OBVIOUS
    <3> HIDE DEF Bad
    <3> QED BY <2>1, <3>1, LeastNumber
  <2>3. n # 0
    <3>1. Adds([m \in 0 .. 0 |-> 0], 0)
      OBVIOUS
    <3> QED BY <2>2, <3>1
  <2>4. n \in Nat /\ n - 1 \in 0 .. Len(w) /\ n \in 1 .. Len(w) /\ n - 1 \notin Bad
    <3> HIDE DEF Adds
    <3>1. n \in 0 .. Len(w)
      BY <2>2
    <3>2. n - 1 \notin Bad
      <4>1. n - 1 \in Bad => n <= n - 1
        BY <2>2
      <4> QED BY <1>1, <3>1, <4>1
    <3> QED BY <1>1, <2>3, <3>1, <3>2
  <2>5. PICK f : Adds(f, n - 1)
    BY <2>4
  <2> DEFINE g == [m \in 0 .. n |-> IF m = n THEN f[n - 1] + w[n] ELSE f[m]]
  <2>6. g \in [0 .. n -> Nat] /\ g[0] = 0
    BY <1>1, <2>4, <2>5
  <2>7. ASSUME NEW m \in 1 .. n PROVE g[m] = g[m - 1] + w[m]
    <3>1. CASE m = n
      BY <2>4, <3>1
    <3>2. CASE m # n
      <4>1. m \in 1 .. (n - 1) /\ m \in 0 .. n /\ m - 1 \in 0 .. n /\ m - 1 # n
        BY <2>4, <3>2
      <4> QED BY <2>5, <3>2, <4>1
    <3> QED BY <3>1, <3>2
  <2>8. Adds(g, n)
    BY <2>6, <2>7
  <2> QED BY <2>2, <2>8
<1>3. f = [n \in 0 .. Len(w) |-> IF n = 0 THEN 0 ELSE f[n - 1] + w[n]]
  BY <1>1, <1>2
<1> HIDE DEF Adds
<1> QED BY <1>3 DEF Sums

\* What they are: numbers, each the one before it and the next length.
LEMMA SumsOf ==
  ASSUME NEW w \in Seq(Nat)
  PROVE  /\ Sums(w) \in [0 .. Len(w) -> Nat] /\ Sums(w)[0] = 0
         /\ \A n \in 1 .. Len(w) : Sums(w)[n] = Sums(w)[n - 1] + w[n]
<1>1. PICK s : s = Sums(w)
  OBVIOUS
<1>2. Len(w) \in Nat /\ \A n \in 1 .. Len(w) : w[n] \in Nat
  OBVIOUS
<1>3. /\ s = [n \in 0 .. Len(w) |-> s[n]] /\ s[0] = 0
      /\ \A n \in 1 .. Len(w) : s[n] = s[n - 1] + w[n]
  <2>1. s = [n \in 0 .. Len(w) |-> IF n = 0 THEN 0 ELSE s[n - 1] + w[n]]
    BY <1>1, SumsExist
  <2> QED BY <1>2, <2>1
<1>4. ASSUME NEW n \in 0 .. Len(w) PROVE s[n] \in Nat
  <2> DEFINE Bad == {m \in 0 .. Len(w) : s[m] \notin Nat}
  <2>1. SUFFICES ASSUME Bad # {} PROVE FALSE
    OBVIOUS
  <2>2. PICK m \in Bad : \A l \in Bad : m <= l
    <3>1. Bad \subseteq Nat
      OBVIOUS
    <3> HIDE DEF Bad
    <3> QED BY <2>1, <3>1, LeastNumber
  <2>3. m \in 1 .. Len(w) /\ m - 1 \in 0 .. Len(w) /\ m - 1 \notin Bad
    BY <1>2, <1>3, <2>2
  <2>4. s[m] = s[m - 1] + w[m] /\ s[m - 1] \in Nat /\ w[m] \in Nat
    BY <1>2, <1>3, <2>3
  <2>5. s[m] \in Nat
    BY <2>4
  <2> QED BY <2>2, <2>5
<1> QED BY <1>1, <1>3, <1>4

\* Of lengths that are not zero they grow.
LEMMA SumsAre ==
  ASSUME NEW w \in Seq(Nat \ {0})
  PROVE  /\ Sums(w) \in [0 .. Len(w) -> Nat] /\ Sums(w)[0] = 0
         /\ \A n \in 1 .. Len(w) : Sums(w)[n] = Sums(w)[n - 1] + w[n]
         /\ \A m, n \in 0 .. Len(w) : m < n => Sums(w)[m] < Sums(w)[n]
<1>1. PICK s : s = Sums(w)
  OBVIOUS
<1>2. Len(w) \in Nat /\ \A n \in 1 .. Len(w) : w[n] \in Nat /\ w[n] > 0
  OBVIOUS
<1>3. /\ s \in [0 .. Len(w) -> Nat] /\ s[0] = 0
      /\ \A n \in 1 .. Len(w) : s[n] = s[n - 1] + w[n]
  <2>1. w \in Seq(Nat)
    OBVIOUS
  <2> QED BY <1>1, <2>1, SumsOf
<1>4. \A n \in 0 .. Len(w) : s[n] \in Nat
  BY <1>3
<1>5. ASSUME NEW m \in 0 .. Len(w), NEW n \in 0 .. Len(w), m < n PROVE s[m] < s[n]
  <2> DEFINE Bad == {l \in 0 .. Len(w) : m < l /\ ~ (s[m] < s[l])}
  <2>1. SUFFICES ASSUME Bad # {} PROVE FALSE
    BY <1>5
  <2>2. PICK l \in Bad : \A k \in Bad : l <= k
    <3>1. Bad \subseteq Nat
      OBVIOUS
    <3> HIDE DEF Bad
    <3> QED BY <2>1, <3>1, LeastNumber
  <2>3. l \in 1 .. Len(w) /\ l - 1 \in 0 .. Len(w) /\ l - 1 \notin Bad /\ m < l
    BY <1>2, <2>2
  <2>4. s[l] = s[l - 1] + w[l] /\ s[l - 1] \in Nat /\ s[l] \in Nat /\ s[m] \in Nat
    BY <1>3, <1>4, <2>3
  <2>5. l - 1 = m \/ s[m] < s[l - 1]
    BY <2>3
  <2> QED BY <1>2, <2>2, <2>3, <2>4, <2>5
<1> QED BY <1>1, <1>3, <1>5

\* A set with zero, and with each number up to N whose predecessor it has, has
\* all of them.
LEMMA UpTo ==
  ASSUME NEW N \in Nat, NEW T, 0 \in T, \A n \in 1 .. N : n - 1 \in T => n \in T
  PROVE  \A n \in 0 .. N : n \in T
<1> DEFINE Bad == {n \in 0 .. N : n \notin T}
<1>1. SUFFICES ASSUME Bad # {} PROVE FALSE
  OBVIOUS
<1>2. PICK n \in Bad : \A m \in Bad : n <= m
  <2>1. Bad \subseteq Nat
    OBVIOUS
  <2> HIDE DEF Bad
  <2> QED BY <1>1, <2>1, LeastNumber
<1>3. n \in 0 .. N /\ n # 0
  BY <1>2
<1>4. n \in 1 .. N /\ n - 1 \in 0 .. N
  BY <1>3
<1>5. n - 1 \notin Bad
  <2>1. n - 1 \in Bad => n <= n - 1
    BY <1>2
  <2> QED BY <1>3, <2>1
<1> QED BY <1>2, <1>4, <1>5

-----------------------------------------------------------------------------
(* Fields of a structure.                                                    *)

\* Structures are sequences of fields with sizes.
IsStruct(struct) ==
    /\ Len(struct) \in Nat /\ DOMAIN struct = 1 .. Len(struct)
    /\ \A i \in 1 .. Len(struct) : struct[i][2] \in Nat

\* A field that a structure has lies within it.
LEMMA ExtentWithin ==
  ASSUME NEW struct, IsStruct(struct), NEW path,
         \E i \in 1 .. Len(struct) : IsPrefix(path, struct[i][1])
  PROVE  /\ Extent(struct, path).from \in Nat /\ Extent(struct, path).size \in Nat
         /\ SizeOf(struct) \in Nat
         /\ Extent(struct, path).from + Extent(struct, path).size <= SizeOf(struct)
<1> DEFINE N == Len(struct)
           Has(i) == IsPrefix(path, struct[i][1])
           First(i) == Has(i) /\ \A j \in 1 .. (i - 1) : ~ Has(j)
           first == CHOOSE i \in DOMAIN struct : First(i)
           lens == [i \in DOMAIN struct |-> struct[i][2]]
           own == [i \in DOMAIN struct |-> IF Has(i) THEN struct[i][2] ELSE 0]
           A == Sums(lens)
           B == Sums(own)
<1>1. N \in Nat /\ DOMAIN struct = 1 .. N /\ \A i \in 1 .. N : struct[i][2] \in Nat
  BY DEF IsStruct
<1>2. /\ lens \in Seq(Nat) /\ Len(lens) = N /\ own \in Seq(Nat) /\ Len(own) = N
      /\ \A i \in 1 .. N : lens[i] = struct[i][2] /\ own[i] = IF Has(i) THEN struct[i][2] ELSE 0
  <2> HIDE DEF N, Has
  <2>1. lens \in [1 .. N -> Nat] /\ own \in [1 .. N -> Nat]
    BY <1>1
  <2>2. \A i \in 1 .. N : lens[i] = struct[i][2] /\ own[i] = IF Has(i) THEN struct[i][2] ELSE 0
    BY <1>1
  <2> HIDE DEF lens, own
  <2> QED BY <1>1, <2>1, <2>2
<1>3. first \in 1 .. N /\ First(first)
  <2> DEFINE All == {i \in 1 .. N : Has(i)}
  <2>1. PICK i \in All : \A j \in All : i <= j
    <3>1. All \subseteq Nat /\ All # {}
      BY <1>1
    <3> HIDE DEF All
    <3> QED BY <3>1, LeastNumber
  <2>2. i \in 1 .. N /\ Has(i) /\ \A j \in 1 .. (i - 1) : ~ Has(j)
    <3>1. ASSUME NEW j \in 1 .. (i - 1), Has(j) PROVE FALSE
      <4>1. j \in All /\ ~ (i <= j)
        BY <1>1, <3>1
      <4> QED BY <2>1, <4>1
    <3> QED BY <2>1, <3>1
  <2>3. i \in DOMAIN struct /\ First(i)
    BY <1>1, <2>2
  <2> HIDE DEF First
  <2> QED BY <1>1, <2>3
<1> DEFINE e == Extent(struct, path)
<1>4. e.from = A[first - 1] /\ e.size = B[N] /\ SizeOf(struct) = A[N]
  BY DEF Extent, SizeOf
<1> HIDE DEF lens, own, e, first, N, A, B, Has
<1>5. /\ \A n \in 0 .. N : A[n] \in Nat /\ B[n] \in Nat
      /\ A[0] = 0 /\ B[0] = 0
      /\ \A n \in 1 .. N : A[n] = A[n - 1] + lens[n] /\ B[n] = B[n - 1] + own[n]
  <2>1. A \in [0 .. N -> Nat] /\ A[0] = 0 /\ \A n \in 1 .. N : A[n] = A[n - 1] + lens[n]
    BY <1>2, SumsOf DEF A
  <2>2. B \in [0 .. N -> Nat] /\ B[0] = 0 /\ \A n \in 1 .. N : B[n] = B[n - 1] + own[n]
    BY <1>2, SumsOf DEF B
  <2> QED BY <2>1, <2>2
<1> DEFINE T == {n \in 0 .. N : /\ n < first => B[n] = 0
                                /\ first <= n + 1 => A[first - 1] + B[n] <= A[n]}
<1>6. first \in Nat /\ first - 1 \in 0 .. N /\ A[first - 1] \in Nat
  BY <1>1, <1>3, <1>5
<1>7. 0 \in T
  <2>1. 0 \in 0 .. N
    BY <1>1
  <2>2. first <= 1 => first - 1 = 0
    BY <1>3, <1>6
  <2> QED BY <1>5, <2>1, <2>2
<1>8. ASSUME NEW n \in 1 .. N, n - 1 \in T PROVE n \in T
  <2>1. /\ n \in 0 .. N /\ n - 1 \in 0 .. N
        /\ A[n] = A[n - 1] + lens[n] /\ B[n] = B[n - 1] + own[n]
        /\ A[n] \in Nat /\ A[n - 1] \in Nat /\ B[n] \in Nat /\ B[n - 1] \in Nat
    BY <1>1, <1>5
  <2>2. lens[n] \in Nat /\ (own[n] = lens[n] \/ own[n] = 0)
    BY <1>1, <1>2
  <2>3. CASE n < first
    <3>1. n \in 1 .. (first - 1)
      BY <1>1, <1>6, <2>3
    <3>2. own[n] = 0
      BY <1>2, <1>3, <3>1
    <3>3. B[n - 1] = 0
      BY <1>1, <1>6, <1>8, <2>3
    <3>4. first <= n + 1 => first - 1 = n
      BY <1>1, <1>6, <2>3
    <3> QED BY <1>1, <2>1, <3>2, <3>3, <3>4
  <2>4. CASE first <= n
    <3>1. A[first - 1] + B[n - 1] <= A[n - 1]
      BY <1>1, <1>6, <1>8, <2>4
    <3>2. A[first - 1] + B[n] <= A[n]
      <4>1. \A x, y, z, l, o \in Nat :
               x + y <= z /\ (o = l \/ o = 0) => x + (y + o) <= z + l
        OBVIOUS
      <4>2. own[n] \in Nat
        BY <2>2
      <4>3. A[first - 1] + (B[n - 1] + own[n]) <= A[n - 1] + lens[n]
        BY <1>6, <2>1, <2>2, <3>1, <4>1, <4>2
      <4> QED BY <2>1, <4>3
    <3>3. ~ (n < first)
      BY <1>1, <1>6, <2>4
    <3> QED BY <2>1, <3>2, <3>3
  <2> QED BY <1>1, <1>6, <2>3, <2>4
<1>9. \A n \in 0 .. N : n \in T
  <2> HIDE DEF T
  <2> QED BY <1>1, <1>7, <1>8, UpTo
<1>10. A[first - 1] + B[N] <= A[N] /\ A[N] \in Nat /\ B[N] \in Nat
  <2>1. N \in 0 .. N /\ first <= N + 1
    BY <1>1, <1>3
  <2> QED BY <1>5, <1>9, <2>1
<1> QED BY <1>4, <1>6, <1>10 DEF e

\* A field has a path, of some names, and a size.
FieldsOf(S) == (Seq(S) \ {<<>>}) \X Nat

\* The first names of the paths.
FirstNames(struct) == {g[1][1] : g \in Range(struct)}

LEMMA StructOfFields ==
  ASSUME NEW S, NEW struct \in Seq(FieldsOf(S))
  PROVE  /\ IsStruct(struct)
         /\ \A i \in 1 .. Len(struct) : struct[i] \in FieldsOf(S)
         /\ FirstNames(struct) = {struct[i][1][1] : i \in 1 .. Len(struct)}
<1>1. Len(struct) \in Nat /\ DOMAIN struct = 1 .. Len(struct)
  BY LenProperties
<1>2. \A i \in 1 .. Len(struct) : struct[i] \in FieldsOf(S)
  BY ElementOfSeq
<1>3. \A g \in FieldsOf(S) : g[2] \in Nat
  BY DEF FieldsOf
<1>4. FirstNames(struct) = {struct[i][1][1] : i \in 1 .. Len(struct)}
  BY <1>1 DEF FirstNames, Range
<1> QED BY <1>1, <1>2, <1>3, <1>4 DEF IsStruct

\* A sequence of one element.
LEMMA SequenceOfOne ==
  ASSUME NEW n
  PROVE  /\ Len(<<n>>) = 1 /\ <<n>>[1] = n
         /\ \A s : s[1] = n => SubSeq(s, 1, 1) = <<n>>
         /\ \A S : n \in S => <<n>> \in Seq(S) \ {<<>>}
<1>1. Len(<<n>>) = 1 /\ <<n>>[1] = n /\ <<n>> = [i \in 1 .. 1 |-> n]
  OBVIOUS
<1>2. ASSUME NEW s, s[1] = n PROVE SubSeq(s, 1, 1) = <<n>>
  <2> DEFINE t == SubSeq(s, 1, 1)
  <2>1. /\ t \in Seq({n}) /\ Len(t) = IF 1 <= 1 THEN 1 - 1 + 1 ELSE 0
        /\ \A i \in 1 .. 1 - 1 + 1 : t[i] = s[1 + i - 1]
    <3>1. \A i \in 1 .. 1 : s[i] \in {n}
      BY <1>2
    <3> HIDE DEF t
    <3> QED BY <3>1, SubSeqProperties DEF t
  <2> HIDE DEF t
  <2>2. t \in [1 .. Len(t) -> {n}] /\ Len(t) = 1
    BY <2>1, LenProperties
  <2>3. t = [i \in 1 .. 1 |-> n]
    BY <2>2
  <2> QED BY <1>1, <2>3 DEF t
<1>3. ASSUME NEW S, n \in S PROVE <<n>> \in Seq(S)
  <2>1. \A i \in 1 .. 1 : <<n>>[i] \in S
    BY <1>1, <1>3
  <2>2. SubSeq(<<n>>, 1, 1) \in Seq(S)
    BY <2>1, SubSeqProperties
  <2> QED BY <1>1, <1>2, <2>2
<1>4. <<n>> # <<>>
  OBVIOUS
<1> QED BY <1>1, <1>2, <1>3, <1>4

\* A path of one name is a prefix of those that begin with it.
LEMMA PrefixOfOne ==
  ASSUME NEW S, NEW n, NEW path \in Seq(S) \ {<<>>}, path[1] = n
  PROVE  IsPrefix(<<n>>, path)
<1>1. Len(<<n>>) = 1 /\ Len(path) \in Nat /\ Len(path) > 0
  BY SequenceOfOne, EmptySeq
<1>2. SubSeq(<<n>>, 1, 1) = <<n>>
  BY SequenceOfOne
<1>3. SubSeq(path, 1, 1) = <<n>>
  BY SequenceOfOne
<1> QED BY <1>1, <1>2, <1>3 DEF IsPrefix

LEMMA FieldOfName ==
  ASSUME NEW S, NEW struct \in Seq(FieldsOf(S)), NEW n \in FirstNames(struct)
  PROVE  \E i \in 1 .. Len(struct) : IsPrefix(<<n>>, struct[i][1])
<1>1. PICK i \in 1 .. Len(struct) : struct[i][1][1] = n
  BY StructOfFields
<1>2. struct[i] \in FieldsOf(S)
  BY StructOfFields
<1>3. struct[i][1] \in Seq(S) \ {<<>>}
  BY <1>2 DEF FieldsOf
<1> QED BY <1>1, <1>3, PrefixOfOne

\* Fields of one size.
LEMMA FieldsAre ==
  ASSUME NEW S, NEW names \in Seq(S), NEW bytes \in Nat
  PROVE  /\ Fields(names, bytes) \in Seq(FieldsOf(S))
         /\ FirstNames(Fields(names, bytes)) = Range(names)
<1>1. Len(names) \in Nat /\ DOMAIN names = 1 .. Len(names)
  BY LenProperties
<1>2. ASSUME NEW n \in S PROVE <<<<n>>, bytes>> \in FieldsOf(S) /\ <<n>>[1] = n
  <2>1. <<n>>[1] = n
    BY SequenceOfOne
  <2>4. <<n>> \in Seq(S) \ {<<>>}
    BY SequenceOfOne
  <2>5. \A p \in Seq(S) \ {<<>>} : <<p, bytes>> \in FieldsOf(S)
    BY DEF FieldsOf
  <2> QED BY <2>1, <2>4, <2>5
<1> DEFINE F == Fields(names, bytes)
<1>3. /\ F = [i \in 1 .. Len(names) |-> F[i]]
      /\ \A i \in 1 .. Len(names) : F[i] = <<<<names[i]>>, bytes>>
  BY <1>1 DEF Fields
<1> HIDE DEF F
<1>4. \A i \in 1 .. Len(names) : names[i] \in S
  BY ElementOfSeq
<1>5. F \in [1 .. Len(names) -> FieldsOf(S)]
  BY <1>2, <1>3, <1>4
<1>6. F \in Seq(FieldsOf(S)) /\ Len(F) = Len(names)
  BY <1>1, <1>5
<1>7. FirstNames(F) = {F[i][1][1] : i \in 1 .. Len(F)}
  BY <1>6, StructOfFields
<1>8. \A i \in 1 .. Len(names) : F[i][1][1] = names[i]
  BY <1>3
<1>9. FirstNames(F) = Range(names)
  BY <1>1, <1>6, <1>7, <1>8 DEF Range
<1> QED BY <1>6, <1>9 DEF F

\* The fields of a structure inside another.
LEMMA InAre ==
  ASSUME NEW S, NEW field \in S, NEW struct \in Seq(FieldsOf(S))
  PROVE  /\ In(field, struct) \in Seq(FieldsOf(S))
         /\ struct # <<>> => FirstNames(In(field, struct)) = {field}
<1>1. /\ Len(struct) \in Nat /\ DOMAIN struct = 1 .. Len(struct)
      /\ \A i \in 1 .. Len(struct) : struct[i] \in FieldsOf(S)
  BY LenProperties, StructOfFields
<1>2. ASSUME NEW path \in Seq(S)
      PROVE  <<field>> \o path \in Seq(S) \ {<<>>} /\ (<<field>> \o path)[1] = field
  <2>1. <<field>> \in Seq(S) /\ Len(<<field>>) = 1 /\ <<field>>[1] = field
    <3>1. <<field>> \in Seq(S)
      BY SequenceOfOne
    <3> QED BY <3>1, SequenceOfOne
  <2>2. /\ <<field>> \o path \in Seq(S) /\ Len(<<field>> \o path) = 1 + Len(path)
        /\ Len(path) \in Nat
    BY <2>1, ConcatProperties, LenProperties
  <2>3. 1 \in 1 .. (Len(<<field>>) + Len(path))
    BY <2>1, <2>2
  <2>4. (<<field>> \o path)[1] = <<field>>[1]
    BY <2>1, <2>3, ConcatProperties
  <2>5. Len(<<field>> \o path) # 0
    BY <2>2
  <2>6. <<field>> \o path # <<>>
    BY <2>2, <2>5, EmptySeq
  <2> QED BY <2>1, <2>2, <2>4, <2>6
<1>3. ASSUME NEW g \in FieldsOf(S)
      PROVE  /\ <<<<field>> \o g[1], g[2]>> \in FieldsOf(S)
             /\ <<<<field>> \o g[1], g[2]>>[1][1] = field
  <2>1. g[1] \in Seq(S) /\ g[2] \in Nat
    BY DEF FieldsOf
  <2> QED BY <1>2, <2>1 DEF FieldsOf
<1> DEFINE F == In(field, struct)
<1>4. /\ F = [i \in 1 .. Len(struct) |-> F[i]]
      /\ \A i \in 1 .. Len(struct) : F[i] = <<<<field>> \o struct[i][1], struct[i][2]>>
  BY <1>1 DEF In
<1> HIDE DEF F
<1>5. ASSUME NEW i \in 1 .. Len(struct) PROVE F[i] \in FieldsOf(S) /\ F[i][1][1] = field
  <2>1. struct[i] \in FieldsOf(S) /\ F[i] = <<<<field>> \o struct[i][1], struct[i][2]>>
    BY <1>1, <1>4
  <2> QED BY <1>3, <2>1
<1>6. F \in [1 .. Len(struct) -> FieldsOf(S)]
  BY <1>4, <1>5
<1>7. F \in Seq(FieldsOf(S)) /\ Len(F) = Len(struct)
  BY <1>1, <1>6
<1>8. FirstNames(F) = {F[i][1][1] : i \in 1 .. Len(F)}
  BY <1>7, StructOfFields
<1>9. struct # <<>> => 1 \in 1 .. Len(struct)
  BY <1>1, EmptySeq
<1>10. struct # <<>> => FirstNames(F) = {field}
  BY <1>5, <1>7, <1>8, <1>9
<1> QED BY <1>7, <1>10 DEF F

\* One structure behind another.
LEMMA BothAre ==
  ASSUME NEW S, NEW a \in Seq(FieldsOf(S)), NEW b \in Seq(FieldsOf(S))
  PROVE  /\ a \o b \in Seq(FieldsOf(S)) /\ FirstNames(a \o b) = FirstNames(a) \cup FirstNames(b)
         /\ a # <<>> => a \o b # <<>>
<1>1. a \o b \in Seq(FieldsOf(S)) /\ Range(a \o b) = Range(a) \cup Range(b)
  BY ConcatProperties, RangeConcatenation
<1>2. a # <<>> => a \o b # <<>>
  BY ConcatEqualIffEmpty
<1>3. FirstNames(a \o b) = FirstNames(a) \cup FirstNames(b)
  BY <1>1 DEF FirstNames
<1> QED BY <1>1, <1>2, <1>3

\* Names of fields.
Names ==
    {"inode", "generation", "transid", "size", "nbytes", "block_group", "nlink", "uid", "gid",
     "mode", "rdev", "flags", "sequence", "reserved", "atime", "sec", "nsec", "ctime", "mtime",
     "otime", "root_dirid", "bytenr", "byte_limit", "bytes_used", "last_snapshot", "refs",
     "drop_progress", "objectid", "type_", "offset", "drop_level", "level", "generation_v2",
     "uuid", "parent_uuid", "received_uuid", "ctransid", "otransid", "stransid", "rtransid",
     "stime", "rtime", "treeid", "name", "parent_id", "dirid"}

FieldsHere == FieldsOf(Names)

\* Fields of one size, and those of a structure inside another.
LEMMA PiecesAre ==
  /\ \A names \in Seq(Names) : \A n \in Nat :
        /\ Fields(names, n) \in Seq(FieldsHere)
        /\ FirstNames(Fields(names, n)) = Range(names)
  /\ \A f \in Names : \A struct \in Seq(FieldsHere) :
        /\ In(f, struct) \in Seq(FieldsHere)
        /\ struct # <<>> => FirstNames(In(f, struct)) = {f}
  /\ \A a, b \in Seq(FieldsHere) :
        a \o b \in Seq(FieldsHere) /\ FirstNames(a \o b) = FirstNames(a) \cup FirstNames(b)
<1>1. ASSUME NEW names \in Seq(Names), NEW n \in Nat
      PROVE  /\ Fields(names, n) \in Seq(FieldsHere)
             /\ FirstNames(Fields(names, n)) = Range(names)
  BY FieldsAre DEF FieldsHere
<1>2. ASSUME NEW f \in Names, NEW struct \in Seq(FieldsHere)
      PROVE  /\ In(f, struct) \in Seq(FieldsHere)
             /\ struct # <<>> => FirstNames(In(f, struct)) = {f}
  BY InAre DEF FieldsHere
<1>3. ASSUME NEW a \in Seq(FieldsHere), NEW b \in Seq(FieldsHere)
      PROVE  a \o b \in Seq(FieldsHere) /\ FirstNames(a \o b) = FirstNames(a) \cup FirstNames(b)
  BY BothAre DEF FieldsHere
<1> QED BY <1>1, <1>2, <1>3

LEMMA SomeFields ==
  ASSUME NEW struct \in Seq(FieldsHere), FirstNames(struct) # {}
  PROVE  struct # <<>>
<1>1. ASSUME struct = <<>> PROVE FALSE
  <2>1. FirstNames(struct) = {struct[i][1][1] : i \in 1 .. Len(struct)}
    BY StructOfFields DEF FieldsHere
  <2>2. Len(struct) = 0
    BY <1>1, EmptySeq
  <2> QED BY <2>1, <2>2
<1> QED BY <1>1

\* Times and keys.
LEMMA PartsAre ==
  /\ btrfs_timespec \in Seq(FieldsHere) /\ btrfs_timespec # <<>>
  /\ btrfs_disk_key \in Seq(FieldsHere)
<1>1. /\ <<"sec">> \in Seq(Names) /\ <<"nsec">> \in Seq(Names) /\ <<"objectid">> \in Seq(Names)
      /\ <<"type_">> \in Seq(Names) /\ <<"offset">> \in Seq(Names)
  BY DEF Names
<1>2. Range(<<"sec">>) = {"sec"}
  BY DEF Range
<1>3. /\ Le64(<<"sec">>) \in Seq(FieldsHere) /\ FirstNames(Le64(<<"sec">>)) = {"sec"}
      /\ Le32(<<"nsec">>) \in Seq(FieldsHere)
      /\ Le64(<<"objectid">>) \in Seq(FieldsHere) /\ Byte(<<"type_">>) \in Seq(FieldsHere)
      /\ Le64(<<"offset">>) \in Seq(FieldsHere)
  BY <1>1, <1>2, PiecesAre DEF Le64, Le32, Byte
<1>4. btrfs_timespec \in Seq(FieldsHere) /\ "sec" \in FirstNames(btrfs_timespec)
  BY <1>3, PiecesAre DEF btrfs_timespec
<1>5. btrfs_disk_key \in Seq(FieldsHere)
  BY <1>3, PiecesAre DEF btrfs_disk_key
<1> QED BY <1>4, <1>5, SomeFields

\* The structure of an inode.
LEMMA InodeItemIs == btrfs_inode_item \in Seq(FieldsHere)
<1>1. /\ <<"generation", "transid", "size", "nbytes", "block_group">> \in Seq(Names)
      /\ <<"nlink", "uid", "gid", "mode">> \in Seq(Names)
      /\ <<"rdev", "flags", "sequence">> \in Seq(Names) /\ <<"reserved">> \in Seq(Names)
  BY DEF Names
<1>2. "atime" \in Names /\ "ctime" \in Names /\ "mtime" \in Names /\ "otime" \in Names
  BY DEF Names
<1>3. /\ Le64(<<"generation", "transid", "size", "nbytes", "block_group">>) \in Seq(FieldsHere)
      /\ Le32(<<"nlink", "uid", "gid", "mode">>) \in Seq(FieldsHere)
      /\ Le64(<<"rdev", "flags", "sequence">>) \in Seq(FieldsHere)
      /\ Bytes("reserved", 32) \in Seq(FieldsHere)
  BY <1>1, PiecesAre DEF Le64, Le32, Bytes
<1>4. /\ In("atime", btrfs_timespec) \in Seq(FieldsHere)
      /\ In("ctime", btrfs_timespec) \in Seq(FieldsHere)
      /\ In("mtime", btrfs_timespec) \in Seq(FieldsHere)
      /\ In("otime", btrfs_timespec) \in Seq(FieldsHere)
  BY <1>2, PartsAre, PiecesAre
<1> QED BY <1>3, <1>4, PiecesAre DEF btrfs_inode_item

\* A root item has the fields that get_info_by_id takes from it.
LEMMA RootItemIs ==
  /\ btrfs_root_item \in Seq(FieldsHere)
  /\ InRootItem \subseteq FirstNames(btrfs_root_item)
<1> DEFINE n2 == <<"generation", "root_dirid", "bytenr", "byte_limit", "bytes_used",
                   "last_snapshot", "flags">>
           n7 == <<"uuid", "parent_uuid", "received_uuid">>
           n8 == <<"ctransid", "otransid", "stransid", "rtransid">>
           p1 == In("inode", btrfs_inode_item)
           p2 == Le64(n2)
           p3 == Le32(<<"refs">>)
           p4 == In("drop_progress", btrfs_disk_key)
           p5 == Byte(<<"drop_level", "level">>)
           p6 == Le64(<<"generation_v2">>)
           p7 == Uuid(n7)
           p8 == Le64(n8)
           t(f) == In(f, btrfs_timespec)
           p13 == Bytes("reserved", 64)
<1>1. /\ n2 \in Seq(Names) /\ n7 \in Seq(Names) /\ n8 \in Seq(Names)
      /\ <<"refs">> \in Seq(Names) /\ <<"drop_level", "level">> \in Seq(Names)
      /\ <<"generation_v2">> \in Seq(Names) /\ <<"reserved">> \in Seq(Names)
  BY DEF Names
<1>2. /\ {"generation", "flags"} \subseteq Range(n2)
      /\ {"uuid", "parent_uuid", "received_uuid"} \subseteq Range(n7)
      /\ {"ctransid", "otransid", "stransid", "rtransid"} \subseteq Range(n8)
  BY DEF Range
<1>3. /\ "inode" \in Names /\ "drop_progress" \in Names
      /\ "ctime" \in Names /\ "otime" \in Names /\ "stime" \in Names /\ "rtime" \in Names
  BY DEF Names
<1> HIDE DEF n2, n7, n8
<1>4. /\ p2 \in Seq(FieldsHere) /\ FirstNames(p2) = Range(n2)
      /\ p3 \in Seq(FieldsHere) /\ p5 \in Seq(FieldsHere) /\ p6 \in Seq(FieldsHere)
      /\ p7 \in Seq(FieldsHere) /\ FirstNames(p7) = Range(n7)
      /\ p8 \in Seq(FieldsHere) /\ FirstNames(p8) = Range(n8)
      /\ p13 \in Seq(FieldsHere)
  BY <1>1, PiecesAre DEF Le64, Le32, Byte, Uuid, Bytes
<1>5. p1 \in Seq(FieldsHere) /\ p4 \in Seq(FieldsHere)
  BY <1>3, InodeItemIs, PartsAre, PiecesAre
<1>6. ASSUME NEW f \in {"ctime", "otime", "stime", "rtime"}
      PROVE  t(f) \in Seq(FieldsHere) /\ FirstNames(t(f)) = {f}
  BY <1>3, PartsAre, PiecesAre
<1>7. btrfs_root_item = p1 \o p2 \o p3 \o p4 \o p5 \o p6 \o p7 \o p8
                        \o t("ctime") \o t("otime") \o t("stime") \o t("rtime") \o p13
  BY DEF btrfs_root_item, n2, n7, n8
<1> HIDE DEF p1, p2, p3, p4, p5, p6, p7, p8, t, p13
<1> DEFINE Has(s, names) == s \in Seq(FieldsHere) /\ names \subseteq FirstNames(s)
<1>8. ASSUME NEW a, NEW b, NEW m, NEW n, Has(a, m), Has(b, n) PROVE Has(a \o b, m \cup n)
  BY <1>8, PiecesAre
<1>9. ASSUME NEW a, NEW b, NEW m, Has(a, m), Has(b, {}) PROVE Has(a \o b, m)
  BY <1>9, PiecesAre
<1>10. /\ Has(p1, {}) /\ Has(p2, Range(n2)) /\ Has(p3, {}) /\ Has(p4, {}) /\ Has(p5, {})
       /\ Has(p6, {}) /\ Has(p7, Range(n7)) /\ Has(p8, Range(n8)) /\ Has(p13, {})
  BY <1>4, <1>5
<1>11. /\ Has(t("ctime"), {"ctime"}) /\ Has(t("otime"), {"otime"})
       /\ Has(t("stime"), {"stime"}) /\ Has(t("rtime"), {"rtime"})
  BY <1>6
<1> HIDE DEF Has
<1> DEFINE c5 == p1 \o p2 \o p3 \o p4 \o p5
           c8 == c5 \o p6 \o p7 \o p8
           s5 == {} \cup Range(n2)
           s8 == s5 \cup Range(n7) \cup Range(n8)
           s12 == s8 \cup {"ctime"} \cup {"otime"} \cup {"stime"} \cup {"rtime"}
<1>12. Has(c5, s5)
  BY <1>8, <1>9, <1>10
<1> HIDE DEF c5, s5
<1>13. Has(c8, s8)
  BY <1>8, <1>9, <1>10, <1>12
<1> HIDE DEF c8, s8
<1>14. Has(c8 \o t("ctime") \o t("otime") \o t("stime") \o t("rtime"), s12)
  BY <1>8, <1>11, <1>13
<1>15. Has(c8 \o t("ctime") \o t("otime") \o t("stime") \o t("rtime") \o p13, s12)
  BY <1>9, <1>10, <1>14
<1>16. Has(btrfs_root_item, s12)
  BY <1>7, <1>15 DEF c5, c8
<1>17. InRootItem \subseteq s12
  BY <1>2 DEF InRootItem, s5, s8
<1> QED BY <1>16, <1>17 DEF Has

\* What get_info_by_id reads of a root item lies within its structure.
LEMMA SourceIsWithin ==
  ASSUME NEW f \in InRootItem
  PROVE  LET e == Extent(btrfs_root_item, <<f>>)
         IN  e.from + e.size \in Nat /\ e.from + e.size <= SizeOf(btrfs_root_item)
             /\ SizeOf(btrfs_root_item) \in Nat
<1>1. btrfs_root_item \in Seq(FieldsOf(Names)) /\ f \in FirstNames(btrfs_root_item)
  BY RootItemIs DEF FieldsHere
<1>2. IsStruct(btrfs_root_item)
  BY <1>1, StructOfFields
<1>3. \E i \in 1 .. Len(btrfs_root_item) : IsPrefix(<<f>>, btrfs_root_item[i][1])
  BY <1>1, FieldOfName
<1> QED BY <1>2, <1>3, ExtentWithin

\* The fields of the structure that is filled.
LEMMA InfoArgsAre ==
  FirstNames(btrfs_ioctl_get_subvol_info_args)
     \subseteq InRootItem \cup {"name", "dirid", "parent_id"} \cup {"treeid", "reserved"}
<1> DEFINE All == InRootItem \cup {"name", "dirid", "parent_id"} \cup {"treeid", "reserved"}
           n3 == <<"parent_id", "dirid", "generation", "flags">>
           n4 == <<"uuid", "parent_uuid", "received_uuid">>
           n5 == <<"ctransid", "otransid", "stransid", "rtransid">>
           one(n) == Bytes(n[1], n[2])
           p1 == Le64(<<"treeid">>)
           p3 == Le64(n3)
           p4 == Uuid(n4)
           p5 == Le64(n5)
           Ones == {"name", "ctime", "otime", "stime", "rtime", "reserved"}
<1>1. /\ n3 \in Seq(Names) /\ n4 \in Seq(Names) /\ n5 \in Seq(Names)
      /\ <<"treeid">> \in Seq(Names)
  BY DEF Names
<1>2. /\ Range(n3) \subseteq All /\ Range(n4) \subseteq All /\ Range(n5) \subseteq All
      /\ Range(<<"treeid">>) \subseteq All
  BY DEF Range, InRootItem
<1>3. ASSUME NEW n \in Ones PROVE <<n>> \in Seq(Names) /\ Range(<<n>>) \subseteq All
  <2>1. n \in Names /\ n \in All
    BY DEF Names, InRootItem
  <2> HIDE DEF All
  <2> QED BY <2>1, SequenceOfOne DEF Range
<1> HIDE DEF n3, n4, n5
<1>4. /\ p1 \in Seq(FieldsHere) /\ FirstNames(p1) \subseteq All
      /\ p3 \in Seq(FieldsHere) /\ FirstNames(p3) \subseteq All
      /\ p4 \in Seq(FieldsHere) /\ FirstNames(p4) \subseteq All
      /\ p5 \in Seq(FieldsHere) /\ FirstNames(p5) \subseteq All
  <2> HIDE DEF All
  <2> QED BY <1>1, <1>2, PiecesAre DEF Le64, Uuid
<1>5. ASSUME NEW n \in Ones, NEW b \in Nat
      PROVE  Bytes(n, b) \in Seq(FieldsHere) /\ FirstNames(Bytes(n, b)) \subseteq All
  <2> HIDE DEF All, Ones
  <2>1. <<n>> \in Seq(Names) /\ Range(<<n>>) \subseteq All
    BY <1>3
  <2>2. Bytes(n, b) = Fields(<<n>>, b)
    BY DEF Bytes
  <2> QED BY <2>1, <2>2, PiecesAre
<1>6. btrfs_ioctl_get_subvol_info_args =
        p1 \o Bytes("name", 256) \o p3 \o p4 \o p5 \o Bytes("ctime", 16) \o Bytes("otime", 16)
        \o Bytes("stime", 16) \o Bytes("rtime", 16) \o Bytes("reserved", 64)
  BY DEF btrfs_ioctl_get_subvol_info_args, n3, n4, n5
<1> HIDE DEF p1, p3, p4, p5, All
<1> DEFINE Right(s) == s \in Seq(FieldsHere) /\ FirstNames(s) \subseteq All
<1>7. ASSUME NEW a, NEW b, Right(a), Right(b) PROVE Right(a \o b)
  BY <1>7, PiecesAre
<1>8. Right(p1) /\ Right(p3) /\ Right(p4) /\ Right(p5)
  BY <1>4
<1>9. \A n \in Ones : \A b \in Nat : Right(Bytes(n, b))
  BY <1>5
<1> HIDE DEF Right
<1>10. /\ Right(Bytes("name", 256)) /\ Right(Bytes("reserved", 64))
       /\ Right(Bytes("ctime", 16)) /\ Right(Bytes("otime", 16))
       /\ Right(Bytes("stime", 16)) /\ Right(Bytes("rtime", 16))
  BY <1>9
<1>11. Right(btrfs_ioctl_get_subvol_info_args)
  BY <1>6, <1>7, <1>8, <1>10
<1> QED BY <1>11 DEF Right, All

\* A header takes some room.
LEMMA HeaderHasSize == header \in Nat \ {0}
<1> DEFINE lens == [i \in DOMAIN btrfs_ioctl_search_header |-> btrfs_ioctl_search_header[i][2]]
<1>1. lens \in Seq(Nat \ {0}) /\ Len(lens) = 5 /\ Len(btrfs_ioctl_search_header) = 5
  <2> DEFINE a == Le64(<<"transid", "objectid", "offset">>)
             b == Le32(<<"type_", "len">>)
             S == {a[1], a[2], a[3], b[1], b[2]}
  <2>1. DOMAIN a = 1 .. 3 /\ a = [i \in 1 .. 3 |-> a[i]] /\ \A i \in 1 .. 3 : a[i][2] = 8
    BY DEF Le64, Fields
  <2>2. DOMAIN b = 1 .. 2 /\ b = [i \in 1 .. 2 |-> b[i]] /\ \A i \in 1 .. 2 : b[i][2] = 4
    BY DEF Le32, Fields
  <2>3. btrfs_ioctl_search_header = a \o b
    BY DEF btrfs_ioctl_search_header
  <2> HIDE DEF a, b
  <2>4. \A e \in S : e[2] \in Nat \ {0}
    BY <2>1, <2>2
  <2>6. a \in Seq(S) /\ b \in Seq(S) /\ Len(a) = 3 /\ Len(b) = 2
    BY <2>1, <2>2
  <2> HIDE DEF S
  <2>5. a \o b \in Seq(S) /\ Len(a \o b) = Len(a) + Len(b)
    BY <2>6, ConcatProperties
  <2>7. btrfs_ioctl_search_header \in Seq(S) /\ Len(btrfs_ioctl_search_header) = 5
    BY <2>3, <2>5, <2>6
  <2>8. /\ DOMAIN btrfs_ioctl_search_header = 1 .. 5
        /\ \A i \in 1 .. 5 : btrfs_ioctl_search_header[i] \in S
    BY <2>7, LenProperties
  <2>9. \A i \in 1 .. 5 : btrfs_ioctl_search_header[i][2] \in Nat \ {0}
    BY <2>4, <2>8
  <2>10. lens \in [1 .. 5 -> Nat \ {0}]
    BY <2>8, <2>9
  <2> HIDE DEF lens
  <2>11. lens \in Seq(Nat \ {0}) /\ Len(lens) = 5
    <3>1. PICK n \in Nat : n = 5
      OBVIOUS
    <3>2. lens \in [1 .. n -> Nat \ {0}]
      BY <2>10, <3>1
    <3>3. lens \in Seq(Nat \ {0}) /\ Len(lens) = n
      BY <3>2
    <3> QED BY <3>1, <3>3
  <2> QED BY <2>7, <2>11
<1>2. header = Sums(lens)[5]
  BY <1>1 DEF header, SizeOf
<1> HIDE DEF lens
<1>4. 0 \in 0 .. Len(lens) /\ 5 \in 0 .. Len(lens)
  BY <1>1
<1>3. Sums(lens)[0] < Sums(lens)[5] /\ Sums(lens)[0] = 0 /\ Sums(lens)[5] \in Nat
  <2>1. /\ Sums(lens) \in [0 .. Len(lens) -> Nat] /\ Sums(lens)[0] = 0
        /\ \A m, n \in 0 .. Len(lens) : m < n => Sums(lens)[m] < Sums(lens)[n]
    BY <1>1, SumsAre
  <2> QED BY <1>4, <2>1
<1> QED BY <1>2, <1>3

-----------------------------------------------------------------------------
(* The order of the items, and the sequence that InOrder makes of a set.     *)

\* TreeSearch counts as we do.
LEMMA SameCardinality == \A S : Abstract!Cardinality(S) = Cardinality(S)
BY DEF Abstract!Cardinality, Cardinality

\* A key has three parts.
LEMMA KeyParts ==
  ASSUME NEW k \in Keys
  PROVE  k[1] \in Nat /\ k[2] \in Nat /\ k[3] \in Nat /\ k = <<k[1], k[2], k[3]>> /\ k[3] <= MaxOffset
  BY SearchesAssumption DEF Keys, MaxType

\* Keys are in a strict total order.
LEMMA KeyOrder ==
  ASSUME NEW j \in Keys, NEW k \in Keys, NEW l \in Keys
  PROVE  /\ ~ Abstract!Below(k, k)
         /\ Abstract!Below(j, k) /\ Abstract!Below(k, l) => Abstract!Below(j, l)
         /\ Abstract!Below(j, k) => ~ Abstract!Below(k, j)
         /\ j = k \/ Abstract!Below(j, k) \/ Abstract!Below(k, j)
  BY KeyParts DEF Abstract!Below

\* There are finitely many keys.
LEMMA KeysFinite == IsFiniteSet(Keys)
<1> DEFINE A == 0 .. MaxObjectid
           B == 0 .. MaxType
           C == 0 .. MaxOffset
           Pairs == (A \X B) \X C
           f == [p \in Pairs |-> <<p[1][1], p[1][2], p[2]>>]
<1>1. IsFiniteSet(A) /\ IsFiniteSet(B) /\ IsFiniteSet(C)
  <2>1. MaxObjectid \in Int /\ MaxType \in Int /\ MaxOffset \in Int /\ 0 \in Int
    BY SearchesAssumption DEF MaxType
  <2> QED BY <2>1, FS_Interval
<1>2. IsFiniteSet(Pairs)
  BY <1>1, FS_Product
<1>3. f \in Surjection(Pairs, A \X B \X C)
  <2>1. f \in [Pairs -> A \X B \X C]
    OBVIOUS
  <2>2. ASSUME NEW a \in A, NEW b \in B, NEW c \in C
        PROVE  <<<<a, b>>, c>> \in Pairs /\ f[<<<<a, b>>, c>>] = <<a, b, c>>
    OBVIOUS
  <2>3. \A t \in A \X B \X C : \E p \in Pairs : f[p] = t
    <3>1. SUFFICES ASSUME NEW t \in A \X B \X C PROVE \E p \in Pairs : f[p] = t
      OBVIOUS
    <3>2. PICK a \in A, b \in B, c \in C : t = <<a, b, c>>
      OBVIOUS
    <3>3. <<<<a, b>>, c>> \in Pairs /\ f[<<<<a, b>>, c>>] = t
      BY <2>2, <3>2
    <3> HIDE DEF Pairs, f
    <3> QED BY <3>3
  <2> QED BY <2>1, <2>3 DEF Surjection
<1>4. IsFiniteSet(A \X B \X C)
  BY <1>2, <1>3, FS_Surjection
<1> QED BY <1>4 DEF Keys

\* How many keys of s are below k.
Rank(s, k) == Cardinality({j \in s : Abstract!Below(j, k)})

\* A rank is less than the number of keys, and grows with the key.
LEMMA Ranks ==
  ASSUME NEW s \in SUBSET Keys, NEW k \in s
  PROVE  /\ IsFiniteSet(s) /\ Cardinality(s) \in Nat
         /\ Rank(s, k) \in 0 .. (Cardinality(s) - 1)
         /\ \A l \in s : Abstract!Below(k, l) => Rank(s, k) < Rank(s, l)
<1> DEFINE Lower(l) == {j \in s : Abstract!Below(j, l)}
<1>1. IsFiniteSet(s) /\ Cardinality(s) \in Nat
  BY KeysFinite, FS_Subset, FS_CardinalityType
<1>2. \A t \in SUBSET s : IsFiniteSet(t) /\ Cardinality(t) \in Nat /\ Cardinality(t) <= Cardinality(s)
  BY <1>1, FS_Subset, FS_CardinalityType
<1>3. k \notin Lower(k) /\ Lower(k) \in SUBSET s
  BY KeyOrder
<1>4. Cardinality(Lower(k) \cup {k}) = Cardinality(Lower(k)) + 1
  BY <1>2, <1>3, FS_AddElement
<1>5. Rank(s, k) \in 0 .. (Cardinality(s) - 1)
  <2>1. Lower(k) \cup {k} \in SUBSET s
    OBVIOUS
  <2>2. Cardinality(Lower(k)) \in Nat /\ Cardinality(Lower(k)) + 1 <= Cardinality(s)
    BY <1>2, <1>3, <1>4, <2>1
  <2> QED BY <1>1, <2>2 DEF Rank
<1>6. ASSUME NEW l \in s, Abstract!Below(k, l) PROVE Rank(s, k) < Rank(s, l)
  <2>1. Lower(k) \cup {k} \in SUBSET Lower(l)
    BY <1>6, KeyOrder
  <2>2. IsFiniteSet(Lower(l)) /\ Cardinality(Lower(l)) \in Nat
    BY <1>2
  <2>3. Cardinality(Lower(k) \cup {k}) <= Cardinality(Lower(l))
    BY <2>1, <2>2, FS_Subset
  <2>4. Cardinality(Lower(k)) \in Nat
    BY <1>2, <1>3
  <2> QED BY <1>4, <2>2, <2>3, <2>4 DEF Rank
<1> QED BY <1>1, <1>5, <1>6

\* Each number below that of the keys is the rank of one of them.
LEMMA RanksOnto ==
  ASSUME NEW s \in SUBSET Keys, NEW r \in 0 .. (Cardinality(s) - 1)
  PROVE  \E k \in s : Rank(s, k) = r
<1> DEFINE n == Cardinality(s)
           f == [k \in s |-> Rank(s, k)]
<1>1. IsFiniteSet(s) /\ n \in Nat
  BY KeysFinite, FS_Subset, FS_CardinalityType
<1>2. IsFiniteSet(0 .. (n - 1)) /\ Cardinality(0 .. (n - 1)) = n
  BY <1>1, FS_Interval
<1>3. f \in [s -> 0 .. (n - 1)]
  BY Ranks
<1>4. \A k, l \in s : Rank(s, k) = Rank(s, l) => k = l
  <2>1. SUFFICES ASSUME NEW k \in s, NEW l \in s, Rank(s, k) = Rank(s, l) PROVE k = l
    OBVIOUS
  <2>2. Rank(s, k) \in Int /\ Rank(s, l) \in Int
    BY <1>1, Ranks
  <2>3. ~ Abstract!Below(k, l) /\ ~ Abstract!Below(l, k)
    BY <2>1, <2>2, Ranks
  <2> QED BY <2>3, KeyOrder
<1>5. f \in Injection(s, 0 .. (n - 1))
  BY <1>3, <1>4 DEF Injection, IsInjective
<1>6. f \in Surjection(s, 0 .. (n - 1))
  BY <1>1, <1>2, <1>5, FS_Injection
<1> QED BY <1>6 DEF Surjection

\* Abstract!InOrder(s) has each key of s once, each one above those before it.
LEMMA InOrderAscends ==
  ASSUME NEW s \in SUBSET Keys
  PROVE  /\ IsFiniteSet(s) /\ Cardinality(s) \in Nat
         /\ Abstract!InOrder(s) \in [1 .. Cardinality(s) -> s]
         /\ \A i, j \in 1 .. Cardinality(s) : i < j => Abstract!Below(Abstract!InOrder(s)[i], Abstract!InOrder(s)[j])
         /\ \A k \in s : \E i \in 1 .. Cardinality(s) : Abstract!InOrder(s)[i] = k
<1> DEFINE n == Cardinality(s)
           q == Abstract!InOrder(s)
<1>1. IsFiniteSet(s) /\ n \in Nat
  BY KeysFinite, FS_Subset, FS_CardinalityType
<1>2. ASSUME NEW i \in 1 .. n PROVE q[i] \in s /\ Rank(s, q[i]) = i - 1
  <2>1. i - 1 \in 0 .. (n - 1)
    BY <1>1
  <2>2. \E k \in s : Rank(s, k) = i - 1
    BY <2>1, RanksOnto
  <2>3. q[i] = CHOOSE k \in s : Rank(s, k) = i - 1
    BY SameCardinality DEF Abstract!InOrder, Rank
  <2> QED BY <2>2, <2>3
<1>3. q \in [1 .. n -> s]
  <2> DEFINE Pick(i) == CHOOSE k \in s : Abstract!Cardinality({j \in s : Abstract!Below(j, k)}) = i - 1
  <2>1. q = [i \in 1 .. Abstract!Cardinality(s) |-> Pick(i)]
    BY DEF Abstract!InOrder
  <2>2. Abstract!Cardinality(s) = n
    BY SameCardinality
  <2> HIDE DEF q, n, Pick
  <2> QED BY <1>2, <2>1, <2>2
<1>4. ASSUME NEW i \in 1 .. n, NEW j \in 1 .. n, i < j PROVE Abstract!Below(q[i], q[j])
  <2>1. q[i] \in s /\ q[j] \in s /\ Rank(s, q[i]) = i - 1 /\ Rank(s, q[j]) = j - 1
    BY <1>2
  <2>2. q[i] # q[j]
    BY <1>1, <1>4, <2>1
  <2>3. ~ Abstract!Below(q[j], q[i])
    <3>1. Abstract!Below(q[j], q[i]) => Rank(s, q[j]) < Rank(s, q[i])
      BY <2>1, Ranks
    <3> QED BY <1>1, <1>4, <2>1, <3>1
  <2> QED BY <2>1, <2>2, <2>3, KeyOrder
<1>5. ASSUME NEW k \in s PROVE \E i \in 1 .. n : q[i] = k
  <2>1. Rank(s, k) \in 0 .. (n - 1)
    BY Ranks
  <2>2. PICK i \in 1 .. n : i - 1 = Rank(s, k)
    BY <1>1, <2>1
  <2>3. q[i] \in s /\ Rank(s, q[i]) = Rank(s, k)
    BY <1>2, <2>2
  <2>4. ~ Abstract!Below(q[i], k) /\ ~ Abstract!Below(k, q[i])
    BY <1>1, <2>1, <2>3, Ranks
  <2> QED BY <2>3, <2>4, KeyOrder
<1> QED BY <1>1, <1>3, <1>4, <1>5

-----------------------------------------------------------------------------
(* What the kernel copies into the buffer.                                   *)

\* The keys of the items of the range.
InReach == {k \in {i.key : i \in asked.items} : Abstract!InRange(k, min_key, asked.max)}

Ordered == Abstract!InOrder(InReach)

Placement == [offset : Nat, key : Keys, len : Nat, has : Nat, name_len : Nat]

SearchTypes ==
    /\ asked \in Searches
    /\ nr_items = asked.limit /\ buf_size \in Nat
    /\ placed \in Seq(Placement)
    /\ found \in Nat /\ index \in Nat /\ curr_offset \in Nat /\ prev_offset \in Nat
    /\ handed \in Seq(Nat)

\* Item after item, without gaps, from the beginning on.
Laid(buffer) ==
    /\ Len(buffer) > 0 => buffer[1].offset = 0
    /\ \A n \in 1 .. (Len(buffer) - 1) :
          buffer[n + 1].offset = buffer[n].offset + header + buffer[n].len
    /\ \A m, n \in 1 .. Len(buffer) : m < n => buffer[m].offset < buffer[n].offset

\* What is known of a search and its items.
LEMMA AskedIs ==
  ASSUME asked \in Searches
  PROVE  /\ asked.limit \in 1 .. MaxItems /\ asked.buf_size \in Nat
         /\ \A i \in asked.items :
               i.key \in Keys /\ i.len \in Nat /\ i.has \in Nat /\ i.name_len \in Nat
<1>1. MaxItems \in Nat
  BY SearchesAssumption
<1>2. /\ asked.limit \in 1 .. MaxItems /\ asked.buf_size \in Nat
      /\ \A i \in asked.items :
            i.key \in Keys /\ i.len \in Nat /\ i.has \in 0 .. i.len /\ i.name_len \in Nat
  BY SearchesAssumption
<1> QED BY <1>1, <1>2

\* The items of the range, one for each of the keys in order.
LEMMA WantedIs ==
  ASSUME asked \in Searches
  PROVE  /\ Ordered \in Seq(Keys) /\ Wanted \in Seq(asked.items) /\ Len(Wanted) = Len(Ordered)
         /\ \A n \in 1 .. Len(Wanted) : Wanted[n] \in asked.items /\ Wanted[n].key = Ordered[n]
<1> DEFINE n == Cardinality(InReach)
<1>1. InReach \in SUBSET Keys
  BY AskedIs DEF InReach
<1>2. n \in Nat /\ Ordered \in [1 .. n -> InReach]
  BY <1>1, InOrderAscends DEF Ordered
<1>3. Ordered \in Seq(Keys) /\ Len(Ordered) = n /\ DOMAIN Ordered = 1 .. n
  <2>1. Ordered \in [1 .. n -> Keys]
    BY <1>1, <1>2
  <2> HIDE DEF n
  <2> QED BY <1>2, <2>1
<1> HIDE DEF n
<1>4. Wanted = [m \in 1 .. n |-> CHOOSE i \in asked.items : i.key = Ordered[m]]
  BY <1>3 DEF Wanted, Ordered, InReach
<1>5. ASSUME NEW m \in 1 .. n PROVE Wanted[m] \in asked.items /\ Wanted[m].key = Ordered[m]
  <2>1. PICK i \in asked.items : i.key = Ordered[m]
    <3>1. Ordered[m] \in InReach
      BY <1>2
    <3> QED BY <3>1 DEF InReach
  <2>2. Wanted[m] = CHOOSE j \in asked.items : j.key = Ordered[m]
    BY <1>4
  <2> QED BY <2>1, <2>2
<1>6. Wanted \in [1 .. n -> asked.items]
  <2>1. Wanted = [m \in 1 .. n |-> Wanted[m]]
    BY <1>4
  <2> QED BY <1>5, <2>1
<1>7. Wanted \in Seq(asked.items) /\ Len(Wanted) = n
  BY <1>2, <1>6
<1> QED BY <1>3, <1>5, <1>7

\* The room that the first ones take.
LEMMA FilledIs ==
  ASSUME asked \in Searches
  PROVE  /\ Filled(Wanted, 0) = 0
         /\ \A n \in 0 .. Len(Wanted) : Filled(Wanted, n) \in Nat
         /\ \A n \in 1 .. Len(Wanted) :
               Filled(Wanted, n) = Filled(Wanted, n - 1) + header + Wanted[n].len
         /\ \A m, n \in 0 .. Len(Wanted) : m < n => Filled(Wanted, m) < Filled(Wanted, n)
<1> DEFINE lens == [i \in DOMAIN Wanted |-> header + Wanted[i].len]
<1>1. Len(Wanted) \in Nat /\ DOMAIN Wanted = 1 .. Len(Wanted)
  BY WantedIs, LenProperties
<1>2. \A n \in 1 .. Len(Wanted) : Wanted[n].len \in Nat
  BY WantedIs, AskedIs
<1>3. lens \in Seq(Nat \ {0}) /\ Len(lens) = Len(Wanted)
  <2>1. \A n \in 1 .. Len(Wanted) : header + Wanted[n].len \in Nat \ {0}
    BY <1>2, HeaderHasSize
  <2>2. lens \in [1 .. Len(Wanted) -> Nat \ {0}]
    BY <1>1, <2>1
  <2> HIDE DEF lens
  <2> QED BY <1>1, <2>2
<1>4. \A n \in 1 .. Len(Wanted) : lens[n] = header + Wanted[n].len
  BY <1>1
<1>5. \A n : Filled(Wanted, n) = Sums(lens)[n]
  BY DEF Filled
<1> HIDE DEF lens
<1>6. /\ Sums(lens) \in [0 .. Len(lens) -> Nat] /\ Sums(lens)[0] = 0
      /\ \A n \in 1 .. Len(lens) : Sums(lens)[n] = Sums(lens)[n - 1] + lens[n]
      /\ \A m, n \in 0 .. Len(lens) : m < n => Sums(lens)[m] < Sums(lens)[n]
  BY <1>3, SumsAre
<1>7. ASSUME NEW n \in 1 .. Len(Wanted)
      PROVE  Filled(Wanted, n) = Filled(Wanted, n - 1) + header + Wanted[n].len
  <2>1. Sums(lens)[n] = Sums(lens)[n - 1] + (header + Wanted[n].len)
    BY <1>3, <1>4, <1>6
  <2>2. Sums(lens)[n - 1] \in Nat
    <3>1. n - 1 \in 0 .. Len(lens)
      BY <1>1, <1>3
    <3> QED BY <1>6, <3>1
  <2> QED BY <1>2, <1>5, <2>1, <2>2, HeaderHasSize
<1>8. \A n \in 0 .. Len(Wanted) : Filled(Wanted, n) \in Nat
  BY <1>3, <1>5, <1>6
<1>9. \A m, n \in 0 .. Len(Wanted) : m < n => Filled(Wanted, m) < Filled(Wanted, n)
  <2>1. \A m, n \in 0 .. Len(Wanted) : m < n => Sums(lens)[m] < Sums(lens)[n]
    BY <1>3, <1>6
  <2> QED BY <1>5, <2>1
<1> QED BY <1>5, <1>6, <1>7, <1>8, <1>9

\* As many as fit.
LEMMA FittingIs ==
  ASSUME asked \in Searches, nr_items \in Nat, buf_size \in Nat
  PROVE  /\ Fitting(Wanted) \in 0 .. Len(Wanted) /\ Fitting(Wanted) <= nr_items
         /\ Filled(Wanted, Fitting(Wanted)) <= Room
         /\ \A n \in 0 .. Len(Wanted) :
               n <= nr_items /\ Filled(Wanted, n) <= Room => n <= Fitting(Wanted)
<1> DEFINE fit == {n \in 0 .. Len(Wanted) : n <= nr_items /\ Filled(Wanted, n) <= Room}
<1>1. Len(Wanted) \in Nat
  BY WantedIs, LenProperties
<1>2. Room \in Nat
  BY DEF Room, buf_bytes
<1>3. 0 \in fit
  BY <1>1, <1>2, FilledIs
<1>4. Fitting(Wanted) = Max(fit)
  BY DEF Fitting
<1>5. fit \subseteq 0 .. Len(Wanted)
  OBVIOUS
<1>6. Max(fit) \in fit /\ \A n \in fit : n <= Max(fit)
  <2> HIDE DEF fit
  <2> QED BY <1>1, <1>3, <1>5, LargestNumber
<1> QED BY <1>4, <1>6

\* What a query that does not overflow copies: items of the range, from the first
\* on, one behind the other.  In a buffer of the caller's size they end within it.
LEMMA CopiedIs ==
  ASSUME asked \in Searches, nr_items \in Nat \ {0}, buf_size \in Nat
  PROVE  /\ Copied \in Seq(Placement) /\ Laid(Copied)
         /\ Len(Copied) <= Len(Ordered) /\ Len(Copied) <= nr_items
         /\ Len(Copied) = 0 => Len(Ordered) = 0
         /\ \A n \in 1 .. Len(Copied) : Copied[n].key = Ordered[n]
         /\ boxed /\ ~ Overflows =>
               \A n \in 1 .. Len(Copied) : Copied[n].offset + header + Copied[n].len <= buf_size
<1>1. /\ Len(Wanted) = Len(Ordered) /\ Len(Wanted) \in Nat /\ Wanted \in Seq(asked.items)
      /\ \A n \in 1 .. Len(Wanted) : Wanted[n] \in asked.items /\ Wanted[n].key = Ordered[n]
  BY WantedIs, LenProperties
<1>2. \A n \in 1 .. Len(Wanted) :
          /\ Wanted[n].key \in Keys /\ Wanted[n].len \in Nat
          /\ Wanted[n].has \in Nat /\ Wanted[n].name_len \in Nat
  BY <1>1, AskedIs
<1>3. Wanted # <<>> <=> Len(Wanted) > 0
  BY <1>1
<1>4. header \in Nat
  BY HeaderHasSize
<1>5. CASE Wanted # <<>> /\ Fitting(Wanted) = 0
  <2> DEFINE only == [offset |-> 0, key |-> Wanted[1].key, len |-> 0, has |-> 0, name_len |-> 0]
  <2>1. Copied = <<only>>
    BY <1>5 DEF Copied
  <2>2. 1 \in 1 .. Len(Wanted)
    BY <1>1, <1>3, <1>5
  <2>3. only \in Placement /\ only.key = Ordered[1] /\ only.offset = 0
    BY <1>1, <1>2, <2>2 DEF Placement
  <2> HIDE DEF only
  <2>4. /\ Copied \in Seq(Placement) /\ Len(Copied) = 1 /\ Copied[1] = only
        /\ 1 .. Len(Copied) = {1} /\ 1 .. (Len(Copied) - 1) = {}
    BY <2>1, <2>3
  <2>5. Laid(Copied)
    BY <2>3, <2>4 DEF Laid
  <2>6. boxed => Overflows
    BY <1>5 DEF Overflows
  <2> QED BY <1>1, <2>2, <2>3, <2>4, <2>5, <2>6
<1>6. CASE ~ (Wanted # <<>> /\ Fitting(Wanted) = 0)
  <2> DEFINE f == Fitting(Wanted)
             at_(m) == [offset |-> Filled(Wanted, m - 1), key |-> Wanted[m].key,
                        len |-> Wanted[m].len, has |-> Wanted[m].has,
                        name_len |-> Wanted[m].name_len]
  <2>1. /\ f \in 0 .. Len(Wanted) /\ f <= nr_items /\ Filled(Wanted, f) <= Room
        /\ f = 0 => Len(Wanted) = 0
    BY <1>3, <1>6, FittingIs
  <2>2. Copied = [m \in 1 .. f |-> at_(m)]
    BY <1>6 DEF Copied, Place
  <2> HIDE DEF f
  <2>3. ASSUME NEW m \in 1 .. f
        PROVE  /\ m \in 1 .. Len(Wanted) /\ m - 1 \in 0 .. Len(Wanted) /\ m \in 0 .. Len(Wanted)
               /\ Copied[m].offset = Filled(Wanted, m - 1) /\ Copied[m].offset \in Nat
               /\ Copied[m].key = Ordered[m] /\ Copied[m].len = Wanted[m].len
               /\ Copied[m].len \in Nat /\ Copied[m] \in Placement
    <3>1. m \in 1 .. Len(Wanted) /\ m - 1 \in 0 .. Len(Wanted) /\ m \in 0 .. Len(Wanted)
      BY <1>1, <2>1
    <3>2. Filled(Wanted, m - 1) \in Nat
      BY <3>1, FilledIs
    <3>3. Copied[m] = at_(m)
      BY <2>2
    <3> QED BY <1>1, <1>2, <3>1, <3>2, <3>3 DEF Placement
  <2>4. Copied \in Seq(Placement) /\ Len(Copied) = f
    <3>1. Copied \in [1 .. f -> Placement]
      <4> HIDE DEF at_
      <4>1. Copied = [m \in 1 .. f |-> Copied[m]]
        BY <2>2
      <4> QED BY <2>3, <4>1
    <3>2. f \in Nat
      BY <1>1, <2>1
    <3> QED BY <3>1, <3>2
  <2> HIDE DEF at_
  <2>5. Laid(Copied)
    <3>1. Len(Copied) > 0 => Copied[1].offset = 0
      <4>1. SUFFICES ASSUME Len(Copied) > 0 PROVE Copied[1].offset = 0
        OBVIOUS
      <4>2. 1 \in 1 .. f
        BY <1>1, <2>1, <2>4, <4>1
      <4>3. Copied[1].offset = Filled(Wanted, 1 - 1)
        BY <2>3, <4>2
      <4> QED BY <4>3, FilledIs
    <3>2. ASSUME NEW n \in 1 .. (f - 1)
          PROVE  Copied[n + 1].offset = Copied[n].offset + header + Copied[n].len
      <4>1. n \in 1 .. f /\ n + 1 \in 1 .. f /\ (n + 1) - 1 = n
        BY <1>1, <2>1
      <4>2. Copied[n + 1].offset = Filled(Wanted, n)
        BY <2>3, <4>1
      <4>3. Filled(Wanted, n) = Filled(Wanted, n - 1) + header + Wanted[n].len
        BY <2>3, <4>1, FilledIs
      <4> QED BY <2>3, <4>1, <4>2, <4>3
    <3>3. ASSUME NEW m \in 1 .. f, NEW n \in 1 .. f, m < n
          PROVE  Copied[m].offset < Copied[n].offset
      <4>1. m - 1 < n - 1
        BY <1>1, <2>1, <3>3
      <4>2. Filled(Wanted, m - 1) < Filled(Wanted, n - 1)
        BY <2>3, <4>1, FilledIs
      <4> QED BY <2>3, <4>2
    <3> QED BY <2>4, <3>1, <3>2, <3>3 DEF Laid
  <2>6. ASSUME boxed, NEW n \in 1 .. f
        PROVE  Copied[n].offset + header + Copied[n].len <= buf_size
    <3>1. Copied[n].offset + header + Copied[n].len = Filled(Wanted, n)
      <4>1. Filled(Wanted, n) = Filled(Wanted, n - 1) + header + Wanted[n].len
        BY <2>3, FilledIs
      <4> QED BY <2>3, <4>1
    <3>2. Filled(Wanted, n) <= Filled(Wanted, f)
      <4>1. n = f \/ n < f
        BY <1>1, <2>1
      <4>2. n \in 0 .. Len(Wanted) /\ Filled(Wanted, n) \in Nat /\ Filled(Wanted, f) \in Nat
        BY <2>1, <2>3, FilledIs
      <4>3. n < f => Filled(Wanted, n) < Filled(Wanted, f)
        BY <2>1, <4>2, FilledIs
      <4> QED BY <4>1, <4>2, <4>3
    <3>3. Filled(Wanted, f) <= buf_size
      BY <2>1, <2>6 DEF Room
    <3>4. Filled(Wanted, n) \in Nat /\ Filled(Wanted, f) \in Nat
      BY <2>1, <2>3, FilledIs
    <3> QED BY <3>1, <3>2, <3>3, <3>4
  <2> QED BY <1>1, <2>1, <2>3, <2>4, <2>5, <2>6
<1> QED BY <1>5, <1>6

-----------------------------------------------------------------------------
(* The invariant of a search.                                                *)

\* Where the iterator is: behind the items handed out.
SearchCursor ==
    /\ found = 0 \/ found = Len(placed)
    /\ Len(handed) <= found /\ index = found - Len(handed)
    /\ index > 0 => curr_offset = placed[Len(handed) + 1].offset
    /\ prev_offset = IF Len(handed) = 0 THEN 0 ELSE placed[Len(handed)].offset

SearchInv == SearchTypes /\ Laid(placed) /\ SearchCursor

\* The items in the buffer.
LEMMA PlacedIs ==
  ASSUME SearchTypes
  PROVE  /\ DOMAIN placed = 1 .. Len(placed) /\ Len(placed) \in Nat
         /\ \A n \in 1 .. Len(placed) :
               placed[n].offset \in Nat /\ placed[n].key \in Keys /\ placed[n].len \in Nat
<1>1. placed \in Seq(Placement)
  BY DEF SearchTypes
<1>2. DOMAIN placed = 1 .. Len(placed) /\ Len(placed) \in Nat
  BY <1>1, LenProperties
<1>3. \A e \in Placement : e.offset \in Nat /\ e.key \in Keys /\ e.len \in Nat
  BY DEF Placement
<1>4. \A n \in 1 .. Len(placed) : placed[n] \in Placement
  BY <1>1, ElementOfSeq
<1> QED BY <1>2, <1>3, <1>4

\* At an offset where an item is there is that item.
LEMMA HeaderOfItem ==
  ASSUME SearchTypes, Laid(placed), NEW n \in 1 .. Len(placed)
  PROVE  HeadersAt(placed[n].offset) = {placed[n]}
<1>1. /\ DOMAIN placed = 1 .. Len(placed) /\ Len(placed) \in Nat
      /\ \A m \in 1 .. Len(placed) : placed[m].offset \in Nat
  BY PlacedIs
<1>2. ASSUME NEW m \in 1 .. Len(placed), placed[m].offset = placed[n].offset PROVE m = n
  <2>1. m < n => placed[m].offset < placed[n].offset
    BY DEF Laid
  <2>2. n < m => placed[n].offset < placed[m].offset
    BY DEF Laid
  <2> QED BY <1>1, <1>2, <2>1, <2>2
<1>3. {i \in Range(placed) : i.offset = placed[n].offset} = {placed[n]}
  BY <1>1, <1>2 DEF Range
<1> QED BY <1>3 DEF HeadersAt

\* Whatever is at an offset looks like an item.
LEMMA HeadersAreTyped ==
  ASSUME SearchTypes, NEW p \in Nat
  PROVE  \A i \in HeadersAt(p) : i.key \in Keys /\ i.len \in Nat
<1>1. \A i \in Range(placed) : i.key \in Keys /\ i.len \in Nat
  BY PlacedIs DEF Range
<1>2. \A k \in Garbage : k \in Keys
  BY SearchesAssumption
<1> QED BY <1>1, <1>2 DEF HeadersAt

\* A query writes items or leaves the buffer, and the iterator begins.
LEMMA QueryKeeps ==
  ASSUME SearchInv, Query
  PROVE  SearchInv'
<1> USE DEF SearchInv
<1>1. asked \in Searches /\ nr_items \in Nat \ {0} /\ buf_size \in Nat
  <2>1. asked.limit \in 1 .. MaxItems /\ MaxItems \in Nat
    BY AskedIs, SearchesAssumption DEF SearchTypes
  <2> QED BY <2>1 DEF SearchTypes
<1>2. Copied \in Seq(Placement) /\ Laid(Copied) /\ Len(Copied) \in Nat
  <2>1. Copied \in Seq(Placement) /\ Laid(Copied)
    BY <1>1, CopiedIs
  <2> QED BY <2>1, LenProperties
<1>3. /\ found' = Len(Copied) /\ placed' = (IF Copied = <<>> THEN placed ELSE Copied)
      /\ nr_items' = nr_items /\ index' = Len(Copied)
      /\ curr_offset' = 0 /\ prev_offset' = 0 /\ handed' = <<>> /\ at' = "items"
      /\ UNCHANGED <<asked, buf_size>>
  BY DEF Query, nr_items_after
<1>4. SearchTypes'
  BY <1>2, <1>3 DEF SearchTypes
<1>5. Laid(placed)'
  <2>1. Laid(placed')
    BY <1>2, <1>3
  <2> QED BY <2>1 DEF Laid
<1>6. SearchCursor'
  <2>1. handed' = <<>> /\ Len(<<>>) = 0
    BY <1>3
  <2>2. CASE Copied = <<>>
    BY <1>3, <2>1, <2>2 DEF SearchCursor
  <2>3. CASE Copied # <<>>
    <3>1. placed' = Copied /\ Len(Copied) > 0
      BY <1>2, <1>3, <2>3
    <3>2. Copied[1].offset = 0
      BY <1>2, <3>1 DEF Laid
    <3> QED BY <1>2, <1>3, <2>1, <3>1, <3>2 DEF SearchCursor
  <2> QED BY <2>2, <2>3
<1> QED BY <1>4, <1>5, <1>6

\* A query that overflows tells what it needs.
LEMMA QueryFailsKeeps ==
  ASSUME SearchInv, QueryFails
  PROVE  SearchInv'
<1> USE DEF SearchInv
<1>1. /\ Overflows /\ buf_size' = header + Wanted[1].len
      /\ UNCHANGED <<asked, nr_items, placed, found, index, curr_offset, prev_offset, handed>>
  BY DEF QueryFails
<1>2. buf_size' \in Nat
  <2>1. Wanted \in Seq(asked.items) /\ Wanted # <<>>
    BY <1>1, WantedIs DEF Overflows, SearchTypes
  <2>2. Wanted[1] \in asked.items
    BY <2>1
  <2>3. Wanted[1].len \in Nat
    BY <2>2, AskedIs DEF SearchTypes
  <2> QED BY <1>1, <2>3, HeaderHasSize
<1>3. SearchTypes'
  BY <1>1, <1>2 DEF SearchTypes
<1>4. Laid(placed)' /\ SearchCursor'
  BY <1>1 DEF Laid, SearchCursor
<1> QED BY <1>3, <1>4

\* What is taken is the next item, and the offset behind it is that of the one
\* after it.
LEMMA TakeIs ==
  ASSUME SearchInv, Take
  PROVE  /\ Len(handed) + 1 \in 1 .. Len(placed) /\ found = Len(placed)
         /\ handed' = Append(handed, placed[Len(handed) + 1].offset)
         /\ prev_offset' = placed[Len(handed) + 1].offset
         /\ curr_offset' = placed[Len(handed) + 1].offset + header + placed[Len(handed) + 1].len
         /\ visited' = visited \cup {placed[Len(handed) + 1].key}
<1> USE DEF SearchInv
<1>1. found \in Nat /\ index \in Nat /\ Len(handed) \in Nat /\ Len(placed) \in Nat
  BY LenProperties DEF SearchTypes
<1>2. index > 0 /\ index = found - Len(handed) /\ (found = 0 \/ found = Len(placed))
  BY DEF Take, SearchCursor
<1>3. found = Len(placed) /\ Len(handed) + 1 \in 1 .. Len(placed)
  BY <1>1, <1>2
<1>4. curr_offset = placed[Len(handed) + 1].offset
  BY <1>2 DEF SearchCursor
<1>5. HeadersAt(curr_offset) = {placed[Len(handed) + 1]}
  BY <1>3, <1>4, HeaderOfItem
<1>6. PICK item \in HeadersAt(curr_offset) :
          curr_offset' = curr_offset + total_len(item) /\ visited' = visited \cup {item.key}
  BY DEF Take
<1>7. item = placed[Len(handed) + 1]
  BY <1>5, <1>6
<1>8. placed[Len(handed) + 1].len \in Nat /\ placed[Len(handed) + 1].offset \in Nat
  BY <1>3, PlacedIs
<1>9. curr_offset' = placed[Len(handed) + 1].offset + header + placed[Len(handed) + 1].len
  BY <1>4, <1>6, <1>7, <1>8, HeaderHasSize DEF total_len
<1>10. handed' = Append(handed, curr_offset) /\ prev_offset' = curr_offset
  BY DEF Take
<1> QED BY <1>3, <1>4, <1>6, <1>7, <1>9, <1>10

LEMMA TakeKeeps ==
  ASSUME SearchInv, Take
  PROVE  SearchInv'
<1> USE DEF SearchInv
<1> DEFINE n == Len(handed) + 1
<1>1. /\ n \in 1 .. Len(placed) /\ found = Len(placed)
      /\ handed' = Append(handed, placed[n].offset) /\ prev_offset' = placed[n].offset
      /\ curr_offset' = placed[n].offset + header + placed[n].len
  BY TakeIs
<1>2. /\ index' = index - 1 /\ index > 0
      /\ UNCHANGED <<asked, nr_items, buf_size, placed, found, at>>
  BY DEF Take
<1>3. /\ Len(placed) \in Nat /\ Len(handed) \in Nat /\ index \in Nat
      /\ index = found - Len(handed) /\ handed \in Seq(Nat)
  BY LenProperties DEF SearchTypes, SearchCursor
<1>4. placed[n].offset \in Nat /\ placed[n].len \in Nat
  BY <1>1, PlacedIs
<1>5. handed' \in Seq(Nat) /\ Len(handed') = n
  BY <1>1, <1>3, <1>4
<1>6. SearchTypes'
  BY <1>1, <1>2, <1>3, <1>4, <1>5, HeaderHasSize DEF SearchTypes
<1>7. Laid(placed)'
  BY <1>2 DEF Laid
<1>8. SearchCursor'
  <2>1. index' > 0 => curr_offset' = placed[n + 1].offset
    <3>1. SUFFICES ASSUME index' > 0 PROVE curr_offset' = placed[n + 1].offset
      OBVIOUS
    <3>2. n \in 1 .. (Len(placed) - 1)
      BY <1>1, <1>2, <1>3, <3>1
    <3> QED BY <1>1, <3>2 DEF Laid
  <2>2. n # 0 /\ n <= found /\ index' = found - n
    BY <1>1, <1>2, <1>3
  <2> HIDE DEF n
  <2> QED BY <1>1, <1>2, <1>5, <2>1, <2>2 DEF SearchCursor
<1> QED BY <1>6, <1>7, <1>8

\* Steps that leave the items and the iterator as they are.
ItemsStay ==
    UNCHANGED <<asked, nr_items, buf_size, placed, found, index, curr_offset, prev_offset, handed>>

LEMMA StayKeeps ==
  ASSUME SearchInv, ItemsStay
  PROVE  SearchInv'
BY DEF SearchInv, ItemsStay, SearchTypes, Laid, SearchCursor

-----------------------------------------------------------------------------
(* Every step of a search, and the steps of TreeSearch they are.             *)

\* At first the iterator has nothing to hand out.
LEMMA SearchInitially == SearchInit \/ SearchIdle => SearchInv
<1>1. SUFFICES ASSUME SearchInit \/ SearchIdle PROVE SearchInv
  OBVIOUS
<1>2. asked \in Searches
  BY <1>1, SearchesAssumption DEF SearchInit, SearchIdle
<1>3. /\ nr_items = asked.limit /\ buf_size = asked.buf_size /\ placed = <<>> /\ found = 0
      /\ index = 0 /\ curr_offset = 0 /\ prev_offset = 0 /\ handed = <<>>
  BY <1>1 DEF SearchInit, SearchIdle
<1>4. Len(<<>>) = 0 /\ asked.buf_size \in Nat
  BY <1>2, AskedIs
<1>5. SearchTypes
  BY <1>2, <1>3, <1>4 DEF SearchTypes
<1>6. Len(placed) = 0 /\ Len(handed) = 0
  BY <1>3, <1>4
<1>7. Laid(placed)
  BY <1>6 DEF Laid
<1>9. SearchCursor
  <2>1. found = 0 /\ index = 0 /\ prev_offset = 0
    BY <1>3
  <2> QED BY <1>6, <2>1 DEF SearchCursor
<1> QED BY <1>5, <1>7, <1>9 DEF SearchInv

\* The iterator is dropped: on_drop is asked about some header at prev_offset,
\* or leaves the key.
DropWalk ==
    /\ \E item \in HeadersAt(prev_offset) :
          Abstract!OffsetReturns(item.key) /\ min_key' = Abstract!next_offset(item.key)
    /\ UNCHANGED <<asked, nr_items, buf_size, placed, found, index, curr_offset, prev_offset,
                   handed, visited>>
    /\ at' = "query"

\* Steps of which TreeSearch sees nothing.
Hidden == UNCHANGED <<asked, min_key, nr_items, placed, found, handed, visited>>

\* What a client does is a query, taking an item, or leaves the items.
LEMMA WalkSteps ==
  ASSUME Walk
  PROVE  Query \/ (QueryFails /\ Hidden) \/ Take \/ DropWalk \/ (ItemsStay /\ Hidden)
<1>1. CASE WalkOn
  BY <1>1 DEF WalkOn, DropIter, DropWalk, ItemsStay, Hidden
<1>2. CASE DropSearch
  BY <1>2 DEF DropSearch, ItemsStay, Hidden
<1>3. CASE QueryFails
  BY <1>3 DEF QueryFails, Hidden
<1> QED BY <1>1, <1>2, <1>3 DEF Walk

LEMMA InfoSteps ==
  ASSUME Info
  PROVE  Query \/ Take \/ (ItemsStay /\ Hidden)
<1>1. CASE InfoLoop
  BY <1>1 DEF InfoLoop, ItemsStay, Hidden
<1>2. CASE InfoOn
  BY <1>2 DEF InfoOn, DropIter, ItemsStay, Hidden
<1> QED BY <1>1, <1>2 DEF Info, get_info_by_id, InfoQuery, InfoTake

\* Every step of Answers, seen by the search.
LEMMA SearchSteps ==
  ASSUME [Next]_vars
  PROVE  Query \/ (QueryFails /\ Hidden) \/ Take \/ DropWalk \/ (ItemsStay /\ Hidden)
<1>1. ASSUME UNCHANGED searchVars PROVE ItemsStay /\ Hidden
  BY <1>1 DEF searchVars, ItemsStay, Hidden
<1>2. CASE Walk
  BY <1>2, WalkSteps
<1>3. CASE Info
  BY <1>3, InfoSteps
<1> QED BY <1>1, <1>2, <1>3 DEF Next, vars, ListDevices, ListSpaces

LEMMA SearchStepKeeps ==
  ASSUME SearchInv, [Next]_vars
  PROVE  SearchInv'
<1>1. DropWalk => ItemsStay
  BY DEF DropWalk, ItemsStay
<1> QED BY <1>1, SearchSteps, QueryKeeps, QueryFailsKeeps, TakeKeeps, StayKeeps

-----------------------------------------------------------------------------
(* The views of items.                                                       *)

\* A path of one name before another path.
LEMMA PathOfTwo ==
  ASSUME NEW a, NEW n
  PROVE  <<a>> \o <<n>> = <<a, n>>
<1> DEFINE S == {a, n}
           s == <<a>> \o <<n>>
<1>1. <<a>> \in Seq(S) /\ <<n>> \in Seq(S) /\ Len(<<a>>) = 1 /\ Len(<<n>>) = 1
  OBVIOUS
<1>2. /\ s \in Seq(S) /\ Len(s) = 2
      /\ \A i \in 1 .. 2 : s[i] = IF i <= 1 THEN <<a>>[i] ELSE <<n>>[i - 1]
  BY <1>1, ConcatProperties
<1> HIDE DEF s
<1>3. s[1] = a /\ s[2] = n
  BY <1>2
<1>4. <<a, n>> \in Seq(S) /\ Len(<<a, n>>) = 2
  OBVIOUS
<1>5. \A i \in 1 .. 2 : s[i] = <<a, n>>[i]
  BY <1>3
<1>6. s = <<a, n>>
  BY <1>2, <1>4, <1>5, SeqEqual
<1> QED BY <1>6 DEF s

LEMMA PathOfThree ==
  ASSUME NEW a, NEW b, NEW n
  PROVE  <<a>> \o <<b, n>> = <<a, b, n>>
<1> DEFINE S == {a, b, n}
           s == <<a>> \o <<b, n>>
<1>1. <<a>> \in Seq(S) /\ <<b, n>> \in Seq(S) /\ Len(<<a>>) = 1 /\ Len(<<b, n>>) = 2
  OBVIOUS
<1>2. /\ s \in Seq(S) /\ Len(s) = 3
      /\ \A i \in 1 .. 3 : s[i] = IF i <= 1 THEN <<a>>[i] ELSE <<b, n>>[i - 1]
  BY <1>1, ConcatProperties
<1> HIDE DEF s
<1>3. s[1] = a /\ s[2] = b /\ s[3] = n
  BY <1>2
<1>4. <<a, b, n>> \in Seq(S) /\ Len(<<a, b, n>>) = 3
  OBVIOUS
<1>5. \A i \in 1 .. 3 : s[i] = <<a, b, n>>[i]
  BY <1>3
<1>6. s = <<a, b, n>>
  BY <1>2, <1>4, <1>5, SeqEqual
<1> QED BY <1>6 DEF s

\* The accessors that are not called like the field they are for.
Limits == {"limit", "limit_range", "usage", "usage_range"}

Renamed == Limits \cup {"inode_item", "stripts"}

\* What accessors of items and of parts are for.
LEMMA MeantIs ==
  ASSUME NEW a, NEW b, NEW n
  PROVE  /\ n \notin Renamed => Meant(<<n>>) = <<n>>
         /\ n \notin Limits => Meant(<<"stripts", n>>) = <<"stripe", n>>
         /\ n \notin Limits => Meant(<<"inode_item", n>>) = <<"inode", n>>
         /\ n \notin Limits => Meant(<<"inode_item", b, n>>) = <<"inode", b, n>>
         /\ a \notin Renamed /\ n \notin Limits => Meant(<<a, n>>) = <<a, n>>
         /\ n \in {"limit", "limit_range"} => Meant(<<a, n>>) = <<a, "inner2">>
         /\ n \in {"usage", "usage_range"} => Meant(<<a, n>>) = <<a, "inner1">>
<1>1. /\ Head(<<n>>) = n /\ Len(<<n>>) = 1 /\ <<n>>[1] = n /\ Tail(<<n>>) = <<>>
      /\ <<n>> \o <<>> = <<n>>
  OBVIOUS
<1>2. ASSUME NEW c
      PROVE  /\ Head(<<c, n>>) = c /\ Len(<<c, n>>) = 2 /\ <<c, n>>[2] = n /\ Tail(<<c, n>>) = <<n>>
             /\ [<<c, n>> EXCEPT ![2] = "inner1"] = <<c, "inner1">>
             /\ [<<c, n>> EXCEPT ![2] = "inner2"] = <<c, "inner2">>
  OBVIOUS
<1>3. ASSUME NEW c
      PROVE  /\ Head(<<c, b, n>>) = c /\ Len(<<c, b, n>>) = 3 /\ <<c, b, n>>[3] = n
             /\ Tail(<<c, b, n>>) = <<b, n>>
  OBVIOUS
<1>4. n \notin Renamed => Meant(<<n>>) = <<n>>
  BY <1>1 DEF Meant, Renamed, Limits
<1>5. n \notin Limits => Meant(<<"stripts", n>>) = <<"stripe", n>>
  BY <1>2, PathOfTwo DEF Meant, Limits
<1>6. n \notin Limits => Meant(<<"inode_item", n>>) = <<"inode", n>>
  BY <1>2, PathOfTwo DEF Meant, Limits
<1>7. n \notin Limits => Meant(<<"inode_item", b, n>>) = <<"inode", b, n>>
  BY <1>3, PathOfThree DEF Meant, Limits
<1>8. a \notin Renamed /\ n \notin Limits => Meant(<<a, n>>) = <<a, n>>
  BY <1>2, PathOfTwo DEF Meant, Renamed, Limits
<1>9. n \in {"limit", "limit_range"} => Meant(<<a, n>>) = <<a, "inner2">>
  BY <1>2 DEF Meant
<1>10. n \in {"usage", "usage_range"} => Meant(<<a, n>>) = <<a, "inner1">>
  BY <1>2 DEF Meant
<1> QED BY <1>4, <1>5, <1>6, <1>7, <1>8, <1>9, <1>10

\* Accessors that read what they are for.
Right(accessors) == \A g \in accessors : g[2] = Meant(g[1])

\* Accessors called like the field, of the item or of a part.
Plain(accessors) ==
    \A g \in accessors :
        /\ g[1] = g[2]
        /\ \/ \E n : n \notin Renamed /\ g[1] = <<n>>
           \/ \E a, n : a \notin Renamed /\ n \notin Renamed /\ g[1] = <<a, n>>

LEMMA PlainIsRight ==
  ASSUME NEW accessors, Plain(accessors)
  PROVE  Right(accessors)
<1>1. ASSUME NEW g \in accessors PROVE g[2] = Meant(g[1])
  <2>1. g[1] = g[2]
    BY DEF Plain
  <2>2. CASE \E n : n \notin Renamed /\ g[1] = <<n>>
    BY <2>1, <2>2, MeantIs
  <2>3. CASE \E a, n : a \notin Renamed /\ n \notin Renamed /\ g[1] = <<a, n>>
    <3>1. PICK a, n : a \notin Renamed /\ n \notin Renamed /\ g[1] = <<a, n>>
      BY <2>3
    <3>2. n \notin Limits
      BY <3>1 DEF Renamed
    <3>3. Meant(<<a, n>>) = <<a, n>>
      BY <3>1, <3>2, MeantIs
    <3> QED BY <2>1, <3>1, <3>3
  <2> QED BY <2>2, <2>3 DEF Plain
<1> QED BY <1>1 DEF Right

LEMMA OwnIsPlain ==
  ASSUME NEW names, names \cap Renamed = {}
  PROVE  Plain(Own(names))
<1>1. ASSUME NEW g \in Own(names) PROVE \E n : n \notin Renamed /\ g = <<<<n>>, <<n>>>>
  BY DEF Own
<1>2. ASSUME NEW g \in Own(names)
      PROVE  g[1] = g[2] /\ \E n : n \notin Renamed /\ g[1] = <<n>>
  <2>1. PICK n : n \notin Renamed /\ g = <<<<n>>, <<n>>>>
    BY <1>1
  <2>2. g[1] = <<n>> /\ g[2] = <<n>>
    BY <2>1
  <2> QED BY <2>1, <2>2
<1> QED BY <1>2 DEF Plain

\* The accessors of a part.
LEMMA PartOfOwn ==
  ASSUME NEW a, NEW f, NEW names, NEW g \in Part(a, f, Own(names))
  PROVE  \E n \in names : g[1] = <<a, n>> /\ g[2] = <<f, n>>
<1>1. PICK h \in Own(names) : g = <<<<a>> \o h[1], <<f>> \o h[2]>>
  BY DEF Part
<1>2. PICK n \in names : h = <<<<n>>, <<n>>>>
  BY DEF Own
<1>3. h[1] = <<n>> /\ h[2] = <<n>>
  BY <1>2
<1>4. <<a>> \o h[1] = <<a, n>> /\ <<f>> \o h[2] = <<f, n>>
  BY <1>3, PathOfTwo
<1>5. g[1] = <<a, n>> /\ g[2] = <<f, n>>
  BY <1>1, <1>4
<1> QED BY <1>5

LEMMA PartIsPlain ==
  ASSUME NEW a, a \notin Renamed, NEW names, names \cap Renamed = {}
  PROVE  Plain(Part(a, a, Own(names)))
<1>1. ASSUME NEW g \in Part(a, a, Own(names))
      PROVE  /\ g[1] = g[2]
             /\ \E b, n : b \notin Renamed /\ n \notin Renamed /\ g[1] = <<b, n>>
  <2>1. PICK n \in names : g[1] = <<a, n>> /\ g[2] = <<a, n>>
    BY PartOfOwn
  <2>2. n \notin Renamed
    OBVIOUS
  <2> QED BY <2>1, <2>2
<1> QED BY <1>1 DEF Plain

LEMMA BothAccessors ==
  ASSUME NEW g, NEW h
  PROVE  /\ Plain(g) /\ Plain(h) => Plain(g \cup h)
         /\ Right(g) /\ Right(h) => Right(g \cup h)
<1>1. Plain(g) /\ Plain(h) => Plain(g \cup h)
  BY DEF Plain
<1>2. Right(g) /\ Right(h) => Right(g \cup h)
  BY DEF Right
<1> QED BY <1>1, <1>2

\* The parts that a view calls otherwise.
LEMMA StripeIsRight == Right(Part("stripts", "stripe", Stripe))
<1>1. ASSUME NEW g \in Part("stripts", "stripe", Stripe) PROVE g[2] = Meant(g[1])
  <2>1. PICK n \in {"devid", "offset", "dev_uuid"} : g[1] = <<"stripts", n>> /\ g[2] = <<"stripe", n>>
    BY PartOfOwn DEF Stripe
  <2>2. n \notin Limits
    BY DEF Limits
  <2> QED BY <2>1, <2>2, MeantIs
<1> QED BY <1>1 DEF Right

LEMMA InodeIsRight ==
  ASSUME NEW accessors, Plain(accessors)
  PROVE  Right(Part("inode_item", "inode", accessors))
<1>1. ASSUME NEW g \in Part("inode_item", "inode", accessors) PROVE g[2] = Meant(g[1])
  <2>1. PICK h \in accessors : g = <<<<"inode_item">> \o h[1], <<"inode">> \o h[2]>>
    BY DEF Part
  <2>2. h[1] = h[2]
    BY DEF Plain
  <2>3. g[1] = <<"inode_item">> \o h[1] /\ g[2] = <<"inode">> \o h[1]
    BY <2>1, <2>2
  <2>4. CASE \E n : n \notin Renamed /\ h[1] = <<n>>
    <3>1. PICK n : n \notin Renamed /\ h[1] = <<n>>
      BY <2>4
    <3>2. g[1] = <<"inode_item", n>> /\ g[2] = <<"inode", n>>
      BY <2>3, <3>1, PathOfTwo
    <3> QED BY <3>1, <3>2, MeantIs DEF Renamed
  <2>5. CASE \E a, n : a \notin Renamed /\ n \notin Renamed /\ h[1] = <<a, n>>
    <3>1. PICK a, n : a \notin Renamed /\ n \notin Renamed /\ h[1] = <<a, n>>
      BY <2>5
    <3>2. g[1] = <<"inode_item", a, n>> /\ g[2] = <<"inode", a, n>>
      BY <2>3, <3>1, PathOfThree
    <3>3. n \notin Limits
      BY <3>1 DEF Renamed
    <3>4. Meant(<<"inode_item", a, n>>) = <<"inode", a, n>>
      BY <3>3, MeantIs
    <3> QED BY <3>2, <3>4
  <2> QED BY <2>4, <2>5 DEF Plain
<1> QED BY <1>1 DEF Right

\* What the accessors of the arguments of a balance read.
LEMMA BalanceIsRight ==
  ASSUME NEW a, a \notin Renamed
  PROVE  Right(Part(a, a, DiskBalanceArgs))
<1> DEFINE names == {"profiles", "devid", "pstart", "vstart", "vend", "target", "flags",
                     "stripes_min", "stripes_max"}
<1>1. ASSUME NEW g \in Part(a, a, DiskBalanceArgs) PROVE g[2] = Meant(g[1])
  <2>1. PICK h \in DiskBalanceArgs : g = <<<<a>> \o h[1], <<a>> \o h[2]>>
    BY DEF Part
  <2>2. g[1] = <<a>> \o h[1] /\ g[2] = <<a>> \o h[2]
    BY <2>1
  <2>3. CASE h \in Own(names)
    <3>1. PICK n \in names : h = <<<<n>>, <<n>>>>
      BY <2>3 DEF Own
    <3>2. h[1] = <<n>> /\ h[2] = <<n>>
      BY <3>1
    <3>3. g[1] = <<a, n>> /\ g[2] = <<a, n>>
      BY <2>2, <3>2, PathOfTwo
    <3>4. n \notin Limits
      BY DEF Limits
    <3>5. Meant(<<a, n>>) = <<a, n>>
      BY <3>4, MeantIs
    <3> QED BY <3>3, <3>5
  <2>4. CASE h \in Reads("limit", "inner2") \cup Reads("limit_range", "inner2")
    <3>1. PICK n \in {"limit", "limit_range"} : h = <<<<n>>, <<"inner2">>>>
      BY <2>4 DEF Reads
    <3>2. h[1] = <<n>> /\ h[2] = <<"inner2">>
      BY <3>1
    <3>3. g[1] = <<a, n>> /\ g[2] = <<a, "inner2">>
      BY <2>2, <3>2, PathOfTwo
    <3> QED BY <3>3, MeantIs
  <2>5. CASE h \in Reads("usage", "inner1") \cup Reads("usage_range", "inner1")
    <3>1. PICK n \in {"usage", "usage_range"} : h = <<<<n>>, <<"inner1">>>>
      BY <2>5 DEF Reads
    <3>2. h[1] = <<n>> /\ h[2] = <<"inner1">>
      BY <3>1
    <3>3. g[1] = <<a, n>> /\ g[2] = <<a, "inner1">>
      BY <2>2, <3>2, PathOfTwo
    <3> QED BY <3>3, MeantIs
  <2> QED BY <2>3, <2>4, <2>5 DEF DiskBalanceArgs
<1> QED BY <1>1 DEF Right

\* The structure under each key type, but 169, which has two.
StructOf(key) ==
    CASE key = 132 -> btrfs_root_item           [] key = 1 -> btrfs_inode_item
      [] key \in {156, 144} -> btrfs_root_ref    [] key = 228 -> btrfs_chunk
      [] key = 216 -> btrfs_dev_item            [] key = 204 -> btrfs_dev_extent
      [] key = 249 -> btrfs_dev_stats_item      [] key = 250 -> btrfs_dev_replace_item
      [] key = 192 -> btrfs_block_group_item    [] key = 108 -> btrfs_file_extent_item
      [] key = 168 -> btrfs_extent_item         [] key = 128 -> btrfs_csum_item
      [] key = 198 -> btrfs_free_space_info     [] key = 0 -> btrfs_free_space_header
      [] key \in {84, 96, 24} -> btrfs_dir_item  [] key = 12 -> btrfs_inode_ref
      [] key = 13 -> btrfs_inode_extref         [] key = 240 -> btrfs_qgroup_status_item
      [] key = 242 -> btrfs_qgroup_info_item    [] key = 244 -> btrfs_qgroup_limit_item
      [] key \in {60, 72} -> btrfs_dir_log_item  [] key = 248 -> btrfs_balance_item
      [] OTHER -> <<>>

\* A view of the structure of its key, with accessors that read what they are
\* for or are known not to.
ViewFits(v) ==
    /\ v.key # 169 => v.struct = StructOf(v.key)
    /\ \A g \in v.get :
          <<v.key, g[1]>> \in Misreads \/ (v.key # 169 /\ g[2] = Meant(g[1]))

LEMMA RightViewFits ==
  ASSUME NEW key, key # 169, NEW struct, struct = StructOf(key), NEW accessors, Right(accessors)
  PROVE  ViewFits(View(key, struct, accessors)) /\ ViewFits(Named(key, struct, accessors))
<1>1. /\ View(key, struct, accessors).key = key /\ View(key, struct, accessors).struct = struct
      /\ View(key, struct, accessors).get = accessors
  BY DEF View
<1>2. /\ Named(key, struct, accessors).key = key /\ Named(key, struct, accessors).struct = struct
      /\ Named(key, struct, accessors).get = accessors
  BY DEF Named
<1> QED BY <1>1, <1>2 DEF ViewFits, Right

\* A view whose accessors are called like the fields.
LEMMA OwnViewFits ==
  ASSUME NEW key, key # 169, NEW struct, struct = StructOf(key), NEW names, names \cap Renamed = {}
  PROVE  ViewFits(View(key, struct, Own(names))) /\ ViewFits(Named(key, struct, Own(names)))
  BY OwnIsPlain, PlainIsRight, RightViewFits

LEMMA BareFits ==
  ASSUME NEW key \in {199, 200, 246, 48, 251, 252}
  PROVE  ViewFits(Bare(key))
<1>1. StructOf(key) = <<>> /\ key # 169
  <2>1. /\ StructOf(199) = <<>> /\ StructOf(200) = <<>> /\ StructOf(246) = <<>>
        /\ StructOf(48) = <<>> /\ StructOf(251) = <<>> /\ StructOf(252) = <<>>
    BY DEF StructOf
  <2> QED BY <2>1
<1>2. Right({})
  BY DEF Right
<1>3. ViewFits(View(key, <<>>, {}))
  BY <1>1, <1>2, RightViewFits
<1> QED BY <1>3 DEF Bare

\* The views without parts.
LEMMA OwnViewsFit ==
  /\ ViewFits(DevItem) /\ ViewFits(DevExtent) /\ ViewFits(DevStatsItem) /\ ViewFits(DevReplaceItem)
  /\ ViewFits(BlockGroupItem) /\ ViewFits(FileExtentItem) /\ ViewFits(ExtentItem) /\ ViewFits(ExtentCsum)
  /\ ViewFits(FreeSpaceInfo) /\ ViewFits(QgroupStatus) /\ ViewFits(QgroupInfo) /\ ViewFits(QgroupLimit)
<1>1. ViewFits(DevItem)
  <2>1. StructOf(216) = btrfs_dev_item
    BY DEF StructOf
  <2> QED BY <2>1, OwnViewFits DEF DevItem, Renamed, Limits
<1>2. ViewFits(DevExtent)
  <2>1. StructOf(204) = btrfs_dev_extent
    BY DEF StructOf
  <2> QED BY <2>1, OwnViewFits DEF DevExtent, Renamed, Limits
<1>3. ViewFits(DevStatsItem)
  <2>1. StructOf(249) = btrfs_dev_stats_item
    BY DEF StructOf
  <2> QED BY <2>1, OwnViewFits DEF DevStatsItem, Renamed, Limits
<1>4. ViewFits(DevReplaceItem)
  <2>1. StructOf(250) = btrfs_dev_replace_item
    BY DEF StructOf
  <2> QED BY <2>1, OwnViewFits DEF DevReplaceItem, Renamed, Limits
<1>5. ViewFits(BlockGroupItem)
  <2>1. StructOf(192) = btrfs_block_group_item
    BY DEF StructOf
  <2> QED BY <2>1, OwnViewFits DEF BlockGroupItem, Renamed, Limits
<1>6. ViewFits(FileExtentItem)
  <2>1. StructOf(108) = btrfs_file_extent_item
    BY DEF StructOf
  <2> QED BY <2>1, OwnViewFits DEF FileExtentItem, Renamed, Limits
<1>7. ViewFits(ExtentItem)
  <2>1. StructOf(168) = btrfs_extent_item
    BY DEF StructOf
  <2> QED BY <2>1, OwnViewFits DEF ExtentItem, Renamed, Limits
<1>8. ViewFits(ExtentCsum)
  <2>1. StructOf(128) = btrfs_csum_item
    BY DEF StructOf
  <2> QED BY <2>1, OwnViewFits DEF ExtentCsum, Renamed, Limits
<1>9. ViewFits(FreeSpaceInfo)
  <2>1. StructOf(198) = btrfs_free_space_info
    BY DEF StructOf
  <2> QED BY <2>1, OwnViewFits DEF FreeSpaceInfo, Renamed, Limits
<1>10. ViewFits(QgroupStatus)
  <2>1. StructOf(240) = btrfs_qgroup_status_item
    BY DEF StructOf
  <2> QED BY <2>1, OwnViewFits DEF QgroupStatus, Renamed, Limits
<1>11. ViewFits(QgroupInfo)
  <2>1. StructOf(242) = btrfs_qgroup_info_item
    BY DEF StructOf
  <2> QED BY <2>1, OwnViewFits DEF QgroupInfo, Renamed, Limits
<1>12. ViewFits(QgroupLimit)
  <2>1. StructOf(244) = btrfs_qgroup_limit_item
    BY DEF StructOf
  <2> QED BY <2>1, OwnViewFits DEF QgroupLimit, Renamed, Limits
<1> QED BY <1>1, <1>2, <1>3, <1>4, <1>5, <1>6, <1>7, <1>8, <1>9, <1>10, <1>11, <1>12

\* The views with parts.
LEMMA InodeViewFits == Plain(InodeItem.get) /\ ViewFits(InodeItem)
<1> DEFINE names == {"generation", "transid", "size", "nbytes", "block_group", "nlink", "uid",
                     "gid", "mode", "rdev", "flags", "sequence"}
           time(a) == Part(a, a, Timespec)
           all == Own(names) \cup time("atime") \cup time("ctime") \cup time("mtime")
                  \cup time("otime")
<1>1. Plain(Own(names))
  BY OwnIsPlain DEF Renamed, Limits
<1>2. ASSUME NEW a \in {"atime", "ctime", "mtime", "otime"} PROVE Plain(time(a))
  BY PartIsPlain DEF Timespec, Renamed, Limits
<1>3. InodeItem = View(1, btrfs_inode_item, all)
  BY DEF InodeItem
<1> HIDE DEF names, time
<1>4. Plain(all)
  BY <1>1, <1>2, BothAccessors
<1> HIDE DEF all
<1>5. InodeItem.get = all
  BY <1>3 DEF View
<1>6. StructOf(1) = btrfs_inode_item
  BY DEF StructOf
<1>7. Right(all)
  BY <1>4, PlainIsRight
<1>8. ViewFits(InodeItem)
  BY <1>3, <1>6, <1>7, RightViewFits
<1> QED BY <1>4, <1>5, <1>8

LEMMA RootViewFits == ViewFits(RootItem)
<1> DEFINE names == {"generation", "root_dirid", "bytenr", "byte_limit", "bytes_used",
                     "last_snapshot", "flags", "refs", "drop_level", "generation_v2", "uuid",
                     "parent_uuid", "received_uuid", "otransid", "ctransid", "stransid",
                     "rtransid"}
           inode == Part("inode_item", "inode", InodeItem.get)
           key == Part("drop_progress", "drop_progress", DiskKey)
           time(a) == Part(a, a, Timespec)
           all == inode \cup Own(names) \cup key \cup time("ctime") \cup time("otime")
                  \cup time("stime") \cup time("rtime")
<1>1. Right(Own(names))
  BY OwnIsPlain, PlainIsRight DEF Renamed, Limits
<1>2. ASSUME NEW a \in {"ctime", "otime", "stime", "rtime"} PROVE Right(time(a))
  BY PartIsPlain, PlainIsRight DEF Timespec, Renamed, Limits
<1>3. Right(key)
  BY PartIsPlain, PlainIsRight DEF DiskKey, Renamed, Limits
<1>4. Right(inode)
  BY InodeViewFits, InodeIsRight
<1>5. RootItem = View(132, btrfs_root_item, all)
  BY DEF RootItem
<1> HIDE DEF names, time, key, inode
<1>6. Right(all)
  BY <1>1, <1>2, <1>3, <1>4, BothAccessors
<1> HIDE DEF all
<1>7. StructOf(132) = btrfs_root_item
  BY DEF StructOf
<1> QED BY <1>5, <1>6, <1>7, RightViewFits

LEMMA HeaderViewFits == ViewFits(FreeSpaceHeader)
<1> DEFINE names == {"generation", "num_entries", "num_bitmaps"}
           key == Part("location", "location", DiskKey)
<1>1. Right(Own(names))
  BY OwnIsPlain, PlainIsRight DEF Renamed, Limits
<1>2. Right(key)
  BY PartIsPlain, PlainIsRight DEF DiskKey, Renamed, Limits
<1>3. FreeSpaceHeader = View(0, btrfs_free_space_header, key \cup Own(names))
  BY DEF FreeSpaceHeader
<1> HIDE DEF names, key
<1>4. Right(key \cup Own(names))
  BY <1>1, <1>2, BothAccessors
<1>5. StructOf(0) = btrfs_free_space_header
  BY DEF StructOf
<1> QED BY <1>3, <1>4, <1>5, RightViewFits

LEMMA BalanceViewFits == ViewFits(TemporaryItem)
<1> DEFINE part(a) == Part(a, a, DiskBalanceArgs)
           all == Own({"flags"}) \cup part("data") \cup part("meta") \cup part("sys")
<1>1. Right(Own({"flags"}))
  BY OwnIsPlain, PlainIsRight DEF Renamed, Limits
<1>2. ASSUME NEW a \in {"data", "meta", "sys"} PROVE Right(part(a))
  BY BalanceIsRight DEF Renamed, Limits
<1>3. TemporaryItem = View(248, btrfs_balance_item, all)
  BY DEF TemporaryItem
<1> HIDE DEF part
<1>4. Right(all)
  BY <1>1, <1>2, BothAccessors
<1> HIDE DEF all
<1>5. StructOf(248) = btrfs_balance_item
  BY DEF StructOf
<1> QED BY <1>3, <1>4, <1>5, RightViewFits

\* The views of several types of items.
LEMMA KindsFit == \A v \in RootRefs \cup DirItems \cup DirLogItems \cup UuidItems : ViewFits(v)
<1>1. ASSUME NEW v \in RootRefs PROVE ViewFits(v)
  <2>1. PICK key \in {156, 144} : v = Named(key, btrfs_root_ref, Own({"dirid", "sequence"}))
    BY DEF RootRefs
  <2>2. StructOf(key) = btrfs_root_ref /\ key # 169
    <3>1. StructOf(156) = btrfs_root_ref /\ StructOf(144) = btrfs_root_ref
      BY DEF StructOf
    <3> QED BY <3>1
  <2> QED BY <2>1, <2>2, OwnViewFits DEF Renamed, Limits
<1>2. ASSUME NEW v \in DirItems PROVE ViewFits(v)
  <2> DEFINE all == Own({"data_len", "transid"}) \cup Part("location", "location", DiskKey)
  <2>1. PICK key \in {84, 96, 24} : v = Named(key, btrfs_dir_item, all)
    BY DEF DirItems
  <2>2. StructOf(key) = btrfs_dir_item /\ key # 169
    <3>1. StructOf(84) = btrfs_dir_item /\ StructOf(96) = btrfs_dir_item /\ StructOf(24) = btrfs_dir_item
      BY DEF StructOf
    <3> QED BY <3>1
  <2>3. Right(Own({"data_len", "transid"}))
    BY OwnIsPlain, PlainIsRight DEF Renamed, Limits
  <2>4. Right(Part("location", "location", DiskKey))
    BY PartIsPlain, PlainIsRight DEF DiskKey, Renamed, Limits
  <2>5. Right(all)
    BY <2>3, <2>4, BothAccessors
  <2> HIDE DEF all
  <2> QED BY <2>1, <2>2, <2>5, RightViewFits
<1>3. ASSUME NEW v \in DirLogItems PROVE ViewFits(v)
  <2>1. PICK key \in {60, 72} : v = View(key, btrfs_dir_log_item, Own({"end"}))
    BY DEF DirLogItems
  <2>2. StructOf(key) = btrfs_dir_log_item /\ key # 169
    <3>1. StructOf(60) = btrfs_dir_log_item /\ StructOf(72) = btrfs_dir_log_item
      BY DEF StructOf
    <3> QED BY <3>1
  <2> QED BY <2>1, <2>2, OwnViewFits DEF Renamed, Limits
<1>4. ASSUME NEW v \in UuidItems PROVE ViewFits(v)
  BY BareFits DEF UuidItems
<1> QED BY <1>1, <1>2, <1>3, <1>4

\* The views with an accessor that reads another field.
LEMMA MisreadingsFit ==
  ViewFits(ChunkItem) /\ ViewFits(InodeRef) /\ ViewFits(InodeExtref) /\ ViewFits(ExtentInlineRef)
<1> DEFINE Fine(key, accessors) ==
             \A g \in accessors : <<key, g[1]>> \in Misreads \/ (key # 169 /\ g[2] = Meant(g[1]))
<1>1. ASSUME NEW key, NEW struct, key # 169 => struct = StructOf(key), NEW accessors, Fine(key, accessors)
      PROVE  ViewFits(View(key, struct, accessors)) /\ ViewFits(Named(key, struct, accessors))
  <2>1. /\ View(key, struct, accessors).key = key /\ View(key, struct, accessors).struct = struct
        /\ View(key, struct, accessors).get = accessors
    BY DEF View
  <2>2. /\ Named(key, struct, accessors).key = key /\ Named(key, struct, accessors).struct = struct
        /\ Named(key, struct, accessors).get = accessors
    BY DEF Named
  <2> QED BY <1>1, <2>1, <2>2 DEF ViewFits
<1>2. ASSUME NEW key, key # 169, NEW accessors, Right(accessors) PROVE Fine(key, accessors)
  BY <1>2 DEF Right
<1>3. ASSUME NEW key, NEW g, NEW h, Fine(key, g), Fine(key, h) PROVE Fine(key, g \cup h)
  BY <1>3
<1>4. ASSUME NEW key, NEW a, NEW f, <<key, <<a>>>> \in Misreads PROVE Fine(key, Reads(a, f))
  <2>1. \A g \in Reads(a, f) : g = <<<<a>>, <<f>>>>
    BY DEF Reads
  <2>2. \A g \in Reads(a, f) : g[1] = <<a>>
    BY <2>1
  <2>3. \A g \in Reads(a, f) : <<key, g[1]>> \in Misreads
    BY <1>4, <2>2
  <2> QED BY <2>3
<1>5. /\ <<228, <<"sub_stripes">>>> \in Misreads /\ <<12, <<"data_len">>>> \in Misreads
      /\ <<13, <<"data_len">>>> \in Misreads
      /\ <<169, <<"type_">>>> \in Misreads /\ <<169, <<"offset">>>> \in Misreads
  BY DEF Misreads
<1>6. ViewFits(ChunkItem)
  <2> DEFINE names == {"length", "owner", "stripe_len", "type_", "io_align", "io_width",
                       "sector_size", "num_stripes"}
             stripe == Part("stripts", "stripe", Stripe)
             all == Own(names) \cup Reads("sub_stripes", "stripe_len") \cup stripe
  <2>1. Right(Own(names))
    BY OwnIsPlain, PlainIsRight DEF Renamed, Limits
  <2>2. Right(stripe)
    BY StripeIsRight
  <2>3. ChunkItem = View(228, btrfs_chunk, all)
    BY DEF ChunkItem
  <2> HIDE DEF names, stripe, Fine
  <2>4. Fine(228, Own(names)) /\ Fine(228, stripe)
    BY <1>2, <2>1, <2>2
  <2>5. Fine(228, Reads("sub_stripes", "stripe_len"))
    BY <1>4, <1>5
  <2>6. Fine(228, all)
    BY <1>3, <2>4, <2>5
  <2> HIDE DEF all
  <2>7. StructOf(228) = btrfs_chunk
    BY DEF StructOf
  <2> QED BY <1>1, <2>3, <2>6, <2>7
<1>7. ViewFits(InodeRef)
  <2> HIDE DEF Fine
  <2>1. Fine(12, Reads("data_len", "index"))
    BY <1>4, <1>5
  <2>2. StructOf(12) = btrfs_inode_ref
    BY DEF StructOf
  <2> QED BY <1>1, <2>1, <2>2 DEF InodeRef
<1>8. ViewFits(InodeExtref)
  <2> HIDE DEF Fine
  <2>1. Right(Own({"parent_objectid", "index"}))
    BY OwnIsPlain, PlainIsRight DEF Renamed, Limits
  <2>2. Fine(13, Own({"parent_objectid", "index"}))
    BY <1>2, <2>1
  <2>3. Fine(13, Reads("data_len", "index"))
    BY <1>4, <1>5
  <2>4. Fine(13, Own({"parent_objectid", "index"}) \cup Reads("data_len", "index"))
    BY <1>3, <2>2, <2>3
  <2>5. StructOf(13) = btrfs_inode_extref
    BY DEF StructOf
  <2> QED BY <1>1, <2>4, <2>5 DEF InodeExtref
<1>9. ViewFits(ExtentInlineRef)
  <2>1. ASSUME NEW g \in Own({"type_", "offset"}) PROVE <<169, g[1]>> \in Misreads
    <3>1. PICK n \in {"type_", "offset"} : g = <<<<n>>, <<n>>>>
      BY DEF Own
    <3>2. g[1] = <<n>>
      BY <3>1
    <3> QED BY <1>5, <3>2
  <2>2. Fine(169, Own({"type_", "offset"}))
    BY ONLY <2>1
  <2> HIDE DEF Fine
  <2> QED BY <1>1, <2>2 DEF ExtentInlineRef
<1> QED BY <1>6, <1>7, <1>8, <1>9

LEMMA ViewsFit == \A v \in Views : ViewFits(v)
<1>1. ViewFits(FreeSpaceExtent) /\ ViewFits(FreeSpaceBitmap) /\ ViewFits(QgroupRelation) /\ ViewFits(OrphanItem)
  BY BareFits DEF FreeSpaceExtent, FreeSpaceBitmap, QgroupRelation, OrphanItem
<1> QED BY <1>1, OwnViewsFit, InodeViewFits, RootViewFits, HeaderViewFits, BalanceViewFits, KindsFit,
           MisreadingsFit DEF Views

\* Each accessor reads the bytes of the field that it is for.
LEMMA FieldIsRead ==
  ASSUME NEW v \in Views, NEW g \in DOMAIN Field[v]
  PROVE  ReadBy[v][g] = Field[v][g]
<1>1. g \in v.get /\ <<v.key, g[1]>> \notin Misreads /\ Field[v][g] = Extent(Stored(v.key), Meant(g[1]))
  BY DEF Field
<1>2. ReadBy[v][g] = Extent(v.struct, g[2])
  BY <1>1 DEF ReadBy
<1>3. v.key # 169 /\ g[2] = Meant(g[1]) /\ v.struct = StructOf(v.key)
  BY <1>1, ViewsFit DEF ViewFits
<1>4. Stored(v.key) = v.struct
  <2>1. v \in get(v.key)
    BY DEF get
  <2> DEFINE u == CHOOSE w \in get(v.key) : TRUE
  <2>2. u \in get(v.key)
    BY <2>1
  <2>3. ExtentInlineRef.key = 169
    BY DEF ExtentInlineRef, View
  <2>4. Stored(v.key) = u.struct
    BY <1>3, <2>3 DEF Stored
  <2> HIDE DEF u
  <2>5. u \in Views /\ u.key = v.key
    BY <2>2 DEF get
  <2>6. u.struct = StructOf(v.key)
    BY <1>3, <2>5, ViewsFit DEF ViewFits
  <2> QED BY <1>3, <2>4, <2>6
<1> QED BY <1>1, <1>2, <1>3, <1>4

-----------------------------------------------------------------------------
(* What is read of an item.                                                  *)

\* The item of the tree that is in the buffer, whole.
IsCopyOf(copy, i) ==
    copy.key = i.key /\ copy.len = i.len /\ copy.has = i.has /\ copy.name_len = i.name_len

\* What is in the buffer is an item of the tree, or the header of one, and a
\* pointer handed out is the offset of an item in the buffer.
HandedInv ==
    /\ \A n \in 1 .. Len(placed) :
          placed[n].has = 0 \/ \E i \in asked.items : IsCopyOf(placed[n], i)
    /\ \A n \in 1 .. Len(handed) : handed[n] = placed[n].offset

\* The kernel copies whole items, or the header of the first.
LEMMA CopiedAreReal ==
  ASSUME asked \in Searches, nr_items \in Nat \ {0}, buf_size \in Nat
  PROVE  \A n \in 1 .. Len(Copied) :
            Copied[n].has = 0 \/ \E i \in asked.items : IsCopyOf(Copied[n], i)
<1>1. /\ Len(Wanted) \in Nat /\ Wanted \in Seq(asked.items)
      /\ \A n \in 1 .. Len(Wanted) : Wanted[n] \in asked.items
  BY WantedIs, LenProperties
<1>2. Wanted # <<>> <=> Len(Wanted) > 0
  BY <1>1
<1>3. CASE Wanted # <<>> /\ Fitting(Wanted) = 0
  <2> DEFINE only == [offset |-> 0, key |-> Wanted[1].key, len |-> 0, has |-> 0, name_len |-> 0]
  <2>1. Copied = <<only>> /\ only.has = 0
    BY <1>3 DEF Copied
  <2> HIDE DEF only
  <2>2. 1 .. Len(Copied) = {1} /\ Copied[1] = only
    BY <2>1
  <2> QED BY <2>1, <2>2
<1>4. CASE ~ (Wanted # <<>> /\ Fitting(Wanted) = 0)
  <2> DEFINE f == Fitting(Wanted)
             at_(m) == [offset |-> Filled(Wanted, m - 1), key |-> Wanted[m].key,
                        len |-> Wanted[m].len, has |-> Wanted[m].has,
                        name_len |-> Wanted[m].name_len]
  <2>1. f \in 0 .. Len(Wanted)
    BY <1>2, <1>4, FittingIs
  <2>2. Copied = [m \in 1 .. f |-> at_(m)]
    BY <1>4 DEF Copied, Place
  <2> HIDE DEF f
  <2>3. f \in Nat
    BY <1>1, <2>1
  <2>4. Len(Copied) = f
    <3> HIDE DEF at_
    <3> QED BY <2>2, <2>3
  <2>5. ASSUME NEW m \in 1 .. f PROVE Wanted[m] \in asked.items /\ IsCopyOf(Copied[m], Wanted[m])
    <3>1. m \in 1 .. Len(Wanted)
      BY <1>1, <2>1
    <3>2. Copied[m] = at_(m)
      BY <2>2
    <3> QED BY <1>1, <3>1, <3>2 DEF IsCopyOf
  <2> HIDE DEF at_
  <2> QED BY <2>4, <2>5
<1> QED BY <1>3, <1>4

LEMMA HandedInitially == SearchInit \/ SearchIdle => HandedInv
<1>1. SUFFICES ASSUME placed = <<>>, handed = <<>> PROVE HandedInv
  BY DEF SearchInit, SearchIdle
<1>2. Len(placed) = 0 /\ Len(handed) = 0
  BY <1>1
<1> QED BY <1>2 DEF HandedInv

LEMMA HandedStepKeeps ==
  ASSUME SearchInv, HandedInv, [Next]_vars
  PROVE  HandedInv'
<1>1. CASE UNCHANGED <<asked, placed, handed>>
  BY <1>1 DEF HandedInv
<1>2. CASE Query
  <2>1. asked \in Searches /\ nr_items \in Nat \ {0} /\ buf_size \in Nat
    <3>1. asked.limit \in 1 .. MaxItems /\ MaxItems \in Nat
      BY AskedIs, SearchesAssumption DEF SearchInv, SearchTypes
    <3> QED BY <3>1 DEF SearchInv, SearchTypes
  <2>2. /\ placed' = (IF Copied = <<>> THEN placed ELSE Copied) /\ handed' = <<>>
        /\ UNCHANGED asked
    BY <1>2 DEF Query
  <2>3. Len(handed') = 0
    BY <2>2
  <2>4. \A n \in 1 .. Len(Copied) :
            Copied[n].has = 0 \/ \E i \in asked.items : IsCopyOf(Copied[n], i)
    BY <2>1, CopiedAreReal
  <2>5. \A n \in 1 .. Len(placed') :
            placed'[n].has = 0 \/ \E i \in asked.items : IsCopyOf(placed'[n], i)
    BY <2>2, <2>4 DEF HandedInv
  <2> QED BY <2>2, <2>3, <2>5 DEF HandedInv, IsCopyOf
<1>3. CASE Take
  <2>1. handed' = Append(handed, placed[Len(handed) + 1].offset)
    BY <1>3, TakeIs
  <2>2. UNCHANGED <<asked, placed>>
    BY <1>3 DEF Take
  <2>3. handed \in Seq(Nat) /\ Len(handed) \in Nat
    BY LenProperties DEF SearchInv, SearchTypes
  <2>4. placed[Len(handed) + 1].offset \in Nat
    BY <1>3, TakeIs, PlacedIs DEF SearchInv
  <2>5. /\ Len(handed') = Len(handed) + 1
        /\ \A n \in 1 .. Len(handed) : handed'[n] = handed[n]
        /\ handed'[Len(handed) + 1] = placed[Len(handed) + 1].offset
    BY <2>1, <2>3, <2>4
  <2>6. ASSUME NEW n \in 1 .. Len(handed') PROVE handed'[n] = placed[n].offset
    <3>1. n \in 1 .. Len(handed) \/ n = Len(handed) + 1
      BY <2>3, <2>5
    <3> QED BY <2>5, <3>1 DEF HandedInv
  <2> QED BY <2>2, <2>6 DEF HandedInv, IsCopyOf
<1> QED BY <1>1, <1>2, <1>3, SearchSteps DEF Hidden, DropWalk

\* A pointer is the offset of an item, behind the header of which are its fields
\* and its name.
LEMMA HandedIsRight == SearchInv /\ HandedInv => ReadsAreRight
<1> SUFFICES ASSUME SearchInv, HandedInv, NEW p \in Range(handed)
             PROVE  \E i \in HeadersAt(p) : i \in Range(placed) /\ \A v \in get(i.key[2]) :
                      /\ \A g \in DOMAIN Field[v] :
                          Field[v][g].from + Field[v][g].size <= i.has =>
                              /\ Body(p) + ReadBy[v][g].from = i.offset + header + Field[v][g].from
                              /\ ReadBy[v][g].size = Field[v][g].size
                      /\ v.named /\ i.has > 0 =>
                          LET name == NameOf(v, i.name_len)
                          IN  /\ Body(p) + name.from = i.offset + header + i.has
                              /\ name.from + name.size <= i.len
  BY DEF ReadsAreRight
<1>1. PICK n \in 1 .. Len(handed) : p = handed[n]
  <2>1. handed \in Seq(Nat)
    BY DEF SearchInv, SearchTypes
  <2> QED BY <2>1 DEF Range
<1> DEFINE i == placed[n]
<1>2. /\ n \in 1 .. Len(placed) /\ DOMAIN placed = 1 .. Len(placed)
      /\ i.offset \in Nat /\ p = i.offset
  <2>1. Len(placed) \in Nat /\ DOMAIN placed = 1 .. Len(placed)
    BY PlacedIs DEF SearchInv
  <2>2. Len(handed) <= found /\ (found = 0 \/ found = Len(placed)) /\ found \in Nat /\ Len(handed) \in Nat
    BY LenProperties DEF SearchInv, SearchCursor, SearchTypes
  <2>3. n \in 1 .. Len(placed)
    <3>1. n \in Nat /\ 1 <= n /\ n <= Len(handed)
      BY <2>2
    <3>2. n <= found /\ found # 0
      BY <2>2, <3>1
    <3>3. found = Len(placed)
      BY <2>2, <3>2
    <3> QED BY <2>1, <3>1, <3>2, <3>3
  <2>4. i.offset \in Nat
    BY <2>3, PlacedIs DEF SearchInv
  <2>5. handed[n] = placed[n].offset
    BY DEF HandedInv
  <2> HIDE DEF i
  <2>6. p = i.offset
    BY <1>1, <2>5 DEF i
  <2> QED BY <2>1, <2>3, <2>4, <2>6
<1>3. i \in HeadersAt(p) /\ i \in Range(placed)
  BY <1>2, HeaderOfItem DEF Range, SearchInv
<1> SUFFICES ASSUME NEW v \in get(i.key[2])
             PROVE  /\ \A g \in DOMAIN Field[v] :
                          /\ Body(p) + ReadBy[v][g].from = i.offset + header + Field[v][g].from
                          /\ ReadBy[v][g].size = Field[v][g].size
                    /\ v.named /\ i.has > 0 =>
                          /\ Body(p) + NameOf(v, i.name_len).from = i.offset + header + i.has
                          /\ NameOf(v, i.name_len).from + NameOf(v, i.name_len).size <= i.len
  BY <1>3
<1>4. v \in Views
  BY DEF get
<1>5. ASSUME NEW g \in DOMAIN Field[v]
      PROVE  /\ Body(p) + ReadBy[v][g].from = i.offset + header + Field[v][g].from
             /\ ReadBy[v][g].size = Field[v][g].size
  <2>1. ReadBy[v][g] = Field[v][g]
    BY <1>4, FieldIsRead
  <2>2. Body(p) = i.offset + header
    BY <1>2 DEF Body
  <2> HIDE DEF i
  <2> QED BY <2>1, <2>2
<1>6. ASSUME v.named, i.has > 0
      PROVE  /\ Body(p) + NameOf(v, i.name_len).from = i.offset + header + i.has
             /\ NameOf(v, i.name_len).from + NameOf(v, i.name_len).size <= i.len
  <2>1. i.has # 0
    BY <1>6
  <2>2. PICK j \in asked.items : IsCopyOf(i, j)
    BY <1>2, <2>1 DEF HandedInv
  <2>3. v \in get(j.key[2]) /\ i.has = j.has /\ i.len = j.len /\ i.name_len = j.name_len
    BY <2>2 DEF IsCopyOf
  <2>4. asked \in Searches
    BY DEF SearchInv, SearchTypes
  <2>5. j.has = SizeOf(v.struct) /\ j.has + j.name_len <= j.len
    BY <1>6, <2>3, <2>4, SearchesAssumption
  <2>6. NameOf(v, i.name_len).from = i.has /\ NameOf(v, i.name_len).size = i.name_len
    BY <2>3, <2>5 DEF NameOf
  <2> QED BY <1>2, <2>3, <2>5, <2>6 DEF Body
<1> QED BY <1>5, <1>6

-----------------------------------------------------------------------------
\* The keys of the items in the buffer, as TreeSearch sees them.
KeysOf(items) == [n \in DOMAIN items |-> items[n].key]

\* A query hands TreeSearch the first keys of the range.
LEMMA QueryIsQuery ==
  ASSUME SearchInv, Query
  PROVE  Abstract!query
<1> USE DEF SearchInv
<1>1. asked \in Searches /\ nr_items \in Nat \ {0} /\ nr_items <= MaxItems /\ buf_size \in Nat /\ MaxItems \in Nat
  <2>1. asked.limit \in 1 .. MaxItems /\ MaxItems \in Nat
    BY AskedIs, SearchesAssumption DEF SearchTypes
  <2> QED BY <2>1 DEF SearchTypes
<1> DEFINE c == Len(Copied)
           n == IF c = 0 THEN 1 ELSE c
           batch == IF n < Len(Ordered) THEN SubSeq(Ordered, 1, n) ELSE Ordered
<1>2. /\ Copied \in Seq(Placement) /\ c \in Nat /\ DOMAIN Copied = 1 .. c
      /\ c <= Len(Ordered) /\ c <= nr_items
      /\ c = 0 => Len(Ordered) = 0
      /\ \A m \in 1 .. c : Copied[m].key = Ordered[m]
  <2>1. Copied \in Seq(Placement)
    BY <1>1, CopiedIs
  <2>2. c <= Len(Ordered) /\ c <= nr_items /\ (c = 0 => Len(Ordered) = 0)
    BY <1>1, CopiedIs
  <2>3. \A m \in 1 .. c : Copied[m].key = Ordered[m]
    BY <1>1, CopiedIs
  <2> QED BY <2>1, <2>2, <2>3, LenProperties
<1>3. Ordered \in Seq(Keys) /\ Len(Ordered) \in Nat
  BY <1>1, WantedIs, LenProperties
<1>4. Copied = <<>> <=> c = 0
  BY <1>2, EmptySeq
<1> HIDE DEF c
<1>5. n \in 1 .. (IF nr_items < MaxItems THEN nr_items ELSE MaxItems)
  BY <1>1, <1>2
<1>6. batch = KeysOf(Copied) /\ Len(batch) = c
  <2>1. CASE n < Len(Ordered)
    <3>1. c # 0 /\ n = c /\ c < Len(Ordered)
      BY <1>2, <2>1
    <3>2. SubSeq(Ordered, 1, c) = [m \in 1 .. c |-> Ordered[m]] /\ Len(SubSeq(Ordered, 1, c)) = c
      BY <1>2, <1>3, <3>1
    <3> QED BY <1>2, <2>1, <3>1, <3>2 DEF KeysOf
  <2>2. CASE ~ (n < Len(Ordered))
    <3>1. c = Len(Ordered)
      BY <1>2, <1>3, <2>2
    <3>2. Ordered = [m \in 1 .. c |-> Ordered[m]]
      BY <1>3, <3>1
    <3> QED BY <1>2, <2>2, <3>1, <3>2 DEF KeysOf
  <2> QED BY <2>1, <2>2
<1>7. batch = <<>> <=> c = 0
  BY <1>3, <1>4, <1>6, <1>2, EmptySeq DEF KeysOf
<1>8. /\ found' = c /\ placed' = (IF Copied = <<>> THEN placed ELSE Copied)
      /\ nr_items' = nr_items /\ handed' = <<>>
      /\ UNCHANGED <<asked, min_key, visited>>
  BY DEF Query, nr_items_after, c
<1>9. KeysOf(placed') = IF batch = <<>> THEN KeysOf(placed) ELSE batch
  BY <1>4, <1>6, <1>7, <1>8
<1>10. Len(handed') = 0
  BY <1>8
<1> HIDE DEF n
<1> QED BY <1>5, <1>6, <1>8, <1>9, <1>10 DEF Abstract!query, Ordered, InReach, KeysOf

\* What Iter::next takes is the next key.
LEMMA TakeIsTake ==
  ASSUME SearchInv, Take
  PROVE  Abstract!take
<1> DEFINE n == Len(handed) + 1
<1>1. n \in 1 .. Len(placed) /\ found = Len(placed) /\ visited' = visited \cup {placed[n].key}
  BY TakeIs
<1>2. Len(handed) \in Nat /\ Len(placed) \in Nat /\ handed \in Seq(Nat) /\ DOMAIN placed = 1 .. Len(placed)
  BY LenProperties DEF SearchInv, SearchTypes
<1>3. Len(handed') = n
  <2>1. handed' = Append(handed, curr_offset) /\ curr_offset \in Nat
    BY DEF Take, SearchInv, SearchTypes
  <2> QED BY <1>2, <2>1
<1>4. UNCHANGED <<asked, min_key, nr_items, placed, found>>
  BY DEF Take
<1>5. KeysOf(placed)[n] = placed[n].key
  BY <1>1, <1>2 DEF KeysOf
<1>6. Len(handed) < found
  BY <1>1, <1>2
<1> QED BY <1>1, <1>3, <1>4, <1>5, <1>6 DEF Abstract!take, KeysOf

\* The header at prev_offset is the one TreeSearch calls the last one seen.
LEMMA PreviousIsLastSeen ==
  ASSUME SearchInv, NEW item \in HeadersAt(prev_offset)
  PROVE  item.key \in Abstract!LastSeen
<1> USE DEF SearchInv
<1>1. /\ DOMAIN placed = 1 .. Len(placed) /\ Len(placed) \in Nat /\ Len(handed) \in Nat
      /\ placed = <<>> <=> Len(placed) = 0
  BY PlacedIs, LenProperties, EmptySeq DEF SearchTypes
<1>2. prev_offset \in Nat
  BY DEF SearchTypes
<1>3. CASE Len(placed) = 0
  <2>1. item.key \in Keys
    BY <1>2, HeadersAreTyped
  <2>2. Keys = Abstract!Key
    BY DEF Keys, Abstract!Key
  <2>3. KeysOf(placed) = <<>>
    BY <1>1, <1>3 DEF KeysOf
  <2> QED BY <2>1, <2>2, <2>3 DEF Abstract!LastSeen, KeysOf
<1>4. CASE Len(placed) > 0
  <2> DEFINE n == IF Len(handed) = 0 THEN 1 ELSE Len(handed)
  <2>1. n \in 1 .. Len(placed) /\ prev_offset = placed[n].offset
    BY <1>1, <1>4 DEF SearchCursor, Laid
  <2>2. item = placed[n]
    BY <2>1, HeaderOfItem
  <2>3. KeysOf(placed)[n] = placed[n].key /\ KeysOf(placed) # <<>>
    BY <1>1, <1>4, <2>1 DEF KeysOf
  <2> QED BY <2>2, <2>3 DEF Abstract!LastSeen, KeysOf
<1> QED BY <1>1, <1>3, <1>4

\* The keys seen last for which next_offset returns.
Returning == {k \in Abstract!LastSeen : Abstract!OffsetReturns(k)}

LEMMA DropIsDrop ==
  ASSUME SearchInv, DropWalk
  PROVE  Abstract!drop({Abstract!next_offset(k) : k \in Returning})
<1>1. min_key' \in {Abstract!next_offset(k) : k \in Returning}
  BY PreviousIsLastSeen DEF DropWalk, Returning
<1> QED BY <1>1 DEF DropWalk, Abstract!drop

\* A step is one of TreeSearch, or hidden from it.
LEMMA StepIsSearch ==
  ASSUME SearchInv, [Next]_vars
  PROVE  [Abstract!query \/ Abstract!take
          \/ Abstract!drop({Abstract!next_offset(k) : k \in Returning})]_(Abstract!searchVars)
<1>1. Hidden => UNCHANGED Abstract!searchVars
  BY DEF Hidden, Abstract!searchVars
<1> QED BY <1>1, SearchSteps, QueryIsQuery, TakeIsTake, DropIsDrop

-----------------------------------------------------------------------------
(* What get_info_by_id fills in.                                             *)

OfReference == {"name", "dirid", "parent_id"}

\* A subvolume has an item of a type.
HasItem(type) == \E i \in InfoItems(asked) : i.key[2] = type

\* A field as the root item tells it.
Told(f) ==
    \/ info[f] = Promised(f)
    \/ /\ info[f] = <<"beyond">>
       /\ \E i \in InfoItems(asked) : i.key[2] = 132 /\ i.len < SizeOf(btrfs_root_item)

\* Each field is what the items taken so far say, or was never written.
InfoFields ==
    \A f \in DOMAIN info :
        /\ f \in InRootItem \cup OfReference \cup {"treeid", "reserved"}
        /\ f \in InRootItem => IF got_root_item THEN Told(f) ELSE info[f] = <<"uninit">>
        /\ f \in OfReference =>
              info[f] = IF got_root_ref /\ treeid # FsTree THEN Promised(f) ELSE <<"uninit">>
        /\ f \in {"treeid", "reserved"} =>
              info[f] = IF at = "Ok" THEN Promised(f) ELSE <<"uninit">>

\* The buffer has the items of the subvolume and no others.
InfoPlaced ==
    /\ \A n \in 1 .. found : \E i \in InfoItems(asked) :
          i.key = placed[n].key /\ i.len = placed[n].len
    /\ \A i \in InfoItems(asked) : \E n \in 1 .. found : placed[n].key = i.key

\* Where it is: there is one query, of which every item is looked at.
InfoStage ==
    /\ at \in {"loop", "query", "items"} => min_key = asked.min
    /\ at \in {"query", "items"} => treeid # FsTree
    /\ at = "query" => Wanting
    /\ at # "overflow"
    /\ at = "items" =>
        /\ InfoPlaced
        /\ \A n \in 1 .. Len(handed) :
              /\ placed[n].key[2] = 132 => got_root_item
              /\ placed[n].key[2] = 144 => got_root_ref
    /\ at \in {"loop", "Ok"} =>
        \/ treeid = FsTree
        \/ at = "loop" /\ Wanting
        \/ got_root_item /\ (HasItem(144) => got_root_ref)

\* The top level is not searched for.
InfoTop == treeid = FsTree => ~ got_root_item /\ (at = "loop" => got_root_ref)

InfoInv ==
    IF asked.client = "get_info_by_id" THEN InfoFields /\ InfoStage /\ InfoTop ELSE at # "Ok"

\* What is known of the search of get_info_by_id.
LEMMA InfosAre ==
  ASSUME asked \in Searches, asked.client = "get_info_by_id"
  PROVE  /\ treeid \in 0 .. MaxObjectid /\ ~ boxed /\ asked.limit >= 2
         /\ asked.min = InfoBounds(treeid).min /\ asked.max = InfoBounds(treeid).max
         /\ \A i \in InfoItems(asked) :
               /\ i \in asked.items /\ i.key[1] = treeid /\ i.key[2] \in {132, 144}
               /\ i.key \in Keys /\ i.len \in Nat
               /\ \E root \in InfoItems(asked) : root.key[2] = 132
         /\ \A i, j \in InfoItems(asked) :
               /\ i.key[2] = j.key[2] => i = j
               /\ header + i.len + header + j.len <= buf_bytes
<1>1. /\ asked.treeid \in 0 .. MaxObjectid /\ asked.buf_size = 0 /\ asked.limit >= 2
      /\ asked.min = InfoBounds(asked.treeid).min /\ asked.max = InfoBounds(asked.treeid).max
      /\ \A i \in InfoItems(asked) :
            /\ i.key[2] \in {132, 144}
            /\ \E root \in InfoItems(asked) : root.key[2] = 132
            /\ \A j \in InfoItems(asked) :
                /\ i.key[2] = j.key[2] => i = j
                /\ header + i.len + header + j.len <= buf_bytes
  BY InfosAssumption
<1>2. \A i \in InfoItems(asked) : i \in asked.items /\ i.key[1] = asked.treeid
  BY DEF InfoItems
<1>3. \A i \in asked.items : i.key \in Keys /\ i.len \in Nat
  BY AskedIs
<1> QED BY <1>1, <1>2, <1>3 DEF treeid, boxed

\* The bounds of the search.
LEMMA BoundsAre ==
  ASSUME asked \in Searches, asked.client = "get_info_by_id", treeid # FsTree
  PROVE  asked.min = <<treeid, 132, 0>> /\ asked.max = <<treeid, 144, MaxOffset>>
<1>1. asked.min = InfoBounds(treeid).min /\ asked.max = InfoBounds(treeid).max
  BY InfosAre
<1>2. set_key_by_range([min |-> 0, max |-> MaxObjectid], <<>>, <<treeid, "included">>)
        = [min |-> treeid, max |-> treeid]
  BY DEF set_key_by_range
<1>3. set_key_by_range([min |-> 0, max |-> MaxType], <<132, "included">>, <<144, "excluded">>)
        = [min |-> 132, max |-> 144]
  BY DEF set_key_by_range
<1> QED BY <1>1, <1>2, <1>3 DEF InfoBounds

\* They hold the items of the subvolume that are looked at.
LEMMA ReachIsInfo ==
  ASSUME asked \in Searches, asked.client = "get_info_by_id", treeid # FsTree, min_key = asked.min
  PROVE  InReach = {i.key : i \in InfoItems(asked)}
<1>1. min_key = <<treeid, 132, 0>> /\ asked.max = <<treeid, 144, MaxOffset>>
  BY BoundsAre
<1>2. treeid \in Nat
  BY InfosAre, SearchesAssumption
<1>3. ASSUME NEW i \in asked.items
      PROVE  Abstract!InRange(i.key, min_key, asked.max) <=> i \in InfoItems(asked)
  <2>1. i.key \in Keys
    BY AskedIs
  <2>2. /\ i.key[1] \in Nat /\ i.key[2] \in Nat /\ i.key[3] \in Nat /\ i.key[3] <= MaxOffset
        /\ MaxOffset \in Nat
    BY <2>1, KeyParts, SearchesAssumption
  <2>3. Abstract!InRange(i.key, min_key, asked.max)
          <=> i.key[1] = treeid /\ i.key[2] \in 132 .. 144
    BY <1>1, <1>2, <2>2 DEF Abstract!InRange, Abstract!Below
  <2> QED BY <2>3 DEF InfoItems, treeid
<1>4. InfoItems(asked) \subseteq asked.items
  BY DEF InfoItems
<1> QED BY <1>3, <1>4 DEF InReach

\* There are at most two, and the kernel copies them all.
LEMMA AllCopied ==
  ASSUME SearchTypes, asked.client = "get_info_by_id", treeid # FsTree, min_key = asked.min
  PROVE  /\ Len(Copied) \in Nat /\ (Copied = <<>> <=> Len(Copied) = 0)
         /\ \A n \in 1 .. Len(Copied) : \E i \in InfoItems(asked) :
               i.key = Copied[n].key /\ i.len = Copied[n].len
         /\ \A i \in InfoItems(asked) : \E n \in 1 .. Len(Copied) : Copied[n].key = i.key
<1> DEFINE N == Len(Wanted)
<1>1. asked \in Searches /\ nr_items = asked.limit /\ nr_items \in Nat /\ nr_items >= 2 /\ buf_size \in Nat
  <2>1. asked \in Searches /\ nr_items = asked.limit /\ buf_size \in Nat
    BY DEF SearchTypes
  <2>2. asked.limit \in 1 .. MaxItems /\ MaxItems \in Nat /\ asked.limit >= 2
    BY <2>1, AskedIs, InfosAre, SearchesAssumption
  <2> QED BY <2>1, <2>2
<1>2. InReach = {i.key : i \in InfoItems(asked)} /\ InReach \in SUBSET Keys
  BY <1>1, ReachIsInfo, InfosAre
<1>3. /\ N \in Nat /\ N = Len(Ordered) /\ DOMAIN Wanted = 1 .. N /\ N = Cardinality(InReach)
      /\ \A n \in 1 .. N : Wanted[n] \in asked.items /\ Wanted[n].key = Ordered[n]
      /\ Wanted # <<>> => N > 0
  <2>1. /\ Wanted \in Seq(asked.items) /\ N = Len(Ordered)
        /\ \A n \in 1 .. N : Wanted[n] \in asked.items /\ Wanted[n].key = Ordered[n]
    BY <1>1, WantedIs
  <2>2. N \in Nat /\ DOMAIN Wanted = 1 .. N /\ (Wanted # <<>> => N > 0)
    BY <2>1, LenProperties, EmptySeq
  <2>3. Cardinality(InReach) \in Nat /\ Ordered \in [1 .. Cardinality(InReach) -> InReach]
    BY <1>2, InOrderAscends DEF Ordered
  <2>4. Len(Ordered) = Cardinality(InReach)
    BY <2>3
  <2> QED BY <2>1, <2>2, <2>4
<1>4. ASSUME NEW n \in 1 .. N PROVE Wanted[n] \in InfoItems(asked)
  <2>1. Ordered[n] \in InReach
    BY <1>2, <1>3, InOrderAscends DEF Ordered
  <2>2. PICK i \in InfoItems(asked) : i.key = Wanted[n].key
    BY <1>2, <1>3, <2>1
  <2>3. i = Wanted[n]
    <3>1. i \in asked.items /\ Wanted[n] \in asked.items
      BY <1>1, <1>3, InfosAre
    <3> QED BY <1>1, <2>2, <3>1, SearchesAssumption
  <2> QED BY <2>3
<1>5. ASSUME NEW m \in 1 .. N, NEW n \in 1 .. N, m < n PROVE Wanted[m].key[2] # Wanted[n].key[2]
  <2>1. Abstract!Below(Ordered[m], Ordered[n])
    BY <1>2, <1>3, <1>5, InOrderAscends DEF Ordered
  <2>2. Wanted[m].key # Wanted[n].key
    <3>1. Ordered[m] \in Keys
      BY <1>2, <1>3, InOrderAscends DEF Ordered
    <3> QED BY <1>3, <2>1, <3>1, KeyOrder
  <2>3. Wanted[m] \in InfoItems(asked) /\ Wanted[n] \in InfoItems(asked)
    BY <1>4
  <2> QED BY <1>1, <2>2, <2>3, InfosAre
<1>6. N <= 2
  <2>1. SUFFICES ASSUME N >= 3 PROVE FALSE
    BY <1>3
  <2>2. 1 \in 1 .. N /\ 2 \in 1 .. N /\ 3 \in 1 .. N
    BY <1>3, <2>1
  <2>3. /\ Wanted[1].key[2] \in {132, 144} /\ Wanted[2].key[2] \in {132, 144}
        /\ Wanted[3].key[2] \in {132, 144}
    BY <1>1, <1>4, <2>2, InfosAre
  <2>4. /\ Wanted[1].key[2] # Wanted[2].key[2] /\ Wanted[1].key[2] # Wanted[3].key[2]
        /\ Wanted[2].key[2] # Wanted[3].key[2]
    BY <1>5, <2>2
  <2> QED BY <2>3, <2>4
<1>7. Filled(Wanted, N) <= Room
  <2>1. Room = buf_bytes
    BY <1>1, InfosAre DEF Room
  <2>2. \A n \in 1 .. N : Wanted[n].len \in Nat
    BY <1>1, <1>4, InfosAre
  <2>3. header \in Nat /\ Filled(Wanted, 0) = 0
    BY <1>1, HeaderHasSize, FilledIs
  <2>4. CASE N = 0
    BY <2>1, <2>3, <2>4 DEF buf_bytes
  <2>5. CASE N >= 1
    <3>1. 1 \in 1 .. N
      BY <1>3, <2>5
    <3>2. Filled(Wanted, 1) = Filled(Wanted, 1 - 1) + header + Wanted[1].len
      BY <1>1, <3>1, FilledIs
    <3>3. Filled(Wanted, 1) = header + Wanted[1].len /\ Wanted[1].len \in Nat
      BY <2>2, <2>3, <3>1, <3>2
    <3>4. CASE N = 1
      <4>1. header + Wanted[1].len + header + Wanted[1].len <= buf_bytes
        BY <1>1, <1>4, <3>1, InfosAre
      <4> QED BY <2>1, <2>3, <3>3, <3>4, <4>1 DEF buf_bytes
    <3>5. CASE N = 2
      <4>1. 2 \in 1 .. N
        BY <3>5
      <4>2. Filled(Wanted, 2) = Filled(Wanted, 2 - 1) + header + Wanted[2].len
        BY <1>1, <4>1, FilledIs
      <4>3. header + Wanted[1].len + header + Wanted[2].len <= buf_bytes /\ Wanted[2].len \in Nat
        BY <1>1, <1>4, <2>2, <3>1, <4>1, InfosAre
      <4> QED BY <2>1, <2>3, <3>3, <3>5, <4>2, <4>3 DEF buf_bytes
    <3> QED BY <1>3, <1>6, <2>5, <3>4, <3>5
  <2> QED BY <1>3, <2>4, <2>5
<1>8. Fitting(Wanted) = N
  <2>1. Fitting(Wanted) \in 0 .. N /\ N \in 0 .. N /\ N <= nr_items
    BY <1>1, <1>3, <1>6, FittingIs
  <2>2. N <= Fitting(Wanted)
    BY <1>1, <1>7, <2>1, FittingIs
  <2> QED BY <1>3, <2>1, <2>2
<1>9. Copied = Place(Wanted, N)
  BY <1>3, <1>8 DEF Copied
<1>10. /\ DOMAIN Copied = 1 .. N
       /\ \A n \in 1 .. N : Copied[n].key = Wanted[n].key /\ Copied[n].len = Wanted[n].len
  BY <1>9 DEF Place
<1>11. Len(Copied) = N /\ (Copied = <<>> <=> N = 0)
  <2>1. Copied \in Seq(Placement)
    BY <1>1, CopiedIs
  <2>2. DOMAIN Copied = 1 .. Len(Copied) /\ Len(Copied) \in Nat
    BY <2>1, LenProperties
  <2>3. Len(Copied) = N
    BY <1>3, <1>10, <2>2
  <2> QED BY <2>1, <2>3, EmptySeq
<1>12. ASSUME NEW i \in InfoItems(asked) PROVE \E n \in 1 .. N : Copied[n].key = i.key
  <2>1. i.key \in InReach
    BY <1>2
  <2>2. PICK n \in 1 .. N : Ordered[n] = i.key
    BY <1>2, <1>3, <2>1, InOrderAscends DEF Ordered
  <2> QED BY <1>3, <1>10, <2>2
<1>13. \A n \in 1 .. N : \E i \in InfoItems(asked) : i.key = Copied[n].key /\ i.len = Copied[n].len
  BY <1>4, <1>10
<1> QED BY <1>3, <1>11, <1>12, <1>13

\* What is read of the root item.
LEMMA SourceIsTold ==
  ASSUME asked \in Searches, asked.client = "get_info_by_id",
         NEW i \in InfoItems(asked), i.key[2] = 132,
         NEW item, item.key = i.key, item.len = i.len, NEW f \in InRootItem
  PROVE  \/ Source(item, f) = Promised(f)
         \/ Source(item, f) = <<"beyond">> /\ i.len < SizeOf(btrfs_root_item)
<1> DEFINE e == Extent(btrfs_root_item, <<f>>)
<1>1. i.key[1] = treeid /\ i.len \in Nat
  BY InfosAre
<1>2. /\ e.from + e.size \in Nat /\ e.from + e.size <= SizeOf(btrfs_root_item)
      /\ SizeOf(btrfs_root_item) \in Nat
  BY SourceIsWithin
<1>3. Source(item, f) = IF e.from + e.size <= i.len THEN <<treeid, 132, f>> ELSE <<"beyond">>
  BY <1>1 DEF Source
<1> HIDE DEF e
<1>4. Promised(f) = <<treeid, 132, f>>
  BY DEF Promised, InRootItem
<1> QED BY <1>1, <1>2, <1>3, <1>4

\* At first nothing is written.
LEMMA InfoInitially ==
  ASSUME (SearchInit /\ InfoInit) \/ SearchIdle
  PROVE  InfoInv
<1>1. CASE SearchIdle
  <2>1. at = "idle" /\ info = <<>> /\ ~ got_root_item
    BY <1>1 DEF SearchIdle
  <2>2. DOMAIN info = {}
    BY <2>1
  <2> QED BY <2>1, <2>2 DEF InfoInv, InfoFields, InfoStage, InfoTop
<1>2. CASE SearchInit /\ InfoInit
  <2>1. SUFFICES ASSUME asked.client = "get_info_by_id" PROVE InfoFields /\ InfoStage /\ InfoTop
    BY <1>2 DEF InfoInv, SearchInit
  <2>2. /\ at = "loop" /\ min_key = asked.min /\ got_root_item = FALSE
        /\ got_root_ref = (treeid = FsTree)
    BY <1>2, <2>1 DEF SearchInit, InfoInit
  <2>3. /\ DOMAIN info = FirstNames(btrfs_ioctl_get_subvol_info_args)
        /\ \A f \in DOMAIN info : info[f] = <<"uninit">>
    BY <1>2 DEF InfoInit, FirstNames
  <2>4. DOMAIN info \subseteq InRootItem \cup OfReference \cup {"treeid", "reserved"}
    BY <2>3, InfoArgsAre DEF OfReference
  <2>5. InfoFields
    BY <2>2, <2>3, <2>4 DEF InfoFields
  <2>6. InfoStage
    BY <2>2 DEF InfoStage, Wanting
  <2> QED BY <2>2, <2>5, <2>6 DEF InfoTop
<1> QED BY <1>1, <1>2

\* The loop goes on, or ends with what was found.
LEMMA InfoLoopKeeps ==
  ASSUME InfoInv, asked.client = "get_info_by_id", InfoLoop
  PROVE  InfoInv'
<1>1. /\ at = "loop" /\ InfoFields /\ InfoStage /\ InfoTop
      /\ UNCHANGED <<asked, min_key, placed, found, handed, got_root_item, got_root_ref>>
  BY DEF InfoInv, InfoLoop
<1>2. treeid' = treeid
  BY <1>1 DEF treeid
<1>3. CASE Wanting
  <2>1. at' = "query" /\ info' = info /\ ~ got_root_item /\ ~ got_root_ref
    BY <1>3 DEF InfoLoop, Wanting
  <2>2. treeid # FsTree
    BY <1>1, <2>1 DEF InfoTop
  <2>3. InfoFields'
    BY <1>1, <1>2, <2>1 DEF InfoFields
  <2>4. InfoStage' /\ InfoTop'
    BY <1>1, <1>2, <2>1, <2>2 DEF InfoStage, InfoTop, Wanting
  <2> QED BY <1>1, <2>3, <2>4 DEF InfoInv
<1>4. CASE ~ Wanting
  <2>1. /\ at' = "Ok"
        /\ info' = [info EXCEPT !.treeid = <<treeid, 132, "key objectid">>, !.reserved = <<"zero">>]
    BY <1>4 DEF InfoLoop
  <2>2. /\ DOMAIN info' = DOMAIN info
        /\ \A f \in DOMAIN info :
              info'[f] = CASE f = "treeid" -> <<treeid, 132, "key objectid">>
                           [] f = "reserved" -> <<"zero">>
                           [] OTHER -> info[f]
    BY <2>1
  <2>3. ASSUME NEW f \in DOMAIN info, f \notin {"treeid", "reserved"} PROVE info'[f] = info[f]
    BY <2>2, <2>3
  <2>4. ASSUME NEW f \in DOMAIN info, f \in {"treeid", "reserved"} PROVE info'[f] = Promised(f)
    BY <2>2, <2>4 DEF Promised
  <2>5. \A f : Promised(f)' = Promised(f)
    BY <1>2 DEF Promised
  <2>6. InfoFields'
    <3>1. SUFFICES ASSUME NEW f \in DOMAIN info
                   PROVE  /\ f \in InRootItem \cup OfReference \cup {"treeid", "reserved"}
                          /\ f \in InRootItem =>
                                IF got_root_item THEN Told(f)' ELSE info'[f] = <<"uninit">>
                          /\ f \in OfReference =>
                                info'[f] = IF got_root_ref /\ treeid # FsTree
                                           THEN Promised(f) ELSE <<"uninit">>
                          /\ f \in {"treeid", "reserved"} => info'[f] = Promised(f)
      BY <1>1, <1>2, <2>1, <2>2, <2>5 DEF InfoFields
    <3>2. CASE f \in {"treeid", "reserved"}
      BY <2>4, <3>2 DEF InRootItem, OfReference
    <3>3. CASE f \notin {"treeid", "reserved"}
      <4>1. Told(f)' <=> Told(f)
        BY <1>1, <2>3, <2>5, <3>3 DEF Told
      <4> QED BY <1>1, <2>3, <3>3, <4>1 DEF InfoFields
    <3> QED BY <3>2, <3>3
  <2>7. InfoStage' /\ InfoTop'
    BY <1>1, <1>2, <1>4, <2>1 DEF InfoStage, InfoTop, Wanting, HasItem
  <2> QED BY <1>1, <2>6, <2>7 DEF InfoInv
<1> QED BY <1>3, <1>4

\* Steps that write no field.
LEMMA FieldsStay ==
  ASSUME InfoFields, at # "Ok", at' # "Ok",
         UNCHANGED <<asked, got_root_item, got_root_ref, info>>
  PROVE  InfoFields'
<1>1. treeid' = treeid
  BY DEF treeid
<1>2. \A f : Promised(f)' = Promised(f)
  BY <1>1 DEF Promised
<1>3. \A f : Told(f)' <=> Told(f)
  BY <1>2 DEF Told
<1> QED BY <1>1, <1>2, <1>3 DEF InfoFields

\* The query finds all items of the subvolume.
LEMMA InfoQueryKeeps ==
  ASSUME SearchInv, InfoInv, asked.client = "get_info_by_id", InfoQuery
  PROVE  InfoInv'
<1>1. /\ at = "query" \/ at = "overflow"
      /\ at' = "items" /\ found' = Len(Copied)
      /\ placed' = (IF Copied = <<>> THEN placed ELSE Copied) /\ handed' = <<>>
      /\ UNCHANGED <<asked, min_key, got_root_item, got_root_ref, info>>
  BY DEF InfoQuery, Query, infoVars
<1>2. InfoFields /\ InfoStage /\ InfoTop /\ SearchTypes
  BY DEF InfoInv, SearchInv
<1>3. treeid' = treeid
  BY <1>1 DEF treeid
<1>4. InfoFields'
  BY <1>1, <1>2, FieldsStay
<1>5. /\ at = "query" /\ treeid # FsTree /\ Wanting /\ min_key = asked.min
      /\ asked \in Searches
  BY <1>1, <1>2 DEF InfoStage, SearchTypes
<1>6. /\ Len(Copied) \in Nat /\ (Copied = <<>> <=> Len(Copied) = 0)
      /\ \A n \in 1 .. Len(Copied) : \E i \in InfoItems(asked) :
            i.key = Copied[n].key /\ i.len = Copied[n].len
      /\ \A i \in InfoItems(asked) : \E n \in 1 .. Len(Copied) : Copied[n].key = i.key
  BY <1>2, <1>5, AllCopied
<1>7. \A n \in 1 .. Len(Copied) : placed'[n] = Copied[n]
  BY <1>1, <1>6
<1>8. InfoPlaced'
  BY <1>1, <1>6, <1>7 DEF InfoPlaced
<1>9. Len(handed') = 0
  BY <1>1
<1>10. InfoStage' /\ InfoTop'
  BY <1>1, <1>3, <1>5, <1>8, <1>9 DEF InfoStage, InfoTop
<1> QED BY <1>1, <1>4, <1>10 DEF InfoInv

\* An item taken is one of the subvolume, and its fields are written.
LEMMA InfoTakeKeeps ==
  ASSUME SearchInv, InfoInv, asked.client = "get_info_by_id", InfoTake
  PROVE  InfoInv'
<1> DEFINE n == Len(handed) + 1
           item == placed[n]
<1>1. /\ InfoFields /\ InfoStage /\ InfoTop /\ SearchTypes /\ Laid(placed)
      /\ asked \in Searches /\ SearchCursor
  BY DEF InfoInv, SearchInv, SearchTypes
<1>2. at = "items" /\ at' = "items" /\ UNCHANGED <<asked, min_key, placed, found>>
  BY DEF InfoTake, Take
<1>3. treeid # FsTree /\ InfoPlaced /\ treeid' = treeid
  BY <1>1, <1>2 DEF InfoStage, treeid
<1>4. /\ n \in 1 .. Len(placed) /\ found = Len(placed) /\ handed' = Append(handed, item.offset)
      /\ Len(placed) \in Nat /\ Len(handed) \in Nat /\ handed \in Seq(Nat) /\ item.offset \in Nat
  <2>1. /\ n \in 1 .. Len(placed) /\ found = Len(placed) /\ handed' = Append(handed, item.offset)
    BY TakeIs DEF InfoTake
  <2> QED BY <1>1, <2>1, PlacedIs, LenProperties DEF SearchTypes
<1>5. Len(handed') = n
  BY <1>4
<1>6. HeadersAt(curr_offset) = {item}
  <2>1. curr_offset = item.offset
    <3>1. index > 0
      BY DEF InfoTake, Take
    <3> QED BY <1>1, <3>1 DEF SearchCursor
  <2> QED BY <1>1, <1>4, <2>1, HeaderOfItem
<1>7. PICK i \in InfoItems(asked) : i.key = item.key /\ i.len = item.len
  BY <1>3, <1>4 DEF InfoPlaced
<1>8. item.key[2] \in {132, 144} /\ item.key[1] = treeid
  BY <1>1, <1>7, InfosAre
<1>9. /\ got_root_item' = (got_root_item \/ item.key[2] = 132)
      /\ got_root_ref' = (got_root_ref \/ item.key[2] = 144)
      /\ info' = IF item.key[2] = 132 THEN Overwritten(subvol_info_args_from_root_item(item))
                 ELSE Overwritten(from_root_ref(item))
  BY <1>6, <1>8 DEF InfoTake
<1> HIDE DEF item
<1>10. \A f : Promised(f)' = Promised(f)
  BY <1>3 DEF Promised
<1>11. InfoFields'
  <2>1. CASE item.key[2] = 132
    <3>1. /\ DOMAIN info' = DOMAIN info
          /\ \A f \in DOMAIN info : info'[f] = IF f \in InRootItem THEN Source(item, f) ELSE info[f]
      <4>1. info' = Overwritten(subvol_info_args_from_root_item(item))
        BY <1>9, <2>1
      <4> QED BY <4>1 DEF Overwritten, subvol_info_args_from_root_item
    <3>8. got_root_item' /\ (got_root_ref' <=> got_root_ref)
      <4>1. item.key[2] # 144
        BY <2>1
      <4> QED BY <1>9, <2>1, <4>1, Zenon
    <3>2. ASSUME NEW f \in DOMAIN info, f \in InRootItem PROVE Told(f)'
      <4>1. \/ Source(item, f) = Promised(f)
            \/ Source(item, f) = <<"beyond">> /\ i.len < SizeOf(btrfs_root_item)
        BY <1>1, <1>7, <2>1, <3>2, SourceIsTold
      <4>2. info'[f] = Source(item, f) /\ i.key[2] = 132
        BY <1>7, <2>1, <3>1, <3>2
      <4> QED BY <1>2, <1>10, <4>1, <4>2 DEF Told
    <3>3. ASSUME NEW f \in DOMAIN info, f \notin InRootItem PROVE info'[f] = info[f]
      BY <3>1, <3>3
    <3>4. InRootItem \cap (OfReference \cup {"treeid", "reserved"}) = {}
      BY DEF InRootItem, OfReference
    <3> QED BY <1>1, <1>2, <1>3, <1>10, <3>8, <3>1, <3>2, <3>3, <3>4 DEF InfoFields
  <2>2. CASE item.key[2] = 144
    <3>5. PICK by_key : by_key = <<treeid, 144, "key offset">>
      OBVIOUS
    <3>6. from_root_ref(item) = [name |-> <<treeid, 144, "name">>, dirid |-> <<treeid, 144, "dirid">>,
                                 parent_id |-> by_key]
      BY <1>8, <2>2, <3>5 DEF from_root_ref
    <3>1. /\ DOMAIN info' = DOMAIN info
          /\ \A f \in DOMAIN info :
                info'[f] = IF f \in OfReference THEN from_root_ref(item)[f] ELSE info[f]
      <4>2. DOMAIN from_root_ref(item) = OfReference
        BY <3>6 DEF OfReference
      <4>3. info' = Overwritten(from_root_ref(item))
        BY <1>9, <2>2
      <4> QED BY <4>2, <4>3 DEF Overwritten
    <3>8. got_root_ref' /\ (got_root_item' <=> got_root_item)
      <4>1. item.key[2] # 132
        BY <2>2
      <4> QED BY <1>9, <2>2, <4>1, Zenon
    <3>2. ASSUME NEW f \in OfReference PROVE from_root_ref(item)[f] = Promised(f)
      <4>1. /\ Promised("name") = <<treeid, 144, "name">> /\ Promised("dirid") = <<treeid, 144, "dirid">>
            /\ Promised("parent_id") = by_key
        BY <3>5 DEF Promised
      <4>2. /\ from_root_ref(item)["name"] = <<treeid, 144, "name">>
            /\ from_root_ref(item)["dirid"] = <<treeid, 144, "dirid">>
            /\ from_root_ref(item)["parent_id"] = by_key
        BY <3>6
      <4>3. f = "name" \/ f = "dirid" \/ f = "parent_id"
        BY DEF OfReference
      <4> QED BY <4>1, <4>2, <4>3
    <3>3. \A f \in DOMAIN info : f \notin OfReference => info'[f] = info[f]
      BY <3>1
    <3>4. OfReference \cap (InRootItem \cup {"treeid", "reserved"}) = {}
      BY DEF InRootItem, OfReference
    <3>7. \A f \in DOMAIN info : f \notin OfReference => (Told(f)' <=> Told(f))
      BY <1>2, <1>10, <3>3 DEF Told
    <3> QED BY <1>1, <1>2, <1>3, <1>10, <3>8, <3>1, <3>2, <3>3, <3>4, <3>7 DEF InfoFields
  <2> QED BY <1>8, <2>1, <2>2
<1>12. InfoPlaced'
  BY <1>2, <1>3 DEF InfoPlaced
<1>13. ASSUME NEW m \in 1 .. n
       PROVE  (placed[m].key[2] = 132 => got_root_item') /\ (placed[m].key[2] = 144 => got_root_ref')
  <2>1. CASE m = n
    BY <1>9, <2>1 DEF item
  <2>2. CASE m # n
    <3>1. m \in 1 .. Len(handed)
      BY <1>4, <2>2
    <3> QED BY <1>1, <1>2, <1>9, <3>1 DEF InfoStage
  <2> QED BY <2>1, <2>2
<1>14. InfoStage' /\ InfoTop'
  BY <1>1, <1>2, <1>3, <1>5, <1>12, <1>13 DEF InfoStage, InfoTop
<1> QED BY <1>2, <1>11, <1>14 DEF InfoInv

\* When all are taken both were found that there are.
LEMMA InfoOnKeeps ==
  ASSUME SearchInv, InfoInv, asked.client = "get_info_by_id", InfoOn
  PROVE  InfoInv'
<1>1. /\ InfoFields /\ InfoStage /\ InfoTop /\ SearchTypes /\ asked \in Searches /\ SearchCursor
  BY DEF InfoInv, SearchInv, SearchTypes
<1>2. /\ at = "items" /\ index = 0 /\ at' = IF found = 0 THEN "NotFound" ELSE "loop"
      /\ UNCHANGED <<asked, min_key, placed, found, handed, got_root_item, got_root_ref, info>>
  BY DEF InfoOn, DropIter, infoVars
<1>3. treeid # FsTree /\ InfoPlaced /\ treeid' = treeid
  BY <1>1, <1>2 DEF InfoStage, treeid
<1>4. InfoFields'
  BY <1>1, <1>2, FieldsStay
<1>5. Len(handed) = found /\ found \in Nat
  <2>1. Len(handed) \in Nat
    BY <1>1, LenProperties DEF SearchTypes
  <2> QED BY <1>1, <1>2, <2>1 DEF SearchCursor, SearchTypes
<1>6. ASSUME NEW i \in InfoItems(asked)
      PROVE  (i.key[2] = 132 => got_root_item) /\ (i.key[2] = 144 => got_root_ref)
  <2>1. PICK n \in 1 .. found : placed[n].key = i.key
    BY <1>3 DEF InfoPlaced
  <2> QED BY <1>1, <1>2, <1>5, <2>1 DEF InfoStage
<1>7. CASE found = 0
  BY <1>1, <1>2, <1>3, <1>4, <1>7 DEF InfoInv, InfoStage, InfoTop
<1>8. CASE found # 0
  <2>1. PICK i \in InfoItems(asked) : TRUE
    <3>1. 1 \in 1 .. found
      BY <1>5, <1>8
    <3> QED BY <1>3, <3>1 DEF InfoPlaced
  <2>2. \E root \in InfoItems(asked) : root.key[2] = 132
    BY <1>1, <2>1, InfosAre
  <2>3. got_root_item /\ (HasItem(144) => got_root_ref)
    BY <1>6, <2>2 DEF HasItem
  <2>4. at' = "loop"
    BY <1>2, <1>8
  <2>5. HasItem(144)' <=> HasItem(144)
    BY <1>2 DEF HasItem
  <2> QED BY <1>2, <1>3, <1>4, <2>3, <2>4, <2>5 DEF InfoInv, InfoStage, InfoTop
<1> QED BY <1>7, <1>8

\* What others do does not matter.
LEMMA InfoStepKeeps ==
  ASSUME SearchInv, InfoInv, [Next]_vars
  PROVE  InfoInv'
<1>1. CASE Info
  <2>1. asked.client = "get_info_by_id" /\ (InfoLoop \/ InfoQuery \/ InfoTake \/ InfoOn)
    BY <1>1 DEF Info, get_info_by_id
  <2> QED BY <2>1, InfoLoopKeeps, InfoQueryKeeps, InfoTakeKeeps, InfoOnKeeps
<1>2. CASE Walk
  <2>1. asked' = asked /\ asked.client = "walk" /\ (at' # "Ok" \/ at' = at)
    BY <1>2 DEF Walk, Query, QueryFails, Take, WalkOn, DropIter, DropSearch
  <2> QED BY <2>1 DEF InfoInv
<1>3. CASE UNCHANGED <<searchVars, infoVars>>
  <2>1. /\ UNCHANGED <<asked, min_key, placed, found, handed, at, got_root_item, got_root_ref, info>>
        /\ treeid' = treeid
    BY <1>3 DEF searchVars, infoVars, treeid
  <2>2. \A f : Promised(f)' = Promised(f)
    BY <2>1 DEF Promised
  <2>3. InfoFields => InfoFields'
    BY <2>1, <2>2 DEF InfoFields, Told
  <2>4. InfoStage => InfoStage'
    <3>1. InfoPlaced => InfoPlaced'
      BY <2>1 DEF InfoPlaced
    <3>2. HasItem(144)' <=> HasItem(144)
      BY <2>1 DEF HasItem
    <3> QED BY <2>1, <3>1, <3>2 DEF InfoStage, Wanting
  <2>5. InfoTop => InfoTop'
    BY <2>1 DEF InfoTop
  <2> QED BY <2>1, <2>3, <2>4, <2>5 DEF InfoInv
<1> QED BY <1>1, <1>2, <1>3 DEF Next, vars, ListDevices, ListSpaces

\* At the end each field is the promised one, or missing for one of the reasons.
LEMMA FieldsAreComplete == SearchInv /\ InfoInv => InfoIsComplete
<1>1. SUFFICES ASSUME SearchInv, InfoInv, at = "Ok", NEW f \in DOMAIN info
               PROVE  \/ info[f] = Promised(f)
                      \/ info[f] = <<"uninit">> /\ treeid = FsTree
                      \/ info[f] = <<"uninit">> /\ f \in {"name", "dirid", "parent_id"}
                         /\ ~ \E i \in asked.items : i.key[1] = treeid /\ i.key[2] = 144
                      \/ info[f] = <<"beyond">>
                         /\ \E i \in asked.items : i.key[1] = treeid /\ i.key[2] = 132
                                                   /\ i.len < SizeOf(btrfs_root_item)
  BY DEF InfoIsComplete
<1>2. /\ asked.client = "get_info_by_id" /\ InfoFields /\ InfoStage /\ asked \in Searches
  BY <1>1 DEF InfoInv, SearchInv, SearchTypes
<1>3. CASE treeid = FsTree
  <2>1. ~ got_root_item
    BY <1>1, <1>2, <1>3 DEF InfoInv, InfoTop
  <2> QED BY <1>1, <1>2, <1>3, <2>1 DEF InfoFields
<1>4. CASE treeid # FsTree
  <2>1. got_root_item /\ (HasItem(144) => got_root_ref)
    BY <1>1, <1>2, <1>4 DEF InfoStage
  <2>2. CASE f \in InRootItem
    <3>1. Told(f)
      BY <1>1, <1>2, <2>1, <2>2 DEF InfoFields
    <3>2. \A i \in InfoItems(asked) : i \in asked.items /\ i.key[1] = treeid
      BY <1>2, InfosAre
    <3> QED BY <3>1, <3>2 DEF Told
  <2>3. CASE f \in OfReference
    <3>1. got_root_ref => info[f] = Promised(f)
      BY <1>1, <1>2, <1>4, <2>3 DEF InfoFields
    <3>2. ~ got_root_ref => info[f] = <<"uninit">>
      BY <1>1, <1>2, <2>3 DEF InfoFields
    <3>3. ASSUME ~ got_root_ref, NEW i \in asked.items, i.key[1] = treeid, i.key[2] = 144
          PROVE  FALSE
      <4>1. i \in InfoItems(asked)
        BY <3>3 DEF InfoItems, treeid
      <4> QED BY <2>1, <3>3, <4>1 DEF HasItem
    <3> QED BY <2>3, <3>1, <3>2, <3>3 DEF OfReference
  <2>4. CASE f \in {"treeid", "reserved"}
    BY <1>1, <1>2, <2>4 DEF InfoFields
  <2> QED BY <1>1, <1>2, <2>2, <2>3, <2>4 DEF InfoFields
<1> QED BY <1>3, <1>4

-----------------------------------------------------------------------------
(* The theorems.  One reader runs, the others are idle.                      *)

\* dev::iter: no device that stayed lies between the last one returned and the
\* id that is tried, those up to the last one have been returned, and what is
\* counted is what was returned as long as nothing changes.
THEOREM DevicesInvariant == Spec => [](DevicesIdle \/ DevInv)
<1>1. Init => DevicesIdle \/ DevInv
  BY DevInitially DEF Init
<1>2. (DevicesIdle \/ DevInv) /\ [Next]_vars => (DevicesIdle \/ DevInv)'
  <2>1. SUFFICES ASSUME DevicesIdle \/ DevInv, [Next]_vars PROVE (DevicesIdle \/ DevInv)'
    OBVIOUS
  <2>2. CASE UNCHANGED deviceVars
    <3>1. DevicesIdle => DevicesIdle'
      BY <2>2 DEF deviceVars, iter, DevicesIdle
    <3>2. DevInv => DevInv'
      BY <2>2 DEF deviceVars, iter, DevInv, DevTypes, DevPassed, DevCounts
    <3> QED BY <2>1, <3>1, <3>2
  <2>3. CASE ListDevices
    <3>1. DevicesNext
      BY <2>3 DEF ListDevices
    <3>2. ~ DevicesIdle
      BY <3>1 DEF DevicesIdle, DevicesNext, Step, new_internal, End, Scan, Found, Gap, Failed, next,
                  Added, Removed, Ended
    <3> QED BY <2>1, <3>1, <3>2, DevStep, DevOthers DEF DevicesNext
  <2> QED BY <2>1, <2>2, <2>3 DEF Next, vars, ListSpaces, Walk, Info
<1> QED BY <1>1, <1>2, PTL DEF Spec

\* dev::iter: whatever is added and removed meanwhile, a walk that ends without
\* an error has returned every device that stayed; without changes there is no
\* error, and size_hint is exact at every item.
THEOREM DevicesAllYielded == Spec => []AllYielded
<1>1. DevicesIdle => AllYielded
  BY DEF DevicesIdle, AllYielded
<1> QED BY <1>1, YieldedAreAll, DevicesInvariant, PTL

\* fs::get_spaces: the buffer has as many slots as there were spaces, each with
\* what the kernel wrote or, when some went away, with nothing; the iterator has
\* returned the first of them.
THEOREM SpacesInvariant == Spec => []SpaceInv
<1>1. Init => SpaceInv
  BY SpacesInitially DEF Init
<1>2. SpaceInv /\ [Next]_vars => SpaceInv'
  <2>1. SUFFICES ASSUME SpaceInv, [Next]_vars PROVE SpaceInv'
    OBVIOUS
  <2>2. CASE UNCHANGED spaceVars
    BY <2>1, <2>2 DEF spaceVars, SpaceInv, SpaceTypes, SpaceSlots, SpaceTold
  <2>3. CASE ListSpaces
    BY <2>1, <2>3, SpacesStep, SpacesOthers DEF ListSpaces
  <2> QED BY <2>1, <2>2, <2>3 DEF Next, vars, ListDevices, Walk, Info
<1> QED BY <1>1, <1>2, PTL DEF Spec

\* fs::get_spaces: the records returned are the kernel's, in its order, and each
\* tells the type and the profile that its flags say; unwritten memory is
\* returned only when spaces went away between the two ioctls.
THEOREM SpacesReal == Spec => []SpacesAreReal
BY SpacesInvariant, ToldIsReal, PTL

\* tree_search::Iter: the items of the buffer lie one behind the other, the
\* iterator stands at the header of the next one and Drop at that of the last
\* one taken.
THEOREM SearchBufferInvariant == Spec => []SearchInv
<1>1. Init => SearchInv
  BY SearchInitially DEF Init
<1>2. SearchInv /\ [Next]_vars => SearchInv'
  BY SearchStepKeeps
<1> QED BY <1>1, <1>2, PTL DEF Spec

\* tree_search to the byte implements the cursor of TreeSearch: whatever the
\* lengths of the items, the size of the buffer and what uninitialised memory
\* looks like, each query, item and drop is one of TreeSearch.
THEOREM SearchBufferImplementsSearch == Spec => ImplementsSearch
<1>1. SearchInv /\ [Next]_vars =>
        [Abstract!query \/ Abstract!take
         \/ Abstract!drop({Abstract!next_offset(k) :
                              k \in {j \in Abstract!LastSeen : Abstract!OffsetReturns(j)}})]_(Abstract!searchVars)
  BY StepIsSearch DEF Returning
<1> QED BY <1>1, SearchBufferInvariant, PTL DEF Spec, ImplementsSearch

\* An item is in the buffer as it is in the tree, or cut to its header; the items
\* that Iter hands out point at its header.
THEOREM HandedInvariant == Spec => []HandedInv
<1>1. Init => HandedInv
  BY HandedInitially DEF Init
<1>2. SearchInv /\ HandedInv /\ [Next]_vars => HandedInv'
  BY HandedStepKeeps
<1> QED BY <1>1, <1>2, SearchBufferInvariant, PTL DEF Spec

\* Through whatever view an item is read, each accessor reads the bytes of the
\* field that it is for, of this item, except those known to misread; and the name
\* is the name.
THEOREM AccessorsRight == Spec => []ReadsAreRight
BY SearchBufferInvariant, HandedInvariant, HandedIsRight, PTL

\* get_info_by_id asks once, is given the root item and the back reference of
\* the subvolume if there are any, looks at both, and has written of the structure
\* what they say and nothing else.
THEOREM InfoInvariant == Spec => []InfoInv
<1>1. Init => InfoInv
  BY InfoInitially DEF Init
<1>2. SearchInv /\ InfoInv /\ [Next]_vars => InfoInv'
  BY InfoStepKeeps
<1> QED BY <1>1, <1>2, SearchBufferInvariant, PTL DEF Spec

\* get_info_by_id returns each field of the subvolume that was asked for, none
\* of another; a field is left uninitialised only for the top level, or when there
\* is no back reference, and read from behind the item only when the root item is
\* shorter than the structure.
THEOREM InfoComplete == Spec => []InfoIsComplete
BY SearchBufferInvariant, InfoInvariant, FieldsAreComplete, PTL
=============================================================================

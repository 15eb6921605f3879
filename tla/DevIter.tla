------------------------------ MODULE DevIter ------------------------------
(***************************************************************************)
(* dev::iter (dev/info.rs): the devices of a filesystem by their ids.  The *)
(* number of devices and the largest id are read once; next() then tries   *)
(* one id after the other.  Meanwhile other processes add and remove       *)
(* devices; an added one gets the id after the largest.                    *)
(***************************************************************************)
EXTENDS Integers, FiniteSets, FiniteSetsExt

CONSTANTS
    Filesystems,   \* sets of device ids there may be at first
    MaxId,         \* bound: the largest id there is
    MaxDeviceChanges   \* bound: devices added or removed, calls that fail

ASSUME DevicesAssumption ==
    /\ MaxId \in Nat \ {0} /\ MaxDeviceChanges \in Nat
    /\ \A f \in Filesystems : f # {} /\ f \subseteq 1 .. MaxId

VARIABLES
    devices,   \* the ids of the devices
    stable,    \* history: those that were there all the time
    changes,   \* changes and failures so far
    num_devices, max_id, found_devices, last_id,   \* Iter
    id,        \* of the loop in next()
    pc,        \* info: before the first ioctl; idle, scan: in next(); item,
               \* error, none: it has returned
    yielded    \* history: the ids returned

iter == <<num_devices, max_id, found_devices, last_id, id, pc, yielded>>
deviceVars == <<devices, stable, changes, iter>>

DevicesInit ==
    /\ devices \in Filesystems /\ stable = devices /\ changes = 0
    /\ num_devices = 0 /\ max_id = 0 /\ found_devices = 0 /\ last_id = 0
    /\ id = 0 /\ pc = "info" /\ yielded = {}

Quiet == UNCHANGED <<devices, stable, changes>>

-----------------------------------------------------------------------------
\* BTRFS_IOC_FS_INFO.
new_internal ==
    /\ pc = "info"
    /\ num_devices' = Cardinality(devices) /\ max_id' = Max(devices)
    /\ pc' = "idle"
    /\ Quiet
    /\ UNCHANGED <<found_devices, last_id, id, yielded>>

\* Slips: the last id is not looked at; one id too many is.
AtEnd_early == last_id + 1 >= max_id
AtEnd_late  == last_id > max_id

AtEnd == last_id >= max_id

\* At the largest id: the end, when the number of devices is right.
End ==
    /\ pc = "idle" /\ AtEnd
    /\ pc' = IF found_devices # num_devices THEN "error" ELSE "none"
    /\ Quiet
    /\ UNCHANGED <<num_devices, max_id, found_devices, last_id, id, yielded>>

Scan ==
    /\ pc = "idle" /\ ~ AtEnd
    /\ id' = last_id + 1
    /\ pc' = "scan"
    /\ Quiet
    /\ UNCHANGED <<num_devices, max_id, found_devices, last_id, yielded>>

\* Slip: one more than there are is returned.
TooMany_never == FALSE

\* More devices than there were.
TooMany == found_devices' > num_devices

\* A device with this id.
Found ==
    /\ pc = "scan" /\ id \in devices
    /\ last_id' = id
    /\ found_devices' = found_devices + 1
    /\ IF TooMany THEN pc' = "error" /\ UNCHANGED yielded
                  ELSE pc' = "item" /\ yielded' = yielded \cup {id}
    /\ Quiet
    /\ UNCHANGED <<num_devices, max_id, id>>

\* Slip: a gap is an error.
Gap_error ==
    /\ pc = "scan" /\ id \notin devices
    /\ pc' = "error"
    /\ Quiet
    /\ UNCHANGED <<num_devices, max_id, found_devices, last_id, id, yielded>>

\* ENODEV: on to the next id, without a bound.  Behind the largest id there is
\* the loop does not end.
Gap ==
    /\ pc = "scan" /\ id \notin devices
    /\ id' = IF id > MaxId THEN id ELSE id + 1
    /\ Quiet
    /\ UNCHANGED <<num_devices, max_id, found_devices, last_id, pc, yielded>>

\* Another error.
Failed ==
    /\ pc = "scan" /\ changes < MaxDeviceChanges
    /\ changes' = changes + 1
    /\ pc' = "error"
    /\ UNCHANGED <<devices, stable, num_devices, max_id, found_devices, last_id, id, yielded>>

Step == new_internal \/ End \/ Scan \/ Found \/ Gap \/ Failed

\* The caller asks for more, up to the first error (`let dev = dev?`).
next ==
    /\ pc = "item"
    /\ pc' = "idle"
    /\ Quiet
    /\ UNCHANGED <<num_devices, max_id, found_devices, last_id, id, yielded>>

Ended == pc \in {"error", "none"}

\* Other processes; the last device stays.
Added ==
    /\ ~ Ended /\ changes < MaxDeviceChanges /\ Max(devices) < MaxId
    /\ devices' = devices \cup {Max(devices) + 1}
    /\ changes' = changes + 1
    /\ UNCHANGED <<stable, iter>>

Removed ==
    /\ ~ Ended /\ changes < MaxDeviceChanges /\ Cardinality(devices) > 1
    /\ \E d \in devices : devices' = devices \ {d} /\ stable' = stable \ {d}
    /\ changes' = changes + 1
    /\ UNCHANGED iter

DevicesNext == Step \/ next \/ Added \/ Removed

-----------------------------------------------------------------------------
\* At the end each device that stayed has been returned; with no change there
\* is no error, gaps in the ids or not, and what is left is what size_hint says,
\* which does not underflow as long as no error was returned.
AllYielded ==
    /\ pc = "none" => stable \subseteq yielded
    /\ pc = "error" => changes > 0
    /\ pc # "error" => found_devices <= num_devices
    /\ pc \in {"item", "idle"} /\ changes = 0 =>
           num_devices - found_devices = Cardinality(devices \ yielded)

\* The iterator ends when the device with the largest id stays.
Ends == <>Ended \/ <>(pc # "info" /\ max_id \notin stable)
=============================================================================

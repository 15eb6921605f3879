------------------------------ MODULE Volumes ------------------------------
(***************************************************************************)
(* The subvolumes of a filesystem, which other processes create, delete    *)
(* and rename while the library looks at them.  External: the ioctls       *)
(* BTRFS_IOC_GET_SUBVOL_ROOTREF, BTRFS_IOC_INO_LOOKUP_USER and             *)
(* BTRFS_IOC_SNAP_DESTROY, and openat, as subvol/ uses them.               *)
(*                                                                         *)
(* A subvolume has an id, which is never used again, a parent, and a name   *)
(* in it, which stands for the directory and the entry there.              *)
(***************************************************************************)
EXTENDS Integers, Sequences, FiniteSets, SequencesExt

CONSTANTS
    Ids,           \* ids of subvolumes: numbers, as btrfs orders them by id
    Names,         \* names they have in their parents
    Dir,           \* the subvolume with the directory the caller starts from
    Target,        \* the subvolume in it the caller works on
    TargetName,    \* its name there
    InitialVols,   \* the states of the filesystem at first
    MaxChanges     \* bound: changes by other processes, and calls that fail

ASSUME VolumesAssumption ==
    /\ Ids \subseteq Nat /\ IsFiniteSet(Ids)
    /\ {Dir, Target} \subseteq Ids /\ Dir # Target
    /\ TargetName \in Names
    /\ MaxChanges \in Nat

\* Each has a place of its own, in a subvolume that is there.
ASSUME TreesAssumption ==
    \A t \in InitialVols :
        /\ DOMAIN t \subseteq Ids /\ t \in [DOMAIN t -> [parent : DOMAIN t \cup {Dir}, name : Names]]
        /\ \A c, d \in DOMAIN t : t[c] = t[d] => c = d
        /\ Dir \notin DOMAIN t
        /\ Target \in DOMAIN t /\ t[Target] = [parent |-> Dir, name |-> TargetName]

VARIABLES
    vols,      \* the place of each subvolume
    used,      \* history: ids ever used
    disturbed, \* history: those created, renamed, or in a renamed one
    changes    \* changes and failures so far

volumeVars == <<vols, used, disturbed, changes>>

VolumesInit ==
    /\ vols \in InitialVols
    /\ used = DOMAIN vols \cup {Dir}
    /\ disturbed = {} /\ changes = 0

Children(v) == {c \in DOMAIN vols : vols[c].parent = v}

\* The subvolume found under a name, if any.
Named(v, name) == {c \in Children(v) : vols[c].name = name}

\* v and what is below it.
Subtree(v) ==
    LET Lower[n \in 0 .. Cardinality(Ids)] ==
            IF n = 0 THEN {v} ELSE LET s == Lower[n - 1] IN s \cup UNION {Children(c) : c \in s}
    IN  Lower[Cardinality(Ids)]

\* The subvolume at the end of a path that starts in v, if any.
Resolve(v, path) ==
    LET Down[n \in 0 .. Len(path)] ==
            IF n = 0 THEN {v} ELSE UNION {Named(c, path[n]) : c \in Down[n - 1]}
    IN  Down[Len(path)]

Without(v) == [c \in DOMAIN vols \ {v} |-> vols[c]]

-----------------------------------------------------------------------------
(* Other processes, and failures that are no consequence of them (EIO).    *)
(* They go about the whole filesystem: out of the target and into it, and  *)
(* with the target itself.                                                 *)

Change == changes < MaxChanges /\ changes' = changes + 1

\* A call changes nothing.
Works == UNCHANGED volumeVars
Fails == Change /\ UNCHANGED <<vols, used, disturbed>>

\* An entry may be made in these.
Places == DOMAIN vols \cup {Dir}

Created ==
    /\ Change
    /\ \E c \in Ids \ used, p \in Places, name \in Names :
        /\ \A d \in used : d < c
        /\ Named(p, name) = {}
        /\ vols' = [d \in DOMAIN vols \cup {c} |->
                       IF d = c THEN [parent |-> p, name |-> name] ELSE vols[d]]
        /\ used' = used \cup {c}
        /\ disturbed' = disturbed \cup {c}

Deleted ==
    /\ Change
    /\ \E c \in DOMAIN vols :
        /\ Children(c) = {}
        /\ vols' = Without(c)
    /\ UNCHANGED <<used, disturbed>>

\* What is in the target stays where it is, in the target, when that moves;
\* unless it moves into one that has been moved or created itself.
Renamed ==
    /\ Change
    /\ \E c \in DOMAIN vols, name \in Names : \E p \in Places \ Subtree(c) :
        /\ Named(p, name) = {}
        /\ vols' = [vols EXCEPT ![c] = [parent |-> p, name |-> name]]
        /\ disturbed' = disturbed \cup (IF c = Target /\ p \notin disturbed THEN {c} ELSE Subtree(c))
    /\ UNCHANGED used

\* The subvolumes in the target that others leave in their places.
Stable == (Subtree(Target) \ {Target}) \ disturbed

OtherProcess == Created \/ Deleted \/ Renamed
=============================================================================

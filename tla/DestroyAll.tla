----------------------------- MODULE DestroyAll -----------------------------
(***************************************************************************)
(* The walks over subvolumes: a caller of subvol::iter that takes every    *)
(* item, one of get_rootref, and subvol::destroy_all (subvol/mod.rs),      *)
(* which destroys each nested subvolume by its path as the iterator        *)
(* returns it, children first, and the subvolume itself last.              *)
(***************************************************************************)
EXTENDS RootRefs

CONSTANTS
    Clients,   \* subset of {"iter", "get_rootref", "destroy_all"}
    Cwds       \* the subvolumes the process may have its current directory in

ASSUME ClientsAssumption ==
    /\ Clients \subseteq {"iter", "get_rootref", "destroy_all"}
    /\ Cwds \subseteq Ids

VARIABLES
    client, cwd,
    step,       \* start, iter: with the iterator, destroy: an item, done
    parent,     \* the directory opened for the subvolume to destroy
    reported,   \* history: the paths on_error was called with
    result      \* what destroy_all returned (others: it did
                \* not begin), "none" before

walkVars == <<iterVars, calls>>
vars == <<volumeVars, walkVars, client, cwd, step, parent, reported, result>>

\* Slip: parents first.
DestroyOrder_pre == "pre"

DestroyOrder == "post"

Init ==
    /\ VolumesInit /\ IterInit /\ calls = <<>>
    /\ client \in Clients /\ cwd \in Cwds
    /\ client = "destroy_all" => order = DestroyOrder /\ direction = "ascending"
    /\ client = "get_rootref" => order = "pre" /\ direction = "ascending"
    /\ step = "start" /\ parent = {}
    /\ reported = {} /\ result = "none"

destroyVars == <<client, cwd, step, parent, reported, result>>

\* The target is opened, its id looked up; destroy_all takes the root of a
\* subvolume only.
Begin ==
    /\ step = "start"
    /\ \/ /\ client = "destroy_all" => outside = {}
          /\ Works
          /\ step' = "iter" /\ UNCHANGED result
       \/ /\ Fails \/ (Works /\ client = "destroy_all" /\ outside # {})
          /\ step' = "done" /\ result' = "error"
    /\ UNCHANGED <<walkVars, client, cwd, parent, reported>>

Walk ==
    /\ step = "iter"
    /\ IF client = "get_rootref" THEN get_rootref ELSE IterStep /\ UNCHANGED calls
    /\ UNCHANGED destroyVars

Take == client = "iter" /\ step = "iter" /\ next /\ UNCHANGED <<volumeVars, calls, destroyVars>>

-----------------------------------------------------------------------------
\* Slips: the path of the item alone; base_subvol is not truncated before the
\* path is appended.
ItemPath_bare == Last(yielded).path
ItemPath_untruncated ==
    <<TargetName>> \o FlattenSeq([i \in DOMAIN yielded |-> yielded[i].path])

\* The name of the subvolume and the path of the item below it.
ItemPath == <<TargetName>> \o Last(yielded).path

\* on_error(None): the walk failed somewhere, and goes on.
WalkFailed ==
    /\ client = "destroy_all" /\ step = "iter" /\ pc = "error"
    /\ next
    /\ UNCHANGED <<volumeVars, calls, destroyVars>>

\* super::destroy of the path: its directory part is opened from the current
\* directory.  When that fails there is nothing to destroy it in.
OpenParent ==
    /\ client = "destroy_all" /\ step = "iter" /\ pc = "item"
    /\ Works \/ Fails
    /\ parent' = IF changes' = changes THEN Resolve(cwd, Front(ItemPath)) ELSE {}
    /\ step' = "destroy"
    /\ UNCHANGED <<walkVars, client, cwd, reported, result>>

\* External: BTRFS_IOC_SNAP_DESTROY_V2, for a subvolume with no others in it.
SnapDestroy(dir, n) ==
    \E v \in Ids :
        /\ v \in Named(dir, n) /\ Children(v) = {}
        /\ vols' = Without(v)
        /\ UNCHANGED <<used, disturbed, changes>>

SnapDestroyFails(dir, n) ==
    Fails \/ (Works /\ \A v \in Named(dir, n) : Children(v) # {})

\* The ioctl; an error goes to on_error with the path.
DestroyItem ==
    /\ step = "destroy"
    /\ \/ /\ \E dir \in parent : SnapDestroy(dir, Last(ItemPath))
          /\ UNCHANGED reported
       \/ /\ \A dir \in parent : SnapDestroyFails(dir, Last(ItemPath))
          /\ parent = {} => Works
          /\ reported' = reported \cup {ItemPath}
    /\ next
    /\ step' = "iter" /\ parent' = {}
    /\ UNCHANGED <<calls, client, cwd, result>>

\* destroy(dir, name): the result of the call.
DestroyTarget ==
    /\ client = "destroy_all" /\ step = "iter" /\ pc = "none"
    /\ \/ SnapDestroy(Dir, TargetName) /\ result' = "ok"
       \/ SnapDestroyFails(Dir, TargetName) /\ result' = "error"
    /\ step' = "done"
    /\ UNCHANGED <<walkVars, client, cwd, parent, reported>>

Destroyer == WalkFailed \/ OpenParent \/ DestroyItem \/ DestroyTarget

Finished == step = "done" \/ (client # "destroy_all" /\ pc = "none")

\* Target is the one that Begin finds under its name.
Other ==
    /\ OtherProcess
    /\ step # "start" /\ ~ Finished
    /\ UNCHANGED <<walkVars, destroyVars>>

Next == Begin \/ Walk \/ Take \/ Destroyer \/ Other

\* The call, and the caller that takes all items, go on; others need not.
Spec == Init /\ [][Next]_vars /\ WF_vars(Begin \/ Walk \/ Take \/ Destroyer)

-----------------------------------------------------------------------------
TypeOK ==
    /\ IterTypeOK
    /\ client \in Clients /\ cwd \in Cwds
    /\ step \in {"start", "iter", "destroy", "done"} /\ parent \subseteq Ids
    /\ reported \subseteq Seq(Names)
    /\ result \in {"none", "ok", "error"}
    /\ (result = "none") = (step # "done")

\* An error of a walk is the consequence of what other processes or the disk
\* did, or of a subvolume with more children than the ioctl returns; of
\* get_rootref also of one that is not below the directory it starts from.
ErrorsHaveCauses ==
    erred =>
        \/ changes > 0
        \/ \E v \in {Target} \cup DOMAIN vols : Cardinality(Children(v)) > RefMax
        \/ client = "get_rootref" /\ \E v \in Children(Target) : vols[v].name \in outside

\* destroy_all, "a best effort approach": without an error of the walk, each
\* subvolume that is left, and that nobody disturbed, was reported by its path,
\* if nobody has moved the subvolume they are in.
LeftIsReported ==
    step = "done" /\ pc = "none" /\ ~ erred /\ Target \notin disturbed =>
        \A c \in Stable : \E path \in reported : Resolve(Dir, path) = {c}

\* destroy_all: "remove a btrfs subvolume after removing all nested subvolumes".
\* When nothing interferes everything is destroyed and nothing is reported.
QuietDestroysAll ==
    step = "done" /\ outside = {} /\ changes = 0 /\ ~ erred => result = "ok" /\ reported = {}

\* destroy_all destroys nothing but the subvolume and what is below it, and of
\* what is outside only what others have moved or created since it began: out
\* of the subvolume, or to where its path leads now.
DestroysOnlyBelow ==
    [][Destroyer => \A c \in DOMAIN vols \ DOMAIN vols' : c \in Subtree(Target) \cup disturbed]_vars

\* The walk ends, whatever others do to the tree while it is on.
Terminates == <>Finished
=============================================================================

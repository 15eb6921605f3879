---------------------------- MODULE DestroyAllInv ----------------------------
(***************************************************************************)
(* The inductive invariant of the walks: where each subvolume that nobody  *)
(* disturbs is, from its parent being listed to its being returned.        *)
(***************************************************************************)
EXTENDS DestroyAll

\* What does not move while the walk is on.
Home == Stable \cup {Target}

\* Below a subvolume, itself not included.
Under(w) == UNION {Subtree(c) : c \in Children(w)}

PlacesType ==
    /\ vols \in [DOMAIN vols -> [parent : Ids, name : Names]]
    /\ DOMAIN vols \subseteq used /\ used \subseteq Ids /\ disturbed \subseteq used
    /\ changes \in Nat

\* Disturbed, but for the target itself: what is in that does not move with it.
Moved == disturbed \ {Target}

\* Each subvolume has a place of its own, in one that is there; what is in a
\* disturbed one is disturbed; under the target's name is nothing else that
\* nobody disturbed.
TreeOK ==
    /\ \A c, d \in DOMAIN vols : vols[c] = vols[d] => c = d
    /\ \A c \in DOMAIN vols : vols[c].parent \in DOMAIN vols \cup {Dir}
    /\ \A c \in DOMAIN vols : vols[c].parent \in Moved => c \in disturbed
    /\ Dir \in used /\ Dir \notin DOMAIN vols /\ Dir \notin disturbed
    /\ Target \in used
    /\ \A c \in DOMAIN vols :
        vols[c] = [parent |-> Dir, name |-> TargetName] => c = Target \/ c \in disturbed
    /\ Target \in DOMAIN vols \ disturbed => vols[Target] = [parent |-> Dir, name |-> TargetName]
    /\ changes = 0 => disturbed = {} /\ (Target \in DOMAIN vols \/ step = "done")

\* The target is not in one that the walk may come to.
Apart == Target \in DOMAIN vols => vols[Target].parent \notin Subtree(Target) \cup Moved

PlacesOK == TreeOK /\ Apart

\* What the walk may come to: below the target, or disturbed, or gone.
Near(v) == v # Dir /\ (v \in DOMAIN vols => v \in Subtree(Target) \cup disturbed)

-----------------------------------------------------------------------------
(* The walks.                                                              *)

Entries ==
    [id : Ids, parent : Ids, file : Ids, color : {"root", "grey", "black", "pre"}, path : Seq(Names)]

WalkType ==
    /\ order \in Orders /\ direction \in Directions /\ outside \in Outsides
    /\ stack \in Seq(Entries) /\ ent \in Entries /\ yielded \in Seq(Entries)
    /\ calls \in Seq(Entries \X Seq(Ids))
    /\ refs \in Seq(Ids) /\ name \in Names \cup {"none"}
    /\ pc \in {"pop", "list", "lookup", "open", "item", "error", "none"}
    /\ erred \in BOOLEAN
    /\ client \in Clients /\ cwd \in Cwds
    /\ step \in {"start", "iter", "destroy", "done"} /\ parent \subseteq Ids
    /\ reported \subseteq Seq(Names)
    /\ result \in {"none", "ok", "error"}
    /\ (result = "none") = (step # "done")

\* The id, the file descriptor, the parent and the path of an entry are of one
\* subvolume, as long as it stays in its place.
Matched(e) ==
    /\ Near(e.file)
    /\ e.id = Target <=> e.color = "root"
    /\ e.color # "root" => e.path # <<>>
    /\ \A g \in Home :
        /\ e.id = g <=> e.file = g
        /\ e.file = g <=> g \in Resolve(Target, e.path)
        /\ g # Target /\ e.id = g => e.parent = vols[g].parent

Returned(c) == \E i \in 1 .. Len(yielded) : yielded[i].id = c

YieldedMatch == \A i \in 1 .. Len(yielded) : Matched(yielded[i]) /\ yielded[i].color # "root"

YieldedOnce ==
    \A c \in Stable : \A i, j \in 1 .. Len(yielded) :
        yielded[i].id = c /\ yielded[j].id = c => i = j

\* One in the target, outside the directory the walk starts from.
Hidden(c) == vols[c].parent = Target /\ vols[c].name \in outside

\* c is to be returned before its sibling d.
First(c, d) == (c < d) = (direction = "ascending")

Siblings(c, d) == c # d /\ vols[c].parent = vols[d].parent /\ First(c, d)

-----------------------------------------------------------------------------
(* The iterator.                                                           *)

Expanding == pc \in {"list", "lookup", "open"}

OnStack(c) == \E k \in 1 .. Len(stack) : stack[k].id = c

\* A pre-order entry that is being expanded.
InHand(c) == Expanding /\ ent.color = "pre" /\ ent.id = c

Listed(c) == \E k \in 1 .. Len(refs) : refs[k] = c

Seen(c) == Returned(c) \/ OnStack(c) \/ InHand(c) \/ Listed(c)

\* It is to be expanded.
Waiting(p) ==
    \/ \E k \in 1 .. Len(stack) : stack[k].id = p /\ stack[k].color # "black"
    \/ pc = "list" /\ ent.id = p
    \/ Listed(p)

Opened(p) == ~ Waiting(p) /\ (p = Target \/ Returned(p) \/ OnStack(p) \/ InHand(p))

StackMatch == (\A k \in 1 .. Len(stack) : Matched(stack[k])) /\ Matched(ent)

Colors ==
    /\ \A k \in 1 .. Len(stack) :
        stack[k].color \in {"root"} \cup (IF order = "post" THEN {"grey", "black"} ELSE {"pre"})
    /\ ent.color \in {"root"} \cup (IF order = "post" THEN {"grey"} ELSE {"pre"})
    /\ \A k \in 1 .. Len(stack) :
        stack[k].color = "root" => Len(stack) = 1 /\ yielded = <<>> /\ pc = "pop"
    /\ Expanding /\ ent.color = "grey" =>
        \E k \in 1 .. Len(stack) : stack[k].id = ent.id /\ stack[k].color = "black"

\* The children still to be pushed, and the path of the first of them.
RefsOK ==
    /\ refs # <<>> => pc \in {"lookup", "open"}
    /\ pc = "open" => refs # <<>> /\ name \in Names
    /\ \A k \in 1 .. Len(refs) :
        /\ refs[k] # Target
        /\ refs[k] \in Stable => vols[refs[k]].parent = ent.file
    /\ pc = "open" =>
        /\ refs[1] \in Stable => vols[refs[1]].name = name
        /\ \A y \in Named(ent.file, name) : y = refs[1] \/ y \in disturbed
    /\ pc = "none" => stack = <<>>

\* It is in one place only.
Once ==
    \A c \in Stable :
        /\ \A i, j \in 1 .. Len(stack) : stack[i].id = c /\ stack[j].id = c => i = j
        /\ \A i, j \in 1 .. Len(refs) : refs[i] = c /\ refs[j] = c => i = j
        /\ ~ (Returned(c) /\ OnStack(c)) /\ ~ (Returned(c) /\ InHand(c)) /\ ~ (Returned(c) /\ Listed(c))
        /\ ~ (OnStack(c) /\ InHand(c)) /\ ~ (OnStack(c) /\ Listed(c)) /\ ~ (InHand(c) /\ Listed(c))

\* Nothing below one that is to be expanded has been seen.
Fresh == \A w \in Home : Waiting(w) => \A d \in Stable : d \in Under(w) => ~ Seen(d)

\* Without an error just the children of the expanded ones have been seen.
Covered ==
    /\ \A c \in Stable : Hidden(c) => ~ Returned(c) /\ ~ OnStack(c) /\ ~ InHand(c)
                                      /\ (pc = "open" => refs[1] # c)
    /\ ~ erred => \A c \in Stable :
        /\ Seen(c) => Opened(vols[c].parent)
        /\ Opened(vols[c].parent) /\ ~ Hidden(c) => Seen(c)

ParentFirst ==
    order = "pre" => \A c, p \in Stable : vols[c].parent = p =>
        /\ Waiting(p) \/ InHand(p) => ~ Returned(c)
        /\ OnStack(c) \/ Listed(c) \/ InHand(c) => ~ OnStack(p)
        /\ \A i, j \in 1 .. Len(yielded) : yielded[i].id = p /\ yielded[j].id = c => i < j

ParentLast ==
    order = "post" => \A c, p \in Stable : vols[c].parent = p =>
        /\ \A k \in 1 .. Len(stack) : stack[k].id = c => \E l \in 1 .. (k - 1) : stack[l].id = p
        /\ Listed(c) => OnStack(p)
        /\ \A i, j \in 1 .. Len(yielded) : yielded[i].id = p /\ yielded[j].id = c => j < i

InTurn ==
    \A c, d \in Stable : Siblings(c, d) =>
        /\ \A k, l \in 1 .. Len(stack) : stack[k].id = c /\ stack[l].id = d => l < k
        /\ \A k, l \in 1 .. Len(refs) : refs[k] = c /\ refs[l] = d => l < k
        /\ \A i, j \in 1 .. Len(yielded) : yielded[i].id = c /\ yielded[j].id = d => i < j
        /\ Listed(d) => ~ OnStack(c) /\ ~ InHand(c) /\ ~ Returned(c)
        /\ InHand(d) \/ Returned(d) => ~ OnStack(c) /\ ~ InHand(c) /\ ~ Listed(c)

IterInv ==
    /\ StackMatch /\ Colors /\ RefsOK /\ Once /\ Fresh /\ Covered
    /\ ParentFirst /\ ParentLast /\ InTurn

-----------------------------------------------------------------------------
(* get_rootref, and the calls around the innermost one.                    *)

Depth == Len(calls) + 1

Call(k) == IF k <= Len(calls) THEN calls[k] ELSE <<ent, refs>>

\* To be walked, in any of the calls.
Due(c) == \E k \in 1 .. Depth : \E i \in 1 .. Len(Call(k)[2]) : Call(k)[2][i] = c

\* Its children have been listed.
Called(p) == (p = Target \/ Returned(p)) /\ ~ (pc \in {"pop", "open", "list"} /\ ent.id = p)

CallsMatch ==
    \A k \in 1 .. Depth :
        /\ Matched(Call(k)[1])
        /\ Call(k)[1].color \in {"root", "pre"}
        /\ Call(k)[1].id = Target \/ Returned(Call(k)[1].id)
        /\ \A l \in 1 .. Depth :
            Call(k)[1].id \in Home /\ Call(k)[1].id = Call(l)[1].id => k = l
        /\ \A i \in 1 .. Len(Call(k)[2]) :
            /\ Call(k)[2][i] # Target
            /\ Call(k)[2][i] \in Stable => vols[Call(k)[2][i]].parent = Call(k)[1].file
            /\ \A j \in 1 .. Len(Call(k)[2]) : i < j => Call(k)[2][i] < Call(k)[2][j]

CallsOK ==
    /\ order = "pre" /\ direction = "ascending"
    /\ pc \in {"pop", "list", "lookup", "open", "none"}
    /\ pc = "pop" => ent = RootVol /\ calls = <<>> /\ yielded = <<>>
    /\ pc \in {"pop", "open", "list"} => refs = <<>>
    /\ pc = "none" /\ ~ erred => calls = <<>> /\ refs = <<>>

CallsCovered ==
    \A c \in Stable :
        /\ ~ (Returned(c) /\ Due(c))
        /\ Hidden(c) => ~ Returned(c)
        /\ Returned(c) \/ Due(c) => Called(vols[c].parent)
        /\ ~ erred /\ Called(vols[c].parent) => Returned(c) \/ Due(c)

CallsInTurn ==
    /\ \A c, p \in Stable : vols[c].parent = p =>
        \A i, j \in 1 .. Len(yielded) : yielded[i].id = p /\ yielded[j].id = c => i < j
    /\ \A c, d \in Stable : Siblings(c, d) =>
        /\ Due(c) => ~ Returned(d)
        /\ \A i, j \in 1 .. Len(yielded) : yielded[i].id = c /\ yielded[j].id = d => i < j

RootRefInv == CallsMatch /\ CallsOK /\ CallsCovered /\ CallsInTurn

WalkInv ==
    /\ YieldedMatch /\ YieldedOnce
    /\ IF client = "get_rootref" THEN RootRefInv ELSE IterInv

-----------------------------------------------------------------------------
(* destroy_all.                                                            *)

ClientOK ==
    /\ client = "destroy_all" => order = "post" /\ direction = "ascending"
    /\ client = "destroy_all" /\ step = "iter" => outside = {}
    /\ step = "start" => pc = "pop" /\ ~ erred /\ yielded = <<>>
    /\ step = "destroy" => client = "destroy_all" /\ pc = "item" /\ outside = {}
    /\ pc = "item" => yielded # <<>>
    /\ step # "destroy" => parent = {}
    /\ Dir \notin parent
    /\ step = "done" => \/ result = "error" /\ pc = "pop" /\ (changes > 0 \/ outside # {})
                        \/ client = "destroy_all" /\ pc = "none" /\ outside = {}

\* The directories destroy_all destroys in stay below the target, or others
\* have moved or removed them.
ParentBelow == \A p \in parent : Near(p)

\* What nobody disturbed is destroyed from where it is,
ParentRight ==
    step = "destroy" /\ Target \notin disturbed => LET c == Last(yielded).id IN
        c \in Stable => parent \subseteq {vols[c].parent}

\* When nothing interferes it is the one the path leads to.
ParentNamed == step = "destroy" /\ changes = 0 => parent \subseteq Resolve(Dir, Front(ItemPath))

\* and when it was returned and is still there it has been reported, but for the last.
Reported ==
    client = "destroy_all" /\ Target \notin disturbed => \A c \in Stable : \A i \in 1 .. Len(yielded) :
        yielded[i].id = c =>
            \/ pc = "item" /\ i = Len(yielded)
            \/ \E path \in reported :
                path # <<>> /\ Head(path) = TargetName /\ c \in Resolve(Target, Tail(path))

\* When nothing interferes the walk is about nothing but what is there,
Calm ==
    changes = 0 /\ (client = "destroy_all" => ~ erred) =>
        /\ \A k \in 1 .. Len(stack) : stack[k].id \in Home
        /\ Expanding => ent.id \in Home
        /\ \A k \in 1 .. Len(refs) : refs[k] \in Stable
        /\ client = "get_rootref" => \A k \in 1 .. Len(calls) :
            /\ calls[k][1].id \in Home
            /\ \A i \in 1 .. Len(calls[k][2]) : calls[k][2][i] \in Stable

\* and what destroy_all was given is gone before it asks for more.
Quiet ==
    client = "destroy_all" /\ changes = 0 /\ ~ erred =>
        /\ reported = {}
        /\ pc = "item" => Last(yielded).id \in Stable
        /\ \A c \in Stable : Returned(c) => pc = "item" /\ Last(yielded).id = c
        /\ step = "destroy" => parent = {vols[Last(yielded).id].parent}
        /\ step = "done" => result = "ok" \/ outside # {}

\* A subvolume with too many children, whose children the walk never sees.
TooMany(v) ==
    /\ Cardinality(Children(v)) > RefMax
    /\ client = "destroy_all" =>
        /\ ~ Waiting(v) /\ (v = Target \/ OnStack(v) \/ Returned(v))
        /\ \A c \in Children(v) : ~ Seen(c)

\* An error when nothing interferes.
Caused ==
    erred /\ changes = 0 =>
        \/ \E v \in Home : TooMany(v)
        \/ client = "get_rootref" /\ \E v \in Children(Target) : vols[v].name \in outside

\* destroy_all takes the paths of its items from its current directory: that is
\* to be the one the target is in.
InDir == "destroy_all" \in Clients => Cwds \subseteq {Dir}

DestroyInv ==
    ParentBelow /\ ParentRight /\ ParentNamed /\ Reported /\ Calm /\ Quiet /\ Caused

TypeInv == PlacesType /\ WalkType
Inv == TypeInv /\ PlacesOK /\ ClientOK /\ WalkInv

\* Every item of the iterator has a path, and what it opens a name.
PathsOK ==
    client # "get_rootref" =>
        /\ \A k \in 1 .. Len(stack) : stack[k].color # "root" => stack[k].path # <<>>
        /\ ent.color # "root" => ent.path # <<>>
        /\ \A i \in 1 .. Len(yielded) : yielded[i].path # <<>>
        /\ pc = "open" => refs # <<>> /\ name \in Names

\* Others have moved all that was in the target, or put the target where the
\* walk may come to it again: none is left that the walk has to return.
Lost == TypeInv /\ TreeOK /\ ClientOK /\ PathsOK /\ changes > 0 /\ Stable = {}
=============================================================================

----------------------------- MODULE SubvolIter -----------------------------
(***************************************************************************)
(* subvol::iter (subvol/iterator.rs): a depth-first walk over the          *)
(* subvolumes below a file descriptor, with a stack of open subvolumes.    *)
(* next() pops an entry and may push those below it (push_refs): list the  *)
(* children, and for each look up its path and open it.  These are ioctls  *)
(* and system calls of their own, so that other processes come in between. *)
(***************************************************************************)
EXTENDS Volumes

CONSTANTS
    Orders,        \* subset of {"pre", "post"}
    Directions,    \* subset of {"ascending", "descending"}
    RefMax,        \* children the rootref ioctl returns (255); more is an error
    Outsides       \* names in the target outside the directory the walk starts
                   \* from: none when that is the root of the target

ASSUME IterAssumption ==
    /\ Orders \subseteq {"pre", "post"}
    /\ Directions \subseteq {"ascending", "descending"}
    /\ RefMax \in Nat
    /\ \A names \in Outsides : names \subseteq Names

VARIABLES
    order, direction,   \* flags
    outside,            \* the names outside the directory the walk starts from
    stack,              \* entries: subvolume id, its parent's id, what its file
                        \* descriptor refers to, colour, path from the start
    ent,                \* the entry taken off the stack
    refs,               \* its children still to be pushed
    name,               \* the path of the next of them, looked up
    pc,                 \* in next(): pop, list, lookup, open; item, error, none
                        \* when it has returned
    yielded,            \* history: the items returned
    erred               \* history: next() has returned an error

iterVars == <<order, direction, outside, stack, ent, refs, name, pc, yielded, erred>>

Entry(id, parent, file, color, path) ==
    [id |-> id, parent |-> parent, file |-> file, color |-> color, path |-> path]

RootVol == Entry(Target, Dir, Target, "root", <<>>)

IterInit ==
    /\ order \in Orders /\ direction \in Directions /\ outside \in Outsides
    /\ stack = <<RootVol>> /\ ent = RootVol
    /\ refs = <<>> /\ name = "none"
    /\ pc = "pop"
    /\ yielded = <<>> /\ erred = FALSE

Yield(e) == pc' = "item" /\ yielded' = Append(yielded, e)

Err == pc' = "error" /\ erred' = TRUE /\ refs' = <<>>

-----------------------------------------------------------------------------
\* Slips: a post-order entry goes back under the entries that follow; it goes
\* back as it was.
Repushed_under(rest, e) == <<[e EXCEPT !.color = "black"]>> \o rest
Repushed_grey(rest, e) == Append(rest, e)

\* A post-order entry stays on the stack, below its children.
Repushed(rest, e) == Append(rest, [e EXCEPT !.color = "black"])

\* The next entry: one whose children are done is returned, the others are
\* expanded first.
Pop ==
    /\ pc = "pop" /\ stack # <<>>
    /\ LET e == Last(stack) IN
        \/ /\ e.color = "black"
           /\ stack' = Front(stack)
           /\ Yield(e)
           /\ UNCHANGED ent
        \/ /\ e.color # "black"
           /\ stack' = IF e.color = "grey" THEN Repushed(Front(stack), e) ELSE Front(stack)
           /\ ent' = e
           /\ pc' = "list"
           /\ UNCHANGED yielded
    /\ UNCHANGED <<order, direction, outside, refs, name, erred>>

\* Slip: an error ends the walk.
Exhausted_onError ==
    /\ pc = "pop" /\ (stack = <<>> \/ erred)
    /\ pc' = "none"
    /\ UNCHANGED <<order, direction, outside, stack, ent, refs, name, yielded, erred>>

Exhausted ==
    /\ pc = "pop" /\ stack = <<>>
    /\ pc' = "none"
    /\ UNCHANGED <<order, direction, outside, stack, ent, refs, name, yielded, erred>>

\* Slip: the entries are pushed in the order in which they are to be returned.
PushOrder_plain(s) == IF direction = "descending" THEN Reverse(s) ELSE s

\* The stack returns them in reverse.
PushOrder(s) == IF direction = "descending" THEN s ELSE Reverse(s)

\* The ids in ascending order.
Ascending(s) ==
    [i \in 1 .. Cardinality(s) |-> CHOOSE c \in s : Cardinality({d \in s : d < c}) = i - 1]

\* push_refs: the children in ascending order of their ids.
List ==
    /\ pc = "list"
    /\ \/ /\ Cardinality(Children(ent.file)) <= RefMax
          /\ refs' = PushOrder(Ascending(Children(ent.file)))
          /\ pc' = "lookup"
          /\ UNCHANGED erred
          /\ Works
       \/ Err /\ (Fails \/ (Works /\ Cardinality(Children(ent.file)) > RefMax))
    /\ UNCHANGED <<order, direction, outside, stack, ent, name, yielded>>

\* All pushed: a pre-order entry is returned now.
Expanded ==
    /\ pc = "lookup" /\ refs = <<>>
    /\ IF ent.color = "pre" THEN Yield(ent) ELSE pc' = "pop" /\ UNCHANGED yielded
    /\ UNCHANGED <<order, direction, outside, stack, ent, refs, name, erred>>

\* External: BTRFS_IOC_INO_LOOKUP_USER, EACCES for a child that is not below
\* the directory the descriptor refers to.
LookupUser(c) ==
    IF c \notin Children(ent.file) THEN "ENOENT"
    ELSE IF ent.color = "root" /\ vols[c].name \in outside THEN "EACCES"
    ELSE "found"

\* Slips: a child that is out of reach ends the loop, like any other error;
\* no error does.
Ignored_never(result) == FALSE
Ignored_always(result) == result # "found"

\* The error the loop goes on after.
Ignored(result) == result = "EACCES" /\ ent.color = "root"

\* The path of the next child.  Another error ends the loop, not the walk.
Lookup ==
    /\ pc = "lookup" /\ refs # <<>>
    /\ \E result \in {LookupUser(Head(refs)), "EIO"} :
        /\ IF result = "EIO" THEN Fails ELSE Works
        /\ \/ /\ result = "found"
              /\ name' = vols[Head(refs)].name
              /\ pc' = "open"
              /\ UNCHANGED <<refs, erred>>
           \/ /\ Ignored(result)
              /\ refs' = Tail(refs)
              /\ UNCHANGED <<name, pc, erred>>
           \/ /\ result # "found" /\ ~ Ignored(result)
              /\ Err
              /\ UNCHANGED name
    /\ UNCHANGED <<order, direction, outside, stack, ent, yielded>>

\* Slip: the path from the parent.
Child_bare(c, file) ==
    Entry(c, ent.id, file, IF order = "post" THEN "grey" ELSE "pre", <<name>>)

Child(c, file) ==
    Entry(c, ent.id, file, IF order = "post" THEN "grey" ELSE "pre", Append(ent.path, name))

\* openat of that path, and push.
Open ==
    /\ pc = "open"
    /\ \/ \E file \in Named(ent.file, name) :
            /\ stack' = Append(stack, Child(Head(refs), file))
            /\ refs' = Tail(refs)
            /\ pc' = "lookup"
            /\ UNCHANGED erred
            /\ Works
       \/ /\ Err
          /\ Fails \/ (Works /\ Named(ent.file, name) = {})
          /\ UNCHANGED stack
    /\ name' = "none"
    /\ UNCHANGED <<order, direction, outside, ent, yielded>>

IterStep == (Works /\ (Pop \/ Exhausted \/ Expanded)) \/ List \/ Lookup \/ Open

\* The caller asks for the next item.
next ==
    /\ pc \in {"item", "error"}
    /\ pc' = "pop"
    /\ UNCHANGED <<order, direction, outside, stack, ent, refs, name, yielded, erred>>

-----------------------------------------------------------------------------
Positions(c) == {i \in 1 .. Len(yielded) : yielded[i].id = c}

\* Below the directory the walk starts from.
Reachable(c) == \E d \in Children(Target) : vols[d].name \notin outside /\ c \in Subtree(d)

\* Types of the variables.
IterTypeOK ==
    /\ vols \in [DOMAIN vols -> [parent : Ids, name : Names]]
    /\ DOMAIN vols \subseteq used /\ disturbed \subseteq used /\ used \subseteq Ids
    /\ order \in Orders /\ direction \in Directions /\ outside \in Outsides
    /\ \A e \in Range(stack) \cup Range(yielded) \cup {ent} :
        /\ {e.id, e.parent, e.file} \subseteq Ids
        /\ e.color \in {"root", "grey", "black", "pre"}
        /\ e.path \in Seq(Names)
    /\ Range(refs) \subseteq Ids
    /\ name \in Names \cup {"none"}
    /\ pc \in {"pop", "list", "lookup", "open", "item", "error", "none"}

\* No subvolume that stays in its place is returned twice; without an error all
\* of them within reach have been returned at the end, whatever other processes
\* did around them.
OnceAndAll ==
    \A c \in Stable :
        /\ Cardinality(Positions(c)) <= 1
        /\ pc = "none" /\ ~ erred => (Positions(c) # {}) = Reachable(c)

\* A parent is returned before its children, or after them; siblings by id.
InOrder ==
    \A c, d \in Stable : \A i \in Positions(c), j \in Positions(d) :
        /\ vols[d].parent = c => IF order = "post" THEN j < i ELSE i < j
        /\ vols[c].parent = vols[d].parent /\ c < d => (i < j) = (direction = "ascending")

\* The id, the descriptor, the parent and the path of an item belong together.
ItemIsWhatItSays ==
    \A c \in Stable : \A i \in Positions(c) :
        /\ yielded[i].file = c
        /\ yielded[i].parent = vols[c].parent
        /\ Resolve(Target, yielded[i].path) = {c}
=============================================================================

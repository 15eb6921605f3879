-------------------------------- MODULE Tree --------------------------------
(***************************************************************************)
(* Directory trees as the kernel keeps them: names are bound to inodes, an *)
(* inode may have several names.  External to the library, which only      *)
(* issues the system calls; each call is an operator that gives the set of *)
(* trees it may lead to, empty when the call fails.                        *)
(*                                                                         *)
(* A path is a sequence of names, relative to the root of the tree.        *)
(***************************************************************************)
EXTENDS Integers, Sequences, FiniteSets, Functions

DirKinds == {"dir", "subvol"}

\* content: the blocks of a file, the target of a symlink.  xattr: the value of
\* the one extended attribute.  meta: what chmod, chown and utimes set.
NewNode(kind, content) ==
    [kind |-> kind, content |-> content, xattr |-> "none",
     meta |-> [mode |-> 0, owner |-> 0, times |-> 0]]

EmptyTree == [names |-> <<>>, nodes |-> <<>>]

Exists(t, p)  == p \in DOMAIN t.names
Node(t, p)    == t.nodes[t.names[p]]
IsDir(t, p)   == p = <<>> \/ (Exists(t, p) /\ Node(t, p).kind \in DirKinds)
IsFile(t, p)  == Exists(t, p) /\ Node(t, p).kind = "file"
Parent(p)     == SubSeq(p, 1, Len(p) - 1)
Within(p, q)  == Len(p) <= Len(q) /\ SubSeq(q, 1, Len(p)) = p
Beneath(p, q) == Within(p, q) /\ p # q

\* Names are below directories, and bound to inodes.
IsTree(t) ==
    /\ t = [names |-> t.names, nodes |-> t.nodes]
    /\ \A p \in DOMAIN t.names : p \in Seq(STRING) /\ p # <<>> /\ IsDir(t, Parent(p))
    /\ t.names \in [DOMAIN t.names -> DOMAIN t.nodes]
    /\ DOMAIN t.nodes \subseteq Nat /\ IsFiniteSet(DOMAIN t.nodes)
    /\ t.nodes = [i \in DOMAIN t.nodes |->
           [kind |-> t.nodes[i].kind, content |-> t.nodes[i].content,
            xattr |-> t.nodes[i].xattr, meta |-> t.nodes[i].meta]]

Bind(f, x, v) == [y \in DOMAIN f \cup {x} |-> IF y = x THEN v ELSE f[y]]

Unused(t) == CHOOSE i \in 1 .. Cardinality(DOMAIN t.nodes) + 1 : i \notin DOMAIN t.nodes

\* Inodes without a name are freed.
Named(names, nodes) == [names |-> names, nodes |-> Restrict(nodes, Range(names))]

Free(t, p) == p # <<>> /\ ~ Exists(t, p) /\ IsDir(t, Parent(p))

When(cond, t) == IF cond THEN {t} ELSE {}

-----------------------------------------------------------------------------
Create(t, p, node) ==
    LET i == Unused(t) IN
    When(Free(t, p), [names |-> Bind(t.names, p, i), nodes |-> Bind(t.nodes, i, node)])

Link(t, old, new) ==
    When(Exists(t, old) /\ ~ IsDir(t, old) /\ Free(t, new),
       [t EXCEPT !.names = Bind(@, new, t.names[old])])

Unlink(t, p) ==
    When(Exists(t, p) /\ ~ IsDir(t, p),
       Named(Restrict(t.names, DOMAIN t.names \ {p}), t.nodes))

Rmdir(t, p) ==
    When(Exists(t, p) /\ IsDir(t, p) /\ \A q \in DOMAIN t.names : ~ Beneath(p, q),
       Named(Restrict(t.names, DOMAIN t.names \ {p}), t.nodes))

\* A directory takes what is beneath it along.
Rename(t, old, new) ==
    LET moved    == {q \in DOMAIN t.names : Within(old, q)}
        Moved(q) == new \o SubSeq(q, Len(old) + 1, Len(q))
        Was(q)   == IF Within(new, q) THEN old \o SubSeq(q, Len(new) + 1, Len(q)) ELSE q
        after    == (DOMAIN t.names \ moved) \cup {Moved(q) : q \in moved}
    IN  When(Exists(t, old) /\ Free(t, new) /\ ~ Within(old, new),
           [t EXCEPT !.names = [q \in after |-> t.names[Was(q)]]])

Change(t, p, node) == When(Exists(t, p), [t EXCEPT !.nodes[t.names[p]] = node])

-----------------------------------------------------------------------------
\* The content of a file, one number per block, 0 in a hole.
Patch(content, off, data) ==
    LET size == IF off + Len(data) > Len(content) THEN off + Len(data) ELSE Len(content)
    IN  [i \in 1 .. size |->
            IF i - off \in 1 .. Len(data) THEN data[i - off]
            ELSE IF i <= Len(content) THEN content[i] ELSE 0]

Resize(content, size) ==
    [i \in 1 .. size |-> IF i <= Len(content) THEN content[i] ELSE 0]

SetContent(t, p, content) ==
    IF IsFile(t, p) THEN Change(t, p, [Node(t, p) EXCEPT !.content = content]) ELSE {}

-----------------------------------------------------------------------------
\* The tree below p, seen from p.
Below(t, p) ==
    LET Full(q) == p \o q
        inside  == {SubSeq(q, Len(p) + 1, Len(q)) : q \in {r \in DOMAIN t.names : Beneath(p, r)}}
    IN  [names |-> [q \in inside |-> t.names[Full(q)]], nodes |-> t.nodes]

\* What is not at p or below it.
Outside(t, p) ==
    {<<q, t.names[q], Node(t, q)>> : q \in {r \in DOMAIN t.names : ~ Within(p, r)}}

\* The same names with the same hard links and, at each name, nodes that are
\* alike.
SameTree(a, b, Alike(_, _)) ==
    /\ DOMAIN a.names = DOMAIN b.names
    /\ \A p \in DOMAIN a.names : Alike(Node(a, p), Node(b, p))
    /\ \A p, q \in DOMAIN a.names :
          (a.names[p] = a.names[q]) <=> (b.names[p] = b.names[q])
=============================================================================

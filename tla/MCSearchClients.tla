--------------------------- MODULE MCSearchClients ---------------------------
EXTENDS SearchClients, TLC

Search(c, t, lo, hi, n) == [client |-> c, tree |-> t, min |-> lo, max |-> hi, limit |-> n]

\* Items of two types under two objectids, the last of them at the greatest
\* offset, and items before and behind the range.
Items == {<<0, 1, 1>>, <<1, 0, 0>>, <<1, 0, 1>>, <<1, 0, 4>>, <<1, 1, 0>>, <<2, 0, 4>>, <<3, 1, 0>>}

DefaultKey == <<1, 0, 3>>

\* Directory items: without the greatest offset.
Names == {<<1, 0, 0>>, <<1, 0, 1>>, <<1, 0, 2>>, <<1, 0, 3>>, <<2, 0, 0>>}

\* Back references, 0 is the root: 3 in 2 in 1; 2 in 1 in 3, which is newer.
Nested == {<<1, 1, 0>>, <<2, 1, 1>>, <<3, 1, 2>>, <<2, 0, 0>>, <<3, 0, 0>>}
Newer  == {<<1, 1, 3>>, <<3, 1, 0>>, <<2, 1, 1>>}

Walks ==
    {Search(c, Items, <<1, 0, 0>>, <<2, MaxType, MaxOffset>>, n) : c \in Walkers, n \in {1, 9}}
    \cup {Search(c, {<<2, 0, 4>>}, <<2, 0, 1>>, <<2, MaxType, MaxOffset>>, 9) : c \in Walkers}
Defaults == {Search("get_default", t, <<1, 0, 0>>, <<1, 0, MaxOffset>>, 9) : t \in {Names, Names \ {DefaultKey}}}
Paths == {Search("get_path", t, <<v, 1, 0>>, <<v, 1, MaxOffset>>, 1) : t \in {Nested, Newer}, v \in 1 .. 3}

AllSearches == Walks \cup Defaults \cup Paths

\* The buffer has three bytes at first.  The name of 3 fills it and leaves no
\* room for a separator; for the name of 2 it is doubled twice.
Lengths == <<2, 8, 3, 1>> @@ (0 :> 1)

Changeable == {<<1, 0, 2>>, <<1, 1, 2>>, <<2, 1, 0>>, <<3, 1, 1>>}
=============================================================================

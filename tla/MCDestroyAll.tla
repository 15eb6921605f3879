---------------------------- MODULE MCDestroyAll ----------------------------
EXTENDS DestroyAll

At(p, n) == [parent |-> p, name |-> n]

\* Two children and a grandchild; a chain; more children than the ioctl
\* returns; another subvolume next to the target, with the same names in it.
Wide  == (2 :> At(1, "t") @@ 3 :> At(2, "a") @@ 4 :> At(2, "b") @@ 5 :> At(3, "a") @@ 6 :> At(1, "b"))
Deep  == (2 :> At(1, "t") @@ 3 :> At(2, "a") @@ 4 :> At(3, "b"))
Many  == (2 :> At(1, "t") @@ 3 :> At(2, "a") @@ 4 :> At(3, "a") @@ 5 :> At(3, "b") @@ 6 :> At(3, "t"))
Twins == (2 :> At(1, "t") @@ 3 :> At(2, "a") @@ 4 :> At(1, "a") @@ 5 :> At(4, "t") @@ 6 :> At(5, "a"))

Trees == {Wide, Deep, Many, Twins}
NoneOrB == {{}, {"b"}}
=============================================================================

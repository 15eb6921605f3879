------------------------------ MODULE RootRefs ------------------------------
(***************************************************************************)
(* subvol::get_rootref (subvol/rootref.rs): calls a function for each      *)
(* subvolume directly below a file descriptor; the walk of its             *)
(* documentation, in which this function calls get_rootref again with the  *)
(* path of the subvolume.  It is called with "." in the target, so that    *)
(* its paths lead from there wherever that is moved.  A call is to the     *)
(* walk what an entry is to the iterator, and shares its variables: ent is *)
(* the innermost call.                                                     *)
(***************************************************************************)
EXTENDS SubvolIter

VARIABLE
    calls   \* the calls around the innermost one: <<ent, refs>>

\* `?`, in every call: the walk ends.
Abort == pc' = "none" /\ erred' = TRUE

\* The path in the buffer of the walk is opened, anew for each subvolume.
OpenPath ==
    /\ pc = "open"
    /\ \/ \E file \in Resolve(Target, ent.path) :
            /\ Works
            /\ ent' = [ent EXCEPT !.file = file]
            /\ pc' = "list" /\ UNCHANGED erred
       \/ /\ Fails \/ (Works /\ Resolve(Target, ent.path) = {})
          /\ Abort /\ UNCHANGED ent
    /\ UNCHANGED <<order, direction, outside, stack, refs, name, yielded, calls>>

\* The outermost call begins here, with the file that was opened for it.
ListRefs ==
    /\ pc = "list" \/ pc = "pop"
    /\ \/ /\ Cardinality(Children(ent.file)) <= RefMax
          /\ Works
          /\ refs' = Ascending(Children(ent.file))
          /\ pc' = "lookup" /\ UNCHANGED erred
       \/ /\ Fails \/ (Works /\ Cardinality(Children(ent.file)) > RefMax)
          /\ Abort /\ UNCHANGED refs
    /\ UNCHANGED <<order, direction, outside, stack, ent, name, yielded, calls>>

\* The subvolume with its path, which is printed and then walked.
Ref(c) == Entry(c, ent.file, c, "pre", Append(ent.path, vols[c].name))

\* No error of the lookup is passed over, EACCES included.
LookupRef ==
    /\ pc = "lookup" /\ refs # <<>>
    /\ \/ /\ LookupUser(Head(refs)) = "found"
          /\ Works
          /\ ent' = Ref(Head(refs))
          /\ yielded' = Append(yielded, Ref(Head(refs)))
          /\ calls' = Append(calls, <<ent, Tail(refs)>>)
          /\ refs' = <<>>
          /\ pc' = "open" /\ UNCHANGED erred
       \/ /\ Fails \/ (Works /\ LookupUser(Head(refs)) # "found")
          /\ Abort /\ UNCHANGED <<ent, yielded, calls, refs>>
    /\ UNCHANGED <<order, direction, outside, stack, name>>

\* Ok(()): back in the call around this one.
ReturnOk ==
    /\ pc = "lookup" /\ refs = <<>>
    /\ Works
    /\ IF calls = <<>>
       THEN pc' = "none" /\ UNCHANGED <<ent, refs, calls>>
       ELSE /\ ent' = Last(calls)[1] /\ refs' = Last(calls)[2] /\ calls' = Front(calls)
            /\ pc' = "lookup"
    /\ UNCHANGED <<order, direction, outside, stack, name, yielded, erred>>

get_rootref == OpenPath \/ ListRefs \/ LookupRef \/ ReturnOk
=============================================================================

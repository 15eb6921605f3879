------------------------------ MODULE Answers ------------------------------
(***************************************************************************)
(* The library's readers of what the kernel answers, one at a time: the    *)
(* iterator over devices, the one over spaces, a walk with a tree search,  *)
(* and get_info_by_id.  Each has its own state; the others are idle.       *)
(***************************************************************************)
EXTENDS DevIter, Spaces, SubvolInfo

vars == <<deviceVars, spaceVars, searchVars, infoVars>>

DevicesIdle ==
    /\ devices = {} /\ stable = {} /\ changes = 0
    /\ num_devices = 0 /\ max_id = 0 /\ found_devices = 0 /\ last_id = 0
    /\ id = 0 /\ pc = "none" /\ yielded = {}

SpacesIdle ==
    /\ spaces = <<>> /\ spaceChanges = 0 /\ least = 0
    /\ slots = <<>> /\ total = 0 /\ current = 0 /\ told = <<>>
    /\ memory = "freed" /\ spacePc = "dropped"

SearchIdle ==
    /\ asked = CHOOSE s \in Searches : TRUE
    /\ min_key = asked.min /\ nr_items = asked.limit /\ buf_size = asked.buf_size
    /\ placed = <<>> /\ found = 0 /\ index = 0 /\ curr_offset = 0 /\ prev_offset = 0
    /\ handed = <<>> /\ visited = {} /\ at = "idle"
    /\ got_root_item = FALSE /\ got_root_ref = FALSE /\ info = <<>>

Init ==
    \/ DevicesInit /\ SpacesIdle /\ SearchIdle
    \/ DevicesIdle /\ SpacesInit /\ SearchIdle
    \/ DevicesIdle /\ SpacesIdle /\ SearchInit /\ InfoInit

ListDevices == DevicesNext /\ UNCHANGED <<spaceVars, searchVars, infoVars>>

ListSpaces == (get_spaces \/ SpacesChange) /\ UNCHANGED <<deviceVars, searchVars, infoVars>>

Walk ==
    /\ asked.client = "walk" /\ (Query \/ QueryFails \/ Take \/ WalkOn \/ DropSearch)
    /\ UNCHANGED <<deviceVars, spaceVars, infoVars>>

Info == get_info_by_id /\ UNCHANGED <<deviceVars, spaceVars>>

Next == ListDevices \/ ListSpaces \/ Walk \/ Info

\* The iterator over devices is asked for the next one until it ends.
Spec == Init /\ [][Next]_vars /\ WF_vars(ListDevices /\ Step) /\ WF_vars(ListDevices /\ next)
=============================================================================

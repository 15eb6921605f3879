---------------------------- MODULE MCHandleFull ----------------------------
(***************************************************************************)
(* Two names, directories two levels deep, and a destination that already   *)
(* holds a file of its own beside the subvolume t0.                        *)
(***************************************************************************)
EXTENDS HandleFull

TopPaths  == {<<"a">>, <<"b">>}
DeepPaths == TopPaths \cup {<<"a", "b">>, <<"b", "a">>, <<"a", "b", "a">>}

OwnFile  == NewNode("file", <<7>>)
OldTree  == [names |-> [p \in {<<"a">>, <<"t0">>} |-> IF p = <<"a">> THEN 1 ELSE 2],
             nodes |-> <<OwnFile, NewNode("subvol", <<>>)>>]

NameKinds == {"subvol", "end", "mkfile", "mkdir", "mknod", "symlink", "rename", "link",
              "unlink", "rmdir", "incremental"}
DataKinds == {"subvol", "end", "mkfile", "mkdir", "write", "encoded_write", "fallocate",
              "truncate", "clone", "update_extent"}
AttrKinds == {"subvol", "end", "mkfile", "link", "setattr", "xattr", "fileattr"}

Workload(kinds, paths, subvols, cmds, xattrat) ==
    [kinds |-> kinds, paths |-> paths, subvols |-> subvols, cmds |-> cmds, xattrat |-> xattrat]

AllWorkloads    == {Workload(NameKinds, DeepPaths, {"s", "t", "t0"}, 5, TRUE),
                    Workload(DataKinds, TopPaths, {"s"}, 6, TRUE),
                    Workload(AttrKinds, TopPaths, {"s", "t"}, 6, FALSE),
                    Workload(AttrKinds, TopPaths, {"s"}, 4, TRUE)}
SymlinkWorkload == {Workload({"subvol", "mkfile", "symlink"}, TopPaths, {"s"}, 3, TRUE)}

Blocks == {<<1>>, <<2, 3>>}
=============================================================================

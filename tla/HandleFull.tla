----------------------------- MODULE HandleFull -----------------------------
(***************************************************************************)
(* HandleFull (send_stream/handler/handle_full.rs): the handler that       *)
(* replays a full send stream below a directory.  Each method builds a C   *)
(* path in one of two buffers, whose front holds the name of the current   *)
(* subvolume, and makes one or two system calls relative to dirfd.         *)
(*                                                                         *)
(* The sender is external: it walks a read-only subvolume and sends        *)
(* commands that are possible in the tree it has described so far (sent).  *)
(* The caller stops at the first error, as receive_stream does; after END  *)
(* it may use the handler for a further stream.                            *)
(***************************************************************************)
EXTENDS Tree

CONSTANTS
    Workloads,      \* what a sender may use: the kinds of commands, the names of
                    \* subvolumes, the paths below one, as a bound the number of
                    \* commands of all streams; and whether the kernel has
                    \* setxattrat and removexattrat (from 6.13 on)
    Subvols,        \* names of subvolumes
    Uuids,          \* uuids of subvolumes
    Data,           \* the file data a command carries: sequences of blocks
    MaxSize,        \* bound: blocks of a file
    PathMax,        \* size of the path buffers, NUL included
    InitialDest,    \* what the destination directory holds at first
    Faults,         \* whether a system call may fail without a reason of its own
    ShortWrites     \* whether pwrite may write less than it was given

ASSUME HandlerAssumption ==
    /\ PathMax \in Nat /\ MaxSize \in Nat
    /\ Subvols \subseteq STRING
    /\ \A w \in Workloads :
          /\ w.paths \subseteq Seq(STRING) /\ <<>> \notin w.paths
          /\ w.subvols \subseteq Subvols /\ w.cmds \in Nat /\ w.xattrat \in BOOLEAN
    /\ IsTree(InitialDest)
    /\ Data \subseteq Seq(Nat)
    /\ {Faults, ShortWrites} \subseteq BOOLEAN

VARIABLES
    dest,                \* the tree below dirfd
    received,            \* the received uuid of each subvolume there
    path_buf,            \* the path buffers: the names in front of the NUL,
    path_buf_secondary,  \*   and behind it nothing that is read again
    current_subvol,      \* its path, <<>> between streams
    received_uuid,       \* received_args.uuid
    phase,               \* idle, writing, or stopped: failed, panicked
    job,                 \* the write in progress
    cause,               \* why phase is failed
    workload,            \* what the sender uses
    sent,                \* the tree the sender has described
    origin,              \* the uuid of the subvolume it sends, "none" between
    complete,            \* per subvolume: the stream that was ended well
    count                \* commands so far

handlerVars == <<dest, received, path_buf, path_buf_secondary, current_subvol,
                 received_uuid, phase, job, cause>>
senderVars  == <<workload, sent, origin, complete, count>>
vars        == <<handlerVars, senderVars>>

Paths == workload.paths

NoJob == [path |-> <<>>, off |-> 0, data |-> <<>>]

Init ==
    /\ dest = InitialDest
    /\ received = [s \in Subvols |-> "none"]
    /\ path_buf = <<>> /\ path_buf_secondary = <<>>
    /\ current_subvol = <<>> /\ received_uuid = "none"
    /\ phase = "idle" /\ job = NoJob /\ cause = "none"
    /\ workload \in Workloads
    /\ sent = EmptyTree /\ origin = "none"
    /\ complete = [s \in Subvols |-> [uuid |-> "none", tree |-> EmptyTree]]
    /\ count = 0

-----------------------------------------------------------------------------
(* The sender: a command of a kind, and the tree it leads to there. *)

Command(kind) ==
    /\ kind \in workload.kinds
    /\ phase = "idle"
    /\ count < workload.cmds /\ count' = count + 1
    /\ UNCHANGED workload

Send(kind, trees) ==
    /\ Command(kind)
    /\ origin # "none"
    /\ sent' \in trees
    /\ UNCHANGED <<origin, complete>>

-----------------------------------------------------------------------------
(* The path buffers and the outcome of system calls. *)

Fits(path) == Len(current_subvol) + Len(path) < PathMax

\* Slip: the path is put at the start of the buffer.
CPath_front(buf, path) == path

\* do_c_path: path is put behind the first current_subvol.len() bytes.
CPath(buf, path) == SubSeq(buf, 1, Len(current_subvol)) \o path

get_c_path(path) ==
    path_buf' = IF Fits(path) THEN CPath(path_buf, path) ELSE path_buf

get_c_path_secondary(path) ==
    path_buf_secondary' = IF Fits(path) THEN CPath(path_buf_secondary, path)
                                        ELSE path_buf_secondary

fail(why) == phase' = "failed" /\ cause' = why /\ UNCHANGED dest

\* A call that may lead to any of trees.
call(trees) ==
    \/ dest' \in trees /\ UNCHANGED <<phase, cause>>
    \/ trees = {} /\ fail("refused")
    \/ Faults /\ fail("fault")

panic ==
    /\ phase' = "panicked"
    /\ UNCHANGED <<dest, received, path_buf, path_buf_secondary, current_subvol,
                   received_uuid, job, cause>>

\* A method with one path, and one with two.
with_path(path, trees) ==
    /\ get_c_path(path)
    /\ IF Fits(path) THEN call(trees) ELSE fail("too long")
    /\ UNCHANGED <<received, path_buf_secondary, current_subvol, received_uuid, job>>

with_paths(path, path2, trees) ==
    /\ get_c_path(path)
    /\ IF Fits(path) THEN get_c_path_secondary(path2) ELSE UNCHANGED path_buf_secondary
    /\ IF Fits(path) /\ Fits(path2) THEN call(trees) ELSE fail("too long")
    /\ UNCHANGED <<received, current_subvol, received_uuid, job>>

C(path)  == CPath(path_buf, path)
C2(path) == CPath(path_buf_secondary, path)

-----------------------------------------------------------------------------
(* Names. *)

\* openat(O_WRONLY | O_CREAT | O_TRUNC)
OpenCreate(t, p) ==
    IF Exists(t, p) THEN SetContent(t, p, <<>>) ELSE Create(t, p, NewNode("file", <<>>))

mkfile ==
    \E p \in Paths :
        /\ Send("mkfile", Create(sent, p, NewNode("file", <<>>)))
        /\ with_path(p, OpenCreate(dest, C(p)))

mkdir ==
    \E p \in Paths :
        /\ Send("mkdir", Create(sent, p, NewNode("dir", <<>>)))
        /\ with_path(p, Create(dest, C(p), NewNode("dir", <<>>)))

\* mknod, mkfifo and mksock, which differ in the type given to mknodat.
mknod ==
    \E p \in Paths, kind \in {"device", "fifo", "socket"} :
        /\ Send("mknod", Create(sent, p, NewNode(kind, <<>>)))
        /\ with_path(p, Create(dest, C(p), NewNode(kind, <<>>)))

\* The target goes through the second path buffer as if it were a path.
symlink ==
    \E p, target \in Paths :
        /\ Send("symlink", Create(sent, p, NewNode("symlink", target)))
        /\ with_paths(p, target, Create(dest, C(p), NewNode("symlink", C2(target))))

rename ==
    \E p, path_to \in Paths :
        /\ Send("rename", Rename(sent, p, path_to))
        /\ with_paths(p, path_to, Rename(dest, C(p), C2(path_to)))

\* Slip: linkat's two names in the order of the command.
link_swapped ==
    \E p, path_link \in Paths :
        /\ Send("link", Link(sent, path_link, p))
        /\ with_paths(p, path_link, Link(dest, C(p), C2(path_link)))

\* path becomes a further name of path_link.
link ==
    \E p, path_link \in Paths :
        /\ Send("link", Link(sent, path_link, p))
        /\ with_paths(p, path_link, Link(dest, C2(path_link), C(p)))

unlink ==
    \E p \in Paths :
        /\ Send("unlink", Unlink(sent, p))
        /\ with_path(p, Unlink(dest, C(p)))

rmdir ==
    \E p \in Paths :
        /\ Send("rmdir", Rmdir(sent, p))
        /\ with_path(p, Rmdir(dest, C(p)))

-----------------------------------------------------------------------------
(* File data. *)

\* The sender's side of a command that puts data at off of the file p.
SentPatch(p, off, data) ==
    IF IsFile(sent, p) /\ off + Len(data) <= MaxSize
    THEN SetContent(sent, p, Patch(Node(sent, p).content, off, data)) ELSE {}

\* write opens the file; the loop over pwrite follows.
write ==
    \E p \in Paths, off \in 0 .. MaxSize, data \in Data :
        /\ Send("write", SentPatch(p, off, data))
        /\ get_c_path(p)
        /\ UNCHANGED <<dest, received, path_buf_secondary, current_subvol, received_uuid>>
        /\ \/ /\ Fits(p) /\ IsFile(dest, C(p))
              /\ phase' = "writing"
              /\ job' = [path |-> C(p), off |-> off, data |-> data]
              /\ UNCHANGED cause
           \/ /\ ~ (Fits(p) /\ IsFile(dest, C(p))) \/ Faults
              /\ phase' = "failed"
              /\ cause' = IF ~ Fits(p) THEN "too long"
                          ELSE IF IsFile(dest, C(p)) THEN "fault" ELSE "refused"
              /\ UNCHANGED job

\* One turn of the loop: every pwrite is at file_offset, which stays.
pwrite ==
    /\ phase = "writing"
    /\ \/ /\ \E n \in 1 .. Len(job.data) :
              /\ n = Len(job.data) \/ ShortWrites
              /\ dest' \in SetContent(dest, job.path,
                              Patch(Node(dest, job.path).content, job.off,
                                    SubSeq(job.data, 1, n)))
              /\ LET rest == SubSeq(job.data, n + 1, Len(job.data))
                 IN  IF rest = <<>> THEN phase' = "idle" /\ job' = NoJob
                                    ELSE job' = [job EXCEPT !.data = rest] /\ UNCHANGED phase
          /\ UNCHANGED cause
       \/ Faults /\ fail("fault") /\ UNCHANGED job
    /\ UNCHANGED <<received, path_buf, path_buf_secondary, current_subvol,
                   received_uuid, senderVars>>

\* BTRFS_IOC_ENCODED_WRITE writes the decoded data in one go.
encoded_write ==
    \E p \in Paths, off \in 0 .. MaxSize, data \in Data :
        /\ Send("encoded_write", SentPatch(p, off, data))
        /\ with_path(p, IF IsFile(dest, C(p))
                        THEN SetContent(dest, C(p), Patch(Node(dest, C(p)).content, off, data))
                        ELSE {})

\* Zeros in place of data.
fallocate ==
    \E p \in Paths, off \in 0 .. MaxSize, size \in 1 .. MaxSize :
        LET zeros == [i \in 1 .. size |-> 0] IN
        /\ Send("fallocate", SentPatch(p, off, zeros))
        /\ with_path(p, IF IsFile(dest, C(p))
                        THEN SetContent(dest, C(p), Patch(Node(dest, C(p)).content, off, zeros))
                        ELSE {})

\* Slip: the file is opened without O_TRUNC for size 0.
truncate_kept ==
    \E p \in Paths, size \in 0 .. MaxSize :
        /\ Send("truncate", IF IsFile(sent, p)
                            THEN SetContent(sent, p, Resize(Node(sent, p).content, size)) ELSE {})
        /\ with_path(p, IF ~ IsFile(dest, C(p)) THEN {}
                        ELSE IF size = 0 THEN {dest}
                        ELSE SetContent(dest, C(p), Resize(Node(dest, C(p)).content, size)))

\* openat(O_TRUNC) for size 0, otherwise ftruncate.
truncate ==
    \E p \in Paths, size \in 0 .. MaxSize :
        /\ Send("truncate", IF IsFile(sent, p)
                            THEN SetContent(sent, p, Resize(Node(sent, p).content, size)) ELSE {})
        /\ with_path(p, IF ~ IsFile(dest, C(p)) THEN {}
                        ELSE IF size = 0 THEN SetContent(dest, C(p), <<>>)
                        ELSE SetContent(dest, C(p), Resize(Node(dest, C(p)).content, size)))

\* The blocks clone_offset .. clone_offset + clone_len of a file.
Extent(t, p, off, len) == SubSeq(Node(t, p).content, off + 1, off + len)

\* Within the subvolume being sent: the destination is opened (or created)
\* through the first buffer, the source through the second.
clone ==
    \E p, clone_path \in Paths, file_offset, clone_offset \in 0 .. MaxSize, clone_len \in 1 .. MaxSize :
        /\ IsFile(sent, clone_path)
        /\ clone_offset + clone_len <= Len(Node(sent, clone_path).content)
        /\ Send("clone", SentPatch(p, file_offset, Extent(sent, clone_path, clone_offset, clone_len)))
        /\ IF received_uuid = origin
           THEN with_paths(p, clone_path,
                   IF IsFile(dest, C(p)) /\ IsFile(dest, C2(clone_path))
                   THEN SetContent(dest, C(p),
                           Patch(Node(dest, C(p)).content, file_offset,
                                 Extent(dest, C2(clone_path), clone_offset, clone_len)))
                   ELSE {})
           ELSE panic

-----------------------------------------------------------------------------
(* Attributes. *)

SetMeta(t, p, field, v) ==
    IF Exists(t, p) THEN Change(t, p, [Node(t, p) EXCEPT !.meta[field] = v]) ELSE {}

\* chmod, chown and utimes.
setattr ==
    \E p \in Paths, field \in {"mode", "owner", "times"}, v \in {1, 2} :
        /\ Send("setattr", SetMeta(sent, p, field, v))
        /\ with_path(p, SetMeta(dest, C(p), field, v))

SetXattr(t, p, v) ==
    IF Exists(t, p) THEN Change(t, p, [Node(t, p) EXCEPT !.xattr = v]) ELSE {}

\* Slip: the path for lsetxattr lacks the subvolume.
FallbackPath_bare(p) == p

FallbackPath(p) == current_subvol \o p

\* setxattrat and removexattrat are called without their first argument, and fail:
\* on a kernel that does not have them with ENOSYS, and lsetxattr or lremovexattr
\* gets the path of dirfd, the current subvolume and the path of the command; on a
\* kernel that has them with another error, which is returned.
xattr(p, v) ==
    /\ get_c_path(p)
    /\ IF ~ Fits(p) THEN fail("too long")
       ELSE IF workload.xattrat THEN fail("refused")
       ELSE call(SetXattr(dest, FallbackPath(p), v))
    /\ UNCHANGED <<received, path_buf_secondary, current_subvol, received_uuid, job>>

set_xattr ==
    \E p \in Paths, v \in {"v", "w"} :
        /\ Send("xattr", SetXattr(sent, p, v))
        /\ xattr(p, v)

remove_xattr ==
    \E p \in Paths :
        /\ Exists(sent, p) /\ Node(sent, p).xattr # "none"
        /\ Send("xattr", SetXattr(sent, p, "none"))
        /\ xattr(p, "none")

\* Of streams without file data: nothing is done.
update_extent == Send("update_extent", {sent}) /\ UNCHANGED handlerVars

\* Printed, not applied.
fileattr == Send("fileattr", {sent}) /\ UNCHANGED handlerVars

-----------------------------------------------------------------------------
(* Subvolumes. *)

\* Both buffers start with the name of the subvolume.
Prefixed(s) == path_buf' = <<s>> /\ path_buf_secondary' = <<s>>

\* The handler notes the subvolume, then creates it.
subvol ==
    \E s \in workload.subvols, uuid \in Uuids :
        /\ Command("subvol")
        /\ IF current_subvol # <<>>
           THEN /\ fail("protocol")
                /\ UNCHANGED <<path_buf, path_buf_secondary, current_subvol, received_uuid,
                               sent, origin>>
           ELSE /\ Prefixed(s)
                /\ current_subvol' = <<s>>
                /\ received_uuid' = uuid
                /\ IF Exists(dest, <<s>>) THEN fail("exists")
                   ELSE call(Create(dest, <<s>>, NewNode("subvol", <<>>)))
                /\ sent' = EmptyTree /\ origin' = uuid
        /\ UNCHANGED <<received, job, complete>>

\* BTRFS_IOC_SET_RECEIVED_SUBVOL on the subvolume, whose path is now put at the
\* front of the first buffer.
end ==
    /\ Command("end")
    /\ IF current_subvol = <<>>
       THEN fail("protocol") /\ UNCHANGED <<received, path_buf, current_subvol,
                                            received_uuid, origin, complete>>
       ELSE /\ current_subvol' = <<>>
            /\ path_buf' = current_subvol
            /\ LET s == current_subvol[1] IN
               \/ /\ Exists(dest, current_subvol)
                  /\ received' = [received EXCEPT ![s] = received_uuid]
                  /\ received_uuid' = "none"
                  /\ complete' = [complete EXCEPT ![s] = [uuid |-> origin, tree |-> sent]]
                  /\ origin' = "none"
                  /\ UNCHANGED <<dest, phase, cause>>
               \/ /\ Faults /\ fail("fault")
                  /\ UNCHANGED <<received, received_uuid, origin, complete>>
    /\ UNCHANGED <<path_buf_secondary, job, sent>>

\* snapshot, and clone from another subvolume, of an incremental send: both are
\* unimplemented!().
incremental ==
    /\ Command("incremental")
    /\ panic
    /\ UNCHANGED <<sent, origin, complete>>

-----------------------------------------------------------------------------
Stopped ==
    /\ phase \in {"failed", "panicked"} \/ (phase = "idle" /\ count = workload.cmds)
    /\ UNCHANGED vars

NameStep == mkfile \/ mkdir \/ mknod \/ symlink \/ rename \/ link \/ unlink \/ rmdir
DataStep == write \/ pwrite \/ encoded_write \/ fallocate \/ truncate \/ clone
AttrStep == setattr \/ set_xattr \/ remove_xattr \/ update_extent \/ fileattr
SubvolStep == subvol \/ end \/ incremental

Next == NameStep \/ DataStep \/ AttrStep \/ SubvolStep \/ Stopped

Spec == Init /\ [][Next]_vars

-----------------------------------------------------------------------------
TreeOK(t) == IsTree(t) /\ Range(t.names) = DOMAIN t.nodes

TypeOK ==
    /\ TreeOK(dest) /\ TreeOK(sent)
    /\ received \in [Subvols -> Uuids \cup {"none"}]
    /\ Len(path_buf) < PathMax /\ Len(path_buf_secondary) < PathMax
    /\ current_subvol = <<>> \/ \E s \in Subvols : current_subvol = <<s>>
    /\ received_uuid \in Uuids \cup {"none"}
    /\ phase \in {"idle", "writing", "failed", "panicked"}
    /\ phase = "writing" => job.data # <<>>
    /\ count \in 0 .. workload.cmds

\* The targets of symlinks are left to FullyReplayed.
Alike(a, b)   == a = b
AlikeBut(a, b) ==
    IF a.kind = "symlink" THEN b = [a EXCEPT !.content = b.content] ELSE a = b

\* After each command the subvolume is what the sender has described so far:
\* the same names, hard links, data and attributes.
Replayed ==
    (phase = "idle" /\ current_subvol # <<>>) =>
        SameTree(Below(dest, current_subvol), sent, AlikeBut)

\* A subvolume is marked as received, with the uuid of its own stream, only
\* when that stream was replayed up to END, and what the handler does for later
\* streams changes nothing in it.
ReceivedIsComplete ==
    \A s \in Subvols :
        received[s] # "none" =>
            /\ received[s] = complete[s].uuid
            /\ SameTree(Below(dest, <<s>>), complete[s].tree, AlikeBut)

\* No step, a failing one included, touches anything outside the subvolume of
\* the current stream.
OnlyInSubvol ==
    [][LET s == IF current_subvol = <<>> THEN current_subvol' ELSE current_subvol
       IN  Outside(dest', s) = Outside(dest, s)]_vars

\* Setting or removing an attribute where the kernel has the calls for it.
AttributeByXattrat == workload.xattrat /\ (set_xattr \/ remove_xattr)

\* Of the commands that made sense in the sender's tree, the kernel refuses these
\* and no other: paths, flags and the order of arguments fit the tree built so far.
OnlyXattratRefused ==
    [][cause # "refused" /\ cause' = "refused" => AttributeByXattrat]_vars

\* "Handles a full BTRFS send stream": also the targets of symlinks, and the
\* data of a write whatever the kernel takes of it at a time.
FullyReplayed ==
    (phase = "idle" /\ current_subvol # <<>>) =>
        SameTree(Below(dest, current_subvol), sent, Alike)
=============================================================================

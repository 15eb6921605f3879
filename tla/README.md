# A TLA+ model of libbtrfs

libbtrfs (`src/libbtrfs`) is a Rust library around the ioctls of the btrfs
filesystem.  Most of its functions are one system call each.  The modules here are
about the parts in which more happens: several threads around a pipe or a ring, a
stream of commands replayed into a directory tree, loops of ioctls over data that
other processes change meanwhile, and pointers into buffers that the kernel fills.

1. [The system](#the-system)
2. [The modules and the code](#the-modules-and-the-code)
3. [What is checked](#what-is-checked)
4. [What is proved](#what-is-proved)
5. [Where the code differs from its docs](#where-the-code-differs-from-its-docs)
6. [What is not modelled](#what-is-not-modelled)
7. [Plan](#plan)

File names are relative to `src/libbtrfs/src`.

## The system

| component | state | operations | what makes it correct |
|---|---|---|---|
| stream reader (`send_stream/read_stream.rs`) | source, current command, `stream_pos`, shared position | `read_header`, `read_cmd` | a torn or corrupt command is never handed on; the shared position follows `stream_pos` at block borders |
| `receive_stream` (`send_stream/recieve.rs`) | none | chooses one of the two receives | the promise both must keep: commands in order, none after a failure, errors reported as what they are |
| unbuffered receive (`read_and_handle`) | one buffer | read, handle, ... | keeps the promise; ends when the handler answers `None` |
| buffered receive (`read_and_handle_buffered`) | two rings, `nbuf` buffers, two threads | push, pop, poll, ask whether the other side is gone | the same promise; no push finds a full ring; both threads stop |
| send (`send_stream/send.rs`) | pipe, its two descriptors, up to three threads | `spawn_send`, `SendHandle::join`, `blocking_send` | the ioctl writes to the pipe and to nothing else; the caller gets the cause, and what `Ok` says is known; who waits for ever, and when |
| command parsing (`handler/command.rs`, `handler/mod.rs`) | none | TLV parsers, dispatch of `handle_cmd` | every payload is parsed or refused |
| `HandleFull` (`handler/handle_full.rs`) | two path buffers, name and uuid of the current subvolume | one method per command | the destination follows the sender; a subvolume is marked received only when complete |
| tree search (`tree_search/`) | search key, buffer, position in it | `query`, the iterator, its drop | no item is skipped or returned twice; each is where the iterator says it is; the search ends |
| tree items (`tree_search/tree_item.rs`) | none | accessors of packed structures | each accessor reads the field it is named after, of the item it was asked of |
| subvolume iterator (`subvol/iterator.rs`) | stack of open subvolumes | `next`, `push_refs` | every subvolume once, in order, with its own path |
| root refs (`subvol/rootref.rs`) | none | `get_rootref`, called again by its callback | the same, of a walk by paths |
| subvolume operations (`subvol/mod.rs`) | none | create, snapshot, destroy, `destroy_all`, `get_default`, `get_path`, ... | what is left was reported; the path is the subvolume's |
| subvolume information (`subvol/info.rs`) | none | `get_info`, `get_info_by_id` | each field returned was found, and is this subvolume's |
| devices (`dev/`) | counters of the iterator | add, remove, stats, `iter` | every device that stays is returned; the iterator ends |
| filesystem information (`fs/mod.rs`) | buffer of records, position in it | `info`, `get_spaces` | a record returned was written by the kernel; the buffer is freed |
| block groups (`fs/block_group.rs`) | none | tables, conversions of flags | a space has the type and the profile of its flags; a profile's numbers fit together |
| lookup (`lookup.rs`) | a buffer | one ioctl per call | |
| utilities, bindings | none | ioctl wrapper, strings, flags; generated code | |

How they interact:

* `send` starts `BTRFS_IOC_SEND`, which writes into a pipe; at the other end, in
  another thread, `receive_stream` reads commands and calls a `StreamHandler`.
  Descriptors are shared by number, so that who drops them when matters.
* The buffered receive has two threads and two single-producer rings.  Commands go one
  way; buffers, or one error, come back.  Dropping one's ends of the rings is the only
  other signal.
* `HandleFull` is such a handler.  It acts on the kernel's tree of directories.
* `subvol::iter` uses rootref listing, lookup and `openat` for each entry.
  `destroy_all` calls the iterator and destroys what it returns while the walk goes on.
* `get_default`, `get_path` and `get_info_by_id` are loops over a tree search.  The
  kernel writes items behind headers into the search's buffer, the iterator adds up
  their lengths, and views point into the buffer.
* All loops of ioctls run against a filesystem that other processes change between
  two calls.

What is hard here, and hardly tested (the repository's tests need a mounted btrfs and
look at quiet filesystems): the interleavings of the two receiving threads; the order
in which descriptors are dropped and threads joined; what a handler leaves behind when
one of its two system calls fails; state that is read by one ioctl and used by the
next; in `destroy_all`, one loop changing what another one walks over; and offsets,
sizes and counts that library and kernel both keep, and that must agree to the byte.

## The modules and the code

    Receive                 StreamReader                  Tree          Volumes       TreeSearch
      ^    ^                 /        \                     |              |           |      ^
      |    +--- DirectReceive     BufferedReceive       HandleFull     SubvolIter      |      |
      |                              |                                     |     SearchClients|
      +------------------------------+  SendPipe   Tlv                 RootRefs               |
                                                                           |                  |
                                                                       DestroyAll             |
                                                                                              |
                             BlockGroups      Layout --- TreeItems --- SearchBuffer ----------+
                                  |                                        |
                     DevIter    Spaces                                 SubvolInfo
                         \________|________________________________________/
                                               Answers

Arrows are refinements, lines are `EXTENDS`.  Action and operator names are those of
the functions in the code where there is one.  An operator whose comment starts with
"Slip" is the definition next to it with a plausible mistake; no specification uses
it, it is there to see that a property notices the mistake.

**Receive** is what a caller of `receive_stream` may rely on, with no threads in it: up
to `Lead` commands are read ahead of the handler; the handler gets them in order and
none after a failure; `Ok` leaves at most the last `Lead - 1` commands read without a
good answer; an error or a panic is returned only if it happened.

**StreamReader** is the reading half of `SendStream`.  A stream is a sequence of
commands with a length, and each may be torn (the source ends in it) or corrupt (its
checksum is wrong).  `read_cmd_ok` and `read_cmd_err` are the two outcomes of
`read_cmd`; `Published` is the update of the shared position.

**DirectReceive** is `read_and_handle`, **BufferedReceive** is
`read_and_handle_buffered`.  In the latter every access to a ring, every question
whether the other end is abandoned, every call of the handler and each drop of the ring
ends is a step, so that TLC sees all interleavings the two threads have.  A poll that
finds a ring empty and the question `is_abandoned()` that follows it are two steps:
that is where the code can be overtaken.  The handler is any handler: each call answers
`Some`, `None`, an error, or panics.  **BufferedReceiveInv** holds the inductive
invariant.

**SendPipe** is `send.rs`: caller, sending thread (or the caller itself in
`blocking_send`), receiving thread, and the pipe.  `writerFd`, `kernelRef` and `reader`
say who keeps the pipe's ends open.  The ioctl is external: it resolves the number it
was given once, then writes until it is done, fails, or gets `EPIPE`.  Both receives
are there, as `buffered` says.  `RecvCmd` is a turn of the unbuffered one.  The buffered one is
`BufferedReceive` with fewer steps: `PushCmd`, `TakeBuffer`, `FoundNoBuffer`,
`CheckHandler`, `FinishLoop` and `ScopeJoin` on the receiving thread, `HandleCmd`, `FoundNoCmd` and
`CheckMain` on its handler thread, with the ring of buffers and errors in `free` and that of
commands as the part of `got` that has no answer in `handled` yet.  What lies between two looks of one
thread at what the other one changes is one step, and that a push finds room is not asked
again (`PushesFindRoom`).  Spins are left out: a poll that found nothing may always be the
last before `is_abandoned` is asked.  The header is part of the first chunk, and the kernel writes no
damaged commands.

**Tree** is the kernel's directory tree as far as the handler's calls can tell:
names bound to inodes, hard links, directories, contents in blocks.  **HandleFull** has one
action per command, which sends the command (of an external sender that has a tree of
its own, `sent`) and performs the whole method on the tree `dest`: path check, path
buffer, system call, outcome.  `write` is followed by one `pwrite` step per turn of the
code's loop.  `ShortWrites` allows `pwrite` to take less than it is given.

**Volumes** is the set of subvolumes with parents and names, which others create, delete and
rename: anywhere, so that they also move subvolumes out of the target and into it, move the
target itself, and put another one in its place.  What they move is `disturbed`, with all that is
in it; only what is in the target stays where it is, in the target, when that one moves.  **SubvolIter** is the iterator: `List`, `Lookup`, `Open` are separate ioctls,
and others may act between them.  **RootRefs** is `get_rootref` with the walk of its
documentation, whose callback calls it again: a stack of calls where the iterator has one of
entries, and each subvolume is opened by its path from the start, when its turn comes.  The start is
the target's own directory, ".".
**DestroyAll** adds the callers: one that takes every
item, this walk, and `destroy_all`, with `OpenParent` and `DestroyItem` as the two calls inside
`destroy`.  **DestroyAllInv** has their inductive invariants.

**TreeSearch** is the search as a cursor over a set of keys (objectid, type, offset),
ordered as btrfs orders them.  The kernel returns a prefix of what is in range, of
any length from one item to `Capacity`, since lengths of items differ.  **SearchClients** are
the loops: the walk with each `on_drop` function the library offers,
`subvol::get_default` and `subvol::get_path`.  A walk may stop anywhere in a batch and
ask again: `WalkOn` drops the iterator with any number of items taken.  `passed` holds
the items lost when that number is zero (below).  The path of `get_path` is built as
in the code, byte by byte: `buf` is doubled until the name and its separator fit in
front (`Doubled`, `Turns`, `Extended`), `pos` moves towards the front, and what is before
it is drained at the root.  A name is so many distinct bytes.

**Layout** has the structures of the bindings, field by field with their sizes, from
which offsets follow.  **TreeItems** has the views of `tree_item.rs`: for each key type, its
structure, the field each accessor reads and the field it ought to read.
**SearchBuffer** is `tree_search/mod.rs` over such items: the kernel places as many as fit
behind headers, `Take` adds up lengths from wherever the last addition led, `DropIter`
reads a header at `prev_offset` whether there is one or not, `QueryFails` overwrites
`buf_size` as the kernel does.  What was never written is one of `Garbage`.
Under the mapping in `Abstract` it implements the actions of `TreeSearch`: a batch is its
keys, the cursor the number of items handed out.  **SubvolInfo** adds `get_info_by_id`,
the loop that fills a structure from two items; `info` says of each
field of it whose field was copied there.

**BlockGroups** has the tables of RAID profiles and the two conversions of flag words,
as sets of bits.  **Spaces** is `get_spaces`: two ioctls with changes in between, the
iterator over the records and its buffer.  **DevIter** is the device iterator.

**Answers** puts DevIter, Spaces, SearchBuffer and SubvolInfo side by side: one of the readers is
started and works on its own filesystem, the others stay idle.  They share no state in
the code either; the module is there to run them together.

**Tlv** is `handle_cmd` and the parsers of attributes.  A payload is a sequence of cells:
the type, the length and the values of an attribute are as many cells as the parsers can
tell apart.  The sender is external.  `parse_tlv` is the parser all commands get from
the macro `SEND_CMD!`; `parse_v2` is what the two parsers of version 2 have in common.

## What is checked

`MC*` modules give values to constants; `SendPipe` and `Tlv` have numbers and flags
only, which the configuration gives.  Deadlock is
checked where the specification has a terminated state that stutters explicitly
(receives, `HandleFull`); the `CHECK_DEADLOCK FALSE` of the others is for specifications
that just stop when the call has returned.  `SendPipe` asks for termination
as liveness instead: its stops are either wanted (returned) or the hang of `send_hang`.

### Runs that pass

**direct** (`MCDirectReceive`): all streams of up to 3 commands of 2 or 5 bytes with a block
of 4 bytes, so that a command crosses no border, one or two; torn and corrupt
commands; the three bad headers.  `StopsAtNone`: the handler's `None` and nothing else
ends the loop.  `PositionWithinBlock`: the shared position lags by less than a block.
`ImplementsReceive`: refinement of `Receive` with `Lead` 1.

**buffered** (`MCBufferedReceive`): the same streams, two buffers, and one empty poll before
`is_abandoned` is asked.  Two buffers is what the code uses unless the caller asks for more;
3 commands are enough for one being handled, one in the ring and one being read.  `IInv`
is the inductive invariant of the proofs.  `PushesFindRoom`: the
`expect("Handler panicked")` of the push never fires and the handler never loses a
buffer or an error.  `HandledInOrder`, `OkMeansHandled`: what `Ok` means, which is less than one
would expect (below).  `ImplementsReceive` with `Lead` 2.  `Terminates`.

**send** (`SendPipe.cfg`): both functions and both receives, with and without END, streams of up to 4 commands
over a pipe of 2, the code's 2 buffers, any answers of the handler, every failure.  A stream twice as long as the pipe makes the writer
wait for room while the reader waits for data, and is longer than what pipe and buffers hold together.  `DescriptorIsValid`: the ioctl is never given the number of a
closed descriptor.  `OkMeansReceived`: what `Ok` says, which differs: the unbuffered receive has handled
all commands, or all up to the one at which the handler asked to stop; the buffered
one has read them all, but the last (`NBuf - 1` of them) may be unhandled or have failed.
`JoinReportsTheCause`: an `EPIPE` is reported only when the handler of an unbuffered receive stopped
early.  `NoneLeftBehind`: neither thread outlives the other.  `ReturnsUnlessStarved`: the call
returns, or it is `Starved`: the receiving thread reads a pipe that nobody writes to any more and that
its own process keeps open.  That happens when the ioctl failed before END, when END is omitted,
and when the handler asks for more after END.  A handler that stops, fails or panics ends the call, but in
a buffered receive `None` does not stop it, and a failure in the last command read does not
either until another one comes.

**replay** (`MCHandleFull`): four workloads, 5 or 6 commands each: names (two levels of directories, up to
two streams through one handler, three names of subvolumes, one of which exists already), file
data, attributes on a kernel without and on one with `setxattrat`; any system call may fail.  `Replayed`: after each command the
subvolume is what the sender has described: names, hard links, data, attributes.
`ReceivedIsComplete`: a received subvolume is the stream's, with its uuid, and later
streams leave it alone.  `OnlyInSubvol`: no step touches anything else.
`OnlyXattratRefused`: of the commands that made sense at the sender the kernel refuses only
set and remove attribute, and those only where it has `setxattrat` (below).
Five commands allow create, link, rename and a further command, or a stream, its end
and the beginning of the next.

**subvols** (`MCDestroyAll`): four trees of up to 5 subvolumes (wide, deep, one with more
children than a listing returns, one with equal names beside the target), both orders
and directions, a walk that starts at the root or in a directory below it; up to 2
changes or failures.  Two changes allow a subvolume to be moved and its name to be taken
by another one, or a failed call and a change.  `OnceAndAll`,
`InOrder`, `ItemIsWhatItSays` speak of subvolumes nobody touched, for the iterator and for the
walk with `get_rootref`; `ErrorsHaveCauses` lists what an error of either may come from;
`LeftIsReported`, `QuietDestroysAll`, `DestroysOnlyBelow` are about `destroy_all`, here
called from the directory that holds the subvolume (see `destroy_all_cwd`).  Two changes allow one
to be moved out of the subvolume between the opening of its parent and the ioctl, or the subvolume
to be moved and another put under its name.  Then `destroy_all` does destroy what is not below the
subvolume; `DestroysOnlyBelow` says that it is always one that others moved or created
since the call began, never one that has been in its place outside the subvolume all the time.
`LeftIsReported` speaks of a subvolume that has not been moved itself, for else the paths
that were reported lead elsewhere.

**search** (`MCSearchClients`): keys of 4 objectids, 3 types and 5 offsets, the greatest
offset in use; batches of one to three items; up to 2 changes.  `NothingSkipped` and
`Ascending` for walks that stop anywhere in a batch; `DefaultFound`.  `PathIsRight` compares the bytes
returned with the names from the root down, separators between them: the buffer has
three bytes at first, one name fills it to the last byte, so that the separator makes it
grow, and another needs two doublings at once.  `PathIsRight` says what the code does,
not what one would like: when an ancestor has a larger id than the subvolume, `NotFound` is
right (below).  `SearchEnds`: a search ends, but for a walk whose queries have found nothing: its drop takes a
key from memory never written, and if that has the largest type `next_type`
never returns (`LostInUnwritten`, below).

**answers** (`MCAnswers`), four readers:

* devices: four sets of devices with and without gaps, up to 3 changes.  `AllYielded`: at
  the end without an error every device that stayed has been returned, and as long as nothing
  changes `size_hint` is right.  `Ends`, if the device with the largest id stays.
* spaces: one or two out of 13 kinds, every RAID profile and every type among them, and one
  change or failure.  `SpacesAreReal`: a record that the kernel did not
  write is returned only if spaces went away between the two ioctls; a record has the
  type and the profile it was stored with; a profile's copies, parity and
  number of devices explain the failures it tolerates; the buffer is freed.
* walks over trees with one item of every type with a view, in groups, with names and data
  behind them, in the fixed buffer of 3992 bytes and in one of 600; and over items of odd
  sizes (a root item of an old kernel, an inline extent, 5000 bytes of
  checksums) in buffers of 90, 300 and 8000 bytes and the fixed one, which hold nothing, one
  item, a few, or all; with a limit of 1 and of 64.  `ReadsAreRight`: every accessor of every
  view of every item handed out reads just the bytes of its field, and the name is the
  name.  `ImplementsSearch`: each step is one of `TreeSearch`, so that what holds of its cursor
  holds of the buffer.
* `get_info_by_id` for six ids: the top level, subvolumes with and without a back
  reference, one with an old root item, one that does not exist.  `InfoIsComplete`: on
  success every field is this subvolume's, but for three cases in which it is memory
  never written (below).

**parsers** (`Tlv.cfg`): every command and one unknown key, both versions, the attributes in
ascending and in descending order, strings and data of 0 or 2 cells, with and without the optional
attributes and one no command has; each payload whole, cut at every cell, or with
one value a cell too long.  `ParsedIsSent`: a whole payload gives the method exactly what
was sent.  `NothingMisread`: no damaged payload gives it anything else, but for data of version 2 that
was cut.
Parsers look at one attribute at a time, and what they find depends on the order and the
lengths only, so that two orders and two lengths show what more would.

### Fairness

The buffered receive assumes weak fairness of each thread: the operating system
runs it, a read of the source and a call of the handler come back.  The rings are lock-free,
so a thread that polls is always enabled and needs no more.  `SendPipe` assumes the same of caller, ioctl, receiver and its handler thread: each takes
a step while it can, but the ioctl is not obliged to fail (`IoctlFail` is not fair).  `DirectReceive`, `Tlv`,
`Spaces`, `SearchBuffer` and `SubvolInfo` are sequential and only safety is asked of
them.  `DestroyAll`, `SearchClients` and the devices of `Answers` have
one fair process, the caller, who asks for the next item until there is none; other processes are not fair, and the bound on
changes is the only restriction on them.  Without that bound none of the loops ends: a subvolume
created below the walk for every one returned keeps it busy.

### Runs that are violated

Each shows a difference between the code and what it says of itself.

| run | property | the difference |
|---|---|---|
| buffered_end_lost | `EveryCommandHandled` | the handler thread stops with END still in the ring and the call returns `Ok` (`read_stream.rs:183`) |
| send_hang | `Returns` | `join` waits for ever when the ioctl fails before END (`send.rs:226`) |
| replay_symlink | `FullyReplayed` | the subvolume's name is put in front of the target of a symlink (`handle_full.rs:357`) |
| destroy_all_cwd | `QuietDestroysAll` | nested subvolumes are destroyed relative to the working directory (`subvol/mod.rs:422`) |

## What is proved

TLAPS proves, of receives and send for every set of streams, every block size, header size and version:

* `DirectReceive_proofs`: `DirectTypeOK`, `DirectStopsAtNone`,
  `DirectPositionWithinBlock`, `DirectImplementsReceive` (refinement with `Lead` 1).
* `BufferedReceive_proofs`, for 2 to 4 buffers and any number of spins: `BufferedInvariant` (`Spec => []IInv`),
  and from it `BufferedTypeOK`, `BufferedPushesFindRoom`, `BufferedReadsIntoABuffer`,
  `BufferedHandledInOrder`, `BufferedOkMeansHandled`, `BufferedStopsAtEnd`,
  `BufferedPositionWithinBlock`, `BufferedImplementsReceive` (`Lead` `NBuf`).
  The lemmas on the reader, that a step of it keeps its types and the relation between the two
  positions, are about variables that both receives have, and stand in both modules.
* `SendPipe_proofs`, for both functions and both receives, every length of a stream, every capacity of
  the pipe, 2 to 4 buffers, with and without END and failures of the ioctl: `SendTypeOK`, `SendDescriptorIsValid`,
  `SendOkMeansReceived`, `SendJoinReportsTheCause`, from `SendInvariant`.
* `Tlv_proofs`, for strings and data of any length, both orders of attributes and a payload
  that is cut anywhere: `ParsedAsSent` and `NeverMisread`, from `TlvInvariant`.
* `Answers_proofs`, for every filesystem:
  `DevicesAllYielded`, from `DevicesInvariant`, for any devices, bound on ids and number of changes;
  `SpacesReal`, from `SpacesInvariant`, for any flags of the spaces, any number of them and of changes;
  `SearchBufferImplementsSearch` (refinement of `TreeSearch`), from
  `SearchBufferInvariant`, for items of any length, buffers of any size, any limit and any content
  of memory never written, whether a walk or `get_info_by_id` searches; and `InfoComplete`, from
  `InfoInvariant`, for every subvolume, items of any length and whatever memory never written holds; and
  `AccessorsRight`, from `HandedInvariant`, for every view and accessor and for every item of any length.
* `SearchClients_proofs`, for every tree, every bound on the parts of a key, every size of
  a batch and any number of changes: `SearchNothingSkipped`, `SearchAscending` and
  `SearchDefaultFound`, from `CursorInvariant`; and `SearchPathIsRight`, from `PathInvariant`, for subvolumes
  at any depth with names of any length, and any size of the buffer.
* `HandleFull_proofs`, for every tree in the destination, every set of paths and any number of
  commands, with failures of calls: `HandlerOnlyInSubvol`, from `HandlerInvariant`, and
  `HandlerOnlyXattratRefused`, from `HandlerReplayInvariant`, both with short writes too; and when no write
  is short, `HandlerReplayed` and `HandlerReceivedIsComplete`.  With short writes these two
  are false (`handle_full.rs:586`, below), so that `~ ShortWrites` is their hypothesis.
  They rest on lemmas of what each system call does to any tree: at a path below a
  top-level name it leaves the rest as it was, and made in two trees that match it leads to
  two that match.
* `DestroyAll_proofs`, for every filesystem, any number of changes and failures, both orders and
  directions and any limit on the children of a listing: `WalkOnceAndAll`, `WalkInOrder`, `WalkItems` and `WalkTypes`
  from `WalkInvariant`, for the iterator and for the walk with `get_rootref`; and `DestroyBelow`, `DestroyReports`, `DestroyQuiet`
  and `WalkErrorsHaveCauses` from `DestroyInvariant`, when `destroy_all` is called in the directory that holds
  the subvolume (`InDir`).  From another one the first three of these are false (`destroy_all_cwd`
  shows it), so that it is their hypothesis; the theorems of the walk do not need it.

The assumptions are the `ASSUME`s of `StreamReader` (`ReaderAssumption`),
`BufferedReceive` (`BufferedAssumption`), `SendPipe` (`SendAssumption`), `DevIter` (`DevicesAssumption`),
`Spaces` (`SpacesAssumption`: a space has at most one profile flag), `SearchBuffer` (`SearchesAssumption`: an
item has a key in bounds and lengths, no other item has its key, and one with a name has the whole
structure in front of it; the limit is an u32, not zero), `SubvolInfo` (`InfosAssumption`: the bounds of
the search are those that the builder makes; the kernel has one root item of a subvolume, and with it at most one back reference,
both far smaller than the buffer), `TreeSearch` (`SearchAssumption`), `SearchClients` (`ClientsAssumption`, `HashesAssumption`, `PathsAssumption`: `get_path`
asks for one item at a time, and at first a subvolume has at most one back reference), `Volumes` (`VolumesAssumption`, `TreesAssumption`: ids are numbers, and
finitely many; at first each subvolume has a place of its own, in one that is there), `SubvolIter` (`IterAssumption`),
`DestroyAll` (`ClientsAssumption`), `Tlv` (`TlvAssumption`: lengths are numbers, the unknown attribute
and the unknown key are none of the known ones) and
`HandleFull` (`HandlerAssumption`: names are strings, data are sequences of blocks, what is in the
destination is a tree);
TLC evaluates each of them with the values of the runs.  The bound of 4 on `NBuf` is the code's, which clamps
`nbuf` to 2..4.  `HashesAssumption` is what makes `k.2 + 1` right in `get_default`: offsets of
directory items are hashes of 32 bits, so that none is the greatest of 64.

Why `IInv` is needed: that no push finds a full ring is not inductive by itself, because it
says nothing of the other places where a buffer may be.  `Buffers` counts them all: one
with the caller (in its hands or replaced by the error it took), those in the two
rings, one with the handler (at work or lost in a panic), `NBuf` together.  A push
comes from a thread that holds a buffer, so at most `NBuf - 1` are elsewhere.  `InFlight` does the same for
commands: those handled, the one at work, those in the ring and the one to be pushed
are the commands read, in order.  `Failing` says that only the last call can have
failed, and where its error is until the caller takes it.  `ResultMeans` and
`MainControl` tie results to what is known when the calling thread leaves;
`FewUnanswered` is the consequence for `Ok`: a caller that leaves with `Ok` holds a buffer, so
`NBuf - 1` others are all that can be with unanswered commands.

The invariant of `SendPipe` says where each thread is when an end of the pipe is
dropped, since none of its properties mentions all that they depend on.  That the
descriptor is valid needs `Beginning`: the receiver, whose thread owns the `PipeWriter`,
cannot leave before the ioctl has begun, for nothing is in the pipe and its write end
is open.  An `EPIPE` leaves something unsent (`SendMeans`), END is the last of a stream wherever its parts are
(`EndIsLast`), so that a handler with the answer `None` has stopped before END.  What the `Ok` of a buffered receive
says needs its buffers counted (`BuffersCirculate`), as in `IInv`: a reader that reads on, or leaves at
END, holds one of them, so that `NBuf - 1` at most are with commands that have no good answer
(`ReadingMeansHandled`).  `CallerMeans` lists the ways to return.

For the devices, that all are yielded at the end says nothing of the middle of the
loop.  `DevPassed` does: between the last id returned and the one that is tried there is no
device that stayed, so that one removed elsewhere, or added behind, disturbs nothing.
`DevCounts` holds the counters together as long as nothing has changed, which is when an
error or a wrong hint would be one.

For the spaces, the records returned are real because the slots are: `SpaceSlots` says of
each slot that it holds the space of its place in the kernel's list or was never
written, and the latter only if there once were fewer spaces than slots.  That a record tells its type
and its profile is a fact about the tables, shown flag by flag (`TypeIsTold`, `ProfileIsTold`).

For the search to the byte, `Laid` says that an item begins where the one before it ends, and
`SearchCursor` that `curr_offset` is the offset of the first item not handed out and `prev_offset`
that of the last one that was.  Offsets grow, as each item has at least a header, so that at such an
offset there is exactly one item (`HeaderOfItem`): the sum of lengths that the iterator makes is the one by which the
kernel placed the items (`SumsAre`).  A query is one of `TreeSearch` as the
keys of what it copies are a beginning of the range in order (`CopiedIs`), and the drop of the iterator is
since the header it reads is that of the key seen last, or was never written
in either (`PreviousIsLastSeen`).

For the views, `HandedInv` says that a pointer handed out is the offset of an item and that what
is there is the item of the tree, or its header alone.  The rest is about the tables: the structure of a view is
that of its key type (`StructOf`), and each of its accessors reads the field it is for or is one of the few known not to
(`ViewFits`, view by view), so that the two extents are one (`FieldIsRead`), whatever the
sizes of the fields in front are.

For `get_info_by_id`, `InfoFields` says of each field whose it is once the root item, or the back reference, was
taken, and before that it is as it was.  The loop may end with one of the two missing in the structure only if it is
missing in the tree: one query copies both, as they fit in one buffer (`AllCopied`), and the loop ends only
after all items of a query were looked at.  That no field of a complete root item is read from behind it is a
fact about the layout of the structure (`SourceIsWithin`), and that the search finds no item of
another subvolume one about the bounds that the builder makes (`BoundsAre`).

For the searches, `CursorBatch` says that a batch is the beginning of what is in reach:
ascending, and every item of the range that stayed is in it or behind its last one.
Changes after the query do not disturb that.  It needs `InOrder`, the sequence of
a set by its keys, to hold each of them once and in order, which is shown by
counting: the rank of a key among the others is a bijection (`Ranks`, `RanksOnto`).  `CursorCovers`
says that what is below the key was reached, exactly or by another of its group; each `on_drop`
function keeps it because it goes up to the end of a group that was taken (`OnDropMoves`).  `CursorTaken` says
that what was taken is below the key or in the part of the batch handed out.
For `get_path`, `PathInv` says of every way from the root that nobody has touched (`OnWay`) that
the search is at some name of it (`AtName`): it asks for the back reference of the n-th last
subvolume, and behind `pos` are exactly the names below (`Behind`).  The kernel's answer can only be that
back reference, because a subvolume has one, or nothing, when the id is out of range.  `PrependIs` is the step: whatever
room there is, doubling (`ExtendedIs`) leaves the old text at the end and enough in front of it.  A way may become
disturbed later; then it is none of `Ways`, which only shrink.  The library's induction
theorems take an operator, which these provers cannot instantiate; `UpTo` and `Recursion` say the
same of sets and functions, from the well-foundedness of the numbers, and give the values of recursive functions
(`TurnsAre`, `LowestIs`).  That
there is a first one of a set of keys, or a largest device, is
taken from the well-foundedness of the numbers.

That `HandleFull` touches nothing else needs more than that the path of each call begins with
the name of the subvolume, which is `InStream`: both buffers begin with it, and
`current_subvol` has its length.  A write through a name within the subvolume shows outside
when the inode has a name there too; hence `Apart`, which `Link` and `Rename` keep as both of their
paths are within.  At SUBVOL it holds because nothing is where the subvolume will be:
nothing is beneath a path that is no directory (`NothingBeneath`, by taking the
shortest of such paths).  Between the turns of the write loop the path is in
`job` (`InWrite`).

That it replays is a simulation.  The trees of sender and destination number their inodes in
their own ways, so that `Replayed` speaks of names, nodes and hard links, and the invariant has
a `Match` of the two: the same names, alike nodes at them, and two names of one inode here where
there they are of one inode.  A command is the same call in both trees; `Follow` says that the call
is possible at the destination when it was at the sender and that a match comes out again,
and has a lemma for each call.  The paths differ by the name in front (`At`), which
neither `Within` nor `Replaced` notices.  A write is more than one step: between them the sender
is ahead, so that `Writing` says what tree `t` it has come from and that `job` has
all of the data left; one full `pwrite` then gets there.  A symlink's target is left open (`Loose`), as
the code changes it, and so is the content of files when writes may be short: kinds and names still
match, which is why no other call is refused even then.  A finished stream leaves a `Match` with its last tree, which
is kept while another subvolume's stream goes on because that one keeps everything outside itself (`KeptMatch`).

For the walks, that nothing is returned twice and everything once speaks only of what has been returned;
the invariant follows each subvolume that stays from its parent being listed on.
`Once`: it is in one of these places, the list of children to be looked up, the stack, the hand
of the iterator, the items returned, and there once.  `Covered`: it is in one of them when its parent has been
expanded, and in none before; at the end all have been expanded, and what is within reach is shown by taking
a subvolume that was left out with the shortest path (`BelowIsLeast`).  `Fresh` says
that nothing below an entry still to be expanded has been seen, which is why expanding it sees nothing
twice.  `Matched` ties the id, the descriptor, the parent and the path of an entry to one another: the
calls that find them are made at different times, and others rename in between, so that it can
be said only of what stays (`Home`) and, as for paths, of where they lead now.  `ParentFirst`, `ParentLast`
and `InTurn` are the orders, told of each place and each pair of places.  For `get_rootref`, with
calls in the place of entries, `CallsMatch`, `CallsCovered` and `CallsInTurn` say the same.
A step of another process changes none of it: what stays has the parent and the name it had (`TreeOK`: what is in a
disturbed subvolume is disturbed, unless that is the target).  One kind of step is different: others move the
target into a disturbed subvolume, or move one that it is in by now.  The walk may then come
to the target again, from one that was in it, and its items are no longer what it takes them for (`Apart` says
that this has not happened).  But everything in the target is disturbed then, so that nothing is left of
which `Stable` says anything: the invariant of the walk is `Inv`, or `Lost` for the rest of the run, which only
keeps types, places, the state of the caller and that every item has a path.

For `destroy_all` the two calls of `destroy` may have a change between them.  `ParentBelow` is what
limits what it destroys, and holds in both cases (`Near`): the directory that was opened stays below
the target, or is disturbed, and with it all in it, or is gone.  The path that it was opened by begins with the
target's name, and under that name there is the target or one that was put there (`TreeOK`).
`Reported` says that an item that was returned and is still there has a path among those
reported that leads to it, wherever the walk is by now, from the target if that has not moved.  `Quiet` and `Calm` say what a run
without interference is: the walk holds nothing that is not there, and each item has been
destroyed when the next is asked for, so that its parent, which comes after its children, is empty.
`Caused` goes back from an error to a subvolume with too many children, or to one that is
out of reach: `TooMany` keeps it in place, for none of its children is ever seen and destroyed.
TLC checked the parts of these invariants (`DestroyAllInv`) on the instance of the run before they were proved.

Each parser of `Tlv` is a loop over the payload, and `TlvInv` is its invariant: after some
turns the parser stands behind the first `n` attributes in the order of the sender and has found exactly
these (`At`), or it is beyond the end of a cut payload, or in front of the attribute that this library does not
know.  What lies at such a place has to be read off the payload, which is a concatenation over an
order of a set: the order has each attribute once and data last (`ArrangedOnce`, by counting
ranks), and piece `n` of a concatenation begins where those before it end (`ConcatParts`,
`PiecesInPlace`), so that the cells of the next attribute are in front of the parser (`NextCells`) as far as they were
left.  `Outcome` lists what a turn comes to: one attribute more, an error because something was
cut or has a wrong size, the panic in front of a length that was cut, or the call of the method.  That the
parser of version 1 never calls a method with a part is due to the attribute that is missing then
(`SomethingIsMissing`), and that none but data is cut in version 2 to data coming last (`BareLast`).

Every safety property that the passing runs check is a theorem.  Only model-checked is
liveness (`ENABLED` is out of reach of the provers).

## Where the code differs from its docs

Besides the violated runs, modelling showed these.  The model has the behaviour of the
code in each case.

* `read_stream.rs:219`: the calling thread asks `is_abandoned()` after a pop that found
  nothing; the handler may have pushed its error in between.  The
  call then panics ("Handler panicked") although the handler returned an error.
* `read_stream.rs:168`: the buffered receive ignores `Ok(None)`, by which a handler asks to stop
  (`handler/mod.rs:110`).
* The position counts from behind the stream header, "bytes read" (`recieve.rs:12`)
  from before it.
* `handle_full.rs:586`: after a short `pwrite` the rest is written at the same offset.  With
  `ShortWrites = TRUE` TLC finds `Replayed` violated.
* `handle_full.rs:472`: `setxattrat` and `removexattrat` are called without the
  directory, their first argument, so that a kernel that has them refuses the call and the command fails; only the
  fallback for kernels that do not have them works (lines 115-121 and 407-416 have it that both do).
* `send.rs:270`: `blocking_send` joins the receiver while it holds the
  write end; with `omit_end_cmd` and a handler that waits for END both wait for ever.  A
  buffered receive waits even when the handler has failed in the last command (`read_stream.rs:202`: the
  next one is read before the answer is asked for).
* `command.rs:374`, `command.rs:566`: a version 2 write that ends between the type and the length of an attribute is
  a panic, and one whose attribute is longer than the rest is not reported as cut; both are errors in
  `parse_tlv`.  Data that was cut is taken as it is.
* `command.rs:536`: an encoded write in a stream of version 1 is a panic (`unreachable!`), not an error.
* `tree_search/mod.rs:21`: the example that "will find all subvolumes" goes on with `next_objectid`
  and so skips the root refs of an objectid that did not fit in a batch; `next_offset` finds them.
* `tree_search/query.rs:105`: `next_type` of the greatest type calls itself with the
  same key, for ever, instead of going to the next objectid, as line 100 says and
  line 111 of `next_offset`.  No item has that type, but memory never written may look like
  one that has (`mod.rs:190`); the model stops there, in `recursing`.
* `tree_search/mod.rs:190`: the iterator's drop reads a header whether an item was taken or not.  Dropped with
  nothing taken, it moves the key behind the first item of the batch, which is then lost; when
  a query found nothing, it reads what an earlier one left, or memory never written.
  `get_default` may overflow on it (`k.2 + 1`).
* `tree_search/mod.rs:419`: a boxed search that fails with `EOVERFLOW` has its `buf_size`
  overwritten by the kernel with what would be needed.  The memory is later freed as if it had that
  size, and a second query lets the kernel write that much into the old buffer.  The model goes on with
  the buffer that the kernel believes in; no property says that it is the one allocated.
* `tree_search/query.rs:73`: an `on_drop` that returns a `u64` compiles and panics (`todo!`).
* `tree_search/mod.rs:147`: a `u64` compared with a `TreeId` gives the order the wrong way round.
* `tree_search/tree_item.rs:537`: `sub_stripes` of a chunk returns `stripe_len`;
  lines 1216 and 1267: `data_len` of both inode references returns `index`, not the length of the name.
* `tree_search/tree_item.rs:954`: `ExtentInlineRef` is the view of METADATA_ITEM, whose items begin
  with another structure: its accessors read the reference count.
* `tree_search/tree_item.rs:142`: a `Timespec` becomes a `libc::timespec` with seconds and nanoseconds exchanged.
* `tree_search/tree_item.rs:905`: `ExtentDataRef` and `SharedDataRef` have no constructor.  Items
  that hold several records (inode references, directory items with equal hashes) show only the first.
* `subvol/mod.rs:508`: `get_path` searches objectids up to the subvolume's own id and
  reports `NotFound` when one of those above it has a larger one (it was
  moved into a newer one).
* `subvol/mod.rs:191`, `subvol/mod.rs:422`: `destroy` opens the parent by its path and then destroys by name in it
  (`util/subvolume.rs:50`), and `destroy_all` makes the path of an item from names it was given before.  When
  others move the parent out of the subvolume in between, or move the subvolume and put another one under its
  name, what is destroyed is elsewhere, though the doc speaks of "nested subvolumes" (`subvol/mod.rs:194`).
* `subvol/iterator.rs`: a subvolume with more than 255 direct children is an error of
  the iterator and of `get_rootref`, and not listed in parts.
* `subvol/rootref.rs:33`: from a directory that is no subvolume, "subvolumes above `subvol` will not be found".  In fact
  the first one that is not below the directory ends the call with `EACCES`, wherever it is
  in the order of ids; the iterator passes over it (`subvol/iterator.rs:70`).
* `dev/info.rs:179`: when the device with the largest id is removed during the walk,
  `next` tries ids without end; after too many devices every further call is an
  error again.
* `subvol/info.rs:232`: the loop of `get_info_by_id` asks for more only while neither item was found.  It
  returns memory never written for the top level subvolume (every field), and for a subvolume
  without a back reference, such as a deleted one (parent and name); the uuids of a root item of an old kernel are
  read from behind its end.
* `fs/mod.rs:322`: `get_spaces` takes the number of records from a first ioctl and
  uses the result of a second one, which may have fewer: the rest is memory never
  written.  Its buffer is not freed when the second ioctl fails.
* `fs/mod.rs:167`: `boxed_info` returns the structure itself, not one on the heap.
* `fs/block_group.rs`: the kernel's flag REMAPPED is in none of the masks, so that a block group
  with it has no profile (`InvalidInput`).
* `dev/mod.rs:165`: the fallback for kernels without the newer remove ioctl looks at
  `raw_os_error`, which the wrapper has replaced for `ENOTTY`.

## What is not modelled

* Contents: checksums, compression, the characters of names.  Names have lengths where
  these matter (`get_path`, items of a search).
* Memory: buffers that are grown to a length found in a stream.
* One-call operations: create, snapshot, set_default, add, remove, info, lookup and the
  like: one ioctl and its result.  There is no state in them to relate.  `set_readonly` is two,
  but sets the whole word of flags in the second, of which btrfs has one.
* Bits and bytes: the order of bytes (every accessor converts), that a name is
  checked for a NUL byte; the bindings of 32 bit systems, which have the same structures.  Flag sets,
  string types and debug output.
* In `HandleFull`, a command before the first SUBVOL (a sender starts with it),
  and what clone and snapshot of an incremental send would do: both are
  `unimplemented!()` in the code, and panic in the model.
* Three hazards have no property.  `read_stream.rs:219`, `tree_search/mod.rs:419` and
  `handle_full.rs:586` are faults the model has (above); a property would state them as wanted.

## Plan

The modules, runs and theorems planned are all here.  What would come next are the one-call operations
that keep no state, should they get some; and the properties that `read_stream.rs:219`, `tree_search/mod.rs:419` and
`handle_full.rs:586` fail as they are, once these are repaired.

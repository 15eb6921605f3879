---------------------------- MODULE StreamReader ----------------------------
(***************************************************************************)
(* The reading half of a SendStream (send_stream/read_stream.rs): the      *)
(* stream header is read once, then one command at a time.                 *)
(*                                                                         *)
(* A stream is the sequence of commands on the wire.  Only what the        *)
(* reader tells apart is kept of a command: whether it is the END command, *)
(* how many bytes it takes (command header included), and whether it is    *)
(* whole, torn (the source ends inside it) or corrupt (the checksum does   *)
(* not match).  This module has no behaviour of its own: DirectReceive and *)
(* BufferedReceive drive it.                                               *)
(***************************************************************************)
EXTENDS Integers, Sequences

CONSTANTS
    Streams,            \* the streams the source may deliver
    HeaderSize,         \* size_of::<StreamHeader>()
    SupportedVersion,   \* SendStream::SUPPORTED_VERSION
    Block               \* the 4 MiB interval of BLOCK_MASK

Keys   == {"cmd", "end"}
Faults == {"none", "torn", "corrupt"}

Command == [key : Keys, size : Nat \ {0}, fault : Faults]

\* magic says whether the magic bytes match; a header can also be cut short.
Header == [fault : {"none", "torn"}, magic : BOOLEAN, version : Nat]

Stream == [header : Header, cmds : Seq(Command)]

ASSUME ReaderAssumption ==
    /\ Streams \subseteq Stream
    /\ HeaderSize \in Nat
    /\ SupportedVersion \in Nat
    /\ Block \in Nat \ {0}

VARIABLES
    stream,       \* what the source delivers (never changes)
    next,         \* number of commands read_cmd has returned Ok for
    command,      \* self.command: key of the last command read, "none" at first
    stream_pos,   \* self.stream_pos
    position,     \* the shared AtomicU64 behind self.atomic_pos
    taken         \* bytes consumed from the source, a ghost

readerVars == <<stream, next, command, stream_pos, position, taken>>

ReaderTypeOK ==
    /\ stream \in Streams
    /\ next \in 0 .. Len(stream.cmds)
    /\ command \in Keys \cup {"none"}
    /\ stream_pos \in Nat
    /\ position \in Nat
    /\ taken \in Nat

ReaderInit ==
    /\ stream \in Streams
    /\ next = 0
    /\ command = "none"
    /\ stream_pos = 0
    /\ position = 0
    /\ taken = 0

(***************************************************************************)
(* read_header: a short read, other magic bytes or a version this library  *)
(* does not know are errors.                                               *)
(***************************************************************************)
HeaderAccepted ==
    /\ stream.header.fault = "none"
    /\ stream.header.magic
    /\ stream.header.version <= SupportedVersion

read_header ==
    /\ taken' = taken + HeaderSize
    /\ UNCHANGED <<stream, next, command, stream_pos, position>>

(***************************************************************************)
(* read_cmd.  It fails at the end of the source, on a torn command and on  *)
(* a checksum mismatch; a failure leaves command, stream_pos and the       *)
(* shared position alone.  (An operator whose comment starts with "Slip"   *)
(* is the definition after it with a mistake in it, for the mutation runs; *)
(* no specification uses it.)                                              *)
(***************************************************************************)
\* Slip: the checksum is not compared.
Readable_noChecksum(s, i) == i \in 1 .. Len(s.cmds) /\ s.cmds[i].fault # "torn"

Readable(s, i) == i \in 1 .. Len(s.cmds) /\ s.cmds[i].fault = "none"

BlockOf(pos) == pos \div Block

\* Slip: old_pos is stored instead of the new stream_pos.
Published_old(old, new) == IF BlockOf(old) # BlockOf(new) THEN old ELSE position

\* What the shared position is after the read position moved from old to new.
Published(old, new) == IF BlockOf(old) # BlockOf(new) THEN new ELSE position

\* read_cmd returned Ok: the position is published when a block border was
\* crossed, before command is set.
read_cmd_ok ==
    /\ Readable(stream, next + 1)
    /\ LET cmd == stream.cmds[next + 1]
           pos == stream_pos + cmd.size
       IN  /\ stream_pos' = pos
           /\ position' = Published(stream_pos, pos)
           /\ command' = cmd.key
           /\ taken' = taken + cmd.size
    /\ next' = next + 1
    /\ UNCHANGED stream

\* read_cmd returned Err: what was left of the command has been consumed.
read_cmd_err ==
    /\ ~ Readable(stream, next + 1)
    /\ taken' = IF next + 1 \in 1 .. Len(stream.cmds)
                THEN taken + stream.cmds[next + 1].size ELSE taken
    /\ UNCHANGED <<stream, next, command, stream_pos, position>>

\* The store after the loop of read_and_handle(_buffered).
publish_position ==
    /\ position' = stream_pos
    /\ UNCHANGED <<stream, next, command, stream_pos, taken>>

=============================================================================

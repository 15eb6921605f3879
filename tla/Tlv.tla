-------------------------------- MODULE Tlv --------------------------------
(***************************************************************************)
(* From the bytes of a command to the method of the handler:               *)
(* StreamHandler::handle_cmd (send_stream/handler/mod.rs) and the parsers  *)
(* of attributes (send_stream/handler/command.rs).  One step is one turn   *)
(* of a parser's loop.                                                     *)
(*                                                                         *)
(* A payload is a sequence of cells.  The type and the length of an        *)
(* attribute are a cell each, whatever their width: a part of a number is  *)
(* as good as none of it to the parsers.  Values are as long as Width says.*)
(*                                                                         *)
(* The sender is external: it sends each attribute of a command once.  The *)
(* payload may have been cut short, or an attribute be of another size.    *)
(***************************************************************************)
EXTENDS Integers, Sequences, FiniteSets, SequencesExt

CONSTANTS
    Lengths,    \* of strings and data
    Unknown,    \* an attribute no command has
    Unexpected  \* the key of no command

\* The attributes and their types on the wire.
Attr ==
    [uuid |-> 1, ctransid |-> 2, ino |-> 3, size |-> 4, mode |-> 5, uid |-> 6, gid |-> 7,
     rdev |-> 8, ctime |-> 9, mtime |-> 10, atime |-> 11, xattr_name |-> 13, xattr_data |-> 14,
     path |-> 15, path_to |-> 16, path_link |-> 17, file_offset |-> 18, data |-> 19,
     clone_uuid |-> 20, clone_ctransid |-> 21, clone_path |-> 22, clone_offset |-> 23,
     clone_len |-> 24, fallocate_mode |-> 25, fileattr |-> 26, unencoded_file_len |-> 27,
     unencoded_len |-> 28, unencoded_offset |-> 29, compression |-> 30, encryption |-> 31]

ASSUME TlvAssumption ==
    /\ Lengths \subseteq Nat
    /\ Unknown \in Nat /\ \A a \in DOMAIN Attr : Attr[a] # Unknown
    /\ Unexpected \in Nat \ (1 .. 25)

\* The attributes of the commands by their keys.
NamingCommands(k) ==
    CASE k = 1  -> {"path", "ctransid", "uuid"}                                   \* subvol
      [] k = 2  -> {"path", "uuid", "ctransid", "clone_uuid", "clone_ctransid"}   \* snapshot
      [] k = 3  -> {"path", "ino"}                                                \* mkfile
      [] k = 4  -> {"path", "ino"}                                                \* mkdir
      [] k = 5  -> {"path", "mode", "rdev"}                                       \* mknod
      [] k = 6  -> {"path", "ino"}                                                \* mkfifo
      [] k = 7  -> {"path", "ino"}                                                \* mksock
      [] k = 8  -> {"path", "ino", "path_link"}                                   \* symlink
      [] k = 9  -> {"path", "path_to"}                                            \* rename
      [] k = 10 -> {"path", "path_link"}                                          \* link
      [] k = 11 -> {"path"}                                                       \* unlink
      [] k = 12 -> {"path"}                                                       \* rmdir

write         == 15
encoded_write == 25

DataCommands(k) ==
    CASE k = 13    -> {"path", "xattr_name", "xattr_data"}                        \* set_xattr
      [] k = 14    -> {"path", "xattr_name"}                                      \* remove_xattr
      [] k = write -> {"path", "file_offset", "data"}
      [] k = 16    -> {"path", "file_offset", "clone_len", "clone_uuid", "clone_ctransid",
                       "clone_path", "clone_offset"}                              \* clone

AttributeCommands(k) ==
    CASE k = 17 -> {"path", "size"}                                               \* truncate
      [] k = 18 -> {"path", "mode"}                                               \* chmod
      [] k = 19 -> {"path", "uid", "gid"}                                         \* chown
      [] k = 20 -> {"path", "atime", "mtime", "ctime"}                            \* utimes
      [] k = 21 -> {}                                                             \* end
      [] k = 22 -> {"path", "file_offset", "size"}                                \* update_extent
      [] k = 23 -> {"path", "fallocate_mode", "file_offset", "size"}              \* fallocate
      [] k = 24 -> {"path", "fileattr"}                                           \* fileattr

EncodedWrite ==
    {"path", "file_offset", "unencoded_file_len", "unencoded_len", "unencoded_offset",
     "compression", "encryption", "data"}

Commands == 1 .. 25

AttributesOf(k) ==
    CASE k \in 1 .. 12      -> NamingCommands(k)
      [] k \in 13 .. 16     -> DataCommands(k)
      [] k \in 17 .. 24     -> AttributeCommands(k)
      [] k = encoded_write  -> EncodedWrite
      [] k \notin Commands  -> {}

Optional == {"compression", "encryption"}

Strings == {"path", "path_to", "path_link", "xattr_name", "clone_path", "xattr_data", "data"}

\* Cells of a value, in the order of the sizes in bytes: 4, 8, 12, 16.
Width(a) ==
    CASE a \in {"fallocate_mode", "compression", "encryption"} -> 1
      [] a \in {"atime", "mtime", "ctime"}                     -> 3
      [] a \in {"uuid", "clone_uuid"}                          -> 4
      [] OTHER                                                 -> 2

VARIABLES
    key, version,   \* arguments of handle_cmd
    sent,           \* the values of the attributes the sender put into data
    size, cut,      \* the cells of data before it was cut, and of what is left
    data,           \* argument of handle_cmd, the payload
    start,          \* where the parser is
    found,          \* the attributes that are Some
    pc              \* dispatch, parse_tlv, parse_tlv_v2; then the method is called
                    \* (call), or there is an error or a panic

vars == <<key, version, sent, size, cut, data, start, found, pc>>

-----------------------------------------------------------------------------
(* The sender. *)

Value(a, n) == [i \in 1 .. n |-> Attr[a]]

\* What has no length: in version 2 the data of a write, which comes last.
Bare(k, ver) == IF k = encoded_write \/ (k = write /\ ver = 2) THEN {"data"} ELSE {}

Encoded(a, v, bare) == IF a \in bare THEN <<Attr[a]>> \o v ELSE <<Attr[a], Len(v)>> \o v

\* In ascending or descending order of the types, data last.
Before(a, b, up) ==
    IF "data" \in {a, b} THEN a # "data" /\ b = "data"
    ELSE IF up THEN Attr[a] < Attr[b] ELSE Attr[b] < Attr[a]

Arranged(attrs, up) ==
    [i \in 1 .. Cardinality(attrs) |->
        CHOOSE a \in attrs : Cardinality({b \in attrs : Before(b, a, up)}) = i - 1]

Pieces(values, bare, up) ==
    LET order == Arranged(DOMAIN values, up)
    IN  [i \in 1 .. Len(order) |-> Encoded(order[i], values[order[i]], bare)]

Payload(k, ver, values, up, extra) == extra \o FlattenSeq(Pieces(values, Bare(k, ver), up))

\* An attribute this library does not know, in front of the others or not at all.
Extras == {<<>>, <<Unknown, 1, 0>>}

\* The attributes of a command, the optional ones or not; all of the size they
\* should have, or one of them, short, not.
Values(attrs, n, short) ==
    [a \in attrs |-> Value(a, IF a \in Strings THEN n
                           ELSE IF a = short THEN Width(a) + 1 ELSE Width(a))]

Init ==
    /\ key \in Commands \cup {Unexpected} /\ version \in 1 .. 2
    /\ \E n \in Lengths, opt \in {{}, Optional}, up \in BOOLEAN, extra \in Extras :
       \E short \in (AttributesOf(key) \ Strings) \cup {"none"} :
        /\ sent = Values(AttributesOf(key) \ opt, n, short)
        /\ LET whole == Payload(key, version, sent, up, extra)
           IN  /\ size = Len(whole)
               /\ cut \in IF short = "none" THEN 0 .. size ELSE {size}
               /\ data = SubSeq(whole, 1, cut)
    /\ start = 0 /\ found = <<>>
    /\ pc = "dispatch"

-----------------------------------------------------------------------------
ParsersFor(k, ver) ==
    CASE k \notin Commands                        -> "error"
      [] k \in {write, encoded_write} /\ ver = 2  -> "parse_tlv_v2"
      [] k = encoded_write /\ ver # 2              -> "panic"
      [] k \in Commands /\ AttributesOf(k) = {}   -> "call"
      [] OTHER                                     -> "parse_tlv"

\* The match on the key.  EncodedWriteCmd::parse_tlv is unreachable!().
handle_cmd ==
    /\ pc = "dispatch"
    /\ pc' = ParsersFor(key, version)
    /\ UNCHANGED <<key, version, sent, size, cut, data, start, found>>

\* Slip: the optional attributes are asked for as well.
Needed_all == AttributesOf(key)

Needed == AttributesOf(key) \ Optional

\* The end of a parser: the struct, if nothing is missing.
Missing(attrs) == Needed \ DOMAIN attrs # {}

finish(attrs) ==
    /\ found' = attrs
    /\ pc' = IF Missing(attrs) THEN "error" ELSE "call"
    /\ UNCHANGED start

Fits(a, v) == a \in Strings \/ Len(v) = Width(a)

\* The attributes with those in attrs set to Some(v).
Some(attrs, v) == [a \in attrs \cup DOMAIN found |-> IF a \in attrs THEN v ELSE found[a]]

\* One attribute of the type ty: its value is kept if the command has it.
keep(ty, v, after) ==
    LET known == {a \in AttributesOf(key) : Attr[a] = ty} IN
    /\ start' = after
    /\ found' = Some({a \in known : Fits(a, v)}, v)
    /\ pc' = IF \E a \in known : ~ Fits(a, v) THEN "error" ELSE pc

\* The cells from i to j, both counted from zero, j not included.
Cells(i, j) == SubSeq(data, i + 1, j)

\* Slip: what is there of an attribute is taken for all of it.
parse_tlv_clamped ==
    /\ pc = "parse_tlv"
    /\ LET end == start + 2 IN
       IF end > Len(data) THEN finish(found)
       ELSE LET ty == data[start + 1]
                len == data[start + 2]
            IN  keep(ty, IF end + len <= Len(data) THEN Cells(end, end + len)
                         ELSE Cells(end, Len(data)), end + len)
    /\ UNCHANGED <<key, version, sent, size, cut, data>>

parse_tlv ==
    /\ pc = "parse_tlv"
    /\ LET end == start + 2 IN
       IF end > Len(data) THEN finish(found)
       ELSE LET ty == data[start + 1]
                len == data[start + 2]
            IN  IF end + len <= Len(data)
                THEN keep(ty, Cells(end, end + len), end + len)
                ELSE pc' = "error" /\ UNCHANGED <<start, found>>
    /\ UNCHANGED <<key, version, sent, size, cut, data>>

parse_v2 ==
    /\ pc = "parse_tlv_v2"
    /\ LET end == start + 1 IN
       IF end > Len(data) THEN finish(found)
       ELSE IF data[end] = Attr.data
       THEN finish(Some({"data"}, Cells(end, Len(data))))
       ELSE IF end + 1 > Len(data) THEN pc' = "panic" /\ UNCHANGED <<start, found>>
       ELSE LET after == end + 1 + data[end + 1]
            IN  IF after <= Len(data)
                THEN keep(data[end], Cells(end + 1, after), after)
                ELSE start' = after /\ UNCHANGED <<found, pc>>
    /\ UNCHANGED <<key, version, sent, size, cut, data>>

WriteCmd_parse_tlv_v2        == key = write /\ parse_v2
EncodedWriteCmd_parse_tlv_v2 == key = encoded_write /\ parse_v2

Next ==
    handle_cmd \/ parse_tlv \/ WriteCmd_parse_tlv_v2 \/ EncodedWriteCmd_parse_tlv_v2

Spec == Init /\ [][Next]_vars

-----------------------------------------------------------------------------
Ended == pc \in {"call", "error", "panic"}

\* The sender can send this: an encoded write is of version 2, sizes are right.
Sendable ==
    /\ key \in Commands /\ (key = encoded_write => version = 2)
    /\ \A a \in DOMAIN sent : Fits(a, sent[a])

\* A whole payload reaches its method with the attributes the sender gave it, in
\* whatever order they come and whatever else is among them.
ParsedIsSent ==
    Ended /\ cut = size /\ Sendable => pc = "call" /\ found = sent

\* A method is called with no other values than those sent: of a payload that was
\* cut, or has an attribute of a wrong size, nothing is taken for something else.
\* What was cut is refused, but for the data of a version 2 write, whose end
\* nothing tells; and the parsers panic only between the type and the length of
\* an attribute of such a write.
NothingMisread ==
    /\ pc = "call" =>
        /\ key \in Commands
        /\ Needed \subseteq DOMAIN found /\ DOMAIN found \subseteq DOMAIN sent
        /\ \A a \in DOMAIN found :
            /\ Fits(a, found[a])
            /\ \/ found[a] = sent[a]
               \/ a \in Bare(key, version) /\ IsPrefix(found[a], sent[a])
    /\ cut < size /\ AttributesOf(key) # {} =>
        /\ pc = "call" => Bare(key, version) \cap DOMAIN found # {}
        /\ pc = "panic" /\ version = 2 => Bare(key, version) # {} /\ start + 1 = cut
=============================================================================

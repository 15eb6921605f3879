----------------------------- MODULE MCAnswers -----------------------------
EXTENDS Answers

Space(types, profiles, reserved) == [types |-> types, profiles |-> profiles, reserved |-> reserved]

SomeSpaces ==
    {Space({"DATA"}, {p}, {}) : p \in BTRFS_BLOCK_GROUP_PROFILE_MASK}
    \cup {Space({"SYSTEM"}, {}, {}), Space({"METADATA"}, {"DUP"}, {}), Space({}, {}, {"GLOBAL_RSV"}),
          Space({"DATA", "METADATA"}, {}, {}), Space({"METADATA_REMAP"}, {}, {})}

-----------------------------------------------------------------------------
Stored_(objectid, type, offset, len, has, name_len) ==
    [key |-> <<objectid, type, offset>>, len |-> len, has |-> has, name_len |-> name_len]

\* One item of each type, with a name of three bytes if it has one and two bytes
\* of data behind it.
OneOf(v) ==
    LET size == IF v.key = 169 THEN 33 ELSE SizeOf(v.struct)
    IN  Stored_(1, v.key, 0, size + (IF v.named THEN 3 ELSE 0) + 2, size, IF v.named THEN 3 ELSE 0)

\* A few types at a time.
Groups ==
    {{OneOf(v) : v \in {w \in Views : w.key \in g}} :
     g \in {0 .. 60, 61 .. 128, 129 .. 169, 170 .. 216, 217 .. 246, 247 .. 255}}

\* A root item of an old kernel, an inline extent, a page of checksums.
Odd ==
    {Stored_(1, 108, 0, 25, 21, 0), Stored_(1, 108, MaxOffset, 53, 53, 0),
     Stored_(1, 128, 0, 5000, 5000, 0), Stored_(1, 132, 0, 239, 239, 0), Stored_(2, 132, 1, 439, 439, 0)}

Walks ==
    {[client |-> "walk", items |-> w[1], min |-> <<1, 0, 0>>, max |-> <<1, MaxType, MaxOffset>>,
      limit |-> w[2], buf_size |-> w[3], treeid |-> 0] :
     w \in (Groups \X {64} \X {0, 600}) \cup ({Odd} \X {1, 64} \X {0, 90, 300, 8000})
           \cup ({{}} \X {64} \X {0, 90})}

\* Subvolumes 6, 7 and 8: the last is being cleaned; 4 is an old one.
Roots ==
    {Stored_(n, 132, 0, 439, 439, 0) : n \in 5 .. 8} \cup {Stored_(4, 132, 0, 239, 239, 0)}
    \cup {Stored_(n, 144, 5, 20, 18, 2) : n \in {4, 6, 7}} \cup {Stored_(5, 156, 6, 20, 18, 2)}

Infos ==
    {[client |-> "get_info_by_id", items |-> Roots, min |-> InfoBounds(t).min,
      max |-> InfoBounds(t).max, limit |-> 64, buf_size |-> 0, treeid |-> t] : t \in 3 .. 8}

AllSearches == Walks \cup Infos

\* For the last one next_offset does not return.
SomeGarbage == {<<0, 0, 0>>, <<1, 132, 1>>, <<1, MaxType, MaxOffset>>}
=============================================================================

------------------------------ MODULE MCStreams ------------------------------
(***************************************************************************)
(* The streams TLC tries: every sequence of at most MaxLen commands of the *)
(* sizes in Sizes, only the last of which may be torn or corrupt (nothing  *)
(* behind it is ever read), plus the headers read_header refuses.          *)
(***************************************************************************)
EXTENDS Integers, Sequences

CONSTANTS MaxLen, Sizes

Cmd(faults) == [key : {"cmd", "end"}, size : Sizes, fault : faults]

UpTo(n, S) == UNION {[1 .. k -> S] : k \in 0 .. n}

GoodHeader == [fault |-> "none", magic |-> TRUE, version |-> 2]

BadHeaders == { [GoodHeader EXCEPT !.fault = "torn"],
                [GoodHeader EXCEPT !.magic = FALSE],
                [GoodHeader EXCEPT !.version = 3] }

MCStreamSet ==
    {[header |-> GoodHeader, cmds |-> c] : c \in UpTo(MaxLen, Cmd({"none"}))}
    \cup {[header |-> GoodHeader, cmds |-> Append(c, l)] :
             c \in UpTo(MaxLen - 1, Cmd({"none"})), l \in Cmd({"torn", "corrupt"})}
    \cup {[header |-> h, cmds |-> <<[key |-> "end", size |-> s, fault |-> "none"]>>] :
             h \in BadHeaders, s \in Sizes}
=============================================================================

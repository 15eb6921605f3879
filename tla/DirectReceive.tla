---------------------------- MODULE DirectReceive ----------------------------
(***************************************************************************)
(* SendStream::read_and_handle: one thread reads a command into the only   *)
(* buffer, hands it to the handler, and reads the next one, until the      *)
(* handler answers Ok(None) or something fails.                            *)
(***************************************************************************)
EXTENDS StreamReader

VARIABLES
    pc,        \* header -> read -> handle -> read ... -> store -> done
    handled,   \* history of handle_cmd calls: [cmd, reply]
    outcome    \* the io::Result returned, or "panic"

vars == <<readerVars, pc, handled, outcome>>

Replies  == {"some", "none", "err", "panic"}
Call     == [cmd : Nat, reply : Replies]
Outcomes == {"none", "ok", "read_err", "handler_err", "panic"}

Init ==
    /\ ReaderInit
    /\ pc = "header"
    /\ handled = <<>>
    /\ outcome = "none"

return(o) == pc' = "done" /\ outcome' = o

\* self.read_header()?
ReadHeader ==
    /\ pc = "header"
    /\ read_header
    /\ IF HeaderAccepted THEN pc' = "read" /\ UNCHANGED outcome
                         ELSE return("read_err")
    /\ UNCHANGED handled

\* self.read_cmd()?
ReadCmd ==
    /\ pc = "read"
    /\ \/ read_cmd_ok  /\ pc' = "handle" /\ UNCHANGED outcome
       \/ read_cmd_err /\ return("read_err")
    /\ UNCHANGED handled

\* Slip: the Option inside the Ok is not looked at.
After_noneIgnored(r) == IF r \in {"some", "none"} THEN "read" ELSE "fail"

\* handler.handle_cmd(..): Some continues the loop, None breaks out of it.
After(r) ==
    CASE r = "some" -> "read"
      [] r = "none" -> "store"
      [] OTHER      -> "fail"

HandleCmd ==
    /\ pc = "handle"
    /\ \E r \in Replies :
          /\ handled' = Append(handled, [cmd |-> next, reply |-> r])
          /\ pc' = After(r)
    /\ UNCHANGED <<readerVars, outcome>>

\* The ? after handle_cmd, or the unwinding when the handler panicked.
Propagate ==
    /\ pc = "fail"
    /\ return(IF handled[Len(handled)].reply = "err" THEN "handler_err" ELSE "panic")
    /\ UNCHANGED <<readerVars, handled>>

\* The final store of the position, then Ok(()).
StorePosition ==
    /\ pc = "store"
    /\ publish_position
    /\ return("ok")
    /\ UNCHANGED handled

Terminated == pc = "done" /\ UNCHANGED vars

Next == ReadHeader \/ ReadCmd \/ HandleCmd \/ Propagate \/ StorePosition \/ Terminated

Spec == Init /\ [][Next]_vars

-----------------------------------------------------------------------------
TypeOK ==
    /\ ReaderTypeOK
    /\ pc \in {"header", "read", "handle", "fail", "store", "done"}
    /\ handled \in Seq(Call)
    /\ outcome \in Outcomes

\* receive_stream's promise, with a reader that is never ahead.
Promise == INSTANCE Receive WITH Lead <- 1, consumed <- next

\* read_and_handle keeps the promise of receive_stream: commands reach the
\* handler in stream order, none after a failure, each error is reported as
\* what it is, and Ok means that every command read was handled.
ImplementsReceive == Promise!Spec

\* The handler is asked to continue exactly until it answers None
\* (StreamHandler: "until a trait method returns Ok(None)"): an Ok result has
\* None as its last reply and no earlier reply is None, whatever the keys of
\* the commands; in particular an END the handler does not stop at is passed.
StopsAtNone ==
    /\ outcome = "ok" => handled # <<>> /\ handled[Len(handled)].reply = "none"
    /\ \A i \in 1 .. Len(handled) - 1 : handled[i].reply = "some"

\* The published position never runs ahead of the commands read, lags by
\* less than one block, and is exact once Ok is returned (the doc of
\* receive_stream: updated on 4MiB intervals).
PositionWithinBlock ==
    /\ position <= stream_pos
    /\ BlockOf(position) = BlockOf(stream_pos)
    /\ outcome = "ok" => position = stream_pos
=============================================================================

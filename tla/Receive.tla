------------------------------- MODULE Receive -------------------------------
(***************************************************************************)
(* What receive_stream (send_stream/recieve.rs) promises its caller,       *)
(* whichever of its two implementations runs.  Commands are consumed from  *)
(* the source, handed to the StreamHandler in stream order, and a verdict  *)
(* is returned.                                                            *)
(*                                                                         *)
(* Lead bounds how far the reader may be ahead of the handler: 1 without   *)
(* buffering, the number of buffers with it.  It also bounds how much an   *)
(* Ok leaves open: of the commands consumed, at most Lead - 1, the last    *)
(* ones, have no successful reply.                                         *)
(***************************************************************************)
EXTENDS Integers, Sequences

CONSTANTS
    Streams,            \* the streams the source may deliver
    SupportedVersion,   \* SendStream::SUPPORTED_VERSION
    Lead

VARIABLES
    stream,     \* what the source delivers
    consumed,   \* number of commands read
    handled,    \* the handler calls so far: which command, which reply
    outcome     \* what receive_stream returned, "none" while it runs

vars == <<stream, consumed, handled, outcome>>

\* handle_cmd returns Ok(Some), Ok(None), Err, or does not return.
Replies  == {"some", "none", "err", "panic"}
Failures == {"err", "panic"}

Failed(calls) == calls # <<>> /\ calls[Len(calls)].reply \in Failures
Acked(calls)  == IF Failed(calls) THEN Len(calls) - 1 ELSE Len(calls)

Accepted ==
    /\ stream.header.fault = "none"
    /\ stream.header.magic
    /\ stream.header.version <= SupportedVersion

NextReadable ==
    /\ consumed < Len(stream.cmds)
    /\ stream.cmds[consumed + 1].fault = "none"

Init ==
    /\ stream \in Streams
    /\ consumed = 0
    /\ handled = <<>>
    /\ outcome = "none"

\* Read one command, not more than Lead ahead of the handler.
Consume ==
    /\ outcome = "none"
    /\ Accepted /\ NextReadable
    /\ consumed - Len(handled) < Lead
    /\ consumed' = consumed + 1
    /\ UNCHANGED <<stream, handled, outcome>>

\* Hand the oldest command not handled yet to the handler; none follows a
\* failure.
Hand ==
    /\ outcome = "none"
    /\ ~ Failed(handled)
    /\ Len(handled) < consumed
    /\ \E r \in Replies :
          handled' = Append(handled, [cmd |-> Len(handled) + 1, reply |-> r])
    /\ UNCHANGED <<stream, consumed, outcome>>

\* Return: Ok only if all but the last Lead - 1 commands were handled well,
\* the source's error only if the source failed, and a handler's error or a
\* panic only if the handler failed.
Return ==
    /\ outcome = "none"
    /\ \/ /\ outcome' = "ok"
          /\ consumed > 0
          /\ consumed - Acked(handled) < Lead
       \/ /\ outcome' = "read_err"
          /\ ~ (Accepted /\ NextReadable)
       \/ /\ outcome' = "handler_err"
          /\ Failed(handled)
          /\ handled[Len(handled)].reply = "err"
       \/ /\ outcome' = "panic"
          /\ Failed(handled)
    /\ UNCHANGED <<stream, consumed, handled>>

Next == Consume \/ Hand \/ Return

Spec == Init /\ [][Next]_vars
=============================================================================

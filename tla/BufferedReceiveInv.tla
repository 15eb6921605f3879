-------------------------- MODULE BufferedReceiveInv --------------------------
(***************************************************************************)
(* The inductive invariant of BufferedReceive: why its pushes always find  *)
(* room, and what is known of the handler when the calling thread leaves.  *)
(***************************************************************************)
EXTENDS BufferedReceive

Born == hpc # "unborn"
Over == hpc \in {"exit", "gone"}
Busy == hpc \in {"handle", "give", "fail"}

Last       == handled[Len(handled)]
HandlerErr == handled # <<>> /\ Last.reply = "err"
Failed     == HandlerErr \/ Panicked

\* How many buffers the calling thread and the handler thread hold (an error
\* stands for the buffer it replaced, and a panic loses one), how many commands
\* they are at work on, and how many calls failed: each is 0 or 1.
MainHolds    == IF hasBuf \/ result = "handler_err" THEN 1 ELSE 0
HandlerHolds == IF Busy \/ Panicked THEN 1 ELSE 0
Unsent       == IF pc = "push" THEN 1 ELSE 0
Working      == IF hpc = "handle" THEN 1 ELSE 0
Unanswered   == IF Failed THEN 1 ELSE 0

\* The calling thread's control state, result and flags go together.
MainControl ==
    /\ pc \in {"header", "prime"} => ~ Born
    /\ pc \notin {"header", "prime", "done"} => Born
    /\ ~ Born => /\ data = <<>> /\ free = <<>> /\ handled = <<>> /\ next = 0
                 /\ hasBuf /\ result = "none" /\ ~ abandoned
    /\ (~ Born /\ pc = "done") => outcome = "read_err" /\ ~ HeaderAccepted
    /\ (Born \/ pc = "prime") => HeaderAccepted
    /\ pc \in {"loop", "push"} => hasBuf
    /\ pc \in {"wait", "suspect"} => ~ hasBuf
    /\ pc \in {"loop", "push", "wait", "suspect"} => result = "none"
    /\ pc \in {"leave", "join"} => result # "none"
    /\ Born => (abandoned <=> pc \in {"join", "done"})
    /\ pc # "done" => outcome = "none"
    /\ (Born /\ pc = "done") =>
          /\ hpc = "gone"
          /\ result # "none"
          /\ outcome = IF Panicked THEN "panic" ELSE result

\* What the calling thread's result says of the rest.
ResultMeans ==
    /\ result = "ok" => hasBuf /\ command = "end"
    /\ result = "read_err" => ~ Readable(stream, next + 1)
    /\ result = "handler_err" => HandlerErr /\ Over /\ ~ hasBuf
    /\ result = "panic" => Failed /\ Over

\* The NBuf buffers, each in one place: with the calling thread, in a ring, or
\* with the handler thread.
Buffers ==
    Born => MainHolds + Len(data) + Len(free) + HandlerHolds = NBuf

\* The commands read, each in one place and in stream order.
InFlight ==
    /\ Len(handled) + Working + Len(data) + Unsent = next
    /\ hpc = "handle" => held = Len(handled) + 1
    /\ \A i \in 1 .. Len(data) : data[i] = Len(handled) + Working + i
    /\ \A i \in 1 .. Len(handled) : handled[i].cmd = i

\* Only the last call of the handler can have failed, and then the thread is
\* on its way out, its error in r_free until the calling thread takes it.
Failing ==
    /\ \A i \in 1 .. Len(handled) - 1 : handled[i].reply \in {"some", "none"}
    /\ HandlerErr => hpc = "fail" \/ Over
    /\ Panicked => Over
    /\ hpc = "fail" => HandlerErr
    /\ (Over /\ ~ abandoned) => Failed
    /\ \A i \in 1 .. Len(free) :
          free[i] = "err" => i = Len(free) /\ HandlerErr /\ Over
    /\ (HandlerErr /\ Over /\ result # "handler_err") =>
          free # <<>> /\ free[Len(free)] = "err"

\* Of the commands read, those the handler has not answered well when the
\* calling thread leaves with Ok.
FewUnanswered ==
    result = "ok" => next - (Len(handled) - Unanswered) <= NBuf - 1

\* command is the key of the last command read, and the only END is there.
ReadUpToEnd ==
    /\ command = IF next = 0 THEN "none" ELSE stream.cmds[next].key
    /\ \A i \in 1 .. next - 1 : stream.cmds[i].key # "end"
    /\ \A i \in 1 .. next : stream.cmds[i].fault = "none"

IInv ==
    /\ TypeOK
    /\ MainControl
    /\ ResultMeans
    /\ Buffers
    /\ InFlight
    /\ Failing
    /\ FewUnanswered
    /\ ReadUpToEnd
=============================================================================

--------------------------- MODULE BufferedReceive ---------------------------
(***************************************************************************)
(* SendStream::read_and_handle_buffered: the calling thread reads          *)
(* commands, a scoped thread hands them to the StreamHandler.  Two rtrb    *)
(* rings of NBuf slots join them: s_data/r_data carries commands to the    *)
(* handler, s_free/r_free carries buffers, or the handler's error, back.   *)
(* A ring end that is dropped leaves the other end "abandoned".            *)
(*                                                                         *)
(* Both threads poll: after MaxSpins empty polls a poller also asks        *)
(* is_abandoned, in a step of its own after the poll that found nothing.   *)
(***************************************************************************)
EXTENDS StreamReader

CONSTANTS
    NBuf,       \* nbuf, the capacity of the rings
    MaxSpins    \* THREAD_MAX_SPINS and MAIN_MAX_SPINS

ASSUME BufferedAssumption == NBuf \in 2 .. 4 /\ MaxSpins \in Nat

VARIABLES
    pc,         \* the calling thread
    hpc,        \* the handler thread
    data,       \* the s_data/r_data ring: indexes of commands
    free,       \* the s_free/r_free ring: "buf" for Ok(buf), "err" for Err(e)
    hasBuf,     \* self.buf is a buffer, not the empty Vec left by mem::take
    spins,      \* spins of the calling thread's wait
    hspins,     \* spins of the handler thread
    held,       \* the command the handler thread works on
    handled,    \* history of handle_cmd calls: [cmd, reply]
    abandoned,  \* the calling thread has dropped its ends of the rings
    result,     \* what the scope's closure returned
    outcome     \* what read_and_handle_buffered returned

mainVars    == <<pc, spins, hasBuf, result, outcome, abandoned>>
handlerVars == <<hpc, hspins, held, handled>>
vars        == <<readerVars, mainVars, handlerVars, data, free>>

Replies  == {"some", "none", "err", "panic"}
Call     == [cmd : Nat, reply : Replies]
Results  == {"none", "ok", "read_err", "handler_err", "panic"}

Init ==
    /\ ReaderInit
    /\ pc = "header"  /\ hpc = "unborn"
    /\ data = <<>>    /\ free = <<>>
    /\ hasBuf = TRUE
    /\ spins = 0      /\ hspins = 0
    /\ held = 0       /\ handled = <<>>
    /\ abandoned = FALSE
    /\ result = "none" /\ outcome = "none"

-----------------------------------------------------------------------------
(* The calling thread. *)

\* The closure given to thread::scope is left with r.
leave(r) == pc' = "leave" /\ result' = r

\* self.read_header()?, before there is a scope.
ReadHeader ==
    /\ pc = "header"
    /\ read_header
    /\ IF HeaderAccepted
       THEN pc' = "prime" /\ UNCHANGED outcome
       ELSE pc' = "done" /\ outcome' = "read_err"
    /\ UNCHANGED <<spins, hasBuf, result, abandoned, handlerVars, data, free>>

\* Prime s_free with NBuf - 1 buffers and spawn the handler thread.
\* Slips: one buffer more, one buffer less.
SpareBuffers_more  == [i \in 1 .. NBuf |-> "buf"]
SpareBuffers_fewer == [i \in 1 .. NBuf - 2 |-> "buf"]

SpareBuffers == [i \in 1 .. NBuf - 1 |-> "buf"]

SpawnHandler ==
    /\ pc = "prime"
    /\ free' = SpareBuffers
    /\ pc' = "loop"
    /\ hpc' = "poll"
    /\ UNCHANGED <<readerVars, data, spins, hasBuf, result, outcome, abandoned,
                   hspins, held, handled>>

\* Slip: the loop has no condition.
AtEnd_never == FALSE

AtEnd == command = "end"

\* while self.command != EndCmd::KEY { self.read_cmd()?; ...
ReadCmd ==
    /\ pc = "loop"
    /\ ~ AtEnd
    /\ \/ read_cmd_ok  /\ pc' = "push" /\ UNCHANGED result
       \/ read_cmd_err /\ leave("read_err")
    /\ UNCHANGED <<spins, hasBuf, outcome, abandoned, handlerVars, data, free>>

\* s_data.push(..mem::take(&mut self.buf)..).expect("Handler panicked"): a push
\* fails when the ring is full, and only then.
PushCmd ==
    /\ pc = "push"
    /\ hasBuf' = FALSE
    /\ spins' = 0
    /\ IF Len(data) < NBuf
       THEN data' = Append(data, next) /\ pc' = "wait" /\ UNCHANGED result
       ELSE leave("panic") /\ UNCHANGED data
    /\ UNCHANGED <<readerVars, outcome, abandoned, handlerVars, free>>

\* self.buf = result?
take_buffer == pc' = "loop" /\ hasBuf' = TRUE

\* r_free.pop() is Ok(result): take the buffer, or leave with the error.
PopFree ==
    /\ pc = "wait"
    /\ free # <<>>
    /\ free' = Tail(free)
    /\ IF Head(free) = "buf"
       THEN take_buffer /\ UNCHANGED result
       ELSE leave("handler_err") /\ UNCHANGED hasBuf
    /\ UNCHANGED <<readerVars, spins, outcome, abandoned, handlerVars, data>>

\* Slip: the spins go on beyond the limit.
FoundNoBuffer_unbounded ==
    /\ pc = "wait"
    /\ free = <<>>
    /\ spins' = spins + 1
    /\ UNCHANGED <<readerVars, pc, hasBuf, result, outcome, abandoned, handlerVars,
                   data, free>>

\* r_free.pop() is Empty: spin, and once the spins are used up ask whether the
\* handler thread is gone.
FoundNoBuffer ==
    /\ pc = "wait"
    /\ free = <<>>
    /\ IF spins < MaxSpins THEN spins' = spins + 1 /\ UNCHANGED pc
                           ELSE pc' = "suspect" /\ UNCHANGED spins
    /\ UNCHANGED <<readerVars, hasBuf, result, outcome, abandoned, handlerVars,
                   data, free>>

\* r_free.is_abandoned(): panic if so, else yield and poll again.
CheckHandler ==
    /\ pc = "suspect"
    /\ IF hpc = "gone" THEN leave("panic") ELSE pc' = "wait" /\ UNCHANGED result
    /\ UNCHANGED <<readerVars, spins, hasBuf, outcome, abandoned, handlerVars,
                   data, free>>

\* The loop ends at END: publish the position, leave with Ok(()).
FinishLoop ==
    /\ pc = "loop"
    /\ AtEnd
    /\ publish_position
    /\ leave("ok")
    /\ UNCHANGED <<spins, hasBuf, outcome, abandoned, handlerVars, data, free>>

\* Leaving the closure drops r_free and s_data.
DropRings ==
    /\ pc = "leave"
    /\ abandoned' = TRUE
    /\ pc' = "join"
    /\ UNCHANGED <<readerVars, spins, hasBuf, result, outcome, handlerVars, data, free>>

\* thread::scope joins the handler thread and panics if that one panicked.
Panicked == handled # <<>> /\ handled[Len(handled)].reply = "panic"

Join ==
    /\ pc = "join"
    /\ hpc = "gone"
    /\ outcome' = IF Panicked THEN "panic" ELSE result
    /\ pc' = "done"
    /\ UNCHANGED <<readerVars, spins, hasBuf, result, abandoned, handlerVars, data, free>>

-----------------------------------------------------------------------------
(* The handler thread. *)

\* r_data.pop() is Ok((cmd, payload, buf)).
PopCmd ==
    /\ hpc = "poll"
    /\ data # <<>>
    /\ held' = Head(data)
    /\ data' = Tail(data)
    /\ hpc' = "handle"
    /\ UNCHANGED <<readerVars, mainVars, hspins, handled, free>>

\* r_data.pop() is Empty.
FoundNoCmd ==
    /\ hpc = "poll"
    /\ data = <<>>
    /\ IF hspins < MaxSpins THEN hspins' = hspins + 1 /\ UNCHANGED hpc
                            ELSE hpc' = "suspect" /\ UNCHANGED hspins
    /\ UNCHANGED <<readerVars, mainVars, held, handled, data, free>>

\* Slip: the handler thread never asks.
AfterSuspicion_poll == "poll"

AfterSuspicion == IF abandoned THEN "exit" ELSE "poll"

\* r_data.is_abandoned(): stop if so, else yield and poll again.
CheckMain ==
    /\ hpc = "suspect"
    /\ hpc' = AfterSuspicion
    /\ UNCHANGED <<readerVars, mainVars, hspins, held, handled, data, free>>

\* Slip: errors of the handler are skipped.
After_errIgnored(r) == IF r = "panic" THEN "exit" ELSE "give"

\* handler.handle_cmd(..): only Err is told apart, None is taken like Some; a
\* panic unwinds the thread.
After(r) ==
    CASE r = "err"   -> "fail"
      [] r = "panic" -> "exit"
      [] OTHER       -> "give"

HandleCmd ==
    /\ hpc = "handle"
    /\ \E r \in Replies :
          /\ handled' = Append(handled, [cmd |-> held, reply |-> r])
          /\ hpc' = After(r)
    /\ UNCHANGED <<readerVars, mainVars, hspins, held, data, free>>

\* s_free.push(Ok(buf)): the thread stops if the ring is full.
PushBuf ==
    /\ hpc = "give"
    /\ IF Len(free) < NBuf
       THEN free' = Append(free, "buf") /\ hspins' = 0 /\ hpc' = "poll"
       ELSE hpc' = "exit" /\ UNCHANGED <<free, hspins>>
    /\ UNCHANGED <<readerVars, mainVars, held, handled, data>>

\* Slip: the buffer is pushed back instead of the error.
Reported_asBuf == "buf"

Reported == "err"

\* let _ = s_free.push(Err(e)); break
PushErr ==
    /\ hpc = "fail"
    /\ free' = IF Len(free) < NBuf THEN Append(free, Reported) ELSE free
    /\ hpc' = "exit"
    /\ UNCHANGED <<readerVars, mainVars, hspins, held, handled, data>>

\* The thread's closure is dropped, and with it s_free and r_data.
Exit ==
    /\ hpc = "exit"
    /\ hpc' = "gone"
    /\ UNCHANGED <<readerVars, mainVars, hspins, held, handled, data, free>>

-----------------------------------------------------------------------------
Terminated == pc = "done" /\ UNCHANGED vars

Main ==
    \/ ReadHeader \/ SpawnHandler \/ ReadCmd \/ PushCmd \/ PopFree
    \/ FoundNoBuffer \/ CheckHandler \/ FinishLoop \/ DropRings \/ Join

Handler ==
    \/ PopCmd \/ FoundNoCmd \/ CheckMain \/ HandleCmd \/ PushBuf \/ PushErr \/ Exit

Next == Main \/ Handler \/ Terminated

\* The operating system schedules both threads; each read of the source and
\* each call of the handler returns.
Spec == Init /\ [][Next]_vars /\ WF_vars(Main) /\ WF_vars(Handler)

-----------------------------------------------------------------------------
MainPcs    == {"header", "prime", "loop", "push", "wait", "suspect", "leave",
               "join", "done"}
HandlerPcs == {"unborn", "poll", "suspect", "handle", "give", "fail", "exit", "gone"}

TypeOK ==
    /\ ReaderTypeOK
    /\ pc \in MainPcs
    /\ hpc \in HandlerPcs
    /\ data \in Seq(Nat)
    /\ free \in Seq({"buf", "err"})
    /\ hasBuf \in BOOLEAN
    /\ spins \in 0 .. MaxSpins
    /\ hspins \in 0 .. MaxSpins
    /\ held \in Nat
    /\ handled \in Seq(Call)
    /\ abandoned \in BOOLEAN
    /\ result \in Results
    /\ outcome \in Results

\* NBuf buffers circulate, so neither ring is ever full when its producer
\* pushes: the expect("Handler panicked") cannot fire, and the handler never
\* loses a buffer or an error to a full r_free.
PushesFindRoom ==
    /\ pc = "push" => Len(data) < NBuf
    /\ hpc \in {"give", "fail"} => Len(free) < NBuf

\* read_cmd slices self.buf: it must have got a buffer back by then.
ReadsIntoABuffer == pc = "loop" => hasBuf

\* The handler sees the commands read so far in stream order, each once, and
\* none after one it failed on.
HandledInOrder ==
    /\ Len(handled) <= next
    /\ \A i \in 1 .. Len(handled) : handled[i].cmd = i
    /\ \A i \in 1 .. Len(handled) - 1 : handled[i].reply \in {"some", "none"}

\* An Ok says this much, and no more: the reader stopped at the first END, and
\* every command before the last NBuf - 1 was handled without a failure.
OkMeansHandled ==
    outcome = "ok" =>
        /\ command = "end"
        /\ \A i \in 1 .. next - (NBuf - 1) :
              i <= Len(handled) /\ handled[i].reply \in {"some", "none"}

\* Nothing behind the first END is read (the rest of the source, which may
\* hold another stream, is left to the caller).
StopsAtEnd == \A i \in 1 .. next - 1 : stream.cmds[i].key # "end"

\* As for DirectReceive: the published position follows the block borders and
\* is exact once Ok is returned.
PositionWithinBlock ==
    /\ position <= stream_pos
    /\ BlockOf(position) = BlockOf(stream_pos)
    /\ outcome = "ok" => position = stream_pos

\* receive_stream's promise, with NBuf commands between reader and handler.
Promise == INSTANCE Receive WITH Lead <- NBuf, consumed <- next

ImplementsReceive == Promise!Spec

\* Both threads stop: neither waits for ever on a ring the other has left.
Terminates == <>(pc = "done")

-----------------------------------------------------------------------------
(* Statements of the code's comments and docs which it does not live up to. *)

\* "main thread got the END cmd" is the reason given for stopping when r_data
\* is abandoned, as if nothing could be left in it: after Ok every command
\* read has been given to the handler.
EveryCommandHandled == outcome = "ok" => Len(handled) = next
=============================================================================

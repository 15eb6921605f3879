------------------------------ MODULE SendPipe ------------------------------
(***************************************************************************)
(* SendBuilder (send_stream/send.rs): BTRFS_IOC_SEND writes a send stream  *)
(* into a pipe, receive_stream reads it at the other end.  spawn_send runs *)
(* the ioctl and the receive in two threads and returns a SendHandle, whose *)
(* join waits for both; blocking_send runs the ioctl on the calling thread *)
(* and only the receive in a second one.                                   *)
(*                                                                         *)
(* The ioctl is given the raw number of the pipe's write end.  Who owns    *)
(* the PipeWriter, and when it is dropped, decides whether that number is  *)
(* still valid and whether the reader sees an end of file.                 *)
(*                                                                         *)
(* A stream is cut into chunks of one command each, its header in the      *)
(* first.  Both receives are there, by what they do between reads of the   *)
(* pipe: the unbuffered one (DirectReceive) handles a command before it    *)
(* reads the next and stops at the handler's None; the buffered one        *)
(* (BufferedReceive) reads on while it gets buffers back, takes None like  *)
(* Some, and stops at END only.  A panic of theirs is handed on by join.   *)
(***************************************************************************)
EXTENDS Integers, Sequences

CONSTANTS
    Modes,          \* subset of {"spawn", "blocking"}
    MaxCmds,        \* bound: commands of a stream
    PipeCapacity,   \* chunks the pipe holds (F_SETPIPE_SZ)
    OmitEnd,        \* subset of BOOLEAN: values of the omit_end_cmd flag
    NBuf,           \* buffers of the buffered receive (nbuf)
    IoctlMayFail    \* whether the ioctl may fail other than by EPIPE

ASSUME SendAssumption ==
    /\ Modes \subseteq {"spawn", "blocking"}
    /\ MaxCmds \in Nat \ {0}
    /\ PipeCapacity \in Nat \ {0}
    /\ OmitEnd \subseteq BOOLEAN
    /\ NBuf \in 2 .. 4
    /\ IoctlMayFail \in BOOLEAN

VARIABLES
    mode,       \* which function the caller used
    buffered,   \* which receive it asked for
    toSend,     \* the chunks the kernel has still to write
    caller,     \* the calling thread
    send,       \* the ioctl: not started, writing, returned
    recv,       \* the receiving thread
    pipe,       \* chunks in the pipe
    writerFd,   \* the PipeWriter is not dropped yet
    kernelRef,  \* the running ioctl holds the pipe's write end
    reader,     \* the PipeReader is not dropped yet
    got,        \* history: commands read from the pipe
    handled,    \* history: the handler's answers to the first of them
    handler,    \* the handler thread of a buffered receive
    free,       \* its ring of buffers and errors for the reading thread
    sendResult, \* what the ioctl returned
    recvResult, \* what receive_stream returned
    outcome     \* what join, or blocking_send, returned

handlerVars == <<handler, free>>
receiveVars == <<buffered, got, handled, handlerVars>>
vars == <<mode, toSend, caller, send, recv, pipe, writerFd, kernelRef, reader,
          receiveVars, sendResult, recvResult, outcome>>

Answers == {"some", "none", "err", "panic"}

Chunks(n, omit) == [i \in 1 .. n |-> IF i = n /\ ~ omit THEN "end" ELSE "cmd"]

Init ==
    /\ mode \in Modes /\ buffered \in BOOLEAN
    /\ \E n \in 1 .. MaxCmds, omit \in OmitEnd : toSend = Chunks(n, omit)
    /\ caller = "start"
    /\ send = "idle"   /\ recv = "unborn"
    /\ pipe = <<>>
    /\ writerFd = FALSE /\ kernelRef = FALSE /\ reader = FALSE
    /\ got = <<>> /\ handled = <<>>
    /\ handler = "unborn" /\ free = <<>>
    /\ sendResult = "none" /\ recvResult = "none" /\ outcome = "none"

-----------------------------------------------------------------------------
(* The caller. *)

\* spawn_send refuses a source that is not on btrfs after making the pipe.
Reject ==
    /\ caller = "start" /\ mode = "spawn"
    /\ caller' = "returned" /\ outcome' = "unsupported"
    /\ UNCHANGED <<mode, toSend, send, recv, pipe, writerFd, kernelRef, reader,
                   receiveVars, sendResult, recvResult>>

\* A buffered receive primes the ring with all buffers but the one it reads into
\* and spawns the handler thread (after the header, which is not told apart).
SpawnReceive ==
    /\ IF buffered THEN handler' = "poll" /\ free' = [i \in 1 .. NBuf - 1 |-> "buf"]
                   ELSE UNCHANGED handlerVars
    /\ UNCHANGED <<buffered, got, handled>>

\* Slip: "let _ = writer" in the receiving thread drops the PipeWriter at once.
Start_writerDropped ==
    /\ caller = "start"
    /\ writerFd' = (mode = "blocking") /\ reader' = TRUE
    /\ recv' = "reading"
    /\ send' = "ready"
    /\ caller' = IF mode = "spawn" THEN "join_recv" ELSE "ioctl"
    /\ SpawnReceive
    /\ UNCHANGED <<mode, toSend, pipe, kernelRef, sendResult, recvResult, outcome>>

\* Make the pipe and spawn the thread(s).
Start ==
    /\ caller = "start"
    /\ writerFd' = TRUE /\ reader' = TRUE
    /\ recv' = "reading"
    /\ send' = "ready"
    /\ caller' = IF mode = "spawn" THEN "join_recv" ELSE "ioctl"
    /\ SpawnReceive
    /\ UNCHANGED <<mode, toSend, pipe, kernelRef, sendResult, recvResult, outcome>>

\* Slip: blocking_send leaks its PipeWriter.
return_leaking(o) == caller' = "returned" /\ outcome' = o /\ UNCHANGED writerFd

\* return: blocking_send drops its PipeWriter here.
return(o) ==
    /\ caller' = "returned" /\ outcome' = o
    /\ writerFd' = IF mode = "blocking" THEN FALSE ELSE writerFd

\* Slip: join waits for the sending thread only.
JoinRecv_skipped ==
    /\ caller = "join_recv"
    /\ caller' = "join_send"
    /\ UNCHANGED <<mode, toSend, send, recv, pipe, writerFd, kernelRef, reader, receiveVars,
                   sendResult, recvResult, outcome>>

\* SendHandle::join: the receiver first, whose error is returned at once.
JoinRecv ==
    /\ caller = "join_recv"
    /\ recv = "done"
    /\ IF recvResult = "ok" /\ mode = "spawn"
       THEN caller' = "join_send" /\ UNCHANGED <<outcome, writerFd>>
       ELSE return(recvResult)
    /\ UNCHANGED <<mode, toSend, send, recv, pipe, kernelRef, reader, receiveVars,
                   sendResult, recvResult>>

JoinSend ==
    /\ caller = "join_send"
    /\ send = "done"
    /\ return(sendResult)
    /\ UNCHANGED <<mode, toSend, send, recv, pipe, kernelRef, reader, receiveVars,
                   sendResult, recvResult>>

\* blocking_send after the ioctl: join the receiver only if the ioctl is Ok.
\* An error is returned as it is, EPIPE too.
AfterIoctl ==
    /\ caller = "ioctl"
    /\ send = "done"
    /\ IF sendResult = "ok"
       THEN caller' = "join_recv" /\ UNCHANGED <<outcome, writerFd>>
       ELSE return(sendResult)
    /\ UNCHANGED <<mode, toSend, send, recv, pipe, kernelRef, reader, receiveVars,
                   sendResult, recvResult>>

-----------------------------------------------------------------------------
(* The ioctl, on the sending thread or on the caller.  The kernel is an     *)
(* external: it resolves the descriptor once, then writes chunk by chunk.   *)

ioctl_return(r) == send' = "done" /\ sendResult' = r /\ kernelRef' = FALSE

IoctlStart ==
    /\ send = "ready"
    /\ IF writerFd THEN send' = "writing" /\ kernelRef' = TRUE /\ UNCHANGED sendResult
                   ELSE ioctl_return("EBADF")
    /\ UNCHANGED <<mode, toSend, caller, recv, pipe, writerFd, reader, receiveVars,
                   recvResult, outcome>>

HasRoom == Len(pipe) < PipeCapacity

IoctlWrite ==
    /\ send = "writing" /\ toSend # <<>>
    /\ reader
    /\ HasRoom
    /\ pipe' = Append(pipe, Head(toSend))
    /\ toSend' = Tail(toSend)
    /\ UNCHANGED <<mode, caller, send, recv, writerFd, kernelRef, reader, receiveVars,
                   sendResult, recvResult, outcome>>

\* Nobody can read any more: EPIPE.
IoctlBrokenPipe ==
    /\ send = "writing" /\ toSend # <<>>
    /\ ~ reader
    /\ ioctl_return("EPIPE")
    /\ UNCHANGED <<mode, toSend, caller, recv, pipe, writerFd, reader, receiveVars,
                   recvResult, outcome>>

IoctlOk ==
    /\ send = "writing" /\ toSend = <<>>
    /\ ioctl_return("ok")
    /\ UNCHANGED <<mode, toSend, caller, recv, pipe, writerFd, reader, receiveVars,
                   recvResult, outcome>>

\* Any other error: the source is not read-only, a read of it fails ...
IoctlFail ==
    /\ IoctlMayFail
    /\ send = "writing"
    /\ ioctl_return("EIO")
    /\ UNCHANGED <<mode, toSend, caller, recv, pipe, writerFd, reader, receiveVars,
                   recvResult, outcome>>

-----------------------------------------------------------------------------
(* The receiving thread. *)

\* Slip: the PipeReader outlives receive_stream.
finish_readerOpen(r) == recv' = "returned" /\ recvResult' = r /\ UNCHANGED reader

\* receive_stream returns r and drops the PipeReader.
finish(r) == recv' = "returned" /\ recvResult' = r /\ reader' = FALSE

\* The unbuffered receive takes a command and hands it over; the handler goes on
\* (Some), stops (None), fails or panics.
RecvCmd ==
    /\ recv = "reading" /\ ~ buffered
    /\ pipe # <<>>
    /\ pipe' = Tail(pipe)
    /\ got' = Append(got, Head(pipe))
    /\ \E a \in Answers :
          /\ handled' = Append(handled, a)
          /\ \/ a = "some"  /\ UNCHANGED <<recv, recvResult, reader>>
             \/ a = "none"  /\ finish("ok")
             \/ a = "err"   /\ finish("handler_err")
             \/ a = "panic" /\ finish("panic")
    /\ UNCHANGED <<mode, toSend, caller, send, writerFd, kernelRef, buffered, handlerVars,
                   sendResult, outcome>>

AtEnd == got # <<>> /\ got[Len(got)] = "end"

\* The buffered receive reads a command, unless the last was END, pushes it for the
\* handler thread (the ring has room for it) and waits for a buffer.
PushCmd ==
    /\ recv = "reading" /\ buffered /\ ~ AtEnd
    /\ pipe # <<>>
    /\ pipe' = Tail(pipe)
    /\ got' = Append(got, Head(pipe))
    /\ recv' = "waiting"
    /\ UNCHANGED <<mode, toSend, caller, send, writerFd, kernelRef, reader, buffered,
                   handled, handlerVars, sendResult, recvResult, outcome>>

\* The closure given to thread::scope is left with r.
leave(r) == recv' = "leaving" /\ recvResult' = r

\* r_free.pop() is Ok(result): a buffer, or the handler's error.
TakeBuffer ==
    /\ recv = "waiting"
    /\ free # <<>>
    /\ free' = Tail(free)
    /\ \/ Head(free) = "buf" /\ recv' = "reading" /\ UNCHANGED recvResult
       \/ Head(free) = "err" /\ leave("handler_err")
    /\ UNCHANGED <<mode, toSend, caller, send, pipe, writerFd, kernelRef, reader, buffered,
                   got, handled, handler, sendResult, outcome>>

\* It is Empty, as often as the spins allow.
FoundNoBuffer ==
    /\ recv = "waiting"
    /\ free = <<>>
    /\ recv' = "suspecting"
    /\ UNCHANGED <<mode, toSend, caller, send, pipe, writerFd, kernelRef, reader,
                   receiveVars, sendResult, recvResult, outcome>>

\* r_free.is_abandoned(): panic if so, else poll again.
CheckHandler ==
    /\ recv = "suspecting"
    /\ \/ handler = "gone" /\ leave("panic")
       \/ handler # "gone" /\ recv' = "waiting" /\ UNCHANGED recvResult
    /\ UNCHANGED <<mode, toSend, caller, send, pipe, writerFd, kernelRef, reader,
                   receiveVars, sendResult, outcome>>

\* The loop of the buffered receive ends at END.
FinishLoop ==
    /\ recv = "reading" /\ buffered /\ AtEnd
    /\ leave("ok")
    /\ UNCHANGED <<mode, toSend, caller, send, pipe, writerFd, kernelRef, reader,
                   receiveVars, sendResult, outcome>>

\* End of file: the pipe is empty and no write end is left.
RecvEof ==
    /\ recv = "reading" /\ ~ (buffered /\ AtEnd)
    /\ pipe = <<>>
    /\ ~ writerFd /\ ~ kernelRef
    /\ \/ buffered   /\ leave("read_err") /\ UNCHANGED reader
       \/ ~ buffered /\ finish("read_err")
    /\ UNCHANGED <<mode, toSend, caller, send, pipe, writerFd, kernelRef, receiveVars,
                   sendResult, outcome>>

\* thread::scope joins the handler thread and panics if that one did.
Panicked == handled # <<>> /\ handled[Len(handled)] = "panic"

ScopeJoin ==
    /\ recv = "leaving"
    /\ handler = "gone"
    /\ finish(IF Panicked THEN "panic" ELSE recvResult)
    /\ UNCHANGED <<mode, toSend, caller, send, pipe, writerFd, kernelRef, receiveVars,
                   sendResult, outcome>>

\* The thread's closure ends; under spawn_send it owns the PipeWriter (_w).
RecvExit ==
    /\ recv = "returned"
    /\ recv' = "done"
    /\ writerFd' = IF mode = "spawn" THEN FALSE ELSE writerFd
    /\ UNCHANGED <<mode, toSend, caller, send, pipe, kernelRef, reader, receiveVars,
                   sendResult, recvResult, outcome>>

-----------------------------------------------------------------------------
(* The handler thread of a buffered receive. *)

\* Slip: the buffer is pushed back instead of the error.
Reported_asBuf == "buf"

Reported == "err"

\* Pop a command, handle it and give its buffer or the error back: only an error
\* and a panic end the thread, None is taken like Some.
HandleCmd ==
    /\ handler = "poll"
    /\ Len(handled) < Len(got)
    /\ \E a \in Answers :
          /\ handled' = Append(handled, a)
          /\ \/ a \in {"some", "none"} /\ free' = Append(free, "buf") /\ UNCHANGED handler
             \/ a = "err"   /\ free' = Append(free, Reported) /\ handler' = "gone"
             \/ a = "panic" /\ UNCHANGED free /\ handler' = "gone"
    /\ UNCHANGED <<mode, toSend, caller, send, recv, pipe, writerFd, kernelRef, reader,
                   buffered, got, sendResult, recvResult, outcome>>

\* r_data.pop() is Empty, as often as the spins allow.
FoundNoCmd ==
    /\ handler = "poll"
    /\ Len(handled) = Len(got)
    /\ handler' = "suspect"
    /\ UNCHANGED <<mode, toSend, caller, send, recv, pipe, writerFd, kernelRef, reader,
                   buffered, got, handled, free, sendResult, recvResult, outcome>>

\* r_data.is_abandoned(): stop if so, whatever has been pushed since.
CheckMain ==
    /\ handler = "suspect"
    /\ handler' = IF recv = "leaving" THEN "gone" ELSE "poll"
    /\ UNCHANGED <<mode, toSend, caller, send, recv, pipe, writerFd, kernelRef, reader,
                   buffered, got, handled, free, sendResult, recvResult, outcome>>

-----------------------------------------------------------------------------
CallerStep == Reject \/ Start \/ JoinRecv \/ JoinSend \/ AfterIoctl
IoctlWork  == IoctlStart \/ IoctlWrite \/ IoctlBrokenPipe \/ IoctlOk
RecvStep   ==
    \/ RecvCmd \/ RecvEof \/ RecvExit
    \/ PushCmd \/ TakeBuffer \/ FoundNoBuffer \/ CheckHandler \/ FinishLoop \/ ScopeJoin
HandlerStep == HandleCmd \/ FoundNoCmd \/ CheckMain

Next == CallerStep \/ IoctlWork \/ IoctlFail \/ RecvStep \/ HandlerStep

\* The ioctl goes on while it can, but need not fail.
Spec ==
    /\ Init /\ [][Next]_vars
    /\ WF_vars(CallerStep) /\ WF_vars(IoctlWork) /\ WF_vars(RecvStep)
    /\ WF_vars(HandlerStep)

-----------------------------------------------------------------------------
TypeOK ==
    /\ mode \in {"spawn", "blocking"} /\ buffered \in BOOLEAN
    /\ toSend \in Seq({"cmd", "end"})
    /\ caller \in {"start", "ioctl", "join_recv", "join_send", "returned"}
    /\ send \in {"idle", "ready", "writing", "done"}
    /\ recv \in {"unborn", "reading", "waiting", "suspecting", "leaving", "returned", "done"}
    /\ pipe \in Seq({"cmd", "end"}) /\ Len(pipe) <= PipeCapacity
    /\ writerFd \in BOOLEAN /\ kernelRef \in BOOLEAN /\ reader \in BOOLEAN
    /\ got \in Seq({"cmd", "end"}) /\ handled \in Seq(Answers)
    /\ handler \in {"unborn", "poll", "suspect", "gone"} /\ free \in Seq({"buf", "err"})
    /\ sendResult \in {"none", "ok", "EPIPE", "EIO", "EBADF"}
    /\ recvResult \in {"none", "ok", "handler_err", "read_err", "panic"}
    /\ outcome \in {"none", "ok", "unsupported", "EPIPE", "EIO", "EBADF",
                    "handler_err", "read_err", "panic"}

\* The write end is open when the ioctl resolves its number ("dont close the
\* pipe"): otherwise the stream would be written to whatever file has been
\* given that number since.
DescriptorIsValid == (send = "ready" => writerFd) /\ sendResult # "EBADF"

\* An unbuffered receive whose handler answered None to a command before END.
StoppedEarly ==
    /\ ~ buffered
    /\ got # <<>> /\ got[Len(got)] = "cmd" /\ handled[Len(handled)] = "none"

\* The commands the reader may be ahead of the handler by.
Ahead == IF buffered THEN NBuf - 1 ELSE 0

\* All commands but those were handled, and none of them failed.
HandledBut(n) ==
    \A i \in 1 .. Len(got) - n : i <= Len(handled) /\ handled[i] \in {"some", "none"}

\* Ok from join or blocking_send: the kernel wrote the whole stream.  An unbuffered
\* receive has handled all of it, without a failure, unless the handler asked to
\* stop before; a buffered one has read all of it up to END, but may leave its last
\* NBuf - 1 commands unhandled or failed.
OkMeansReceived ==
    outcome = "ok" =>
        /\ sendResult = "ok" /\ recvResult = "ok"
        /\ toSend = <<>>
        /\ pipe = <<>> \/ StoppedEarly
        /\ buffered => AtEnd
        /\ HandledBut(Ahead)

\* join asks the receiver first, so it reports the handler's error (or panic)
\* and not the EPIPE which that error causes on the sending side.  EPIPE is left
\* to an unbuffered receive whose handler stops before END: then nothing is wrong
\* with the receiver.
JoinReportsTheCause ==
    mode = "spawn" /\ caller = "returned" =>
        /\ outcome = "EPIPE" => StoppedEarly
        /\ recvResult \in {"handler_err", "panic"} => outcome = recvResult

\* Neither thread outlives the other for long: once the receiver has returned,
\* the ioctl ends too (it cannot block on a pipe nobody reads), and once
\* blocking_send has returned, its detached receiver meets an end of file.
NoneLeftBehind ==
    /\ (recv = "done") ~> (send = "done")
    /\ (caller = "returned" /\ mode = "blocking") ~> (recv = "done")

\* The receiving thread reads from a pipe that nobody will write to and that its
\* own process keeps open: it has had no END yet (or an unbuffered handler asked
\* for more after it), and has met no failure of the handler in the commands it
\* knows the answers to.
Starved ==
    /\ caller = "join_recv" /\ send = "done"
    /\ recv = "reading" /\ pipe = <<>>
    /\ buffered => ~ AtEnd
    /\ HandledBut(Ahead)

\* join and blocking_send return, whatever the ioctl, the handler and the threads'
\* order do, unless the receiving thread starves.
ReturnsUnlessStarved == <>(caller = "returned" \/ Starved)

\* "Joins both the sending and receiving threads": join and blocking_send return.
Returns == <>(caller = "returned")
=============================================================================

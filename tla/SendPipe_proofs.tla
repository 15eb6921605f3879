--------------------------- MODULE SendPipe_proofs ---------------------------
(***************************************************************************)
(* Safety of SendPipe for every length of a stream and every capacity of   *)
(* the pipe and both receives: its types, and what DescriptorIsValid,      *)
(* OkMeansReceived and JoinReportsTheCause say of the order in which ends  *)
(* are dropped and threads are joined.                                     *)
(***************************************************************************)
EXTENDS SendPipe, TLAPS

\* END comes last: once it is out of the kernel, the pipe or the stream, nothing
\* follows it.
EndIsLast ==
    /\ \A i \in 1 .. Len(toSend) : toSend[i] = "end" => i = Len(toSend)
    /\ \A i \in 1 .. Len(pipe) : pipe[i] = "end" => i = Len(pipe) /\ toSend = <<>>
    /\ \A i \in 1 .. Len(got) : got[i] = "end" => i = Len(got) /\ pipe = <<>> /\ toSend = <<>>

\* Before the ioctl has the write end, nothing can be received and the PipeWriter
\* is kept by a thread that is still there.
Beginning ==
    /\ caller = "start" => send = "idle"
    /\ send = "idle" => recv = "unborn" /\ caller \in {"start", "returned"}
    /\ send \in {"idle", "ready"} => pipe = <<>> /\ got = <<>>
    /\ send = "ready" => writerFd /\ recv = "reading" /\ caller \in {"join_recv", "ioctl"}
    /\ recv = "unborn" => send = "idle"

\* What the ioctl has returned, and what that needed.
SendMeans ==
    /\ send = "done" <=> sendResult # "none"
    /\ sendResult # "EBADF"
    /\ sendResult = "ok" => toSend = <<>>
    /\ sendResult = "EPIPE" => toSend # <<>>

Receiving == {"reading", "waiting", "suspecting"}

\* When receive_stream has a result; an unbuffered one has no second thread and
\* one answer per command.
RecvMeans ==
    /\ recv \in {"unborn"} \cup Receiving <=> recvResult = "none"
    /\ recv = "unborn" => got = <<>> /\ handled = <<>> /\ free = <<>> /\ handler = "unborn"
    /\ ~ buffered =>
        /\ recv \notin {"waiting", "suspecting", "leaving"}
        /\ handler = "unborn"
        /\ Len(handled) = Len(got)
        /\ recv = "reading" /\ handled # <<>> => handled[Len(handled)] = "some"

\* A failure is the last answer, ends the handler thread, and an error waits in
\* the ring of buffers.
AnswersMean ==
    /\ Len(handled) <= Len(got)
    /\ \A i \in 1 .. Len(handled) - 1 : handled[i] \in {"some", "none"}
    /\ buffered /\ handled # <<>> /\ handled[Len(handled)] \in {"err", "panic"}
          => handler = "gone"
    /\ buffered /\ recv \in Receiving /\ handled # <<>> /\ handled[Len(handled)] = "err"
          => free # <<>> /\ free[Len(free)] = "err"

\* NBuf buffers circulate: one may be with the reader, some (or an error in the
\* place of one) are on their way back, some are with commands not handled yet,
\* and a panic loses one.
Held == IF recv = "reading" THEN 1 ELSE 0
Lost == IF Panicked THEN 1 ELSE 0
BuffersCirculate ==
    buffered /\ recv \in Receiving =>
        Held + Len(free) + (Len(got) - Len(handled)) + Lost = NBuf

\* What an Ok of receive_stream says.
OkMeans ==
    recvResult = "ok" =>
        /\ got # <<>>
        /\ buffered => AtEnd /\ HandledBut(NBuf - 1)
        /\ ~ buffered => handled[Len(handled)] = "none"

\* The parts of the invariant about the receive.
ReceiveMeans == RecvMeans /\ AnswersMean /\ BuffersCirculate /\ OkMeans

\* Where the caller is, and what it has seen there.
CallerMeans ==
    /\ caller = "join_send" => mode = "spawn" /\ recv = "done" /\ recvResult = "ok"
    /\ caller = "ioctl" => mode = "blocking"
    /\ caller = "join_recv" /\ mode = "blocking" => sendResult = "ok"
    /\ caller # "returned" => outcome = "none"
    /\ caller = "returned" =>
        \/ outcome = "unsupported" /\ recv = "unborn"
        \/ mode = "spawn" /\ recv = "done" /\ recvResult # "ok" /\ outcome = recvResult
        \/ mode = "spawn" /\ recv = "done" /\ recvResult = "ok" /\ send = "done"
           /\ outcome = sendResult
        \/ mode = "blocking" /\ sendResult \notin {"none", "ok"} /\ outcome = sendResult
        \/ mode = "blocking" /\ sendResult = "ok" /\ recv = "done" /\ outcome = recvResult

IInv == TypeOK /\ EndIsLast /\ Beginning /\ SendMeans /\ ReceiveMeans /\ CallerMeans

LEMMA SendInit == Init => IInv
<1> SUFFICES ASSUME Init PROVE IInv
  OBVIOUS
<1>1. PICK n \in 1 .. MaxCmds, omit \in OmitEnd : toSend = Chunks(n, omit)
  BY DEF Init
<1>2. /\ toSend \in Seq({"cmd", "end"})
      /\ \A i \in 1 .. Len(toSend) : toSend[i] = "end" => i = Len(toSend)
  BY <1>1, SendAssumption DEF Chunks
<1>3. TypeOK
  <2>1. mode \in {"spawn", "blocking"} /\ pipe \in Seq({"cmd", "end"}) /\ Len(pipe) <= PipeCapacity
    BY SendAssumption DEF Init
  <2>2. got \in Seq({"cmd", "end"}) /\ handled \in Seq(Answers) /\ free \in Seq({"buf", "err"})
    BY DEF Init
  <2>3. QED
    BY <1>2, <2>1, <2>2 DEF Init, TypeOK
<1>4. EndIsLast
  BY <1>2 DEF Init, EndIsLast
<1>5. Beginning /\ SendMeans /\ CallerMeans
  BY DEF Init, Beginning, SendMeans, CallerMeans
<1>6. ReceiveMeans
  BY DEF Init, ReceiveMeans, RecvMeans, AnswersMean, BuffersCirculate, OkMeans, Receiving
<1>7. QED
  BY <1>3, <1>4, <1>5, <1>6 DEF IInv

\* An action that moves no chunk keeps END last.
LEMMA NoChunkMoves == EndIsLast /\ UNCHANGED <<toSend, pipe, got>> => EndIsLast'
  BY DEF EndIsLast

\* An action that moves no chunk keeps the types.
LEMMA NoChunkTypes ==
  TypeOK /\ (CallerStep \/ IoctlStart \/ IoctlBrokenPipe \/ IoctlOk \/ IoctlFail \/ RecvExit)
    => TypeOK'
<1>1. TypeOK /\ Reject => TypeOK'
  BY DEF Reject, TypeOK, receiveVars, handlerVars
<1>2. TypeOK /\ Start => TypeOK'
  <2>1. ASSUME TypeOK, Start
        PROVE  free' \in Seq({"buf", "err"}) /\ handler' \in {"unborn", "poll", "suspect", "gone"}
    BY <2>1, SendAssumption DEF Start, SpawnReceive, TypeOK, handlerVars
  <2>2. QED
    BY <2>1 DEF Start, SpawnReceive, TypeOK
<1>3. TypeOK /\ JoinRecv => TypeOK'
  BY DEF JoinRecv, return, TypeOK, receiveVars, handlerVars
<1>4. TypeOK /\ JoinSend => TypeOK'
  BY DEF JoinSend, return, TypeOK, receiveVars, handlerVars
<1>5. TypeOK /\ AfterIoctl => TypeOK'
  BY DEF AfterIoctl, return, TypeOK, receiveVars, handlerVars
<1>6. TypeOK /\ IoctlStart => TypeOK'
  BY DEF IoctlStart, ioctl_return, TypeOK, receiveVars, handlerVars
<1>7. TypeOK /\ IoctlBrokenPipe => TypeOK'
  BY DEF IoctlBrokenPipe, ioctl_return, TypeOK, receiveVars, handlerVars
<1>8. TypeOK /\ IoctlOk => TypeOK'
  BY DEF IoctlOk, ioctl_return, TypeOK, receiveVars, handlerVars
<1>9. TypeOK /\ IoctlFail => TypeOK'
  BY DEF IoctlFail, ioctl_return, TypeOK, receiveVars, handlerVars
<1>10. TypeOK /\ RecvExit => TypeOK'
  BY DEF RecvExit, TypeOK, receiveVars, handlerVars
<1>11. QED
  BY <1>1, <1>2, <1>3, <1>4, <1>5, <1>6, <1>7, <1>8, <1>9, <1>10 DEF CallerStep

\* A step that leaves the receive alone keeps what is known of it.
LEMMA ReceiveKept ==
  ReceiveMeans /\ UNCHANGED <<recv, recvResult, buffered, got, handled, handler, free>> => ReceiveMeans'
<1> SUFFICES ASSUME ReceiveMeans, UNCHANGED <<recv, recvResult, buffered, got, handled, handler, free>>
             PROVE  ReceiveMeans'
  OBVIOUS
<1>1. RecvMeans'
  BY DEF ReceiveMeans, RecvMeans
<1>2. AnswersMean'
  BY DEF ReceiveMeans, AnswersMean
<1>3. BuffersCirculate'
  BY DEF ReceiveMeans, BuffersCirculate, Held, Lost, Panicked
<1>4. OkMeans'
  BY DEF ReceiveMeans, OkMeans, AtEnd, HandledBut
<1>5. QED
  BY <1>1, <1>2, <1>3, <1>4 DEF ReceiveMeans

\* A step of the receive keeps what is known of caller and ioctl.
LEMMA OthersKept ==
  ASSUME TypeOK, Beginning, SendMeans, CallerMeans,
         UNCHANGED <<mode, toSend, caller, send, writerFd, kernelRef, sendResult, outcome>>,
         \/ recv \notin {"unborn", "done"} /\ recv' \notin {"unborn", "done"}
         \/ UNCHANGED <<recv, recvResult>>,
         send \in {"idle", "ready"} => UNCHANGED <<recv, pipe, got>>
  PROVE  Beginning' /\ SendMeans' /\ CallerMeans'
<1>1. Beginning'
  BY DEF Beginning, TypeOK
<1>2. SendMeans'
  BY DEF SendMeans
<1>3. CallerMeans'
  <2>1. CASE UNCHANGED <<recv, recvResult>>
    BY <2>1 DEF CallerMeans
  <2>2. CASE recv \notin {"unborn", "done"} /\ recv' \notin {"unborn", "done"}
    BY <2>2 DEF CallerMeans
  <2>3. QED
    BY <2>1, <2>2
<1>4. QED
  BY <1>1, <1>2, <1>3

\* The steps of caller and ioctl, and the end of the receiving thread.
LEMMA SendSideStep ==
  ASSUME IInv, CallerStep \/ IoctlWork \/ IoctlFail \/ RecvExit
  PROVE  IInv'
<1> USE DEF IInv
<1>1. CASE Reject
  <2>1. EndIsLast' /\ ReceiveMeans'
    BY <1>1, NoChunkMoves, ReceiveKept DEF Reject, receiveVars, handlerVars
  <2>2. TypeOK'
    BY <1>1, NoChunkTypes DEF CallerStep
  <2>3. Beginning' /\ SendMeans' /\ CallerMeans'
    BY <1>1 DEF Reject, Beginning, SendMeans, CallerMeans, receiveVars, handlerVars
  <2>4. QED
    BY <2>1, <2>2, <2>3
<1>2. CASE Start
  <2>1. EndIsLast'
    BY <1>2, NoChunkMoves DEF Start, SpawnReceive
  <2>2. TypeOK'
    BY <1>2, NoChunkTypes DEF CallerStep
  <2>3. Beginning' /\ SendMeans' /\ CallerMeans'
    BY <1>2 DEF Start, SpawnReceive, TypeOK, Beginning, SendMeans, CallerMeans
  <2>4. ReceiveMeans'
    <3>1. /\ recv = "unborn" /\ recv' = "reading" /\ recvResult = "none" /\ recvResult' = "none"
          /\ got = <<>> /\ got' = <<>> /\ handled = <<>> /\ handled' = <<>>
          /\ handler = "unborn" /\ free = <<>> /\ UNCHANGED buffered
      BY <1>2 DEF Start, SpawnReceive, Beginning, ReceiveMeans, RecvMeans, Receiving
    <3>2. buffered => Len(free') = NBuf - 1
      BY <1>2, SendAssumption DEF Start, SpawnReceive
    <3>3. ~ buffered => handler' = "unborn"
      BY <1>2, <3>1 DEF Start, SpawnReceive, handlerVars
    <3>4. RecvMeans' /\ AnswersMean'
      BY <3>1, <3>3 DEF RecvMeans, AnswersMean, Receiving
    <3>5. BuffersCirculate'
      BY <3>1, <3>2, SendAssumption DEF BuffersCirculate, Held, Lost, Panicked
    <3>6. OkMeans'
      BY <3>1 DEF OkMeans
    <3>7. QED
      BY <3>4, <3>5, <3>6 DEF ReceiveMeans
  <2>5. QED
    BY <2>1, <2>2, <2>3, <2>4
<1>3. CASE JoinRecv
  <2>1. EndIsLast' /\ ReceiveMeans'
    BY <1>3, NoChunkMoves, ReceiveKept DEF JoinRecv, return, receiveVars, handlerVars
  <2>2. TypeOK'
    BY <1>3, NoChunkTypes DEF CallerStep
  <2>3. Beginning' /\ SendMeans' /\ CallerMeans'
    BY <1>3 DEF JoinRecv, return, TypeOK, Beginning, SendMeans, CallerMeans, ReceiveMeans, RecvMeans, Receiving, receiveVars, handlerVars
  <2>4. QED
    BY <2>1, <2>2, <2>3
<1>4. CASE JoinSend
  <2>1. EndIsLast' /\ ReceiveMeans'
    BY <1>4, NoChunkMoves, ReceiveKept DEF JoinSend, return, receiveVars, handlerVars
  <2>2. TypeOK'
    BY <1>4, NoChunkTypes DEF CallerStep
  <2>3. Beginning' /\ SendMeans' /\ CallerMeans'
    BY <1>4 DEF JoinSend, return, TypeOK, Beginning, SendMeans, CallerMeans, receiveVars, handlerVars
  <2>4. QED
    BY <2>1, <2>2, <2>3
<1>5. CASE AfterIoctl
  <2>1. EndIsLast' /\ ReceiveMeans'
    BY <1>5, NoChunkMoves, ReceiveKept DEF AfterIoctl, return, receiveVars, handlerVars
  <2>2. TypeOK'
    BY <1>5, NoChunkTypes DEF CallerStep
  <2>3. Beginning' /\ SendMeans' /\ CallerMeans'
    BY <1>5 DEF AfterIoctl, return, TypeOK, Beginning, SendMeans, CallerMeans, receiveVars, handlerVars
  <2>4. QED
    BY <2>1, <2>2, <2>3
<1>6. CASE IoctlStart
  <2>1. EndIsLast' /\ ReceiveMeans'
    BY <1>6, NoChunkMoves, ReceiveKept DEF IoctlStart, receiveVars, handlerVars
  <2>2. TypeOK'
    BY <1>6, NoChunkTypes
  <2>3. Beginning' /\ SendMeans' /\ CallerMeans'
    BY <1>6 DEF IoctlStart, TypeOK, Beginning, SendMeans, CallerMeans, receiveVars, handlerVars
  <2>4. QED
    BY <2>1, <2>2, <2>3
<1>7. CASE IoctlWrite
  <2>1. /\ toSend' \in Seq({"cmd", "end"}) /\ Len(toSend') = Len(toSend) - 1
        /\ \A i \in 1 .. Len(toSend') : toSend'[i] = toSend[i + 1]
        /\ Head(toSend) = toSend[1] /\ Len(toSend) \in Nat \ {0}
    BY <1>7 DEF IoctlWrite, TypeOK
  <2>2. /\ pipe' \in Seq({"cmd", "end"}) /\ Len(pipe') = Len(pipe) + 1
        /\ \A i \in 1 .. Len(pipe) : pipe'[i] = pipe[i]
        /\ pipe'[Len(pipe) + 1] = toSend[1] /\ Len(pipe) \in Nat
    BY <1>7, <2>1 DEF IoctlWrite, TypeOK
  <2>3. TypeOK'
    BY <1>7, <2>1, <2>2, SendAssumption DEF IoctlWrite, HasRoom, TypeOK, receiveVars, handlerVars
  <2>4. EndIsLast'
    <3>1. \A i \in 1 .. Len(toSend') : toSend'[i] = "end" => i = Len(toSend')
      BY <2>1 DEF EndIsLast
    <3>2. toSend[1] = "end" => toSend' = <<>>
      BY <2>1 DEF EndIsLast
    <3>3. ASSUME NEW i \in 1 .. Len(pipe'), pipe'[i] = "end"
          PROVE  i = Len(pipe') /\ toSend' = <<>>
      BY <1>7, <2>2, <3>2, <3>3 DEF EndIsLast, IoctlWrite
    <3>4. \A i \in 1 .. Len(got') : got'[i] # "end"
      BY <1>7 DEF EndIsLast, IoctlWrite, receiveVars
    <3>5. QED
      BY <3>1, <3>3, <3>4 DEF EndIsLast
  <2>5. Beginning' /\ SendMeans' /\ CallerMeans'
    BY <1>7 DEF IoctlWrite, Beginning, SendMeans, CallerMeans, receiveVars
  <2>6. ReceiveMeans'
    BY <1>7, ReceiveKept DEF IoctlWrite, receiveVars, handlerVars
  <2>7. QED
    BY <2>3, <2>4, <2>5, <2>6
<1>8. CASE IoctlBrokenPipe
  <2>1. EndIsLast' /\ ReceiveMeans'
    BY <1>8, NoChunkMoves, ReceiveKept DEF IoctlBrokenPipe, ioctl_return, receiveVars, handlerVars
  <2>2. TypeOK'
    BY <1>8, NoChunkTypes
  <2>3. Beginning' /\ SendMeans' /\ CallerMeans'
    BY <1>8 DEF IoctlBrokenPipe, ioctl_return, TypeOK, Beginning, SendMeans, CallerMeans, receiveVars, handlerVars
  <2>4. QED
    BY <2>1, <2>2, <2>3
<1>9. CASE IoctlOk
  <2>1. EndIsLast' /\ ReceiveMeans'
    BY <1>9, NoChunkMoves, ReceiveKept DEF IoctlOk, ioctl_return, receiveVars, handlerVars
  <2>2. TypeOK'
    BY <1>9, NoChunkTypes
  <2>3. Beginning' /\ SendMeans' /\ CallerMeans'
    BY <1>9 DEF IoctlOk, ioctl_return, TypeOK, Beginning, SendMeans, CallerMeans, receiveVars, handlerVars
  <2>4. QED
    BY <2>1, <2>2, <2>3
<1>10. CASE IoctlFail
  <2>1. EndIsLast' /\ ReceiveMeans'
    BY <1>10, NoChunkMoves, ReceiveKept DEF IoctlFail, ioctl_return, receiveVars, handlerVars
  <2>2. TypeOK'
    BY <1>10, NoChunkTypes
  <2>3. Beginning' /\ SendMeans' /\ CallerMeans'
    BY <1>10 DEF IoctlFail, ioctl_return, TypeOK, Beginning, SendMeans, CallerMeans, receiveVars, handlerVars
  <2>4. QED
    BY <2>1, <2>2, <2>3
<1>11. CASE RecvExit
  <2>1. EndIsLast'
    BY <1>11, NoChunkMoves DEF RecvExit, receiveVars
  <2>2. TypeOK'
    BY <1>11, NoChunkTypes
  <2>3. Beginning' /\ SendMeans' /\ CallerMeans'
    BY <1>11 DEF RecvExit, Beginning, SendMeans, CallerMeans, receiveVars
  <2>4. ReceiveMeans'
    BY <1>11 DEF RecvExit, ReceiveMeans, RecvMeans, AnswersMean, BuffersCirculate, OkMeans, Receiving,
                 HandledBut, AtEnd, receiveVars, handlerVars
  <2>5. QED
    BY <2>1, <2>2, <2>3, <2>4
<1>12. QED
  BY <1>1, <1>2, <1>3, <1>4, <1>5, <1>6, <1>7, <1>8, <1>9, <1>10, <1>11 DEF CallerStep, IoctlWork

\* The reader takes a command out of the pipe.
TakesCommand ==
  pipe # <<>> /\ pipe' = Tail(pipe) /\ got' = Append(got, Head(pipe)) /\ UNCHANGED toSend

LEMMA CommandTaken ==
  ASSUME TypeOK, EndIsLast, TakesCommand
  PROVE  /\ pipe' \in Seq({"cmd", "end"}) /\ Len(pipe') <= PipeCapacity
         /\ got' \in Seq({"cmd", "end"}) /\ Len(got') = Len(got) + 1 /\ got' # <<>>
         /\ EndIsLast'
<1>1. /\ pipe' \in Seq({"cmd", "end"}) /\ Len(pipe') = Len(pipe) - 1
      /\ \A i \in 1 .. Len(pipe') : pipe'[i] = pipe[i + 1]
      /\ Head(pipe) = pipe[1] /\ Len(pipe) \in Nat \ {0}
  BY DEF TypeOK, TakesCommand
<1>2. /\ got' \in Seq({"cmd", "end"}) /\ Len(got') = Len(got) + 1
      /\ \A i \in 1 .. Len(got) : got'[i] = got[i]
      /\ got'[Len(got) + 1] = pipe[1] /\ Len(got) \in Nat
  BY <1>1 DEF TypeOK, TakesCommand
<1>3. UNCHANGED toSend
  BY DEF TakesCommand
<1>4. Len(pipe') <= PipeCapacity
  BY <1>1, SendAssumption DEF TypeOK
<1>5. EndIsLast'
  <2>1. \A i \in 1 .. Len(pipe') : pipe'[i] = "end" => i = Len(pipe') /\ toSend' = <<>>
    BY <1>1, <1>3 DEF EndIsLast
  <2>2. pipe[1] = "end" => pipe' = <<>> /\ toSend' = <<>>
    BY <1>1, <1>3 DEF EndIsLast
  <2>3. \A i \in 1 .. Len(got) : got[i] # "end"
    BY <1>1 DEF EndIsLast
  <2>4. ASSUME NEW i \in 1 .. Len(got'), got'[i] = "end"
        PROVE  i = Len(got') /\ pipe' = <<>> /\ toSend' = <<>>
    BY <1>2, <2>2, <2>3, <2>4
  <2>5. \A i \in 1 .. Len(toSend') : toSend'[i] = "end" => i = Len(toSend')
    BY <1>3 DEF EndIsLast
  <2>6. QED
    BY <2>1, <2>4, <2>5 DEF EndIsLast
<1>6. got' # <<>>
  BY <1>2
<1>7. QED
  BY <1>1, <1>2, <1>4, <1>5, <1>6

\* One answer more.
LEMMA AnswerAdded ==
  ASSUME handled \in Seq(Answers), NEW a \in Answers, handled' = Append(handled, a)
  PROVE  /\ handled' \in Seq(Answers) /\ Len(handled') = Len(handled) + 1 /\ handled' # <<>>
         /\ handled'[Len(handled')] = a
         /\ \A i \in 1 .. Len(handled) : handled'[i] = handled[i]
OBVIOUS

LEMMA RecvCmdStep == IInv /\ RecvCmd => IInv'
<1> SUFFICES ASSUME IInv, RecvCmd PROVE IInv'
  OBVIOUS
<1> USE DEF IInv
<1>1. /\ recv = "reading" /\ ~ buffered /\ pipe # <<>> /\ pipe' = Tail(pipe)
      /\ got' = Append(got, Head(pipe))
      /\ UNCHANGED <<mode, toSend, caller, send, writerFd, kernelRef, buffered, handler, free,
                     sendResult, outcome>>
  BY DEF RecvCmd, handlerVars
<1>2. PICK a \in Answers :
        /\ handled' = Append(handled, a)
        /\ \/ a = "some"  /\ UNCHANGED <<recv, recvResult, reader>>
           \/ a = "none"  /\ finish("ok")
           \/ a = "err"   /\ finish("handler_err")
           \/ a = "panic" /\ finish("panic")
  BY DEF RecvCmd
<1>3. /\ pipe' \in Seq({"cmd", "end"}) /\ Len(pipe') <= PipeCapacity
      /\ got' \in Seq({"cmd", "end"}) /\ Len(got') = Len(got) + 1 /\ got' # <<>>
      /\ EndIsLast'
  BY <1>1, CommandTaken DEF TakesCommand
<1>4. /\ handled' \in Seq(Answers) /\ Len(handled') = Len(handled) + 1 /\ handled' # <<>>
      /\ handled'[Len(handled')] = a
      /\ \A i \in 1 .. Len(handled) : handled'[i] = handled[i]
  BY <1>2, AnswerAdded DEF TypeOK
<1>5. Len(got) \in Nat /\ Len(handled) = Len(got) /\ recvResult = "none" /\ handler = "unborn"
  BY <1>1 DEF TypeOK, ReceiveMeans, RecvMeans, Receiving
<1>6. \/ a = "some" /\ recv' = "reading" /\ recvResult' = "none" /\ reader' = reader
      \/ /\ a # "some" /\ recv' = "returned" /\ reader' = FALSE
         /\ recvResult' \in {"ok", "handler_err", "panic"} /\ (recvResult' = "ok" <=> a = "none")
  BY <1>1, <1>2, <1>5 DEF finish
<1>7. TypeOK'
  <2>1. /\ recv' \in {"unborn", "reading", "waiting", "suspecting", "leaving", "returned", "done"}
        /\ recvResult' \in {"none", "ok", "handler_err", "read_err", "panic"}
        /\ reader' \in BOOLEAN
    BY <1>6 DEF TypeOK
  <2>2. QED
    BY <1>1, <1>3, <1>4, <2>1 DEF TypeOK
<1>8. Beginning' /\ SendMeans' /\ CallerMeans'
  BY <1>1, <1>6, OthersKept DEF Beginning
<1>9. RecvMeans'
  BY <1>1, <1>3, <1>4, <1>5, <1>6 DEF RecvMeans, Receiving
<1>10. AnswersMean'
  <2>1. ASSUME NEW i \in 1 .. Len(handled)
        PROVE  handled'[i] \in {"some", "none"}
    BY <1>1, <1>4, <1>5, <2>1 DEF ReceiveMeans, RecvMeans, AnswersMean
  <2>2. QED
    BY <1>1, <1>3, <1>4, <1>5, <2>1 DEF AnswersMean
<1>11. BuffersCirculate' /\ OkMeans'
  BY <1>1, <1>3, <1>4, <1>6 DEF BuffersCirculate, OkMeans
<1>12. QED
  BY <1>3, <1>7, <1>8, <1>9, <1>10, <1>11 DEF ReceiveMeans

LEMMA PushCmdStep == IInv /\ PushCmd => IInv'
<1> SUFFICES ASSUME IInv, PushCmd PROVE IInv'
  OBVIOUS
<1> USE DEF IInv
<1>1. /\ recv = "reading" /\ buffered /\ pipe # <<>> /\ pipe' = Tail(pipe)
      /\ got' = Append(got, Head(pipe)) /\ recv' = "waiting"
      /\ UNCHANGED <<mode, toSend, caller, send, writerFd, kernelRef, reader, buffered, handled,
                     handler, free, sendResult, recvResult, outcome>>
  BY DEF PushCmd, handlerVars
<1>2. /\ pipe' \in Seq({"cmd", "end"}) /\ Len(pipe') <= PipeCapacity
      /\ got' \in Seq({"cmd", "end"}) /\ Len(got') = Len(got) + 1 /\ got' # <<>>
      /\ EndIsLast'
  BY <1>1, CommandTaken DEF TakesCommand
<1>3. Len(got) \in Nat /\ Len(handled) \in Nat /\ Len(free) \in Nat /\ recvResult = "none"
  BY <1>1 DEF TypeOK, ReceiveMeans, RecvMeans, Receiving
<1>4. TypeOK'
  BY <1>1, <1>2 DEF TypeOK
<1>5. Beginning' /\ SendMeans' /\ CallerMeans'
  BY <1>1, OthersKept DEF Beginning
<1>6. RecvMeans' /\ OkMeans'
  BY <1>1, <1>3 DEF ReceiveMeans, RecvMeans, OkMeans, Receiving
<1>7. AnswersMean'
  BY <1>1, <1>2, <1>3 DEF ReceiveMeans, AnswersMean, Receiving
<1>8. BuffersCirculate'
  <2>1. 1 + Len(free) + (Len(got) - Len(handled)) + Lost = NBuf /\ Lost \in Nat /\ Lost' = Lost
    BY <1>1 DEF ReceiveMeans, BuffersCirculate, Receiving, Held, Lost, Panicked
  <2>2. QED
    BY <1>1, <1>2, <1>3, <2>1, SendAssumption DEF BuffersCirculate, Held
<1>9. QED
  BY <1>2, <1>4, <1>5, <1>6, <1>7, <1>8 DEF ReceiveMeans

LEMMA TakeBufferStep == IInv /\ TakeBuffer => IInv'
<1> SUFFICES ASSUME IInv, TakeBuffer PROVE IInv'
  OBVIOUS
<1> USE DEF IInv
<1>1. /\ recv = "waiting" /\ free # <<>> /\ free' = Tail(free)
      /\ UNCHANGED <<mode, toSend, caller, send, pipe, writerFd, kernelRef, reader, buffered, got,
                     handled, handler, sendResult, outcome>>
  BY DEF TakeBuffer
<1>2. /\ buffered /\ recvResult = "none" /\ handler \in {"unborn", "poll", "suspect", "gone"}
      /\ Len(got) \in Nat /\ Len(handled) \in Nat
  BY <1>1 DEF TypeOK, ReceiveMeans, RecvMeans, Receiving
<1>3. \/ Head(free) = "buf" /\ recv' = "reading" /\ recvResult' = "none"
      \/ recv' = "leaving" /\ recvResult' = "handler_err"
  BY <1>2 DEF TakeBuffer, leave
<1>4. /\ free' \in Seq({"buf", "err"}) /\ Len(free) \in Nat \ {0} /\ Len(free') = Len(free) - 1
      /\ Head(free) = free[1]
      /\ free' # <<>> => free'[Len(free')] = free[Len(free)]
      /\ free' = <<>> => Len(free) = 1
  <2>1. free \in Seq({"buf", "err"}) /\ free # <<>>
    BY <1>1 DEF TypeOK
  <2>2. /\ Tail(free) \in Seq({"buf", "err"}) /\ Len(free) \in Nat \ {0}
        /\ Len(Tail(free)) = Len(free) - 1 /\ Head(free) = free[1]
        /\ \A i \in 1 .. Len(free) - 1 : Tail(free)[i] = free[i + 1]
    BY <2>1
  <2>3. Tail(free) # <<>> => Len(free) - 1 \in 1 .. Len(free) - 1
    BY <2>2
  <2>4. Tail(free) # <<>> => Tail(free)[Len(free) - 1] = free[Len(free)]
    BY <2>2, <2>3
  <2>5. Tail(free) = <<>> => Len(free) = 1
    <3>1. Tail(free) = <<>> => Len(Tail(free)) = 0
      OBVIOUS
    <3>2. QED
      BY <2>2, <3>1
  <2>6. QED
    BY <1>1, <2>2, <2>4, <2>5
<1>5. TypeOK'
  BY <1>1, <1>3, <1>4 DEF TypeOK
<1>6. Beginning' /\ SendMeans' /\ CallerMeans'
  BY <1>1, <1>3, OthersKept DEF Beginning
<1>7. EndIsLast'
  BY <1>1, NoChunkMoves
<1>8. RecvMeans' /\ OkMeans'
  BY <1>1, <1>2, <1>3 DEF RecvMeans, OkMeans, Receiving
<1>9. AnswersMean'
  BY <1>1, <1>2, <1>3, <1>4 DEF ReceiveMeans, AnswersMean, Receiving
<1>10. BuffersCirculate'
  <2>1. 0 + Len(free) + (Len(got) - Len(handled)) + Lost = NBuf /\ Lost \in Nat /\ Lost' = Lost
    BY <1>1, <1>2 DEF ReceiveMeans, BuffersCirculate, Receiving, Held, Lost, Panicked
  <2>2. QED
    BY <1>1, <1>2, <1>3, <1>4, <2>1, SendAssumption DEF BuffersCirculate, Held, Receiving
<1>11. QED
  BY <1>5, <1>6, <1>7, <1>8, <1>9, <1>10 DEF ReceiveMeans

LEMMA SuspicionStep == IInv /\ (FoundNoBuffer \/ CheckHandler) => IInv'
<1> SUFFICES ASSUME IInv, FoundNoBuffer \/ CheckHandler PROVE IInv'
  OBVIOUS
<1> USE DEF IInv
<1>1. /\ recv \in {"waiting", "suspecting"}
      /\ UNCHANGED <<mode, toSend, caller, send, pipe, writerFd, kernelRef, reader, buffered, got,
                     handled, handler, free, sendResult, outcome>>
  BY DEF FoundNoBuffer, CheckHandler, receiveVars, handlerVars
<1>2. /\ buffered /\ recvResult = "none"
  BY <1>1 DEF ReceiveMeans, RecvMeans, Receiving
<1>3. \/ recv' \in {"waiting", "suspecting"} /\ recvResult' = "none"
      \/ recv' = "leaving" /\ recvResult' = "panic"
  BY <1>2 DEF FoundNoBuffer, CheckHandler, leave
<1>4. TypeOK'
  BY <1>1, <1>3 DEF TypeOK
<1>5. Beginning' /\ SendMeans' /\ CallerMeans'
  BY <1>1, <1>3, OthersKept DEF Beginning
<1>6. EndIsLast'
  BY <1>1, NoChunkMoves
<1>7. RecvMeans' /\ OkMeans'
  BY <1>1, <1>2, <1>3 DEF RecvMeans, OkMeans, Receiving
<1>8. AnswersMean'
  BY <1>1, <1>2, <1>3 DEF ReceiveMeans, AnswersMean, Receiving
<1>9. BuffersCirculate'
  BY <1>1, <1>2, <1>3 DEF ReceiveMeans, BuffersCirculate, Receiving, Held, Lost, Panicked
<1>10. QED
  BY <1>4, <1>5, <1>6, <1>7, <1>8, <1>9 DEF ReceiveMeans

\* While the reader holds a buffer, all commands but the last NBuf - 1 are handled,
\* and none of them failed.
LEMMA ReadingMeansHandled ==
  ASSUME TypeOK, ReceiveMeans, recv = "reading", buffered
  PROVE  HandledBut(NBuf - 1)
<1>1. /\ Len(got) \in Nat /\ Len(handled) \in Nat /\ Len(free) \in Nat /\ NBuf \in Nat
      /\ handled \in Seq(Answers) /\ Len(handled) <= Len(got)
  BY SendAssumption DEF TypeOK, ReceiveMeans, AnswersMean
<1>2. 1 + Len(free) + (Len(got) - Len(handled)) + Lost = NBuf /\ Lost \in {0, 1}
  BY DEF ReceiveMeans, BuffersCirculate, Receiving, Held, Lost
<1>3. SUFFICES ASSUME NEW i \in 1 .. Len(got) - (NBuf - 1)
      PROVE  i <= Len(handled) /\ handled[i] \in {"some", "none"}
  BY DEF HandledBut
<1>4. i <= Len(handled) /\ i \in 1 .. Len(handled)
  BY <1>1, <1>2
<1>5. CASE i < Len(handled)
  BY <1>1, <1>5 DEF ReceiveMeans, AnswersMean
<1>6. CASE i = Len(handled)
  <2>1. handled # <<>> /\ handled[Len(handled)] \in Answers
    BY <1>1, <1>4, <1>6
  <2>2. Lost = 0 /\ Len(free) = 0
    BY <1>1, <1>2, <1>6
  <2>3. handled[Len(handled)] # "panic"
    BY <2>1, <2>2 DEF Lost, Panicked
  <2>4. handled[Len(handled)] # "err"
    BY <1>1, <2>1, <2>2 DEF TypeOK, ReceiveMeans, AnswersMean, Receiving
  <2>5. QED
    BY <1>4, <1>6, <2>1, <2>3, <2>4 DEF Answers
<1>7. QED
  BY <1>1, <1>4, <1>5, <1>6

LEMMA LeaveStep == IInv /\ (FinishLoop \/ RecvEof) => IInv'
<1> SUFFICES ASSUME IInv, FinishLoop \/ RecvEof PROVE IInv'
  OBVIOUS
<1> USE DEF IInv
<1>1. /\ recv = "reading"
      /\ UNCHANGED <<mode, toSend, caller, send, pipe, writerFd, kernelRef, buffered, got,
                     handled, handler, free, sendResult, outcome>>
  BY DEF FinishLoop, RecvEof, receiveVars, handlerVars
<1>2. recvResult = "none" /\ (~ buffered => handler = "unborn" /\ Len(handled) = Len(got))
  BY <1>1 DEF ReceiveMeans, RecvMeans, Receiving
<1>3. /\ reader' \in BOOLEAN
      /\ \/ buffered /\ AtEnd /\ recv' = "leaving" /\ recvResult' = "ok"
         \/ buffered /\ ~ writerFd /\ recv' = "leaving" /\ recvResult' = "read_err"
         \/ ~ buffered /\ ~ writerFd /\ recv' = "returned" /\ recvResult' = "read_err"
  BY DEF FinishLoop, RecvEof, leave, finish, TypeOK
<1>4. TypeOK'
  BY <1>1, <1>3 DEF TypeOK
<1>5. Beginning' /\ SendMeans' /\ CallerMeans'
  <2>1. send \notin {"idle", "ready"}
    BY <1>1, <1>3 DEF Beginning, AtEnd
  <2>2. QED
    BY <1>1, <1>3, <2>1, OthersKept
<1>6. EndIsLast'
  BY <1>1, NoChunkMoves
<1>7. RecvMeans'
  BY <1>1, <1>2, <1>3 DEF RecvMeans, Receiving
<1>8. AnswersMean'
  BY <1>1, <1>2, <1>3 DEF ReceiveMeans, AnswersMean, Receiving
<1>9. BuffersCirculate'
  BY <1>3 DEF BuffersCirculate, Receiving
<1>10. OkMeans'
  <2>1. CASE recvResult' = "ok"
    <3>1. buffered /\ AtEnd /\ HandledBut(NBuf - 1)
      BY <1>1, <1>3, <2>1, ReadingMeansHandled
    <3>2. AtEnd' /\ HandledBut(NBuf - 1)' /\ got' # <<>> /\ buffered'
      BY <1>1, <3>1 DEF AtEnd, HandledBut
    <3>3. QED
      BY <3>2 DEF OkMeans
  <2>2. QED
    BY <2>1 DEF OkMeans
<1>11. QED
  BY <1>4, <1>5, <1>6, <1>7, <1>8, <1>9, <1>10 DEF ReceiveMeans

LEMMA ScopeJoinStep == IInv /\ ScopeJoin => IInv'
<1> SUFFICES ASSUME IInv, ScopeJoin PROVE IInv'
  OBVIOUS
<1> USE DEF IInv
<1>1. /\ recv = "leaving" /\ recv' = "returned" /\ reader' = FALSE
      /\ recvResult' = IF Panicked THEN "panic" ELSE recvResult
      /\ UNCHANGED <<mode, toSend, caller, send, pipe, writerFd, kernelRef, buffered, got,
                     handled, handler, free, sendResult, outcome>>
  BY DEF ScopeJoin, finish, receiveVars, handlerVars
<1>2. buffered /\ recvResult # "none" /\ recvResult' # "none"
  BY <1>1 DEF TypeOK, ReceiveMeans, RecvMeans, Receiving
<1>3. recvResult' = "ok" => recvResult = "ok"
  BY <1>1
<1>4. TypeOK'
  <2>1. recvResult' \in {"none", "ok", "handler_err", "read_err", "panic"}
    BY <1>1 DEF TypeOK
  <2>2. /\ recv' \in {"unborn", "reading", "waiting", "suspecting", "leaving", "returned", "done"}
        /\ reader' \in BOOLEAN
        /\ UNCHANGED <<mode, toSend, caller, send, pipe, writerFd, kernelRef, buffered, got,
                       handled, handler, free, sendResult, outcome>>
    BY <1>1
  <2>3. QED
    BY <2>1, <2>2 DEF TypeOK
<1>5. Beginning' /\ SendMeans' /\ CallerMeans'
  <2>1. send \notin {"idle", "ready"}
    BY <1>1 DEF Beginning
  <2>2. QED
    BY <1>1, <2>1, OthersKept
<1>6. EndIsLast'
  BY <1>1, NoChunkMoves
<1>7. RecvMeans'
  BY <1>1, <1>2 DEF RecvMeans, Receiving
<1>8. AnswersMean'
  BY <1>1, <1>2 DEF ReceiveMeans, AnswersMean, Receiving
<1>9. BuffersCirculate'
  BY <1>1 DEF BuffersCirculate, Receiving
<1>10. OkMeans'
  BY <1>1, <1>2, <1>3 DEF ReceiveMeans, OkMeans, AtEnd, HandledBut
<1>11. QED
  BY <1>4, <1>5, <1>6, <1>7, <1>8, <1>9, <1>10 DEF ReceiveMeans

LEMMA HandleCmdStep == IInv /\ HandleCmd => IInv'
<1> SUFFICES ASSUME IInv, HandleCmd PROVE IInv'
  OBVIOUS
<1> USE DEF IInv
<1>1. /\ handler = "poll" /\ Len(handled) < Len(got)
      /\ UNCHANGED <<mode, toSend, caller, send, recv, pipe, writerFd, kernelRef, reader, buffered,
                     got, sendResult, recvResult, outcome>>
  BY DEF HandleCmd
<1>2. PICK a \in Answers :
        /\ handled' = Append(handled, a)
        /\ \/ a \in {"some", "none"} /\ free' = Append(free, "buf") /\ UNCHANGED handler
           \/ a = "err"   /\ free' = Append(free, "err") /\ handler' = "gone"
           \/ a = "panic" /\ UNCHANGED free /\ handler' = "gone"
  BY DEF HandleCmd, Reported
<1>3. /\ handled' \in Seq(Answers) /\ Len(handled') = Len(handled) + 1 /\ handled' # <<>>
      /\ handled'[Len(handled')] = a
      /\ \A i \in 1 .. Len(handled) : handled'[i] = handled[i]
  BY <1>2, AnswerAdded DEF TypeOK
<1>4. /\ Len(got) \in Nat /\ Len(handled) \in Nat /\ handled \in Seq(Answers)
      /\ free \in Seq({"buf", "err"}) /\ Len(free) \in Nat
  BY DEF TypeOK
<1>5. buffered /\ recv # "unborn"
  BY <1>1 DEF ReceiveMeans, RecvMeans
<1>6. /\ free' \in Seq({"buf", "err"})
      /\ a # "panic" => Len(free') = Len(free) + 1
      /\ a = "panic" => Len(free') = Len(free)
      /\ a = "err" => free' # <<>> /\ free'[Len(free')] = "err"
  <2>1. ASSUME NEW b \in {"buf", "err"}
        PROVE  /\ Append(free, b) \in Seq({"buf", "err"}) /\ Append(free, b) # <<>>
               /\ Len(Append(free, b)) = Len(free) + 1
               /\ Append(free, b)[Len(Append(free, b))] = b
    BY <1>4
  <2>2. CASE a \in {"some", "none"}
    BY <1>2, <2>1, <2>2
  <2>3. CASE a = "err"
    BY <1>2, <2>1, <2>3
  <2>4. CASE a = "panic"
    BY <1>2, <1>4, <2>4
  <2>5. QED
    BY <2>2, <2>3, <2>4 DEF Answers
<1>7. handled # <<>> => handled[Len(handled)] \in {"some", "none"}
  <2>1. handled # <<>> => handled[Len(handled)] \in Answers
    BY <1>4
  <2>2. QED
    BY <1>1, <1>5, <2>1 DEF ReceiveMeans, AnswersMean, Answers
<1>8. TypeOK'
  BY <1>1, <1>2, <1>3, <1>6 DEF TypeOK
<1>9. Beginning' /\ SendMeans' /\ CallerMeans'
  BY <1>1, OthersKept
<1>10. EndIsLast'
  BY <1>1, NoChunkMoves DEF HandleCmd
<1>11. RecvMeans'
  BY <1>1, <1>5 DEF ReceiveMeans, RecvMeans, Receiving
<1>12. AnswersMean'
  <2>1. ASSUME NEW i \in 1 .. Len(handled)
        PROVE  handled'[i] \in {"some", "none"}
    BY <1>3, <1>4, <1>7, <2>1 DEF ReceiveMeans, AnswersMean
  <2>2. a \in {"err", "panic"} => handler' = "gone"
    BY <1>2
  <2>3. QED
    BY <1>1, <1>3, <1>4, <1>6, <2>1, <2>2 DEF AnswersMean
<1>13. BuffersCirculate'
  <2>1. CASE recv \in Receiving
    <3>1. Held + Len(free) + (Len(got) - Len(handled)) + Lost = NBuf /\ Held \in {0, 1} /\ Held' = Held
      BY <1>1, <1>5, <2>1 DEF ReceiveMeans, BuffersCirculate, Held
    <3>2. Lost = 0
      BY <1>7 DEF Lost, Panicked
    <3>3. Lost' = IF a = "panic" THEN 1 ELSE 0
      BY <1>3 DEF Lost, Panicked
    <3>4. QED
      BY <1>1, <1>3, <1>4, <1>6, <3>1, <3>2, <3>3, SendAssumption DEF BuffersCirculate
  <2>2. QED
    BY <1>1, <2>1 DEF BuffersCirculate
<1>14. OkMeans'
  <2>1. CASE recvResult = "ok"
    <3>1. AtEnd' /\ got' # <<>> /\ buffered'
      BY <1>1, <1>5, <2>1 DEF ReceiveMeans, OkMeans, AtEnd
    <3>2. HandledBut(NBuf - 1)'
      <4>1. SUFFICES ASSUME NEW i \in 1 .. Len(got) - (NBuf - 1)
            PROVE  i <= Len(handled') /\ handled'[i] \in {"some", "none"}
        BY <1>1 DEF HandledBut
      <4>2. i <= Len(handled) /\ handled[i] \in {"some", "none"}
        BY <1>5, <2>1 DEF ReceiveMeans, OkMeans, HandledBut
      <4>3. i \in 1 .. Len(handled)
        BY <1>4, <4>2, SendAssumption
      <4>4. QED
        BY <1>3, <1>4, <4>2, <4>3
    <3>3. QED
      BY <3>1, <3>2 DEF OkMeans
  <2>2. QED
    BY <1>1, <2>1 DEF OkMeans
<1>15. QED
  BY <1>8, <1>9, <1>10, <1>11, <1>12, <1>13, <1>14 DEF ReceiveMeans

LEMMA HandlerPollStep == IInv /\ (FoundNoCmd \/ CheckMain) => IInv'
<1> SUFFICES ASSUME IInv, FoundNoCmd \/ CheckMain PROVE IInv'
  OBVIOUS
<1> USE DEF IInv
<1>1. /\ handler \in {"poll", "suspect"} /\ handler' \in {"poll", "suspect", "gone"}
      /\ UNCHANGED <<mode, toSend, caller, send, recv, pipe, writerFd, kernelRef, reader, buffered,
                     got, handled, free, sendResult, recvResult, outcome>>
  BY DEF FoundNoCmd, CheckMain
<1>2. buffered /\ recv # "unborn"
  BY <1>1 DEF ReceiveMeans, RecvMeans
<1>3. TypeOK'
  BY <1>1 DEF TypeOK
<1>4. Beginning' /\ SendMeans' /\ CallerMeans'
  BY <1>1, OthersKept
<1>5. EndIsLast'
  BY <1>1, NoChunkMoves
<1>6. RecvMeans'
  BY <1>1, <1>2 DEF ReceiveMeans, RecvMeans, Receiving
<1>7. AnswersMean'
  BY <1>1, <1>2 DEF ReceiveMeans, AnswersMean, Receiving
<1>8. BuffersCirculate' /\ OkMeans'
  BY <1>1, <1>2 DEF ReceiveMeans, BuffersCirculate, OkMeans, Held, Lost, Panicked, AtEnd, HandledBut
<1>9. QED
  BY <1>3, <1>4, <1>5, <1>6, <1>7, <1>8 DEF ReceiveMeans

LEMMA SendStep == IInv /\ [Next]_vars => IInv'
<1> SUFFICES ASSUME IInv, [Next]_vars PROVE IInv'
  OBVIOUS
<1>1. CASE UNCHANGED vars
  <2>1. ReceiveMeans'
    BY <1>1, ReceiveKept DEF IInv, vars, receiveVars, handlerVars
  <2>2. TypeOK' /\ EndIsLast' /\ Beginning' /\ SendMeans' /\ CallerMeans'
    BY <1>1 DEF IInv, vars, receiveVars, handlerVars, TypeOK, EndIsLast, Beginning, SendMeans,
                CallerMeans
  <2>3. QED
    BY <2>1, <2>2 DEF IInv
<1>2. CASE Next
  <2>1. CASE CallerStep \/ IoctlWork \/ IoctlFail \/ RecvExit
    BY <2>1, SendSideStep
  <2>2. CASE RecvStep
    BY <2>1, <2>2, RecvCmdStep, PushCmdStep, TakeBufferStep, SuspicionStep, LeaveStep,
       ScopeJoinStep DEF RecvStep
  <2>3. CASE HandlerStep
    BY <2>3, HandleCmdStep, HandlerPollStep DEF HandlerStep
  <2>4. QED
    BY <1>2, <2>1, <2>2, <2>3 DEF Next
<1>3. QED
  BY <1>1, <1>2

\* Every reachable state of spawn_send, blocking_send and join satisfies the
\* inductive invariant.
THEOREM SendInvariant == Spec => []IInv
  BY SendInit, SendStep, PTL DEF Spec

\* Every variable keeps its type, and the pipe never holds more than it can.
THEOREM SendTypeOK == Spec => []TypeOK
<1>1. IInv => TypeOK
  BY DEF IInv
<1>2. QED
  BY <1>1, SendInvariant, PTL

\* The ioctl is given the number of a write end that is open: whichever function
\* was used, the thread that owns the PipeWriter outlives the ioctl's start.
THEOREM SendDescriptorIsValid == Spec => []DescriptorIsValid
<1>1. IInv => DescriptorIsValid
  BY DEF IInv, Beginning, SendMeans, DescriptorIsValid
<1>2. QED
  BY <1>1, SendInvariant, PTL

\* Ok from join or blocking_send: the kernel wrote the whole stream, and the receive
\* took it: the unbuffered one handled all of it, unless the handler asked to stop
\* before END; the buffered one read up to END and handled all commands but at most
\* the last NBuf - 1.
THEOREM SendOkMeansReceived == Spec => []OkMeansReceived
<1>1. ASSUME IInv, outcome = "ok"
      PROVE  sendResult = "ok" /\ recvResult = "ok"
  BY <1>1 DEF IInv, TypeOK, ReceiveMeans, RecvMeans, Receiving, CallerMeans
<1>2. ASSUME IInv, recvResult = "ok"
      PROVE  (pipe = <<>> \/ StoppedEarly) /\ (buffered => AtEnd) /\ HandledBut(Ahead)
  <2>1. got # <<>> /\ got \in Seq({"cmd", "end"})
    BY <1>2 DEF IInv, TypeOK, ReceiveMeans, OkMeans
  <2>2. Len(got) \in 1 .. Len(got) /\ got[Len(got)] \in {"cmd", "end"}
    BY <2>1
  <2>3. CASE buffered
    BY <1>2, <2>2, <2>3 DEF IInv, ReceiveMeans, OkMeans, EndIsLast, AtEnd, Ahead
  <2>4. CASE ~ buffered
    <3>1. handled[Len(handled)] = "none" /\ Len(handled) = Len(got)
      BY <1>2, <2>4 DEF IInv, ReceiveMeans, RecvMeans, OkMeans
    <3>2. pipe = <<>> \/ StoppedEarly
      BY <1>2, <2>1, <2>2, <2>4, <3>1 DEF IInv, EndIsLast, StoppedEarly
    <3>3. HandledBut(0)
      BY <1>2, <2>2, <3>1 DEF IInv, ReceiveMeans, AnswersMean, HandledBut
    <3>4. QED
      BY <2>4, <3>2, <3>3 DEF Ahead
  <2>5. QED
    BY <2>3, <2>4
<1>3. IInv => OkMeansReceived
  BY <1>1, <1>2 DEF IInv, SendMeans, OkMeansReceived
<1>4. QED
  BY <1>3, SendInvariant, PTL

\* join reports the handler's error or panic, not the EPIPE it causes.
THEOREM SendJoinReportsTheCause == Spec => []JoinReportsTheCause
<1>1. ASSUME IInv, mode = "spawn", caller = "returned", outcome = "EPIPE"
      PROVE  StoppedEarly
  <2>1. recvResult = "ok" /\ sendResult = "EPIPE"
    BY <1>1 DEF IInv, TypeOK, CallerMeans
  <2>2. got # <<>> /\ got \in Seq({"cmd", "end"}) /\ toSend # <<>>
    BY <1>1, <2>1 DEF IInv, TypeOK, ReceiveMeans, OkMeans, SendMeans
  <2>3. Len(got) \in 1 .. Len(got) /\ got[Len(got)] \in {"cmd", "end"}
    BY <2>2
  <2>4. got[Len(got)] = "cmd"
    BY <1>1, <2>2, <2>3 DEF IInv, EndIsLast
  <2>5. ~ buffered
    BY <1>1, <2>1, <2>4 DEF IInv, ReceiveMeans, OkMeans, AtEnd
  <2>6. QED
    BY <1>1, <2>1, <2>2, <2>4, <2>5 DEF IInv, ReceiveMeans, OkMeans, StoppedEarly
<1>2. ASSUME IInv, mode = "spawn", caller = "returned", recvResult \in {"handler_err", "panic"}
      PROVE  outcome = recvResult
  BY <1>2 DEF IInv, ReceiveMeans, RecvMeans, Receiving, CallerMeans
<1>3. IInv => JoinReportsTheCause
  BY <1>1, <1>2 DEF JoinReportsTheCause
<1>4. QED
  BY <1>3, SendInvariant, PTL
=============================================================================

------------------------ MODULE BufferedReceive_proofs ------------------------
(***************************************************************************)
(* Proofs about BufferedReceive: IInv is inductive, the safety properties  *)
(* follow from it, and the two threads together implement Receive with a   *)
(* reader at most NBuf commands ahead.                                     *)
(***************************************************************************)
EXTENDS BufferedReceiveInv, SequenceTheorems, TLAPS

-----------------------------------------------------------------------------
(* read_header, read_cmd and the final store.  Theirs are variables that     *)
(* DirectReceive has too: these lemmas are there as here.                    *)

\* The shape of the variables does not depend on the parts of the source the
\* two implementations add.
LEMMA ReaderInitType == ReaderInit => ReaderTypeOK
<1>1. SUFFICES ASSUME ReaderInit PROVE ReaderTypeOK
  OBVIOUS
<1>2. stream \in Stream
  BY <1>1, ReaderAssumption DEF ReaderInit
<1>3. Len(stream.cmds) \in Nat
  BY <1>2 DEF Stream
<1>4. QED
  BY <1>1, <1>3 DEF ReaderInit, ReaderTypeOK

\* What a stream of the type is made of.
LEMMA StreamShape ==
  ASSUME ReaderTypeOK
  PROVE  /\ stream \in Stream
         /\ stream.cmds \in Seq(Command)
         /\ Len(stream.cmds) \in Nat
         /\ \A i \in 1 .. Len(stream.cmds) :
               /\ stream.cmds[i] \in Command
               /\ stream.cmds[i].key \in Keys
               /\ stream.cmds[i].size \in Nat
<1>1. stream \in Stream
  BY ReaderAssumption DEF ReaderTypeOK
<1>2. stream.cmds \in Seq(Command)
  BY <1>1 DEF Stream
<1>3. \A i \in 1 .. Len(stream.cmds) : stream.cmds[i] \in Command
  BY <1>2
<1>4. QED
  BY <1>1, <1>2, <1>3 DEF Command

\* read_cmd returning Ok: the next command is the one read, and the types hold.
LEMMA ReadCmdOk ==
  ASSUME ReaderTypeOK, read_cmd_ok
  PROVE  /\ ReaderTypeOK'
         /\ stream' = stream
         /\ next' = next + 1
         /\ next' \in 1 .. Len(stream.cmds)
         /\ command' = stream.cmds[next'].key
         /\ stream.cmds[next'].fault = "none"
<1>1. /\ next + 1 \in 1 .. Len(stream.cmds)
      /\ stream.cmds[next + 1].fault = "none"
  BY DEF read_cmd_ok, Readable
<1>2. stream.cmds[next + 1].size \in Nat /\ stream.cmds[next + 1].key \in Keys
  BY <1>1, StreamShape
<1>3. /\ stream' = stream /\ next' = next + 1
      /\ command' = stream.cmds[next + 1].key
      /\ stream_pos' = stream_pos + stream.cmds[next + 1].size
      /\ position' \in {stream_pos', position}
      /\ taken' = taken + stream.cmds[next + 1].size
  BY DEF read_cmd_ok, Published
<1>4. QED
  BY <1>1, <1>2, <1>3 DEF ReaderTypeOK

\* read_header and the final store keep the types, and so does a failing
\* read_cmd; none of them moves next, command or stream.
LEMMA ReaderOtherSteps ==
  ASSUME ReaderTypeOK, read_header \/ read_cmd_err \/ publish_position
  PROVE  /\ ReaderTypeOK'
         /\ UNCHANGED <<stream, next, command, stream_pos>>
<1>1. CASE read_header
  BY <1>1, ReaderAssumption DEF read_header, ReaderTypeOK
<1>2. CASE publish_position
  BY <1>2 DEF publish_position, ReaderTypeOK
<1>3. CASE read_cmd_err
  <2>1. next + 1 \in 1 .. Len(stream.cmds) => stream.cmds[next + 1].size \in Nat
    BY StreamShape
  <2>2. taken' \in Nat
    BY <1>3, <2>1 DEF read_cmd_err, ReaderTypeOK
  <2>3. QED
    BY <1>3, <2>2 DEF read_cmd_err, ReaderTypeOK
<1>4. QED
  BY <1>1, <1>2, <1>3

\* The published position keeps within the block of the read position.
PositionTracks ==
    /\ position <= stream_pos
    /\ BlockOf(position) = BlockOf(stream_pos)

LEMMA PositionTracksSteps ==
  ASSUME ReaderTypeOK, PositionTracks,
         read_header \/ read_cmd_ok \/ read_cmd_err \/ publish_position
         \/ UNCHANGED readerVars
  PROVE  PositionTracks'
<1>1. CASE read_cmd_ok
  <2>1. next + 1 \in 1 .. Len(stream.cmds)
    BY <1>1 DEF read_cmd_ok, Readable
  <2> DEFINE pos == stream_pos + stream.cmds[next + 1].size
  <2>2. stream.cmds[next + 1].size \in Nat
    BY <2>1, StreamShape
  <2>3. /\ stream_pos' = pos
        /\ position' = IF BlockOf(stream_pos) # BlockOf(pos) THEN pos ELSE position
    BY <1>1 DEF read_cmd_ok, Published
  <2>4. stream_pos <= pos
    BY <2>2 DEF ReaderTypeOK
  <2>5. CASE BlockOf(stream_pos) # BlockOf(pos)
    <3>1. position' = stream_pos' /\ stream_pos' \in Nat
      BY <2>2, <2>3, <2>5 DEF ReaderTypeOK
    <3>2. QED
      BY <3>1 DEF PositionTracks, BlockOf
  <2>6. CASE BlockOf(stream_pos) = BlockOf(pos)
    <3>1. position' = position /\ position <= pos
      BY <2>2, <2>3, <2>4, <2>6 DEF ReaderTypeOK, PositionTracks
    <3>2. BlockOf(position)' = BlockOf(position) /\ BlockOf(stream_pos)' = BlockOf(pos)
      BY <3>1, <2>3 DEF BlockOf
    <3>3. QED
      BY <3>1, <3>2, <2>3, <2>6 DEF PositionTracks
  <2>7. QED
    BY <2>5, <2>6
<1>2. CASE read_header \/ read_cmd_err \/ UNCHANGED readerVars
  BY <1>2 DEF read_header, read_cmd_err, readerVars, PositionTracks, BlockOf
<1>3. CASE publish_position
  BY <1>3 DEF publish_position, PositionTracks, ReaderTypeOK, BlockOf
<1>4. QED
  BY <1>1, <1>2, <1>3

-----------------------------------------------------------------------------
(* The two threads.                                                          *)

\* The names that are expanded in every step.
USE DEF Born, Over, Busy, Last, HandlerErr, Failed, Panicked, leave,
        mainVars, handlerVars

\* The kinds of the variables that the counting below needs.
LEMMA Kinds ==
  ASSUME TypeOK
  PROVE  /\ next \in Nat /\ NBuf \in Nat /\ NBuf >= 2
         /\ hasBuf \in BOOLEAN
         /\ data \in Seq(Nat) /\ Len(data) \in Nat
         /\ free \in Seq({"buf", "err"}) /\ Len(free) \in Nat
         /\ handled \in Seq(Call) /\ Len(handled) \in Nat
         /\ handled # <<>> => Len(handled) \in 1 .. Len(handled)
         /\ free # <<>> => Len(free) > 0
         /\ \A i \in 1 .. Len(handled) : handled[i].reply \in Replies
<1>1. /\ next \in Nat /\ hasBuf \in BOOLEAN
      /\ data \in Seq(Nat) /\ free \in Seq({"buf", "err"})
      /\ handled \in Seq(Call)
  BY DEF TypeOK, ReaderTypeOK
<1>2. NBuf \in Nat /\ NBuf >= 2
  BY BufferedAssumption
<1>3. Len(data) \in Nat /\ Len(free) \in Nat /\ Len(handled) \in Nat
  BY <1>1
<1>4. /\ free # <<>> => Len(free) > 0
      /\ handled # <<>> => Len(handled) > 0
  BY <1>1, EmptySeq
<1>5. \A i \in 1 .. Len(handled) : handled[i] \in Call
  BY <1>1
<1>6. QED
  BY <1>1, <1>2, <1>3, <1>4, <1>5 DEF Call

\* The counts, before and after a step.
LEMMA Bits ==
  /\ MainHolds \in 0 .. 1 /\ HandlerHolds \in 0 .. 1
  /\ Unsent \in 0 .. 1 /\ Working \in 0 .. 1 /\ Unanswered \in 0 .. 1
  /\ MainHolds' \in 0 .. 1 /\ HandlerHolds' \in 0 .. 1
  /\ Unsent' \in 0 .. 1 /\ Working' \in 0 .. 1 /\ Unanswered' \in 0 .. 1
BY DEF MainHolds, HandlerHolds, Unsent, Working, Unanswered

LEMMA BufferedInit == Init => IInv
<1>1. SUFFICES ASSUME Init PROVE IInv
  OBVIOUS
<1>2. TypeOK
  <2>1. ReaderTypeOK
    BY <1>1, ReaderInitType DEF Init
  <2>2. 0 \in 0 .. MaxSpins
    BY BufferedAssumption
  <2>3. <<>> \in Seq(Nat) /\ <<>> \in Seq({"buf", "err"}) /\ <<>> \in Seq(Call)
    BY EmptySeq
  <2>4. QED
    BY <1>1, <2>1, <2>2, <2>3 DEF Init, TypeOK, MainPcs, HandlerPcs, Results
<1>3. MainControl /\ ResultMeans /\ Buffers /\ InFlight /\ Failing /\ FewUnanswered
  BY <1>1 DEF Init, ReaderInit, MainControl, ResultMeans, Buffers, InFlight, Failing,
              FewUnanswered, MainHolds, HandlerHolds, Unsent, Working, Unanswered
<1>4. ReadUpToEnd
  BY <1>1 DEF Init, ReaderInit, ReadUpToEnd
<1>5. QED
  BY <1>2, <1>3, <1>4 DEF IInv

-----------------------------------------------------------------------------
(* One lemma per action of the calling thread. *)

LEMMA StepReadHeader ==
  ASSUME IInv, ReadHeader  PROVE IInv'
<1> USE DEF IInv
<1>1. ReaderTypeOK' /\ UNCHANGED <<stream, next, command>>
  BY ReaderOtherSteps DEF ReadHeader, TypeOK
<1>2. TypeOK'
  BY <1>1 DEF ReadHeader, TypeOK, MainPcs, Results
<1>3. MainControl'
  BY <1>1 DEF ReadHeader, MainControl, HeaderAccepted
<1>4. ResultMeans' /\ Buffers' /\ InFlight' /\ Failing' /\ FewUnanswered' /\ ReadUpToEnd'
  BY <1>1 DEF ReadHeader, MainControl, ResultMeans, Buffers, InFlight, Failing,
              FewUnanswered, ReadUpToEnd, MainHolds, HandlerHolds, Unsent, Working, Unanswered
<1>5. QED
  BY <1>2, <1>3, <1>4

LEMMA StepSpawnHandler ==
  ASSUME IInv, SpawnHandler  PROVE IInv'
<1> USE DEF IInv
<1>1. ReaderTypeOK' /\ UNCHANGED <<stream, next, command>>
  BY DEF SpawnHandler, readerVars, TypeOK, ReaderTypeOK
<1>2. /\ SpareBuffers \in Seq({"buf", "err"})
      /\ Len(SpareBuffers) = NBuf - 1
      /\ \A i \in 1 .. Len(SpareBuffers) : SpareBuffers[i] = "buf"
  BY BufferedAssumption DEF SpareBuffers
<1>3. TypeOK'
  BY <1>1, <1>2 DEF SpawnHandler, TypeOK, MainPcs, HandlerPcs
<1>4. MainControl' /\ ResultMeans' /\ FewUnanswered' /\ ReadUpToEnd'
  BY <1>1 DEF SpawnHandler, MainControl, ResultMeans, FewUnanswered, ReadUpToEnd,
              HeaderAccepted, Unanswered
<1>5. Buffers' /\ InFlight' /\ Failing'
  BY <1>1, <1>2, BufferedAssumption
  DEF SpawnHandler, MainControl, Buffers, InFlight, Failing, MainHolds, HandlerHolds, Unsent, Working
<1>6. QED
  BY <1>3, <1>4, <1>5

LEMMA StepReadCmd ==
  ASSUME IInv, ReadCmd  PROVE IInv'
<1> USE DEF IInv
<1>1. CASE read_cmd_ok /\ pc' = "push" /\ UNCHANGED result
  <2>1. /\ ReaderTypeOK' /\ stream' = stream /\ next' = next + 1 /\ next \in Nat
        /\ command' = stream.cmds[next'].key /\ stream.cmds[next'].fault = "none"
    BY <1>1, ReadCmdOk DEF TypeOK, ReaderTypeOK
  <2>2. TypeOK'
    BY <1>1, <2>1 DEF ReadCmd, AtEnd, TypeOK, MainPcs
  <2>3. MainControl' /\ ResultMeans' /\ Buffers' /\ Failing' /\ FewUnanswered'
    BY <1>1, <2>1 DEF ReadCmd, AtEnd, MainControl, ResultMeans, Buffers, Failing, FewUnanswered,
                      HeaderAccepted, MainHolds, HandlerHolds, Unanswered
  <2>4. InFlight'
    <3>1. pc = "loop" /\ pc' = "push" /\ UNCHANGED <<handled, held, hpc, data>>
      BY <1>1 DEF ReadCmd, AtEnd
    <3>2. QED
      <4>1. Unsent = 0 /\ Unsent' = 1 /\ Working' = Working
        BY <3>1 DEF Unsent, Working
      <4>2. QED
        BY <2>1, <3>1, <4>1, Kinds, Bits DEF InFlight
  <2>5. ReadUpToEnd'
    BY <1>1, <2>1 DEF ReadCmd, AtEnd, ReadUpToEnd
  <2>6. QED
    BY <2>2, <2>3, <2>4, <2>5
<1>2. CASE read_cmd_err /\ leave("read_err")
  <2>1. ReaderTypeOK' /\ UNCHANGED <<stream, next, command>>
    BY <1>2, ReaderOtherSteps DEF TypeOK
  <2>2. TypeOK'
    BY <1>2, <2>1 DEF ReadCmd, AtEnd, TypeOK, MainPcs, Results
  <2>3. MainControl' /\ ResultMeans' /\ Buffers' /\ Failing' /\ FewUnanswered'
    BY <1>2, <2>1 DEF ReadCmd, AtEnd, read_cmd_err, Readable, MainControl, ResultMeans, Buffers,
                      Failing, FewUnanswered, HeaderAccepted, MainHolds, HandlerHolds, Unanswered
  <2>4. InFlight' /\ ReadUpToEnd'
    BY <1>2, <2>1 DEF ReadCmd, AtEnd, InFlight, ReadUpToEnd, Unsent, Working
  <2>5. QED
    BY <2>2, <2>3, <2>4
<1>3. QED
  BY <1>1, <1>2 DEF ReadCmd, AtEnd

LEMMA StepPushCmd ==
  ASSUME IInv, PushCmd  PROVE IInv'
<1> USE DEF IInv
<1>1. ReaderTypeOK' /\ UNCHANGED <<stream, next, command>>
  BY DEF PushCmd, readerVars, TypeOK, ReaderTypeOK
<1>2. next \in Nat /\ data \in Seq(Nat) /\ Len(data) \in Nat /\ Len(free) \in Nat
  BY DEF TypeOK, ReaderTypeOK
<1>3. Len(data) < NBuf
  BY <1>2, BufferedAssumption DEF PushCmd, MainControl, Buffers, MainHolds, HandlerHolds
<1>4. data' = Append(data, next) /\ pc' = "wait" /\ UNCHANGED result
  BY <1>3 DEF PushCmd
<1>5. /\ data' \in Seq(Nat) /\ Len(data') = Len(data) + 1
      /\ \A i \in 1 .. Len(data) : data'[i] = data[i]
      /\ data'[Len(data) + 1] = next
  BY <1>2, <1>4
<1>6. TypeOK'
  <2>1. spins' \in 0 .. MaxSpins
    BY BufferedAssumption DEF PushCmd
  <2>2. QED
    BY <1>1, <1>4, <1>5, <2>1 DEF PushCmd, TypeOK, MainPcs
<1>7. MainControl' /\ ResultMeans' /\ Failing' /\ FewUnanswered'
  BY <1>1, <1>4 DEF PushCmd, MainControl, ResultMeans, Failing, FewUnanswered,
                    HeaderAccepted, Unanswered
<1>8. Buffers'
  BY <1>2, <1>4, <1>5, BufferedAssumption DEF PushCmd, MainControl, Buffers, MainHolds, HandlerHolds
<1>9. InFlight'
  <2>1. /\ pc = "push" /\ UNCHANGED <<handled, held, hpc>>
        /\ Len(handled) + Working + Len(data) + 1 = next
    BY Kinds, Bits DEF PushCmd, InFlight, Unsent
  <2>2. \A i \in 1 .. Len(data') :
           data'[i] = Len(handled) + Working + i
    <3>1. \A i \in 1 .. Len(data) :
             data[i] = Len(handled) + Working + i
      BY DEF InFlight
    <3>2. QED
      <4>1. next = Len(handled) + Working + Len(data) + 1
        BY <2>1
      <4>2. ASSUME NEW i \in 1 .. Len(data')  PROVE data'[i] = Len(handled) + Working + i
        <5>1. CASE i = Len(data) + 1
          BY <1>5, <4>1, <5>1, Kinds, Bits
        <5>2. CASE i \in 1 .. Len(data)
          BY <1>5, <3>1, <5>2
        <5>3. QED
          BY <1>2, <1>5, <4>2, <5>1, <5>2
      <4>3. QED
        BY <4>2
  <2>3. QED
    <3>1. Unsent' = 0 /\ Working' = Working
      BY <1>4, <2>1 DEF Unsent, Working
    <3>2. QED
      BY <1>1, <1>5, <2>1, <2>2, <3>1, Kinds, Bits DEF InFlight
<1>10. ReadUpToEnd'
  BY <1>1 DEF ReadUpToEnd
<1>11. QED
  BY <1>6, <1>7, <1>8, <1>9, <1>10

LEMMA StepPopFree ==
  ASSUME IInv, PopFree  PROVE IInv'
<1> USE DEF IInv
<1>1. ReaderTypeOK' /\ UNCHANGED <<stream, next, command>>
  BY DEF PopFree, take_buffer, readerVars, TypeOK, ReaderTypeOK
<1>2. free \in Seq({"buf", "err"}) /\ free # <<>> /\ Len(free) \in Nat
  BY DEF PopFree, take_buffer, TypeOK
<1>3. /\ free' \in Seq({"buf", "err"}) /\ Len(free') = Len(free) - 1
      /\ \A i \in 1 .. Len(free') : free'[i] = free[i + 1]
      /\ Head(free) \in {"buf", "err"} /\ Head(free) = free[1]
  BY <1>2, HeadTailProperties DEF PopFree, take_buffer
<1>4. Head(free) = "err" => Len(free) = 1 /\ HandlerErr /\ Over
  BY <1>2, <1>3 DEF Failing
<1>5. TypeOK'
  BY <1>1, <1>3 DEF PopFree, take_buffer, TypeOK, MainPcs, Results
<1>6. MainControl' /\ ResultMeans' /\ FewUnanswered'
  <2>1. UNCHANGED <<handled, hpc, abandoned, outcome>> /\ result = "none" /\ ~ hasBuf
    BY DEF PopFree, take_buffer, MainControl
  <2>2. \/ pc' = "loop" /\ hasBuf' = TRUE /\ result' = "none"
        \/ pc' = "leave" /\ hasBuf' = FALSE /\ result' = "handler_err" /\ HandlerErr /\ Over
    BY <1>3, <1>4, <2>1, Kinds DEF PopFree, take_buffer
  <2>3. QED
    BY <1>1, <2>1, <2>2 DEF PopFree, take_buffer, MainControl, ResultMeans, FewUnanswered, HeaderAccepted, Unanswered
<1>7. Buffers'
  <2>1. Len(data') = Len(data) /\ HandlerHolds' = HandlerHolds /\ Born
    BY DEF PopFree, take_buffer, HandlerHolds, MainControl
  <2>2. MainHolds = 0 /\ MainHolds' = 1
    BY <1>3 DEF PopFree, take_buffer, MainHolds, MainControl
  <2>3. QED
    BY <1>2, <1>3, <2>1, <2>2, Kinds, Bits DEF Buffers
<1>8. Failing'
  <2>1. (Over /\ ~ abandoned => Failed)' /\ (Panicked => Over)' /\ (hpc = "fail" => HandlerErr)'
        /\ (HandlerErr => hpc = "fail" \/ Over)'
        /\ (\A i \in 1 .. Len(handled) - 1 : handled[i].reply \in {"some", "none"})'
    BY DEF PopFree, take_buffer, Failing
  <2>2. \A i \in 1 .. Len(free') :
           free'[i] = "err" => i = Len(free') /\ HandlerErr' /\ Over'
    <3>1. UNCHANGED <<handled, hpc>>
      BY DEF PopFree, take_buffer
    <3>2. \A i \in 1 .. Len(free') : i + 1 \in 1 .. Len(free)
      BY <1>2, <1>3
    <3>3. QED
      BY <1>2, <1>3, <3>1, <3>2 DEF Failing
  <2>3. (HandlerErr /\ Over /\ result # "handler_err" =>
           free # <<>> /\ free[Len(free)] = "err")'
    <3>1. CASE Head(free) = "err"
      BY <3>1 DEF PopFree, take_buffer
    <3>2. CASE Head(free) = "buf"
      <4>1. SUFFICES ASSUME HandlerErr, Over  PROVE free' # <<>> /\ free'[Len(free')] = "err"
        BY DEF PopFree, take_buffer
      <4>2. free[Len(free)] = "err" /\ Len(free) # 1
        BY <1>2, <1>3, <3>2, <4>1 DEF PopFree, take_buffer, MainControl, Failing
      <4>3. QED
        BY <1>2, <1>3, <4>2
    <3>3. QED
      BY <1>3, <3>1, <3>2
  <2>4. QED
    BY <2>1, <2>2, <2>3 DEF Failing
<1>9. InFlight' /\ ReadUpToEnd'
  BY <1>1 DEF PopFree, take_buffer, InFlight, ReadUpToEnd, Unsent, Working
<1>10. QED
  BY <1>5, <1>6, <1>7, <1>8, <1>9

LEMMA StepFoundNoBuffer ==
  ASSUME IInv, FoundNoBuffer  PROVE IInv'
<1> USE DEF IInv
<1>1. ReaderTypeOK' /\ UNCHANGED <<stream, next, command>>
  BY DEF FoundNoBuffer, readerVars, TypeOK, ReaderTypeOK
<1>2. TypeOK'
  BY <1>1, BufferedAssumption DEF FoundNoBuffer, TypeOK, MainPcs
<1>3. MainControl' /\ ResultMeans' /\ Buffers' /\ Failing' /\ FewUnanswered'
  BY <1>1 DEF FoundNoBuffer, MainControl, ResultMeans, Buffers, Failing, FewUnanswered,
              HeaderAccepted, MainHolds, HandlerHolds, Unanswered
<1>4. InFlight' /\ ReadUpToEnd'
  BY <1>1 DEF FoundNoBuffer, InFlight, ReadUpToEnd, Unsent, Working
<1>5. QED
  BY <1>2, <1>3, <1>4

\* The handler thread can only be gone early because its last call failed.
LEMMA StepCheckHandler ==
  ASSUME IInv, CheckHandler  PROVE IInv'
<1> USE DEF IInv
<1>1. ReaderTypeOK' /\ UNCHANGED <<stream, next, command>>
  BY DEF CheckHandler, readerVars, TypeOK, ReaderTypeOK
<1>2. ~ abandoned /\ (hpc = "gone" => Failed)
  BY DEF CheckHandler, MainControl, Failing
<1>3. TypeOK'
  BY <1>1 DEF CheckHandler, TypeOK, MainPcs, Results
<1>4. MainControl' /\ ResultMeans' /\ FewUnanswered'
  BY <1>1, <1>2 DEF CheckHandler, MainControl, ResultMeans, FewUnanswered, HeaderAccepted, Unanswered
<1>5. Buffers'
  BY DEF CheckHandler, MainControl, Buffers, MainHolds, HandlerHolds
<1>6. Failing'
  BY DEF CheckHandler, MainControl, Failing
<1>7. InFlight' /\ ReadUpToEnd'
  BY <1>1 DEF CheckHandler, InFlight, ReadUpToEnd, Unsent, Working
<1>8. QED
  BY <1>3, <1>4, <1>5, <1>6, <1>7

\* The calling thread holds a buffer when it leaves with Ok, so at most
\* NBuf - 1 commands can be without a good answer.
LEMMA StepFinishLoop ==
  ASSUME IInv, FinishLoop  PROVE IInv'
<1> USE DEF IInv
<1>1. ReaderTypeOK' /\ UNCHANGED <<stream, next, command>>
  BY ReaderOtherSteps DEF FinishLoop, AtEnd, TypeOK
<1>2. TypeOK'
  BY <1>1 DEF FinishLoop, AtEnd, TypeOK, MainPcs, Results
<1>3. MainControl' /\ ResultMeans' /\ Buffers' /\ Failing'
  BY <1>1 DEF FinishLoop, AtEnd, MainControl, ResultMeans, Buffers, Failing, HeaderAccepted, MainHolds, HandlerHolds
<1>4. InFlight' /\ ReadUpToEnd'
  BY <1>1 DEF FinishLoop, AtEnd, InFlight, ReadUpToEnd, Unsent, Working
<1>5. FewUnanswered'
  <2>1. /\ Len(data) \in Nat /\ Len(free) \in Nat /\ Len(handled) \in Nat /\ next \in Nat
        /\ free # <<>> => Len(free) > 0
    BY DEF TypeOK, ReaderTypeOK
  <2>2. Len(handled) + Working + Len(data) = next
    BY <2>1 DEF FinishLoop, AtEnd, InFlight, Unsent, Working
  <2>3. 1 + Len(data) + Len(free) + HandlerHolds = NBuf
    BY DEF FinishLoop, AtEnd, MainControl, Buffers, MainHolds, HandlerHolds
  <2>4. Failed => hpc # "handle" /\ Len(free) + HandlerHolds > 0
    <3>1. CASE Over
      <4>1. HandlerErr => free # <<>>
        BY <3>1 DEF FinishLoop, AtEnd, MainControl, Failing
      <4>2. Panicked => HandlerHolds = 1
        BY DEF HandlerHolds
      <4>3. QED
        BY <2>1, <3>1, <4>1, <4>2, Bits
    <3>2. CASE ~ Over
      BY <2>1, <3>2 DEF Failing, HandlerHolds
    <3>3. QED
      BY <3>1, <3>2
  <2>5. next - (Len(handled) - Unanswered) <= NBuf - 1
    <3>1. CASE Failed
      <4>1. Unanswered = 1 /\ Working = 0
        BY <2>4, <3>1 DEF Unanswered, Working
      <4>2. QED
        BY <2>1, <2>2, <2>3, <2>4, <3>1, <4>1, Kinds, Bits
    <3>2. CASE ~ Failed
      <4>1. Unanswered = 0 /\ Working <= HandlerHolds
        BY <3>2 DEF Unanswered, Working, HandlerHolds
      <4>2. QED
        BY <2>1, <2>2, <2>3, <4>1, Kinds, Bits
    <3>3. QED
      BY <3>1, <3>2
  <2>6. QED
    BY <2>5, <1>1 DEF FinishLoop, AtEnd, FewUnanswered, Unanswered
<1>6. QED
  BY <1>2, <1>3, <1>4, <1>5

LEMMA StepDropRings ==
  ASSUME IInv, DropRings  PROVE IInv'
<1> USE DEF IInv
<1>1. ReaderTypeOK' /\ UNCHANGED <<stream, next, command>>
  BY DEF DropRings, readerVars, TypeOK, ReaderTypeOK
<1>2. TypeOK'
  BY <1>1 DEF DropRings, TypeOK, MainPcs
<1>3. MainControl' /\ ResultMeans' /\ Buffers' /\ Failing' /\ FewUnanswered'
  BY <1>1 DEF DropRings, MainControl, ResultMeans, Buffers, Failing, FewUnanswered,
              HeaderAccepted, MainHolds, HandlerHolds, Unanswered
<1>4. InFlight' /\ ReadUpToEnd'
  BY <1>1 DEF DropRings, InFlight, ReadUpToEnd, Unsent, Working
<1>5. QED
  BY <1>2, <1>3, <1>4

LEMMA StepJoin ==
  ASSUME IInv, Join  PROVE IInv'
<1> USE DEF IInv
<1>1. ReaderTypeOK' /\ UNCHANGED <<stream, next, command>>
  BY DEF Join, readerVars, TypeOK, ReaderTypeOK
<1>2. TypeOK'
  BY <1>1 DEF Join, TypeOK, MainPcs, Results
<1>3. MainControl' /\ ResultMeans' /\ Buffers' /\ Failing' /\ FewUnanswered'
  BY <1>1 DEF Join, MainControl, ResultMeans, Buffers, Failing, FewUnanswered, HeaderAccepted, MainHolds, HandlerHolds, Unanswered
<1>4. InFlight' /\ ReadUpToEnd'
  BY <1>1 DEF Join, InFlight, ReadUpToEnd, Unsent, Working
<1>5. QED
  BY <1>2, <1>3, <1>4

-----------------------------------------------------------------------------
(* One lemma per action of the handler thread. *)

LEMMA StepPopCmd ==
  ASSUME IInv, PopCmd  PROVE IInv'
<1> USE DEF IInv
<1>1. ReaderTypeOK' /\ UNCHANGED <<stream, next, command>>
  BY DEF PopCmd, readerVars, TypeOK, ReaderTypeOK
<1>2. data \in Seq(Nat) /\ data # <<>> /\ Len(data) \in Nat /\ Len(handled) \in Nat
  BY DEF PopCmd, TypeOK
<1>3. /\ data' \in Seq(Nat) /\ Len(data') = Len(data) - 1
      /\ \A i \in 1 .. Len(data') : data'[i] = data[i + 1]
      /\ held' = data[1] /\ held' \in Nat
  BY <1>2, HeadTailProperties DEF PopCmd
<1>4. TypeOK'
  BY <1>1, <1>3 DEF PopCmd, TypeOK, HandlerPcs
<1>5. MainControl' /\ ResultMeans' /\ Failing' /\ FewUnanswered'
  BY <1>1 DEF PopCmd, MainControl, ResultMeans, Failing, FewUnanswered, HeaderAccepted, Unanswered
<1>6. Buffers'
  <2>1. Len(free') = Len(free) /\ MainHolds' = MainHolds /\ Born
    BY DEF PopCmd, MainHolds
  <2>2. HandlerHolds = 0 /\ HandlerHolds' = 1
    BY DEF PopCmd, HandlerHolds, Failing
  <2>3. QED
    BY <1>2, <1>3, <2>1, <2>2, Kinds, Bits DEF Buffers
<1>7. InFlight'
  <2>1. held' = Len(handled) + 1
    BY <1>2, <1>3 DEF PopCmd, InFlight, Unsent, Working
  <2>2. \A i \in 1 .. Len(data') : data'[i] = Len(handled) + 1 + i
    <3>1. \A i \in 1 .. Len(data) : data[i] = Len(handled) + 0 + i
      BY DEF PopCmd, InFlight, Unsent, Working
    <3>2. \A i \in 1 .. Len(data') : i + 1 \in 1 .. Len(data)
      BY <1>2, <1>3
    <3>3. QED
      BY <1>2, <1>3, <3>1, <3>2
  <2>3. QED
    BY <1>1, <1>2, <1>3, <2>1, <2>2 DEF PopCmd, InFlight, Unsent, Working
<1>8. ReadUpToEnd'
  BY <1>1 DEF ReadUpToEnd
<1>9. QED
  BY <1>4, <1>5, <1>6, <1>7, <1>8

LEMMA StepFoundNoCmd ==
  ASSUME IInv, FoundNoCmd  PROVE IInv'
<1> USE DEF IInv
<1>1. ReaderTypeOK' /\ UNCHANGED <<stream, next, command>>
  BY DEF FoundNoCmd, readerVars, TypeOK, ReaderTypeOK
<1>2. TypeOK'
  BY <1>1, BufferedAssumption DEF FoundNoCmd, TypeOK, HandlerPcs
<1>3. MainControl' /\ ResultMeans' /\ Buffers' /\ Failing' /\ FewUnanswered'
  BY <1>1 DEF FoundNoCmd, MainControl, ResultMeans, Buffers, Failing, FewUnanswered,
              HeaderAccepted, MainHolds, HandlerHolds, Unanswered
<1>4. InFlight' /\ ReadUpToEnd'
  BY <1>1 DEF FoundNoCmd, InFlight, ReadUpToEnd, Unsent, Working
<1>5. QED
  BY <1>2, <1>3, <1>4

LEMMA StepCheckMain ==
  ASSUME IInv, CheckMain  PROVE IInv'
<1> USE DEF IInv
<1>1. ReaderTypeOK' /\ UNCHANGED <<stream, next, command>>
  BY DEF CheckMain, AfterSuspicion, readerVars, TypeOK, ReaderTypeOK
<1>2. TypeOK'
  BY <1>1 DEF CheckMain, AfterSuspicion, TypeOK, HandlerPcs
<1>3. ~ Failed
  BY DEF CheckMain, AfterSuspicion, Failing
<1>4. MainControl' /\ ResultMeans' /\ FewUnanswered'
  BY <1>1 DEF CheckMain, AfterSuspicion, MainControl, ResultMeans, FewUnanswered, HeaderAccepted, Unanswered
<1>5. Buffers'
  BY <1>3 DEF CheckMain, AfterSuspicion, Buffers, MainHolds, HandlerHolds
<1>6. Failing'
  BY <1>3 DEF CheckMain, AfterSuspicion, Failing
<1>7. InFlight' /\ ReadUpToEnd'
  BY <1>1 DEF CheckMain, AfterSuspicion, InFlight, ReadUpToEnd, Unsent, Working
<1>8. QED
  BY <1>2, <1>4, <1>5, <1>6, <1>7

LEMMA StepHandleCmd ==
  ASSUME IInv, HandleCmd  PROVE IInv'
<1> USE DEF IInv
<1>1. ReaderTypeOK' /\ UNCHANGED <<stream, next, command>>
  BY DEF HandleCmd, readerVars, TypeOK, ReaderTypeOK
<1>2. PICK r \in Replies : /\ handled' = Append(handled, [cmd |-> held, reply |-> r])
                           /\ hpc' = After(r)
  BY DEF HandleCmd
<1>3. /\ r \in {"some", "none"} => hpc' = "give"
      /\ r = "err" => hpc' = "fail"
      /\ r = "panic" => hpc' = "exit"
  BY <1>2 DEF After
<1>4. /\ handled \in Seq(Call) /\ Len(handled) \in Nat
      /\ [cmd |-> held, reply |-> r] \in Call
      /\ Len(data) \in Nat /\ Len(free) \in Nat
      /\ handled # <<>> => Len(handled) \in 1 .. Len(handled)
  BY Kinds DEF TypeOK, Call
<1>5. /\ handled' \in Seq(Call)
      /\ Len(handled') = Len(handled) + 1
      /\ \A i \in 1 .. Len(handled) : handled'[i] = handled[i]
      /\ handled'[Len(handled')] = [cmd |-> held, reply |-> r]
      /\ handled' # <<>>
  BY <1>2, <1>4
<1>6. ~ Failed /\ hpc = "handle"
  BY DEF HandleCmd, Failing
<1>7. /\ HandlerErr' <=> r = "err"
      /\ Panicked' <=> r = "panic"
  BY <1>5
<1>8. TypeOK'
  BY <1>1, <1>3, <1>5 DEF HandleCmd, TypeOK, HandlerPcs, Replies
<1>9. MainControl' /\ ResultMeans'
  BY <1>1, <1>3, <1>6, <1>7 DEF HandleCmd, MainControl, ResultMeans, HeaderAccepted, Replies
<1>10. Buffers'
  BY <1>3, <1>6, <1>7 DEF HandleCmd, Buffers, Replies, MainHolds, HandlerHolds
<1>11. InFlight'
  <2>1. held = Len(handled) + 1 /\ hpc' # "handle"
    BY <1>3, <1>6 DEF InFlight, Replies, Unsent, Working
  <2>2. Len(handled') + Working' + Len(data') + Unsent' = next'
    BY <1>1, <1>4, <1>5, <1>6, <2>1 DEF HandleCmd, InFlight, Unsent, Working
  <2>3. \A i \in 1 .. Len(data') : data'[i] = Len(handled') + 0 + i
    BY <1>4, <1>5, <1>6 DEF HandleCmd, InFlight, Unsent, Working
  <2>4. \A i \in 1 .. Len(handled') : handled'[i].cmd = i
    <3>1. \A i \in 1 .. Len(handled) : handled[i].cmd = i
      BY DEF InFlight, Unsent, Working
    <3>2. handled'[Len(handled')].cmd = Len(handled')
      BY <1>4, <1>5, <2>1
    <3>3. QED
      BY <1>4, <1>5, <3>1, <3>2
  <2>5. QED
    BY <2>1, <2>2, <2>3, <2>4 DEF InFlight, Unsent, Working
<1>12. Failing'
  <2>1. \A i \in 1 .. Len(handled') - 1 : handled'[i].reply \in {"some", "none"}
    <3>1. handled # <<>> => handled[Len(handled)].reply \in {"some", "none"}
      BY <1>6, Kinds DEF Replies
    <3>2. \A i \in 1 .. Len(handled) : handled[i].reply \in {"some", "none"}
      BY <1>4, <3>1 DEF Failing
    <3>3. QED
      BY <1>4, <1>5, <3>2
  <2>2. (HandlerErr => hpc = "fail" \/ Over)' /\ (Panicked => Over)'
        /\ (hpc = "fail" => HandlerErr)' /\ (Over /\ ~ abandoned => Failed)'
    BY <1>3, <1>7 DEF HandleCmd, Replies
  <2>3. \A i \in 1 .. Len(free') : free'[i] # "err"
    BY <1>6 DEF HandleCmd, Failing
  <2>4. ~ (HandlerErr' /\ Over')
    BY <1>3, <1>7
  <2>5. QED
    BY <2>1, <2>2, <2>3, <2>4 DEF Failing
<1>13. FewUnanswered'
  <2>1. Unanswered' <= 1 /\ Unanswered' \in Nat /\ UNCHANGED result
    BY Bits DEF HandleCmd
  <2>2. Len(handled') - Unanswered' >= Len(handled)
    BY <1>4, <1>5, <2>1
  <2>3. result = "ok" => next - Len(handled) <= NBuf - 1
    BY <1>6, Kinds DEF FewUnanswered, Unanswered
  <2>4. QED
    BY <1>1, <1>4, <1>5, <2>1, <2>2, <2>3, Kinds DEF FewUnanswered, Unanswered
<1>14. ReadUpToEnd'
  BY <1>1 DEF ReadUpToEnd
<1>15. QED
  BY <1>8, <1>9, <1>10, <1>11, <1>12, <1>13, <1>14

\* r_free has room: the buffer to give is one of the NBuf.
LEMMA StepPushBuf ==
  ASSUME IInv, PushBuf  PROVE IInv'
<1> USE DEF IInv
<1>1. ReaderTypeOK' /\ UNCHANGED <<stream, next, command>>
  BY DEF PushBuf, readerVars, TypeOK, ReaderTypeOK
<1>2. free \in Seq({"buf", "err"}) /\ Len(free) \in Nat /\ Len(data) \in Nat
  BY DEF TypeOK
<1>3. Len(free) < NBuf
  BY <1>2, BufferedAssumption DEF PushBuf, Buffers, MainHolds, HandlerHolds
<1>4. free' = Append(free, "buf") /\ hspins' = 0 /\ hpc' = "poll"
  BY <1>3 DEF PushBuf
<1>5. /\ free' \in Seq({"buf", "err"}) /\ Len(free') = Len(free) + 1
      /\ \A i \in 1 .. Len(free) : free'[i] = free[i]
      /\ free'[Len(free) + 1] = "buf"
  BY <1>2, <1>4
<1>6. ~ Failed
  BY DEF PushBuf, Failing
<1>7. TypeOK'
  BY <1>1, <1>4, <1>5, BufferedAssumption DEF PushBuf, TypeOK, HandlerPcs
<1>8. MainControl' /\ ResultMeans' /\ FewUnanswered'
  BY <1>1, <1>4, <1>6 DEF PushBuf, MainControl, ResultMeans, FewUnanswered, HeaderAccepted, Unanswered
<1>9. Buffers'
  <2>1. Len(data') = Len(data) /\ MainHolds' = MainHolds /\ Born
    BY DEF PushBuf, MainHolds
  <2>2. HandlerHolds = 1 /\ HandlerHolds' = 0
    BY <1>4, <1>6 DEF PushBuf, HandlerHolds
  <2>3. QED
    BY <1>2, <1>5, <2>1, <2>2, Kinds, Bits DEF Buffers
<1>10. InFlight' /\ ReadUpToEnd'
  BY <1>1, <1>4 DEF PushBuf, InFlight, ReadUpToEnd, Unsent, Working
<1>11. Failing'
  <2>1. \A i \in 1 .. Len(free') : free'[i] # "err"
    BY <1>2, <1>5 DEF PushBuf, Failing
  <2>2. QED
    BY <1>4, <1>6, <2>1 DEF PushBuf, Failing
<1>12. QED
  BY <1>7, <1>8, <1>9, <1>10, <1>11

LEMMA StepPushErr ==
  ASSUME IInv, PushErr  PROVE IInv'
<1> USE DEF IInv
<1>1. ReaderTypeOK' /\ UNCHANGED <<stream, next, command>>
  BY DEF PushErr, Reported, readerVars, TypeOK, ReaderTypeOK
<1>2. free \in Seq({"buf", "err"}) /\ Len(free) \in Nat /\ Len(data) \in Nat
  BY DEF TypeOK
<1>3. Len(free) < NBuf
  BY <1>2, BufferedAssumption DEF PushErr, Reported, Buffers, MainHolds, HandlerHolds
<1>4. free' = Append(free, "err") /\ hpc' = "exit"
  BY <1>3 DEF PushErr, Reported
<1>5. /\ free' \in Seq({"buf", "err"}) /\ Len(free') = Len(free) + 1
      /\ \A i \in 1 .. Len(free) : free'[i] = free[i]
      /\ free'[Len(free) + 1] = "err"
      /\ free' # <<>>
  BY <1>2, <1>4
<1>6. HandlerErr /\ ~ Panicked
  BY DEF PushErr, Reported, Failing
<1>7. TypeOK'
  BY <1>1, <1>4, <1>5 DEF PushErr, Reported, TypeOK, HandlerPcs
<1>8. MainControl' /\ ResultMeans' /\ FewUnanswered'
  BY <1>1, <1>4 DEF PushErr, Reported, MainControl, ResultMeans, FewUnanswered, HeaderAccepted, Unanswered
<1>9. Buffers'
  <2>1. Len(data') = Len(data) /\ MainHolds' = MainHolds /\ Born
    BY DEF PushErr, Reported, MainHolds
  <2>2. HandlerHolds = 1 /\ HandlerHolds' = 0
    BY <1>4, <1>6 DEF PushErr, Reported, HandlerHolds
  <2>3. QED
    BY <1>2, <1>5, <2>1, <2>2, Kinds, Bits DEF Buffers
<1>10. InFlight' /\ ReadUpToEnd'
  BY <1>1, <1>4 DEF PushErr, Reported, InFlight, ReadUpToEnd, Unsent, Working
<1>11. Failing'
  <2>1. \A i \in 1 .. Len(free) : free[i] # "err"
    BY DEF PushErr, Reported, Failing
  <2>2. \A i \in 1 .. Len(free') : free'[i] = "err" => i = Len(free')
    BY <1>2, <1>5, <2>1
  <2>3. QED
    BY <1>4, <1>5, <1>6, <2>2 DEF PushErr, Reported, Failing
<1>12. QED
  BY <1>7, <1>8, <1>9, <1>10, <1>11

LEMMA StepExit ==
  ASSUME IInv, Exit  PROVE IInv'
<1> USE DEF IInv
<1>1. ReaderTypeOK' /\ UNCHANGED <<stream, next, command>>
  BY DEF Exit, readerVars, TypeOK, ReaderTypeOK
<1>2. TypeOK'
  BY <1>1 DEF Exit, TypeOK, HandlerPcs
<1>3. MainControl' /\ ResultMeans' /\ Buffers' /\ Failing' /\ FewUnanswered'
  BY <1>1 DEF Exit, MainControl, ResultMeans, Buffers, Failing, FewUnanswered, HeaderAccepted, MainHolds, HandlerHolds, Unanswered
<1>4. InFlight' /\ ReadUpToEnd'
  BY <1>1 DEF Exit, InFlight, ReadUpToEnd, Unsent, Working
<1>5. QED
  BY <1>2, <1>3, <1>4

-----------------------------------------------------------------------------
LEMMA BufferedStep == IInv /\ [Next]_vars => IInv'
<1> SUFFICES ASSUME IInv, [Next]_vars  PROVE IInv'
  OBVIOUS
<1>1. CASE Main
  BY <1>1, StepReadHeader, StepSpawnHandler, StepReadCmd, StepPushCmd, StepPopFree,
     StepFoundNoBuffer, StepCheckHandler, StepFinishLoop, StepDropRings, StepJoin
  DEF Main
<1>2. CASE Handler
  BY <1>2, StepPopCmd, StepFoundNoCmd, StepCheckMain, StepHandleCmd, StepPushBuf,
     StepPushErr, StepExit
  DEF Handler
<1>3. CASE Terminated \/ UNCHANGED vars
  <2>1. UNCHANGED <<readerVars, mainVars, handlerVars, data, free>>
    BY <1>3 DEF Terminated, vars
  <2>2. TypeOK'
    BY <2>1 DEF IInv, TypeOK, ReaderTypeOK, readerVars
  <2>3. MainControl' /\ ResultMeans' /\ Buffers' /\ Failing' /\ FewUnanswered'
    BY <2>1 DEF IInv, MainControl, ResultMeans, Buffers, Failing, FewUnanswered,
                HeaderAccepted, readerVars, MainHolds, HandlerHolds, Unanswered
  <2>4. InFlight' /\ ReadUpToEnd'
    BY <2>1 DEF IInv, InFlight, ReadUpToEnd, readerVars, Unsent, Working
  <2>5. QED
    BY <2>2, <2>3, <2>4 DEF IInv
<1>4. QED
  BY <1>1, <1>2, <1>3 DEF Next

\* IInv holds in every reachable state, for every number of buffers from 2 to 4,
\* every number of spins and every set of streams.
THEOREM BufferedInvariant == Spec => []IInv
BY BufferedInit, BufferedStep, PTL DEF Spec

\* Type correctness of read_and_handle_buffered.
THEOREM BufferedTypeOK == Spec => []TypeOK
<1>1. IInv => TypeOK
  BY DEF IInv
<1>2. QED
  BY BufferedInvariant, <1>1, PTL

\* Neither ring is full when its producer pushes: expect("Handler panicked")
\* never fires, and no buffer or error of the handler is dropped.
THEOREM BufferedPushesFindRoom == Spec => []PushesFindRoom
<1>1. IInv => PushesFindRoom
  <2>1. SUFFICES ASSUME IInv  PROVE PushesFindRoom
    OBVIOUS
  <2>2. TypeOK /\ MainControl /\ Buffers
    BY <2>1 DEF IInv
  <2>3. pc = "push" => Len(data) < NBuf
    <3>1. SUFFICES ASSUME pc = "push"  PROVE Len(data) < NBuf
      OBVIOUS
    <3>2. Born /\ MainHolds = 1
      BY <2>2, <3>1 DEF MainControl, MainHolds
    <3>3. QED
      BY <2>2, <3>2, Kinds, Bits DEF Buffers
  <2>4. hpc \in {"give", "fail"} => Len(free) < NBuf
    <3>1. SUFFICES ASSUME hpc \in {"give", "fail"}  PROVE Len(free) < NBuf
      OBVIOUS
    <3>2. Born /\ HandlerHolds = 1
      BY <3>1 DEF HandlerHolds
    <3>3. QED
      BY <2>2, <3>2, Kinds, Bits DEF Buffers
  <2>5. QED
    BY <2>3, <2>4 DEF PushesFindRoom
<1>2. QED
  BY BufferedInvariant, <1>1, PTL

\* The calling thread has a buffer whenever it reads the next command.
THEOREM BufferedReadsIntoABuffer == Spec => []ReadsIntoABuffer
<1>1. IInv => ReadsIntoABuffer
  BY DEF IInv, MainControl, ReadsIntoABuffer
<1>2. QED
  BY BufferedInvariant, <1>1, PTL

\* Commands reach the handler in stream order, each once, none after a failure.
THEOREM BufferedHandledInOrder == Spec => []HandledInOrder
<1>1. IInv => HandledInOrder
  <2>1. SUFFICES ASSUME IInv  PROVE HandledInOrder
    OBVIOUS
  <2>2. TypeOK /\ InFlight /\ Failing
    BY <2>1 DEF IInv
  <2>3. Len(handled) <= next
    BY <2>2, Kinds, Bits DEF InFlight
  <2>4. QED
    BY <2>2, <2>3 DEF HandledInOrder, InFlight, Failing
<1>2. QED
  BY BufferedInvariant, <1>1, PTL

\* After Ok, all commands but the last NBuf - 1 have been handled well, and the
\* reader has stopped at an END.
THEOREM BufferedOkMeansHandled == Spec => []OkMeansHandled
<1>1. IInv => OkMeansHandled
  <2>1. SUFFICES ASSUME IInv, outcome = "ok"
                 PROVE  /\ command = "end"
                        /\ \A i \in 1 .. next - (NBuf - 1) :
                              i <= Len(handled) /\ handled[i].reply \in {"some", "none"}
    BY DEF OkMeansHandled
  <2>2. TypeOK /\ MainControl /\ ResultMeans /\ Failing /\ FewUnanswered
    BY <2>1 DEF IInv
  <2>3. result = "ok"
    BY <2>1, <2>2 DEF MainControl
  <2>4. next - (NBuf - 1) <= Len(handled) - Unanswered
    BY <2>2, <2>3, Kinds, Bits DEF FewUnanswered
  <2>5. \A i \in 1 .. Len(handled) - Unanswered : handled[i].reply \in {"some", "none"}
    <3>1. CASE Failed
      BY <2>2, <3>1 DEF Failing, Unanswered
    <3>2. CASE ~ Failed
      <4>1. handled # <<>> => handled[Len(handled)].reply \in {"some", "none"}
        BY <2>2, <3>2, Kinds DEF Replies
      <4>2. Unanswered = 0
        BY <3>2 DEF Unanswered
      <4>3. ASSUME NEW i \in 1 .. Len(handled)  PROVE handled[i].reply \in {"some", "none"}
        <5>1. CASE i = Len(handled)
          BY <2>2, <4>1, <4>3, <5>1, Kinds
        <5>2. CASE i \in 1 .. Len(handled) - 1
          BY <2>2, <5>2 DEF Failing
        <5>3. QED
          BY <2>2, <4>3, <5>1, <5>2, Kinds
      <4>4. QED
        BY <2>2, <4>2, <4>3, Kinds
    <3>3. QED
      BY <3>1, <3>2
  <2>6. ASSUME NEW i \in 1 .. next - (NBuf - 1)
        PROVE  i <= Len(handled) /\ handled[i].reply \in {"some", "none"}
    <3>1. i \in 1 .. Len(handled) - Unanswered
      BY <2>2, <2>4, <2>6, Kinds, Bits
    <3>2. i <= Len(handled)
      BY <2>2, <3>1, Kinds, Bits
    <3>3. QED
      BY <2>5, <3>1, <3>2
  <2>7. QED
    BY <2>2, <2>3, <2>6 DEF ResultMeans
<1>2. QED
  BY BufferedInvariant, <1>1, PTL

\* Nothing behind the first END is read.
THEOREM BufferedStopsAtEnd == Spec => []StopsAtEnd
<1>1. IInv => StopsAtEnd
  BY DEF IInv, ReadUpToEnd, StopsAtEnd
<1>2. QED
  BY BufferedInvariant, <1>1, PTL

-----------------------------------------------------------------------------
(* The published position. *)

PositionInv == PositionTracks /\ (result = "ok" => position = stream_pos)

LEMMA PositionStep == IInv /\ PositionInv /\ [Next]_vars => PositionInv'
<1> SUFFICES ASSUME IInv, PositionInv, [Next]_vars  PROVE PositionInv'
  OBVIOUS
<1>1. ReaderTypeOK /\ PositionTracks /\ (pc \in {"header", "loop"} => result = "none")
  BY DEF IInv, TypeOK, PositionInv, MainControl
<1>2. CASE ReadHeader
  <2>1. PositionTracks' /\ UNCHANGED <<stream_pos, position, result>>
    BY <1>1, <1>2, PositionTracksSteps DEF ReadHeader, read_header
  <2>2. QED
    BY <2>1 DEF PositionInv
<1>3. CASE ReadCmd
  <2>1. PositionTracks' /\ result' # "ok"
    BY <1>1, <1>3, PositionTracksSteps DEF ReadCmd, AtEnd
  <2>2. QED
    BY <2>1 DEF PositionInv
<1>4. CASE FinishLoop
  <2>1. PositionTracks' /\ position' = stream_pos'
    BY <1>1, <1>4, PositionTracksSteps DEF FinishLoop, AtEnd, publish_position
  <2>2. QED
    BY <2>1 DEF PositionInv
<1>5. CASE \/ SpawnHandler \/ PushCmd \/ PopFree \/ FoundNoBuffer \/ CheckHandler
           \/ DropRings \/ Join \/ Handler \/ Terminated \/ UNCHANGED vars
  <2>1. UNCHANGED readerVars /\ (result' = "ok" => result = "ok")
    BY <1>5 DEF SpawnHandler, PushCmd, PopFree, take_buffer, FoundNoBuffer, CheckHandler, DropRings,
                Join, Handler, PopCmd, FoundNoCmd, CheckMain, AfterSuspicion, HandleCmd, PushBuf, PushErr, Reported,
                Exit, Terminated, vars
  <2>2. PositionTracks'
    BY <1>1, <2>1, PositionTracksSteps
  <2>3. QED
    BY <2>1, <2>2 DEF PositionInv, readerVars
<1>6. QED
  BY <1>2, <1>3, <1>4, <1>5 DEF Next, Main

\* The position read_and_handle_buffered publishes follows the block borders,
\* for every block size, and is exact after Ok.
THEOREM BufferedPositionWithinBlock == Spec => []PositionWithinBlock
<1>1. Init => PositionInv
  BY DEF Init, ReaderInit, PositionInv, PositionTracks
<1>2. IInv /\ PositionInv => PositionWithinBlock
  <2>1. SUFFICES ASSUME IInv, PositionInv  PROVE PositionWithinBlock
    OBVIOUS
  <2>2. outcome = "ok" => result = "ok"
    BY <2>1 DEF IInv, MainControl
  <2>3. QED
    BY <2>1, <2>2 DEF PositionInv, PositionTracks, PositionWithinBlock
<1>3. QED
  BY BufferedInvariant, PositionStep, <1>1, <1>2, PTL DEF Spec

-----------------------------------------------------------------------------
(* The refinement. *)

LEMMA BufferedInitRefines == Init => Promise!Init
BY DEF Init, ReaderInit, Promise!Init

\* The names Receive gives to the same facts.
LEMMA SameNames ==
  ASSUME TypeOK
  PROVE  /\ Promise!Accepted <=> HeaderAccepted
         /\ Promise!NextReadable <=> Readable(stream, next + 1)
         /\ Promise!Failed(handled) <=> Failed
         /\ Promise!Acked(handled) = Len(handled) - Unanswered
<1>1. Len(stream.cmds) \in Nat /\ next \in Nat /\ Len(handled) \in Nat
  BY Kinds, StreamShape DEF TypeOK
<1>2. Promise!Failed(handled) <=> Failed
  BY DEF Promise!Failed, Promise!Failures
<1>3. Promise!Acked(handled) = Len(handled) - Unanswered
  <2>1. CASE Failed
    <3>1. Promise!Acked(handled) = Len(handled) - 1
      BY <1>2, <2>1 DEF Promise!Acked
    <3>2. Unanswered = 1
      BY <2>1 DEF Unanswered
    <3>3. QED
      BY <3>1, <3>2
  <2>2. CASE ~ Failed
    <3>1. Promise!Acked(handled) = Len(handled)
      BY <1>2, <2>2 DEF Promise!Acked
    <3>2. Unanswered = 0
      BY <2>2 DEF Unanswered
    <3>3. QED
      BY <1>1, <3>1, <3>2
  <2>3. QED
    BY <2>1, <2>2
<1>4. Promise!NextReadable <=> Readable(stream, next + 1)
  BY <1>1 DEF Promise!NextReadable, Readable
<1>5. Promise!Accepted <=> HeaderAccepted
  BY DEF Promise!Accepted, HeaderAccepted
<1>6. QED
  BY <1>2, <1>3, <1>4, <1>5

\* The calling thread holds a buffer when it reads, so fewer than NBuf commands
\* wait for the handler.
LEMMA ReadCmdRefines ==
  ASSUME IInv, ReadCmd
  PROVE  Promise!Consume \/ UNCHANGED <<stream, next, handled, outcome>>
<1>0. TypeOK /\ MainControl /\ Buffers /\ InFlight
  BY DEF IInv
<1>1. CASE read_cmd_ok
  <2>1. /\ stream' = stream /\ next' = next + 1 /\ UNCHANGED <<handled, outcome>>
        /\ Readable(stream, next + 1) /\ pc = "loop"
    BY <1>1 DEF ReadCmd, AtEnd, read_cmd_ok
  <2>2. Born /\ hasBuf /\ outcome = "none" /\ HeaderAccepted
    BY <1>0, <2>1 DEF MainControl
  <2>3. MainHolds = 1 /\ Unsent = 0 /\ Working <= HandlerHolds
    BY <2>1, <2>2 DEF MainHolds, Unsent, Working, HandlerHolds
  <2>4. next - Len(handled) < NBuf
    BY <1>0, <2>2, <2>3, Kinds, Bits DEF Buffers, InFlight
  <2>5. QED
    BY <1>0, <2>1, <2>2, <2>4, SameNames DEF Promise!Consume
<1>2. CASE read_cmd_err
  BY <1>2 DEF ReadCmd, AtEnd, read_cmd_err
<1>3. QED
  BY <1>1, <1>2 DEF ReadCmd, AtEnd

LEMMA HandleCmdRefines ==
  ASSUME IInv, HandleCmd
  PROVE  Promise!Hand
<1>0. TypeOK /\ MainControl /\ InFlight /\ Failing
  BY DEF IInv
<1>1. PICK r \in Replies : handled' = Append(handled, [cmd |-> held, reply |-> r])
  BY DEF HandleCmd
<1>2. hpc = "handle" /\ UNCHANGED <<stream, next, outcome>> /\ ~ Failed
  BY <1>0 DEF HandleCmd, readerVars, Failing
<1>3. held = Len(handled) + 1 /\ Working = 1 /\ outcome = "none"
  BY <1>0, <1>2 DEF InFlight, Working, MainControl
<1>4. Len(handled) < next
  BY <1>0, <1>3, Kinds, Bits DEF InFlight
<1>5. QED
  BY <1>0, <1>1, <1>2, <1>3, <1>4, SameNames DEF Promise!Hand, Promise!Replies, Replies

LEMMA JoinRefines ==
  ASSUME IInv, Join
  PROVE  Promise!Return
<1>0. TypeOK /\ MainControl /\ ResultMeans /\ FewUnanswered /\ ReadUpToEnd
  BY DEF IInv
<1>1. /\ UNCHANGED <<stream, next, handled>> /\ outcome = "none" /\ pc = "join"
      /\ outcome' = IF Panicked THEN "panic" ELSE result
      /\ result # "none"
  BY <1>0 DEF Join, readerVars, MainControl
<1>2. CASE Panicked
  BY <1>0, <1>1, <1>2, SameNames DEF Promise!Return
<1>3. CASE ~ Panicked /\ result = "ok"
  <2>1. next > 0
    BY <1>0, <1>3, Kinds DEF ResultMeans, ReadUpToEnd
  <2>2. next - (Len(handled) - Unanswered) < NBuf
    BY <1>0, <1>3, Kinds, Bits DEF FewUnanswered
  <2>3. QED
    BY <1>0, <1>1, <1>3, <2>1, <2>2, SameNames DEF Promise!Return
<1>4. CASE ~ Panicked /\ result = "read_err"
  BY <1>0, <1>1, <1>4, SameNames DEF Promise!Return, ResultMeans
<1>5. CASE ~ Panicked /\ result = "handler_err"
  BY <1>0, <1>1, <1>5, SameNames DEF Promise!Return, ResultMeans
<1>6. CASE ~ Panicked /\ result = "panic"
  BY <1>0, <1>1, <1>6, SameNames DEF Promise!Return, ResultMeans
<1>7. result \in {"ok", "read_err", "handler_err", "panic"}
  BY <1>0, <1>1 DEF TypeOK, Results
<1>8. QED
  BY <1>2, <1>3, <1>4, <1>5, <1>6, <1>7

LEMMA ReadHeaderRefines ==
  ASSUME IInv, ReadHeader
  PROVE  Promise!Return \/ UNCHANGED <<stream, next, handled, outcome>>
<1>0. TypeOK /\ outcome = "none"
  BY DEF IInv, MainControl, ReadHeader
<1>1. UNCHANGED <<stream, next, handled>>
  BY DEF ReadHeader, read_header
<1>2. CASE HeaderAccepted
  BY <1>1, <1>2 DEF ReadHeader
<1>3. CASE ~ HeaderAccepted
  <2>1. outcome' = "read_err" /\ ~ Promise!Accepted
    BY <1>0, <1>3, SameNames DEF ReadHeader
  <2>2. QED
    BY <1>0, <1>1, <2>1 DEF Promise!Return
<1>4. QED
  BY <1>2, <1>3

LEMMA BufferedStepRefines == IInv /\ [Next]_vars => [Promise!Next]_Promise!vars
<1> SUFFICES ASSUME IInv, [Next]_vars
             PROVE  Promise!Next \/ UNCHANGED <<stream, next, handled, outcome>>
  BY DEF Promise!vars
<1>1. CASE ReadHeader \/ ReadCmd \/ HandleCmd \/ Join
  BY <1>1, ReadHeaderRefines, ReadCmdRefines, HandleCmdRefines, JoinRefines
  DEF Promise!Next
<1>2. CASE \/ SpawnHandler \/ PushCmd \/ PopFree \/ FoundNoBuffer \/ CheckHandler
           \/ DropRings \/ PopCmd \/ FoundNoCmd \/ CheckMain \/ PushBuf \/ PushErr
           \/ Exit \/ Terminated \/ UNCHANGED vars
  BY <1>2 DEF SpawnHandler, PushCmd, PopFree, take_buffer, FoundNoBuffer, CheckHandler, DropRings,
              PopCmd, FoundNoCmd, CheckMain, AfterSuspicion, PushBuf, PushErr, Reported, Exit, Terminated, vars,
              readerVars
<1>3. CASE FinishLoop
  BY <1>3 DEF FinishLoop, AtEnd, publish_position
<1>4. QED
  BY <1>1, <1>2, <1>3 DEF Next, Main, Handler

\* read_and_handle_buffered implements Receive with a reader at most NBuf
\* commands ahead: whatever the two threads interleave to, the result is one
\* the sequential promise allows, up to NBuf - 1 commands Ok leaves open.
THEOREM BufferedImplementsReceive == Spec => ImplementsReceive
<1>1. Spec => Promise!Init /\ [][Promise!Next]_Promise!vars
  BY BufferedInvariant, BufferedInitRefines, BufferedStepRefines, PTL DEF Spec
<1>2. QED
  BY <1>1 DEF ImplementsReceive, Promise!Spec
=============================================================================

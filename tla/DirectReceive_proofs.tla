------------------------- MODULE DirectReceive_proofs -------------------------
(***************************************************************************)
(* Proofs about DirectReceive: its invariants, and that it implements      *)
(* Receive with a reader never ahead of the handler.                       *)
(***************************************************************************)
EXTENDS DirectReceive, TLAPS

-----------------------------------------------------------------------------
(* read_header, read_cmd and the final store.  Theirs are variables that     *)
(* BufferedReceive has too: these lemmas are there as here.                  *)

\* The shape of the variables does not depend on the parts of the source the
\* two implementations add.
LEMMA ReaderInitType == ReaderInit => ReaderTypeOK
<1>1. SUFFICES ASSUME ReaderInit PROVE ReaderTypeOK
  OBVIOUS
<1>2. stream \in Stream
  BY <1>1, ReaderAssumption DEF ReaderInit
<1>3. Len(stream.cmds) \in Nat
  BY <1>2 DEF Stream
<1>4. QED
  BY <1>1, <1>3 DEF ReaderInit, ReaderTypeOK

\* What a stream of the type is made of.
LEMMA StreamShape ==
  ASSUME ReaderTypeOK
  PROVE  /\ stream \in Stream
         /\ stream.cmds \in Seq(Command)
         /\ Len(stream.cmds) \in Nat
         /\ \A i \in 1 .. Len(stream.cmds) :
               /\ stream.cmds[i] \in Command
               /\ stream.cmds[i].key \in Keys
               /\ stream.cmds[i].size \in Nat
<1>1. stream \in Stream
  BY ReaderAssumption DEF ReaderTypeOK
<1>2. stream.cmds \in Seq(Command)
  BY <1>1 DEF Stream
<1>3. \A i \in 1 .. Len(stream.cmds) : stream.cmds[i] \in Command
  BY <1>2
<1>4. QED
  BY <1>1, <1>2, <1>3 DEF Command

\* read_cmd returning Ok: the next command is the one read, and the types hold.
LEMMA ReadCmdOk ==
  ASSUME ReaderTypeOK, read_cmd_ok
  PROVE  /\ ReaderTypeOK'
         /\ stream' = stream
         /\ next' = next + 1
         /\ next' \in 1 .. Len(stream.cmds)
         /\ command' = stream.cmds[next'].key
         /\ stream.cmds[next'].fault = "none"
<1>1. /\ next + 1 \in 1 .. Len(stream.cmds)
      /\ stream.cmds[next + 1].fault = "none"
  BY DEF read_cmd_ok, Readable
<1>2. stream.cmds[next + 1].size \in Nat /\ stream.cmds[next + 1].key \in Keys
  BY <1>1, StreamShape
<1>3. /\ stream' = stream /\ next' = next + 1
      /\ command' = stream.cmds[next + 1].key
      /\ stream_pos' = stream_pos + stream.cmds[next + 1].size
      /\ position' \in {stream_pos', position}
      /\ taken' = taken + stream.cmds[next + 1].size
  BY DEF read_cmd_ok, Published
<1>4. QED
  BY <1>1, <1>2, <1>3 DEF ReaderTypeOK

\* read_header and the final store keep the types, and so does a failing
\* read_cmd; none of them moves next, command or stream.
LEMMA ReaderOtherSteps ==
  ASSUME ReaderTypeOK, read_header \/ read_cmd_err \/ publish_position
  PROVE  /\ ReaderTypeOK'
         /\ UNCHANGED <<stream, next, command, stream_pos>>
<1>1. CASE read_header
  BY <1>1, ReaderAssumption DEF read_header, ReaderTypeOK
<1>2. CASE publish_position
  BY <1>2 DEF publish_position, ReaderTypeOK
<1>3. CASE read_cmd_err
  <2>1. next + 1 \in 1 .. Len(stream.cmds) => stream.cmds[next + 1].size \in Nat
    BY StreamShape
  <2>2. taken' \in Nat
    BY <1>3, <2>1 DEF read_cmd_err, ReaderTypeOK
  <2>3. QED
    BY <1>3, <2>2 DEF read_cmd_err, ReaderTypeOK
<1>4. QED
  BY <1>1, <1>2, <1>3

\* The published position keeps within the block of the read position.
PositionTracks ==
    /\ position <= stream_pos
    /\ BlockOf(position) = BlockOf(stream_pos)

LEMMA PositionTracksSteps ==
  ASSUME ReaderTypeOK, PositionTracks,
         read_header \/ read_cmd_ok \/ read_cmd_err \/ publish_position
         \/ UNCHANGED readerVars
  PROVE  PositionTracks'
<1>1. CASE read_cmd_ok
  <2>1. next + 1 \in 1 .. Len(stream.cmds)
    BY <1>1 DEF read_cmd_ok, Readable
  <2> DEFINE pos == stream_pos + stream.cmds[next + 1].size
  <2>2. stream.cmds[next + 1].size \in Nat
    BY <2>1, StreamShape
  <2>3. /\ stream_pos' = pos
        /\ position' = IF BlockOf(stream_pos) # BlockOf(pos) THEN pos ELSE position
    BY <1>1 DEF read_cmd_ok, Published
  <2>4. stream_pos <= pos
    BY <2>2 DEF ReaderTypeOK
  <2>5. CASE BlockOf(stream_pos) # BlockOf(pos)
    <3>1. position' = stream_pos' /\ stream_pos' \in Nat
      BY <2>2, <2>3, <2>5 DEF ReaderTypeOK
    <3>2. QED
      BY <3>1 DEF PositionTracks, BlockOf
  <2>6. CASE BlockOf(stream_pos) = BlockOf(pos)
    <3>1. position' = position /\ position <= pos
      BY <2>2, <2>3, <2>4, <2>6 DEF ReaderTypeOK, PositionTracks
    <3>2. BlockOf(position)' = BlockOf(position) /\ BlockOf(stream_pos)' = BlockOf(pos)
      BY <3>1, <2>3 DEF BlockOf
    <3>3. QED
      BY <3>1, <3>2, <2>3, <2>6 DEF PositionTracks
  <2>7. QED
    BY <2>5, <2>6
<1>2. CASE read_header \/ read_cmd_err \/ UNCHANGED readerVars
  BY <1>2 DEF read_header, read_cmd_err, readerVars, PositionTracks, BlockOf
<1>3. CASE publish_position
  BY <1>3 DEF publish_position, PositionTracks, ReaderTypeOK, BlockOf
<1>4. QED
  BY <1>1, <1>2, <1>3

-----------------------------------------------------------------------------
(* The one thread.                                                           *)

\* The inductive invariant.  While the loop runs every reply was Some; the
\* number of calls follows the number of commands read.
Control ==
    /\ pc # "done" => outcome = "none"
    /\ pc = "header" => next = 0
    /\ pc \in {"read", "handle", "fail", "store"} => HeaderAccepted
    /\ pc = "handle" => next = Len(handled) + 1
    /\ pc # "handle" => next = Len(handled)
    /\ \A i \in 1 .. Len(handled) - 1 : handled[i].reply = "some"
    /\ \A i \in 1 .. Len(handled) : handled[i].cmd = i
    /\ pc \in {"read", "handle"} => \A i \in 1 .. Len(handled) : handled[i].reply = "some"
    /\ pc = "store" => handled # <<>> /\ handled[Len(handled)].reply = "none"
    /\ pc = "fail" => handled # <<>> /\ handled[Len(handled)].reply \in {"err", "panic"}
    /\ outcome = "ok" => handled # <<>> /\ handled[Len(handled)].reply = "none"

Position == PositionTracks /\ (outcome = "ok" => position = stream_pos)

IInv == TypeOK /\ Control /\ Position

LEMMA DirectInit == Init => IInv
<1>1. SUFFICES ASSUME Init PROVE IInv
  OBVIOUS
<1>2. TypeOK
  BY <1>1, ReaderInitType DEF Init, TypeOK, Outcomes
<1>3. Control
  BY <1>1 DEF Init, ReaderInit, Control
<1>4. Position
  BY <1>1 DEF Init, ReaderInit, Position, PositionTracks
<1>5. QED
  BY <1>2, <1>3, <1>4 DEF IInv

LEMMA DirectStep == IInv /\ [Next]_vars => IInv'
<1> SUFFICES ASSUME IInv, [Next]_vars PROVE IInv'
  OBVIOUS
<1> USE DEF IInv
<1>1. CASE ReadHeader
  <2>1. ReaderTypeOK' /\ PositionTracks' /\ UNCHANGED <<stream, next, command, stream_pos>>
    BY <1>1, ReaderOtherSteps, PositionTracksSteps DEF ReadHeader, TypeOK, Position
  <2>2. TypeOK'
    BY <1>1, <2>1 DEF ReadHeader, TypeOK, Outcomes, return
  <2>3. Control'
    BY <1>1, <2>1 DEF ReadHeader, Control, TypeOK, return, HeaderAccepted
  <2>4. QED
    BY <1>1, <2>1, <2>2, <2>3 DEF ReadHeader, Position, Control, return
<1>2. CASE ReadCmd
  <2>1. CASE read_cmd_ok /\ pc' = "handle" /\ UNCHANGED outcome
    <3>1. ReaderTypeOK' /\ PositionTracks' /\ stream' = stream /\ next' = next + 1
      BY <2>1, ReadCmdOk, PositionTracksSteps DEF TypeOK, Position
    <3>2. TypeOK'
      BY <1>2, <2>1, <3>1 DEF ReadCmd, TypeOK
    <3>3. Control'
      BY <1>2, <2>1, <3>1 DEF ReadCmd, Control, TypeOK, HeaderAccepted
    <3>4. QED
      BY <1>2, <2>1, <3>1, <3>2, <3>3 DEF ReadCmd, Position, Control
  <2>2. CASE read_cmd_err /\ return("read_err")
    <3>1. ReaderTypeOK' /\ PositionTracks' /\ UNCHANGED <<stream, next, command, stream_pos>>
      BY <2>2, ReaderOtherSteps, PositionTracksSteps DEF TypeOK, Position
    <3>2. TypeOK'
      BY <1>2, <2>2, <3>1 DEF ReadCmd, TypeOK, Outcomes, return
    <3>3. Control'
      BY <1>2, <2>2, <3>1 DEF ReadCmd, Control, TypeOK, return
    <3>4. QED
      BY <2>2, <3>1, <3>2, <3>3 DEF Position, return
  <2>3. QED
    BY <1>2, <2>1, <2>2 DEF ReadCmd
<1>3. CASE HandleCmd
  <2>1. PICK r \in Replies : /\ handled' = Append(handled, [cmd |-> next, reply |-> r])
                             /\ pc' = After(r)
    BY <1>3 DEF HandleCmd
  <2>2. UNCHANGED <<readerVars, outcome>> /\ pc = "handle"
    BY <1>3 DEF HandleCmd
  <2>3. /\ r = "some" => pc' = "read"
        /\ r = "none" => pc' = "store"
        /\ r \in {"err", "panic"} => pc' = "fail"
    BY <2>1 DEF After
  <2>4. /\ handled \in Seq(Call)
        /\ [cmd |-> next, reply |-> r] \in Call
    BY DEF TypeOK, ReaderTypeOK, Call
  <2>5. /\ handled' \in Seq(Call)
        /\ Len(handled') = Len(handled) + 1
        /\ \A i \in 1 .. Len(handled) : handled'[i] = handled[i]
        /\ handled'[Len(handled) + 1] = [cmd |-> next, reply |-> r]
    BY <2>1, <2>4
  <2>6. TypeOK'
    BY <2>2, <2>3, <2>5 DEF TypeOK, ReaderTypeOK, readerVars, Replies
  <2>7. Control'
    <3>1. next = Len(handled) + 1 /\ Len(handled) \in Nat
      BY <2>2, <2>4 DEF Control
    <3>2. \A i \in 1 .. Len(handled') - 1 : handled'[i].reply = "some"
      BY <2>2, <2>5, <3>1 DEF Control
    <3>3. \A i \in 1 .. Len(handled') : handled'[i].cmd = i
      BY <2>2, <2>5, <3>1 DEF Control
    <3>4. handled' # <<>> /\ handled'[Len(handled')].reply = r
      BY <2>5, <3>1
    <3>5. /\ pc' \in {"read", "store", "fail"}
          /\ outcome' = "none" /\ HeaderAccepted' /\ next' = Len(handled')
      BY <2>2, <2>3, <2>5, <3>1 DEF Control, HeaderAccepted, readerVars, Replies
    <3>6. pc' = "read" => \A i \in 1 .. Len(handled') : handled'[i].reply = "some"
      BY <2>3, <2>5, <3>1, <3>2, <3>4 DEF Replies
    <3>7. /\ pc' = "store" => r = "none"
          /\ pc' = "fail" => r \in {"err", "panic"}
      BY <2>3 DEF Replies
    <3>8. QED
      BY <3>2, <3>3, <3>4, <3>5, <3>6, <3>7 DEF Control
  <2>8. Position'
    BY <2>2 DEF Position, PositionTracks, BlockOf, readerVars
  <2>9. QED
    BY <2>6, <2>7, <2>8
<1>4. CASE Propagate
  <2>1. TypeOK'
    BY <1>4 DEF Propagate, TypeOK, ReaderTypeOK, readerVars, return, Outcomes
  <2>2. Control'
    BY <1>4 DEF Propagate, Control, readerVars, return
  <2>3. Position'
    BY <1>4 DEF Propagate, Position, PositionTracks, BlockOf, readerVars, return
  <2>4. QED
    BY <2>1, <2>2, <2>3
<1>5. CASE StorePosition
  <2>1. ReaderTypeOK' /\ PositionTracks' /\ UNCHANGED <<stream, next, command, stream_pos>>
    BY <1>5, ReaderOtherSteps, PositionTracksSteps DEF StorePosition, TypeOK, Position
  <2>2. TypeOK'
    BY <1>5, <2>1 DEF StorePosition, TypeOK, Outcomes, return
  <2>3. Control'
    BY <1>5, <2>1 DEF StorePosition, Control, return
  <2>4. Position'
    BY <1>5, <2>1 DEF StorePosition, Position, publish_position
  <2>5. QED
    BY <2>2, <2>3, <2>4
<1>6. CASE Terminated \/ UNCHANGED vars
  <2>1. UNCHANGED <<readerVars, pc, handled, outcome>>
    BY <1>6 DEF Terminated, vars
  <2>2. TypeOK'
    BY <2>1 DEF TypeOK, ReaderTypeOK, readerVars
  <2>3. Control'
    BY <2>1 DEF Control, HeaderAccepted, readerVars
  <2>4. Position'
    BY <2>1 DEF Position, PositionTracks, BlockOf, readerVars
  <2>5. QED
    BY <2>2, <2>3, <2>4
<1>7. QED
  BY <1>1, <1>2, <1>3, <1>4, <1>5, <1>6 DEF Next

\* Type correctness of read_and_handle, and the inductive invariant.
THEOREM DirectTypeOK == Spec => []TypeOK
<1>1. IInv => TypeOK
  BY DEF IInv
<1>2. QED
  BY DirectInit, DirectStep, <1>1, PTL DEF Spec

\* read_and_handle stops exactly at the handler's None: Ok has None as its
\* last reply, and no command follows a None.
THEOREM DirectStopsAtNone == Spec => []StopsAtNone
<1>1. IInv => StopsAtNone
  BY DEF IInv, Control, StopsAtNone
<1>2. QED
  BY DirectInit, DirectStep, <1>1, PTL DEF Spec

\* The position published by read_and_handle follows the block borders, for
\* every block size and every stream, and is exact after Ok.
THEOREM DirectPositionWithinBlock == Spec => []PositionWithinBlock
<1>1. IInv => PositionWithinBlock
  BY DEF IInv, Position, PositionTracks, PositionWithinBlock
<1>2. QED
  BY DirectInit, DirectStep, <1>1, PTL DEF Spec

-----------------------------------------------------------------------------
(* The refinement. *)

LEMMA DirectInitRefines == Init => Promise!Init
BY DEF Init, ReaderInit, Promise!Init

LEMMA DirectStepRefines == IInv /\ [Next]_vars => [Promise!Next]_Promise!vars
<1> SUFFICES ASSUME IInv, [Next]_vars
             PROVE  Promise!Next \/ UNCHANGED <<stream, next, handled, outcome>>
  BY DEF Promise!vars
<1> USE DEF IInv
<1>0. TypeOK /\ Control /\ ReaderTypeOK /\ handled \in Seq(Call)
  BY DEF TypeOK
<1>1. CASE ReadHeader
  <2>1. CASE HeaderAccepted
    BY <1>1, <2>1 DEF ReadHeader, read_header
  <2>2. CASE ~ HeaderAccepted
    <3>1. Promise!Return
      BY <1>1, <2>2, <1>0
      DEF ReadHeader, read_header, return, Promise!Return, Promise!Accepted,
          HeaderAccepted, Control
    <3>2. QED
      BY <3>1 DEF Promise!Next
  <2>3. QED
    BY <2>1, <2>2
<1>2. CASE ReadCmd
  <2>1. pc = "read" /\ outcome = "none" /\ HeaderAccepted /\ next = Len(handled)
    BY <1>2, <1>0 DEF ReadCmd, Control
  <2>2. next \in Nat /\ Len(stream.cmds) \in Nat /\ Len(handled) \in Nat
    BY <1>0, StreamShape DEF ReaderTypeOK
  <2>3. CASE read_cmd_ok /\ UNCHANGED outcome
    <3>1. /\ next' = next + 1 /\ stream' = stream /\ next + 1 <= Len(stream.cmds)
          /\ stream.cmds[next + 1].fault = "none"
      BY <1>0, <2>3, ReadCmdOk
    <3>2. Promise!Consume
      BY <1>2, <2>1, <2>2, <2>3, <3>1
      DEF ReadCmd, Promise!Consume, Promise!Accepted, Promise!NextReadable, HeaderAccepted
    <3>3. QED
      BY <3>2 DEF Promise!Next
  <2>4. CASE read_cmd_err /\ return("read_err")
    <3>1. ~ Promise!NextReadable
      BY <2>2, <2>4 DEF read_cmd_err, Readable, Promise!NextReadable
    <3>2. Promise!Return
      BY <1>2, <2>1, <2>4, <3>1 DEF ReadCmd, read_cmd_err, return, Promise!Return
    <3>3. QED
      BY <3>2 DEF Promise!Next
  <2>5. QED
    BY <1>2, <2>3, <2>4 DEF ReadCmd
<1>3. CASE HandleCmd
  <2>1. PICK r \in Replies : handled' = Append(handled, [cmd |-> next, reply |-> r])
    BY <1>3 DEF HandleCmd
  <2>2. /\ next = Len(handled) + 1 /\ Len(handled) \in Nat
        /\ outcome = "none"
        /\ \A i \in 1 .. Len(handled) : handled[i].reply = "some"
    BY <1>0, <1>3 DEF HandleCmd, Control
  <2>3. ~ Promise!Failed(handled)
    <3>1. handled # <<>> => Len(handled) \in 1 .. Len(handled)
      BY <1>0
    <3>2. QED
      BY <2>2, <3>1 DEF Promise!Failed, Promise!Failures
  <2>4. Promise!Hand
    BY <1>3, <2>1, <2>2, <2>3 DEF HandleCmd, Promise!Hand, Promise!Replies, Replies, readerVars
  <2>5. QED
    BY <2>4 DEF Promise!Next
<1>4. CASE Propagate
  <2>1. /\ handled # <<>> /\ handled[Len(handled)].reply \in {"err", "panic"}
        /\ outcome = "none"
    BY <1>0, <1>4 DEF Propagate, Control
  <2>2. Promise!Failed(handled)
    BY <2>1 DEF Promise!Failed, Promise!Failures
  <2>3. Promise!Return
    BY <1>4, <2>1, <2>2 DEF Propagate, return, readerVars, Promise!Return
  <2>4. QED
    BY <2>3 DEF Promise!Next
<1>5. CASE StorePosition
  <2>1. /\ handled # <<>> /\ handled[Len(handled)].reply = "none"
        /\ outcome = "none" /\ next = Len(handled)
    BY <1>0, <1>5 DEF StorePosition, Control
  <2>2. Promise!Acked(handled) = Len(handled)
    BY <2>1 DEF Promise!Acked, Promise!Failed, Promise!Failures
  <2>3. Len(handled) \in Nat /\ Len(handled) > 0
    BY <1>0, <2>1
  <2>4. Promise!Return
    BY <1>5, <2>1, <2>2, <2>3 DEF StorePosition, return, publish_position, Promise!Return
  <2>5. QED
    BY <2>4 DEF Promise!Next
<1>6. CASE Terminated \/ UNCHANGED vars
  BY <1>6 DEF Terminated, vars, readerVars
<1>7. QED
  BY <1>1, <1>2, <1>3, <1>4, <1>5, <1>6 DEF Next

\* read_and_handle keeps what receive_stream promises: in-order delivery, no
\* call after a failure, errors reported as what they are, and Ok only when
\* every command read was handled.
THEOREM DirectImplementsReceive == Spec => ImplementsReceive
<1>1. Spec => Promise!Init /\ [][Promise!Next]_Promise!vars
  BY DirectInit, DirectStep, DirectInitRefines, DirectStepRefines, PTL DEF Spec
<1>2. QED
  BY <1>1 DEF ImplementsReceive, Promise!Spec
=============================================================================

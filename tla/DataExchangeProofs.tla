------------------------- MODULE DataExchangeProofs -------------------------
(* Proofs about DataExchange for any tasks, packages, queue lengths and     *)
(* bounds, with any link faults and whatever is left on the stack.          *)
EXTENDS DataExchangeChannel, FiniteSetTheorems, TLAPS

(* A board that is about to send has a packet to send.                      *)
SenderHasPacket ==
  \A b \in Boards : phase[b] = "toSend" \/ InSend(b) => cur[b] \in Packet

(* The inductive invariant.  MutexProtects alone is not inductive: that a   *)
(* transfer leaves a typed packet behind needs SenderHasPacket, that it     *)
(* leaves typed packages TypeOK.                                            *)
IInv == TypeOK /\ SenderHasPacket /\ MutexProtects

QueuesOK(q) ==
  /\ q \in [Node -> Seq(Packet)]
  /\ \A n \in Node : Len(q[n]) <= QLen[n]

----------------------------------------------------------------------------
(* Lemmas about the operators *)

LEMMA OtherBoard ==
  \A b \in Boards : Other(b) \in Boards /\ Other(b) # b /\ Other(Other(b)) = b
BY DEF Boards, Other

LEMMA DXNode == \A b \in Boards : DX(b) \in Node /\ DX(b) \notin Task
BY NodeAssumption DEF Boards, DX, Node

LEMMA BoardOfBoards == \A n : BoardOf(n) \in Boards
BY DEF BoardOf, Boards

LEMMA TaskNode == Task \subseteq Node /\ "CMC" \in Node
BY NodeAssumption DEF Task, Node

LEMMA ZeroValue == 0 \in Value
BY BoundAssumption DEF Value

LEMMA PushOK ==
  ASSUME NEW q, QueuesOK(q), NEW n \in Node, NEW pk \in Packet
  PROVE  QueuesOK(Push(q, n, pk))
<1>1. CASE Len(q[n]) < QLen[n]
  <2>1. q[n] \in Seq(Packet)
    BY DEF QueuesOK
  <2>2. /\ Append(q[n], pk) \in Seq(Packet)
        /\ Len(Append(q[n], pk)) = Len(q[n]) + 1
    BY <2>1
  <2>3. QLen[n] \in Nat /\ Len(q[n]) \in Nat
    BY <2>1, BoundAssumption
  <2>4. Push(q, n, pk) = [q EXCEPT ![n] = Append(q[n], pk)]
    BY <1>1 DEF Push
  <2> QED
    BY <1>1, <2>2, <2>3, <2>4 DEF QueuesOK
<1>2. CASE ~(Len(q[n]) < QLen[n])
  BY <1>2 DEF Push
<1> QED
  BY <1>1, <1>2

LEMMA RouterOK ==
  ASSUME NEW q, QueuesOK(q), NEW at, NEW pk \in Packet
  PROVE  QueuesOK(Router(q, at, pk))
<1>1. pk.to \in Node
  BY DEF Packet
<1>2. DX(BoardOf(at)) \in Node
  BY DXNode, BoardOfBoards
<1> QED
  BY <1>1, <1>2, PushOK DEF Router

LEMMA ResponseOK ==
  ASSUME NEW me \in Node, NEW pk \in Packet
  PROVE  Response(me, pk) \in Packet
BY ZeroValue DEF Response, MakePacket, Packet, ValueType

LEMMA DispatchOK ==
  ASSUME NEW q, QueuesOK(q), NEW b \in Boards, NEW pk \in Packet
  PROVE  QueuesOK(Dispatch(q, b, pk))
BY DXNode, RouterOK, ResponseOK DEF Dispatch

LEMMA FreeOK ==
  ASSUME NEW st \in [Package -> {"Empty", "Full"}],
         NEW pk \in Packet \cup {NoPacket}
  PROVE  Free(st, pk) \in [Package -> {"Empty", "Full"}]
BY DEF Free, Packet, NoPacket, None

LEMMA FillOK ==
  ASSUME NEW st \in [Package -> {"Empty", "Full"}], NEW b, NEW pk,
         NEW p \in Package
  PROVE  Fill(st, b, pk, p) \in [Package -> {"Empty", "Full"}]
BY DEF Fill

LEMMA TailOK ==
  ASSUME NEW q, QueuesOK(q), NEW n \in Node, q[n] # <<>>
  PROVE  /\ Head(q[n]) \in Packet
         /\ QueuesOK([q EXCEPT ![n] = Tail(q[n])])
<1>1. q[n] \in Seq(Packet) /\ Len(q[n]) <= QLen[n] /\ QLen[n] \in Nat
  BY BoundAssumption DEF QueuesOK
<1>2. /\ Head(q[n]) \in Packet
      /\ Tail(q[n]) \in Seq(Packet)
      /\ Len(Tail(q[n])) = Len(q[n]) - 1
  BY <1>1
<1>3. Len(Tail(q[n])) <= QLen[n]
  BY <1>1, <1>2
<1> QED
  BY <1>2, <1>3 DEF QueuesOK

----------------------------------------------------------------------------
(* Type correctness *)

LEMMA InitIInv == Init => IInv
<1> SUFFICES ASSUME Init PROVE IInv
  OBVIOUS
<1>1. TypeOK
  <2>1. \A n \in Node : QLen[n] \in Nat
    BY BoundAssumption
  <2>2. queue \in [Node -> Seq(Packet)] /\ \A n \in Node : Len(queue[n]) <= QLen[n]
    BY <2>1 DEF Init
  <2> QED
    BY <2>2, ZeroValue, BoundAssumption DEF Init, TypeOK, Boards, Phases
<1>2. SenderHasPacket /\ MutexProtects
  BY OtherBoard DEF Init, SenderHasPacket, MutexProtects, InSend
<1> QED
  BY <1>1, <1>2 DEF IInv

LEMMA TypedStep ==
  ASSUME TypeOK, SenderHasPacket, MutexProtects, Next
  PROVE  TypeOK'
<1> USE DEF TypeOK
<1>q. QueuesOK(queue)
  BY DEF QueuesOK
<1>l. \A b \in Boards : Local(b) \subseteq Package
  BY DEF Local
<1>1. ASSUME NEW p \in Package, Produce(p)
      PROVE  TypeOK'
  <2>1. made + 1 \in Value /\ made + 1 \in 0..MaxFrames
    BY <1>1, BoundAssumption DEF Produce, Value
  <2>2. MakePacket("frame", Home[p], Source[p], p, 0) \in Packet
    BY PackageAssumption, ZeroValue DEF MakePacket, Packet
  <2>3. QueuesOK(queue')
    BY <1>1, <1>q, <2>2, RouterOK DEF Produce
  <2> QED
    BY <1>1, <2>1, <2>3 DEF Produce, QueuesOK
<1>2. ASSUME NEW a \in Asks, Ask(a[1], a[2], a[3])
      PROVE  TypeOK'
  <2>1. asked + 1 \in 0..MaxAsks /\ MaxFrames + asked + 1 \in Value
    BY <1>2, BoundAssumption DEF Ask, Value
  <2>2. a[1] \in Node /\ a[2] \in ValueType /\ a[3] \in Node
    BY BoundAssumption, TaskNode DEF ValueType
  <2>3. MakePacket(a[2], a[1], a[3], None, MaxFrames + asked + 1) \in Packet
    BY <2>1, <2>2 DEF MakePacket, Packet
  <2>4. QueuesOK(queue')
    BY <1>2, <1>q, <2>3, RouterOK DEF Ask
  <2> QED
    BY <1>2, <2>1, <2>4 DEF Ask, QueuesOK
<1>3. ASSUME NEW t \in Task, Dequeue(t)
      PROVE  TypeOK'
  <2>1. Head(queue[t]) \in Packet /\ QueuesOK(queue')
    BY <1>3, <1>q, TailOK, TaskNode DEF Dequeue
  <2> QED
    BY <1>3, <2>1 DEF Dequeue, QueuesOK
<1>4. ASSUME NEW t \in Task, HandleFrame(t)
      PROVE  TypeOK'
  <2>1. hold[t] \in Packet
    BY <1>4 DEF HandleFrame, NoPacket, None
  <2>2. state' \in [Package -> {"Empty", "Full"}]
    BY <1>4, <2>1, FreeOK DEF HandleFrame
  <2>3. hold[t].pkg \in Package /\ hold[t].from \in Node
    BY <1>4, <2>1 DEF HandleFrame, Packet, ValueType
  <2>4. taken' \in [Task -> [Node -> SUBSET Value]]
    BY <1>4, <2>3 DEF HandleFrame
  <2> QED
    BY <1>4, <2>2, <2>4 DEF HandleFrame
<1>5. ASSUME NEW t \in Task, HandleValue(t)
      PROVE  TypeOK'
  <2>1. hold[t] \in Packet
    BY <1>5 DEF HandleValue
  <2>2. hold[t].from \in Node /\ hold[t].val \in Value
    BY <2>1 DEF Packet
  <2>3. QueuesOK(queue')
    BY <1>5, <1>q, <2>1, RouterOK, ResponseOK, TaskNode DEF HandleValue
  <2>4. taken' \in [Task -> [Node -> SUBSET Value]]
    <3>1. CASE hold[t].type = "ping"
      BY <1>5, <3>1 DEF HandleValue
    <3>2. CASE hold[t].type # "ping"
      <4>1. /\ taken[t] \in [Node -> SUBSET Value]
            /\ taken[t][hold[t].from] \cup {hold[t].val} \in SUBSET Value
        BY <2>2
      <4> HIDE DEF TypeOK
      <4>2. [taken[t] EXCEPT ![hold[t].from] =
               taken[t][hold[t].from] \cup {hold[t].val}]
              \in [Node -> SUBSET Value]
        BY <2>2, <4>1
      <4>3. taken' = [taken EXCEPT ![t] = [taken[t] EXCEPT ![hold[t].from] =
                        taken[t][hold[t].from] \cup {hold[t].val}]]
        BY <1>5, <3>2 DEF HandleValue
      <4>4. taken \in [Task -> [Node -> SUBSET Value]]
        BY DEF TypeOK
      <4> QED
        BY <4>2, <4>3, <4>4
    <3> QED
      BY <3>1, <3>2
  <2> QED
    BY <1>5, <2>3, <2>4 DEF HandleValue, QueuesOK
<1>6. ASSUME NEW b \in Boards, TakeOwn(b)
      PROVE  TypeOK'
  <2> DEFINE pk == Head(queue[DX(b)])
             rest == [queue EXCEPT ![DX(b)] = Tail(queue[DX(b)])]
             error == MakePacket("syslog", DX(b), "CMC", None, 0)
  <2>1. pk \in Packet /\ QueuesOK(rest)
    BY <1>6, <1>q, TailOK, DXNode DEF TakeOwn
  <2>2. error \in Packet
    BY DXNode, TaskNode, ZeroValue DEF MakePacket, Packet, ValueType
  <2>3. Response(DX(b), pk) \in Packet
    BY <2>1, DXNode, ResponseOK
  <2>4. /\ QueuesOK(Router(rest, DX(b), Response(DX(b), pk)))
        /\ QueuesOK(Router(rest, DX(b), error))
    BY <2>1, <2>2, <2>3, RouterOK
  <2>5. \/ queue' = Router(rest, DX(b), Response(DX(b), pk))
        \/ queue' = Router(rest, DX(b), error)
        \/ queue' = rest
    BY <1>6 DEF TakeOwn
  <2>6. QueuesOK(queue')
    BY <2>1, <2>4, <2>5
  <2>7. state' \in [Package -> {"Empty", "Full"}]
    BY <1>6, <2>1, FreeOK DEF TakeOwn
  <2> QED
    BY <1>6, <2>6, <2>7 DEF TakeOwn, QueuesOK
<1>7. ASSUME NEW b \in Boards, TakeForeign(b)
      PROVE  TypeOK'
  <2>1. Head(queue[DX(b)]) \in Packet /\ QueuesOK(queue')
    BY <1>7, <1>q, TailOK, DXNode DEF TakeForeign
  <2> QED
    BY <1>7, <2>1 DEF TakeForeign, QueuesOK, Phases
<1>8. ASSUME NEW b \in Boards, StartSend(b)
      PROVE  TypeOK'
  BY <1>8 DEF StartSend, Phases
<1>9. ASSUME NEW b \in Boards, SendFails(b)
      PROVE  TypeOK'
  <2>1. state' \in [Package -> {"Empty", "Full"}]
    BY <1>9, FreeOK DEF SendFails
  <2> QED
    BY <1>9, <2>1 DEF SendFails, Phases
<1>17. ASSUME NEW b \in Boards, DrainEnds(b)
       PROVE  TypeOK'
  <2>1. state' \in [Package -> {"Empty", "Full"}]
    BY <1>17, FreeOK DEF DrainEnds
  <2> QED
    BY <1>17, <2>1 DEF DrainEnds, Phases
<1>g. ASSUME NEW b \in Boards, GiveUp(b)
      PROVE  phase' \in [Boards -> Phases]
  BY <1>g, OtherBoard DEF GiveUp, Phases
<1>p. \A b \in Boards : last[b] # NoPacket => last[b].pkg \in Package \cup {None}
  BY DEF Packet, ValueType
<1>10. ASSUME NEW b \in Boards, SeeActive(b)
       PROVE  TypeOK'
  BY <1>10 DEF SeeActive, Phases
<1>11. ASSUME NEW b \in Boards, StartReceive(b)
       PROVE  TypeOK'
  BY <1>11, <1>l DEF StartReceive, Phases
<1>12. ASSUME NEW b \in Boards, NoRoom(b)
       PROVE  TypeOK'
  <2>1. QueuesOK(queue')
    BY <1>12, <1>q, DispatchOK DEF NoRoom
  <2>2. state' \in [Package -> {"Empty", "Full"}]
    BY <1>12, FreeOK DEF NoRoom
  <2> QED
    BY <1>12, <1>p, <2>1, <2>2 DEF NoRoom, QueuesOK, Phases
<1>13. ASSUME NEW b \in Boards, Transfer(b)
       PROVE  TypeOK'
  <2> DEFINE o == Other(b)
             p == rxp[o]
             frame == cur[b].type = "frame"
             pk == [cur[b] EXCEPT !.pkg = IF frame THEN p ELSE None]
  <2>1. o \in Boards /\ cur[b] \in Packet
    BY <1>13, OtherBoard DEF Transfer, SenderHasPacket, InSend
  <2>2. p \in Package
    BY <1>13, <1>l, <2>1 DEF Transfer, MutexProtects
  <2>3. pk \in Packet
    BY <2>1, <2>2 DEF Packet, ValueType
  <2>4. QueuesOK(queue')
    BY <1>13, <1>q, <2>1, <2>3, DispatchOK DEF Transfer
  <2>5. state' \in [Package -> {"Empty", "Full"}]
    BY <1>13, <2>2, FreeOK, FillOK DEF Transfer
  <2>6. frame => cur[b].pkg \in Package
    BY <2>1 DEF Packet, ValueType
  <2>7. cur[b].val \in Value
    BY <2>1 DEF Packet
  <2>8. content' \in [Package -> Value]
    BY <1>13, <2>2, <2>6, <2>7 DEF Transfer
  <2> QED
    BY <1>13, <2>1, <2>3, <2>4, <2>5, <2>8 DEF Transfer, QueuesOK, Phases
<1>14. ASSUME NEW b \in Boards, ReceiveFails(b)
       PROVE  TypeOK'
  <2> DEFINE p == rxp[b]
             frame == last[b].type = "frame"
             pk == [last[b] EXCEPT !.pkg = IF frame THEN p ELSE None,
                                   !.val = IF frame THEN last[b].val
                                                    ELSE content[p]]
  <2>1. p \in Package
    BY <1>14, <1>l DEF ReceiveFails, MutexProtects
  <2>p. phase' \in [Boards -> Phases]
    BY <1>14, <1>g DEF ReceiveFails
  <2>2. CASE UNCHANGED <<queue, state, last, stale>>
    BY <1>14, <2>p, <2>2 DEF ReceiveFails
  <2>3. CASE /\ last[b] # NoPacket
             /\ queue' = Dispatch(queue, b, pk)
             /\ state' = Fill(state, b, pk, p)
             /\ last' = [last EXCEPT ![b] = pk]
             /\ stale' = stale \cup {None}
    <3>1. pk \in Packet
      <4>1. last[b] \in Packet /\ content[p] \in Value
        BY <2>1, <2>3
      <4>2. CASE frame
        <5>1. pk = [last[b] EXCEPT !.pkg = p, !.val = last[b].val]
          BY <4>2
        <5> QED
          BY <2>1, <4>1, <4>2, <5>1 DEF Packet, ValueType
      <4>3. CASE ~frame
        <5>1. pk = [last[b] EXCEPT !.pkg = None, !.val = content[p]]
          BY <4>3
        <5> QED
          BY <4>1, <4>3, <5>1 DEF Packet, ValueType
      <4> QED
        BY <4>2, <4>3
    <3> HIDE DEF pk
    <3>2. QueuesOK(queue') /\ state' \in [Package -> {"Empty", "Full"}]
      BY <1>q, <2>1, <2>3, <3>1, DispatchOK, FillOK
    <3> QED
      BY <1>14, <2>p, <2>3, <3>1, <3>2 DEF ReceiveFails, QueuesOK
  <2> QED
    BY <1>14, <2>2, <2>3 DEF ReceiveFails
<1>15. ASSUME NEW b \in Boards, ReceiveShort(b)
       PROVE  TypeOK'
  <2> DEFINE pk == [cur[Other(b)] EXCEPT !.pkg = last[b].pkg,
                                         !.val = last[b].val]
  <2>1. cur[Other(b)] \in Packet /\ last[b] \in Packet
    BY <1>15, OtherBoard DEF ReceiveShort, SenderHasPacket, InSend
  <2>2. pk \in Packet
    BY <1>15, <2>1 DEF ReceiveShort, Packet, ValueType
  <2>3. QueuesOK(queue') /\ state' \in [Package -> {"Empty", "Full"}]
    BY <1>15, <1>q, <2>2, DispatchOK, FreeOK DEF ReceiveShort
  <2>4. phase' \in [Boards -> Phases] /\ pk.pkg \in Package \cup {None}
    BY <1>15, <1>g, <2>2 DEF ReceiveShort, Packet, ValueType
  <2>5. /\ last' = [last EXCEPT ![b] = pk]
        /\ named' = [named EXCEPT ![b] = TRUE]
        /\ stale' = stale \cup {pk.pkg}
        /\ UNCHANGED <<content, hold, cur, rxp, made, asked, taken>>
    BY <1>15 DEF ReceiveShort
  <2> HIDE DEF pk
  <2> QED
    BY <2>2, <2>3, <2>4, <2>5 DEF QueuesOK
<1>16. ASSUME Conflict
       PROVE  TypeOK'
  <2>1. state' \in [Package -> {"Empty", "Full"}]
    BY <1>16, FreeOK DEF Conflict, Boards
  <2> QED
    BY <1>16, <2>1 DEF Conflict, Phases
<1> QED
  BY <1>1, <1>2, <1>3, <1>4, <1>5, <1>6, <1>7, <1>8, <1>9, <1>10, <1>11,
     <1>12, <1>13, <1>14, <1>15, <1>16, <1>17 DEF Next, TaskStep, DXStep

----------------------------------------------------------------------------
(* Mutual exclusion on the packages *)

(* A sender keeps its packet until it is back in the loop.                  *)
LEMMA SenderStep ==
  ASSUME TypeOK, SenderHasPacket, Next
  PROVE  SenderHasPacket'
<1>1. ASSUME NEW b \in Boards, TakeForeign(b)
      PROVE  SenderHasPacket'
  <2>1. QueuesOK(queue) /\ cur \in [Boards -> Packet \cup {NoPacket}]
    BY DEF TypeOK, QueuesOK
  <2>2. Head(queue[DX(b)]) \in Packet
    BY <1>1, <2>1, TailOK, DXNode DEF TakeForeign
  <2>3. phase \in [Boards -> Phases]
    BY DEF TypeOK
  <2> QED
    BY <1>1, <2>1, <2>2, <2>3 DEF TakeForeign, SenderHasPacket, InSend
<1>2. ASSUME NEW b \in Boards,
             \/ StartSend(b) \/ SendFails(b) \/ DrainEnds(b) \/ SeeActive(b)
             \/ StartReceive(b) \/ NoRoom(b) \/ ReceiveFails(b) \/ ReceiveShort(b)
      PROVE  SenderHasPacket'
  <2>1. phase \in [Boards -> Phases] /\ cur' = cur
    BY <1>2 DEF TypeOK, StartSend, SendFails, DrainEnds, SeeActive, StartReceive,
                NoRoom, ReceiveFails, ReceiveShort
  <2>2. \A c \in Boards : phase'[c] = "toSend" \/ InSend(c)'
                            => phase[c] = "toSend" \/ InSend(c)
    BY <1>2, <2>1, OtherBoard
       DEF StartSend, SendFails, DrainEnds, SeeActive, StartReceive, NoRoom,
           ReceiveFails, ReceiveShort, GiveUp, InSend
  <2> QED
    BY <2>1, <2>2 DEF SenderHasPacket
<1>3. ASSUME Conflict
      PROVE  SenderHasPacket'
  BY <1>3 DEF Conflict, SenderHasPacket, InSend
<1>5. ASSUME NEW b \in Boards, Transfer(b)
      PROVE  SenderHasPacket'
  <2>1. /\ phase' = [phase EXCEPT ![b] = "drain", ![Other(b)] = "loop"]
        /\ phase[b] = "send" /\ cur' = cur /\ phase \in [Boards -> Phases]
    BY <1>5 DEF Transfer, TypeOK
  <2>2. \A c \in Boards : phase'[c] = "toSend" \/ InSend(c)'
                            => phase[c] = "toSend" \/ InSend(c)
    BY <2>1, OtherBoard DEF InSend
  <2> QED
    BY <2>1, <2>2 DEF SenderHasPacket
<1>4. ASSUME \/ \E p \in Package : Produce(p)
             \/ \E a \in Asks : Ask(a[1], a[2], a[3])
             \/ \E t \in Task : TaskStep(t)
             \/ \E b \in Boards : TakeOwn(b)
      PROVE  SenderHasPacket'
  <2>1. phase' = phase /\ cur' = cur
    BY <1>4 DEF Produce, Ask, TaskStep, Dequeue, HandleFrame, HandleValue,
                TakeOwn
  <2> QED
    BY <2>1 DEF SenderHasPacket, InSend
<1> QED
  BY <1>1, <1>2, <1>3, <1>4, <1>5 DEF Next, DXStep

(* A step that starts no transfer preserves mutual exclusion when it leaves *)
(* the locked packages alone.                                               *)
LEMMA HandsOff ==
  ASSUME MutexProtects,
         \A b \in Boards : InSend(b)' => InSend(b) /\ cur'[b] = cur[b],
         \A b \in Boards : phase'[b] = "receive" =>
           phase[b] = "receive" /\ rxp'[b] = rxp[b],
         \A b \in Boards : InSend(b)' /\ cur[b].type = "frame" =>
           state'[cur[b].pkg] = state[cur[b].pkg],
         \A b \in Boards : phase'[b] = "receive" => state'[rxp[b]] = state[rxp[b]]
  PROVE  MutexProtects'
BY OtherBoard DEF MutexProtects, Local

(* A step after which no board sends or receives that did not before, and   *)
(* which changes the state of packages that nobody has locked only,         *)
(* preserves mutual exclusion.                                              *)
LEMMA Unlocked ==
  ASSUME MutexProtects, UNCHANGED <<cur, rxp>>,
         \A b \in Boards : InSend(b)' => InSend(b),
         \A b \in Boards : phase'[b] = "receive" => phase[b] = "receive",
         \A p \in Package : Locked(p) => state'[p] = state[p],
         SenderHasPacket
  PROVE  MutexProtects'
<1>1. ASSUME NEW b \in Boards, InSend(b)', cur[b].type = "frame"
      PROVE  state'[cur[b].pkg] = state[cur[b].pkg]
  <2>1. cur[b] \in Packet
    BY <1>1 DEF SenderHasPacket
  <2>2. cur[b].pkg \in Package
    BY <1>1, <2>1 DEF Packet, ValueType
  <2> QED
    BY <1>1, <2>2 DEF Locked
<1>2. ASSUME NEW b \in Boards, phase'[b] = "receive"
      PROVE  state'[rxp[b]] = state[rxp[b]]
  BY <1>2 DEF Locked, MutexProtects, Local
<1>3. /\ \A b \in Boards : InSend(b)' => InSend(b) /\ cur'[b] = cur[b]
      /\ \A b \in Boards : phase'[b] = "receive" =>
           phase[b] = "receive" /\ rxp'[b] = rxp[b]
  OBVIOUS
<1>4. /\ \A b \in Boards : InSend(b)' /\ cur[b].type = "frame" =>
           state'[cur[b].pkg] = state[cur[b].pkg]
      /\ \A b \in Boards : phase'[b] = "receive" => state'[rxp[b]] = state[rxp[b]]
  BY <1>1, <1>2
<1> QED
  BY <1>3, <1>4, HandsOff

(* A receiver that gives up.                                                *)
LEMMA GivesUp ==
  ASSUME NEW b \in Boards, TypeOK, GiveUp(b)
  PROVE  /\ \A c \in Boards : InSend(c)' => InSend(c) /\ c # b
         /\ \A c \in Boards : phase'[c] = "receive" => phase[c] = "receive" /\ c # b
         /\ \A c \in Boards : phase'[c] = "toSend" => phase[c] = "toSend"
<1>1. phase \in [Boards -> Phases]
  BY DEF TypeOK
<1>2. CASE phase' = [phase EXCEPT ![b] = "loop"]
  BY <1>1, <1>2 DEF InSend
<1>3. CASE /\ phase[Other(b)] = "send"
           /\ phase' = [phase EXCEPT ![b] = "loop", ![Other(b)] = "drain"]
  <2>1. Other(b) \in Boards /\ Other(b) # b
    BY OtherBoard
  <2>2. /\ phase'[b] = "loop" /\ phase'[Other(b)] = "drain"
        /\ \A c \in Boards : c # b /\ c # Other(b) => phase'[c] = phase[c]
    BY <1>1, <1>3, <2>1
  <2> QED
    BY <1>3, <2>1, <2>2 DEF InSend
<1> QED
  BY <1>2, <1>3 DEF GiveUp

(* A board that goes back to its loop.                                      *)
LEMMA Leaves ==
  ASSUME NEW b \in Boards, TypeOK, phase' = [phase EXCEPT ![b] = "loop"]
  PROVE  /\ \A c \in Boards : InSend(c)' => InSend(c) /\ c # b
         /\ \A c \in Boards : phase'[c] = "receive" => phase[c] = "receive" /\ c # b
BY DEF InSend, TypeOK

(* Every action preserves mutual exclusion.                                 *)
LEMMA MutexStep ==
  ASSUME TypeOK, SenderHasPacket, MutexProtects, Next
  PROVE  MutexProtects'
<1>t. /\ state \in [Package -> {"Empty", "Full"}]
      /\ phase \in [Boards -> Phases]
      /\ hold \in [Task -> Packet \cup {NoPacket}]
      /\ rxp \in [Boards -> Package \cup {None}]
  BY DEF TypeOK
<1>f. ASSUME NEW pk, pk.type = "frame" => ~Locked(pk.pkg),
             state' = Free(state, pk) \/ state' = state
      PROVE  \A p \in Package : Locked(p) => state'[p] = state[p]
  BY <1>t, <1>f DEF Free
<1>1. ASSUME NEW p \in Package, Produce(p)
      PROVE  MutexProtects'
  BY <1>1, <1>t, Unlocked DEF Produce, InSend
<1>2. ASSUME NEW t \in Task, HandleFrame(t)
      PROVE  MutexProtects'
  BY <1>2, <1>f, Unlocked DEF HandleFrame, InSend
<1>3. ASSUME \/ \E a \in Asks : Ask(a[1], a[2], a[3])
             \/ \E t \in Task : Dequeue(t) \/ HandleValue(t)
      PROVE  MutexProtects'
  <2>1. UNCHANGED <<state, phase, cur, rxp>>
    BY <1>3 DEF Ask, Dequeue, HandleValue
  <2> QED
    BY <2>1, Unlocked DEF InSend
<1>4. ASSUME NEW b \in Boards, TakeOwn(b)
      PROVE  MutexProtects'
  <2> DEFINE pk == Head(queue[DX(b)])
  <2>1. /\ pk.type = "frame" => ~Locked(pk.pkg)
        /\ state' = Free(state, pk)
        /\ UNCHANGED <<phase, cur, rxp>>
    BY <1>4 DEF TakeOwn
  <2> HIDE DEF pk
  <2>2. \A p \in Package : Locked(p) => state'[p] = state[p]
    BY <2>1, <1>f
  <2> QED
    BY <2>1, <2>2, Unlocked DEF InSend
<1>5. ASSUME NEW b \in Boards, TakeForeign(b) \/ SeeActive(b)
      PROVE  MutexProtects'
  <2>1. /\ UNCHANGED <<state, rxp>>
        /\ \A c \in Boards : c # b => phase'[c] = phase[c] /\ cur'[c] = cur[c]
        /\ phase'[b] \in {"toSend", "toReceive"}
    BY <1>5, <1>t DEF TakeForeign, SeeActive, TypeOK
  <2>2. \A c \in Boards : InSend(c)' \/ phase'[c] = "receive" => c # b
    BY <2>1 DEF InSend
  <2>3. \A c \in Boards : c # b => (InSend(c)' <=> InSend(c))
    BY <2>1 DEF InSend
  <2> QED
    BY <2>1, <2>2, <2>3, HandsOff
<1>6. ASSUME NEW b \in Boards, StartSend(b)
      PROVE  MutexProtects'
  <2>1. UNCHANGED <<state, cur, rxp>>
    BY <1>6 DEF StartSend
  <2>2. CASE phase' = [phase EXCEPT ![b] = "loop"]
    BY <2>1, <2>2, Leaves, HandsOff
  <2>3. CASE /\ phase' = [phase EXCEPT ![b] = "send"]
             /\ cur[b].type = "frame" => state[cur[b].pkg] = "Full"
    <3>1. \A c \in Boards : c # b =>
            (InSend(c)' <=> InSend(c)) /\ (phase'[c] = "receive" <=> phase[c] = "receive")
      BY <1>t, <2>3 DEF InSend
    <3>2. InSend(b)' /\ phase'[b] # "receive"
      BY <1>t, <2>3 DEF InSend
    <3>3. \A c \in Boards :
            InSend(c) /\ cur[c].type = "frame" /\ cur[b].type = "frame"
              => cur[c].pkg # cur[b].pkg
      BY <1>6 DEF StartSend, Locked
    <3>4. \A c \in Boards :
            /\ InSend(c)' /\ cur'[c].type = "frame"
                 => state'[cur'[c].pkg] = "Full"
            /\ phase'[c] = "receive"
                 => rxp'[c] \in Local(c)' /\ state'[rxp'[c]] = "Empty"
      BY <2>1, <2>3, <3>1, <3>2 DEF MutexProtects, Local
    <3>5. \A c \in Boards :
            InSend(c)' /\ InSend(Other(c))'
              /\ cur'[c].type = "frame" /\ cur'[Other(c)].type = "frame"
                => cur'[c].pkg # cur'[Other(c)].pkg
      BY <2>1, <3>1, <3>3, OtherBoard DEF MutexProtects
    <3> QED
      BY <3>4, <3>5 DEF MutexProtects
  <2>4. \/ phase' = [phase EXCEPT ![b] = "loop"]
        \/ /\ phase' = [phase EXCEPT ![b] = "send"]
           /\ cur[b].type = "frame" => state[cur[b].pkg] = "Full"
    BY <1>6 DEF StartSend
  <2> QED
    BY <2>2, <2>3, <2>4
<1>7. ASSUME NEW b \in Boards, SendFails(b) \/ DrainEnds(b)
      PROVE  MutexProtects'
  <2>1. /\ phase' = [phase EXCEPT ![b] = "loop"]
        /\ state' = Free(state, cur[b])
        /\ UNCHANGED <<cur, rxp>>
        /\ InSend(b)
    BY <1>7 DEF SendFails, DrainEnds, InSend
  <2>2. /\ \A c \in Boards : InSend(c)' => InSend(c) /\ c # b
        /\ \A c \in Boards : phase'[c] = "receive" => phase[c] = "receive" /\ c # b
    BY <2>1, Leaves
  <2>3. ASSUME NEW c \in Boards, InSend(c)', cur[c].type = "frame"
        PROVE  state'[cur[c].pkg] = state[cur[c].pkg]
    <3>1. c = Other(b) /\ b = Other(c) /\ InSend(c)
      BY <2>2, <2>3 DEF Boards, Other
    <3>2. cur[c] \in Packet
      BY <3>1 DEF SenderHasPacket
    <3>3. cur[c].pkg \in Package
      BY <2>3, <3>2 DEF Packet, ValueType
    <3>4. cur[b].type = "frame" => cur[b].pkg # cur[c].pkg
      BY <2>1, <2>3, <3>1 DEF MutexProtects
    <3> QED
      BY <1>t, <2>1, <3>3, <3>4 DEF Free
  <2>4. ASSUME NEW c \in Boards, phase'[c] = "receive"
        PROVE  state'[rxp[c]] = state[rxp[c]]
    <3>1. phase[c] = "receive"
      BY <2>2, <2>4
    <3>2. rxp[c] \in Package /\ state[rxp[c]] = "Empty"
      BY <3>1 DEF MutexProtects, Local
    <3>3. cur[b].type = "frame" => state[cur[b].pkg] = "Full"
      BY <2>1 DEF MutexProtects
    <3> QED
      BY <1>t, <2>1, <3>2, <3>3 DEF Free
  <2> QED
    BY <2>1, <2>2, <2>3, <2>4, HandsOff
<1>8. ASSUME NEW b \in Boards, StartReceive(b)
      PROVE  MutexProtects'
  <2>1. PICK p \in Local(b) :
          /\ state[p] = "Empty"
          /\ rxp' = [rxp EXCEPT ![b] = p]
    BY <1>8 DEF StartReceive
  <2>2. UNCHANGED <<state, cur>> /\ phase' = [phase EXCEPT ![b] = "receive"]
    BY <1>8 DEF StartReceive
  <2>3. \A c \in Boards : c # b =>
          (InSend(c)' <=> InSend(c)) /\ phase'[c] = phase[c] /\ rxp'[c] = rxp[c]
    BY <1>t, <2>1, <2>2 DEF InSend
  <2>4. phase'[b] = "receive" /\ ~InSend(b)' /\ rxp'[b] = p
    BY <1>t, <2>1, <2>2 DEF InSend
  <2>5. \A c \in Boards : InSend(c)' => InSend(c)
    BY <2>3, <2>4
  <2>6. \A c \in Boards : phase'[c] = "receive"
          => rxp'[c] \in Local(c)' /\ state'[rxp'[c]] = "Empty"
    <3>1. p \in Local(b)' /\ state'[p] = "Empty"
      BY <2>1, <2>2 DEF Local
    <3> QED
      BY <2>2, <2>3, <2>4, <3>1 DEF MutexProtects, Local
  <2>7. \A c \in Boards : InSend(c)' /\ cur'[c].type = "frame"
          => state'[cur'[c].pkg] = "Full"
    BY <2>2, <2>5 DEF MutexProtects
  <2>8. \A c \in Boards :
          InSend(c)' /\ InSend(Other(c))'
            /\ cur'[c].type = "frame" /\ cur'[Other(c)].type = "frame"
              => cur'[c].pkg # cur'[Other(c)].pkg
    BY <2>2, <2>5, OtherBoard DEF MutexProtects
  <2> QED
    BY <2>6, <2>7, <2>8 DEF MutexProtects
<1>9. ASSUME NEW b \in Boards, NoRoom(b)
      PROVE  MutexProtects'
  <2>1. /\ phase' = [phase EXCEPT ![b] = "loop"]
        /\ UNCHANGED <<cur, rxp>>
        /\ \A p \in Package : Locked(p) => state'[p] = state[p]
    BY <1>9, <1>f DEF NoRoom
  <2> QED
    BY <2>1, Leaves, Unlocked
<1>10. ASSUME NEW b \in Boards, ReceiveShort(b)
       PROVE  MutexProtects'
  <2> DEFINE pk == [cur[Other(b)] EXCEPT !.pkg = last[b].pkg,
                                         !.val = last[b].val]
  <2>1. /\ GiveUp(b)
        /\ UNCHANGED <<cur, rxp>>
        /\ pk.to = DX(b) /\ pk.type = "frame" => ~Locked(pk.pkg)
        /\ state' = IF pk.to = DX(b) THEN Free(state, pk) ELSE state
    BY <1>10 DEF ReceiveShort
  <2> HIDE DEF pk
  <2>2. \A p \in Package : Locked(p) => state'[p] = state[p]
    BY <2>1, <1>t DEF Free
  <2> QED
    BY <2>1, <2>2, GivesUp, Unlocked
<1>11. ASSUME NEW b \in Boards, ReceiveFails(b)
       PROVE  MutexProtects'
  <2>1. /\ GiveUp(b)
        /\ UNCHANGED <<cur, rxp>>
        /\ phase[b] = "receive"
        /\ \A p \in Package : p # rxp[b] => state'[p] = state[p]
    BY <1>11, <1>t DEF ReceiveFails, Fill
  <2>2. /\ \A c \in Boards : InSend(c)' => InSend(c)
        /\ \A c \in Boards : phase'[c] = "receive" => phase[c] = "receive" /\ c # b
    BY <2>1, GivesUp
  <2>3. rxp[b] \in Local(b) /\ state[rxp[b]] = "Empty"
    BY <2>1 DEF MutexProtects
  <2>4. ASSUME NEW c \in Boards, InSend(c)', cur[c].type = "frame"
        PROVE  state'[cur[c].pkg] = state[cur[c].pkg]
    <3>1. InSend(c) /\ state[cur[c].pkg] = "Full"
      BY <2>2, <2>4 DEF MutexProtects
    <3>2. cur[c] \in Packet
      BY <3>1 DEF SenderHasPacket
    <3>3. cur[c].pkg \in Package
      BY <2>4, <3>2 DEF Packet, ValueType
    <3> QED
      BY <2>1, <2>3, <3>1, <3>3
  <2>5. ASSUME NEW c \in Boards, phase'[c] = "receive"
        PROVE  state'[rxp[c]] = state[rxp[c]]
    <3>1. rxp[c] \in Local(c) /\ c # b
      BY <2>2, <2>5 DEF MutexProtects
    <3>2. rxp[c] # rxp[b]
      BY <2>3, <3>1 DEF Local, DX, Boards
    <3> QED
      BY <2>1, <3>1, <3>2 DEF Local
  <2> QED
    BY <2>1, <2>2, <2>4, <2>5, HandsOff
<1>12. ASSUME Conflict
       PROVE  MutexProtects'
  BY <1>12, OtherBoard DEF Conflict, MutexProtects, InSend
<1>13. ASSUME NEW b \in Boards, Transfer(b)
       PROVE  MutexProtects'
  <2> DEFINE o == Other(b)
  <2>1. /\ o \in Boards /\ o # b /\ \A c \in Boards : c = b \/ c = o
        /\ Other(b) = o /\ Other(o) = b
    BY DEF Boards, Other
  <2>2. UNCHANGED <<cur, rxp>> /\ InSend(b) /\ phase[o] = "receive"
    BY <1>13 DEF Transfer, InSend
  <2>3. InSend(b)' /\ phase'[b] # "receive" /\ ~InSend(o)' /\ phase'[o] # "receive"
    BY <1>13, <1>t, <2>1 DEF Transfer, InSend
  <2>4. \A p : p # rxp[o] => state'[p] = state[p]
    BY <1>13, <1>t DEF Transfer, Fill
  <2>5. cur[b].type = "frame" => state[cur[b].pkg] = "Full" /\ cur[b].pkg # rxp[o]
    BY <2>1, <2>2 DEF MutexProtects
  <2> HIDE DEF o
  <2> QED
    BY <2>1, <2>2, <2>3, <2>4, <2>5 DEF MutexProtects
<1> QED
  BY <1>1, <1>2, <1>3, <1>4, <1>5, <1>6, <1>7, <1>8, <1>9, <1>10, <1>11,
     <1>12, <1>13 DEF Next, TaskStep, DXStep

LEMMA StepIInv == IInv /\ [Next]_vars => IInv'
<1> SUFFICES ASSUME IInv, [Next]_vars PROVE IInv'
  OBVIOUS
<1>1. CASE Next
  BY <1>1, TypedStep, SenderStep, MutexStep DEF IInv
<1>2. CASE UNCHANGED vars
  BY <1>2 DEF vars, IInv, TypeOK, SenderHasPacket, MutexProtects, Local, InSend
<1> QED
  BY <1>1, <1>2

----------------------------------------------------------------------------
(* One pointer to every package that no leftover pointer named *)

InQueues(q, p) == \E n \in Node : \E i \in 1..Len(q[n]) : PointsTo(q[n][i], p)
OnceInQueues(q, p) ==
  \A n, m \in Node : \A i \in 1..Len(q[n]), j \in 1..Len(q[m]) :
    PointsTo(q[n][i], p) /\ PointsTo(q[m][j], p) => n = m /\ i = j
Held(p) == \E t \in Task : PointsTo(hold[t], p)
Sending(b, p) == (phase[b] = "toSend" \/ InSend(b)) /\ PointsTo(cur[b], p)
Sent(p) == \E b \in Boards : Sending(b, p)

(* OnePointer counts the pointers to a package.  The same without counting: *)
(* there is at most one pointer in the queues, one in the tasks' hands and  *)
(* one with the data exchange tasks, and not in two of these places.        *)
OnePath(p) ==
  /\ OnceInQueues(queue, p)
  /\ \A t, u \in Task : PointsTo(hold[t], p) /\ PointsTo(hold[u], p) => t = u
  /\ \A b, c \in Boards : Sending(b, p) /\ Sending(c, p) => b = c
  /\ ~(InQueues(queue, p) /\ Held(p))
  /\ ~(InQueues(queue, p) /\ Sent(p))
  /\ ~(Held(p) /\ Sent(p))
  /\ InQueues(queue, p) \/ Held(p) \/ Sent(p) => state[p] = "Full"
OnePaths == \A p \in Package \ stale : OnePath(p)

LEMMA PushPoints ==
  ASSUME NEW q, QueuesOK(q), NEW n \in Node, NEW pk, NEW p,
         OnceInQueues(q, p), PointsTo(pk, p) => ~InQueues(q, p)
  PROVE  /\ OnceInQueues(Push(q, n, pk), p)
         /\ InQueues(Push(q, n, pk), p) => InQueues(q, p) \/ PointsTo(pk, p)
<1> DEFINE r == Push(q, n, pk)
<1>1. ASSUME NEW m \in Node, NEW j \in 1..Len(r[m])
      PROVE  \/ j \in 1..Len(q[m]) /\ r[m][j] = q[m][j]
             \/ m = n /\ j = Len(q[n]) + 1 /\ r[m][j] = pk
  <2>1. q[m] \in Seq(Packet) /\ q[n] \in Seq(Packet) /\ q \in [Node -> Seq(Packet)]
    BY DEF QueuesOK
  <2>2. CASE Len(q[n]) < QLen[n] /\ m = n
    <3>1. r[m] = Append(q[n], pk)
      BY <2>1, <2>2 DEF Push
    <3>2. Len(r[m]) = Len(q[n]) + 1 /\ Len(q[n]) \in Nat
      BY <2>1, <3>1
    <3>3. j \in 1..Len(q[n]) \/ j = Len(q[n]) + 1
      BY <3>2
    <3> QED
      BY <2>1, <2>2, <3>1, <3>3
  <2>3. CASE ~(Len(q[n]) < QLen[n] /\ m = n)
    BY <2>1, <2>3 DEF Push
  <2> QED
    BY <2>2, <2>3
<1> HIDE DEF r
<1>2. InQueues(r, p) => InQueues(q, p) \/ PointsTo(pk, p)
  BY <1>1 DEF InQueues
<1>3. OnceInQueues(r, p)
  BY <1>1 DEF OnceInQueues, InQueues
<1> QED
  BY <1>2, <1>3 DEF r

LEMMA RouterPoints ==
  ASSUME NEW q, QueuesOK(q), NEW at, NEW pk \in Packet, NEW p,
         OnceInQueues(q, p), PointsTo(pk, p) => ~InQueues(q, p)
  PROVE  /\ OnceInQueues(Router(q, at, pk), p)
         /\ InQueues(Router(q, at, pk), p) => InQueues(q, p) \/ PointsTo(pk, p)
<1>1. pk.to \in Node
  BY DEF Packet
<1>2. DX(BoardOf(at)) \in Node
  BY DXNode, BoardOfBoards
<1> QED
  BY <1>1, <1>2, PushPoints DEF Router

LEMMA ResponsePoints == \A me, pk, p : ~PointsTo(Response(me, pk), p)
BY DEF Response, MakePacket, PointsTo

LEMMA DispatchPoints ==
  ASSUME NEW q, QueuesOK(q), NEW b \in Boards, NEW pk \in Packet, NEW p,
         OnceInQueues(q, p),
         PointsTo(pk, p) => ~InQueues(q, p)
  PROVE  /\ OnceInQueues(Dispatch(q, b, pk), p)
         /\ InQueues(Dispatch(q, b, pk), p)
              => InQueues(q, p) \/ (PointsTo(pk, p) /\ pk.to # DX(b))
<1>1. Response(DX(b), pk) \in Packet /\ ~PointsTo(Response(DX(b), pk), p)
  BY ResponseOK, ResponsePoints, DXNode
<1>2. CASE pk.to # DX(b)
  BY <1>2, RouterPoints DEF Dispatch
<1>3. CASE pk.to = DX(b) /\ pk.type = "ping"
  BY <1>1, <1>3, RouterPoints DEF Dispatch
<1>4. CASE pk.to = DX(b) /\ pk.type # "ping"
  BY <1>4 DEF Dispatch
<1> QED
  BY <1>2, <1>3, <1>4

LEMMA TailPoints ==
  ASSUME NEW q, QueuesOK(q), NEW n \in Node, q[n] # <<>>, NEW p,
         OnceInQueues(q, p)
  PROVE  LET r == [q EXCEPT ![n] = Tail(q[n])] IN
         /\ OnceInQueues(r, p)
         /\ InQueues(r, p) => InQueues(q, p)
         /\ PointsTo(Head(q[n]), p) => InQueues(q, p) /\ ~InQueues(r, p)
<1> DEFINE r == [q EXCEPT ![n] = Tail(q[n])]
           old(m, j) == IF m = n THEN j + 1 ELSE j
<1>1. q[n] \in Seq(Packet) /\ q \in [Node -> Seq(Packet)]
  BY DEF QueuesOK
<1>2. ASSUME NEW m \in Node, NEW j \in 1..Len(r[m])
      PROVE  /\ old(m, j) \in 1..Len(q[m])
             /\ r[m][j] = q[m][old(m, j)]
             /\ m = n => old(m, j) # 1
             /\ j \in Nat
  <2>1. CASE m = n
    <3>1. r[m] = Tail(q[n])
      BY <1>1, <2>1
    <3>2. Len(r[m]) = Len(q[n]) - 1 /\ Len(q[n]) \in Nat
      BY <1>1, <3>1
    <3> QED
      BY <1>1, <2>1, <3>1, <3>2
  <2>2. CASE m # n
    <3>1. r[m] = q[m] /\ q[m] \in Seq(Packet)
      BY <1>1, <2>2
    <3> QED
      BY <2>2, <3>1
  <2> QED
    BY <2>1, <2>2
<1>3. 1 \in 1..Len(q[n]) /\ Head(q[n]) = q[n][1]
  BY <1>1
<1> HIDE DEF r
<1>4. InQueues(r, p) => InQueues(q, p)
  BY <1>2 DEF InQueues
<1>5. OnceInQueues(r, p)
  <2> SUFFICES ASSUME NEW m \in Node, NEW k \in Node,
                      NEW i \in 1..Len(r[m]), NEW j \in 1..Len(r[k]),
                      PointsTo(r[m][i], p), PointsTo(r[k][j], p)
               PROVE  m = k /\ i = j
    BY DEF OnceInQueues
  <2>1. /\ old(m, i) \in 1..Len(q[m]) /\ PointsTo(q[m][old(m, i)], p)
        /\ old(k, j) \in 1..Len(q[k]) /\ PointsTo(q[k][old(k, j)], p)
    <3> HIDE DEF old
    <3> QED
      BY <1>2
  <2>2. m = k /\ old(m, i) = old(k, j)
    <3> HIDE DEF old
    <3> QED
      BY <2>1 DEF OnceInQueues
  <2>3. i \in Nat /\ j \in Nat
    BY <1>2
  <2> QED
    BY <2>2, <2>3
<1>6. ASSUME PointsTo(Head(q[n]), p)
      PROVE  InQueues(q, p) /\ ~InQueues(r, p)
  <2>1. InQueues(q, p)
    BY <1>3, <1>6 DEF InQueues
  <2>2. ASSUME NEW m \in Node, NEW j \in 1..Len(r[m]), PointsTo(r[m][j], p)
        PROVE  FALSE
    <3>1. m = n /\ old(m, j) = 1
      BY <1>2, <1>3, <1>6, <2>2 DEF OnceInQueues
    <3> QED
      BY <1>2, <3>1
  <2> QED
    BY <2>1, <2>2 DEF InQueues
<1> QED
  BY <1>4, <1>5, <1>6 DEF r

LEMMA InitOnePaths == Init => OnePaths
<1> SUFFICES ASSUME Init, NEW p \in Package \ stale PROVE OnePath(p)
  BY DEF OnePaths
<1>1. ~InQueues(queue, p) /\ OnceInQueues(queue, p)
  BY DEF Init, InQueues, OnceInQueues
<1>2. ~Held(p) /\ ~Sent(p)
  BY DEF Init, Held, Sent, Sending, InSend, PointsTo, NoPacket, None, Boards
<1> QED
  BY <1>1, <1>2 DEF OnePath, Held, Sent

(* A step that moves no pointer between the queues and other places and     *)
(* empties no package that is still pointed to.                             *)
LEMMA KeepsOnePath ==
  ASSUME NEW p \in Package, OnePath(p), OnceInQueues(queue', p),
         InQueues(queue', p) => InQueues(queue, p),
         \A t \in Task : PointsTo(hold'[t], p) => PointsTo(hold[t], p),
         \A b \in Boards : Sending(b, p)' => Sending(b, p),
         \/ state'[p] = state[p]
         \/ ~InQueues(queue', p) /\ ~Held(p)' /\ ~Sent(p)'
  PROVE  OnePath(p)'
BY DEF OnePath, Held, Sent

(* What has been named by leftovers stays in the record.                    *)
LEMMA StaleGrows == Next => stale \subseteq stale'
<1>1. \A p \in Package : Produce(p) => stale' = stale
  BY DEF Produce
<1>2. \A a \in Asks : Ask(a[1], a[2], a[3]) => stale' = stale
  BY DEF Ask
<1>3. \A t \in Task : TaskStep(t) => stale' = stale
  BY DEF TaskStep, Dequeue, HandleFrame, HandleValue
<1>4. Conflict => stale' = stale
  BY DEF Conflict
<1>5. ASSUME NEW b \in Boards, DXStep(b)
      PROVE  stale \subseteq stale'
  <2>1. TakeOwn(b) \/ TakeForeign(b) \/ StartSend(b) => stale' = stale
    BY DEF TakeOwn, TakeForeign, StartSend
  <2>2. SendFails(b) \/ DrainEnds(b) \/ SeeActive(b) => stale' = stale
    BY DEF SendFails, DrainEnds, SeeActive
  <2>3. StartReceive(b) \/ Transfer(b) => stale' = stale
    BY DEF StartReceive, Transfer
  <2>4. NoRoom(b) => stale' = stale \/ stale' = stale \cup {last[b].pkg}
    BY DEF NoRoom
  <2>5. ReceiveFails(b) => stale' = stale \/ stale' = stale \cup {None}
    BY DEF ReceiveFails
  <2>6. ReceiveShort(b) => \E x : stale' = stale \cup {x}
    BY DEF ReceiveShort
  <2> QED
    BY <1>5, <2>1, <2>2, <2>3, <2>4, <2>5, <2>6 DEF DXStep
<1> QED
  BY <1>1, <1>2, <1>3, <1>4, <1>5 DEF Next

LEMMA OnePathsStep ==
  ASSUME TypeOK, SenderHasPacket, MutexProtects, OnePaths, Next
  PROVE  OnePaths'
<1>s. stale \subseteq stale'
  BY StaleGrows
<1> SUFFICES ASSUME NEW p \in Package, p \notin stale'
             PROVE  OnePath(p)'
  BY DEF OnePaths
<1>t. /\ state \in [Package -> {"Empty", "Full"}]
      /\ queue \in [Node -> Seq(Packet)]
      /\ hold \in [Task -> Packet \cup {NoPacket}]
      /\ phase \in [Boards -> Phases]
      /\ cur \in [Boards -> Packet \cup {NoPacket}]
  BY DEF TypeOK
<1>q. QueuesOK(queue)
  BY DEF TypeOK, QueuesOK
<1>p. OnePath(p) /\ OnceInQueues(queue, p)
  BY <1>s DEF OnePaths, OnePath
<1>n. ~PointsTo(NoPacket, p)
  BY DEF PointsTo, NoPacket, None
(* A receiver fills package x and dispatches the packet that points to it.  *)
<1>r. ASSUME NEW o \in Boards, NEW pk \in Packet, NEW x \in Package,
             state[x] = "Empty",
             PointsTo(pk, p) => p = x,
             queue' = Dispatch(queue, o, pk),
             state' = Fill(state, o, pk, x),
             UNCHANGED hold,
             \A c \in Boards : Sending(c, p)' => Sending(c, p)
      PROVE  OnePath(p)'
  <2>1. p = x => ~InQueues(queue, p) /\ ~Held(p) /\ ~Sent(p)
    BY <1>p, <1>r DEF OnePath
  <2>2. /\ OnceInQueues(queue', p)
        /\ InQueues(queue', p)
             => InQueues(queue, p) \/ (PointsTo(pk, p) /\ pk.to # DX(o))
    BY <1>p, <1>q, <1>r, <2>1, DispatchPoints
  <2>3. CASE p = x
    <3>1. \A u \in Task : ~PointsTo(hold'[u], p)
      BY <1>r, <2>1, <2>3 DEF Held
    <3>2. \A c \in Boards : ~Sending(c, p)'
      BY <1>r, <2>1, <2>3 DEF Sent
    <3>3. InQueues(queue', p) => state'[p] = "Full"
      BY <1>r, <1>t, <2>1, <2>2, <2>3 DEF Fill, PointsTo
    <3> QED
      BY <2>2, <3>1, <3>2, <3>3 DEF OnePath, Held, Sent
  <2>4. CASE p # x
    <3>1. state'[p] = state[p]
      BY <1>r, <1>t, <2>4 DEF Fill
    <3> QED
      BY <1>p, <1>r, <2>2, <2>4, <3>1, KeepsOnePath
  <2> QED
    BY <2>3, <2>4
<1>h. UNCHANGED <<hold, phase, cur>>
        => /\ \A t \in Task : PointsTo(hold'[t], p) => PointsTo(hold[t], p)
           /\ \A b \in Boards : Sending(b, p)' => Sending(b, p)
  BY DEF Sending, InSend
<1>1. ASSUME NEW x \in Package, Produce(x)
      PROVE  OnePath(p)'
  <2> DEFINE pk == MakePacket("frame", Home[x], Source[x], x, 0)
  <2>1. pk \in Packet /\ (PointsTo(pk, p) <=> p = x)
    BY PackageAssumption, ZeroValue DEF MakePacket, Packet, PointsTo
  <2>2. /\ UNCHANGED <<hold, phase, cur>>
        /\ queue' = Router(queue, Home[x], pk)
        /\ state' = [state EXCEPT ![x] = "Full"]
        /\ state[x] = "Empty"
    BY <1>1 DEF Produce
  <2> HIDE DEF pk
  <2>3. p = x => ~InQueues(queue, p) /\ ~Held(p) /\ ~Sent(p)
    BY <1>p, <2>2 DEF OnePath
  <2>4. /\ OnceInQueues(queue', p)
        /\ InQueues(queue', p) => InQueues(queue, p) \/ p = x
    BY <1>p, <1>q, <2>1, <2>2, <2>3, RouterPoints
  <2>5. CASE p # x
    BY <1>h, <1>p, <1>t, <2>2, <2>4, <2>5, KeepsOnePath
  <2>6. CASE p = x
    <3>1. ~Held(p)' /\ ~Sent(p)' /\ state'[p] = "Full"
      BY <1>t, <2>2, <2>3, <2>6 DEF Held, Sent, Sending, InSend
    <3> QED
      BY <2>4, <3>1 DEF OnePath, Held, Sent
  <2> QED
    BY <2>5, <2>6
<1>2. ASSUME NEW a \in Asks, Ask(a[1], a[2], a[3])
      PROVE  OnePath(p)'
  <2> DEFINE pk == MakePacket(a[2], a[1], a[3], None, MaxFrames + asked + 1)
  <2>1. asked + 1 \in 0..MaxAsks /\ MaxFrames + asked + 1 \in Value
    BY <1>2, BoundAssumption DEF Ask, Value, TypeOK
  <2>2. a[1] \in Node /\ a[2] \in {"command", "ping"} /\ a[3] \in Node
    BY BoundAssumption, TaskNode
  <2>3. pk \in Packet /\ ~PointsTo(pk, p)
    BY <2>1, <2>2 DEF MakePacket, Packet, PointsTo, ValueType
  <2>4. UNCHANGED <<hold, phase, cur, state>> /\ queue' = Router(queue, a[1], pk)
    BY <1>2 DEF Ask
  <2> HIDE DEF pk
  <2>5. OnceInQueues(queue', p) /\ (InQueues(queue', p) => InQueues(queue, p))
    BY <1>p, <1>q, <2>3, <2>4, RouterPoints
  <2> QED
    BY <1>h, <1>p, <2>4, <2>5, KeepsOnePath
<1>3. ASSUME NEW t \in Task, Dequeue(t)
      PROVE  OnePath(p)'
  <2> DEFINE pk == Head(queue[t])
  <2>1. /\ queue' = [queue EXCEPT ![t] = Tail(queue[t])]
        /\ hold' = [hold EXCEPT ![t] = pk]
        /\ queue[t] # <<>> /\ hold[t] = NoPacket
        /\ UNCHANGED <<state, phase, cur>>
    BY <1>3 DEF Dequeue
  <2> HIDE DEF pk
  <2>2. /\ OnceInQueues(queue', p)
        /\ InQueues(queue', p) => InQueues(queue, p)
        /\ PointsTo(pk, p) => InQueues(queue, p) /\ ~InQueues(queue', p)
    BY <1>p, <1>q, <2>1, TailPoints, TaskNode DEF pk
  <2>3. /\ hold'[t] = pk
        /\ \A u \in Task : u # t => hold'[u] = hold[u]
        /\ \A b \in Boards : Sending(b, p)' <=> Sending(b, p)
    BY <1>t, <2>1 DEF Sending, InSend
  <2>4. CASE PointsTo(pk, p)
    <3>1. /\ ~InQueues(queue', p) /\ ~Held(p) /\ ~Sent(p) /\ state'[p] = "Full"
      BY <1>p, <2>1, <2>2, <2>4 DEF OnePath
    <3>2. ~Sent(p)' /\ \A u \in Task : PointsTo(hold'[u], p) => u = t
      BY <2>3, <3>1 DEF Held, Sent
    <3> QED
      BY <2>2, <3>1, <3>2 DEF OnePath, Held, Sent
  <2>5. CASE ~PointsTo(pk, p)
    <3>1. \A u \in Task : PointsTo(hold'[u], p) => PointsTo(hold[u], p)
      BY <2>3, <2>5
    <3> QED
      BY <1>p, <2>1, <2>2, <2>3, <3>1, KeepsOnePath
  <2> QED
    BY <2>4, <2>5
<1>4. ASSUME NEW t \in Task, HandleFrame(t)
      PROVE  OnePath(p)'
  <2>1. /\ hold' = [hold EXCEPT ![t] = NoPacket]
        /\ state' = [state EXCEPT ![hold[t].pkg] = "Empty"]
        /\ UNCHANGED <<queue, phase, cur>>
        /\ hold[t].type = "frame"
    BY <1>4 DEF HandleFrame, Free
  <2>2. /\ \A u \in Task : PointsTo(hold'[u], p) => PointsTo(hold[u], p) /\ u # t
        /\ \A b \in Boards : Sending(b, p)' <=> Sending(b, p)
    BY <1>n, <1>t, <2>1 DEF Sending, InSend
  <2>3. CASE hold[t].pkg = p
    <3>1. PointsTo(hold[t], p)
      BY <2>1, <2>3 DEF PointsTo
    <3>2. ~InQueues(queue', p) /\ ~Held(p)' /\ ~Sent(p)'
      BY <1>p, <2>1, <2>2, <3>1 DEF OnePath, Held, Sent
    <3> QED
      BY <1>p, <2>1, <2>2, <3>2, KeepsOnePath
  <2>4. CASE hold[t].pkg # p
    <3>1. state'[p] = state[p]
      BY <1>t, <2>1, <2>4
    <3> QED
      BY <1>p, <2>1, <2>2, <3>1, KeepsOnePath
  <2> QED
    BY <2>3, <2>4
<1>5. ASSUME NEW t \in Task, HandleValue(t)
      PROVE  OnePath(p)'
  <2>1. /\ hold' = [hold EXCEPT ![t] = NoPacket]
        /\ hold[t] \in Packet
        /\ UNCHANGED <<state, phase, cur>>
        /\ \/ queue' = Router(queue, t, Response(t, hold[t]))
           \/ queue' = queue
    BY <1>5, <1>t DEF HandleValue
  <2>2. Response(t, hold[t]) \in Packet /\ ~PointsTo(Response(t, hold[t]), p)
    BY <2>1, ResponseOK, ResponsePoints, TaskNode
  <2>3. OnceInQueues(queue', p) /\ (InQueues(queue', p) => InQueues(queue, p))
    BY <1>p, <1>q, <2>1, <2>2, RouterPoints
  <2>4. /\ \A u \in Task : PointsTo(hold'[u], p) => PointsTo(hold[u], p)
        /\ \A b \in Boards : Sending(b, p)' <=> Sending(b, p)
    BY <1>n, <1>t, <2>1 DEF Sending, InSend
  <2> QED
    BY <1>p, <2>1, <2>3, <2>4, KeepsOnePath
<1>6. ASSUME NEW b \in Boards, TakeOwn(b)
      PROVE  OnePath(p)'
  <2> DEFINE pk == Head(queue[DX(b)])
             rest == [queue EXCEPT ![DX(b)] = Tail(queue[DX(b)])]
             error == MakePacket("syslog", DX(b), "CMC", None, 0)
  <2>1. /\ queue[DX(b)] # <<>>
        /\ state' = Free(state, pk)
        /\ \/ queue' = Router(rest, DX(b), Response(DX(b), pk))
           \/ queue' = Router(rest, DX(b), error)
           \/ queue' = rest
        /\ UNCHANGED <<hold, phase, cur>>
    BY <1>6 DEF TakeOwn
  <2>2. pk \in Packet /\ QueuesOK(rest)
    BY <1>q, <2>1, TailOK, DXNode
  <2>3. /\ error \in Packet /\ ~PointsTo(error, p)
        /\ Response(DX(b), pk) \in Packet /\ ~PointsTo(Response(DX(b), pk), p)
    BY <2>2, DXNode, TaskNode, ZeroValue, ResponseOK, ResponsePoints
    DEF MakePacket, Packet, PointsTo, ValueType
  <2>4. /\ OnceInQueues(rest, p)
        /\ InQueues(rest, p) => InQueues(queue, p)
        /\ PointsTo(pk, p) => InQueues(queue, p) /\ ~InQueues(rest, p)
    BY <1>p, <1>q, <2>1, TailPoints, DXNode
  <2> HIDE DEF pk, rest, error
  <2>5. OnceInQueues(queue', p) /\ (InQueues(queue', p) => InQueues(rest, p))
    BY <2>1, <2>2, <2>3, <2>4, RouterPoints
  <2>6. CASE PointsTo(pk, p)
    <3>1. ~InQueues(queue', p) /\ ~Held(p)' /\ ~Sent(p)'
      BY <1>p, <2>1, <2>4, <2>5, <2>6 DEF OnePath, Held, Sent, Sending, InSend
    <3> QED
      BY <1>h, <1>p, <2>1, <2>5, <3>1, KeepsOnePath
  <2>7. CASE ~PointsTo(pk, p)
    <3>1. state'[p] = state[p]
      BY <1>t, <2>1, <2>7 DEF Free, PointsTo
    <3> QED
      BY <1>h, <1>p, <2>1, <2>4, <2>5, <3>1, KeepsOnePath
  <2> QED
    BY <2>6, <2>7
<1>7. ASSUME NEW b \in Boards, TakeForeign(b)
      PROVE  OnePath(p)'
  <2> DEFINE pk == Head(queue[DX(b)])
  <2>1. /\ queue' = [queue EXCEPT ![DX(b)] = Tail(queue[DX(b)])]
        /\ cur' = [cur EXCEPT ![b] = pk]
        /\ phase' = [phase EXCEPT ![b] = "toSend"]
        /\ queue[DX(b)] # <<>> /\ phase[b] = "loop"
        /\ UNCHANGED <<state, hold>>
    BY <1>7 DEF TakeForeign
  <2> HIDE DEF pk
  <2>2. /\ OnceInQueues(queue', p)
        /\ InQueues(queue', p) => InQueues(queue, p)
        /\ PointsTo(pk, p) => InQueues(queue, p) /\ ~InQueues(queue', p)
    BY <1>p, <1>q, <2>1, TailPoints, DXNode DEF pk
  <2>3. /\ Sending(b, p)' => PointsTo(pk, p)
        /\ \A c \in Boards : c # b => (Sending(c, p)' <=> Sending(c, p))
    BY <1>t, <2>1 DEF Sending, InSend
  <2>4. CASE PointsTo(pk, p)
    <3>1. ~InQueues(queue', p) /\ ~Held(p) /\ ~Sent(p) /\ state'[p] = "Full"
      BY <1>p, <2>1, <2>2, <2>4 DEF OnePath
    <3>2. ~Held(p)' /\ \A c \in Boards : Sending(c, p)' => c = b
      BY <2>1, <2>3, <3>1 DEF Held, Sent
    <3> QED
      BY <2>2, <3>1, <3>2 DEF OnePath, Held, Sent
  <2>5. CASE ~PointsTo(pk, p)
    <3>1. \A c \in Boards : Sending(c, p)' => Sending(c, p)
      BY <2>3, <2>5
    <3> QED
      BY <1>p, <2>1, <2>2, <3>1, KeepsOnePath
  <2> QED
    BY <2>4, <2>5
<1>8. ASSUME NEW b \in Boards, StartSend(b) \/ SeeActive(b) \/ StartReceive(b)
      PROVE  OnePath(p)'
  <2>1. /\ UNCHANGED <<state, queue, hold, cur>>
        /\ \E x \in Phases :
             /\ phase' = [phase EXCEPT ![b] = x]
             /\ x \in {"toSend", "send", "drain"} => phase[b] = "toSend"
    BY <1>8 DEF StartSend, SeeActive, StartReceive, Phases
  <2>2. \A c \in Boards : Sending(c, p)' => Sending(c, p)
    BY <1>t, <2>1 DEF Sending, InSend
  <2> QED
    BY <1>p, <2>1, <2>2, KeepsOnePath
<1>9. ASSUME NEW b \in Boards, SendFails(b) \/ DrainEnds(b)
      PROVE  OnePath(p)'
  <2>1. /\ InSend(b) /\ phase' = [phase EXCEPT ![b] = "loop"]
        /\ state' = Free(state, cur[b])
        /\ UNCHANGED <<queue, hold, cur>>
    BY <1>9 DEF SendFails, DrainEnds, InSend
  <2>2. ~Sending(b, p)' /\ \A c \in Boards : Sending(c, p)' => Sending(c, p)
    BY <1>t, <2>1 DEF Sending, InSend
  <2>3. CASE PointsTo(cur[b], p)
    <3>1. ~InQueues(queue', p) /\ ~Held(p)' /\ ~Sent(p)'
      BY <1>p, <2>1, <2>2, <2>3 DEF OnePath, Held, Sent, Sending, InSend
    <3> QED
      BY <1>p, <2>1, <2>2, <3>1, KeepsOnePath
  <2>4. CASE ~PointsTo(cur[b], p)
    <3>1. state'[p] = state[p]
      BY <1>t, <2>1, <2>4 DEF Free, PointsTo
    <3> QED
      BY <1>p, <2>1, <2>2, <3>1, KeepsOnePath
  <2> QED
    BY <2>3, <2>4
<1>10. ASSUME Conflict
       PROVE  OnePath(p)'
  <2>1. /\ \A b \in Boards : phase[b] = "send" /\ phase'[b] = "loop"
        /\ state' = Free(Free(state, cur["ctl"]), cur["spec"])
        /\ UNCHANGED <<queue, hold, cur>>
    BY <1>10 DEF Conflict
  <2>2. ~Sent(p)' /\ \A c \in Boards : ~Sending(c, p)'
    BY <2>1 DEF Sent, Sending, InSend
  <2>3. CASE \E b \in Boards : PointsTo(cur[b], p)
    <3>1. ~InQueues(queue', p) /\ ~Held(p)'
      BY <1>p, <2>1, <2>3 DEF OnePath, Held, Sent, Sending, InSend
    <3> QED
      BY <1>p, <2>1, <2>2, <3>1, KeepsOnePath
  <2>4. CASE \A b \in Boards : ~PointsTo(cur[b], p)
    <3>1. state'[p] = state[p]
      BY <1>t, <2>1, <2>4 DEF Free, PointsTo, Boards
    <3> QED
      BY <1>p, <2>1, <2>2, <3>1, KeepsOnePath
  <2> QED
    BY <2>3, <2>4
<1>11. ASSUME NEW b \in Boards, NoRoom(b)
       PROVE  OnePath(p)'
  <2>1. phase' = [phase EXCEPT ![b] = "loop"] /\ UNCHANGED <<hold, cur>>
    BY <1>11 DEF NoRoom
  <2>2. \A c \in Boards : Sending(c, p)' => Sending(c, p)
    BY <1>t, <2>1 DEF Sending, InSend
  <2>3. CASE UNCHANGED <<queue, state>>
    BY <1>p, <2>1, <2>2, <2>3, KeepsOnePath
  <2>4. CASE /\ last[b] # NoPacket
             /\ queue' = Dispatch(queue, b, last[b])
             /\ state' = IF last[b].to = DX(b) THEN Free(state, last[b]) ELSE state
             /\ stale' = stale \cup {last[b].pkg}
    <3>1. last[b] \in Packet
      BY <2>4 DEF TypeOK
    <3>2. p # last[b].pkg
      BY <2>4
    <3>3. ~PointsTo(last[b], p) /\ state'[p] = state[p]
      BY <1>t, <2>4, <3>2 DEF PointsTo, Free
    <3>4. OnceInQueues(queue', p) /\ (InQueues(queue', p) => InQueues(queue, p))
      BY <1>p, <1>q, <2>4, <3>1, <3>3, DispatchPoints
    <3> QED
      BY <1>p, <2>1, <2>2, <3>3, <3>4, KeepsOnePath
  <2> QED
    BY <1>11, <2>3, <2>4 DEF NoRoom
<1>12. ASSUME NEW b \in Boards, Transfer(b)
       PROVE  OnePath(p)'
  <2> DEFINE o == Other(b)
             x == rxp[o]
             pk == [cur[b] EXCEPT !.pkg = IF cur[b].type = "frame" THEN x ELSE None]
  <2>1. /\ o \in Boards /\ phase[b] = "send" /\ phase[o] = "receive"
        /\ phase' = [phase EXCEPT ![b] = "drain", ![o] = "loop"]
        /\ queue' = Dispatch(queue, o, pk)
        /\ state' = Fill(state, o, pk, x)
        /\ UNCHANGED <<hold, cur>>
    BY <1>12, OtherBoard DEF Transfer
  <2>2. cur[b] \in Packet
    BY <2>1 DEF SenderHasPacket, InSend
  <2>3. x \in Package /\ state[x] = "Empty"
    BY <2>1 DEF MutexProtects, Local
  <2>4. pk \in Packet /\ (PointsTo(pk, p) => p = x)
    BY <2>2, <2>3 DEF Packet, ValueType, PointsTo
  <2>6. \A c \in Boards : Sending(c, p)' => Sending(c, p)
    BY <1>t, <2>1 DEF Sending, InSend
  <2> HIDE DEF pk, x, o
  <2> QED
    BY <1>r, <2>1, <2>3, <2>4, <2>6
<1>13. ASSUME NEW b \in Boards, ReceiveFails(b)
       PROVE  OnePath(p)'
  <2> DEFINE x == rxp[b]
             frame == last[b].type = "frame"
             pk == [last[b] EXCEPT !.pkg = IF frame THEN x ELSE None,
                                   !.val = IF frame THEN last[b].val
                                                    ELSE content[x]]
  <2>1. GiveUp(b) /\ UNCHANGED <<hold, cur>> /\ phase[b] = "receive"
    BY <1>13 DEF ReceiveFails
  <2>2. \A c \in Boards : Sending(c, p)' => Sending(c, p)
    BY <2>1, GivesUp DEF Sending, TypeOK
  <2>3. CASE UNCHANGED <<queue, state>>
    BY <1>p, <2>1, <2>2, <2>3, KeepsOnePath
  <2>4. CASE /\ last[b] # NoPacket
             /\ queue' = Dispatch(queue, b, pk)
             /\ state' = Fill(state, b, pk, x)
    <3>1. x \in Package /\ state[x] = "Empty" /\ last[b] \in Packet
      BY <2>1, <2>4 DEF MutexProtects, Local, TypeOK
    <3>2. content[x] \in Value
      BY <3>1 DEF TypeOK
    <3>3. pk \in Packet /\ (PointsTo(pk, p) => p = x)
      BY <3>1, <3>2 DEF Packet, ValueType, PointsTo
    <3> HIDE DEF pk, x
    <3> QED
      BY <1>r, <2>1, <2>2, <2>4, <3>1, <3>3
  <2> QED
    BY <1>13, <2>3, <2>4 DEF ReceiveFails
<1>14. ASSUME NEW b \in Boards, ReceiveShort(b)
       PROVE  OnePath(p)'
  <2> DEFINE pk == [cur[Other(b)] EXCEPT !.pkg = last[b].pkg,
                                         !.val = last[b].val]
  <2>1. /\ GiveUp(b) /\ UNCHANGED <<hold, cur>>
        /\ queue' = Dispatch(queue, b, pk)
        /\ state' = IF pk.to = DX(b) THEN Free(state, pk) ELSE state
        /\ stale' = stale \cup {pk.pkg}
    BY <1>14 DEF ReceiveShort
  <2>2. cur[Other(b)] \in Packet /\ last[b] \in Packet
    BY <1>14, OtherBoard DEF ReceiveShort, SenderHasPacket, InSend, TypeOK
  <2>3. pk \in Packet
    BY <1>14, <2>2 DEF ReceiveShort, Packet, ValueType
  <2> HIDE DEF pk
  <2>4. \A c \in Boards : Sending(c, p)' => Sending(c, p)
    BY <2>1, GivesUp DEF Sending, TypeOK
  <2>5. ~PointsTo(pk, p) /\ state'[p] = state[p]
    BY <1>t, <2>1 DEF PointsTo, Free
  <2>6. OnceInQueues(queue', p) /\ (InQueues(queue', p) => InQueues(queue, p))
    BY <1>p, <1>q, <2>1, <2>3, <2>5, DispatchPoints
  <2> QED
    BY <1>p, <2>1, <2>4, <2>5, <2>6, KeepsOnePath
<1> QED
  BY <1>1, <1>2, <1>3, <1>4, <1>5, <1>6, <1>7, <1>8, <1>9, <1>10, <1>11,
     <1>12, <1>13, <1>14
  DEF Next, TaskStep, DXStep

LEMMA OneOrNone ==
  ASSUME NEW S, \A x, y \in S : x = y
  PROVE  Cardinality(S) = IF S = {} THEN 0 ELSE 1
<1>1. CASE S = {}
  BY <1>1, FS_EmptySet
<1>2. CASE S # {}
  <2>1. PICK x \in S : S = {x}
    BY <1>2
  <2> QED
    BY <1>2, <2>1, FS_Singleton
<1> QED
  BY <1>1, <1>2

(* The paths of OnePath are those that OnePointer counts.                   *)
LEMMA OnePathsCount == OnePaths => OnePointer
<1> SUFFICES ASSUME NEW p \in Package \ stale, OnePath(p)
             PROVE  References(p) <= IF state[p] = "Full" THEN 1 ELSE 0
  BY DEF OnePaths, OnePointer
<1>1. \A x, y \in InQueue(p) : x = y
  <2> SUFFICES ASSUME NEW n \in Node, NEW i \in 1..Len(queue[n]),
                      NEW m \in Node, NEW j \in 1..Len(queue[m]),
                      PointsTo(queue[n][i], p), PointsTo(queue[m][j], p)
               PROVE  <<n, i>> = <<m, j>>
    BY DEF InQueue
  <2> QED
    BY DEF OnePath, OnceInQueues
<1>2. InQueue(p) # {} <=> InQueues(queue, p)
  <2>1. \A x : x \in InQueue(p) <=>
          \E n \in Node : \E i \in 1..Len(queue[n]) :
            x = <<n, i>> /\ PointsTo(queue[n][i], p)
    BY DEF InQueue
  <2>2. ASSUME InQueues(queue, p)
        PROVE  InQueue(p) # {}
    <3>1. PICK n \in Node : \E i \in 1..Len(queue[n]) : PointsTo(queue[n][i], p)
      BY <2>2 DEF InQueues
    <3>2. PICK i \in 1..Len(queue[n]) : PointsTo(queue[n][i], p)
      BY <3>1
    <3>3. <<n, i>> \in InQueue(p)
      BY <2>1, <3>2
    <3> QED
      BY <3>3
  <2> QED
    BY <2>1, <2>2 DEF InQueues
<1>3. /\ \A x, y \in InHand(p) : x = y
      /\ InHand(p) # {} <=> Held(p)
  BY DEF OnePath, InHand, Held
<1>4. /\ \A x, y \in OnTheWay(p) : x = y
      /\ OnTheWay(p) # {} <=> Sent(p)
  BY DEF OnePath, OnTheWay, Sent, Sending
<1>5. /\ Cardinality(InQueue(p)) = IF InQueues(queue, p) THEN 1 ELSE 0
      /\ Cardinality(InHand(p)) = IF Held(p) THEN 1 ELSE 0
      /\ Cardinality(OnTheWay(p)) = IF Sent(p) THEN 1 ELSE 0
  BY <1>1, <1>2, <1>3, <1>4, OneOrNone
<1> QED
  BY <1>5 DEF References, OnePath

----------------------------------------------------------------------------
(* The channel, as long as no leftovers have been dispatched *)

Clean == stale = {} /\ stale' = {}

(* Where a packet may wait: with the task it is addressed to, or with the   *)
(* data exchange task of a board that it has to leave.  Values other than   *)
(* frames cannot be taken for frames.                                       *)
Routed(n, pk) ==
  pk.to = n \/ (n = DX(BoardOf(n)) /\ BoardOf(pk.to) # BoardOf(n))
Proper(pk) == pk.type = "frame" \/ pk.val \notin Frame
WellRouted(q) ==
  \A n \in Node : \A i \in 1..Len(q[n]) : Routed(n, q[n][i]) /\ Proper(q[n][i])
Addressed ==
  /\ WellRouted(queue)
  /\ \A t \in Task : hold[t] # NoPacket => hold[t].to = t /\ Proper(hold[t])
  /\ \A b \in Boards :
       phase[b] \in {"toSend", "send"}
         => BoardOf(cur[b].to) # b /\ Proper(cur[b])

(* The stages of the way.  The frames at one stage are older than those at  *)
(* any stage that is farther from the destination.                          *)
AtHand == FramesOf({hold[Consumer]})
Arrived == FramesIn(queue[Consumer])
OnLink == InTransit(BoardOf(Producer))
Waiting == FramesIn(queue[DX(BoardOf(Producer))])
Older(S, T) == \A f \in S, g \in T : f < g
Ordered(q) ==
  \A i, j \in 1..Len(q) :
    i < j /\ Mine(q[i]) /\ Mine(q[j]) => content[q[i].pkg] < content[q[j].pkg]
InOrder ==
  /\ Ordered(queue[Consumer]) /\ Ordered(queue[DX(BoardOf(Producer))])
  /\ Older(AtHand, Arrived \cup OnLink \cup Waiting)
  /\ Older(Arrived, OnLink \cup Waiting)
  /\ Older(OnLink, Waiting)
  /\ Flight \subseteq 1..made

(* The same for any contents of the packages.                               *)
Numbers(c, S) == {c[pk.pkg] : pk \in {x \in S : Mine(x)}}
Elements(q) == {q[i] : i \in 1..Len(q)}
Ascending(c, q) ==
  \A i, j \in 1..Len(q) :
    i < j /\ Mine(q[i]) /\ Mine(q[j]) => c[q[i].pkg] < c[q[j].pkg]

LEMMA Stages ==
  /\ AtHand = Numbers(content, {hold[Consumer]})
  /\ Arrived = Numbers(content, Elements(queue[Consumer]))
  /\ OnLink = IF phase[BoardOf(Producer)] \in {"toSend", "send"}
                THEN Numbers(content, {cur[BoardOf(Producer)]}) ELSE {}
  /\ Waiting = Numbers(content, Elements(queue[DX(BoardOf(Producer))]))
  /\ \A q : Ordered(q) <=> Ascending(content, q)
BY DEF AtHand, Arrived, OnLink, Waiting, FramesOf, FramesIn, InTransit,
   Numbers, Elements, Ordered, Ascending

LEMMA FlightStages == Flight = AtHand \cup Arrived \cup OnLink \cup Waiting
BY DEF Flight, AtHand, Arrived, OnLink, Waiting

LEMMA NumberOf ==
  \A c, pk : Numbers(c, {pk}) = IF Mine(pk) THEN {c[pk.pkg]} ELSE {}
BY DEF Numbers

LEMMA ElementsAppend ==
  ASSUME NEW q \in Seq(Packet), NEW pk \in Packet
  PROVE  Elements(Append(q, pk)) = Elements(q) \cup {pk}
<1>1. /\ Len(Append(q, pk)) = Len(q) + 1 /\ Len(q) \in Nat
      /\ \A i \in 1..Len(q) : Append(q, pk)[i] = q[i]
      /\ Append(q, pk)[Len(q) + 1] = pk
  OBVIOUS
<1>2. 1..Len(q) + 1 = (1..Len(q)) \cup {Len(q) + 1}
  BY <1>1
<1> QED
  BY <1>1, <1>2 DEF Elements

LEMMA ElementsTail ==
  ASSUME NEW q \in Seq(Packet), q # <<>>
  PROVE  Elements(q) = {Head(q)} \cup Elements(Tail(q))
<1>1. /\ Len(Tail(q)) = Len(q) - 1 /\ Len(q) \in Nat \ {0}
      /\ \A i \in 1..Len(Tail(q)) : Tail(q)[i] = q[i + 1]
      /\ Head(q) = q[1]
  OBVIOUS
<1>2. ASSUME NEW x \in Elements(q)
      PROVE  x \in {Head(q)} \cup Elements(Tail(q))
  <2>1. PICK i \in 1..Len(q) : x = q[i]
    BY DEF Elements
  <2>2. CASE i = 1
    BY <1>1, <2>1, <2>2
  <2>3. CASE i # 1
    <3>1. i - 1 \in 1..Len(Tail(q)) /\ (i - 1) + 1 = i
      BY <1>1, <2>3
    <3>2. Tail(q)[i - 1] = x
      BY <1>1, <2>1, <3>1
    <3> QED
      BY <3>1, <3>2 DEF Elements
  <2> QED
    BY <2>2, <2>3
<1>3. ASSUME NEW x \in Elements(Tail(q))
      PROVE  x \in Elements(q)
  <2>1. PICK i \in 1..Len(Tail(q)) : x = Tail(q)[i]
    BY <1>3 DEF Elements
  <2>2. i + 1 \in 1..Len(q) /\ x = q[i + 1]
    BY <1>1, <2>1
  <2> QED
    BY <2>2 DEF Elements
<1>4. Head(q) \in Elements(q)
  BY <1>1 DEF Elements
<1> QED
  BY <1>2, <1>3, <1>4

LEMMA AppendAscends ==
  ASSUME NEW c, NEW q \in Seq(Packet), NEW pk \in Packet, Ascending(c, q),
         Older(Numbers(c, Elements(q)), Numbers(c, {pk}))
  PROVE  Ascending(c, Append(q, pk))
<1>1. /\ Len(Append(q, pk)) = Len(q) + 1 /\ Len(q) \in Nat
      /\ \A i \in 1..Len(q) : Append(q, pk)[i] = q[i]
      /\ Append(q, pk)[Len(q) + 1] = pk
  OBVIOUS
<1> SUFFICES ASSUME NEW i \in 1..Len(q) + 1, NEW j \in 1..Len(q) + 1, i < j,
                    Mine(Append(q, pk)[i]), Mine(Append(q, pk)[j])
             PROVE  c[Append(q, pk)[i].pkg] < c[Append(q, pk)[j].pkg]
  BY <1>1 DEF Ascending
<1>2. i \in 1..Len(q) /\ Append(q, pk)[i] = q[i]
  BY <1>1
<1>3. CASE j = Len(q) + 1
  <2>1. c[q[i].pkg] \in Numbers(c, Elements(q)) /\ c[pk.pkg] \in Numbers(c, {pk})
    BY <1>1, <1>2, <1>3 DEF Numbers, Elements
  <2> QED
    BY <1>1, <1>2, <1>3, <2>1 DEF Older
<1>4. CASE j # Len(q) + 1
  <2>1. j \in 1..Len(q) /\ Append(q, pk)[j] = q[j]
    BY <1>1, <1>4
  <2> QED
    BY <1>2, <2>1 DEF Ascending
<1> QED
  BY <1>3, <1>4

LEMMA TailAscends ==
  ASSUME NEW c, NEW q \in Seq(Packet), q # <<>>, Ascending(c, q)
  PROVE  /\ Ascending(c, Tail(q))
         /\ Older(Numbers(c, {Head(q)}), Numbers(c, Elements(Tail(q))))
<1>1. /\ Len(Tail(q)) = Len(q) - 1 /\ Len(q) \in Nat \ {0}
      /\ \A i \in 1..Len(Tail(q)) : Tail(q)[i] = q[i + 1]
      /\ Head(q) = q[1]
  OBVIOUS
<1>2. \A i \in 1..Len(Tail(q)) : i + 1 \in 1..Len(q) /\ 1 < i + 1
  BY <1>1
<1>3. Ascending(c, Tail(q))
  BY <1>1, <1>2 DEF Ascending
<1>4. Older(Numbers(c, {Head(q)}), Numbers(c, Elements(Tail(q))))
  <2> SUFFICES ASSUME Mine(Head(q)), NEW i \in 1..Len(Tail(q)), Mine(Tail(q)[i])
               PROVE  c[Head(q).pkg] < c[Tail(q)[i].pkg]
    BY DEF Older, Numbers, Elements
  <2> QED
    BY <1>1, <1>2 DEF Ascending
<1> QED
  BY <1>3, <1>4

(* From queues q to queues r every queue keeps its frames and their order.  *)
Keeps(c, q, r) ==
  \A n \in Node :
    /\ Numbers(c, Elements(r[n])) = Numbers(c, Elements(q[n]))
    /\ Ascending(c, q[n]) => Ascending(c, r[n])

LEMMA PushAppends ==
  ASSUME NEW q, QueuesOK(q), NEW n \in Node, NEW pk \in Packet
  PROVE  \/ Push(q, n, pk) = q
         \/ /\ Push(q, n, pk)[n] = Append(q[n], pk)
            /\ \A m \in Node : m # n => Push(q, n, pk)[m] = q[m]
BY DEF Push, QueuesOK

LEMMA PushKeeps ==
  ASSUME NEW c, NEW q, QueuesOK(q), NEW n \in Node, NEW pk \in Packet, ~Mine(pk)
  PROVE  Keeps(c, q, Push(q, n, pk))
<1>1. q[n] \in Seq(Packet)
  BY DEF QueuesOK
<1>2. Numbers(c, {pk}) = {}
  BY NumberOf
<1>3. Numbers(c, Elements(Append(q[n], pk))) = Numbers(c, Elements(q[n]))
  <2>1. Elements(Append(q[n], pk)) = Elements(q[n]) \cup {pk}
    BY <1>1, ElementsAppend
  <2> QED
    BY <2>1 DEF Numbers
<1>4. Ascending(c, q[n]) => Ascending(c, Append(q[n], pk))
  <2>1. Older(Numbers(c, Elements(q[n])), Numbers(c, {pk}))
    BY <1>2 DEF Older
  <2> QED
    BY <1>1, <2>1, AppendAscends
<1> SUFFICES ASSUME NEW m \in Node
             PROVE  LET r == Push(q, n, pk) IN
                    /\ Numbers(c, Elements(r[m])) = Numbers(c, Elements(q[m]))
                    /\ Ascending(c, q[m]) => Ascending(c, r[m])
  BY DEF Keeps
<1>5. Push(q, n, pk)[m] = q[m] \/ (m = n /\ Push(q, n, pk)[m] = Append(q[n], pk))
  BY PushAppends
<1> QED
  BY <1>3, <1>4, <1>5

LEMMA RouterKeeps ==
  ASSUME NEW c, NEW q, QueuesOK(q), NEW at, NEW pk \in Packet, ~Mine(pk)
  PROVE  Keeps(c, q, Router(q, at, pk))
<1>1. pk.to \in Node
  BY DEF Packet
<1>2. DX(BoardOf(at)) \in Node
  BY DXNode, BoardOfBoards
<1>3. Keeps(c, q, q)
  BY DEF Keeps
<1> QED
  BY <1>1, <1>2, <1>3, PushKeeps DEF Router

LEMMA ResponseNotMine == \A me, pk : ~Mine(Response(me, pk))
BY DEF Response, MakePacket, Mine

LEMMA DispatchKeeps ==
  ASSUME NEW c, NEW q, QueuesOK(q), NEW b \in Boards, NEW pk \in Packet, ~Mine(pk)
  PROVE  Keeps(c, q, Dispatch(q, b, pk))
<1>1. Response(DX(b), pk) \in Packet /\ ~Mine(Response(DX(b), pk))
  BY ResponseOK, ResponseNotMine, DXNode
<1>2. Keeps(c, q, q)
  BY DEF Keeps
<1> QED
  BY <1>1, <1>2, RouterKeeps DEF Dispatch

(* The queues without the first packet of queue n.                          *)
Rest(q, n) == [q EXCEPT ![n] = Tail(q[n])]

(* What taking the first packet from queue n does to the frames.            *)
Takes(c, q, n) ==
  /\ \A m \in Node : m # n => Rest(q, n)[m] = q[m]
  /\ Numbers(c, Elements(q[n]))
       = Numbers(c, {Head(q[n])}) \cup Numbers(c, Elements(Rest(q, n)[n]))
  /\ Ascending(c, q[n])
       => /\ Ascending(c, Rest(q, n)[n])
          /\ Older(Numbers(c, {Head(q[n])}), Numbers(c, Elements(Rest(q, n)[n])))
  /\ ~Mine(Head(q[n])) => Keeps(c, q, Rest(q, n))

LEMMA RestTakes ==
  ASSUME NEW c, NEW q, QueuesOK(q), NEW n \in Node, q[n] # <<>>
  PROVE  Takes(c, q, n)
<1> DEFINE r == Rest(q, n)
<1>1. q[n] \in Seq(Packet) /\ q \in [Node -> Seq(Packet)]
  BY DEF QueuesOK
<1>2. r[n] = Tail(q[n]) /\ \A m \in Node : m # n => r[m] = q[m]
  BY <1>1 DEF Rest
<1> HIDE DEF r
<1>3. Numbers(c, Elements(q[n]))
        = Numbers(c, {Head(q[n])}) \cup Numbers(c, Elements(r[n]))
  <2>1. Elements(q[n]) = {Head(q[n])} \cup Elements(r[n])
    BY <1>1, <1>2, ElementsTail
  <2> QED
    BY <2>1 DEF Numbers
<1>4. Ascending(c, q[n])
        => /\ Ascending(c, r[n])
           /\ Older(Numbers(c, {Head(q[n])}), Numbers(c, Elements(r[n])))
  BY <1>1, <1>2, TailAscends
<1>5. ~Mine(Head(q[n])) => Keeps(c, q, r)
  <2> SUFFICES ASSUME ~Mine(Head(q[n])), NEW m \in Node
               PROVE  /\ Numbers(c, Elements(r[m])) = Numbers(c, Elements(q[m]))
                      /\ Ascending(c, q[m]) => Ascending(c, r[m])
    BY DEF Keeps
  <2>1. Numbers(c, {Head(q[n])}) = {}
    BY NumberOf
  <2>2. CASE m = n
    BY <1>3, <1>4, <2>1, <2>2
  <2>3. CASE m # n
    BY <1>2, <2>3
  <2> QED
    BY <2>2, <2>3
<1> QED
  BY <1>2, <1>3, <1>4, <1>5 DEF r, Takes

(* Contents c become contents d by a copy into package x.                   *)
Copied(c, d, x) == \A p : p # x => d[p] = c[p]

LEMMA CopyKeepsOne ==
  ASSUME NEW c, NEW d, NEW pk, NEW x, Copied(c, d, x), Mine(pk) => pk.pkg # x
  PROVE  Numbers(d, {pk}) = Numbers(c, {pk})
<1>1. CASE Mine(pk)
  <2>1. d[pk.pkg] = c[pk.pkg]
    BY <1>1 DEF Copied
  <2> QED
    BY <1>1, <2>1, NumberOf
<1>2. CASE ~Mine(pk)
  BY <1>2, NumberOf
<1> QED
  BY <1>1, <1>2

(* A copy into package x, to which no packet points, keeps all frames.      *)
LEMMA CopyKeeps ==
  ASSUME NEW c, NEW d, NEW q, NEW x, NEW n \in Node, ~InQueues(q, x),
         Copied(c, d, x)
  PROVE  /\ Numbers(d, Elements(q[n])) = Numbers(c, Elements(q[n]))
         /\ Ascending(c, q[n]) => Ascending(d, q[n])
<1>1. \A i \in 1..Len(q[n]) : Mine(q[n][i]) => d[q[n][i].pkg] = c[q[n][i].pkg]
  BY DEF InQueues, Mine, PointsTo, Copied
<1>2. Numbers(d, Elements(q[n])) = Numbers(c, Elements(q[n]))
  BY <1>1 DEF Numbers, Elements
<1> QED
  BY <1>1, <1>2 DEF Ascending

----------------------------------------------------------------------------
(* Packets go where they are addressed to *)

LEMMA BoardOfDX == \A b \in Boards : BoardOf(DX(b)) = b
BY NodeAssumption DEF Boards, BoardOf, DX, Task

LEMMA PushRouted ==
  ASSUME NEW q, QueuesOK(q), NEW n \in Node, NEW pk \in Packet,
         WellRouted(q), Routed(n, pk), Proper(pk)
  PROVE  WellRouted(Push(q, n, pk))
<1> DEFINE r == Push(q, n, pk)
<1>1. CASE r = q
  BY <1>1
<1>2. CASE /\ r[n] = Append(q[n], pk)
           /\ \A m \in Node : m # n => r[m] = q[m]
  <2>1. q[n] \in Seq(Packet)
    BY DEF QueuesOK
  <2> HIDE DEF r
  <2>2. \A i \in 1..Len(r[n]) : r[n][i] = pk \/ \E j \in 1..Len(q[n]) : r[n][i] = q[n][j]
    BY <1>2, <2>1
  <2>3. \A i \in 1..Len(r[n]) : Routed(n, r[n][i]) /\ Proper(r[n][i])
    BY <2>2 DEF WellRouted
  <2> QED
    BY <1>2, <2>3 DEF WellRouted, r
<1> QED
  BY <1>1, <1>2, PushAppends

LEMMA RouterRouted ==
  ASSUME NEW q, QueuesOK(q), NEW at, NEW pk \in Packet,
         WellRouted(q), Proper(pk)
  PROVE  WellRouted(Router(q, at, pk))
<1>1. pk.to \in Node
  BY DEF Packet
<1>2. /\ DX(BoardOf(at)) \in Node
      /\ BoardOf(DX(BoardOf(at))) = BoardOf(at)
  BY DXNode, BoardOfBoards, BoardOfDX
<1>3. CASE BoardOf(at) = BoardOf(pk.to)
  <2>1. Routed(pk.to, pk)
    BY DEF Routed
  <2> QED
    BY <1>1, <1>3, <2>1, PushRouted DEF Router
<1>4. CASE BoardOf(at) # BoardOf(pk.to)
  <2>1. Routed(DX(BoardOf(at)), pk)
    BY <1>2, <1>4 DEF Routed
  <2> QED
    BY <1>2, <1>4, <2>1, PushRouted DEF Router
<1> QED
  BY <1>3, <1>4

LEMMA ResponseProper == \A me, pk : Proper(Response(me, pk))
BY DEF Response, MakePacket, Proper, Frame

LEMMA DispatchRouted ==
  ASSUME NEW q, QueuesOK(q), NEW b \in Boards, NEW pk \in Packet,
         WellRouted(q), Proper(pk)
  PROVE  WellRouted(Dispatch(q, b, pk))
<1>1. Response(DX(b), pk) \in Packet /\ Proper(Response(DX(b), pk))
  BY ResponseOK, ResponseProper, DXNode
<1> QED
  BY <1>1, RouterRouted DEF Dispatch

LEMMA TailRouted ==
  ASSUME NEW q, QueuesOK(q), NEW n \in Node, q[n] # <<>>, WellRouted(q)
  PROVE  /\ WellRouted([q EXCEPT ![n] = Tail(q[n])])
         /\ Routed(n, Head(q[n])) /\ Proper(Head(q[n]))
<1> DEFINE r == [q EXCEPT ![n] = Tail(q[n])]
<1>1. q[n] \in Seq(Packet) /\ q \in [Node -> Seq(Packet)]
  BY DEF QueuesOK
<1>2. r[n] = Tail(q[n]) /\ \A m \in Node : m # n => r[m] = q[m]
  BY <1>1
<1> HIDE DEF r
<1>3. \A i \in 1..Len(r[n]) : i + 1 \in 1..Len(q[n]) /\ r[n][i] = q[n][i + 1]
  BY <1>1, <1>2
<1>4. WellRouted(r)
  BY <1>2, <1>3 DEF WellRouted
<1>5. 1 \in 1..Len(q[n]) /\ Head(q[n]) = q[n][1]
  BY <1>1
<1> QED
  BY <1>4, <1>5 DEF WellRouted, r

LEMMA InitAddressed == Init => Addressed
BY DEF Init, Addressed, WellRouted, Boards

(* A failed receive after which nothing is dispatched.                      *)
LEMMA NothingDispatched ==
  ASSUME TypeOK, Clean, NEW b \in Boards,
         NoRoom(b) \/ ReceiveFails(b) \/ ReceiveShort(b)
  PROVE  /\ UNCHANGED <<content, queue, hold, cur, made, taken>>
         /\ \A c \in Boards : phase'[c] \in {"toSend", "send"}
                               => phase[c] \in {"toSend", "send"}
<1>1. phase \in [Boards -> Phases] /\ stale = {} /\ stale' = {}
  BY DEF TypeOK, Clean
<1>2. CASE NoRoom(b)
  BY <1>1, <1>2 DEF NoRoom
<1>3. CASE ReceiveFails(b)
  BY <1>1, <1>3, OtherBoard DEF ReceiveFails, GiveUp
<1>4. CASE ReceiveShort(b)
  BY <1>1, <1>4 DEF ReceiveShort
<1> QED
  BY <1>2, <1>3, <1>4

LEMMA AddressedStep ==
  ASSUME TypeOK, SenderHasPacket, MutexProtects, Clean, Addressed, Next
  PROVE  Addressed'
<1>t. /\ hold \in [Task -> Packet \cup {NoPacket}]
      /\ phase \in [Boards -> Phases]
      /\ cur \in [Boards -> Packet \cup {NoPacket}]
  BY DEF TypeOK
<1>q. QueuesOK(queue) /\ WellRouted(queue)
  BY DEF TypeOK, QueuesOK, Addressed
<1>h. UNCHANGED hold
        => \A t \in Task : hold'[t] # NoPacket => hold'[t].to = t /\ Proper(hold'[t])
  BY DEF Addressed
<1>c. ASSUME UNCHANGED cur,
             \A b \in Boards : phase'[b] \in {"toSend", "send"}
                                 => phase[b] \in {"toSend", "send"}
      PROVE  \A b \in Boards : phase'[b] \in {"toSend", "send"}
                                 => BoardOf(cur'[b].to) # b /\ Proper(cur'[b])
  BY <1>c DEF Addressed
<1>1. ASSUME NEW x \in Package, Produce(x)
      PROVE  Addressed'
  <2> DEFINE pk == MakePacket("frame", Home[x], Source[x], x, 0)
  <2>1. pk \in Packet /\ Proper(pk)
    BY PackageAssumption, ZeroValue DEF MakePacket, Packet, Proper
  <2>2. UNCHANGED <<hold, phase, cur>> /\ queue' = Router(queue, Home[x], pk)
    BY <1>1 DEF Produce
  <2> HIDE DEF pk
  <2>3. WellRouted(queue')
    BY <1>q, <2>1, <2>2, RouterRouted
  <2> QED
    BY <1>c, <1>h, <2>2, <2>3 DEF Addressed
<1>2. ASSUME NEW a \in Asks, Ask(a[1], a[2], a[3])
      PROVE  Addressed'
  <2> DEFINE pk == MakePacket(a[2], a[1], a[3], None, MaxFrames + asked + 1)
  <2>1. asked + 1 \in 0..MaxAsks /\ MaxFrames + asked + 1 \in Value \ Frame
    BY <1>2, BoundAssumption DEF Ask, Value, Frame, TypeOK
  <2>2. a[1] \in Node /\ a[2] \in {"command", "ping"} /\ a[3] \in Node
    BY BoundAssumption, TaskNode
  <2>3. pk \in Packet /\ Proper(pk)
    BY <2>1, <2>2 DEF MakePacket, Packet, Proper, ValueType
  <2>4. UNCHANGED <<hold, phase, cur>> /\ queue' = Router(queue, a[1], pk)
    BY <1>2 DEF Ask
  <2> HIDE DEF pk
  <2>5. WellRouted(queue')
    BY <1>q, <2>3, <2>4, RouterRouted
  <2> QED
    BY <1>c, <1>h, <2>4, <2>5 DEF Addressed
<1>3. ASSUME NEW t \in Task, Dequeue(t)
      PROVE  Addressed'
  <2> DEFINE pk == Head(queue[t])
  <2>1. /\ queue' = [queue EXCEPT ![t] = Tail(queue[t])]
        /\ hold' = [hold EXCEPT ![t] = pk]
        /\ queue[t] # <<>>
        /\ UNCHANGED <<phase, cur>>
    BY <1>3 DEF Dequeue
  <2> HIDE DEF pk
  <2>2. WellRouted(queue') /\ Routed(t, pk) /\ Proper(pk)
    BY <1>q, <2>1, TailRouted, TaskNode DEF pk
  <2>3. pk.to = t
    BY <2>2, DXNode, BoardOfBoards DEF Routed
  <2>4. \A u \in Task : hold'[u] # NoPacket => hold'[u].to = u /\ Proper(hold'[u])
    BY <1>t, <2>1, <2>2, <2>3 DEF Addressed
  <2> QED
    BY <1>c, <2>1, <2>2, <2>4 DEF Addressed
<1>4. ASSUME NEW t \in Task, HandleFrame(t) \/ HandleValue(t)
      PROVE  Addressed'
  <2>1. /\ hold' = [hold EXCEPT ![t] = NoPacket]
        /\ UNCHANGED <<phase, cur>>
        /\ \/ queue' = queue
           \/ hold[t] # NoPacket /\ queue' = Router(queue, t, Response(t, hold[t]))
    BY <1>4 DEF HandleFrame, HandleValue
  <2>2. hold[t] # NoPacket
          => /\ Response(t, hold[t]) \in Packet
             /\ Proper(Response(t, hold[t]))
    BY <1>t, ResponseOK, ResponseProper, TaskNode
  <2>3. WellRouted(queue')
    BY <1>q, <2>1, <2>2, RouterRouted
  <2>4. \A u \in Task : hold'[u] # NoPacket => hold'[u].to = u /\ Proper(hold'[u])
    BY <1>t, <2>1 DEF Addressed
  <2> QED
    BY <1>c, <2>1, <2>3, <2>4 DEF Addressed
<1>5. ASSUME NEW b \in Boards, TakeOwn(b)
      PROVE  Addressed'
  <2> DEFINE pk == Head(queue[DX(b)])
             rest == [queue EXCEPT ![DX(b)] = Tail(queue[DX(b)])]
             error == MakePacket("syslog", DX(b), "CMC", None, 0)
  <2>1. /\ queue[DX(b)] # <<>>
        /\ \/ queue' = Router(rest, DX(b), Response(DX(b), pk))
           \/ queue' = Router(rest, DX(b), error)
           \/ queue' = rest
        /\ UNCHANGED <<hold, phase, cur>>
    BY <1>5 DEF TakeOwn
  <2>2. pk \in Packet /\ QueuesOK(rest) /\ WellRouted(rest)
    BY <1>q, <2>1, TailOK, TailRouted, DXNode
  <2>3. /\ error \in Packet /\ Proper(error)
        /\ Response(DX(b), pk) \in Packet /\ Proper(Response(DX(b), pk))
    BY <2>2, DXNode, TaskNode, ZeroValue, ResponseOK, ResponseProper
    DEF MakePacket, Packet, Proper, ValueType, Frame
  <2> HIDE DEF pk, rest, error
  <2>4. WellRouted(queue')
    BY <2>1, <2>2, <2>3, RouterRouted
  <2> QED
    BY <1>c, <1>h, <2>1, <2>4 DEF Addressed
<1>6. ASSUME NEW b \in Boards, TakeForeign(b)
      PROVE  Addressed'
  <2> DEFINE pk == Head(queue[DX(b)])
  <2>1. /\ queue' = [queue EXCEPT ![DX(b)] = Tail(queue[DX(b)])]
        /\ cur' = [cur EXCEPT ![b] = pk]
        /\ phase' = [phase EXCEPT ![b] = "toSend"]
        /\ queue[DX(b)] # <<>> /\ pk.to # DX(b)
        /\ UNCHANGED hold
    BY <1>6 DEF TakeForeign
  <2> HIDE DEF pk
  <2>2. WellRouted(queue') /\ Routed(DX(b), pk) /\ Proper(pk)
    BY <1>q, <2>1, TailRouted, DXNode DEF pk
  <2>3. BoardOf(pk.to) # b
    BY <2>1, <2>2, BoardOfDX DEF Routed
  <2>4. \A c \in Boards : phase'[c] \in {"toSend", "send"}
                            => BoardOf(cur'[c].to) # c /\ Proper(cur'[c])
    BY <1>t, <2>1, <2>2, <2>3 DEF Addressed
  <2> QED
    BY <1>h, <2>1, <2>2, <2>4 DEF Addressed
<1>7. ASSUME NEW b \in Boards,
             \/ StartSend(b) \/ SendFails(b) \/ DrainEnds(b) \/ SeeActive(b)
             \/ StartReceive(b)
      PROVE  Addressed'
  <2>1. /\ UNCHANGED <<queue, hold, cur>>
        /\ \E x \in Phases :
             /\ phase' = [phase EXCEPT ![b] = x]
             /\ x \in {"toSend", "send"} => phase[b] = "toSend"
    BY <1>7 DEF StartSend, SendFails, DrainEnds, SeeActive, StartReceive, Phases
  <2>2. \A c \in Boards : phase'[c] \in {"toSend", "send"}
                            => phase[c] \in {"toSend", "send"}
    BY <1>t, <2>1
  <2> QED
    BY <1>c, <1>h, <1>q, <2>1, <2>2 DEF Addressed
<1>10. ASSUME NEW b \in Boards, NoRoom(b) \/ ReceiveFails(b) \/ ReceiveShort(b)
       PROVE  Addressed'
  BY <1>c, <1>h, <1>q, <1>10, NothingDispatched DEF Addressed
<1>8. ASSUME Conflict
      PROVE  Addressed'
  <2>1. UNCHANGED <<queue, hold, cur>> /\ \A c \in Boards : phase'[c] = "loop"
    BY <1>8 DEF Conflict
  <2> QED
    BY <1>h, <1>q, <2>1 DEF Addressed
<1>9. ASSUME NEW b \in Boards, Transfer(b)
      PROVE  Addressed'
  <2> DEFINE o == Other(b)
             x == rxp[o]
             pk == [cur[b] EXCEPT !.pkg = IF cur[b].type = "frame" THEN x ELSE None]
  <2>1. /\ o \in Boards /\ phase[b] = "send" /\ phase[o] = "receive"
        /\ phase' = [phase EXCEPT ![b] = "drain", ![o] = "loop"]
        /\ queue' = Dispatch(queue, o, pk)
        /\ UNCHANGED <<hold, cur>>
    BY <1>9, OtherBoard DEF Transfer
  <2>2. cur[b] \in Packet /\ Proper(cur[b])
    BY <2>1 DEF SenderHasPacket, InSend, Addressed
  <2>6. \A c \in Boards : phase'[c] \in {"toSend", "send"}
                            => phase[c] \in {"toSend", "send"}
    BY <1>t, <2>1
  <2>3. x \in Package
    BY <2>1 DEF MutexProtects, Local
  <2>4. pk \in Packet /\ Proper(pk)
    BY <2>2, <2>3 DEF Packet, ValueType, Proper
  <2> HIDE DEF pk, x, o
  <2>5. WellRouted(queue')
    BY <1>q, <2>1, <2>4, DispatchRouted
  <2> QED
    BY <1>c, <1>h, <2>1, <2>5, <2>6 DEF Addressed
<1> QED
  BY <1>1, <1>2, <1>3, <1>4, <1>5, <1>6, <1>7, <1>8, <1>9, <1>10
  DEF Next, TaskStep, DXStep

----------------------------------------------------------------------------
(* Every step is one of the channel's or none *)

ChannelStep == InOrder' /\ [Channel!Next]_(Channel!vars)

LEMMA StagesNext ==
  /\ AtHand' = Numbers(content', {hold'[Consumer]})
  /\ Arrived' = Numbers(content', Elements(queue'[Consumer]))
  /\ OnLink' = IF phase'[BoardOf(Producer)] \in {"toSend", "send"}
                 THEN Numbers(content', {cur'[BoardOf(Producer)]}) ELSE {}
  /\ Waiting' = Numbers(content', Elements(queue'[DX(BoardOf(Producer))]))
  /\ Ordered(queue[Consumer])' <=> Ascending(content', queue'[Consumer])
  /\ Ordered(queue[DX(BoardOf(Producer))])'
       <=> Ascending(content', queue'[DX(BoardOf(Producer))])
BY DEF AtHand, Arrived, OnLink, Waiting, FramesOf, FramesIn, InTransit,
   Numbers, Elements, Ordered, Ascending

LEMMA FlightNext == Flight' = AtHand' \cup Arrived' \cup OnLink' \cup Waiting'
BY DEF Flight, AtHand, Arrived, OnLink, Waiting

LEMMA Ends ==
  /\ Consumer \in Node /\ BoardOf(Producer) \in Boards
  /\ DX(BoardOf(Producer)) \in Node /\ DX(BoardOf(Producer)) \notin Task
  /\ BoardOf(Consumer) = Other(BoardOf(Producer))
BY ChannelAssumption, TaskNode, BoardOfBoards, DXNode DEF Boards, Other

Known == taken[Consumer][Producer] \cap Frame

LEMMA ChannelNext ==
  ASSUME Clean
  PROVE  /\ Channel!Send <=>
              /\ \E f \in (made + 1)..MaxFrames :
                   made' = f /\ Flight' \in {Flight, Flight \cup {f}}
              /\ Known' = Known
         /\ Channel!Lose <=>
              /\ \E f \in Flight : Flight' = Flight \ {f}
              /\ UNCHANGED made /\ Known' = Known
         /\ Channel!Receive <=>
              /\ \E f \in Flight :
                   /\ \A g \in Flight : f <= g
                   /\ Known' = Known \cup {f}
                   /\ Flight' = Flight \ {f}
              /\ UNCHANGED made
         /\ UNCHANGED Channel!vars <=>
              Flight' = Flight /\ UNCHANGED made /\ Known' = Known
<1>1. (stale # {})' = (stale # {})
  BY DEF Clean
<1> QED
  BY <1>1 DEF Channel!Send, Channel!Lose, Channel!Receive, Channel!vars, Known

LEMMA Quiet ==
  ASSUME Clean, InOrder, AtHand' = AtHand, Arrived' = Arrived, OnLink' = OnLink,
         Waiting' = Waiting, Ordered(queue[Consumer])',
         Ordered(queue[DX(BoardOf(Producer))])', UNCHANGED made, Known' = Known
  PROVE  ChannelStep
<1>1. Flight' = Flight
  BY FlightStages, FlightNext
<1>2. InOrder'
  BY <1>1 DEF InOrder, Older
<1> QED
  BY <1>1, <1>2, ChannelNext DEF ChannelStep

LEMMA QuietQueues ==
  ASSUME Clean, InOrder, content' = content, Keeps(content, queue, queue'),
         AtHand' = AtHand, OnLink' = OnLink, UNCHANGED made, Known' = Known
  PROVE  ChannelStep
<1>1. Arrived' = Arrived /\ Waiting' = Waiting
  BY Stages, StagesNext, Ends DEF Keeps
<1>2. Ordered(queue[Consumer])' /\ Ordered(queue[DX(BoardOf(Producer))])'
  BY Stages, StagesNext, Ends DEF Keeps, InOrder
<1> QED
  BY <1>1, <1>2, Quiet

(* The frame on the link, if there is one, is lost.                         *)
LEMMA LinkLoses ==
  ASSUME Clean, InOrder, AtHand' = AtHand, Arrived' = Arrived, OnLink' = {},
         Waiting' = Waiting, Ordered(queue[Consumer])',
         Ordered(queue[DX(BoardOf(Producer))])', UNCHANGED made, Known' = Known
  PROVE  ChannelStep
<1>1. CASE OnLink = {}
  BY <1>1, Quiet
<1>2. CASE OnLink # {}
  <2>1. PICK f : OnLink = {f}
    BY <1>2, Stages, NumberOf
  <2>2. f \notin AtHand /\ f \notin Arrived /\ f \notin Waiting
    <3>1. f \in Flight /\ Flight \subseteq 1..made
      BY <2>1, FlightStages DEF InOrder
    <3>2. ~(f < f)
      BY <3>1
    <3> QED
      BY <2>1, <3>2 DEF InOrder, Older
  <2>3. Flight' = Flight \ {f} /\ f \in Flight
    BY <2>1, <2>2, FlightStages, FlightNext
  <2>4. InOrder'
    BY <2>3 DEF InOrder, Older
  <2> QED
    BY <2>3, <2>4, ChannelNext DEF ChannelStep, Channel!Next
<1> QED
  BY <1>1, <1>2

LEMMA InitInOrder == Init => InOrder /\ Channel!Init
<1> SUFFICES ASSUME Init PROVE InOrder /\ Channel!Init
  OBVIOUS
<1>1. Elements(<<>>) = {} /\ \A c : Ascending(c, <<>>)
  BY DEF Elements, Ascending
<1>2. \A c : Numbers(c, {}) = {} /\ Numbers(c, {NoPacket}) = {}
  BY DEF Numbers, Mine, NoPacket, None
<1>3. /\ queue[Consumer] = <<>> /\ queue[DX(BoardOf(Producer))] = <<>>
      /\ hold[Consumer] = NoPacket
      /\ phase[BoardOf(Producer)] = "loop"
  BY Ends, ChannelAssumption DEF Init
<1>4. AtHand = {} /\ Arrived = {} /\ OnLink = {} /\ Waiting = {}
  BY <1>1, <1>2, <1>3, Stages
<1>5. InOrder /\ Flight = {}
  BY <1>1, <1>3, <1>4, Stages, FlightStages DEF InOrder, Older
<1>6. Known = {} /\ made = 0
  BY ChannelAssumption, TaskNode DEF Init, Known
<1>7. (stale # {}) = FALSE
  BY DEF Init
<1> QED
  BY <1>5, <1>6, <1>7 DEF Channel!Init, Known

(* Only frames that the consumer takes from its hand become known.          *)
LEMMA KnownKept ==
  /\ UNCHANGED taken => Known' = Known
  /\ \A t \in Task, n \in Node : \A V :
       /\ taken \in [Task -> [Node -> SUBSET Value]]
       /\ taken' = [taken EXCEPT ![t][n] = taken[t][n] \cup V]
       /\ t = Consumer /\ n = Producer => V \cap Frame = {}
       => Known' = Known
<1>1. UNCHANGED taken => Known' = Known
  BY DEF Known
<1>2. ASSUME NEW t \in Task, NEW n \in Node, NEW V,
             taken \in [Task -> [Node -> SUBSET Value]],
             taken' = [taken EXCEPT ![t][n] = taken[t][n] \cup V],
             t = Consumer /\ n = Producer => V \cap Frame = {}
      PROVE  Known' = Known
  <2>1. Consumer \in Task /\ Producer \in Node
    BY ChannelAssumption, TaskNode
  <2>2. taken' = [taken EXCEPT ![t] = [taken[t] EXCEPT ![n] = taken[t][n] \cup V]]
    BY <1>2
  <2>3. taken[t] \in [Node -> SUBSET Value]
    BY <1>2
  <2>4. CASE t = Consumer /\ n = Producer
    <3>1. taken'[Consumer][Producer] = taken[Consumer][Producer] \cup V
      BY <1>2, <2>1, <2>2, <2>3, <2>4
    <3> QED
      BY <1>2, <2>4, <3>1 DEF Known
  <2>5. CASE ~(t = Consumer /\ n = Producer)
    <3>1. taken'[Consumer][Producer] = taken[Consumer][Producer]
      BY <1>2, <2>1, <2>2, <2>3, <2>5
    <3> QED
      BY <3>1 DEF Known
  <2> QED
    BY <2>4, <2>5
<1> QED
  BY <1>1, <1>2

LEMMA TaskSteps ==
  ASSUME TypeOK, Clean, OnePaths, Addressed, InOrder, NEW t \in Task, TaskStep(t)
  PROVE  ChannelStep
<1> DEFINE B == BoardOf(Producer)
<1>t. /\ hold \in [Task -> Packet \cup {NoPacket}]
      /\ taken \in [Task -> [Node -> SUBSET Value]]
      /\ QueuesOK(queue)
  BY DEF TypeOK, QueuesOK
<1>e. /\ Consumer \in Task /\ Consumer \in Node /\ DX(B) \in Node /\ DX(B) # t
      /\ DX(B) # Consumer /\ t \in Node
  BY Ends, ChannelAssumption, TaskNode
<1>s. TaskStep(t) => UNCHANGED <<content, phase, cur, made>>
  BY DEF TaskStep, Dequeue, HandleFrame, HandleValue
<1>l. OnLink' = OnLink /\ UNCHANGED <<content, made>>
  BY <1>s, Stages, StagesNext
<1>n. Numbers(content, {NoPacket}) = {}
  BY DEF Numbers, Mine, NoPacket, None
<1>1. CASE Dequeue(t)
  <2> DEFINE pk == Head(queue[t])
  <2>1. /\ queue' = [queue EXCEPT ![t] = Tail(queue[t])]
        /\ hold' = [hold EXCEPT ![t] = pk]
        /\ hold[t] = NoPacket /\ queue[t] # <<>> /\ UNCHANGED taken
    BY <1>1 DEF Dequeue
  <2>a. t \in Node /\ QueuesOK(queue) /\ queue[t] # <<>>
    BY <1>e, <1>t, <2>1
  <2>b. queue' = Rest(queue, t)
    BY <2>1 DEF Rest
  <2>c. Takes(content, queue, t)
    BY <2>a, RestTakes
  <2>2. /\ \A m \in Node : m # t => queue'[m] = queue[m]
        /\ Numbers(content, Elements(queue[t]))
             = Numbers(content, {pk}) \cup Numbers(content, Elements(queue'[t]))
        /\ Ascending(content, queue[t])
             => /\ Ascending(content, queue'[t])
                /\ Older(Numbers(content, {pk}), Numbers(content, Elements(queue'[t])))
    BY <2>b, <2>c DEF Takes
  <2> HIDE DEF pk
  <2>3. Waiting' = Waiting /\ Ordered(queue[DX(B)])'
    BY <1>e, <1>l, <2>2, Stages, StagesNext DEF InOrder
  <2>4. Known' = Known
    BY <2>1, KnownKept
  <2>5. CASE t = Consumer
    <3>1. AtHand = {} /\ AtHand' = Numbers(content, {pk})
      BY <1>e, <1>l, <1>n, <1>t, <2>1, <2>5, Stages, StagesNext
    <3>2. /\ Arrived = AtHand' \cup Arrived'
          /\ Ordered(queue[Consumer])' /\ Older(AtHand', Arrived')
      BY <1>l, <2>2, <2>5, <3>1, Stages, StagesNext DEF InOrder
    <3>3. Flight' = Flight
      BY <1>l, <2>3, <3>1, <3>2, FlightStages, FlightNext
    <3>4. InOrder'
      BY <1>l, <2>3, <3>1, <3>2, <3>3 DEF InOrder, Older
    <3> QED
      BY <1>l, <2>4, <3>3, <3>4, ChannelNext DEF ChannelStep
  <2>6. CASE t # Consumer
    <3>1. queue'[Consumer] = queue[Consumer] /\ hold'[Consumer] = hold[Consumer]
      BY <1>e, <1>t, <2>1, <2>2, <2>6
    <3>2. /\ AtHand' = AtHand /\ Arrived' = Arrived
          /\ Ordered(queue[Consumer])'
      BY <1>l, <3>1, Stages, StagesNext DEF InOrder
    <3> QED
      BY <1>l, <2>3, <2>4, <3>2, Quiet
  <2> QED
    BY <2>5, <2>6
<1>2. CASE HandleFrame(t)
  <2>1. /\ hold' = [hold EXCEPT ![t] = NoPacket]
        /\ hold[t].type = "frame" /\ UNCHANGED queue
        /\ taken' = IF state[hold[t].pkg] = "Full"
                      THEN [taken EXCEPT ![t][hold[t].from] =
                              taken[t][hold[t].from] \cup {content[hold[t].pkg]}]
                      ELSE taken
    BY <1>2 DEF HandleFrame
  <2>2. hold[t] \in Packet /\ hold[t].to = t
    BY <1>t, <2>1 DEF Addressed, NoPacket, None
  <2>3. hold[t].from \in Node /\ hold[t].pkg \in Package
    BY <2>1, <2>2 DEF Packet, ValueType
  <2>4. /\ Arrived' = Arrived /\ Waiting' = Waiting
        /\ Ordered(queue[Consumer])' /\ Ordered(queue[DX(B)])'
    BY <1>l, <2>1, Stages, StagesNext DEF InOrder
  <2>5. CASE t = Consumer /\ Mine(hold[t])
    <3> DEFINE f == content[hold[t].pkg]
    <3>1. AtHand = {f} /\ AtHand' = {}
      BY <1>e, <1>l, <1>n, <1>t, <2>1, <2>5, NumberOf, Stages, StagesNext
    <3>2. hold[t].from = Producer
      BY <2>5 DEF Mine
    <3>3. state[hold[t].pkg] = "Full"
      BY <2>1, <2>3 DEF Clean, OnePaths, OnePath, Held, PointsTo
    <3> HIDE DEF f
    <3>4. f \in Flight /\ Flight \subseteq Nat /\ f \in Frame
      <4>1. f \in Flight /\ Flight \subseteq 1..made /\ made \in 0..MaxFrames
        BY <3>1, FlightStages DEF InOrder, TypeOK
      <4> QED
        BY <4>1, BoundAssumption DEF Frame
    <3>5. f \notin Arrived /\ f \notin OnLink /\ f \notin Waiting
      <4>1. ~(f < f)
        BY <3>4 DEF Frame
      <4> QED
        BY <3>1, <4>1 DEF InOrder, Older
    <3>6. \A g \in Flight : f <= g
      <4> SUFFICES ASSUME NEW g \in Flight, g # f
                   PROVE  f < g
        BY <3>4 DEF Frame
      <4>1. g \in Arrived \cup OnLink \cup Waiting
        BY <3>1, FlightStages
      <4> QED
        BY <3>1, <4>1 DEF InOrder, Older
    <3>7. Flight' = Flight \ {f}
      BY <1>l, <2>4, <3>1, <3>5, FlightStages, FlightNext
    <3>8. Known' = Known \cup {f}
      <4>1. taken' = [taken EXCEPT ![t] = [taken[t] EXCEPT ![Producer] =
                        taken[t][Producer] \cup {f}]]
        BY <2>1, <3>2, <3>3 DEF f
      <4>2. taken[t] \in [Node -> SUBSET Value]
        BY <1>t
      <4>3. taken'[Consumer][Producer] = taken[Consumer][Producer] \cup {f}
        BY <1>t, <2>3, <2>5, <3>2, <4>1, <4>2
      <4> QED
        BY <3>4, <4>3 DEF Known
    <3>9. InOrder'
      BY <1>l, <2>4, <3>1, <3>7 DEF InOrder, Older
    <3> QED
      BY <1>l, <3>4, <3>6, <3>7, <3>8, <3>9, ChannelNext DEF ChannelStep, Channel!Next
  <2>6. CASE t = Consumer /\ ~Mine(hold[t])
    <3>1. AtHand = {} /\ AtHand' = {}
      BY <1>e, <1>l, <1>n, <1>t, <2>1, <2>6, NumberOf, Stages, StagesNext
    <3>2. hold[t].from # Producer
      BY <2>1, <2>2, <2>6 DEF Mine
    <3>3. Known' = Known
      BY <1>t, <2>1, <2>3, <3>2, KnownKept
    <3> QED
      BY <1>l, <2>4, <3>1, <3>3, Quiet
  <2>7. CASE t # Consumer
    <3>1. AtHand' = AtHand
      BY <1>e, <1>l, <1>t, <2>1, <2>7, Stages, StagesNext
    <3>2. Known' = Known
      BY <1>t, <2>1, <2>3, <2>7, KnownKept
    <3> QED
      BY <1>l, <2>4, <3>1, <3>2, Quiet
  <2> QED
    BY <2>5, <2>6, <2>7
<1>3. CASE HandleValue(t)
  <2>1. /\ hold' = [hold EXCEPT ![t] = NoPacket]
        /\ hold[t] # NoPacket /\ hold[t].type # "frame"
        /\ \/ queue' = Router(queue, t, Response(t, hold[t])) /\ UNCHANGED taken
           \/ /\ taken' = [taken EXCEPT ![t][hold[t].from] =
                             taken[t][hold[t].from] \cup {hold[t].val}]
              /\ UNCHANGED queue
    BY <1>3 DEF HandleValue
  <2>2. hold[t] \in Packet /\ ~Mine(hold[t]) /\ hold[t].val \notin Frame
    BY <1>t, <2>1 DEF Mine, Addressed, Proper
  <2>3. hold[t].from \in Node
    BY <2>2 DEF Packet
  <2>4. Known' = Known
    <3>1. CASE UNCHANGED taken
      BY <3>1, KnownKept
    <3>2. CASE taken' = [taken EXCEPT ![t][hold[t].from] =
                           taken[t][hold[t].from] \cup {hold[t].val}]
      <4>1. {hold[t].val} \cap Frame = {}
        BY <2>2
      <4> QED
        BY <1>t, <2>3, <3>2, <4>1, KnownKept
    <3> QED
      BY <2>1, <3>1, <3>2
  <2>5. AtHand' = AtHand
    BY <1>e, <1>l, <1>n, <1>t, <2>1, <2>2, NumberOf, Stages, StagesNext
  <2>6. Response(t, hold[t]) \in Packet /\ ~Mine(Response(t, hold[t]))
    BY <1>e, <2>2, ResponseOK, ResponseNotMine
  <2>7. Keeps(content, queue, queue')
    <3>1. Keeps(content, queue, queue)
      BY DEF Keeps
    <3> QED
      BY <1>t, <2>1, <2>6, <3>1, RouterKeeps
  <2> QED
    BY <1>l, <2>4, <2>5, <2>7, QuietQueues
<1> QED
  BY <1>1, <1>2, <1>3 DEF TaskStep

LEMMA ProduceStep ==
  ASSUME TypeOK, Clean, OnePaths, Addressed, InOrder,
         NEW x \in Package, Produce(x)
  PROVE  ChannelStep
<1> DEFINE B == BoardOf(Producer)
           W == DX(B)
           pk == MakePacket("frame", Home[x], Source[x], x, 0)
<1>1. /\ UNCHANGED <<hold, phase, cur, taken>>
      /\ queue' = Router(queue, Home[x], pk)
      /\ content' = [content EXCEPT ![x] = made + 1]
      /\ made' = made + 1 /\ made < MaxFrames
      /\ state[x] = "Empty" /\ Home[x] \in Task
  BY DEF Produce
<1>2. /\ content \in [Package -> Value] /\ made \in Nat /\ MaxFrames \in Nat
      /\ QueuesOK(queue)
  BY BoundAssumption DEF TypeOK, QueuesOK
<1>3. Copied(content, content', x)
  BY <1>1, <1>2 DEF Copied
<1>4. content'[x] = made + 1
  BY <1>1, <1>2
<1>5. /\ pk \in Packet
      /\ Mine(pk) <=> Home[x] = Producer /\ Source[x] = Consumer
      /\ pk.to = Source[x] /\ pk.pkg = x
  BY PackageAssumption, ZeroValue DEF MakePacket, Packet, Mine
<1> HIDE DEF pk
<1>6. ~InQueues(queue, x) /\ ~Held(x) /\ ~Sent(x)
  BY <1>1 DEF Clean, OnePaths, OnePath
<1>7. AtHand' = AtHand
  <2>1. Mine(hold[Consumer]) => hold[Consumer].pkg # x
    BY <1>6, ChannelAssumption DEF Held, PointsTo, Mine
  <2>2. Numbers(content', {hold[Consumer]}) = Numbers(content, {hold[Consumer]})
    BY <1>3, <2>1, CopyKeepsOne
  <2> QED
    BY <1>1, <2>2, Stages, StagesNext
<1>8. OnLink' = OnLink
  <2>1. phase[B] \in {"toSend", "send"} /\ Mine(cur[B]) => cur[B].pkg # x
    BY <1>6, Ends DEF Sent, Sending, InSend, PointsTo, Mine
  <2>2. phase[B] \in {"toSend", "send"}
          => Numbers(content', {cur[B]}) = Numbers(content, {cur[B]})
    BY <1>3, <2>1, CopyKeepsOne
  <2> QED
    BY <1>1, <2>2, Stages, StagesNext
<1>9. \A n \in Node :
        /\ Numbers(content', Elements(queue[n])) = Numbers(content, Elements(queue[n]))
        /\ Ascending(content, queue[n]) => Ascending(content', queue[n])
  BY <1>3, <1>6, CopyKeeps
<1>10. Known' = Known
  BY <1>1, KnownKept
<1>11. Flight \subseteq 1..made /\ Flight \subseteq Nat
  BY DEF InOrder
(* The new frame is lost at once, or never was one of the channel's.        *)
<1>12. ASSUME \A n \in {Consumer, W} :
                /\ Numbers(content', Elements(queue'[n]))
                     = Numbers(content', Elements(queue[n]))
                /\ Ascending(content', queue[n]) => Ascending(content', queue'[n])
       PROVE  ChannelStep
  <2>1. Arrived' = Arrived /\ Waiting' = Waiting
    BY <1>9, <1>12, Ends, Stages, StagesNext
  <2>2. Ordered(queue[Consumer])' /\ Ordered(queue[W])'
    BY <1>9, <1>12, Ends, Stages, StagesNext DEF InOrder
  <2>3. Flight' = Flight
    BY <1>7, <1>8, <2>1, FlightStages, FlightNext
  <2>4. Flight \subseteq 1..made'
    BY <1>1, <1>2, <1>11
  <2>5. InOrder'
    BY <1>7, <1>8, <2>1, <2>2, <2>3, <2>4 DEF InOrder, Older
  <2>6. made' \in (made + 1)..MaxFrames
    BY <1>1, <1>2
  <2> QED
    BY <1>10, <2>3, <2>5, <2>6, ChannelNext DEF ChannelStep, Channel!Next
<1>13. CASE ~Mine(pk)
  <2>1. Keeps(content', queue, queue')
    BY <1>1, <1>2, <1>5, <1>13, RouterKeeps
  <2> QED
    BY <1>12, <2>1, Ends DEF Keeps
<1>14. CASE Mine(pk)
  <2>1. queue' = Push(queue, W, pk)
    BY <1>1, <1>5, <1>14, ChannelAssumption, NodeAssumption DEF Router
  <2>2. CASE queue' = queue
    BY <1>12, <2>2
  <2>3. CASE /\ queue'[W] = Append(queue[W], pk)
             /\ \A m \in Node : m # W => queue'[m] = queue[m]
    <3>1. W \in Node /\ Consumer \in Node /\ W # Consumer /\ queue[W] \in Seq(Packet)
      BY <1>2, Ends, ChannelAssumption DEF QueuesOK
    <3>2. Arrived' = Arrived /\ Ordered(queue[Consumer])'
      BY <1>9, <2>3, <3>1, Stages, StagesNext DEF InOrder
    <3>3. Numbers(content', {pk}) = {made + 1}
      BY <1>4, <1>5, <1>14, NumberOf
    <3>4. Waiting' = Waiting \cup {made + 1}
      <4>1. Elements(queue'[W]) = Elements(queue[W]) \cup {pk}
        BY <1>5, <2>3, <3>1, ElementsAppend
      <4>2. Numbers(content', Elements(queue'[W]))
              = Numbers(content', Elements(queue[W])) \cup Numbers(content', {pk})
        BY <4>1 DEF Numbers
      <4> QED
        BY <1>9, <3>1, <3>3, <4>2, Stages, StagesNext
    <3>5. Older(Flight, {made + 1})
      BY <1>2, <1>11 DEF Older
    <3>6. Ordered(queue[W])'
      <4>1. Older(Numbers(content', Elements(queue[W])), Numbers(content', {pk}))
        BY <1>9, <3>1, <3>3, <3>5, FlightStages, Stages DEF Older
      <4>2. Ascending(content', queue[W])
        BY <1>9, <3>1, Stages DEF InOrder
      <4> QED
        BY <1>5, <2>3, <3>1, <4>1, <4>2, AppendAscends, StagesNext
    <3>7. Flight' = Flight \cup {made + 1}
      <4>1. Flight' = AtHand \cup Arrived \cup OnLink \cup (Waiting \cup {made + 1})
        BY <1>7, <1>8, <3>2, <3>4, FlightNext
      <4> QED
        BY <4>1, FlightStages
    <3>8. Flight' \subseteq 1..made'
      <4>1. made' = made + 1 /\ 1..(made + 1) = (1..made) \cup {made + 1}
        BY <1>1, <1>2
      <4>2. Flight \cup {made + 1} \subseteq (1..made) \cup {made + 1}
        BY <1>11
      <4> QED
        BY <3>7, <4>1, <4>2
    <3>9. InOrder'
      <4>1. /\ Older(AtHand, {made + 1}) /\ Older(Arrived, {made + 1})
            /\ Older(OnLink, {made + 1})
        BY <3>5, FlightStages DEF Older
      <4>2. /\ Older(AtHand, Arrived \cup OnLink \cup (Waiting \cup {made + 1}))
            /\ Older(Arrived, OnLink \cup (Waiting \cup {made + 1}))
            /\ Older(OnLink, Waiting \cup {made + 1})
        BY <4>1 DEF InOrder, Older
      <4> QED
        BY <1>7, <1>8, <3>2, <3>4, <3>6, <3>8, <4>2 DEF InOrder, Older
    <3>10. made' \in (made + 1)..MaxFrames /\ made' = made + 1
      BY <1>1, <1>2
    <3> QED
      BY <1>10, <3>7, <3>9, <3>10, ChannelNext DEF ChannelStep, Channel!Next
  <2> QED
    BY <1>2, <1>5, <2>1, <2>2, <2>3, Ends, PushAppends
<1> QED
  BY <1>13, <1>14

LEMMA AskStep ==
  ASSUME TypeOK, Clean, InOrder, NEW a \in Asks, Ask(a[1], a[2], a[3])
  PROVE  ChannelStep
<1> DEFINE pk == MakePacket(a[2], a[1], a[3], None, MaxFrames + asked + 1)
<1>1. MaxFrames + asked + 1 \in Value
  BY BoundAssumption DEF Ask, Value, TypeOK
<1>2. a[1] \in Node /\ a[2] \in {"command", "ping"} /\ a[3] \in Node
  BY BoundAssumption, TaskNode
<1>3. pk \in Packet /\ ~Mine(pk)
  BY <1>1, <1>2 DEF MakePacket, Packet, Mine, ValueType
<1>4. /\ UNCHANGED <<content, hold, phase, cur, made, taken>>
      /\ queue' = Router(queue, a[1], pk)
  BY DEF Ask
<1> HIDE DEF pk
<1>5. Keeps(content, queue, queue')
  BY <1>3, <1>4, RouterKeeps DEF TypeOK, QueuesOK
<1>6. AtHand' = AtHand /\ OnLink' = OnLink
  BY <1>4, Stages, StagesNext
<1> QED
  BY <1>4, <1>5, <1>6, KnownKept, QuietQueues

(* Steps of the data exchange tasks that copy nothing.                      *)
LEMMA LinkSteps ==
  ASSUME TypeOK, Clean, Addressed, InOrder, NEW b \in Boards,
         \/ StartSend(b) \/ SendFails(b) \/ DrainEnds(b) \/ SeeActive(b)
         \/ StartReceive(b) \/ NoRoom(b) \/ ReceiveFails(b) \/ ReceiveShort(b)
         \/ Conflict
  PROVE  ChannelStep
<1> DEFINE B == BoardOf(Producer)
<1>1. /\ UNCHANGED <<content, queue, hold, cur, made, taken>>
      /\ \A c \in Boards : phase'[c] \in {"toSend", "send"}
                            => phase[c] \in {"toSend", "send"}
  <2>1. CASE NoRoom(b) \/ ReceiveFails(b) \/ ReceiveShort(b)
    BY <2>1, NothingDispatched
  <2>2. CASE StartSend(b) \/ SendFails(b) \/ DrainEnds(b) \/ SeeActive(b)
               \/ StartReceive(b)
    BY <2>2 DEF StartSend, SendFails, DrainEnds, SeeActive, StartReceive, TypeOK
  <2>3. CASE Conflict
    BY <2>3 DEF Conflict
  <2> QED
    BY <2>1, <2>2, <2>3
<1>2. /\ AtHand' = AtHand /\ Arrived' = Arrived /\ Waiting' = Waiting
      /\ Ordered(queue[Consumer])' /\ Ordered(queue[DX(B)])'
  BY <1>1, Stages, StagesNext DEF InOrder
<1>3. OnLink' = OnLink \/ OnLink' = {}
  BY <1>1, Ends, Stages, StagesNext
<1> QED
  BY <1>1, <1>2, <1>3, KnownKept, Quiet, LinkLoses

LEMMA TakeOwnStep ==
  ASSUME TypeOK, Clean, InOrder, NEW b \in Boards, TakeOwn(b)
  PROVE  ChannelStep
<1> DEFINE pk == Head(queue[DX(b)])
           rest == [queue EXCEPT ![DX(b)] = Tail(queue[DX(b)])]
           error == MakePacket("syslog", DX(b), "CMC", None, 0)
<1>1. /\ queue[DX(b)] # <<>> /\ pk.to = DX(b)
      /\ \/ queue' = Router(rest, DX(b), Response(DX(b), pk))
         \/ queue' = Router(rest, DX(b), error)
         \/ queue' = rest
      /\ UNCHANGED <<content, hold, phase, cur, made, taken>>
  BY DEF TakeOwn
<1>2. QueuesOK(queue)
  BY DEF TypeOK, QueuesOK
<1>3. pk \in Packet /\ QueuesOK(rest)
  BY <1>1, <1>2, TailOK, DXNode
<1>4. /\ error \in Packet /\ ~Mine(error)
      /\ Response(DX(b), pk) \in Packet /\ ~Mine(Response(DX(b), pk))
  BY <1>3, DXNode, TaskNode, ZeroValue, ResponseOK, ResponseNotMine
  DEF MakePacket, Packet, Mine, ValueType
<1>5. ~Mine(pk)
  BY <1>1, DXNode, ChannelAssumption DEF Mine
<1>6. Keeps(content, queue, rest)
  <2>1. Takes(content, queue, DX(b))
    BY <1>1, <1>2, RestTakes, DXNode
  <2>2. rest = Rest(queue, DX(b))
    BY DEF Rest
  <2> QED
    BY <1>5, <2>1, <2>2 DEF Takes
<1> HIDE DEF pk, rest, error
<1>7. Keeps(content, rest, queue')
  <2>1. Keeps(content, rest, rest)
    BY DEF Keeps
  <2> QED
    BY <1>1, <1>3, <1>4, <2>1, RouterKeeps
<1>8. Keeps(content, queue, queue')
  BY <1>6, <1>7 DEF Keeps
<1>9. AtHand' = AtHand /\ OnLink' = OnLink
  BY <1>1, Stages, StagesNext
<1> QED
  BY <1>1, <1>8, <1>9, KnownKept, QuietQueues

LEMMA TakeForeignStep ==
  ASSUME TypeOK, Clean, InOrder, NEW b \in Boards, TakeForeign(b)
  PROVE  ChannelStep
<1> DEFINE B == BoardOf(Producer)
           pk == Head(queue[DX(b)])
<1>1. /\ cur' = [cur EXCEPT ![b] = pk]
      /\ phase' = [phase EXCEPT ![b] = "toSend"]
      /\ phase[b] = "loop" /\ queue[DX(b)] # <<>>
      /\ UNCHANGED <<content, hold, made, taken>>
  BY DEF TakeForeign
<1>2. queue' = Rest(queue, DX(b))
  BY DEF TakeForeign, Rest
<1>3. QueuesOK(queue) /\ DX(b) \in Node
  BY DXNode DEF TypeOK, QueuesOK
<1>4. Takes(content, queue, DX(b))
  BY <1>1, <1>3, RestTakes
<1> HIDE DEF pk
<1>5. phase \in [Boards -> Phases] /\ cur \in [Boards -> Packet \cup {NoPacket}]
  BY DEF TypeOK
<1>6. AtHand' = AtHand /\ Known' = Known
  BY <1>1, KnownKept, Stages, StagesNext
<1>7. Consumer # DX(b)
  BY DXNode, ChannelAssumption
<1>8. Arrived' = Arrived /\ Ordered(queue[Consumer])'
  BY <1>1, <1>2, <1>4, <1>7, Ends, Stages, StagesNext DEF Takes, InOrder
<1>9. CASE b = B
  <2>1. OnLink = {} /\ OnLink' = Numbers(content, {pk})
    BY <1>1, <1>5, <1>9, Stages, StagesNext
  <2>2. /\ Waiting = OnLink' \cup Waiting'
        /\ Ordered(queue[DX(B)])' /\ Older(OnLink', Waiting')
    BY <1>1, <1>2, <1>4, <1>9, <2>1, Stages, StagesNext DEF Takes, InOrder, pk
  <2>3. Flight' = Flight
    BY <1>6, <1>8, <2>1, <2>2, FlightStages, FlightNext
  <2>4. InOrder'
    BY <1>1, <1>6, <1>8, <2>1, <2>2, <2>3 DEF InOrder, Older
  <2> QED
    BY <1>1, <1>6, <2>3, <2>4, ChannelNext DEF ChannelStep
<1>10. CASE b # B
  <2>1. DX(B) # DX(b) /\ DX(B) \in Node
    BY <1>10, Ends, BoardOfDX
  <2>2. OnLink' = OnLink
    BY <1>1, <1>5, <1>10, Ends, Stages, StagesNext
  <2>3. Waiting' = Waiting /\ Ordered(queue[DX(B)])'
    BY <1>1, <1>2, <1>4, <2>1, Stages, StagesNext DEF Takes, InOrder
  <2> QED
    BY <1>1, <1>6, <1>8, <2>2, <2>3, Quiet
<1> QED
  BY <1>9, <1>10

LEMMA TransferStep ==
  ASSUME TypeOK, SenderHasPacket, MutexProtects, Clean, OnePaths, Addressed,
         InOrder, NEW b \in Boards, Transfer(b)
  PROVE  ChannelStep
<1> DEFINE B == BoardOf(Producer)
           o == Other(b)
<1>x. PICK x : x = rxp[o]
  OBVIOUS
<1> DEFINE pk == [cur[b] EXCEPT !.pkg = IF cur[b].type = "frame" THEN x ELSE None]
<1>p. \A c \in Boards : phase'[c] \in {"loop", "drain"}
  <2>1. phase' = [phase EXCEPT ![b] = "drain", ![o] = "loop"]
    BY DEF Transfer
  <2>2. phase \in [Boards -> Phases] /\ Boards = {b, o}
    BY DEF TypeOK, Boards, Other
  <2> QED
    BY <2>1, <2>2
<1>1. /\ o \in Boards /\ phase[b] = "send" /\ phase[o] = "receive"
      /\ queue' = Dispatch(queue, o, pk)
      /\ content' = [content EXCEPT ![x] = IF cur[b].type = "frame"
                                             THEN content[cur[b].pkg] ELSE cur[b].val]
      /\ UNCHANGED <<hold, made, taken>>
  BY <1>x, OtherBoard DEF Transfer
<1>2. cur[b] \in Packet /\ BoardOf(cur[b].to) # b
  BY <1>1 DEF SenderHasPacket, InSend, Addressed
<1>3. x \in Package /\ state[x] = "Empty" /\ content \in [Package -> Value]
  BY <1>x, <1>1 DEF MutexProtects, Local, TypeOK
<1>4. QueuesOK(queue)
  BY DEF TypeOK, QueuesOK
<1>5. /\ pk \in Packet /\ (Mine(pk) <=> Mine(cur[b]))
      /\ Mine(pk) => pk.pkg = x /\ pk.to = Consumer /\ cur[b].type = "frame"
  BY <1>2, <1>3 DEF Packet, ValueType, Mine
<1>6. Copied(content, content', x)
  BY <1>1, <1>3 DEF Copied
<1>7. cur[b].type = "frame" => content'[x] = content[cur[b].pkg]
  BY <1>1, <1>3
<1>8. ~InQueues(queue, x) /\ ~Held(x)
  BY <1>3 DEF Clean, OnePaths, OnePath
<1> HIDE DEF pk
<1>9. AtHand' = AtHand
  <2>1. Mine(hold[Consumer]) => hold[Consumer].pkg # x
    BY <1>8, ChannelAssumption DEF Held, PointsTo, Mine
  <2>2. Numbers(content', {hold[Consumer]}) = Numbers(content, {hold[Consumer]})
    BY <1>6, <2>1, CopyKeepsOne
  <2> QED
    BY <1>1, <2>2, Stages, StagesNext
<1>10. OnLink' = {}
  BY <1>p, Ends, StagesNext
<1>11. \A n \in Node :
         /\ Numbers(content', Elements(queue[n])) = Numbers(content, Elements(queue[n]))
         /\ Ascending(content, queue[n]) => Ascending(content', queue[n])
  BY <1>6, <1>8, CopyKeeps
<1>12. Known' = Known
  BY <1>1, KnownKept
(* The frame on the link, if there is one, is dropped.                      *)
<1>13. ASSUME Keeps(content', queue, queue')
       PROVE  ChannelStep
  <2>1. /\ Arrived' = Arrived /\ Waiting' = Waiting
        /\ Ordered(queue[Consumer])' /\ Ordered(queue[DX(B)])'
    BY <1>11, <1>13, Ends, Stages, StagesNext DEF Keeps, InOrder
  <2> QED
    BY <1>1, <1>9, <1>10, <1>12, <2>1, LinkLoses
<1>14. CASE ~Mine(pk)
  BY <1>1, <1>4, <1>5, <1>13, <1>14, DispatchKeeps
<1>15. CASE Mine(pk)
  <2>1. b = B /\ o = BoardOf(Consumer)
    BY <1>2, <1>5, <1>15, Ends DEF Mine, Boards, Other
  <2>2. queue' = Push(queue, Consumer, pk)
    BY <1>1, <1>5, <1>15, <2>1, BoardOfDX, DXNode, ChannelAssumption
    DEF Dispatch, Router
  <2>3. CASE queue' = queue
    BY <1>13, <2>3 DEF Keeps
  <2>4. CASE /\ queue'[Consumer] = Append(queue[Consumer], pk)
             /\ \A m \in Node : m # Consumer => queue'[m] = queue[m]
    <3>1. /\ DX(B) \in Node /\ Consumer \in Node /\ DX(B) # Consumer
          /\ queue[Consumer] \in Seq(Packet)
      BY <1>4, Ends, ChannelAssumption DEF QueuesOK
    <3>2. Waiting' = Waiting /\ Ordered(queue[DX(B)])'
      BY <1>11, <2>4, <3>1, Stages, StagesNext DEF InOrder
    <3>3. Numbers(content', {pk}) = OnLink
      <4>1. OnLink = {content[cur[b].pkg]}
        BY <1>1, <1>5, <1>15, <2>1, NumberOf, Stages
      <4>2. Numbers(content', {pk}) = {content'[x]}
        BY <1>5, <1>15, NumberOf
      <4> QED
        BY <1>5, <1>7, <1>15, <4>1, <4>2
    <3>4. Arrived' = Arrived \cup OnLink
      <4>1. Elements(queue'[Consumer]) = Elements(queue[Consumer]) \cup {pk}
        BY <1>5, <2>4, <3>1, ElementsAppend
      <4>2. Numbers(content', Elements(queue'[Consumer]))
              = Numbers(content', Elements(queue[Consumer])) \cup Numbers(content', {pk})
        BY <4>1 DEF Numbers
      <4> QED
        BY <1>11, <3>1, <3>3, <4>2, Stages, StagesNext
    <3>5. Ordered(queue[Consumer])'
      <4>1. Older(Numbers(content', Elements(queue[Consumer])), Numbers(content', {pk}))
        BY <1>11, <3>1, <3>3, Stages DEF InOrder, Older
      <4>2. Ascending(content', queue[Consumer])
        BY <1>11, <3>1, Stages DEF InOrder
      <4> QED
        BY <1>5, <2>4, <3>1, <4>1, <4>2, AppendAscends, StagesNext
    <3>6. Flight' = Flight
      BY <1>9, <1>10, <3>2, <3>4, FlightStages, FlightNext
    <3>7. InOrder'
      BY <1>1, <1>9, <1>10, <3>2, <3>4, <3>5, <3>6 DEF InOrder, Older
    <3> QED
      BY <1>1, <1>12, <3>6, <3>7, ChannelNext DEF ChannelStep
  <2> QED
    BY <1>4, <1>5, <2>2, <2>3, <2>4, Ends, PushAppends
<1> QED
  BY <1>14, <1>15

(* What the channel needs beyond IInv.                                      *)
ChannelInv == stale = {} => OnePaths /\ Addressed /\ InOrder

LEMMA ChannelInvStep ==
  ASSUME IInv, ChannelInv, [Next]_vars
  PROVE  ChannelInv' /\ [Channel!Next]_(Channel!vars)
<1>1. CASE stale' # {}
  <2>1. Channel!Break
    BY <1>1 DEF Channel!Break
  <2> QED
    BY <1>1, <2>1 DEF ChannelInv, Channel!Next
<1>2. CASE stale' = {}
  <2>1. Clean
    BY <1>2, StaleGrows DEF Clean, vars
  <2>2. OnePaths /\ Addressed /\ InOrder
    BY <2>1 DEF Clean, ChannelInv
  <2>3. CASE Next
    <3>1. OnePaths' /\ Addressed'
      BY <2>1, <2>2, <2>3, OnePathsStep, AddressedStep DEF IInv
    <3>2. ChannelStep
      BY <2>1, <2>2, <2>3, ProduceStep, AskStep, TaskSteps, LinkSteps, TakeOwnStep,
         TakeForeignStep, TransferStep
      DEF Next, DXStep, IInv, Boards
    <3> QED
      BY <3>1, <3>2 DEF ChannelInv, ChannelStep
  <2>4. CASE UNCHANGED vars
    <3>1. OnePaths'
      BY <2>2, <2>4 DEF vars, OnePaths, OnePath, Held, Sent, Sending, InSend
    <3>2. Addressed'
      BY <2>2, <2>4 DEF vars, Addressed
    <3>3. /\ AtHand' = AtHand /\ OnLink' = OnLink /\ Known' = Known
          /\ Keeps(content, queue, queue')
      BY <2>4, KnownKept, Stages, StagesNext DEF vars, Keeps
    <3>4. ChannelStep
      BY <2>1, <2>2, <2>4, <3>3, QuietQueues DEF vars
    <3> QED
      BY <3>1, <3>2, <3>4 DEF ChannelInv, ChannelStep
  <2> QED
    BY <2>3, <2>4
<1> QED
  BY <1>1, <1>2

----------------------------------------------------------------------------
(* Theorems *)

(* The inductive invariant holds in every state of the two boards.          *)
THEOREM Invariance == Spec => []IInv
BY InitIInv, StepIInv, PTL DEF Spec

(* Queues never exceed their lengths and every packet on its way, also one  *)
(* that was put together from what an earlier pass left on the stack, is a  *)
(* packet: a frame with a package or another type with a value.             *)
THEOREM TypeCorrect == Spec => []TypeOK
<1>1. IInv => TypeOK
  BY DEF IInv
<1> QED
  BY <1>1, Invariance, PTL

(* A package is full while a board sends it and empty while a board         *)
(* receives into it, and the boards never send the same package, whatever   *)
(* the link does and whatever stale pointers the data exchange tasks use.   *)
THEOREM MutexProtection == Spec => []MutexProtects
<1>1. IInv => MutexProtects
  BY DEF IInv
<1> QED
  BY <1>1, Invariance, PTL

(* What is in a full package stays until it has been declared empty: no     *)
(* task, and no transfer over the link, copies into a full package.         *)
THEOREM FullStability == Spec => FullIsStable
<1>1. ASSUME IInv, [Next]_vars
      PROVE  [\A p \in Package : state[p] = "Full" => content'[p] = content[p]]_vars
  <2>1. ASSUME NEW q \in Package, Produce(q), NEW p \in Package, state[p] = "Full"
        PROVE  content'[p] = content[p]
    BY <1>1, <2>1 DEF Produce, IInv, TypeOK
  <2>2. ASSUME NEW b \in Boards, Transfer(b), NEW p \in Package,
               state[p] = "Full"
        PROVE  content'[p] = content[p]
    <3>1. state[rxp[Other(b)]] = "Empty"
      BY <1>1, <2>2, OtherBoard DEF Transfer, IInv, MutexProtects
    <3>2. p # rxp[Other(b)]
      BY <2>2, <3>1
    <3> QED
      BY <1>1, <2>2, <3>2 DEF Transfer, IInv, TypeOK
  <2>3. ASSUME \/ \E a \in Asks : Ask(a[1], a[2], a[3])
               \/ \E t \in Task : TaskStep(t)
               \/ Conflict
               \/ UNCHANGED vars
        PROVE  content' = content
    BY <2>3 DEF Ask, TaskStep, Dequeue, HandleFrame, HandleValue, Conflict, vars
  <2>4. ASSUME NEW b \in Boards,
               \/ TakeOwn(b) \/ TakeForeign(b) \/ StartSend(b) \/ SendFails(b)
               \/ DrainEnds(b) \/ SeeActive(b) \/ StartReceive(b)
        PROVE  content' = content
    BY <2>4 DEF TakeOwn, TakeForeign, StartSend, SendFails, DrainEnds, SeeActive,
       StartReceive
  <2>5. ASSUME NEW b \in Boards, NoRoom(b) \/ ReceiveFails(b) \/ ReceiveShort(b)
        PROVE  content' = content
    BY <2>5 DEF NoRoom, ReceiveFails, ReceiveShort
  <2> QED
    BY <1>1, <2>1, <2>2, <2>3, <2>4, <2>5 DEF Next, DXStep
<1> QED
  BY <1>1, Invariance, PTL DEF Spec, FullIsStable

(* A pointer to a package is in one place at a time, in a queue, in a       *)
(* task's hand or with a data exchange task, and only while the package is  *)
(* full: nobody can copy into or out of a package that another will hand    *)
(* on.  Whatever the link does and whatever was left on the stack, only a   *)
(* package that a leftover pointer named can lose this.                     *)
THEOREM OnlyOnePointer == Spec => []OnePointer
<1>1. Init => OnePaths
  BY InitOnePaths
<1>2. IInv /\ OnePaths /\ [Next]_vars => OnePaths'
  <2>1. ASSUME IInv, OnePaths, Next
        PROVE  OnePaths'
    BY <2>1, OnePathsStep DEF IInv
  <2>2. ASSUME OnePaths, UNCHANGED vars
        PROVE  OnePaths'
    BY <2>2 DEF vars, OnePaths, OnePath, Held, Sent, Sending, InSend
  <2> QED
    BY <2>1, <2>2
<1>3. OnePaths => OnePointer
  BY OnePathsCount
<1> QED
  BY <1>1, <1>2, <1>3, Invariance, PTL DEF Spec

(* The frames of one task reach a task of the other board as through a      *)
(* lossy first-in first-out channel: whatever the link does and however     *)
(* full the queues are, no frame is repeated, overtaken or invented before  *)
(* a data exchange task dispatches the leftovers of an earlier packet.      *)
THEOREM ChannelImplementation == Spec => ChannelImplemented
<1>1. Init => ChannelInv /\ Channel!Init
  <2>1. ASSUME Init
        PROVE  ChannelInv /\ Channel!Init
    BY <2>1, InitOnePaths, InitAddressed, InitInOrder DEF ChannelInv
  <2> QED
    BY <2>1
<1>2. IInv /\ ChannelInv /\ [Next]_vars => ChannelInv' /\ [Channel!Next]_(Channel!vars)
  BY ChannelInvStep
<1> QED
  BY <1>1, <1>2, Invariance, PTL DEF Spec, ChannelImplemented, Channel!Spec

=============================================================================

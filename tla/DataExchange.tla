---------------------------- MODULE DataExchange ----------------------------
(***************************************************************************)
(* The data exchange between the two boards: the tasks' packet queues, the *)
(* packet router, the data packages that carry frames by reference, and    *)
(* the two data exchange tasks ("DXC" on the controller, "DXS" on the      *)
(* spectrometer) that move packets over the SPI link.                      *)
(*                                                                         *)
(* The link itself is module SpiLink.  Here a call of SPI_tx_packet or     *)
(* SPI_rx_packet is one long step, during which the task holds the mutex   *)
(* of the package it sends or fills.                                       *)
(***************************************************************************)
EXTENDS Naturals, Sequences, FiniteSets

CONSTANTS
  CtlTask, SpecTask,  \* the other tasks of each board (their addresses)
  Package,            \* all data packages
  Home,               \* the task whose static array holds a package
  QLen,               \* N_RX_PACKETS of every task's queue
  Source,             \* [Package -> Node]: where the owner sends its frames
  Asks,               \* {<<from, type, to>>}: commands and pings of the tasks
  MaxFrames, MaxAsks, \* bounds on the number of frames and of asks
  LinkFaults,         \* TRUE: transfers over the link may fail at any time,
                      \* and a sender may miss that the receiver has ended
  StackReuse          \* TRUE: a local variable that is not assigned holds what
                      \* it held in the previous pass; FALSE: no known address

Boards == {"ctl", "spec"}
Other(b) == IF b = "ctl" THEN "spec" ELSE "ctl"
DX(b) == IF b = "ctl" THEN "DXC" ELSE "DXS"
Task == CtlTask \cup SpecTask
Node == Task \cup {"DXC", "DXS"}
BoardOf(n) == IF n \in CtlTask \cup {"DXC"} THEN "ctl" ELSE "spec"

None == "none"
Frame == 1..MaxFrames
\* Frames and the values of other packets; 0 is no value.
Value == 0..(MaxFrames + MaxAsks)
ValueType == {"command", "ping", "response", "syslog"}
(* A packet carries a pointer to a package or a small value.                *)
Packet ==
  [type : {"frame"}, to : Node, from : Node, pkg : Package, val : Value]
    \cup [type : ValueType, to : Node, from : Node, pkg : {None}, val : Value]
NoPacket == [type |-> None]

ASSUME NodeAssumption ==
  /\ CtlTask \cap SpecTask = {} /\ {"DXC", "DXS", None} \cap Task = {}
  /\ "CMC" \in CtlTask
ASSUME PackageAssumption ==
  /\ None \notin Package
  /\ Home \in [Package -> Node] /\ Source \in [Package -> Node]
ASSUME BoundAssumption ==
  /\ MaxFrames \in Nat /\ MaxAsks \in Nat
  /\ QLen \in [Node -> Nat \ {0}]
  /\ Asks \subseteq Task \X {"command", "ping"} \X Node
  /\ LinkFaults \in BOOLEAN /\ StackReuse \in BOOLEAN

----------------------------------------------------------------------------
VARIABLES
  state,    \* "Empty" or "Full" (EmptyRAM/FullRAM, EmptySRAM/FullSRAM)
  content,  \* what was last copied to the memory of a package
  queue,    \* rxPackets of every task
  hold,     \* the packet a task has dequeued and not handled yet
  phase,    \* where a data exchange task is in its loop
  cur,      \* packet_rx_via_queue of a data exchange task
  rxp,      \* the local package a data exchange task receives into
  last,     \* the header, pointer and value in packet_rx_via_SPI, which
            \* survive on the stack
  named,    \* FALSE: its address was set to DE_Addr_Nobody
  made, asked,  \* frames produced and packets asked so far
  taken,        \* the values every task has taken in, by their origin
  stale         \* history: the packages to which a leftover pointer was used,
                \* None for a leftover value or leftover contents

vars == <<state, content, queue, hold, phase, cur, rxp, last, named, made,
          asked, taken, stale>>

\* "drain": the packet is out, SPI_tx_packet waits for the other board to go
\* passive
Phases == {"loop", "toSend", "send", "drain", "toReceive", "receive"}

TypeOK ==
  /\ state \in [Package -> {"Empty", "Full"}]
  /\ content \in [Package -> Value]
  /\ queue \in [Node -> Seq(Packet)]
  /\ \A n \in Node : Len(queue[n]) <= QLen[n]
  /\ hold \in [Task -> Packet \cup {NoPacket}]
  /\ phase \in [Boards -> Phases]
  /\ cur \in [Boards -> Packet \cup {NoPacket}]
  /\ rxp \in [Boards -> Package \cup {None}]
  /\ last \in [Boards -> Packet \cup {NoPacket}]
  /\ named \in [Boards -> BOOLEAN]
  /\ made \in 0..MaxFrames /\ asked \in 0..MaxAsks
  /\ taken \in [Task -> [Node -> SUBSET Value]]
  /\ stale \subseteq Package \cup {None}

Init ==
  /\ state = [p \in Package |-> "Empty"]
  /\ content = [p \in Package |-> 0]
  /\ queue = [n \in Node |-> <<>>]
  /\ hold = [t \in Task |-> NoPacket]
  /\ phase = [b \in Boards |-> "loop"]
  /\ cur = [b \in Boards |-> NoPacket]
  /\ rxp = [b \in Boards |-> None]
  /\ last = [b \in Boards |-> NoPacket]
  /\ named = [b \in Boards |-> FALSE]
  /\ made = 0 /\ asked = 0
  /\ taken = [t \in Task |-> [n \in Node |-> {}]]
  /\ stale = {}

----------------------------------------------------------------------------
(* Helpers *)

Local(b) == {p \in Package : Home[p] = DX(b)}

\* in SPI_tx_packet
InSend(b) == phase[b] \in {"send", "drain"}

(* The indicator line of a board: raised by the SPI functions only.         *)
Active(b) == InSend(b) \/ phase[b] = "receive"

(* The mutex of a package is held over a long step by a data exchange task  *)
(* only; the tasks hold it for one copy.                                    *)
Locked(p) ==
  \E b \in Boards :
    \/ InSend(b) /\ cur[b].type = "frame" /\ cur[b].pkg = p
    \/ phase[b] = "receive" /\ rxp[b] = p

(* xQueueSendToBack with no waiting: a packet for a full queue is dropped.  *)
Push(q, n, pk) ==
  IF Len(q[n]) < QLen[n] THEN [q EXCEPT ![n] = Append(@, pk)] ELSE q

(* data_exchange_packet_router.  Only a task can hand a packet for the      *)
(* other board to the data exchange task; from there it is dropped.         *)
Router(q, at, pk) ==
  IF BoardOf(at) = BoardOf(pk.to) THEN Push(q, pk.to, pk)
  ELSE IF at \in {"DXC", "DXS"} THEN q
  ELSE Push(q, DX(BoardOf(at)), pk)

MakePacket(type, from, to, p, v) ==
  [type |-> type, to |-> to, from |-> from, pkg |-> p, val |-> v]
Response(me, ping) == MakePacket("response", me, ping.from, None, 0)

(* Where a packet that DX(b) received goes: it answers pings to itself,     *)
(* swallows anything else that is addressed to it, and routes the rest.     *)
Dispatch(q, b, pk) ==
  IF pk.to # DX(b) THEN Router(q, DX(b), pk)
  ELSE IF pk.type = "ping" THEN Router(q, DX(b), Response(DX(b), pk))
  ELSE q

Free(st, pk) ==
  IF pk.type = "frame" THEN [st EXCEPT ![pk.pkg] = "Empty"] ELSE st

(* A received frame fills the local package, unless it is addressed to the  *)
(* data exchange task itself, which declares the package empty again.       *)
Fill(st, b, pk, p) ==
  IF pk.type = "frame" /\ pk.to # DX(b) THEN [st EXCEPT ![p] = "Full"] ELSE st

----------------------------------------------------------------------------
(* The tasks *)

(* A task copies a frame into one of its empty packages, declares it full   *)
(* and routes the packet.                                                   *)
Produce(p) ==
  LET t == Home[p] IN
  /\ t \in Task
  /\ made < MaxFrames
  /\ state[p] = "Empty" /\ ~Locked(p)
  /\ made' = made + 1
  /\ state' = [state EXCEPT ![p] = "Full"]
  /\ content' = [content EXCEPT ![p] = made + 1]
  /\ queue' = Router(queue, t, MakePacket("frame", t, Source[p], p, 0))
  /\ UNCHANGED <<hold, phase, cur, rxp, last, named, asked, taken, stale>>

(* A task sends a command or a ping.                                        *)
Ask(from, type, to) ==
  /\ asked < MaxAsks
  /\ asked' = asked + 1
  /\ queue' = Router(queue, from,
                MakePacket(type, from, to, None, MaxFrames + asked + 1))
  /\ UNCHANGED <<state, content, hold, phase, cur, rxp, last, named, made,
                 taken, stale>>

Dequeue(t) ==
  /\ hold[t] = NoPacket
  /\ queue[t] # <<>>
  /\ hold' = [hold EXCEPT ![t] = Head(queue[t])]
  /\ queue' = [queue EXCEPT ![t] = Tail(@)]
  /\ UNCHANGED <<state, content, phase, cur, rxp, last, named, made, asked,
                 taken, stale>>

(* A task takes the mutex of the package, copies a full package and         *)
(* declares it empty; a package that is not full is left alone.             *)
HandleFrame(t) ==
  LET p == hold[t].pkg IN
  /\ hold[t].type = "frame"
  /\ ~Locked(p)
  /\ state' = Free(state, hold[t])
  /\ taken' = IF state[p] = "Full"
                THEN [taken EXCEPT ![t][hold[t].from] = @ \cup {content[p]}]
                ELSE taken
  /\ hold' = [hold EXCEPT ![t] = NoPacket]
  /\ UNCHANGED <<content, queue, phase, cur, rxp, last, named, made, asked,
                 stale>>

(* Every task answers a ping and takes in everything else by value.         *)
HandleValue(t) ==
  /\ hold[t] # NoPacket /\ hold[t].type # "frame"
  /\ IF hold[t].type = "ping"
       THEN /\ queue' = Router(queue, t, Response(t, hold[t]))
            /\ UNCHANGED taken
       ELSE /\ taken' = [taken EXCEPT ![t][hold[t].from] = @ \cup {hold[t].val}]
            /\ UNCHANGED queue
  /\ hold' = [hold EXCEPT ![t] = NoPacket]
  /\ UNCHANGED <<state, content, phase, cur, rxp, last, named, made, asked,
                 stale>>

----------------------------------------------------------------------------
(* The data exchange tasks: from the queue to the link *)

(* While the other board is passive a packet is taken from the queue.  One  *)
(* for this task is answered or thrown out, its package declared empty, and *)
(* the controller reports it to its commander.                              *)
TakeOwn(b) ==
  LET pk == Head(queue[DX(b)])
      rest == [queue EXCEPT ![DX(b)] = Tail(@)]
      error == MakePacket("syslog", DX(b), "CMC", None, 0)
  IN
  /\ phase[b] = "loop"
  /\ ~Active(Other(b))
  /\ queue[DX(b)] # <<>>
  /\ pk.to = DX(b)
  /\ pk.type = "frame" => ~Locked(pk.pkg)
  /\ state' = Free(state, pk)
  /\ queue' = CASE pk.type = "ping" -> Router(rest, DX(b), Response(DX(b), pk))
                [] pk.type # "ping" /\ b = "ctl" -> Router(rest, DX(b), error)
                [] OTHER -> rest
  /\ UNCHANGED <<content, hold, phase, cur, rxp, last, named, made, asked,
                 taken, stale>>

(* Any other packet will be sent.  The other board may raise its indicator  *)
(* before this one does.                                                    *)
TakeForeign(b) ==
  /\ phase[b] = "loop"
  /\ ~Active(Other(b))
  /\ queue[DX(b)] # <<>>
  /\ Head(queue[DX(b)]).to # DX(b)
  /\ cur' = [cur EXCEPT ![b] = Head(queue[DX(b)])]
  /\ queue' = [queue EXCEPT ![DX(b)] = Tail(@)]
  /\ phase' = [phase EXCEPT ![b] = "toSend"]
  /\ UNCHANGED <<state, content, hold, rxp, last, named, made, asked, taken,
                 stale>>

\* mutant of StartSend: the package is declared empty before it is sent
StartSendEarlyFree(b) ==
  LET frame == cur[b].type = "frame" IN
  /\ phase[b] = "toSend"
  /\ frame => ~Locked(cur[b].pkg)
  /\ phase' = [phase EXCEPT ![b] =
                 IF frame /\ state[cur[b].pkg] # "Full" THEN "loop" ELSE "send"]
  /\ state' = Free(state, cur[b])
  /\ UNCHANGED <<content, queue, hold, cur, rxp, last, named, made, asked,
                 taken, stale>>

(* SPI_tx_packet is entered, for a frame with the mutex of a full package.  *)
StartSend(b) ==
  LET frame == cur[b].type = "frame" IN
  /\ phase[b] = "toSend"
  /\ frame => ~Locked(cur[b].pkg)
  /\ phase' = [phase EXCEPT ![b] =
                 IF frame /\ state[cur[b].pkg] # "Full" THEN "loop" ELSE "send"]
  /\ UNCHANGED <<state, content, queue, hold, cur, rxp, last, named, made,
                 asked, taken, stale>>

\* mutant of SendFails: an unsent packet goes back to the end of the queue
SendFailsRequeue(b) ==
  /\ phase[b] = "send"
  /\ phase[Other(b)] \in {"loop", "toSend"} \/ LinkFaults
  /\ phase' = [phase EXCEPT ![b] = "loop"]
  /\ queue' = Push(queue, DX(b), cur[b])
  /\ UNCHANGED <<state, content, hold, cur, rxp, last, named, made, asked,
                 taken, stale>>

\* mutant of SendFails: no limit to the wait for the other board
SendFailsNever(b) == FALSE /\ UNCHANGED vars

(* No answer from the other board in 1000 ms, or any failure of the link.   *)
(* The package is declared empty whatever SPI_tx_packet returned.           *)
SendFails(b) ==
  /\ phase[b] = "send"
  /\ phase[Other(b)] \in {"loop", "toSend"} \/ LinkFaults
  /\ phase' = [phase EXCEPT ![b] = "loop"]
  /\ state' = Free(state, cur[b])
  /\ UNCHANGED <<content, queue, hold, cur, rxp, last, named, made, asked,
                 taken, stale>>

(* The sender sees the other board passive and returns.                     *)
DrainEnds(b) ==
  /\ phase[b] = "drain"
  /\ ~Active(Other(b))
  /\ phase' = [phase EXCEPT ![b] = "loop"]
  /\ state' = Free(state, cur[b])
  /\ UNCHANGED <<content, queue, hold, cur, rxp, last, named, made, asked,
                 taken, stale>>

(* Both boards raised their indicators to send: both abort.                 *)
Conflict ==
  /\ \A b \in Boards : phase[b] = "send"
  /\ phase' = [b \in Boards |-> "loop"]
  /\ state' = Free(Free(state, cur["ctl"]), cur["spec"])
  /\ UNCHANGED <<content, queue, hold, cur, rxp, last, named, made, asked,
                 taken, stale>>

----------------------------------------------------------------------------
(* The data exchange tasks: from the link to a queue *)

(* The line may still be the one of the last transfer, if the sender has    *)
(* not looked while this board was passive.                                 *)
SeeActive(b) ==
  /\ phase[b] = "loop"
  /\ Active(Other(b))
  /\ phase[Other(b)] = "drain" => LinkFaults
  /\ phase' = [phase EXCEPT ![b] = "toReceive"]
  /\ UNCHANGED <<state, content, queue, hold, cur, rxp, last, named, made,
                 asked, taken, stale>>

\* mutant of StartReceive: the state of the package is not looked at
StartReceiveAnyState(b) ==
  /\ phase[b] = "toReceive"
  /\ \E p \in Local(b) :
       /\ ~Locked(p)
       /\ rxp' = [rxp EXCEPT ![b] = p]
  /\ phase' = [phase EXCEPT ![b] = "receive"]
  /\ UNCHANGED <<state, content, queue, hold, cur, last, named, made, asked,
                 taken, stale>>

(* SPI_rx_packet is entered with the mutex of an empty local package.       *)
StartReceive(b) ==
  /\ phase[b] = "toReceive"
  /\ \E p \in Local(b) :
       /\ state[p] = "Empty" /\ ~Locked(p)
       /\ rxp' = [rxp EXCEPT ![b] = p]
  /\ phase' = [phase EXCEPT ![b] = "receive"]
  /\ UNCHANGED <<state, content, queue, hold, cur, last, named, made, asked,
                 taken, stale>>

(* Without an empty local package nothing is received, but the local        *)
(* variable packet_rx_via_SPI, never assigned in this pass, is still        *)
(* dispatched: nothing recognizable, or the previous packet again.          *)
NoRoom(b) ==
  /\ phase[b] = "toReceive"
  /\ \A p \in Local(b) : state[p] = "Full" \/ Locked(p)
  /\ phase' = [phase EXCEPT ![b] = "loop"]
  /\ \/ UNCHANGED <<queue, state, stale>>
     \/ /\ StackReuse /\ named[b] /\ last[b] # NoPacket
        /\ last[b].to = DX(b) /\ last[b].type = "frame"
             => ~Locked(last[b].pkg)
        /\ queue' = Dispatch(queue, b, last[b])
        /\ state' = IF last[b].to = DX(b) THEN Free(state, last[b]) ELSE state
        /\ stale' = stale \cup {last[b].pkg}
  /\ UNCHANGED <<content, hold, cur, rxp, last, named, made, asked, taken>>

(* One packet crosses the link.  The receiver copies it, fills the local    *)
(* package with a frame, and dispatches it.                                 *)
Transfer(b) ==
  LET o == Other(b)
      p == rxp[o]
      frame == cur[b].type = "frame"
      pk == [cur[b] EXCEPT !.pkg = IF frame THEN p ELSE None]
  IN
  /\ phase[b] = "send" /\ phase[o] = "receive"
  /\ phase' = [phase EXCEPT ![b] = "drain", ![o] = "loop"]
  /\ content' = [content EXCEPT ![p] = IF frame THEN content[cur[b].pkg]
                                                ELSE cur[b].val]
  /\ state' = Fill(state, o, pk, p)
  /\ last' = [last EXCEPT ![o] = pk]
  /\ named' = [named EXCEPT ![o] = TRUE]
  /\ queue' = Dispatch(queue, o, pk)
  /\ UNCHANGED <<hold, cur, rxp, made, asked, taken, stale>>

(* The receiver ends its call without a packet.  A sender on the other side *)
(* sees it in one of its loops, or has written all characters before.       *)
GiveUp(b) ==
  \/ phase' = [phase EXCEPT ![b] = "loop"]
  \/ /\ phase[Other(b)] = "send"
     /\ phase' = [phase EXCEPT ![b] = "loop", ![Other(b)] = "drain"]

(* A failed receive: the spectrometer sees a negative count and addresses   *)
(* the packet to nobody.  The controller looks at received_size, which      *)
(* SPI_rx_packet has not set: it may do the same or take the leftovers of   *)
(* header and buffer for a packet once more.                                *)
ReceiveFails(b) ==
  /\ phase[b] = "receive"
  /\ phase[Other(b)] # "send" \/ LinkFaults
  /\ GiveUp(b)
  /\ \/ /\ named' = [named EXCEPT ![b] = FALSE]
        /\ UNCHANGED <<queue, state, last, stale>>
     \/ LET p == rxp[b]
            frame == last[b].type = "frame"
            pk == [last[b] EXCEPT !.pkg = IF frame THEN p ELSE None,
                                  !.val = IF frame THEN @ ELSE content[p]]
        IN /\ b = "ctl" /\ StackReuse /\ last[b] # NoPacket
           /\ queue' = Dispatch(queue, b, pk)
           /\ state' = Fill(state, b, pk, p)
           /\ last' = [last EXCEPT ![b] = pk]
           /\ named' = [named EXCEPT ![b] = TRUE]
           /\ stale' = stale \cup {None}
  /\ UNCHANGED <<content, hold, cur, rxp, made, asked, taken>>

(* A receive that ends early, after the header.  The spectrometer compares  *)
(* sizes and throws the packet out.  The controller dispatches it with the  *)
(* pointer or the value that the local variable held before.                *)
ReceiveShort(b) ==
  LET pk == [cur[Other(b)] EXCEPT !.pkg = last[b].pkg, !.val = last[b].val]
  IN
  /\ LinkFaults
  /\ phase[b] = "receive" /\ phase[Other(b)] = "send"
  /\ b = "ctl" /\ StackReuse /\ last[b] # NoPacket
  \* a pointer that never was one is beyond the model
  /\ cur[Other(b)].type = "frame" <=> last[b].type = "frame"
  /\ pk.to = DX(b) /\ pk.type = "frame" => ~Locked(pk.pkg)
  /\ GiveUp(b)
  /\ queue' = Dispatch(queue, b, pk)
  /\ state' = IF pk.to = DX(b) THEN Free(state, pk) ELSE state
  /\ last' = [last EXCEPT ![b] = pk]
  /\ named' = [named EXCEPT ![b] = TRUE]
  /\ stale' = stale \cup {pk.pkg}
  /\ UNCHANGED <<content, hold, cur, rxp, made, asked, taken>>

----------------------------------------------------------------------------
TaskStep(t) == Dequeue(t) \/ HandleFrame(t) \/ HandleValue(t)

DXStep(b) ==
  \/ TakeOwn(b) \/ TakeForeign(b) \/ StartSend(b) \/ SendFails(b) \/ DrainEnds(b)
  \/ SeeActive(b) \/ StartReceive(b) \/ NoRoom(b)
  \/ Transfer(b) \/ ReceiveFails(b) \/ ReceiveShort(b)

Next ==
  \/ \E p \in Package : Produce(p)
  \/ \E a \in Asks : Ask(a[1], a[2], a[3])
  \/ \E t \in Task : TaskStep(t)
  \/ \E b \in Boards : DXStep(b)
  \/ Conflict

(* A sender has missed that the receiver had ended, and the receiver takes  *)
(* the line that is still active for the next packet: neither writes, and   *)
(* the calls return or not (spi.spectrometer.c:139, module SpiLink).        *)
EndMissed ==
  \E b \in Boards : phase[b] = "drain" /\ phase[Other(b)] = "receive"

\* SPI_tx_packet ends because the other board has not answered
NoAnswer(b) == phase[Other(b)] \in {"loop", "toSend"} /\ SendFails(b)

(* Every task's loop is scheduled again and again, and a call of the link   *)
(* ends, but for the miss above: OnlyAMissHangs of SpiLink.  The 1000 ms    *)
(* that SPI_tx_packet waits for an answer run on while the other board      *)
(* looks at the line and finds no package to receive into; nothing is       *)
(* promised of any other failure.                                           *)
Fairness ==
  /\ \A t \in Task : WF_vars(TaskStep(t))
  /\ \A b \in Boards : WF_vars(~EndMissed /\ DXStep(b))
  /\ WF_vars(Conflict)
  /\ \A b \in Boards : SF_vars(NoAnswer(b))

Spec == Init /\ [][Next]_vars
FairSpec == Spec /\ Fairness

----------------------------------------------------------------------------
(* Properties *)

(* The contract of data_exchange_packet.h: a package is full while it is    *)
(* sent and empty while it is filled over the link, and no two boards are   *)
(* at work on the same package, even when stale pointers are around.        *)
MutexProtects ==
  /\ \A b \in Boards :
       /\ InSend(b) /\ cur[b].type = "frame"
            => state[cur[b].pkg] = "Full"
       /\ phase[b] = "receive" => rxp[b] \in Local(b) /\ state[rxp[b]] = "Empty"
  /\ \A b \in Boards :
       InSend(b) /\ InSend(Other(b))
         /\ cur[b].type = "frame" /\ cur[Other(b)].type = "frame"
           => cur[b].pkg # cur[Other(b)].pkg

(* "The sender can only copy data into an empty package": what is in a full *)
(* package stays until the package has been declared empty.                 *)
FullIsStable ==
  [][\A p \in Package :
       state[p] = "Full" => content'[p] = content[p]]_vars

(* Where a pointer to package p is.                                         *)
PointsTo(pk, p) == pk.type = "frame" /\ pk.pkg = p
InQueue(p) ==
  UNION {{<<n, i>> : i \in {j \in 1..Len(queue[n]) : PointsTo(queue[n][j], p)}}
           : n \in Node}
InHand(p) == {t \in Task : PointsTo(hold[t], p)}
OnTheWay(p) ==
  {b \in Boards : (phase[b] = "toSend" \/ InSend(b)) /\ PointsTo(cur[b], p)}
References(p) ==
  Cardinality(InQueue(p)) + Cardinality(InHand(p)) + Cardinality(OnTheWay(p))

(* A pointer to a package travels along one path only, and only while the   *)
(* package is full.  A data exchange task that dispatches the leftovers of  *)
(* an earlier packet breaks this for the package that they name, and for no *)
(* other.                                                                   *)
OnePointer ==
  \A p \in Package \ stale :
    References(p) <= IF state[p] = "Full" THEN 1 ELSE 0

(* No wait of a data exchange task, for a mutex or for the other board,     *)
(* lasts forever, whatever the link does, unless the end of a transfer is   *)
(* missed.                                                                  *)
ExchangeGoesOn ==
  \A b \in Boards : phase[b] # "loop" ~> phase[b] = "loop" \/ EndMissed

=============================================================================

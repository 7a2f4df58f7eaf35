------------------------- MODULE DataExchangeChannel -------------------------
(* DataExchange implements a FrameChannel from the task Producer to the     *)
(* task Consumer of the other board.                                        *)
EXTENDS DataExchange

CONSTANTS Producer, Consumer

ASSUME ChannelAssumption ==
  Producer \in Task /\ Consumer \in Task /\ BoardOf(Producer) # BoardOf(Consumer)

Mine(pk) == pk.type = "frame" /\ pk.from = Producer /\ pk.to = Consumer

(* The frames in some packages' packets, and in a queue.                    *)
FramesOf(packets) == {content[pk.pkg] : pk \in {x \in packets : Mine(x)}}
FramesIn(q) == FramesOf({q[i] : i \in 1..Len(q)})

InTransit(b) ==
  IF phase[b] \in {"toSend", "send"} THEN FramesOf({cur[b]}) ELSE {}

(* The way of a frame, from its destination back to its origin.             *)
Flight ==
  LET b == BoardOf(Producer) IN
  FramesOf({hold[Consumer]}) \cup FramesIn(queue[Consumer])
    \cup InTransit(b) \cup FramesIn(queue[DX(b)])

(* Frames of the producer reach the consumer as through a lossy first-in    *)
(* first-out channel, until a data exchange task dispatches leftovers of an *)
(* earlier packet.  The consumer takes in other values, too.                *)
Channel == INSTANCE FrameChannel WITH
  latest <- made, flight <- Flight,
  received <- taken[Consumer][Producer] \cap Frame,
  broken <- stale # {}
ChannelImplemented == Channel!Spec
==============================================================================

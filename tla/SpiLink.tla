------------------------------ MODULE SpiLink ------------------------------
(***************************************************************************)
(* The SPI link between the controller board ("ctl", SPI master) and the   *)
(* spectrometer board ("spec", SPI slave): the Active/Passive indicator    *)
(* lines, the "?SNCTX" / "?SNCRX" intention handshake and the transfer of  *)
(* one packet by SPI_tx_packet / SPI_rx_packet of both boards.             *)
(*                                                                         *)
(* A packet is the sequence of characters that goes over the wire: two     *)
(* size bytes, the header, the data.  One action is one pass through a     *)
(* polling loop of the code, or one 16-bit exchange of the SPI hardware.   *)
(***************************************************************************)
EXTENDS Naturals, Sequences

CONSTANTS
  Packet,      \* the characters of a packet: size low, size high, header, data
  HeaderSize,  \* number of header characters (to, from, type)
  DataRoom,    \* sizeof(any_local_data_t): capacity of the receiver's buffer
  Timely,      \* TRUE: the slave's polling loop keeps up with the SPI clock
  Prompt       \* TRUE: no polling loop is held up for longer than a board
               \* pauses between two calls (5 ms on the spectrometer)

SyncChars == {"?", "S", "N", "C", "T", "R", "X"}
PacketChars == {Packet[i] : i \in 1..Len(Packet)}
\* "dummy" is txDummy, "nul" what a shift register holds after power up.
Chars == SyncChars \cup PacketChars \cup {"dummy", "nul"}
None == "none"

ASSUME PacketAssumption ==
  /\ Packet \in Seq(STRING)
  /\ HeaderSize \in Nat \ {0}
  /\ Len(Packet) > 2 + HeaderSize
  /\ None \notin PacketChars
  \* the buffer of the receiver is larger than the data of any packet
  /\ DataRoom \in Nat /\ DataRoom > Len(Packet) - 2 - HeaderSize
ASSUME TimingAssumption == Timely \in BOOLEAN /\ Prompt \in BOOLEAN

Boards == {"ctl", "spec"}
Other(b) == IF b = "ctl" THEN "spec" ELSE "ctl"
Roles == {"tx", "rx"}

BodySize == Len(Packet) - 2
\* A garbled size field: anything up to one more than fits the buffers.
AnySize == 0..(HeaderSize + DataRoom + 1)

SyncLen == 6
(* The strings "?SNCTX" and "?SNCRX", indexed from 0 as in the code. *)
Sync(role, i) ==
  CASE i = 0 -> "?" [] i = 1 -> "S" [] i = 2 -> "N" [] i = 3 -> "C"
    [] i = 4 -> (IF role = "tx" THEN "T" ELSE "R")
    [] OTHER -> "X"
\* mutant of Partner: the roles of the two boards are mixed up
PartnerIsAlike(role) == IF role = "tx" THEN "T" ELSE "R"
(* The intention letter that the other board must show. *)
Partner(role) == IF role = "tx" THEN "R" ELSE "T"

----------------------------------------------------------------------------
VARIABLES
  pc,      \* where each board is in its packet function, "idle" outside
  role,    \* "tx" in SPI_tx_packet, "rx" in SPI_rx_packet
  ind,     \* the indicator lines, TRUE is SPI_IND_Active
  inSync,  \* local variable in_sync
  moved,   \* characters of the current packet written (tx) or read (rx)
  left,    \* size.asValue of the receiver
  good,    \* the characters stored so far are those of the sent packet
  dummies, \* count_dummy_received > 0
  ret,     \* the last return value, by class
  mTdr, mRdr,       \* master transmit and receive data registers
  sOut, sRdr, sLast \* slave: queued output, receive register, last received

board == <<pc, role, ind, inSync, moved, left, good, dummies, ret>>
wire  == <<mTdr, mRdr, sOut, sRdr, sLast>>
vars  == <<board, wire>>

(* "enter" and "early" are the same place: a call is early when the other    *)
(* board has not seen the end of the last one.                              *)
PCs == {"idle", "enter", "early", "wait", "sync", "size", "header", "data", "drain"}
(* "ok" 0, "nocom" -1/-11/-21/-31, "conflict" -2, "timeout" -3 and -n3,     *)
(* "noresp" -5, "flagged" -37 and -1000-n, "count" the spectrometer's >= 0. *)
Returns == {"none", "ok", "nocom", "conflict", "timeout", "noresp",
            "flagged", "count"}

TypeOK ==
  /\ pc \in [Boards -> PCs]
  /\ role \in [Boards -> Roles]
  /\ ind \in [Boards -> BOOLEAN]
  /\ inSync \in [Boards -> 0..SyncLen]
  /\ moved \in [Boards -> 0..(2 + HeaderSize + DataRoom)]
  /\ left \in [Boards -> AnySize]
  /\ good \in [Boards -> BOOLEAN] /\ dummies \in BOOLEAN
  /\ ret \in [Boards -> Returns]
  /\ mTdr \in Chars \cup {None} /\ mRdr \in Chars \cup {None}
  /\ sOut \in Seq(Chars) /\ Len(sOut) <= 2
  /\ sRdr \in Chars \cup {None} /\ sLast \in Chars

Init ==
  /\ pc = [b \in Boards |-> "idle"]
  /\ role = [b \in Boards |-> "rx"]
  /\ ind = [b \in Boards |-> FALSE]
  /\ inSync = [b \in Boards |-> 0]
  /\ moved = [b \in Boards |-> 0]
  /\ left = [b \in Boards |-> 0]
  /\ good = [b \in Boards |-> TRUE] /\ dummies = FALSE
  /\ ret = [b \in Boards |-> "none"]
  /\ mTdr = None /\ mRdr = None
  /\ sOut = <<>> /\ sRdr = None /\ sLast = "nul"

----------------------------------------------------------------------------
(* The hardware *)

(* A timely spectrometer has read what the master sent, and has queued the  *)
(* answer, before the master clocks the next character.                     *)
SpecSettled ==
  /\ pc["spec"] = "sync" /\ sOut = <<>> => sRdr = None
  /\ role["spec"] = "rx" /\ pc["spec"] \in {"size", "header", "data"}
       => sRdr = None
  /\ role["spec"] = "tx" /\ pc["spec"] \in {"size", "header", "data"}
       => sOut # <<>>

(* Nothing more comes from the master until the slave does something.       *)
CtlSettled ==
  /\ mTdr = None
  /\ pc["ctl"] = "sync" => mRdr = None
  /\ role["ctl"] = "rx" /\ pc["ctl"] \in {"size", "header", "data"}
       => mRdr = None
  /\ ~(role["ctl"] = "tx" /\ pc["ctl"] \in {"size", "header", "data"})

(* One full-duplex exchange.  Unread characters are overwritten on both     *)
(* sides; a slave that queued nothing shifts out the last one it received.  *)
Clock ==
  /\ mTdr # None
  /\ Timely => SpecSettled
  /\ mRdr' = IF sOut # <<>> THEN Head(sOut) ELSE sLast
  /\ sOut' = IF sOut # <<>> THEN Tail(sOut) ELSE <<>>
  /\ sRdr' = mTdr
  /\ sLast' = mTdr
  /\ mTdr' = None
  /\ UNCHANGED board

(* spi_write on the slave gives up when shift and data register are full.   *)
SpecWrite(c) == sOut' = IF Len(sOut) < 2 THEN Append(sOut, c) ELSE sOut

(* spi_read on the slave waits until everything queued has been shifted     *)
(* out.  When that wait expires rxItem is left uninitialized and the        *)
(* character stays in the register.                                         *)
SpecRead(c) ==
  /\ sRdr # None
  /\ \/ sOut = <<>> /\ c = sRdr /\ sRdr' = None
     \/ sOut # <<>> /\ (Timely => CtlSettled) /\ UNCHANGED sRdr

----------------------------------------------------------------------------
(* Entering and leaving the packet functions *)

(* The data exchange loop saw the other board passive and calls tx, or saw  *)
(* it active and calls rx; the indicator is only raised one step later.     *)
Call(b, r) ==
  /\ pc[b] = "idle"
  /\ ind[Other(b)] = (r = "rx")
  /\ \/ /\ pc[Other(b)] \in {"idle", "enter", "early", "wait"}
        /\ pc' = [pc EXCEPT ![b] = "enter"]
     \/ /\ pc[Other(b)] \notin {"idle", "enter", "early", "wait"} /\ ~Prompt
        /\ pc' = [pc EXCEPT ![b] = "early"]
  /\ role' = [role EXCEPT ![b] = r]
  /\ UNCHANGED <<ind, inSync, moved, left, good, dummies, ret, wire>>

Return(b, r) ==
  /\ pc' = [pc EXCEPT ![b] = "idle"]
  /\ ind' = [ind EXCEPT ![b] = FALSE]
  /\ ret' = [ret EXCEPT ![b] = r]

(* First characters of the handshake: the master starts with sync[1], the   *)
(* slave offers sync[0].                                                    *)
StartSync(b) ==
  /\ pc' = [pc EXCEPT ![b] = "sync"]
  /\ inSync' = [inSync EXCEPT ![b] = IF b = "ctl" THEN 1 ELSE 0]
  /\ IF b = "ctl"
       THEN mTdr = None /\ mTdr' = Sync(role[b], 1) /\ UNCHANGED sOut
       ELSE SpecWrite(Sync(role[b], 0)) /\ UNCHANGED mTdr

(* SPI_clear_rx, raise the own indicator; a receiver starts at once.        *)
Enter(b) ==
  /\ pc[b] \in {"enter", "early"}
  /\ ind' = [ind EXCEPT ![b] = TRUE]
  /\ moved' = [moved EXCEPT ![b] = 0]
  /\ good' = [good EXCEPT ![b] = TRUE]
  /\ dummies' = (dummies /\ b # "ctl")
  /\ IF b = "ctl" THEN mRdr' = None /\ UNCHANGED sRdr
                  ELSE /\ sRdr' = IF sOut = <<>> THEN None ELSE sRdr
                       /\ UNCHANGED mRdr
  /\ IF role[b] = "rx"
       THEN StartSync(b)
       ELSE /\ pc' = [pc EXCEPT ![b] = "wait"]
            /\ UNCHANGED <<inSync, mTdr, sOut>>
  /\ UNCHANGED <<role, left, ret, sLast>>

(* The sender sees the other board active ...                               *)
WaitSeen(b) ==
  /\ pc[b] = "wait"
  /\ ind[Other(b)]
  /\ StartSync(b)
  /\ UNCHANGED <<role, ind, moved, left, good, dummies, ret, mRdr, sRdr, sLast>>

(* ... or gives up after 1000 ms.                                           *)
WaitExpired(b) ==
  /\ pc[b] = "wait"
  /\ ~ind[Other(b)]
  /\ Return(b, "noresp")
  /\ UNCHANGED <<role, inSync, moved, left, good, dummies, wire>>

----------------------------------------------------------------------------
(* The handshake *)

CtlSync ==
  LET k == inSync["ctl"]
      r == role["ctl"]
      asked == IF k = SyncLen - 1 THEN Partner(r) ELSE Sync(r, k - 1)
      agreed == mRdr = asked
      next == IF agreed THEN k + 1 ELSE IF k = SyncLen - 1 THEN k ELSE 1
      done == next = SyncLen
      conflict == k = SyncLen - 1 /\ ~agreed
  IN
  /\ pc["ctl"] = "sync"
  /\ ind["spec"]
  /\ mTdr = None /\ mRdr # None
  /\ mRdr' = None
  /\ inSync' = [inSync EXCEPT !["ctl"] = next]
  /\ mTdr' = CASE ~done -> Sync(r, next)
               [] done /\ r = "rx" -> "dummy"
               [] OTHER -> None
  /\ IF conflict THEN Return("ctl", "conflict")
     ELSE /\ pc' = [pc EXCEPT !["ctl"] = IF done THEN "size" ELSE "sync"]
          /\ UNCHANGED <<ind, ret>>
  /\ UNCHANGED <<role, moved, left, good, dummies, sOut, sRdr, sLast>>

\* mutant of AnswerSync: an answer after the last expected character
AnswerSyncAlways(r, next) == SpecWrite(Sync(r, next))

(* The next character of the string is queued while there is one to wait    *)
(* for.                                                                     *)
AnswerSync(r, next) ==
  IF next < SyncLen - 1 THEN SpecWrite(Sync(r, next)) ELSE UNCHANGED sOut

SpecSync ==
  /\ pc["spec"] = "sync"
  /\ ind["ctl"]
  /\ Len(sOut) < 2
  /\ \E c \in Chars :
       LET k == inSync["spec"]
           r == role["spec"]
           agreed == c = IF k = 3 THEN Partner(r) ELSE Sync(r, k + 1)
           next == IF agreed THEN k + 1 ELSE IF k = 3 THEN k ELSE 0
           done == next = SyncLen - 1
       IN
       /\ SpecRead(c)
       /\ inSync' = [inSync EXCEPT !["spec"] = next]
       /\ AnswerSync(r, next)
       /\ IF k = 3 /\ ~agreed THEN Return("spec", "conflict")
          ELSE /\ pc' = [pc EXCEPT !["spec"] = IF done THEN "size" ELSE "sync"]
               /\ UNCHANGED <<ind, ret>>
  /\ UNCHANGED <<role, moved, left, good, dummies, mTdr, mRdr, sLast>>

\* mutant of SyncLost: the handshake loop ignores the other indicator
SyncNeverLost(b) == FALSE /\ UNCHANGED vars

(* The other board dropped out during the handshake.                        *)
SyncLost(b) ==
  /\ pc[b] = "sync"
  /\ ~ind[Other(b)]
  /\ Return(b, "nocom")
  /\ UNCHANGED <<role, inSync, moved, left, good, dummies, wire>>

(* timeZero only counts while the transmit register is occupied.            *)
SpecSyncTimeout ==
  /\ pc["spec"] = "sync"
  /\ Len(sOut) = 2 /\ (Timely => CtlSettled)
  /\ Return("spec", "timeout")
  /\ UNCHANGED <<role, inSync, moved, left, good, dummies, wire>>

----------------------------------------------------------------------------
(* Sending *)

Sending(b) == role[b] = "tx" /\ pc[b] \in {"size", "header", "data"}
Receiving(b) == role[b] = "rx" /\ pc[b] \in {"size", "header", "data"}

(* The part of the packet that character i belongs to.                      *)
PartOf(i) == CASE i <= 2 -> "size"
               [] i > 2 /\ i <= 2 + HeaderSize -> "header"
               [] i > 2 + HeaderSize /\ i <= Len(Packet) -> "data"
               [] OTHER -> "drain"

SendChar(b) ==
  /\ Sending(b)
  /\ ind[Other(b)]
  /\ IF b = "ctl"
       THEN mTdr = None /\ mTdr' = Packet[moved[b] + 1] /\ UNCHANGED sOut
       ELSE /\ Len(sOut) < 2
            /\ sOut' = Append(sOut, Packet[moved[b] + 1])
            /\ UNCHANGED mTdr
  /\ moved' = [moved EXCEPT ![b] = @ + 1]
  /\ pc' = [pc EXCEPT ![b] = PartOf(moved[b] + 2)]
  /\ ret' = [ret EXCEPT ![b] = IF PartOf(moved[b] + 2) = "drain"
                                 THEN "ok" ELSE @]
  /\ UNCHANGED <<role, ind, inSync, left, good, dummies, mRdr, sRdr, sLast>>

(* The controller returns at once, the spectrometer through its drain loop. *)
CtlSendLost ==
  /\ Sending("ctl")
  /\ ~ind["spec"]
  /\ Return("ctl", "nocom")
  /\ UNCHANGED <<role, inSync, moved, left, good, dummies, wire>>

SpecSendFails ==
  /\ Sending("spec")
  /\ \/ ~ind["ctl"] /\ ret' = [ret EXCEPT !["spec"] = "nocom"]
     \/ /\ Len(sOut) = 2 /\ (Timely => CtlSettled)
        /\ ret' = [ret EXCEPT !["spec"] = "timeout"]
  /\ pc' = [pc EXCEPT !["spec"] = "drain"]
  /\ UNCHANGED <<role, ind, inSync, moved, left, good, dummies, wire>>

\* mutant of Drain: the sender returns without waiting
NoDrain(b) ==
  /\ pc[b] = "drain"
  /\ Return(b, ret[b])
  /\ UNCHANGED <<role, inSync, moved, left, good, dummies, wire>>

(* After the last character the sender waits for the other board to lower   *)
(* its indicator.  Again time only counts while the register is occupied.   *)
Drain(b) ==
  /\ pc[b] = "drain"
  /\ \/ ~ind[Other(b)] /\ Return(b, ret[b])
     \/ /\ b = "spec" /\ Len(sOut) = 2 /\ (Timely => CtlSettled)
        /\ Return(b, IF ret[b] = "ok" THEN "timeout" ELSE ret[b])
  /\ UNCHANGED <<role, inSync, moved, left, good, dummies, wire>>

----------------------------------------------------------------------------
(* Receiving *)

(* What remains to be read once both size bytes are in.                     *)
SizesOf(intact) == IF intact THEN {BodySize} ELSE AnySize

\* mutant of PhaseAfter: the size of the buffer is not looked at
PhaseAfterUnbounded(p, n, l) ==
  CASE n < 2 -> "size"
    [] n >= 2 /\ l = 0 -> "end"
    [] p # "data" /\ n >= 2 /\ n < 2 + HeaderSize /\ l > 0 -> "header"
    [] OTHER -> "data"

(* Where the receiving loops are after n characters with l still announced: *)
(* header until it is complete, data until the announced size or the buffer *)
(* is exhausted.                                                            *)
PhaseAfter(p, n, l) ==
  CASE n < 2 -> "size"
    [] n >= 2 /\ (l = 0 \/ n = 2 + HeaderSize + DataRoom) -> "end"
    [] p # "data" /\ n >= 2 /\ n < 2 + HeaderSize /\ l > 0 -> "header"
    [] OTHER -> "data"

(* The result of a transfer that ran to its end: a status on the            *)
(* controller, the number of characters on the spectrometer.                *)
Verdict(b, n, l, dummy) ==
  CASE b = "spec" -> "count"
    [] b = "ctl" /\ (l > 0 \/ n = 2 + HeaderSize + DataRoom \/ dummy)
         -> "flagged"
    [] OTHER -> "ok"

Receive(b, c) ==
  LET n == moved[b] + 1
      intact == good[b] /\ (n <= Len(Packet) => c = Packet[n])
      dummy == dummies \/ (b = "ctl" /\ c = "dummy")
  IN
  /\ Receiving(b)
  /\ ind[Other(b)]
  /\ moved' = [moved EXCEPT ![b] = n]
  /\ good' = [good EXCEPT ![b] = intact]
  /\ dummies' = dummy
  /\ \E l \in IF n < 2 THEN {0}
              ELSE IF n = 2 THEN SizesOf(intact) ELSE {left[b] - 1} :
       /\ left' = [left EXCEPT ![b] = l]
       /\ IF PhaseAfter(pc[b], n, l) = "end"
            THEN Return(b, Verdict(b, n, l, dummy))
            ELSE /\ pc' = [pc EXCEPT ![b] = PhaseAfter(pc[b], n, l)]
                 /\ UNCHANGED <<ind, ret>>
  /\ UNCHANGED <<role, inSync>>

(* Every character read is answered by a dummy, the one that clocks in the  *)
(* next character.                                                          *)
CtlReceive ==
  /\ mTdr = None /\ mRdr # None
  /\ Receive("ctl", mRdr)
  /\ mRdr' = None /\ mTdr' = "dummy"
  /\ UNCHANGED <<sOut, sRdr, sLast>>

SpecReceive ==
  /\ \E c \in Chars : SpecRead(c) /\ Receive("spec", c)
  /\ UNCHANGED <<mTdr, mRdr, sOut, sLast>>

ReceiveLost(b) ==
  /\ Receiving(b)
  /\ ~ind[Other(b)]
  /\ Return(b, IF b = "ctl" THEN "nocom" ELSE "count")
  /\ UNCHANGED <<role, inSync, moved, left, good, dummies, wire>>

(* Nothing arrives for 25000 polls.  The size loop and the header loop fall *)
(* through to the data loop, which restarts the count; after a time-out in  *)
(* the size loop size.asValue was never set.                                *)
SpecReceiveTimeout ==
  /\ Receiving("spec")
  /\ ind["ctl"] /\ sRdr = None
  /\ Timely => CtlSettled
  /\ IF pc["spec"] = "data"
       THEN Return("spec", "count") /\ UNCHANGED <<left, moved, good>>
       ELSE /\ \E l \in IF pc["spec"] = "size" THEN AnySize
                        ELSE {left["spec"]} :
                 /\ left' = [left EXCEPT !["spec"] = l]
                 /\ IF l = 0 THEN Return("spec", "count")
                    ELSE /\ pc' = [pc EXCEPT !["spec"] = "data"]
                         /\ UNCHANGED <<ind, ret>>
            /\ moved' = [moved EXCEPT !["spec"] = 2 + HeaderSize]
            /\ good' = [good EXCEPT !["spec"] = FALSE]
  /\ UNCHANGED <<role, inSync, dummies, wire>>

----------------------------------------------------------------------------
CtlStep ==
  \/ Enter("ctl") \/ WaitSeen("ctl") \/ WaitExpired("ctl")
  \/ CtlSync \/ SyncLost("ctl")
  \/ SendChar("ctl") \/ CtlSendLost \/ Drain("ctl")
  \/ CtlReceive \/ ReceiveLost("ctl")

SpecStep ==
  \/ Enter("spec") \/ WaitSeen("spec") \/ WaitExpired("spec")
  \/ SpecSync \/ SyncLost("spec") \/ SpecSyncTimeout
  \/ SendChar("spec") \/ SpecSendFails \/ Drain("spec")
  \/ SpecReceive \/ ReceiveLost("spec") \/ SpecReceiveTimeout

Next ==
  \/ Clock
  \/ \E b \in Boards, r \in Roles : Call(b, r)
  \/ CtlStep
  \/ SpecStep

(* Both loops poll without blocking, so do their own steps eventually; the  *)
(* hardware clocks what the master wrote; an idle board keeps looking at    *)
(* the indicator of the other.  Nothing obliges a board to send.            *)
Fairness ==
  /\ WF_vars(Clock)
  /\ WF_vars(CtlStep)
  /\ WF_vars(SpecStep)
  /\ \A b \in Boards : WF_vars(Call(b, "rx") /\ pc'[b] = "enter")

Spec == Init /\ [][Next]_vars
FairSpec == Spec /\ Fairness

----------------------------------------------------------------------------
(* Properties *)

InTransfer(b) == pc[b] \in {"size", "header", "data", "drain"}

(* Two boards that are both past the handshake never both send or both      *)
(* receive: the "T"/"R" letters of spi.controller.c and spi.spectrometer.c  *)
(* stop them, whatever was left in the registers by an aborted call and     *)
(* whatever characters the packet holds.  This needs a slave that keeps up  *)
(* (Timely): a late one takes uninitialized characters for the handshake,   *)
(* and a packet with "?SNC" and "R" in it then deceives the master.         *)
IntentionsAgree ==
  InTransfer("ctl") /\ InTransfer("spec") => role["ctl"] # role["spec"]

(* A receive call whose result the data exchange task takes for a packet:   *)
(* data_exchange.controller.c asks for at least the expected size, whatever *)
(* the status, data_exchange.spectrometer.c for exactly the expected size.  *)
Accepted(b) ==
  /\ pc[b] = "idle" /\ role[b] = "rx"
  /\ IF b = "ctl" THEN moved[b] >= Len(Packet) ELSE moved[b] = Len(Packet)

(* What a receiver accepts is the packet that was sent, complete and in     *)
(* order.                                                                   *)
DeliveredIntact == \A b \in Boards : Accepted(b) => good[b]

(* SPI_tx_packet returning success tells the sender that the other board    *)
(* really collected the packet: the drain loop waits for its indicator.     *)
SuccessMeansDelivered ==
  [][\A b \in Boards :
       pc[b] = "drain" /\ pc'[b] = "idle" /\ ret'[b] = "ok"
         => good[Other(b)] /\ moved[Other(b)] = Len(Packet)]_vars

Buffer == 2 + HeaderSize + DataRoom

(* The character that a loop is about to move exists: a sender has not sent *)
(* the last one, a receiver has room for another, also when the size was    *)
(* garbled or never set, a loop before timed out, or a slave that is late   *)
(* has taken leftovers for the handshake (SPI_tx_packet and SPI_rx_packet   *)
(* of both boards).                                                         *)
BuffersHold ==
  \A b \in Boards :
    /\ Sending(b) => moved[b] < Len(Packet)
    /\ Receiving(b) => moved[b] < Buffer

(* Every call of a packet function returns, whatever the other board        *)
(* intends at that moment, ...                                              *)
CallsReturn == \A b \in Boards : pc[b] \in {"enter", "early"} ~> pc[b] = "idle"

(* ... as long as no polling loop is held up for longer than a board pauses *)
(* between two calls.                                                       *)
PromptCallsReturn == [](\A b \in Boards : pc[b] # "early") => CallsReturn

(* The only way in which a call does not return: a sender in its drain loop *)
(* has missed the end of the receiver, which is back in its handshake loop. *)
OnlyAMissHangs ==
  \A b \in Boards :
    pc[b] \in {"enter", "early"}
      ~> \/ pc[b] = "idle"
         \/ \E c \in Boards : pc[c] = "drain" /\ pc[Other(c)] = "sync"
=============================================================================

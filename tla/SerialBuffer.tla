---------------------------- MODULE SerialBuffer ----------------------------
(***************************************************************************)
(* The buffer pair between a task and a serial port: pdmabuffer.c.         *)
(*                                                                         *)
(* Each direction is a ring.  On one side of it stands a task that writes  *)
(* or reads byte by byte, on the other the DMA controller, which moves     *)
(* bytes on its own until its count is 0 and then interrupts; the handler  *)
(* gives it the next stretch of the ring.  The task can be interrupted     *)
(* between any two of its steps and masks the interrupt only while it      *)
(* updates freeSpace.  An interrupt that is pending keeps the task from    *)
(* running.  The rings share no state, so that each is followed alone.     *)
(*                                                                         *)
(* A byte is the number of its place in the stream, modulo Numbers.        *)
(***************************************************************************)
EXTENDS Integers, FiniteSetsExt

CONSTANTS
  TxLen,    \* sizes of the rings
  RxLen,
  Numbers,  \* the numbers of the bytes; more than either ring holds
  Lengths   \* how many bytes a task asks to write or to read

ASSUME LengthAssumption ==
  /\ TxLen \in Nat /\ TxLen > 1 /\ RxLen \in Nat /\ RxLen > 1
  /\ Numbers \in Nat /\ Numbers > TxLen /\ Numbers > RxLen
  /\ Lengths \subseteq Nat \ {0}

VARIABLES
  direction,  \* the ring that is followed; it does not change
  \* transmission: the structure, the channel, the task
  txBuffer, freeSpace, lastTransferLen, writeP,
  txMar, txTcr,     \* memory address and transfer counter of the PDCA channel
  txInterrupt,      \* the interrupt of the channel is enabled
  toWrite, written, \* local variables of pdma_writeBuffer; toWrite = 0: not in it
  nextByte,         \* the next byte that is written
  sent,             \* the next byte that is due at the peripheral
  ahead,            \* history: the transfer holds bytes that are not accounted for
  preempted,        \* history: such a transfer has ended, and the write has not
  \* reception
  rxBuffer, readP,
  rxMar, rxTcr,
  reader,           \* place in readBuffer or pdma_flushReadBuffer
  rPTemp, toRead,   \* their local variables; toRead counts down
  arriving,         \* the next byte from the peripheral
  expected,         \* the oldest byte that is neither read nor overwritten
  torn              \* history: a byte was overwritten during a read or a flush

txStructure == <<txBuffer, freeSpace, lastTransferLen, writeP>>
txTask == <<toWrite, written, nextByte>>
txVars == <<txStructure, txMar, txTcr, txInterrupt, txTask, sent, ahead, preempted>>
rxVars == <<rxBuffer, readP, rxMar, rxTcr, reader, rPTemp, toRead, arriving, expected, torn>>
vars == <<direction, txVars, rxVars>>

Following(byte) == (byte + 1) % Numbers

(* pdma_newBuffer: nothing to transfer, and the interrupts are enabled. *)
Init ==
  /\ direction \in {"TX", "RX"}
  /\ txBuffer = [i \in 0 .. TxLen - 1 |-> 0] /\ freeSpace = TxLen
  /\ lastTransferLen = 0 /\ writeP = 0
  /\ txMar = 0 /\ txTcr = 0 /\ txInterrupt = TRUE
  /\ toWrite = 0 /\ written = 0 /\ nextByte = 0 /\ sent = 0
  /\ ahead = FALSE /\ preempted = FALSE
  /\ rxBuffer = [i \in 0 .. RxLen - 1 |-> 0] /\ readP = 0
  /\ rxMar = 0 /\ rxTcr = 0
  /\ reader = "idle" /\ rPTemp = 0 /\ toRead = 0
  /\ arriving = 0 /\ expected = 0 /\ torn = FALSE

(* A transfer count of 0 is a level: the interrupt stays pending. *)
TxPending == txInterrupt /\ txTcr = 0
RxPending == rxTcr = 0

----------------------------------------------------------------------------
(* Transmission: the task *)

(* A full ring would look like an empty one. *)
Room == freeSpace - 1

(* pdma_writeBuffer takes what fits.  With no room it returns 0, and the   *)
(* caller tries again.                                                     *)
BeginWrite(dataLen) ==
  /\ ~TxPending /\ toWrite = 0
  /\ toWrite' = Min({Room, dataLen}) /\ toWrite' > 0
  /\ written' = 0
  /\ UNCHANGED <<txStructure, txMar, txTcr, txInterrupt, nextByte, sent, ahead,
                 preempted>>

Write ==
  /\ ~TxPending /\ written < toWrite
  /\ txBuffer' = [txBuffer EXCEPT ![writeP] = nextByte]
  /\ writeP' = (writeP + 1) % TxLen
  /\ written' = written + 1
  /\ nextByte' = Following(nextByte)
  /\ UNCHANGED <<freeSpace, lastTransferLen, txMar, txTcr, txInterrupt, toWrite, sent,
                 ahead, preempted>>

(* The critical section of pdma_writeBuffer. *)
Account ==
  /\ ~TxPending /\ toWrite > 0 /\ written = toWrite
  /\ freeSpace' = freeSpace - written
  /\ txInterrupt' = TRUE
  /\ toWrite' = 0 /\ written' = 0
  /\ ahead' = FALSE /\ preempted' = FALSE
  /\ UNCHANGED <<txBuffer, lastTransferLen, writeP, txMar, txTcr, nextByte, sent,
                 rxVars>>

(* Transmission: the controller and its interrupt *)

Transmit ==
  /\ txTcr > 0
  /\ txTcr' = txTcr - 1 /\ txMar' = txMar + 1
  /\ sent' = Following(sent)
  /\ preempted' = (preempted \/ (ahead /\ txTcr = 1))
  /\ UNCHANGED <<txStructure, txInterrupt, txTask, ahead>>

(* setNewTxTransfer: from the end of the last transfer to what was written *)
(* last or to the end of the ring.                                         *)
MarOff == txMar % TxLen

\* mutant of FillCnt: the ring does not wrap
FillCntUnwrapped == IF writeP >= MarOff THEN writeP - MarOff ELSE 0

FillCnt == (writeP - MarOff + TxLen) % TxLen

NewTransfer ==
  IF MarOff + FillCnt >= TxLen THEN FillCnt - ((MarOff + FillCnt) % TxLen) ELSE FillCnt

Freed == freeSpace + lastTransferLen

\* mutant of txHandler: the bytes of a transfer are free when it begins
txHandlerFreesEarly ==
  /\ TxPending
  /\ lastTransferLen' = NewTransfer
  /\ freeSpace' = freeSpace + NewTransfer
  /\ txInterrupt' = (NewTransfer > 0)
  /\ txMar' = MarOff /\ txTcr' = NewTransfer
  /\ ahead' = (written > 0)
  /\ UNCHANGED <<txBuffer, writeP, txTask, sent, preempted>>

\* mutant of txHandler: lastTransferLen stays when the ring is empty
txHandlerKeeps ==
  /\ TxPending
  /\ freeSpace' = Freed
  /\ IF Freed = TxLen
     THEN txInterrupt' = FALSE /\ UNCHANGED <<lastTransferLen, txMar, txTcr, ahead>>
     ELSE /\ lastTransferLen' = NewTransfer
          /\ txMar' = MarOff /\ txTcr' = NewTransfer
          /\ ahead' = (written > 0)
          /\ UNCHANGED txInterrupt
  /\ UNCHANGED <<txBuffer, writeP, txTask, sent, preempted>>

txHandler ==
  /\ TxPending
  /\ freeSpace' = Freed
  /\ IF Freed = TxLen
     THEN /\ lastTransferLen' = 0
          /\ txInterrupt' = FALSE
          /\ UNCHANGED <<txMar, txTcr, ahead>>
     ELSE /\ lastTransferLen' = NewTransfer
          /\ txMar' = MarOff /\ txTcr' = NewTransfer
          /\ ahead' = (written > 0)
          /\ UNCHANGED txInterrupt
  /\ UNCHANGED <<txBuffer, writeP, txTask, sent, preempted>>

----------------------------------------------------------------------------
(* Reception: the controller and its interrupt *)

Arrive ==
  /\ rxTcr > 0
  /\ rxBuffer' = [rxBuffer EXCEPT ![rxMar] = arriving]
  /\ rxMar' = rxMar + 1 /\ rxTcr' = rxTcr - 1
  /\ arriving' = Following(arriving)
  /\ UNCHANGED <<readP, reader, rPTemp, toRead, expected, torn>>

Mar == rxMar % RxLen

\* mutant of Reach: the whole ring when the reader is at its beginning
ReachAll == IF Mar < readP THEN readP - Mar - 1 ELSE RxLen - Mar

\* mutant of Reach: one place too few at the end of the ring
ReachShort == IF Mar < readP THEN readP - Mar - 1 ELSE RxLen - Mar - 1

(* How far the controller may go without catching up with the reader. *)
Reach ==
  IF Mar < readP THEN readP - Mar - 1
  ELSE RxLen - Mar - (IF readP = 0 THEN 1 ELSE 0)

(* A full ring gives up its oldest byte for a new one. *)
rxHandler ==
  /\ RxPending
  /\ rxMar' = Mar
  /\ IF Reach = 0
     THEN /\ readP' = (readP + 1) % RxLen
          /\ rxTcr' = 1
          /\ expected' = Following(expected)
          /\ torn' = (torn \/ reader # "idle")
     ELSE rxTcr' = Reach /\ UNCHANGED <<readP, expected, torn>>
  /\ UNCHANGED <<rxBuffer, reader, rPTemp, toRead, arriving>>

(* Reception: the task *)

\* readBuffer and pdma_flushReadBuffer begin with the read pointer ...
BeginRead(place) ==
  /\ ~RxPending /\ reader = "idle"
  /\ reader' = place /\ rPTemp' = readP
  /\ UNCHANGED <<rxBuffer, readP, rxMar, rxTcr, toRead, arriving, expected, torn>>

\* ... and then look where the controller is.
Look(readLen) ==
  /\ ~RxPending /\ reader = "look"
  /\ toRead' = Min({readLen, (Mar - rPTemp + RxLen) % RxLen})
  /\ reader' = IF toRead' = 0 THEN "idle" ELSE "read"
  /\ UNCHANGED <<rxBuffer, readP, rxMar, rxTcr, rPTemp, arriving, expected, torn>>

(* The byte rxBuffer[rPTemp] goes to the caller. *)
Read ==
  /\ ~RxPending /\ reader = "read" /\ toRead > 0
  /\ rPTemp' = (rPTemp + 1) % RxLen /\ toRead' = toRead - 1
  /\ expected' = Following(expected)
  /\ UNCHANGED <<rxBuffer, readP, rxMar, rxTcr, reader, arriving, torn>>

(* A peek leaves the read pointer: the bytes are still to be read. *)
EndRead ==
  /\ ~RxPending /\ reader = "read" /\ toRead = 0
  /\ readP' = rPTemp
  /\ reader' = "idle"
  /\ UNCHANGED <<rxBuffer, rxMar, rxTcr, rPTemp, toRead, arriving, expected, torn>>

(* pdma_flushReadBuffer drops what has arrived when it looks. *)
LookToFlush ==
  /\ ~RxPending /\ reader = "lookToFlush"
  /\ rPTemp' = Mar /\ reader' = "flush"
  /\ expected' = arriving
  /\ UNCHANGED <<rxBuffer, readP, rxMar, rxTcr, toRead, arriving, torn>>

Flush ==
  /\ ~RxPending /\ reader = "flush"
  /\ readP' = rPTemp
  /\ reader' = "idle"
  /\ UNCHANGED <<rxBuffer, rxMar, rxTcr, rPTemp, toRead, arriving, expected, torn>>

----------------------------------------------------------------------------

TxNext ==
  \/ \E n \in Lengths : BeginWrite(n)
  \/ Write \/ Account \/ Transmit \/ txHandler

RxNext ==
  \/ \E place \in {"look", "lookToFlush"} : BeginRead(place)
  \/ \E n \in Lengths : Look(n)
  \/ Read \/ EndRead \/ LookToFlush \/ Flush \/ Arrive \/ rxHandler

Next ==
  /\ \/ direction = "TX" /\ TxNext /\ UNCHANGED rxVars
     \/ direction = "RX" /\ RxNext /\ UNCHANGED txVars
  /\ UNCHANGED direction

(* The controller and the handler do not rest, and a task that has begun   *)
(* to write goes on when it can.                                           *)
Fairness ==
  /\ direction = "TX" => WF_txVars(Transmit) /\ WF_txVars(txHandler)
  /\ direction = "TX" => SF_txVars(Write) /\ SF_txVars(Account)

Spec == Init /\ [][Next]_vars
FairSpec == Spec /\ Fairness

----------------------------------------------------------------------------
(* Properties *)

TypeOK ==
  /\ txBuffer \in [0 .. TxLen - 1 -> 0 .. Numbers - 1]
  /\ freeSpace \in 1 .. 2 * TxLen - 1 /\ lastTransferLen \in 0 .. TxLen - 1
  /\ writeP \in 0 .. TxLen - 1
  /\ txMar \in 0 .. TxLen /\ txTcr \in 0 .. lastTransferLen /\ txInterrupt \in BOOLEAN
  /\ toWrite \in 0 .. TxLen - 1 /\ written \in 0 .. toWrite
  /\ nextByte \in 0 .. Numbers - 1 /\ sent \in 0 .. Numbers - 1
  /\ ahead \in BOOLEAN /\ preempted \in BOOLEAN
  /\ rxBuffer \in [0 .. RxLen - 1 -> 0 .. Numbers - 1]
  /\ readP \in 0 .. RxLen - 1
  /\ rxMar \in 0 .. RxLen /\ rxTcr \in 0 .. RxLen - 1
  /\ reader \in {"idle", "look", "read", "lookToFlush", "flush"}
  /\ rPTemp \in 0 .. RxLen - 1 /\ toRead \in 0 .. RxLen - 1
  /\ arriving \in 0 .. Numbers - 1 /\ expected \in 0 .. Numbers - 1 /\ torn \in BOOLEAN

(* The peripheral is given the bytes in the order in which they were       *)
(* written, each of them once: no byte is overwritten before it is sent,   *)
(* although the handler may take up bytes of a write that is under way.    *)
SentInOrder ==
  txTcr > 0 => /\ txMar < TxLen /\ txBuffer[txMar] = sent
               /\ txTcr <= (nextByte - sent + Numbers) % Numbers

(* The handler disables its interrupt when there is nothing to send, so    *)
(* that it does not run forever and keep every task from running, unless a *)
(* task that writes was held up, between its last byte and the update of   *)
(* freeSpace, for as long as a transfer with bytes of that write takes.    *)
Storm ==
  TxPending /\ lastTransferLen = 0 /\ freeSpace # TxLen /\ FillCnt = 0
NoStorm == Storm => preempted

(* The reader gets the bytes in the order in which they came, and misses   *)
(* only those that were overwritten in a full ring, unless one has been    *)
(* overwritten during a read or a flush.                                   *)
ReadInOrder ==
  reader = "read" /\ toRead > 0 /\ ~torn => rxBuffer[rPTemp] = expected

(* A byte is overwritten only when the ring holds all that it can hold.    *)
OverwritesWhenFull ==
  [][rxHandler /\ readP' # readP /\ reader = "idle" /\ ~torn =>
       (arriving - expected + Numbers) % Numbers = RxLen - 1]_vars

(* Every byte that was written is sent, without another write to push it,  *)
(* unless the handler runs forever.                                        *)
EverythingSent ==
  \A k \in 0 .. Numbers - 1 : nextByte = k ~> sent = k \/ preempted
=============================================================================

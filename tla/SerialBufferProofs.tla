------------------------- MODULE SerialBufferProofs -------------------------
(* Proofs about SerialBuffer for rings of any size, any numbers of the      *)
(* bytes and any lengths that a task asks for.                              *)
(*                                                                          *)
(* The positions of a ring are sums modulo its size.  The proofs replace    *)
(* them by case distinctions, Forward and Between, and follow the stretch   *)
(* of the ring that holds bytes, Holds; that much serves both directions.   *)
EXTENDS SerialBuffer, TLAPS

(* The place that is i places on from place a, in a ring of n places.       *)
Forward(a, i, n) == IF a + i < n THEN a + i ELSE a + i - n

(* How far it is from place a on to place b.                                *)
Between(a, b, n) == IF a <= b THEN b - a ELSE b - a + n

(* From place "from" on the ring holds "count" bytes, the numbers from      *)
(* "first" on.                                                              *)
Holds(ring, n, from, count, first) ==
  \A i \in 0 .. count - 1 : ring[Forward(from, i, n)] = Forward(first, i, Numbers)

----------------------------------------------------------------------------
(* The inductive invariant of transmission *)

TxTypeOK ==
  /\ txBuffer \in [0 .. TxLen - 1 -> 0 .. Numbers - 1]
  /\ freeSpace \in 1 .. 2 * TxLen - 1 /\ lastTransferLen \in 0 .. TxLen - 1
  /\ writeP \in 0 .. TxLen - 1
  /\ txMar \in 0 .. TxLen /\ txTcr \in 0 .. lastTransferLen /\ txInterrupt \in BOOLEAN
  /\ toWrite \in 0 .. TxLen - 1 /\ written \in 0 .. toWrite
  /\ nextByte \in 0 .. Numbers - 1 /\ sent \in 0 .. Numbers - 1
  /\ ahead \in BOOLEAN /\ preempted \in BOOLEAN

(* Every place of the ring is free, holds a byte that is accounted for or   *)
(* one of the write under way, or belongs to the part of the transfer that  *)
(* is over and not yet free again.                                          *)
Balanced == freeSpace + lastTransferLen - txTcr = TxLen - FillCnt + written

(* A write never takes more than there is room for, however much the        *)
(* handler frees in the meantime.                                           *)
WriteFits == toWrite > 0 => toWrite < freeSpace

(* A transfer stays in the ring, and sends nothing but what was written.    *)
TransferFits == txMar + txTcr <= TxLen /\ txTcr <= FillCnt

TxHolds ==
  /\ nextByte = Forward(sent, FillCnt, Numbers)
  /\ Holds(txBuffer, TxLen, MarOff, FillCnt, sent)

(* When the transfers have taken bytes of a write that is not accounted     *)
(* for, the history variables say so.                                       *)
AheadIsKnown ==
  FillCnt - txTcr < written => preempted \/ (txTcr > 0 /\ ahead)

TxInv == TxTypeOK /\ Balanced /\ WriteFits /\ TransferFits /\ TxHolds /\ AheadIsKnown

----------------------------------------------------------------------------
(* The inductive invariant of reception *)

RxTypeOK ==
  /\ rxBuffer \in [0 .. RxLen - 1 -> 0 .. Numbers - 1]
  /\ readP \in 0 .. RxLen - 1
  /\ rxMar \in 0 .. RxLen /\ rxTcr \in 0 .. RxLen - 1
  /\ reader \in {"idle", "look", "read", "lookToFlush", "flush"}
  /\ rPTemp \in 0 .. RxLen - 1 /\ toRead \in 0 .. RxLen - 1
  /\ arriving \in 0 .. Numbers - 1 /\ expected \in 0 .. Numbers - 1 /\ torn \in BOOLEAN

(* The controller writes inside the ring.                                   *)
StretchFits == rxMar + rxTcr <= RxLen

(* The place of the byte that is read next: the read pointer follows only   *)
(* when a read or a flush ends.                                             *)
Oldest == IF reader \in {"read", "flush"} THEN rPTemp ELSE readP

Stored == Between(readP, Mar, RxLen)
Unread == Between(Oldest, Mar, RxLen)

(* The controller does not catch up with the read pointer.                  *)
KeepsAway == Stored + rxTcr <= RxLen - 1

(* The reader is between the read pointer and the controller.               *)
ReaderBetween ==
  /\ reader = "look" => rPTemp = readP
  /\ Unread <= Stored
  /\ reader = "read" => toRead <= Unread

RxHolds ==
  /\ arriving = Forward(expected, Unread, Numbers)
  /\ Holds(rxBuffer, RxLen, Oldest, Unread, expected)

(* Once a byte was overwritten under a reader, only that much is left: the  *)
(* reader sets the read pointer back, and the controller may overtake it.   *)
RxInv == RxTypeOK /\ StretchFits /\ (~torn => KeepsAway /\ ReaderBetween /\ RxHolds)

IInv == TxInv /\ RxInv

----------------------------------------------------------------------------
(* Lemmas about positions *)

LEMMA Modulo ==
  \A n, a \in Nat : n > 0 /\ a < n + n => a % n = IF a < n THEN a ELSE a - n
<1> SUFFICES ASSUME NEW n \in Nat, n > 0, NEW a \in Nat, a < n + n
             PROVE  a % n = IF a < n THEN a ELSE a - n
  OBVIOUS
<1>1. CASE a < n
  BY <1>1
<1>2. CASE n <= a
  BY <1>2
<1> QED BY <1>1, <1>2

LEMMA ForwardModulo ==
  \A n, a, i \in Nat : a < n /\ i <= n =>
    (a + i) % n = Forward(a, i, n) /\ Forward(a, i, n) \in 0 .. n - 1
<1> SUFFICES ASSUME NEW n \in Nat, NEW a \in Nat, NEW i \in Nat, a < n, i <= n
             PROVE  /\ (a + i) % n = Forward(a, i, n)
                    /\ Forward(a, i, n) \in 0 .. n - 1
  OBVIOUS
<1>1. a + i \in Nat /\ a + i < n + n
  OBVIOUS
<1>2. (a + i) % n = IF a + i < n THEN a + i ELSE a + i - n
  BY <1>1, Modulo
<1> QED BY <1>2 DEF Forward

LEMMA BetweenModulo ==
  \A n, a, b \in Nat : a < n /\ b < n =>
    (b - a + n) % n = Between(a, b, n) /\ Between(a, b, n) \in 0 .. n - 1
<1> SUFFICES ASSUME NEW n \in Nat, NEW a \in Nat, NEW b \in Nat, a < n, b < n
             PROVE  /\ (b - a + n) % n = Between(a, b, n)
                    /\ Between(a, b, n) \in 0 .. n - 1
  OBVIOUS
<1>1. b - a + n \in Nat /\ b - a + n < n + n
  OBVIOUS
<1>2. (b - a + n) % n = IF b - a + n < n THEN b - a + n ELSE b - a + n - n
  BY <1>1, Modulo
<1> QED BY <1>2 DEF Between

(* Going on from a as far as b is away leads to b, and the other way round. *)
LEMMA ThereAndBack ==
  ASSUME NEW n \in Nat, n > 0, NEW a \in 0 .. n - 1
  PROVE  /\ \A b \in 0 .. n - 1 : Forward(a, Between(a, b, n), n) = b
         /\ \A i \in 0 .. n - 1 : Between(a, Forward(a, i, n), n) = i
BY DEF Forward, Between

(* One step on at the far end, and one at the near end.                     *)
LEMMA StepOn ==
  ASSUME NEW n \in Nat, n > 1, NEW a \in 0 .. n - 1, NEW b \in 0 .. n - 1
  PROVE  /\ Between(a, b, n) < n - 1 =>
              Between(a, Forward(b, 1, n), n) = Between(a, b, n) + 1
         /\ Between(a, b, n) > 0 =>
              Between(Forward(a, 1, n), b, n) = Between(a, b, n) - 1
         /\ Between(a, b, n) = 0 => b = a
BY DEF Forward, Between

(* A number that follows the last of a stretch, and the stretch without its *)
(* first.                                                                   *)
LEMMA ForwardOn ==
  ASSUME NEW n \in Nat, n > 1, NEW a \in 0 .. n - 1, NEW i \in 0 .. n - 2
  PROVE  /\ Forward(Forward(a, i, n), 1, n) = Forward(a, i + 1, n)
         /\ Forward(Forward(a, 1, n), i, n) = Forward(a, i + 1, n)
BY DEF Forward

LEMMA Next1 ==
  ASSUME NEW b \in 0 .. Numbers - 1
  PROVE  Following(b) = Forward(b, 1, Numbers) /\ Following(b) \in 0 .. Numbers - 1
BY LengthAssumption, ForwardModulo DEF Following

(* A stretch grows by a byte behind its last one ...                        *)
LEMMA HoldsMore ==
  ASSUME NEW n \in Nat, n > 1, n < Numbers,
         NEW ring \in [0 .. n - 1 -> 0 .. Numbers - 1],
         NEW from \in 0 .. n - 1, NEW count \in 0 .. n - 2,
         NEW first \in 0 .. Numbers - 1,
         NEW place, place = Forward(from, count, n),
         NEW byte, byte = Forward(first, count, Numbers),
         Holds(ring, n, from, count, first)
  PROVE  Holds([ring EXCEPT ![place] = byte], n, from, count + 1, first)
<1> DEFINE longer == [ring EXCEPT ![place] = byte]
<1> SUFFICES ASSUME NEW i \in 0 .. count + 1 - 1
             PROVE  longer[Forward(from, i, n)] = Forward(first, i, Numbers)
  BY DEF Holds
<1>1. place \in 0 .. n - 1 /\ Forward(from, i, n) \in 0 .. n - 1
  BY DEF Forward
<1>2. CASE i = count
  BY <1>1, <1>2
<1>3. CASE i < count
  <2>1. Forward(from, i, n) # place
    BY <1>3 DEF Forward
  <2>2. ring[Forward(from, i, n)] = Forward(first, i, Numbers)
    BY <1>3 DEF Holds
  <2> QED BY <1>1, <2>1, <2>2
<1> QED BY <1>2, <1>3

(* ... and loses its first one.                                             *)
LEMMA HoldsLess ==
  ASSUME NEW n \in Nat, n > 1, n < Numbers, NEW ring,
         NEW from \in 0 .. n - 1, NEW count \in 1 .. n - 1,
         NEW first \in 0 .. Numbers - 1,
         Holds(ring, n, from, count, first)
  PROVE  /\ ring[from] = first
         /\ Holds(ring, n, Forward(from, 1, n), count - 1, Forward(first, 1, Numbers))
<1>1. ring[from] = first
  <2>1. 0 \in 0 .. count - 1
    OBVIOUS
  <2>2. Forward(from, 0, n) = from /\ Forward(first, 0, Numbers) = first
    BY LengthAssumption DEF Forward
  <2> QED BY <2>1, <2>2 DEF Holds
<1>2. ASSUME NEW i \in 0 .. count - 2
      PROVE  ring[Forward(Forward(from, 1, n), i, n)]
               = Forward(Forward(first, 1, Numbers), i, Numbers)
  <2>1. i + 1 \in 0 .. count - 1 /\ i \in 0 .. n - 2 /\ i \in 0 .. Numbers - 2
        /\ Numbers \in Nat /\ Numbers > 1
    BY LengthAssumption
  <2>2. ring[Forward(from, i + 1, n)] = Forward(first, i + 1, Numbers)
    BY <2>1 DEF Holds
  <2> QED BY <2>1, <2>2, ForwardOn
<1> QED BY <1>1, <1>2 DEF Holds

(* The smaller of two numbers.                                              *)
LEMMA MinOfTwo ==
  ASSUME NEW a \in Int, NEW b \in Int
  PROVE  Min({a, b}) = IF a <= b THEN a ELSE b
<1> DEFINE m == IF a <= b THEN a ELSE b
<1>1. m \in {a, b} /\ \A y \in {a, b} : m <= y
  OBVIOUS
<1>2. \A x \in {a, b} : (\A y \in {a, b} : x <= y) => x = m
  OBVIOUS
<1> QED BY <1>1, <1>2 DEF Min

----------------------------------------------------------------------------
(* Transmission *)

LEMMA Sizes ==
  /\ TxLen \in Nat /\ TxLen > 1 /\ RxLen \in Nat /\ RxLen > 1
  /\ Numbers \in Nat /\ Numbers > TxLen /\ Numbers > RxLen
BY LengthAssumption

(* The sums of the code, as case distinctions.                              *)
TxPlaces ==
  /\ MarOff = (IF txMar = TxLen THEN 0 ELSE txMar)
  /\ FillCnt = Between(MarOff, writeP, TxLen)
TxRanges == MarOff \in 0 .. TxLen - 1 /\ FillCnt \in 0 .. TxLen - 1

LEMMA TxPlace == TxTypeOK => TxPlaces /\ TxRanges
<1> SUFFICES ASSUME TxTypeOK PROVE TxPlaces /\ TxRanges
  OBVIOUS
<1>1. MarOff = (IF txMar = TxLen THEN 0 ELSE txMar)
  <2>1. txMar \in Nat /\ txMar <= TxLen /\ txMar < TxLen + TxLen
    BY Sizes DEF TxTypeOK
  <2>2. txMar % TxLen = IF txMar < TxLen THEN txMar ELSE txMar - TxLen
    BY <2>1, Sizes, Modulo
  <2> QED BY <2>1, <2>2, Sizes DEF MarOff
<1>2. MarOff \in 0 .. TxLen - 1
  BY <1>1, Sizes DEF TxTypeOK
<1>3. writeP \in 0 .. TxLen - 1
  BY DEF TxTypeOK
<1>4. FillCnt = Between(MarOff, writeP, TxLen) /\ FillCnt \in 0 .. TxLen - 1
  BY <1>2, <1>3, Sizes, BetweenModulo DEF FillCnt
<1> QED BY <1>1, <1>2, <1>4 DEF TxPlaces, TxRanges

LEMMA TxPlaceNext == TxTypeOK' => (TxPlaces /\ TxRanges)'
BY TxPlace, PTL

(* A transfer reaches to the end of what was written or to the end of the   *)
(* ring.                                                                    *)
LEMMA TransferLength ==
  TxTypeOK => NewTransfer \in 0 .. FillCnt /\ MarOff + NewTransfer <= TxLen
<1> SUFFICES ASSUME TxTypeOK
             PROVE  NewTransfer \in 0 .. FillCnt /\ MarOff + NewTransfer <= TxLen
  OBVIOUS
<1>1. MarOff \in 0 .. TxLen - 1 /\ FillCnt \in 0 .. TxLen - 1
  BY TxPlace DEF TxRanges
<1>2. CASE MarOff + FillCnt < TxLen
  <2>1. NewTransfer = FillCnt
    BY <1>1, <1>2, Sizes DEF NewTransfer
  <2> QED BY <1>1, <1>2, <2>1, Sizes
<1>3. CASE MarOff + FillCnt >= TxLen
  <2>1. (MarOff + FillCnt) % TxLen = MarOff + FillCnt - TxLen
    BY <1>1, <1>3, Sizes, Modulo
  <2>2. NewTransfer = TxLen - MarOff
    BY <1>1, <1>3, <2>1, Sizes DEF NewTransfer
  <2> QED BY <1>1, <1>3, <2>2, Sizes
<1> QED BY <1>1, <1>2, <1>3, Sizes

LEMMA TxInitially == Init => TxInv
<1> SUFFICES ASSUME Init PROVE TxInv
  OBVIOUS
<1>1. 0 \in 0 .. TxLen - 1 /\ 0 \in 0 .. Numbers - 1 /\ TxLen \in 1 .. 2 * TxLen - 1
      /\ 0 \in 0 .. TxLen /\ 0 \in 0 .. 0
  BY Sizes
<1>2. TxTypeOK
  BY <1>1 DEF Init, TxTypeOK
<1>3. MarOff = 0 /\ FillCnt = 0
  BY <1>2, Sizes, TxPlace DEF TxPlaces, Init, Between
<1>4. TxHolds
  BY <1>3, Sizes DEF Init, TxHolds, Holds, Forward
<1> QED BY <1>2, <1>3, <1>4, Sizes
        DEF Init, TxInv, Balanced, WriteFits, TransferFits, AheadIsKnown

LEMMA TxUnchanged == TxInv /\ UNCHANGED txVars => TxInv'
BY DEF TxInv, TxTypeOK, Balanced, WriteFits, TransferFits, TxHolds, AheadIsKnown,
       Holds, FillCnt, MarOff, txVars, txStructure, txTask

(* Steps that move neither the write nor the transfer.                      *)
RingUnchanged == txBuffer' = txBuffer /\ FillCnt' = FillCnt /\ MarOff' = MarOff
                 /\ sent' = sent /\ nextByte' = nextByte

LEMMA SameRing == TxHolds /\ RingUnchanged => TxHolds'
BY DEF TxHolds, RingUnchanged, Holds

LEMMA TxBeginWrite ==
  ASSUME TxInv, NEW len \in Lengths, BeginWrite(len)
  PROVE  TxInv'
<1>1. TxTypeOK /\ Balanced /\ TransferFits /\ TxHolds /\ AheadIsKnown
  BY DEF TxInv
<1>2. len \in Nat /\ len > 0
  BY LengthAssumption
<1>3. freeSpace - 1 \in Int
  BY <1>1 DEF TxTypeOK
<1>4. toWrite' = IF freeSpace - 1 <= len THEN freeSpace - 1 ELSE len
  BY <1>2, <1>3, MinOfTwo DEF BeginWrite, Room
<1>5. toWrite = 0 /\ written = 0 /\ toWrite' > 0 /\ written' = 0
  BY <1>1 DEF BeginWrite, TxTypeOK
<1>6. freeSpace <= TxLen
  BY <1>1, <1>5, Sizes, TxPlace DEF TxRanges, Balanced, TxTypeOK
<1>7. toWrite' \in 1 .. TxLen - 1 /\ toWrite' < freeSpace
  BY <1>1, <1>2, <1>4, <1>5, <1>6, Sizes DEF TxTypeOK
<1>8. TxTypeOK'
  BY <1>1, <1>5, <1>7, Sizes DEF BeginWrite, TxTypeOK, txStructure
<1>9. FillCnt' = FillCnt /\ MarOff' = MarOff
  BY DEF BeginWrite, FillCnt, MarOff, txStructure
<1>10. TxHolds'
  BY <1>1, <1>9, SameRing DEF RingUnchanged, BeginWrite, txStructure
<1>11. Balanced' /\ TransferFits' /\ AheadIsKnown'
  BY <1>1, <1>5, <1>9 DEF BeginWrite, Balanced, TransferFits, AheadIsKnown, txStructure
<1>12. WriteFits'
  BY <1>7 DEF BeginWrite, WriteFits, txStructure
<1> QED BY <1>8, <1>10, <1>11, <1>12 DEF TxInv

LEMMA TxWrite ==
  ASSUME TxInv, Write
  PROVE  TxInv'
<1>1. TxTypeOK /\ Balanced /\ WriteFits /\ TransferFits /\ TxHolds /\ AheadIsKnown
  BY DEF TxInv
<1>2. TxPlaces /\ TxRanges
  BY <1>1, TxPlace
<1>3. FillCnt \in 0 .. TxLen - 2
  <2>1. written < toWrite /\ toWrite < freeSpace
    BY <1>1, Sizes DEF Write, TxTypeOK, WriteFits
  <2> QED BY <1>1, <1>2, <2>1, Sizes DEF TxRanges, TxTypeOK, Balanced
<1>4. writeP' = Forward(writeP, 1, TxLen) /\ writeP' \in 0 .. TxLen - 1
  <2>1. writeP \in Nat /\ writeP < TxLen /\ 1 \in Nat /\ 1 <= TxLen
    BY <1>1, Sizes DEF TxTypeOK
  <2>2. writeP' = (writeP + 1) % TxLen
    BY DEF Write
  <2> QED BY <2>1, <2>2, Sizes, ForwardModulo
<1>5. nextByte' = Forward(nextByte, 1, Numbers) /\ nextByte' \in 0 .. Numbers - 1
  BY <1>1, Next1 DEF Write, TxTypeOK
<1>6. written' \in 0 .. toWrite' /\ toWrite' = toWrite /\ written' = written + 1
  BY <1>1, Sizes DEF Write, TxTypeOK
<1>7. TxTypeOK'
  BY <1>1, <1>4, <1>5, <1>6, Sizes DEF Write, TxTypeOK
<1>8. MarOff' = MarOff /\ FillCnt' = FillCnt + 1
  <2>1. MarOff' = MarOff
    BY DEF Write, MarOff
  <2>2. FillCnt' = Between(MarOff, Forward(writeP, 1, TxLen), TxLen)
    BY <1>4, <1>7, <2>1, TxPlaceNext DEF TxPlaces
  <2>3. writeP \in 0 .. TxLen - 1 /\ MarOff \in 0 .. TxLen - 1
        /\ Between(MarOff, writeP, TxLen) < TxLen - 1
    BY <1>1, <1>2, <1>3, Sizes DEF TxPlaces, TxRanges, TxTypeOK
  <2> QED BY <1>2, <2>1, <2>2, <2>3, Sizes, StepOn DEF TxPlaces
<1>9. TxHolds'
  <2>1. writeP = Forward(MarOff, FillCnt, TxLen)
    BY <1>1, <1>2, Sizes, ThereAndBack DEF TxPlaces, TxRanges, TxTypeOK
  <2>2. sent \in 0 .. Numbers - 1 /\ txBuffer \in [0 .. TxLen - 1 -> 0 .. Numbers - 1]
        /\ nextByte = Forward(sent, FillCnt, Numbers)
        /\ Holds(txBuffer, TxLen, MarOff, FillCnt, sent)
    BY <1>1 DEF TxTypeOK, TxHolds
  <2>3. Holds([txBuffer EXCEPT ![writeP] = nextByte], TxLen, MarOff, FillCnt + 1, sent)
    BY <1>2, <1>3, <2>1, <2>2, Sizes, HoldsMore DEF TxRanges
  <2>4. FillCnt \in 0 .. Numbers - 2 /\ Numbers > 1
    BY <1>3, Sizes
  <2>5. nextByte' = Forward(sent, FillCnt + 1, Numbers)
    BY <1>5, <2>2, <2>4, Sizes, ForwardOn
  <2> QED BY <1>8, <2>3, <2>5 DEF TxHolds, Write
<1>10. Balanced' /\ WriteFits' /\ TransferFits'
  BY <1>1, <1>2, <1>6, <1>8, Sizes
     DEF Write, Balanced, WriteFits, TransferFits, TxTypeOK, TxRanges
<1>11. AheadIsKnown'
  BY <1>1, <1>2, <1>6, <1>8, Sizes DEF Write, AheadIsKnown, TxTypeOK, TxRanges
<1> QED BY <1>7, <1>9, <1>10, <1>11 DEF TxInv

LEMMA TxAccount ==
  ASSUME TxInv, Account
  PROVE  TxInv'
<1>1. TxTypeOK /\ Balanced /\ WriteFits /\ TransferFits /\ TxHolds
  BY DEF TxInv
<1>2. TxRanges
  BY <1>1, TxPlace
<1>3. freeSpace' = freeSpace - written /\ freeSpace' \in 1 .. 2 * TxLen - 1
      /\ toWrite' = 0 /\ written' = 0
  BY <1>1, Sizes DEF Account, TxTypeOK, WriteFits
<1>4. TxTypeOK'
  <2>1. toWrite' \in 0 .. TxLen - 1 /\ written' \in 0 .. toWrite'
    BY <1>3, Sizes
  <2> QED BY <1>1, <1>3, <2>1 DEF Account, TxTypeOK
<1>5. FillCnt' = FillCnt /\ MarOff' = MarOff
  BY DEF Account, FillCnt, MarOff
<1>6. TxHolds'
  BY <1>1, <1>5, SameRing DEF RingUnchanged, Account
<1>7. Balanced' /\ TransferFits' /\ WriteFits'
  BY <1>1, <1>2, <1>3, <1>5, Sizes
     DEF Account, Balanced, TransferFits, WriteFits, TxTypeOK, TxRanges
<1>8. ~(FillCnt - txTcr < 0)
  BY <1>1, <1>2, Sizes DEF TransferFits, TxRanges, TxTypeOK
<1>9. AheadIsKnown'
  BY <1>3, <1>5, <1>8 DEF Account, AheadIsKnown
<1> QED BY <1>4, <1>6, <1>7, <1>9 DEF TxInv

LEMMA TxTransmit ==
  ASSUME TxInv, Transmit
  PROVE  TxInv'
<1>1. TxTypeOK /\ Balanced /\ WriteFits /\ TransferFits /\ TxHolds /\ AheadIsKnown
  BY DEF TxInv
<1>2. TxPlaces /\ TxRanges
  BY <1>1, TxPlace
<1>3. FillCnt \in 1 .. TxLen - 1 /\ txMar \in 0 .. TxLen - 1
  BY <1>1, <1>2, Sizes DEF Transmit, TxRanges, TxTypeOK, TransferFits
<1>4. sent' = Forward(sent, 1, Numbers) /\ sent' \in 0 .. Numbers - 1
  BY <1>1, Next1 DEF Transmit, TxTypeOK
<1>5. txTcr' = txTcr - 1 /\ txMar' = txMar + 1
      /\ txTcr' \in 0 .. lastTransferLen /\ txMar' \in 0 .. TxLen
  BY <1>1, <1>3, Sizes DEF Transmit, TxTypeOK
<1>6. TxTypeOK'
  BY <1>1, <1>4, <1>5, Sizes DEF Transmit, TxTypeOK, txStructure, txTask
<1>7. MarOff' = Forward(MarOff, 1, TxLen) /\ FillCnt' = FillCnt - 1
  <2>1. MarOff = txMar
    BY <1>2, <1>3, Sizes DEF TxPlaces
  <2>2. MarOff' = IF txMar + 1 = TxLen THEN 0 ELSE txMar + 1
    BY <1>5, <1>6, TxPlaceNext DEF TxPlaces
  <2>3. MarOff' = Forward(MarOff, 1, TxLen)
    BY <1>3, <2>1, <2>2, Sizes DEF Forward
  <2>4. FillCnt' = Between(Forward(MarOff, 1, TxLen), writeP, TxLen)
    BY <1>6, <2>3, TxPlaceNext DEF TxPlaces, Transmit, txStructure
  <2>5. writeP \in 0 .. TxLen - 1 /\ MarOff \in 0 .. TxLen - 1
        /\ Between(MarOff, writeP, TxLen) > 0
    BY <1>1, <1>2, <1>3, Sizes DEF TxPlaces, TxRanges, TxTypeOK
  <2> QED BY <1>2, <2>3, <2>4, <2>5, Sizes, StepOn DEF TxPlaces
<1>8. TxHolds'
  <2>1. sent \in 0 .. Numbers - 1 /\ MarOff \in 0 .. TxLen - 1
        /\ nextByte = Forward(sent, FillCnt, Numbers)
        /\ Holds(txBuffer, TxLen, MarOff, FillCnt, sent)
    BY <1>1, <1>2 DEF TxTypeOK, TxHolds, TxRanges
  <2>2. Holds(txBuffer, TxLen, Forward(MarOff, 1, TxLen), FillCnt - 1,
              Forward(sent, 1, Numbers))
    BY <1>3, <2>1, Sizes, HoldsLess
  <2>3. FillCnt - 1 \in 0 .. Numbers - 2 /\ Numbers > 1 /\ FillCnt - 1 + 1 = FillCnt
    BY <1>3, Sizes
  <2>4. nextByte = Forward(Forward(sent, 1, Numbers), FillCnt - 1, Numbers)
    BY <2>1, <2>3, Sizes, ForwardOn
  <2> QED BY <1>4, <1>7, <2>2, <2>4 DEF TxHolds, Transmit, txStructure, txTask
<1>9. Balanced' /\ WriteFits' /\ TransferFits'
  BY <1>1, <1>3, <1>5, <1>7, Sizes
     DEF Transmit, Balanced, WriteFits, TransferFits, TxTypeOK, txStructure, txTask
<1>10. AheadIsKnown'
  <2>1. FillCnt' - txTcr' = FillCnt - txTcr
    BY <1>1, <1>3, <1>5, <1>7 DEF TxTypeOK
  <2>2. txTcr > 0 /\ (txTcr' > 0 \/ txTcr = 1)
    BY <1>1, <1>5 DEF Transmit, TxTypeOK
  <2> QED BY <1>1, <2>1, <2>2 DEF Transmit, AheadIsKnown, txStructure, txTask
<1> QED BY <1>6, <1>8, <1>9, <1>10 DEF TxInv

LEMMA TxHandler ==
  ASSUME TxInv, txHandler
  PROVE  TxInv'
<1>1. TxTypeOK /\ Balanced /\ WriteFits /\ TransferFits /\ TxHolds /\ AheadIsKnown
  BY DEF TxInv
<1>2. TxPlaces /\ TxRanges
  BY <1>1, TxPlace
<1>3. txTcr = 0 /\ Freed = TxLen - FillCnt + written /\ Freed >= freeSpace
      /\ Freed \in 1 .. 2 * TxLen - 1
  BY <1>1, <1>2, Sizes DEF txHandler, TxPending, Freed, Balanced, TxTypeOK, TxRanges
<1>4. NewTransfer \in 0 .. FillCnt /\ MarOff + NewTransfer <= TxLen
  BY <1>1, TransferLength
<1>5. freeSpace' = Freed /\ txTcr' = lastTransferLen'
      /\ UNCHANGED <<txBuffer, writeP, toWrite, written, nextByte, sent, preempted>>
  BY <1>3 DEF txHandler, txTask
<1>6. /\ lastTransferLen' \in 0 .. FillCnt
      /\ txMar' \in 0 .. TxLen /\ txMar' + txTcr' <= TxLen
      /\ txMar' = txMar \/ txMar' = MarOff
      /\ txInterrupt' \in BOOLEAN /\ ahead' \in BOOLEAN
  <2>1. CASE Freed = TxLen
    <3>1. txInterrupt' \in BOOLEAN /\ ahead' \in BOOLEAN
      BY <1>1, <2>1 DEF txHandler, TxTypeOK
    <3>2. lastTransferLen' = 0 /\ txMar' = txMar /\ txTcr' = 0
      BY <1>3, <2>1 DEF txHandler
    <3>3. txMar \in 0 .. TxLen /\ txMar + 0 <= TxLen
      BY <1>1, Sizes DEF TxTypeOK
    <3>4. 0 \in 0 .. FillCnt
      BY <1>2, Sizes DEF TxRanges
    <3> QED BY <3>1, <3>2, <3>3, <3>4
  <2>2. CASE Freed # TxLen
    BY <1>1, <1>2, <1>4, <1>5, <2>2, Sizes DEF txHandler, TxTypeOK, TxRanges
  <2> QED BY <2>1, <2>2
<1>7. lastTransferLen' \in 0 .. TxLen - 1 /\ txTcr' \in 0 .. lastTransferLen'
  BY <1>2, <1>5, <1>6, Sizes DEF TxRanges
<1>8. TxTypeOK'
  BY <1>1, <1>3, <1>5, <1>6, <1>7 DEF TxTypeOK
<1>9. FillCnt' = FillCnt /\ MarOff' = MarOff
  <2>1. MarOff' = MarOff
    BY <1>2, <1>6, <1>8, TxPlaceNext, Sizes DEF TxPlaces, TxRanges
  <2> QED BY <1>2, <1>5, <1>8, <2>1, TxPlaceNext DEF TxPlaces
<1>10. TxHolds'
  BY <1>1, <1>5, <1>9, SameRing DEF RingUnchanged
<1>11. Balanced'
  <2>1. PICK free \in Nat, len \in Nat : free = freeSpace' /\ len = lastTransferLen'
    BY <1>3, <1>5, <1>7
  <2>2. free + len - len = free
    OBVIOUS
  <2> QED BY <1>3, <1>5, <1>9, <2>1, <2>2 DEF Balanced
<1>12. WriteFits'
  <2>1. toWrite \in Int /\ freeSpace \in Int /\ Freed \in Int
    BY <1>1, <1>3 DEF TxTypeOK
  <2> QED BY <1>1, <1>3, <1>5, <2>1 DEF WriteFits
<1>13. TransferFits'
  BY <1>5, <1>6, <1>9 DEF TransferFits
<1>14. AheadIsKnown'
  <2>1. PICK fill \in Nat, count \in Nat :
          fill = FillCnt /\ count = txTcr' /\ count <= fill
    BY <1>2, <1>5, <1>6 DEF TxRanges
  <2>2. written \in Nat
    BY <1>1 DEF TxTypeOK
  <2>3. fill < written => preempted
    BY <1>1, <1>3, <2>1, <2>2 DEF AheadIsKnown
  <2>4. CASE Freed = TxLen
    <3>1. fill = written /\ count = 0
      BY <1>3, <2>1, <2>2, <2>4, Sizes DEF txHandler
    <3>2. ~(fill - count < written)
      BY <2>2, <3>1
    <3> QED BY <1>5, <1>9, <2>1, <3>2 DEF AheadIsKnown
  <2>5. CASE Freed # TxLen /\ written > 0
    <3>1. ahead' = TRUE
      BY <2>5 DEF txHandler
    <3>2. count > 0 \/ (fill - count < written => preempted)
      BY <2>2, <2>3
    <3> QED BY <1>5, <1>9, <2>1, <3>1, <3>2 DEF AheadIsKnown
  <2>6. CASE written = 0
    <3>1. count <= fill
      BY <2>1
    <3>2. ~(fill - count < 0)
      BY <3>1
    <3> QED BY <1>5, <1>9, <2>1, <2>6, <3>2 DEF AheadIsKnown
  <2> QED BY <2>2, <2>4, <2>5, <2>6
<1> QED BY <1>8, <1>10, <1>11, <1>12, <1>13, <1>14 DEF TxInv

----------------------------------------------------------------------------
(* Reception *)

RxPlaces ==
  /\ Mar = (IF rxMar = RxLen THEN 0 ELSE rxMar)
  /\ Mar \in 0 .. RxLen - 1
  /\ Oldest \in 0 .. RxLen - 1
  /\ Stored \in 0 .. RxLen - 1 /\ Unread \in 0 .. RxLen - 1

LEMMA RxPlace == RxTypeOK => RxPlaces
<1> SUFFICES ASSUME RxTypeOK PROVE RxPlaces
  OBVIOUS
<1>1. Mar = (IF rxMar = RxLen THEN 0 ELSE rxMar)
  <2>1. rxMar \in Nat /\ rxMar <= RxLen /\ rxMar < RxLen + RxLen
    BY Sizes DEF RxTypeOK
  <2>2. rxMar % RxLen = IF rxMar < RxLen THEN rxMar ELSE rxMar - RxLen
    BY <2>1, Sizes, Modulo
  <2> QED BY <2>1, <2>2, Sizes DEF Mar
<1>2. Mar \in 0 .. RxLen - 1
  BY <1>1, Sizes DEF RxTypeOK
<1>3. readP \in 0 .. RxLen - 1 /\ Oldest \in 0 .. RxLen - 1
  BY DEF RxTypeOK, Oldest
<1>4. ASSUME NEW a \in 0 .. RxLen - 1, NEW b \in 0 .. RxLen - 1
      PROVE  Between(a, b, RxLen) \in 0 .. RxLen - 1
  BY Sizes DEF Between
<1>5. Stored \in 0 .. RxLen - 1 /\ Unread \in 0 .. RxLen - 1
  BY <1>2, <1>3, <1>4 DEF Stored, Unread
<1> QED BY <1>1, <1>2, <1>3, <1>5 DEF RxPlaces

LEMMA RxPlaceNext == RxTypeOK' => RxPlaces'
BY RxPlace, PTL

(* The stretch that the handler gives to the controller ends before the     *)
(* read pointer, and there is none only when the ring is full.              *)
LEMMA ReachFits ==
  RxTypeOK => /\ Reach \in 0 .. RxLen - 1 /\ Mar + Reach <= RxLen
              /\ Stored + Reach <= RxLen - 1
              /\ Reach = 0 => Stored = RxLen - 1
<1> SUFFICES ASSUME RxTypeOK
             PROVE  /\ Reach \in 0 .. RxLen - 1 /\ Mar + Reach <= RxLen
                    /\ Stored + Reach <= RxLen - 1
                    /\ Reach = 0 => Stored = RxLen - 1
  OBVIOUS
<1>1. PICK m \in Nat, r \in Nat, n \in Nat :
        m = Mar /\ r = readP /\ n = RxLen /\ m < n /\ r < n
  BY RxPlace, Sizes DEF RxPlaces, RxTypeOK
<1>2. Stored = (IF r <= m THEN m - r ELSE m - r + n)
  BY <1>1 DEF Stored, Between
<1>3. Reach = IF m < r THEN r - m - 1 ELSE n - m - (IF r = 0 THEN 1 ELSE 0)
  BY <1>1 DEF Reach
<1>4. CASE m < r
  <2>1. Reach = r - m - 1 /\ Stored = m - r + n
    BY <1>2, <1>3, <1>4
  <2> QED BY <1>1, <1>4, <2>1
<1>5. CASE r <= m /\ r = 0
  <2>1. Reach = n - m - 1 /\ Stored = m - r
    BY <1>2, <1>3, <1>5
  <2> QED BY <1>1, <1>5, <2>1
<1>6. CASE r <= m /\ r # 0
  <2>1. Reach = n - m /\ Stored = m - r
    BY <1>2, <1>3, <1>6
  <2> QED BY <1>1, <1>6, <2>1
<1> QED BY <1>4, <1>5, <1>6

LEMMA RxInitially == Init => RxInv
<1> SUFFICES ASSUME Init PROVE RxInv
  OBVIOUS
<1>1. 0 \in 0 .. RxLen - 1 /\ 0 \in 0 .. Numbers - 1 /\ 0 \in 0 .. RxLen
  BY Sizes
<1>2. RxTypeOK
  BY <1>1 DEF Init, RxTypeOK
<1>3. Mar = 0 /\ Oldest = 0 /\ Stored = 0 /\ Unread = 0
  BY <1>2, Sizes, RxPlace DEF RxPlaces, Oldest, Stored, Unread, Init, Between
<1>4. RxHolds
  BY <1>3, Sizes DEF Init, RxHolds, Holds, Forward
<1> QED BY <1>2, <1>3, <1>4, Sizes DEF Init, RxInv, StretchFits, KeepsAway, ReaderBetween

LEMMA RxUnchanged == RxInv /\ UNCHANGED rxVars => RxInv'
BY DEF RxInv, RxTypeOK, StretchFits, KeepsAway, ReaderBetween, RxHolds,
       Holds, Oldest, Stored, Unread, Mar, rxVars

(* Steps that read nothing, overwrite nothing and put nothing into the ring.*)
UnreadUnchanged ==
  rxBuffer' = rxBuffer /\ Oldest' = Oldest /\ Unread' = Unread
  /\ arriving' = arriving /\ expected' = expected

LEMMA SameUnread == RxHolds /\ UnreadUnchanged => RxHolds'
BY DEF RxHolds, UnreadUnchanged, Holds

(* Steps that take one byte from the ring: it is read, or overwritten.      *)
OneLess ==
  rxBuffer' = rxBuffer /\ Oldest' = Forward(Oldest, 1, RxLen) /\ Mar' = Mar
  /\ arriving' = arriving /\ expected' = Following(expected)

LEMMA TakeOne ==
  ASSUME RxTypeOK, RxHolds, OneLess, Unread > 0
  PROVE  /\ rxBuffer[Oldest] = expected
         /\ Unread' = Unread - 1
         /\ RxHolds'
<1>1. /\ Unread \in 1 .. RxLen - 1 /\ Oldest \in 0 .. RxLen - 1 /\ Mar \in 0 .. RxLen - 1
      /\ expected \in 0 .. Numbers - 1
  BY RxPlace, Sizes DEF RxPlaces, RxTypeOK
<1>2. expected' = Forward(expected, 1, Numbers)
  BY <1>1, Next1 DEF OneLess
<1>3. Unread' = Unread - 1
  <2>1. Unread' = Between(Forward(Oldest, 1, RxLen), Mar, RxLen)
    BY DEF OneLess, Unread
  <2>2. Unread = Between(Oldest, Mar, RxLen) /\ Between(Oldest, Mar, RxLen) > 0
    BY DEF Unread
  <2> QED BY <1>1, <2>1, <2>2, Sizes, StepOn
<1>4. Holds(rxBuffer, RxLen, Oldest, Unread, expected)
      /\ arriving = Forward(expected, Unread, Numbers)
  BY DEF RxHolds
<1>5. rxBuffer[Oldest] = expected
      /\ Holds(rxBuffer, RxLen, Forward(Oldest, 1, RxLen), Unread - 1,
               Forward(expected, 1, Numbers))
  BY <1>1, <1>4, Sizes, HoldsLess
<1>6. Unread - 1 \in 0 .. Numbers - 2 /\ Numbers > 1 /\ Unread - 1 + 1 = Unread
  BY <1>1, Sizes
<1>7. arriving = Forward(Forward(expected, 1, Numbers), Unread - 1, Numbers)
  BY <1>1, <1>4, <1>6, Sizes, ForwardOn
<1> QED BY <1>2, <1>3, <1>5, <1>7 DEF RxHolds, OneLess

LEMMA RxArrive ==
  ASSUME RxInv, Arrive
  PROVE  RxInv'
<1>1. RxTypeOK /\ StretchFits
  BY DEF RxInv
<1>2. RxPlaces
  BY <1>1, RxPlace
<1>3. rxMar \in 0 .. RxLen - 1 /\ rxMar' = rxMar + 1 /\ rxTcr' = rxTcr - 1
      /\ rxMar' \in 0 .. RxLen /\ rxTcr' \in 0 .. RxLen - 1
  BY <1>1, Sizes DEF Arrive, RxTypeOK, StretchFits
<1>4. arriving' = Forward(arriving, 1, Numbers) /\ arriving' \in 0 .. Numbers - 1
  BY <1>1, Next1 DEF Arrive, RxTypeOK
<1>5. RxTypeOK'
  BY <1>1, <1>3, <1>4 DEF Arrive, RxTypeOK
<1>6. StretchFits'
  BY <1>1, <1>3, Sizes DEF StretchFits, RxTypeOK
<1>7. ASSUME ~torn'
      PROVE  KeepsAway' /\ ReaderBetween' /\ RxHolds'
  <2>1. KeepsAway /\ ReaderBetween /\ RxHolds
    BY <1>7 DEF Arrive, RxInv
  <2>2. Mar = rxMar /\ Mar' = Forward(Mar, 1, RxLen)
    <3>1. Mar = rxMar
      BY <1>2, <1>3, Sizes DEF RxPlaces
    <3>2. Mar' = IF rxMar + 1 = RxLen THEN 0 ELSE rxMar + 1
      BY <1>3, <1>5, RxPlaceNext DEF RxPlaces
    <3> QED BY <1>3, <3>1, <3>2, Sizes DEF Forward
  <2>3. Stored \in 0 .. RxLen - 2 /\ Unread \in 0 .. RxLen - 2
    BY <1>1, <1>2, <2>1, Sizes
       DEF Arrive, KeepsAway, ReaderBetween, RxPlaces, RxTypeOK
  <2>4. Oldest' = Oldest /\ readP' = readP /\ Oldest \in 0 .. RxLen - 1
        /\ readP \in 0 .. RxLen - 1 /\ Mar \in 0 .. RxLen - 1
    BY <1>1, <1>2 DEF Arrive, Oldest, RxPlaces, RxTypeOK
  <2>5. Stored' = Stored + 1
    <3>1. Stored' = Between(readP, Forward(Mar, 1, RxLen), RxLen)
      BY <2>2, <2>4 DEF Stored
    <3>2. Between(readP, Mar, RxLen) < RxLen - 1
      BY <2>3, Sizes DEF Stored
    <3> QED BY <2>4, <3>1, <3>2, Sizes, StepOn DEF Stored
  <2>6. Unread' = Unread + 1
    <3>1. Unread' = Between(Oldest, Forward(Mar, 1, RxLen), RxLen)
      BY <2>2, <2>4 DEF Unread
    <3>2. Between(Oldest, Mar, RxLen) < RxLen - 1
      BY <2>3, Sizes DEF Unread
    <3> QED BY <2>4, <3>1, <3>2, Sizes, StepOn DEF Unread
  <2>7. KeepsAway'
    BY <1>1, <1>3, <2>1, <2>3, <2>5, Sizes DEF KeepsAway, RxTypeOK
  <2>8. ReaderBetween'
    BY <1>1, <2>1, <2>3, <2>5, <2>6, Sizes DEF ReaderBetween, Arrive, RxTypeOK
  <2>9. RxHolds'
    <3>1. expected \in 0 .. Numbers - 1
          /\ rxBuffer \in [0 .. RxLen - 1 -> 0 .. Numbers - 1]
          /\ arriving = Forward(expected, Unread, Numbers)
          /\ Holds(rxBuffer, RxLen, Oldest, Unread, expected)
      BY <1>1, <2>1 DEF RxTypeOK, RxHolds
    <3>2. rxMar = Forward(Oldest, Unread, RxLen)
      BY <2>2, <2>4, Sizes, ThereAndBack DEF Unread
    <3>3. Holds([rxBuffer EXCEPT ![rxMar] = arriving],
                RxLen, Oldest, Unread + 1, expected)
      BY <2>3, <2>4, <3>1, <3>2, Sizes, HoldsMore
    <3>4. Unread \in 0 .. Numbers - 2 /\ Numbers > 1
      BY <2>3, Sizes
    <3>5. arriving' = Forward(expected, Unread + 1, Numbers)
      BY <1>4, <3>1, <3>4, Sizes, ForwardOn
    <3> QED BY <2>4, <2>6, <3>3, <3>5 DEF RxHolds, Arrive
  <2> QED BY <2>7, <2>8, <2>9
<1> QED BY <1>5, <1>6, <1>7 DEF RxInv

LEMMA RxHandler ==
  ASSUME RxInv, rxHandler
  PROVE  RxInv'
<1>1. RxTypeOK /\ rxTcr = 0
  BY DEF RxInv, rxHandler, RxPending
<1>2. RxPlaces
  BY <1>1, RxPlace
<1>3. /\ Reach \in 0 .. RxLen - 1 /\ Mar + Reach <= RxLen
      /\ Stored + Reach <= RxLen - 1
      /\ Reach = 0 => Stored = RxLen - 1
  BY <1>1, ReachFits
<1>4. /\ rxMar' = Mar /\ Mar \in 0 .. RxLen - 1 /\ rxMar' \in 0 .. RxLen
      /\ UNCHANGED <<rxBuffer, reader, rPTemp, toRead, arriving>>
  <2>1. Mar \in 0 .. RxLen - 1
    BY <1>2 DEF RxPlaces
  <2>2. Mar \in 0 .. RxLen
    BY <2>1, Sizes
  <2> QED BY <2>1, <2>2 DEF rxHandler
<1>5. CASE Reach = 0
  <2>1. readP' = Forward(readP, 1, RxLen) /\ readP' \in 0 .. RxLen - 1
    <3>1. readP \in Nat /\ readP < RxLen /\ 1 \in Nat /\ 1 <= RxLen
      BY <1>1, Sizes DEF RxTypeOK
    <3>2. readP' = (readP + 1) % RxLen
      BY <1>5 DEF rxHandler
    <3> QED BY <3>1, <3>2, Sizes, ForwardModulo
  <2>2. expected' = Following(expected) /\ expected' \in 0 .. Numbers - 1
    BY <1>1, <1>5, Next1 DEF rxHandler, RxTypeOK
  <2>3. rxTcr' = 1 /\ rxTcr' \in 0 .. RxLen - 1
    BY <1>5, Sizes DEF rxHandler
  <2>4. torn' \in BOOLEAN
    BY <1>1, <1>5 DEF rxHandler, RxTypeOK
  <2>5. RxTypeOK'
    BY <1>1, <1>4, <2>1, <2>2, <2>3, <2>4 DEF RxTypeOK
  <2>6. StretchFits'
    BY <1>4, <2>3, Sizes DEF StretchFits
  <2>7. ASSUME ~torn'
        PROVE  KeepsAway' /\ ReaderBetween' /\ RxHolds'
    <3>1. ~torn /\ reader = "idle"
      BY <1>5, <2>7 DEF rxHandler
    <3>2. KeepsAway /\ ReaderBetween /\ RxHolds
      BY <3>1 DEF RxInv
    <3>3. Mar' = Mar
      BY <1>4, <2>5, RxPlaceNext, Sizes DEF RxPlaces
    <3>4. Oldest = readP /\ Oldest' = readP' /\ Unread = Stored /\ Unread' = Stored'
      BY <1>4, <3>1 DEF Oldest, Unread, Stored
    <3>5. Unread > 0
      BY <1>3, <1>5, <3>4, Sizes
    <3>6. OneLess
      BY <1>4, <2>1, <2>2, <3>3, <3>4 DEF OneLess
    <3>7. Unread' = Unread - 1 /\ RxHolds'
      BY <1>1, <3>2, <3>5, <3>6, TakeOne
    <3>8. Stored' = RxLen - 2
      BY <1>3, <1>5, <3>4, <3>7, Sizes
    <3>9. KeepsAway'
      BY <2>3, <3>8, Sizes DEF KeepsAway
    <3>10. ReaderBetween'
      BY <1>4, <3>1, <3>4, <3>8, Sizes DEF ReaderBetween
    <3> QED BY <3>7, <3>9, <3>10
  <2> QED BY <2>5, <2>6, <2>7 DEF RxInv
<1>6. CASE Reach # 0
  <2>1. rxTcr' = Reach /\ UNCHANGED <<readP, expected, torn>>
    BY <1>6 DEF rxHandler
  <2>2. RxTypeOK'
    BY <1>1, <1>3, <1>4, <2>1 DEF RxTypeOK
  <2>3. StretchFits'
    BY <1>3, <1>4, <2>1 DEF StretchFits
  <2>4. Mar' = Mar
    BY <1>4, <2>2, RxPlaceNext, Sizes DEF RxPlaces
  <2>5. Oldest' = Oldest /\ Stored' = Stored /\ Unread' = Unread
    BY <1>4, <2>1, <2>4 DEF Oldest, Stored, Unread
  <2>6. ASSUME ~torn'
        PROVE  KeepsAway' /\ ReaderBetween' /\ RxHolds'
    <3>1. KeepsAway /\ ReaderBetween /\ RxHolds
      BY <2>1, <2>6 DEF RxInv
    <3>2. RxHolds'
      BY <1>4, <2>1, <2>5, <3>1, SameUnread DEF UnreadUnchanged
    <3>3. KeepsAway'
      BY <1>3, <2>1, <2>5 DEF KeepsAway
    <3>4. ReaderBetween'
      BY <1>4, <2>1, <2>5, <3>1 DEF ReaderBetween
    <3> QED BY <3>2, <3>3, <3>4
  <2> QED BY <2>2, <2>3, <2>6 DEF RxInv
<1> QED BY <1>5, <1>6

LEMMA RxBeginRead ==
  ASSUME RxInv, NEW place \in {"look", "lookToFlush"}, BeginRead(place)
  PROVE  RxInv'
<1>1. RxTypeOK' /\ StretchFits'
  BY DEF RxInv, BeginRead, RxTypeOK, StretchFits
<1>2. Mar' = Mar /\ Oldest' = Oldest /\ Stored' = Stored /\ Unread' = Unread
  BY DEF BeginRead, Mar, Oldest, Stored, Unread
<1>3. ASSUME ~torn'
      PROVE  KeepsAway' /\ ReaderBetween' /\ RxHolds'
  <2>1. KeepsAway /\ ReaderBetween /\ RxHolds
    BY <1>3 DEF RxInv, BeginRead
  <2>2. RxHolds'
    BY <1>2, <2>1, SameUnread DEF UnreadUnchanged, BeginRead
  <2> QED BY <1>2, <2>1, <2>2 DEF BeginRead, KeepsAway, ReaderBetween
<1> QED BY <1>1, <1>3 DEF RxInv

LEMMA RxLook ==
  ASSUME RxInv, NEW len \in Lengths, Look(len)
  PROVE  RxInv'
<1>1. RxTypeOK /\ RxPlaces
  BY RxPlace DEF RxInv
<1> DEFINE there == Between(rPTemp, Mar, RxLen)
<1>2. there \in 0 .. RxLen - 1 /\ (Mar - rPTemp + RxLen) % RxLen = there
  <2>1. rPTemp \in Nat /\ rPTemp < RxLen /\ Mar \in Nat /\ Mar < RxLen
    BY <1>1, Sizes DEF RxTypeOK, RxPlaces
  <2> QED BY <2>1, Sizes, BetweenModulo
<1>3. len \in Nat
  BY LengthAssumption
<1>4. toRead' = IF len <= there THEN len ELSE there
  BY <1>2, <1>3, MinOfTwo DEF Look
<1>5. toRead' \in 0 .. RxLen - 1 /\ toRead' <= there
  <2> HIDE DEF there
  <2> QED BY <1>2, <1>3, <1>4, Sizes
<1>6. reader = "look" /\ reader' \in {"idle", "read"}
  BY DEF Look
<1>7. RxTypeOK' /\ StretchFits'
  BY <1>5, <1>6 DEF RxInv, Look, RxTypeOK, StretchFits
<1>8. ASSUME ~torn'
      PROVE  KeepsAway' /\ ReaderBetween' /\ RxHolds'
  <2>1. KeepsAway /\ ReaderBetween /\ RxHolds
    BY <1>8 DEF RxInv, Look
  <2>2. rPTemp = readP
    BY <1>6, <2>1 DEF ReaderBetween
  <2>3. Mar' = Mar /\ Oldest' = Oldest /\ Stored' = Stored /\ Unread' = Unread
    BY <1>6, <2>2 DEF Look, Mar, Oldest, Stored, Unread
  <2>4. Unread = there
    BY <1>6, <2>2 DEF Unread, Oldest
  <2>5. RxHolds'
    BY <2>1, <2>3, SameUnread DEF UnreadUnchanged, Look
  <2>6. KeepsAway'
    BY <2>1, <2>3 DEF Look, KeepsAway
  <2>7. ReaderBetween'
    BY <1>5, <1>6, <2>1, <2>3, <2>4 DEF ReaderBetween
  <2> QED BY <2>5, <2>6, <2>7
<1> QED BY <1>7, <1>8 DEF RxInv

LEMMA RxRead ==
  ASSUME RxInv, Read
  PROVE  RxInv'
<1>1. RxTypeOK /\ RxPlaces
  BY RxPlace DEF RxInv
<1>2. rPTemp' = Forward(rPTemp, 1, RxLen) /\ rPTemp' \in 0 .. RxLen - 1
  <2>1. rPTemp \in Nat /\ rPTemp < RxLen /\ 1 \in Nat /\ 1 <= RxLen
    BY <1>1, Sizes DEF RxTypeOK
  <2>2. rPTemp' = (rPTemp + 1) % RxLen
    BY DEF Read
  <2> QED BY <2>1, <2>2, Sizes, ForwardModulo
<1>3. toRead' = toRead - 1 /\ toRead' \in 0 .. RxLen - 1 /\ toRead > 0
  BY <1>1, Sizes DEF Read, RxTypeOK
<1>4. expected' = Following(expected) /\ expected' \in 0 .. Numbers - 1
  BY <1>1, Next1 DEF Read, RxTypeOK
<1>5. RxTypeOK' /\ StretchFits'
  BY <1>2, <1>3, <1>4 DEF RxInv, Read, RxTypeOK, StretchFits
<1>6. ASSUME ~torn'
      PROVE  KeepsAway' /\ ReaderBetween' /\ RxHolds'
  <2>1. KeepsAway /\ ReaderBetween /\ RxHolds
    BY <1>6 DEF RxInv, Read
  <2>2. reader = "read" /\ reader' = "read"
    BY DEF Read
  <2>3. Mar' = Mar /\ Stored' = Stored
    BY DEF Read, Mar, Stored
  <2>4. Oldest = rPTemp /\ Oldest' = rPTemp'
    BY <2>2 DEF Oldest
  <2>5. toRead <= Unread /\ Unread > 0
    BY <1>1, <1>3, <2>1, <2>2 DEF ReaderBetween, RxPlaces, RxTypeOK
  <2>6. OneLess
    BY <1>2, <1>4, <2>3, <2>4 DEF OneLess, Read
  <2>7. Unread' = Unread - 1 /\ RxHolds'
    BY <1>1, <2>1, <2>5, <2>6, TakeOne
  <2>8. KeepsAway'
    BY <2>1, <2>3 DEF KeepsAway, Read
  <2>9. ReaderBetween'
    <3>1. PICK unread \in Nat, stored \in Nat, todo \in Nat :
            unread = Unread /\ stored = Stored /\ todo = toRead
      BY <1>1 DEF RxPlaces, RxTypeOK
    <3>2. unread <= stored /\ todo <= unread
      BY <2>1, <2>5, <3>1 DEF ReaderBetween
    <3>3. unread - 1 <= stored /\ todo - 1 <= unread - 1
      BY <3>2
    <3> QED BY <1>3, <2>2, <2>3, <2>7, <3>1, <3>3 DEF ReaderBetween
  <2> QED BY <2>7, <2>8, <2>9
<1> QED BY <1>5, <1>6 DEF RxInv

(* The read pointer follows the reader when it ends a read or a flush.      *)
Follows ==
  /\ reader \in {"read", "flush"} /\ reader' = "idle" /\ readP' = rPTemp
  /\ UNCHANGED <<rxBuffer, rxMar, rxTcr, rPTemp, toRead, arriving, expected, torn>>

LEMMA RxFollows ==
  ASSUME RxInv, Follows
  PROVE  RxInv'
<1>1. RxTypeOK /\ RxPlaces
  BY RxPlace DEF RxInv
<1>2. RxTypeOK' /\ StretchFits'
  BY DEF RxInv, Follows, RxTypeOK, StretchFits
<1>3. Mar' = Mar /\ Oldest = rPTemp /\ Oldest' = rPTemp
  BY DEF Follows, Mar, Oldest
<1>4. Unread' = Unread /\ Stored' = Unread
  BY <1>3 DEF Unread, Stored, Follows
<1>5. ASSUME ~torn'
      PROVE  KeepsAway' /\ ReaderBetween' /\ RxHolds'
  <2>1. KeepsAway /\ ReaderBetween /\ RxHolds
    BY <1>5 DEF RxInv, Follows
  <2>2. RxHolds'
    BY <1>3, <1>4, <2>1, SameUnread DEF UnreadUnchanged, Follows
  <2>3. KeepsAway'
    BY <1>1, <1>4, <2>1, Sizes DEF KeepsAway, ReaderBetween, Follows, RxPlaces, RxTypeOK
  <2>4. ReaderBetween'
    BY <1>1, <1>4 DEF ReaderBetween, Follows, RxPlaces
  <2> QED BY <2>2, <2>3, <2>4
<1> QED BY <1>2, <1>5 DEF RxInv

LEMMA RxLookToFlush ==
  ASSUME RxInv, LookToFlush
  PROVE  RxInv'
<1>1. RxTypeOK /\ RxPlaces
  BY RxPlace DEF RxInv
<1>2. RxTypeOK' /\ StretchFits'
  BY <1>1 DEF RxInv, LookToFlush, RxTypeOK, StretchFits, RxPlaces
<1>3. Mar' = Mar /\ Oldest' = Mar /\ Stored' = Stored
  BY DEF LookToFlush, Mar, Oldest, Stored
<1>4. Unread' = 0
  BY <1>1, <1>3 DEF Unread, Between, RxPlaces
<1>5. ASSUME ~torn'
      PROVE  KeepsAway' /\ ReaderBetween' /\ RxHolds'
  <2>1. KeepsAway
    BY <1>5 DEF RxInv, LookToFlush
  <2>2. KeepsAway'
    BY <1>3, <2>1 DEF KeepsAway, LookToFlush
  <2>3. ReaderBetween'
    BY <1>1, <1>3, <1>4 DEF ReaderBetween, LookToFlush, RxPlaces
  <2>4. arriving \in 0 .. Numbers - 1 /\ arriving' = arriving /\ expected' = arriving
    BY <1>1 DEF RxTypeOK, LookToFlush
  <2>5. RxHolds'
    BY <1>4, <2>4, Sizes DEF RxHolds, Holds, Forward
  <2> QED BY <2>2, <2>3, <2>5
<1> QED BY <1>2, <1>5 DEF RxInv

----------------------------------------------------------------------------
(* The invariant, and what follows from it *)

LEMMA Invariance == Spec => []IInv
<1>1. Init => IInv
  BY TxInitially, RxInitially DEF IInv
<1>2. IInv /\ [Next]_vars => IInv'
  <2> SUFFICES ASSUME IInv, [Next]_vars PROVE IInv'
    OBVIOUS
  <2>1. CASE TxNext /\ UNCHANGED rxVars
    <3>1. RxInv'
      BY <2>1, RxUnchanged DEF IInv
    <3>2. TxInv'
      BY <2>1, TxBeginWrite, TxWrite, TxAccount, TxTransmit, TxHandler DEF IInv, TxNext
    <3> QED BY <3>1, <3>2 DEF IInv
  <2>2. CASE RxNext /\ UNCHANGED txVars
    <3>1. TxInv'
      BY <2>2, TxUnchanged DEF IInv
    <3>2. RxInv
      BY DEF IInv
    <3>3. EndRead \/ Flush => Follows
      BY DEF Follows, EndRead, Flush
    <3>4. CASE EndRead \/ Flush
      BY <3>1, <3>2, <3>3, <3>4, RxFollows DEF IInv
    <3>5. CASE \E place \in {"look", "lookToFlush"} : BeginRead(place)
      BY <3>1, <3>2, <3>5, RxBeginRead DEF IInv
    <3>6. CASE \E len \in Lengths : Look(len)
      BY <3>1, <3>2, <3>6, RxLook DEF IInv
    <3>7. CASE Read \/ LookToFlush \/ Arrive \/ rxHandler
      BY <3>1, <3>2, <3>7, RxRead, RxLookToFlush, RxArrive, RxHandler DEF IInv
    <3> QED BY <2>2, <3>4, <3>5, <3>6, <3>7 DEF RxNext
  <2>3. CASE UNCHANGED vars
    BY <2>3, TxUnchanged, RxUnchanged DEF IInv, vars
  <2> QED BY <2>1, <2>2, <2>3 DEF Next
<1> QED BY <1>1, <1>2, PTL DEF Spec

(* The variables of both directions keep their types: however the handler,  *)
(* the controller and the task interleave, freeSpace does not become        *)
(* negative and no transfer leaves the ring.                                *)
THEOREM TypeCorrect == Spec => []TypeOK
<1>1. IInv => TypeOK
  BY DEF IInv, TxInv, RxInv, TxTypeOK, RxTypeOK, TypeOK
<1> QED BY <1>1, Invariance, PTL

(* Bytes leave in the order in which they were written, each of them once   *)
(* (pdma_writeBuffer and its interrupt handler).                            *)
THEOREM AlwaysSentInOrder == Spec => []SentInOrder
<1>1. IInv => SentInOrder
  <2> SUFFICES ASSUME TxInv, txTcr > 0 
               PROVE  /\ txMar < TxLen /\ txBuffer[txMar] = sent
                      /\ txTcr <= (nextByte - sent + Numbers) % Numbers
    BY DEF IInv, SentInOrder
  <2>1. TxTypeOK /\ TransferFits /\ TxHolds /\ TxPlaces /\ TxRanges
    BY TxPlace DEF TxInv
  <2>2. txMar < TxLen
    BY <2>1, Sizes DEF TxTypeOK, TransferFits
  <2>3. FillCnt \in 1 .. TxLen - 1 /\ MarOff \in 0 .. TxLen - 1 /\ MarOff = txMar
        /\ sent \in 0 .. Numbers - 1 /\ nextByte \in 0 .. Numbers - 1
    BY <2>1, <2>2, Sizes DEF TxTypeOK, TransferFits, TxPlaces, TxRanges
  <2>4. Holds(txBuffer, TxLen, MarOff, FillCnt, sent)
        /\ nextByte = Forward(sent, FillCnt, Numbers)
    BY <2>1 DEF TxHolds
  <2>5. txBuffer[txMar] = sent
    BY <2>3, <2>4, Sizes, HoldsLess
  <2>6. FillCnt \in 0 .. Numbers - 1 /\ Numbers > 0
    BY <2>3, Sizes
  <2>7. Between(sent, nextByte, Numbers) = FillCnt
    BY <2>3, <2>4, <2>6, Sizes, ThereAndBack
  <2>8. (nextByte - sent + Numbers) % Numbers = FillCnt
    <3>1. sent \in Nat /\ sent < Numbers /\ nextByte \in Nat /\ nextByte < Numbers
      BY <2>3, Sizes
    <3> QED BY <2>7, <3>1, Sizes, BetweenModulo
  <2> QED BY <2>1, <2>2, <2>5, <2>8 DEF TransferFits
<1> QED BY <1>1, Invariance, PTL

(* The handler does not run for ever with nothing to send, unless a write   *)
(* was held up for as long as the transfer of its own bytes takes.          *)
THEOREM NeverStorm == Spec => []NoStorm
<1>1. IInv => NoStorm
  <2> SUFFICES ASSUME TxInv, Storm PROVE preempted
    BY DEF IInv, NoStorm
  <2>1. TxTypeOK /\ Balanced /\ AheadIsKnown
    BY DEF TxInv
  <2>2. txTcr = 0 /\ lastTransferLen = 0 /\ freeSpace # TxLen /\ FillCnt = 0
    BY DEF Storm, TxPending
  <2>3. written > 0
    BY <2>1, <2>2, Sizes DEF Balanced, TxTypeOK
  <2> QED BY <2>1, <2>2, <2>3 DEF AheadIsKnown
<1> QED BY <1>1, Invariance, PTL

(* The reader gets the bytes in the order in which they came, and misses    *)
(* only those that a full ring gave up (readBuffer), unless one was         *)
(* overwritten under a reader.                                              *)
THEOREM AlwaysReadInOrder == Spec => []ReadInOrder
<1>1. IInv => ReadInOrder
  <2> SUFFICES ASSUME RxInv, reader = "read", toRead > 0, ~torn
               PROVE  rxBuffer[rPTemp] = expected
    BY DEF IInv, ReadInOrder
  <2>1. RxTypeOK /\ RxPlaces /\ ReaderBetween /\ RxHolds
    BY RxPlace DEF RxInv
  <2>2. Unread \in 1 .. RxLen - 1 /\ Oldest \in 0 .. RxLen - 1
        /\ expected \in 0 .. Numbers - 1 /\ Oldest = rPTemp
    BY <2>1, Sizes DEF ReaderBetween, RxPlaces, RxTypeOK, Oldest
  <2>3. Holds(rxBuffer, RxLen, Oldest, Unread, expected)
    BY <2>1 DEF RxHolds
  <2> QED BY <2>2, <2>3, Sizes, HoldsLess
<1> QED BY <1>1, Invariance, PTL

(* A byte is given up for a new one only when the ring holds as many as it  *)
(* can (the interrupt handler of reception).                                *)
THEOREM OnlyOverwritesWhenFull == Spec => OverwritesWhenFull
<1> DEFINE Step == rxHandler /\ readP' # readP /\ reader = "idle" /\ ~torn =>
                     (arriving - expected + Numbers) % Numbers = RxLen - 1
<1>1. IInv => Step
  <2> SUFFICES ASSUME RxInv, rxHandler, readP' # readP, reader = "idle", ~torn
               PROVE  (arriving - expected + Numbers) % Numbers = RxLen - 1
    BY DEF IInv
  <2>1. RxTypeOK /\ RxHolds
    BY DEF RxInv
  <2>2. Stored = RxLen - 1
    BY <2>1, ReachFits DEF rxHandler
  <2>3. Unread = RxLen - 1
    BY <2>2 DEF Unread, Stored, Oldest
  <2>4. arriving = Forward(expected, RxLen - 1, Numbers)
    BY <2>1, <2>3 DEF RxHolds
  <2>5. arriving \in 0 .. Numbers - 1 /\ expected \in 0 .. Numbers - 1
        /\ RxLen - 1 \in 0 .. Numbers - 1 /\ Numbers > 0
    BY <2>1, Sizes DEF RxTypeOK
  <2>6. Between(expected, arriving, Numbers) = RxLen - 1
    BY <2>4, <2>5, Sizes, ThereAndBack
  <2>7. arriving \in Nat /\ arriving < Numbers /\ expected \in Nat /\ expected < Numbers
    BY <2>5, Sizes
  <2> QED BY <2>6, <2>7, Sizes, BetweenModulo
<1>2. Spec => [][Step]_vars
  BY <1>1, Invariance, PTL
<1> QED BY <1>2 DEF OverwritesWhenFull
=============================================================================

-------------------------- MODULE FlashMemoryProofs --------------------------
(***************************************************************************)
(* What holds of the frame store for any sizes of frames, sectors and      *)
(* memory, as long as the data acquisition adds no frame while it          *)
(* retrieves others.                                                       *)
(***************************************************************************)
EXTENDS FlashMemory, SequenceTheorems, TLAPS

(* A store that is empty and not writeable starts to erase at the bottom.   *)
EmptyStartsOver == nOfFrames = 0 /\ ~writeable => noWrite = 0

(* Every location below the count holds one frame.                          *)
SlotsHoldFrames ==
  ~failed => \A i \in 0 .. nOfFrames - 1 : \E f \in Frame : \A c \in Slot(i) : mem[c] = f

(* The inductive invariant.  RoomIsErased is what makes the next frame      *)
(* whole, EmptyStartsOver what makes it true after the memory was emptied.  *)
IInv == TypeOK /\ EmptyStartsOver /\ RoomIsErased /\ SlotsHoldFrames

(* Multiplication is monotonic.                                             *)
LEMMA TimesMonotonic ==
  ASSUME NEW i \in Nat, NEW j \in Nat, NEW k \in Nat, i <= j
  PROVE  i * k <= j * k
<1>1. PICK d \in Nat : j = i + d
  <2>1. j - i \in Nat /\ j = i + (j - i)
    OBVIOUS
  <2>. QED
    BY <2>1
<1>2. j * k = i * k + d * k
  BY <1>1
<1>3. d * k \in Nat /\ i * k \in Nat
  OBVIOUS
<1>. QED
  BY <1>2, <1>3

(* Locations follow each other.                                             *)
LEMMA AddressNext ==
  ASSUME NEW i \in Nat
  PROVE  /\ Address(i) \in Nat
         /\ Address(i + 1) = Address(i) + FrameSize
         /\ i * FrameSize \in Nat
<1>1. FrameSize \in Nat /\ Reserved \in Nat
  BY SizeAssumption
<1>2. i * FrameSize \in Nat
  BY <1>1
<1>3. (i + 1) * FrameSize = i * FrameSize + FrameSize
  BY <1>1
<1>. QED
  BY <1>1, <1>2, <1>3 DEF Address

LEMMA AddressMonotonic ==
  ASSUME NEW i \in Nat, NEW j \in Nat, i <= j
  PROVE  Address(i) <= Address(j)
<1>1. FrameSize \in Nat /\ Reserved \in Nat
  BY SizeAssumption
<1>2. i * FrameSize <= j * FrameSize
  BY <1>1, TimesMonotonic
<1>3. i * FrameSize \in Nat /\ j * FrameSize \in Nat
  BY AddressNext
<1>. QED
  BY <1>1, <1>2, <1>3 DEF Address

(* A location above another one begins after its end.                       *)
LEMMA SlotsApart ==
  ASSUME NEW i \in Nat, NEW j \in Nat, i < j, NEW c \in Slot(i)
  PROVE  c < Address(j) /\ c \notin Slot(j)
<1>1. Address(i + 1) <= Address(j)
  BY AddressMonotonic
<1>2. Address(i) + FrameSize <= Address(j)
  BY <1>1, AddressNext
<1>3. FrameSize \in Nat /\ Address(i) \in Nat /\ Address(j) \in Nat
  BY SizeAssumption, AddressNext
<1>. QED
  BY <1>2, <1>3 DEF Slot

(* The locations of as many frames as there is room for lie in the memory.  *)
LEMMA SlotInMemory ==
  ASSUME NEW i \in 0 .. Capacity - 1
  PROVE  Slot(i) \subseteq Cell /\ Slot(i) # {} /\ Address(i) \in Slot(i)
<1>1. i \in Nat /\ Capacity \in Nat /\ i + 1 \in Nat /\ i + 1 <= Capacity
  BY SizeAssumption
<1>2. Address(i) + FrameSize <= Address(Capacity)
  BY <1>1, AddressMonotonic, AddressNext
<1>3. /\ FrameSize \in Nat \ {0} /\ MemorySize \in Nat
      /\ Address(Capacity) < MemorySize
      /\ Address(i) \in Nat /\ Address(Capacity) \in Nat
  BY <1>1, SizeAssumption, AddressNext
<1>. QED
  BY <1>2, <1>3 DEF Slot, Cell

(* The frames fit exactly when they are not more than the capacity.         *)
LEMMA Fits ==
  ASSUME NEW n \in 0 .. Capacity
  PROVE  Address(n) + FrameSize < MemorySize <=> n < Capacity
<1>1. n \in Nat /\ Capacity \in Nat
  BY SizeAssumption
<1>2. CASE n < Capacity
  <2>1. Address(n) + FrameSize <= Address(Capacity)
    BY <1>1, <1>2, AddressMonotonic, AddressNext
  <2>2. /\ Address(Capacity) < MemorySize /\ MemorySize \in Nat /\ FrameSize \in Nat
        /\ Address(n) \in Nat /\ Address(Capacity) \in Nat
    BY <1>1, SizeAssumption, AddressNext
  <2>. QED
    BY <1>2, <2>1, <2>2
<1>3. CASE n = Capacity
  <2>1. Address(Capacity) + FrameSize >= MemorySize
    BY SizeAssumption
  <2>2. MemorySize \in Nat /\ FrameSize \in Nat /\ Address(Capacity) \in Nat
    BY <1>1, SizeAssumption, AddressNext
  <2>. QED
    BY <1>3, <2>1, <2>2
<1>. QED
  BY <1>1, <1>2, <1>3

----------------------------------------------------------------------------
(* What AddFrame does before it programs: as long as no device operation    *)
(* fails, all cells from the end of the frames on that count as erased are, *)
(* and those of the frames are left alone.                                  *)
LEMMA Preparation ==
  ASSUME IInv, ~Interleaved, ~failed,
         Interleaved \/ writeable \/ nOfFrames = 0,
         NEW opened \in Opened, NEW more \in 0..1,
         writeable \/ opened = 4,
         NEW bound, bound = noWrite + opened * SectorSize,
         NEW next, next = bound + more * SectorSize,
         NEW clean, clean = Erase(mem, noWrite, next)
  PROVE  /\ bound \in Nat /\ next \in Nat
         /\ Address(nOfFrames) <= bound /\ bound <= next
         /\ more = 1 => next = bound + SectorSize
         /\ \A c \in Cell : Address(nOfFrames) <= c /\ c < next => clean[c] = Erased
         /\ \A c \in Cell : c < Address(nOfFrames) /\ nOfFrames > 0 => clean[c] = mem[c]
<1>1. /\ SectorSize \in Nat /\ Reserved \in Nat /\ Reserved <= 4 * SectorSize
      /\ noWrite \in Nat /\ nOfFrames \in Nat /\ Capacity \in Nat
  BY SizeAssumption DEF IInv, TypeOK
<1>2. Address(nOfFrames) \in Nat
  BY <1>1, AddressNext
<1>3. more * SectorSize \in Nat /\ (more = 1 => more * SectorSize = SectorSize)
  BY <1>1
<1>4. CASE writeable
  <2>1. opened = 0 /\ bound = noWrite
    BY <1>1, <1>4 DEF Opened
  <2>2. /\ Address(nOfFrames) <= noWrite
        /\ \A c \in Cell : Address(nOfFrames) <= c /\ c < noWrite => mem[c] = Erased
    BY <1>4 DEF IInv, RoomIsErased
  <2>3. ASSUME NEW c \in Cell
        PROVE  clean[c] = IF noWrite <= c /\ c < next THEN Erased ELSE mem[c]
    BY <1>1, <1>3, <2>1 DEF Erase, Cell
  <2>4. \A c \in Cell : c \in Nat
    BY DEF Cell
  <2>. QED
    BY <1>1, <1>2, <1>3, <2>1, <2>2, <2>3, <2>4
<1>5. CASE ~writeable
  <2>1. nOfFrames = 0 /\ noWrite = 0 /\ opened = 4 /\ bound = 4 * SectorSize
    BY <1>1, <1>5 DEF IInv, EmptyStartsOver
  <2>2. Address(nOfFrames) = Reserved
    BY <1>1, <2>1, SizeAssumption DEF Address
  <2>3. ASSUME NEW c \in Cell
        PROVE  clean[c] = IF c < next THEN Erased ELSE mem[c]
    BY <1>1, <1>3, <2>1 DEF Erase, Cell
  <2>. QED
    BY <1>1, <1>2, <1>3, <2>1, <2>2, <2>3
<1>. QED
  BY <1>4, <1>5

(* What programming a prepared location does.                               *)
LEMMA Programming ==
  ASSUME NEW clean \in [Cell -> Frame \cup {Erased, Garbage}],
         NEW n \in 0 .. Capacity - 1, NEW f
  PROVE  /\ \A c \in Slot(n) : clean[c] = Erased => Program(clean, n, f)[c] = f
         /\ \A c \in Cell \ Slot(n) : Program(clean, n, f)[c] = clean[c]
BY SlotInMemory DEF Program

LEMMA CellTypes ==
  ASSUME TypeOK, NEW from, NEW to, NEW n, NEW f \in Frame \cup {Garbage}
  PROVE  /\ Erase(mem, from, to) \in [Cell -> Frame \cup {Erased, Garbage}]
         /\ Program(Erase(mem, from, to), n, f) \in [Cell -> Frame \cup {Erased, Garbage}]
BY DEF TypeOK, Erase, Program

(* AddFrame when no device operation fails: the frame is in its location    *)
(* and the others are where they were, or there is no room left.            *)
LEMMA AddFrameEffect ==
  ASSUME IInv, ~Interleaved, NEW f \in Frame, AddFrame(f), ~failed'
  PROVE  /\ ~failed /\ (writeable \/ nOfFrames = 0)
         /\ RoomIsErased'
         /\ \A i \in 0 .. nOfFrames - 1 : \A c \in Slot(i) : mem'[c] = mem[c]
         /\ \/ /\ nOfFrames = Capacity /\ nOfFrames' = nOfFrames
               /\ result' = Error
            \/ /\ nOfFrames < Capacity /\ nOfFrames' = nOfFrames + 1
               /\ result' = Ok
               /\ \A c \in Slot(nOfFrames) : mem'[c] = f
<1>1. PICK opened \in Opened, more \in 0..1 : AddFrame(f)!(opened, more)
  BY DEF AddFrame
<1>. DEFINE n == nOfFrames
            bound == noWrite + opened * SectorSize
            clean == Erase(mem, noWrite, noWrite')
            needed == Top < MemorySize /\ Top >= bound
            complete == (writeable \/ opened = 4) /\ (needed => more = 1)
            Refused == /\ Top >= MemorySize /\ mem' = clean
                       /\ result' = Error /\ n' = n
            Stored == /\ Top < MemorySize /\ mem' = Program(clean, n, f)
                      /\ n' = n + 1 /\ result' = Ok
            Failed == /\ Top < MemorySize /\ mem' = Program(clean, n, Garbage)
                      /\ result' = Error /\ failed' = TRUE /\ n' = n
<1>2. /\ Interleaved \/ writeable \/ n = 0
      /\ noWrite' = bound + more * SectorSize
      /\ writeable' = TRUE
      /\ more = 1 => needed
      /\ \/ Refused /\ failed' = (failed \/ ~complete)
         \/ Stored /\ failed' = (failed \/ ~complete)
         \/ Failed
  BY <1>1
<1>3. /\ n \in 0 .. Capacity /\ n \in Nat /\ Capacity \in Nat /\ n + 1 \in Nat
      /\ FrameSize \in Nat /\ SectorSize \in Nat /\ FrameSize <= SectorSize
      /\ MemorySize \in Nat /\ noWrite \in Nat /\ opened \in 0..4
      /\ failed \in BOOLEAN
  BY SizeAssumption DEF IInv, TypeOK, Opened
<1>4. /\ Address(n) \in Nat /\ Address(n + 1) = Address(n) + FrameSize
      /\ Top = Address(n + 1)
      /\ Top < MemorySize <=> n < Capacity
  BY <1>3, AddressNext, Fits DEF Top
<1>5. clean \in [Cell -> Frame \cup {Erased, Garbage}]
  BY CellTypes DEF IInv
<1>. HIDE DEF clean
<1>6. ~failed /\ complete /\ (Refused \/ Stored)
  BY <1>2, <1>3
<1>7. /\ bound \in Nat /\ noWrite' \in Nat
      /\ Address(n) <= bound /\ bound <= noWrite'
      /\ more = 1 => noWrite' = bound + SectorSize
      /\ \A c \in Cell : Address(n) <= c /\ c < noWrite' => clean[c] = Erased
      /\ \A c \in Cell : c < Address(n) /\ n > 0 => clean[c] = mem[c]
  BY <1>2, <1>6, Preparation DEF clean
<1>8. ASSUME NEW i \in 0 .. n - 1
      PROVE  \A c \in Slot(i) : c \in Cell \ Slot(n) /\ clean[c] = mem[c]
  <2>1. i \in Nat /\ i < n /\ n > 0 /\ i \in 0 .. Capacity - 1
    BY <1>3
  <2>2. \A c \in Slot(i) : c \in Cell \ Slot(n) /\ c < Address(n)
    BY <1>3, <2>1, SlotsApart, SlotInMemory
  <2>. QED
    BY <1>7, <2>1, <2>2
<1>9. CASE Refused
  <2>1. RoomIsErased'
    BY <1>7, <1>9, <1>4 DEF RoomIsErased
  <2>2. n = Capacity
    BY <1>3, <1>4, <1>9 DEF Top
  <2>. QED
    BY <1>2, <1>6, <1>8, <1>9, <2>1, <2>2, Zenon
<1>10. CASE Stored
  <2>1. n \in 0 .. Capacity - 1 /\ n < Capacity /\ Address(n + 1) <= noWrite'
    BY <1>2, <1>3, <1>4, <1>6, <1>7, <1>10
  <2>2. Slot(n) \subseteq Cell
    BY <2>1, SlotInMemory
  <2>3. /\ \A c \in Slot(n) : clean[c] = Erased => mem'[c] = f
        /\ \A c \in Cell \ Slot(n) : mem'[c] = clean[c]
    BY <1>5, <1>10, <2>1, Programming
  <2>4. \A c \in Slot(n) : Address(n) <= c /\ c < Address(n + 1)
    BY <1>3, <1>4 DEF Slot
  <2>5. \A c \in Slot(n) : mem'[c] = f
    <3>1. \A c \in Slot(n) : c < noWrite'
      BY <1>3, <1>4, <1>7, <2>1, <2>4 DEF Slot
    <3>. QED
      BY <1>7, <2>2, <2>3, <2>4, <3>1
  <2>6. RoomIsErased'
    <3>1. ASSUME NEW c \in Cell, Address(n + 1) <= c, c < noWrite'
          PROVE  mem'[c] = Erased
      <4>1. c \notin Slot(n) /\ Address(n) <= c
        BY <3>1, <1>3, <1>4, <2>4 DEF Cell
      <4>. QED
        BY <1>7, <2>3, <3>1, <4>1
    <3>. QED
      BY <1>10, <2>1, <3>1 DEF RoomIsErased
  <2>. QED
    BY <1>2, <1>6, <1>8, <1>10, <2>1, <2>3, <2>5, <2>6
<1>. QED
  BY <1>6, <1>9, <1>10

LEMMA AddFrameKeepsInvariant ==
  ASSUME IInv, ~Interleaved, NEW f \in Frame, AddFrame(f)
  PROVE  IInv'
<1>. DEFINE n == nOfFrames
<1>1. n \in 0 .. Capacity /\ n \in Nat /\ Capacity \in Nat /\ SectorSize \in Nat
  BY SizeAssumption DEF IInv, TypeOK
<1>2. TypeOK' /\ EmptyStartsOver'
  <2>1. PICK opened \in Opened, more \in 0..1 : AddFrame(f)!(opened, more)
    BY DEF AddFrame
  <2>2. noWrite' \in Nat
    BY <1>1, <2>1 DEF IInv, TypeOK, Opened
  <2>3. mem' \in [Cell -> Frame \cup {Erased, Garbage}]
    BY <2>1, CellTypes DEF IInv
  <2>4. nOfFrames' \in 0 .. Capacity
    BY <1>1, <2>1, Fits DEF Top
  <2>5. /\ failed' \in BOOLEAN /\ writeable' = TRUE
        /\ result' \in Frame \cup {Ok, Error, Garbage}
    BY <2>1 DEF IInv, TypeOK
  <2>. QED
    BY <2>2, <2>3, <2>4, <2>5 DEF TypeOK, EmptyStartsOver
<1>3. ASSUME ~failed'
      PROVE  RoomIsErased' /\ SlotsHoldFrames'
  <2>1. ASSUME NEW i \in 0 .. n' - 1
        PROVE  \E g \in Frame : \A c \in Slot(i) : mem'[c] = g
    <3>1. CASE i \in 0 .. n - 1
      <4>1. PICK g \in Frame : \A c \in Slot(i) : mem[c] = g
        BY <1>3, <3>1, AddFrameEffect DEF IInv, SlotsHoldFrames
      <4>. QED
        BY <1>3, <3>1, <4>1, AddFrameEffect
    <3>2. CASE i \notin 0 .. n - 1
      <4>1. i = n /\ n' = n + 1
        BY <1>1, <1>3, <2>1, <3>2, AddFrameEffect
      <4>. QED
        BY <1>1, <1>3, <4>1, AddFrameEffect
    <3>. QED
      BY <3>1, <3>2
  <2>. QED
    BY <1>3, <2>1, AddFrameEffect DEF SlotsHoldFrames
<1>4. ASSUME failed'
      PROVE  RoomIsErased' /\ SlotsHoldFrames'
  BY <1>4 DEF RoomIsErased, SlotsHoldFrames
<1>. QED
  BY <1>2, <1>3, <1>4 DEF IInv

LEMMA RetrieveFrameKeepsInvariant ==
  ASSUME IInv, RetrieveFrame
  PROVE  IInv'
<1>1. nOfFrames \in Nat /\ Capacity \in Nat
  BY SizeAssumption DEF IInv, TypeOK
<1>2. TypeOK'
  <2>1. nOfFrames' \in 0 .. Capacity
    BY <1>1 DEF IInv, TypeOK, RetrieveFrame
  <2>2. result' \in Frame \cup {Garbage}
    BY DEF RetrieveFrame, Content
  <2>. QED
    BY <2>1, <2>2 DEF IInv, TypeOK, RetrieveFrame
<1>3. EmptyStartsOver'
  BY DEF EmptyStartsOver, RetrieveFrame
<1>4. RoomIsErased'
  BY DEF RoomIsErased, RetrieveFrame
<1>5. SlotsHoldFrames'
  <2>1. \A i \in 0 .. nOfFrames' - 1 : i \in 0 .. nOfFrames - 1
    BY <1>1 DEF RetrieveFrame
  <2>. QED
    BY <2>1 DEF IInv, SlotsHoldFrames, RetrieveFrame
<1>. QED
  BY <1>2, <1>3, <1>4, <1>5 DEF IInv

LEMMA InitHolds == Init => IInv
<1>1. Init => TypeOK
  <2>1. 0 \in 0 .. Capacity
    BY SizeAssumption
  <2>2. [c \in Cell |-> Garbage] \in [Cell -> Frame \cup {Erased, Garbage}]
    OBVIOUS
  <2>3. Init => /\ mem \in [Cell -> Frame \cup {Erased, Garbage}]
                /\ nOfFrames \in 0 .. Capacity
    BY <2>1, <2>2, Zenon DEF Init
  <2>4. Init => noWrite \in Nat
    BY DEF Init
  <2>5. Init => /\ writeable \in BOOLEAN /\ failed \in BOOLEAN
                /\ result \in Frame \cup {Ok, Error, Garbage}
    BY Zenon DEF Init
  <2>. QED
    BY <2>3, <2>4, <2>5 DEF TypeOK
<1>2. Init => EmptyStartsOver /\ RoomIsErased /\ SlotsHoldFrames
  BY DEF Init, EmptyStartsOver, RoomIsErased, SlotsHoldFrames
<1>. QED
  BY <1>1, <1>2 DEF IInv

LEMMA StepKeepsInvariant ==
  ASSUME ~Interleaved, IInv, [Next]_vars
  PROVE  IInv'
<1>1. ASSUME NEW f \in Frame, AddFrame(f)
      PROVE  IInv'
  BY <1>1, AddFrameKeepsInvariant
<1>2. CASE RetrieveFrame
  BY <1>2, RetrieveFrameKeepsInvariant
<1>3. CASE RetrieveFails
  BY <1>3 DEF IInv, TypeOK, EmptyStartsOver, RoomIsErased, SlotsHoldFrames, RetrieveFails
<1>4. CASE UNCHANGED vars
  BY <1>4 DEF IInv, TypeOK, EmptyStartsOver, RoomIsErased, SlotsHoldFrames, vars
<1>. QED
  BY <1>1, <1>2, <1>3, <1>4 DEF Next

(* The inductive invariant holds in every reachable state.                  *)
THEOREM Invariance ==
  ASSUME ~Interleaved
  PROVE  Spec => []IInv
<1>1. IInv /\ [Next]_vars => IInv'
  BY StepKeepsInvariant
<1>. QED
  BY InitHolds, <1>1, PTL DEF Spec

(* The count stays between zero and the capacity, and every cell holds a    *)
(* frame, garbage, or is erased: AddFrame never writes beyond the memory.   *)
THEOREM TypeCorrect ==
  ASSUME ~Interleaved
  PROVE  Spec => []TypeOK
<1>1. IInv => TypeOK
  BY DEF IInv
<1>. QED
  BY Invariance, <1>1, PTL

(* Until a device operation fails, AddFrame programs erased cells only.     *)
THEOREM RoomErased ==
  ASSUME ~Interleaved
  PROVE  Spec => []RoomIsErased
<1>1. IInv => RoomIsErased
  BY DEF IInv
<1>. QED
  BY Invariance, <1>1, PTL

(* Every location below the count holds one frame until a device operation  *)
(* fails.                                                                   *)
THEOREM FramesWhole ==
  ASSUME ~Interleaved
  PROVE  Spec => []FramesAreWhole
<1>1. ASSUME IInv
      PROVE  FramesAreWhole
  <2>1. Garbage \notin Frame
    BY SizeAssumption
  <2>. QED
    BY <1>1, <2>1 DEF IInv, SlotsHoldFrames, FramesAreWhole, Content
<1>2. IInv => FramesAreWhole
  BY <1>1
<1>. QED
  BY Invariance, <1>2, PTL

----------------------------------------------------------------------------
(* The refinement *)

(* A location that holds one frame in all its cells has it as its content.  *)
LEMMA ContentIs ==
  ASSUME NEW i \in 0 .. Capacity - 1, NEW f \in Frame,
         \A c \in Slot(i) : mem[c] = f
  PROVE  Content(i) = f
<1>1. Address(i) \in Slot(i)
  BY SlotInMemory
<1>2. \A g \in Frame : (\A c \in Slot(i) : mem[c] = g) => g = f
  BY <1>1
<1>. QED
  BY <1>2 DEF Content

(* Equal cells have equal content.                                          *)
LEMMA ContentSame ==
  ASSUME NEW i, \A c \in Slot(i) : mem'[c] = mem[c]
  PROVE  Content(i)' = Content(i)
BY DEF Content

stackNow == [i \in 1..nOfFrames |-> Content(i - 1)]

LEMMA StackLength ==
  ASSUME TypeOK
  PROVE  /\ stackNow \in Seq(Frame \cup {Garbage})
         /\ Len(stackNow) = nOfFrames /\ nOfFrames \in Nat /\ Capacity \in Nat
<1>1. nOfFrames \in Nat /\ Capacity \in Nat
  BY SizeAssumption DEF TypeOK
<1>2. \A i : Content(i) \in Frame \cup {Garbage}
  BY DEF Content
<1>. QED
  BY <1>1, <1>2 DEF stackNow

(* Append as a function.                                                    *)
LEMMA AppendIs ==
  ASSUME NEW S, NEW s \in Seq(S), NEW x \in S
  PROVE  Append(s, x) = [i \in 1 .. Len(s) + 1 |-> IF i \in 1 .. Len(s) THEN s[i] ELSE x]
<1>. DEFINE t == [i \in 1 .. Len(s) + 1 |-> IF i \in 1 .. Len(s) THEN s[i] ELSE x]
<1>1. t \in Seq(S) /\ Len(t) = Len(s) + 1
  OBVIOUS
<1>2. Append(s, x) \in Seq(S) /\ Len(Append(s, x)) = Len(s) + 1
  OBVIOUS
<1>3. \A i \in 1 .. Len(s) + 1 : Append(s, x)[i] = t[i]
  OBVIOUS
<1>. HIDE DEF t
<1>4. Append(s, x) = t
  BY <1>1, <1>2, <1>3, SeqEqual
<1>. QED
  BY <1>4 DEF t

LEMMA AddFrameImplements ==
  ASSUME IInv, ~Interleaved, NEW f \in Frame, AddFrame(f)
  PROVE  Stack!Next
<1>1. CASE failed'
  BY <1>1 DEF Stack!Next, Stack!Fail
<1>2. ASSUME ~failed'
      PROVE  Stack!Next
  <2>1. writeable' = TRUE /\ (failed' <=> failed) /\ failed \in BOOLEAN /\ failed' \in BOOLEAN
    BY <1>2, AddFrameEffect, AddFrameKeepsInvariant DEF AddFrame, IInv, TypeOK
  <2>2. nOfFrames \in Nat /\ Capacity \in Nat /\ Capacity > 0
    BY SizeAssumption DEF IInv, TypeOK
  <2>3. \A i \in 0 .. nOfFrames - 1 : Content(i)' = Content(i)
    BY <1>2, AddFrameEffect, ContentSame
  <2>4. CASE nOfFrames = Capacity /\ nOfFrames' = nOfFrames /\ result' = Error
    <3>1. stackNow' = stackNow
      BY <2>2, <2>3, <2>4 DEF stackNow
    <3>2. Len(stackNow) = Capacity
      BY <2>4, StackLength DEF IInv
    <3>3. (nOfFrames > 0 /\ ~writeable)' = (nOfFrames > 0 /\ ~writeable)
      BY <1>2, <2>1, <2>2, <2>4, AddFrameEffect
    <3>. QED
      BY <2>1, <2>4, <3>1, <3>2, <3>3
      DEF Stack!Next, Stack!AddRefused, Stack!Error, Error, stackNow
  <2>5. CASE /\ nOfFrames < Capacity /\ nOfFrames' = nOfFrames + 1 /\ result' = Ok
             /\ \A c \in Slot(nOfFrames) : mem'[c] = f
    <3>1. nOfFrames \in 0 .. Capacity - 1
      BY <2>2, <2>5
    <3>2. ASSUME NEW i, i = nOfFrames
          PROVE  Content(i)' = f
      <4>1. Address(i) \in Slot(i)
        BY <3>1, <3>2, SlotInMemory
      <4>2. \A g \in Frame : (\A c \in Slot(i) : mem'[c] = g) <=> g = f
        BY <2>5, <3>2, <4>1
      <4>. QED
        BY <4>2 DEF Content
    <3>3. stackNow' = Append(stackNow, f)
      <4>1. nOfFrames' \in Nat /\ 1 .. nOfFrames' = 1 .. nOfFrames + 1
        BY <2>2, <2>5
      <4>2. stackNow' = [i \in 1 .. nOfFrames + 1 |-> Content(i - 1)']
        BY <4>1 DEF stackNow
      <4>3. \A i \in 1 .. nOfFrames : Content(i - 1)' = Content(i - 1)
        <5>1. \A i \in 1 .. nOfFrames : i - 1 \in 0 .. nOfFrames - 1
          BY <2>2
        <5>. QED
          BY <2>3, <5>1, Zenon
      <4>4. \A i \in 1 .. nOfFrames + 1 : i \notin 1 .. nOfFrames => i - 1 = nOfFrames
        BY <2>2
      <4>5. \A i \in 1 .. nOfFrames + 1 :
              Content(i - 1)' = IF i \in 1 .. nOfFrames THEN Content(i - 1) ELSE f
        BY <3>2, <4>3, <4>4, Zenon
      <4>6. /\ stackNow \in Seq(Frame \cup {Garbage}) /\ Len(stackNow) = nOfFrames
            /\ \A i \in 1 .. nOfFrames : stackNow[i] = Content(i - 1)
        BY StackLength DEF IInv, stackNow
      <4>7. Append(stackNow, f) =
              [i \in 1 .. nOfFrames + 1 |-> IF i \in 1 .. nOfFrames THEN Content(i - 1) ELSE f]
        <5>1. Append(stackNow, f) = [i \in 1 .. Len(stackNow) + 1 |->
                IF i \in 1 .. Len(stackNow) THEN stackNow[i] ELSE f]
          BY <4>6, AppendIs
        <5>. QED
          BY <4>6, <5>1
      <4>. QED
        BY <4>2, <4>5, <4>7, Zenon
    <3>4. Len(stackNow) < Capacity /\ ~(nOfFrames > 0 /\ ~writeable)
          /\ (nOfFrames > 0 /\ ~writeable)' = FALSE
      BY <1>2, <2>1, <2>2, <2>5, StackLength, AddFrameEffect DEF IInv
    <3>. QED
      BY <2>1, <2>5, <3>3, <3>4
      DEF Stack!Next, Stack!Add, Stack!Ok, Ok, stackNow
  <2>. QED
    BY <1>2, <2>4, <2>5, AddFrameEffect
<1>. QED
  BY <1>1, <1>2

LEMMA RetrieveFrameImplements ==
  ASSUME IInv, RetrieveFrame
  PROVE  Stack!Next
<1>1. /\ nOfFrames \in Nat /\ nOfFrames > 0 /\ nOfFrames' = nOfFrames - 1
      /\ nOfFrames' \in Nat
  BY DEF IInv, TypeOK, RetrieveFrame
<1>2. /\ stackNow \in Seq(Frame \cup {Garbage}) /\ Len(stackNow) = nOfFrames
      /\ \A i \in 1 .. nOfFrames : stackNow[i] = Content(i - 1)
  BY StackLength DEF IInv, stackNow
<1>3. result' = stackNow[Len(stackNow)] /\ stackNow # <<>>
  BY <1>1, <1>2 DEF RetrieveFrame
<1>4. \A i : Content(i)' = Content(i)
  BY ContentSame DEF RetrieveFrame
<1>5. stackNow' = [i \in 1 .. nOfFrames - 1 |-> Content(i - 1)]
  BY <1>1, <1>4 DEF stackNow
<1>6. SubSeq(stackNow, 1, Len(stackNow) - 1) = [i \in 1 .. nOfFrames - 1 |-> Content(i - 1)]
  BY <1>1, <1>2
<1>7. (nOfFrames > 0 /\ ~writeable)' = (Len(stackNow) > 1)
  BY <1>1, <1>2 DEF RetrieveFrame
<1>8. UNCHANGED failed
  BY DEF RetrieveFrame
<1>. QED
  BY <1>3, <1>5, <1>6, <1>7, <1>8 DEF Stack!Next, Stack!Retrieve, stackNow

LEMMA StepImplements ==
  ASSUME ~Interleaved, IInv, [Next]_vars
  PROVE  [Stack!Next]_(Stack!vars)
<1>1. ASSUME NEW f \in Frame, AddFrame(f)
      PROVE  Stack!Next
  BY <1>1, AddFrameImplements
<1>2. CASE RetrieveFrame
  BY <1>2, RetrieveFrameImplements
<1>3. CASE RetrieveFails
  <2>1. \A i : Content(i)' = Content(i)
    BY <1>3, ContentSame DEF RetrieveFails
  <2>2. stackNow' = stackNow
    BY <1>3, <2>1 DEF stackNow, RetrieveFails
  <2>. QED
    BY <1>3, <2>2
    DEF RetrieveFails, Stack!Next, Stack!RetrieveRefused, Stack!Error, Error, stackNow
<1>4. CASE UNCHANGED vars
  <2>1. \A i : Content(i)' = Content(i)
    BY <1>4, ContentSame DEF vars
  <2>2. stackNow' = stackNow
    BY <1>4, <2>1 DEF stackNow, vars
  <2>. QED
    BY <1>4, <2>2 DEF vars, Stack!vars, stackNow
<1>. QED
  BY <1>1, <1>2, <1>3, <1>4 DEF Next

LEMMA InitImplements == Init => Stack!Init
<1>1. ASSUME Init
      PROVE  [i \in 1 .. nOfFrames |-> Content(i - 1)] = <<>>
  <2>1. 1 .. nOfFrames = {}
    BY <1>1 DEF Init
  <2>. QED
    BY <2>1
<1>. QED
  BY <1>1 DEF Init, Stack!Init, Stack!Ok, Ok

(* The flash memory is a stack of frames, from the bottom to a full memory  *)
(* and any number of times, until a device operation fails.                 *)
THEOREM StackImplementation ==
  ASSUME ~Interleaved
  PROVE  Spec => StackImplemented
<1>1. IInv /\ [Next]_vars => [Stack!Next]_(Stack!vars)
  BY StepImplements
<1>. QED
  BY InitImplements, Invariance, <1>1, PTL DEF Spec, StackImplemented, Stack!Spec
=============================================================================

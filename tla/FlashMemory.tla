----------------------------- MODULE FlashMemory -----------------------------
(***************************************************************************)
(* The frame store of the spectrometer board.  A cell of the flash memory  *)
(* can be programmed once after its sector has been erased.  Three static  *)
(* variables say what is there: how many frames, whether writing has been  *)
(* prepared, and the first address that has not been erased.  Frames are   *)
(* retrieved from the last one to the first.                               *)
(*                                                                         *)
(* The size of a frame never changes, so that the variable that remembers  *)
(* it and the checks against it are left out.                              *)
(***************************************************************************)
EXTENDS Naturals, Sequences

CONSTANTS
  Frame,       \* the frames
  FrameSize,   \* cells of a frame
  SectorSize,  \* cells of a sector, which is erased as a whole
  Reserved,    \* cells below the first frame
  MemorySize,  \* cells of the memory
  Capacity,    \* how many frames there is room for
  Interleaved  \* TRUE: frames may be added while others are retrieved

Erased == "erased"
Garbage == "garbage"  \* cells that do not hold one frame
Error == "error"
Ok == "ok"

(* The location of frame i, counted from 0.                                 *)
Address(i) == Reserved + i * FrameSize
Slot(i) == Address(i) .. Address(i) + FrameSize - 1

(* The last cell of the memory is never used.                               *)
ASSUME SizeAssumption ==
  /\ {FrameSize, SectorSize, Capacity} \subseteq Nat \ {0}
  /\ Reserved \in Nat /\ MemorySize \in Nat
  /\ FrameSize <= SectorSize /\ Reserved <= 4 * SectorSize
  /\ Address(Capacity) < MemorySize
  /\ Address(Capacity) + FrameSize >= MemorySize
  /\ Interleaved \in BOOLEAN
  /\ Frame \cap {Erased, Garbage, Error, Ok} = {}

Cell == 0 .. MemorySize - 1

VARIABLES
  mem,        \* the content of every cell
  nOfFrames,  \* flashMemory_nOfFrames
  noWrite,    \* flashMemory_noWriteAddress
  writeable,  \* flashMemory_writeable
  result,     \* what the last call returned
  failed      \* a device operation that changes memory has failed

vars == <<mem, nOfFrames, noWrite, writeable, result, failed>>

TypeOK ==
  /\ mem \in [Cell -> Frame \cup {Erased, Garbage}]
  /\ nOfFrames \in 0..Capacity
  /\ noWrite \in Nat
  /\ writeable \in BOOLEAN
  /\ result \in Frame \cup {Ok, Error, Garbage}
  /\ failed \in BOOLEAN

(* After power up the memory holds what it held before.                     *)
Init ==
  /\ mem = [c \in Cell |-> Garbage]
  /\ nOfFrames = 0 /\ noWrite = 0 /\ writeable = FALSE
  /\ result = Ok /\ failed = FALSE

----------------------------------------------------------------------------
Erase(m, from, to) == [c \in Cell |-> IF c \in from .. to - 1 THEN Erased ELSE m[c]]

Program(m, i, f) ==
  [c \in Cell |-> IF c \notin Slot(i) THEN m[c]
                  ELSE IF m[c] = Erased THEN f ELSE Garbage]

(* The end of the location of the next frame.                               *)
Top == Address(nOfFrames) + FrameSize

(* How many sectors are erased to prepare for writing: four, if all is well.*)
Opened == IF writeable THEN {0} ELSE 0..4

(* AddFrame: prepare for writing if necessary, refuse a frame that does not *)
(* fit, erase one more sector if necessary, and program.  Erasing and       *)
(* programming may fail; that erasing failed is not noticed.                *)
AddFrame(f) ==
  \E opened \in Opened, more \in 0..1 :
    LET bound == noWrite + opened * SectorSize
        needed == Top < MemorySize /\ Top >= bound
        clean == Erase(mem, noWrite, noWrite')
        complete == (writeable \/ opened = 4) /\ (needed => more = 1)
    IN
    /\ Interleaved \/ writeable \/ nOfFrames = 0
    /\ more = 1 => needed
    /\ noWrite' = bound + more * SectorSize
    /\ writeable' = TRUE
    /\ \/ /\ Top >= MemorySize
          /\ mem' = clean
          /\ result' = Error
          /\ failed' = (failed \/ ~complete)
          /\ UNCHANGED nOfFrames
       \/ /\ Top < MemorySize
          /\ mem' = Program(clean, nOfFrames, f)
          /\ nOfFrames' = nOfFrames + 1
          /\ result' = Ok
          /\ failed' = (failed \/ ~complete)
       \/ /\ Top < MemorySize
          /\ mem' = Program(clean, nOfFrames, Garbage)
          /\ result' = Error
          /\ failed' = TRUE
          /\ UNCHANGED nOfFrames

(* What is read from the location of frame i.                               *)
Content(i) ==
  IF \E f \in Frame : \A c \in Slot(i) : mem[c] = f
    THEN CHOOSE f \in Frame : \A c \in Slot(i) : mem[c] = f
    ELSE Garbage

\* mutant of RetrieveFrame: the sectors still count as erased when empty
RetrieveFrameNoReset ==
  /\ nOfFrames > 0
  /\ result' = Content(nOfFrames - 1)
  /\ nOfFrames' = nOfFrames - 1
  /\ writeable' = FALSE
  /\ UNCHANGED <<mem, noWrite, failed>>

(* RetrieveFrame.  Once the memory is empty all of it must be erased before *)
(* it is used again.                                                        *)
RetrieveFrame ==
  /\ nOfFrames > 0
  /\ result' = Content(nOfFrames - 1)
  /\ nOfFrames' = nOfFrames - 1
  /\ writeable' = FALSE
  /\ noWrite' = IF nOfFrames' = 0 THEN 0 ELSE noWrite
  /\ UNCHANGED <<mem, failed>>

(* There is no frame, or reading fails.                                     *)
RetrieveFails ==
  /\ result' = Error
  /\ UNCHANGED <<mem, nOfFrames, noWrite, writeable, failed>>

Next ==
  \/ \E f \in Frame : AddFrame(f)
  \/ RetrieveFrame
  \/ RetrieveFails

Spec == Init /\ [][Next]_vars

----------------------------------------------------------------------------
(* Properties *)

(* The cells from the end of the frames to "the first non-writable address" *)
(* are erased while the store is writeable, and no frame lies above it.     *)
RoomIsErased ==
  ~failed /\ writeable =>
    /\ Address(nOfFrames) <= noWrite
    /\ \A c \in Cell : Address(nOfFrames) <= c /\ c < noWrite => mem[c] = Erased

(* Every location below the count holds one frame.                          *)
FramesAreWhole == ~failed => \A i \in 0 .. nOfFrames - 1 : Content(i) # Garbage

(* The store is a stack, across erased sectors, a full memory and any       *)
(* number of times that it is filled and emptied.                           *)
Stack == INSTANCE FrameStack WITH
  stack <- [i \in 1..nOfFrames |-> Content(i - 1)],
  emptying <- nOfFrames > 0 /\ ~writeable
StackImplemented == Stack!Spec
=============================================================================

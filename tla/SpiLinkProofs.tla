---------------------------- MODULE SpiLinkProofs ----------------------------
(***************************************************************************)
(* The buffers of the SPI link are never overrun, for every packet and     *)
(* every size of the buffers, whatever size field is read, however the     *)
(* handshakes of the boards miss each other and whichever loop times out.  *)
(* When the slave keeps up with the clock the boards never both send or    *)
(* both receive, and what is received is the packet that was sent.         *)
(***************************************************************************)
EXTENDS SpiLink, TLAPS

Moving == {"size", "header", "data"}

(* Where the loops are in the packet: a sender has a character to send, a   *)
(* receiver room for one and, behind the size, one that was announced.      *)
Indices ==
  \A b \in Boards :
    /\ pc[b] \in {"wait", "sync"} => moved[b] = 0
    /\ role[b] = "tx" /\ pc[b] \in Moving => moved[b] < Len(Packet)
    /\ role[b] = "rx" /\ pc[b] = "size" => moved[b] < 2
    /\ role[b] = "rx" /\ pc[b] \in {"header", "data"} =>
         moved[b] >= 2 /\ moved[b] < Buffer /\ left[b] > 0

(* The handshake has passed a beginning of its string.                      *)
InString ==
  /\ pc["ctl"] = "sync" => inSync["ctl"] \in 1 .. SyncLen - 1
  /\ pc["spec"] = "sync" => inSync["spec"] \in 0 .. SyncLen - 2

IInv == TypeOK /\ Indices /\ InString

----------------------------------------------------------------------------

LEMMA Sizes ==
  /\ HeaderSize \in Nat /\ HeaderSize > 0 /\ DataRoom \in Nat /\ DataRoom > 0
  /\ Len(Packet) \in Nat
  /\ Len(Packet) > 2 /\ Len(Packet) < 2 + HeaderSize + DataRoom
  /\ Buffer \in Nat /\ BodySize \in AnySize
  /\ \A i \in 1 .. Len(Packet) : Packet[i] \in Chars
BY PacketAssumption DEF Buffer, BodySize, AnySize, Chars, PacketChars

LEMMA SyncTypes == \A r, i : Sync(r, i) \in Chars
BY DEF Sync, Chars, SyncChars

LEMMA Dummy == "dummy" \in Chars /\ "nul" \in Chars
BY DEF Chars

LEMMA Queued ==
  ASSUME TypeOK, NEW c \in Chars
  PROVE  /\ Len(sOut) < 2 => Append(sOut, c) \in Seq(Chars) /\ Len(Append(sOut, c)) <= 2
         /\ SpecWrite(c) => sOut' \in Seq(Chars) /\ Len(sOut') <= 2
<1>1. sOut \in Seq(Chars) /\ Len(sOut) <= 2
  BY DEF TypeOK
<1>2. Append(sOut, c) \in Seq(Chars) /\ Len(Append(sOut, c)) = Len(sOut) + 1
  BY <1>1
<1>3. Len(sOut) < 2 => Len(Append(sOut, c)) <= 2
  BY <1>1, <1>2
<1>4. SpecWrite(c) => (Len(sOut) < 2 /\ sOut' = Append(sOut, c)) \/ sOut' = sOut
  BY DEF SpecWrite
<1> QED  BY <1>1, <1>2, <1>3, <1>4

LEMMA Parts ==
  ASSUME NEW i \in Nat
  PROVE  /\ PartOf(i) \in Moving \union {"drain"}
         /\ PartOf(i) # "drain" => i <= Len(Packet)
<1>1. CASE i <= 2
  BY <1>1, Sizes DEF PartOf, Moving
<1>2. CASE i > 2 /\ i <= 2 + HeaderSize
  BY <1>2, Sizes, PacketAssumption DEF PartOf, Moving
<1>3. CASE i > 2 + HeaderSize /\ i <= Len(Packet)
  BY <1>3, Sizes DEF PartOf, Moving
<1>4. CASE i > 2 + HeaderSize /\ i > Len(Packet)
  BY <1>4, Sizes DEF PartOf, Moving
<1> QED  BY <1>1, <1>2, <1>3, <1>4, Sizes

LEMMA Phases ==
  ASSUME NEW p \in PCs, NEW n \in Nat, NEW l \in Nat, n <= Buffer
  PROVE  /\ PhaseAfter(p, n, l) \in Moving \union {"end"}
         /\ PhaseAfter(p, n, l) = "size" <=> n < 2
         /\ PhaseAfter(p, n, l) \in {"header", "data"} => n < Buffer /\ l > 0
BY Sizes DEF PhaseAfter, Moving, Buffer

----------------------------------------------------------------------------

LEMMA InitIInv == ASSUME Init PROVE IInv
<1>1. /\ pc \in [Boards -> PCs] /\ role \in [Boards -> Roles]
      /\ ind \in [Boards -> BOOLEAN] /\ good \in [Boards -> BOOLEAN] /\ dummies \in BOOLEAN
      /\ ret \in [Boards -> Returns]
  BY DEF Init, PCs, Roles, Returns
<1>2. /\ inSync \in [Boards -> 0 .. SyncLen] /\ moved \in [Boards -> 0 .. Buffer]
      /\ left \in [Boards -> AnySize]
  BY Sizes DEF Init, SyncLen, AnySize
<1>3. /\ mTdr \in Chars \union {None} /\ mRdr \in Chars \union {None}
      /\ sOut \in Seq(Chars) /\ Len(sOut) <= 2
      /\ sRdr \in Chars \union {None} /\ sLast \in Chars
  BY Dummy DEF Init
<1>4. \A b \in Boards : pc[b] = "idle"
  BY DEF Init
<1>5. Indices /\ InString
  BY <1>4 DEF Indices, InString, Boards, Moving
<1> QED  BY <1>1, <1>2, <1>3, <1>5 DEF IInv, TypeOK, Buffer

LEMMA ClockKeeps == ASSUME IInv, Clock PROVE IInv'
<1>1. UNCHANGED board
  BY DEF Clock
<1>2. /\ mTdr' = None /\ sRdr' \in Chars /\ sLast' \in Chars
      /\ mRdr' \in Chars /\ sOut' \in Seq(Chars) /\ Len(sOut') <= 2
  <2>1. CASE sOut = <<>>
    BY <2>1 DEF Clock, IInv, TypeOK
  <2>2. CASE sOut # <<>>
    BY <2>2 DEF Clock, IInv, TypeOK
  <2> QED  BY <2>1, <2>2
<1> QED
  BY <1>1, <1>2 DEF IInv, TypeOK, Indices, InString, board

(* A step that only leaves the packet function, or goes to a place where no *)
(* character is moved.                                                      *)
LEMMA LeavingKeeps ==
  ASSUME IInv, NEW b \in Boards, NEW p \in {"idle", "enter", "early", "drain"},
         pc' = [pc EXCEPT ![b] = p], UNCHANGED <<moved, left, inSync, good, dummies>>,
         role' \in [Boards -> Roles], \A c \in Boards \ {b} : role'[c] = role[c],
         ind' \in [Boards -> BOOLEAN], ret' \in [Boards -> Returns], UNCHANGED wire
  PROVE  IInv'
<1>1. pc' \in [Boards -> PCs]
  BY DEF IInv, TypeOK, PCs
<1>2. TypeOK'
  BY <1>1 DEF IInv, TypeOK, wire
<1>3. pc'[b] \notin Moving \union {"wait", "sync"}
  BY DEF IInv, TypeOK, Moving
<1>4. \A c \in Boards \ {b} : pc'[c] = pc[c]
  BY DEF IInv, TypeOK
<1>5. Indices'
  BY <1>3, <1>4 DEF IInv, Indices, Moving
<1>6. InString'
  BY <1>3, <1>4 DEF IInv, InString, Boards
<1> QED  BY <1>2, <1>5, <1>6 DEF IInv

LEMMA CallKeeps ==
  ASSUME IInv, NEW b \in Boards, NEW r \in Roles, Call(b, r)
  PROVE  IInv'
<1>1. \E p \in {"enter", "early"} : pc' = [pc EXCEPT ![b] = p]
  BY DEF Call
<1>2. /\ role' = [role EXCEPT ![b] = r]
      /\ UNCHANGED <<ind, inSync, moved, left, good, dummies, ret, wire>>
  BY DEF Call
<1>3. /\ role' \in [Boards -> Roles] /\ \A c \in Boards \ {b} : role'[c] = role[c]
      /\ ind' \in [Boards -> BOOLEAN] /\ ret' \in [Boards -> Returns]
  BY <1>2 DEF IInv, TypeOK
<1> QED  BY <1>1, <1>2, <1>3, LeavingKeeps

LEMMA ReturnKeeps ==
  ASSUME IInv, NEW b \in Boards, NEW r \in Returns, Return(b, r),
         UNCHANGED <<role, inSync, moved, left, good, dummies, wire>>
  PROVE  IInv'
<1>1. /\ pc' = [pc EXCEPT ![b] = "idle"]
      /\ ind' \in [Boards -> BOOLEAN] /\ ret' \in [Boards -> Returns]
      /\ role' \in [Boards -> Roles]
  BY DEF Return, IInv, TypeOK
<1> QED  BY <1>1, LeavingKeeps

(* Both places from which a handshake begins.                               *)
LEMMA StartSyncKeeps ==
  ASSUME IInv, NEW b \in Boards, StartSync(b), moved'[b] = 0,
         moved' \in [Boards -> 0 .. Buffer], \A c \in Boards \ {b} : moved'[c] = moved[c],
         ind' \in [Boards -> BOOLEAN], good' \in [Boards -> BOOLEAN], dummies' \in BOOLEAN,
         mRdr' \in Chars \union {None}, sRdr' \in Chars \union {None},
         UNCHANGED <<role, left, ret, sLast>>
  PROVE  IInv'
<1>1. pc' = [pc EXCEPT ![b] = "sync"]
      /\ inSync' = [inSync EXCEPT ![b] = IF b = "ctl" THEN 1 ELSE 0]
  BY DEF StartSync
<1>2. mTdr' \in Chars \union {None} /\ sOut' \in Seq(Chars) /\ Len(sOut') <= 2
  BY SyncTypes, Queued DEF StartSync, IInv, TypeOK
<1>3. pc' \in [Boards -> PCs] /\ inSync' \in [Boards -> 0 .. SyncLen]
  BY <1>1 DEF IInv, TypeOK, PCs, SyncLen
<1>4. TypeOK'
  BY <1>2, <1>3 DEF IInv, TypeOK, Buffer
<1>5. pc'[b] = "sync" /\ \A c \in Boards \ {b} : pc'[c] = pc[c]
  BY <1>1 DEF IInv, TypeOK
<1>6. Indices'
  BY <1>5 DEF IInv, Indices, Moving
<1>7. InString'
  BY <1>1 DEF IInv, TypeOK, InString, Boards, SyncLen
<1> QED  BY <1>4, <1>6, <1>7 DEF IInv

LEMMA EnterKeeps ==
  ASSUME IInv, NEW b \in Boards, Enter(b)
  PROVE  IInv'
<1>1. /\ ind' = [ind EXCEPT ![b] = TRUE] /\ moved' = [moved EXCEPT ![b] = 0]
      /\ good' = [good EXCEPT ![b] = TRUE]
      /\ UNCHANGED <<role, left, ret, sLast>>
  BY DEF Enter
<1>2. /\ ind' \in [Boards -> BOOLEAN] /\ good' \in [Boards -> BOOLEAN]
      /\ moved' \in [Boards -> 0 .. Buffer] /\ moved'[b] = 0
      /\ \A c \in Boards \ {b} : moved'[c] = moved[c]
  BY <1>1, Sizes DEF IInv, TypeOK, Buffer
<1>3. dummies' \in BOOLEAN
  BY DEF Enter
<1>4. mRdr' \in Chars \union {None} /\ sRdr' \in Chars \union {None}
  BY DEF Enter, IInv, TypeOK
<1>5. CASE role[b] = "rx"
  <2>1. StartSync(b)
    BY <1>5 DEF Enter
  <2> QED  BY <1>1, <1>2, <1>3, <1>4, <2>1, StartSyncKeeps
<1>6. CASE role[b] # "rx"
  <2>1. pc' = [pc EXCEPT ![b] = "wait"] /\ UNCHANGED <<inSync, mTdr, sOut>>
    BY <1>6 DEF Enter
  <2>2. pc' \in [Boards -> PCs]
    BY <2>1 DEF IInv, TypeOK, PCs
  <2>3. TypeOK'
    BY <1>1, <1>2, <1>3, <1>4, <2>1, <2>2 DEF IInv, TypeOK, Buffer
  <2>4. pc'[b] = "wait" /\ \A c \in Boards \ {b} : pc'[c] = pc[c]
    BY <2>1 DEF IInv, TypeOK
  <2>5. Indices'
    BY <1>1, <1>2, <2>4 DEF IInv, Indices, Moving
  <2>6. InString'
    BY <2>1, <2>4 DEF IInv, InString, Boards
  <2> QED  BY <2>3, <2>5, <2>6 DEF IInv
<1> QED  BY <1>5, <1>6

LEMMA WaitKeeps ==
  ASSUME IInv, NEW b \in Boards, WaitSeen(b) \/ WaitExpired(b)
  PROVE  IInv'
<1>1. CASE WaitSeen(b)
  <2>1. pc[b] = "wait" /\ StartSync(b)
        /\ UNCHANGED <<role, ind, moved, left, good, dummies, ret, mRdr, sRdr, sLast>>
    BY <1>1 DEF WaitSeen
  <2>2. moved[b] = 0
    BY <2>1 DEF IInv, Indices
  <2>3. /\ moved' \in [Boards -> 0 .. Buffer] /\ ind' \in [Boards -> BOOLEAN]
        /\ good' \in [Boards -> BOOLEAN] /\ dummies' \in BOOLEAN
        /\ mRdr' \in Chars \union {None} /\ sRdr' \in Chars \union {None}
    BY <2>1 DEF IInv, TypeOK, Buffer
  <2> QED  BY <2>1, <2>2, <2>3, StartSyncKeeps
<1>2. CASE WaitExpired(b)
  BY <1>2, ReturnKeeps DEF WaitExpired, Returns
<1> QED  BY <1>1, <1>2

(* A pass through the loop of the handshake.                                *)
LEMMA HandshakeKeeps ==
  ASSUME IInv, NEW b \in Boards, NEW k \in 0 .. SyncLen, pc[b] = "sync",
         inSync' = [inSync EXCEPT ![b] = k],
         \/ pc' = [pc EXCEPT ![b] = "idle"]
         \/ pc' = [pc EXCEPT ![b] = "size"]
         \/ /\ pc' = [pc EXCEPT ![b] = "sync"]
            /\ b = "ctl" => k \in 1 .. SyncLen - 1
            /\ b = "spec" => k \in 0 .. SyncLen - 2,
         ind' \in [Boards -> BOOLEAN], ret' \in [Boards -> Returns],
         mTdr' \in Chars \union {None}, mRdr' \in Chars \union {None},
         sRdr' \in Chars \union {None}, sOut' \in Seq(Chars), Len(sOut') <= 2,
         UNCHANGED <<role, moved, left, good, dummies, sLast>>
  PROVE  IInv'
<1>1. pc' \in [Boards -> PCs] /\ inSync' \in [Boards -> 0 .. SyncLen]
  BY DEF IInv, TypeOK, PCs
<1>2. TypeOK'
  BY <1>1 DEF IInv, TypeOK
<1>3. pc'[b] \in {"idle", "size", "sync"} /\ \A c \in Boards \ {b} : pc'[c] = pc[c]
  BY DEF IInv, TypeOK
<1>4. moved[b] = 0
  BY DEF IInv, Indices
<1>5. Indices'
  BY <1>3, <1>4, Sizes DEF IInv, Indices, Moving
<1>6. InString'
  BY DEF IInv, TypeOK, InString, Boards
<1> QED  BY <1>2, <1>5, <1>6 DEF IInv

LEMMA CtlSyncKeeps == ASSUME IInv, CtlSync PROVE IInv'
<1> DEFINE k == inSync["ctl"]
           r == role["ctl"]
           asked == IF k = SyncLen - 1 THEN Partner(r) ELSE Sync(r, k - 1)
           agreed == mRdr = asked
           next == IF agreed THEN k + 1 ELSE IF k = SyncLen - 1 THEN k ELSE 1
           done == next = SyncLen
           conflict == k = SyncLen - 1 /\ ~agreed
<1>1. /\ pc["ctl"] = "sync" /\ mRdr' = None
      /\ inSync' = [inSync EXCEPT !["ctl"] = next]
      /\ mTdr' = CASE ~done -> Sync(r, next)
                   [] done /\ r = "rx" -> "dummy"
                   [] OTHER -> None
      /\ IF conflict THEN Return("ctl", "conflict")
         ELSE /\ pc' = [pc EXCEPT !["ctl"] = IF done THEN "size" ELSE "sync"]
              /\ UNCHANGED <<ind, ret>>
      /\ UNCHANGED <<role, moved, left, good, dummies, sOut, sRdr, sLast>>
  BY DEF CtlSync
<1>2. k \in 1 .. SyncLen - 1
  BY <1>1 DEF IInv, InString
<1>3. next \in 1 .. SyncLen /\ (~done => next \in 1 .. SyncLen - 1)
  BY <1>2 DEF SyncLen
<1>4. mTdr' \in Chars \union {None}
  BY <1>1, SyncTypes, Dummy
<1>5. /\ \/ pc' = [pc EXCEPT !["ctl"] = "idle"]
         \/ pc' = [pc EXCEPT !["ctl"] = "size"]
         \/ pc' = [pc EXCEPT !["ctl"] = "sync"] /\ next \in 1 .. SyncLen - 1
      /\ ind' \in [Boards -> BOOLEAN] /\ ret' \in [Boards -> Returns]
  BY <1>1, <1>3 DEF Return, IInv, TypeOK, Returns
<1>6. mRdr' \in Chars \union {None} /\ sRdr' \in Chars \union {None}
      /\ sOut' \in Seq(Chars) /\ Len(sOut') <= 2
  BY <1>1 DEF IInv, TypeOK
<1>7. "ctl" \in Boards /\ next \in 0 .. SyncLen
  BY <1>3 DEF Boards
<1> HIDE DEF next
<1> QED  BY <1>1, <1>4, <1>5, <1>6, <1>7, HandshakeKeeps

LEMMA SpecSyncKeeps == ASSUME IInv, SpecSync PROVE IInv'
<1>1. PICK c \in Chars :
       LET k == inSync["spec"]
           r == role["spec"]
           agreed == c = IF k = 3 THEN Partner(r) ELSE Sync(r, k + 1)
           next == IF agreed THEN k + 1 ELSE IF k = 3 THEN k ELSE 0
           done == next = SyncLen - 1
       IN
       /\ SpecRead(c)
       /\ inSync' = [inSync EXCEPT !["spec"] = next]
       /\ AnswerSync(r, next)
       /\ IF k = 3 /\ ~agreed THEN Return("spec", "conflict")
          ELSE /\ pc' = [pc EXCEPT !["spec"] = IF done THEN "size" ELSE "sync"]
               /\ UNCHANGED <<ind, ret>>
  BY DEF SpecSync
<1> DEFINE k == inSync["spec"]
           r == role["spec"]
           agreed == c = IF k = 3 THEN Partner(r) ELSE Sync(r, k + 1)
           next == IF agreed THEN k + 1 ELSE IF k = 3 THEN k ELSE 0
           done == next = SyncLen - 1
<1>2. /\ SpecRead(c) /\ inSync' = [inSync EXCEPT !["spec"] = next]
      /\ AnswerSync(r, next)
      /\ IF k = 3 /\ ~agreed THEN Return("spec", "conflict")
         ELSE /\ pc' = [pc EXCEPT !["spec"] = IF done THEN "size" ELSE "sync"]
              /\ UNCHANGED <<ind, ret>>
  BY <1>1
<1>3. /\ pc["spec"] = "sync" /\ Len(sOut) < 2
      /\ UNCHANGED <<role, moved, left, good, dummies, mTdr, mRdr, sLast>>
  BY DEF SpecSync
<1>4. k \in 0 .. SyncLen - 2
  BY <1>3 DEF IInv, InString
<1>5. next \in 0 .. SyncLen /\ (~done => next \in 0 .. SyncLen - 2)
  BY <1>4 DEF SyncLen
<1>6. sOut' \in Seq(Chars) /\ Len(sOut') <= 2
  BY <1>2, SyncTypes, Queued DEF AnswerSync, IInv, TypeOK
<1>7. sRdr' \in Chars \union {None}
  BY <1>2 DEF SpecRead, IInv, TypeOK
<1>8. /\ \/ pc' = [pc EXCEPT !["spec"] = "idle"]
         \/ pc' = [pc EXCEPT !["spec"] = "size"]
         \/ pc' = [pc EXCEPT !["spec"] = "sync"] /\ next \in 0 .. SyncLen - 2
      /\ ind' \in [Boards -> BOOLEAN] /\ ret' \in [Boards -> Returns]
  BY <1>2, <1>5 DEF Return, IInv, TypeOK, Returns
<1>9. mTdr' \in Chars \union {None} /\ mRdr' \in Chars \union {None} /\ "spec" \in Boards
  BY <1>3 DEF IInv, TypeOK, Boards
<1> HIDE DEF next
<1> QED  BY <1>2, <1>3, <1>5, <1>6, <1>7, <1>8, <1>9, HandshakeKeeps

LEMMA LostKeeps ==
  ASSUME IInv, NEW b \in Boards,
         \/ SyncLost(b) \/ ReceiveLost(b)
         \/ b = "spec" /\ SpecSyncTimeout
         \/ b = "ctl" /\ CtlSendLost
  PROVE  IInv'
<1>1. \E r \in Returns : Return(b, r)
  BY DEF SyncLost, ReceiveLost, SpecSyncTimeout, CtlSendLost, Returns
<1>2. UNCHANGED <<role, inSync, moved, left, good, dummies, wire>>
  BY DEF SyncLost, ReceiveLost, SpecSyncTimeout, CtlSendLost
<1> QED  BY <1>1, <1>2, ReturnKeeps

LEMMA SendKeeps ==
  ASSUME IInv, NEW b \in Boards, SendChar(b)
  PROVE  IInv'
<1>1. /\ role[b] = "tx" /\ pc[b] \in Moving
      /\ moved' = [moved EXCEPT ![b] = moved[b] + 1]
      /\ pc' = [pc EXCEPT ![b] = PartOf(moved[b] + 2)]
      /\ UNCHANGED <<role, ind, inSync, left, good, dummies, mRdr, sRdr, sLast>>
  BY DEF SendChar, Sending, Moving
<1>2. moved[b] \in Nat /\ moved[b] < Len(Packet)
  BY <1>1, Sizes DEF IInv, Indices, TypeOK
<1>3. moved' \in [Boards -> 0 .. Buffer] /\ moved'[b] = moved[b] + 1
  BY <1>1, <1>2, Sizes DEF IInv, TypeOK, Buffer
<1>4. /\ PartOf(moved[b] + 2) \in Moving \union {"drain"}
      /\ PartOf(moved[b] + 2) # "drain" => moved[b] + 2 <= Len(Packet)
  BY <1>2, Parts
<1>5. /\ pc' \in [Boards -> PCs] /\ pc'[b] = PartOf(moved[b] + 2)
      /\ \A c \in Boards \ {b} : pc'[c] = pc[c] /\ moved'[c] = moved[c]
  BY <1>1, <1>4 DEF IInv, TypeOK, Moving, PCs
<1>6. ret' \in [Boards -> Returns]
  BY DEF SendChar, IInv, TypeOK, Returns
<1>7. Packet[moved[b] + 1] \in Chars
  BY <1>2, Sizes
<1>8. mTdr' \in Chars \union {None} /\ sOut' \in Seq(Chars) /\ Len(sOut') <= 2
  BY <1>7, Queued DEF SendChar, IInv, TypeOK
<1>9. TypeOK'
  BY <1>1, <1>3, <1>5, <1>6, <1>8 DEF IInv, TypeOK, Buffer
<1>10. Indices'
  BY <1>1, <1>2, <1>3, <1>4, <1>5, Sizes DEF IInv, Indices, Moving
<1>11. InString'
  BY <1>1, <1>4, <1>5 DEF IInv, InString, Boards, Moving
<1> QED  BY <1>9, <1>10, <1>11 DEF IInv

LEMMA DrainKeeps ==
  ASSUME IInv, NEW b \in Boards, Drain(b) \/ (b = "spec" /\ SpecSendFails)
  PROVE  IInv'
<1>1. CASE Drain(b)
  <2>1. \E r \in Returns : Return(b, r)
    BY <1>1 DEF Drain, Returns, IInv, TypeOK
  <2> QED  BY <1>1, <2>1, ReturnKeeps DEF Drain
<1>2. CASE b = "spec" /\ SpecSendFails
  <2>1. pc' = [pc EXCEPT ![b] = "drain"]
        /\ UNCHANGED <<role, ind, inSync, moved, left, good, dummies, wire>>
    BY <1>2 DEF SpecSendFails
  <2>2. /\ ret' \in [Boards -> Returns] /\ ind' \in [Boards -> BOOLEAN]
        /\ role' \in [Boards -> Roles]
    BY <1>2 DEF SpecSendFails, IInv, TypeOK, Returns
  <2> QED  BY <2>1, <2>2, LeavingKeeps
<1> QED  BY <1>1, <1>2

(* What reading a character does to the indices of the receiver.            *)
LEMMA ReceiveIndices ==
  ASSUME IInv, NEW b \in Boards, NEW c, Receive(b, c)
  PROVE  /\ pc' \in [Boards -> PCs] /\ moved' \in [Boards -> 0 .. Buffer]
         /\ left' \in [Boards -> AnySize] /\ ind' \in [Boards -> BOOLEAN]
         /\ ret' \in [Boards -> Returns]
         /\ Indices' /\ InString'
<1> DEFINE n == moved[b] + 1
<1>1. /\ role[b] = "rx" /\ pc[b] \in Moving /\ UNCHANGED <<role, inSync>>
      /\ moved' = [moved EXCEPT ![b] = n]
  BY DEF Receive, Receiving, Moving
<1>2. moved[b] \in Nat /\ pc[b] \in PCs /\ left[b] \in AnySize
  BY DEF IInv, TypeOK
<1>3. n \in Nat /\ n <= Buffer /\ (n > 2 => left[b] > 0) /\ (n <= 2 => pc[b] = "size")
  <2>1. pc[b] = "size" => moved[b] < 2
    BY <1>1 DEF IInv, Indices
  <2>2. pc[b] # "size" => moved[b] >= 2 /\ moved[b] < Buffer /\ left[b] > 0
    BY <1>1 DEF IInv, Indices, Moving
  <2> QED  BY <1>2, <2>1, <2>2, Sizes DEF Buffer
<1>4. PICK l \in AnySize :
        /\ left' = [left EXCEPT ![b] = l]
        /\ \/ pc' = [pc EXCEPT ![b] = "idle"] /\ PhaseAfter(pc[b], n, l) = "end"
           \/ /\ pc' = [pc EXCEPT ![b] = PhaseAfter(pc[b], n, l)]
              /\ PhaseAfter(pc[b], n, l) # "end"
        /\ ind' \in [Boards -> BOOLEAN] /\ ret' \in [Boards -> Returns]
  <2>1. PICK l \in IF n < 2 THEN {0} ELSE IF n = 2 THEN {BodySize} \union AnySize
                   ELSE {left[b] - 1} :
          /\ left' = [left EXCEPT ![b] = l]
          /\ \/ \E r \in Returns : Return(b, r) /\ PhaseAfter(pc[b], n, l) = "end"
             \/ /\ pc' = [pc EXCEPT ![b] = PhaseAfter(pc[b], n, l)]
                /\ PhaseAfter(pc[b], n, l) # "end" /\ UNCHANGED <<ind, ret>>
    <3>1. \A m, l, d : Verdict(b, m, l, d) \in Returns
      BY DEF Verdict, Returns
    <3> QED  BY <3>1 DEF Receive, SizesOf
  <2>2. l \in AnySize
    <3>1. 0 \in AnySize
      BY Sizes DEF AnySize
    <3>2. n > 2 => left[b] - 1 \in AnySize
      BY <1>2, <1>3, Sizes DEF AnySize
    <3>3. BodySize \in AnySize
      BY Sizes
    <3>4. CASE n < 2
      BY <2>1, <3>1, <3>4
    <3>5. CASE n = 2
      BY <2>1, <3>3, <3>5
    <3>6. CASE n > 2
      <4>1. ~(n < 2) /\ n # 2
        BY <1>3, <3>6
      <4> QED  BY <2>1, <3>2, <3>6, <4>1
    <3> QED  BY <1>3, <3>4, <3>5, <3>6
  <2>3. /\ ind' \in [Boards -> BOOLEAN] /\ ret' \in [Boards -> Returns]
        /\ \/ pc' = [pc EXCEPT ![b] = "idle"] /\ PhaseAfter(pc[b], n, l) = "end"
           \/ /\ pc' = [pc EXCEPT ![b] = PhaseAfter(pc[b], n, l)]
              /\ PhaseAfter(pc[b], n, l) # "end"
    <3>1. CASE \E r \in Returns : Return(b, r) /\ PhaseAfter(pc[b], n, l) = "end"
      BY <3>1 DEF Return, IInv, TypeOK
    <3>2. CASE /\ pc' = [pc EXCEPT ![b] = PhaseAfter(pc[b], n, l)]
               /\ PhaseAfter(pc[b], n, l) # "end" /\ UNCHANGED <<ind, ret>>
      BY <3>2 DEF IInv, TypeOK
    <3> QED  BY <2>1, <3>1, <3>2
  <2> HIDE DEF n
  <2> QED  BY <2>1, <2>2, <2>3
<1>5. l \in Nat
  BY Sizes DEF AnySize
<1>6. /\ PhaseAfter(pc[b], n, l) \in Moving \union {"end"}
      /\ PhaseAfter(pc[b], n, l) = "size" <=> n < 2
      /\ PhaseAfter(pc[b], n, l) \in {"header", "data"} => n < Buffer /\ l > 0
  BY <1>2, <1>3, <1>5, Phases
<1>7. /\ pc'[b] \in Moving \union {"idle"} /\ pc'[b] \in PCs
      /\ pc'[b] = "size" => n < 2
      /\ pc'[b] \in {"header", "data"} => n < Buffer /\ l > 0 /\ n >= 2
  <2>1. pc'[b] = "idle" \/ (pc'[b] = PhaseAfter(pc[b], n, l) /\ pc'[b] # "end")
    BY <1>4 DEF IInv, TypeOK
  <2> QED  BY <1>3, <1>6, <2>1 DEF Moving, PCs
<1>8. \A d \in Boards \ {b} : pc'[d] = pc[d] /\ moved'[d] = moved[d] /\ left'[d] = left[d]
  BY <1>1, <1>4 DEF IInv, TypeOK
<1>9. pc' \in [Boards -> PCs] /\ left' \in [Boards -> AnySize] /\ left'[b] = l
  BY <1>4, <1>6 DEF IInv, TypeOK, Moving, PCs
<1>10. moved' \in [Boards -> 0 .. Buffer] /\ moved'[b] = n
  BY <1>1, <1>3 DEF IInv, TypeOK, Buffer
<1>11. Indices'
  BY <1>1, <1>7, <1>8, <1>9, <1>10 DEF IInv, Indices, Moving
<1>12. InString'
  BY <1>1, <1>7, <1>8 DEF IInv, InString, Boards, Moving
<1> QED  BY <1>4, <1>9, <1>10, <1>11, <1>12

LEMMA ReceiveKeeps ==
  ASSUME IInv, NEW b \in Boards, NEW c, Receive(b, c),
         mTdr' \in Chars \union {None}, mRdr' \in Chars \union {None},
         sRdr' \in Chars \union {None}, sOut' \in Seq(Chars), Len(sOut') <= 2,
         UNCHANGED sLast
  PROVE  IInv'
<1>1. good' \in [Boards -> BOOLEAN]
  <2>1. \E i \in BOOLEAN : good' = [good EXCEPT ![b] = i]
    BY Zenon DEF Receive
  <2> QED  BY <2>1 DEF IInv, TypeOK
<1>2. dummies' \in BOOLEAN /\ UNCHANGED <<role, inSync>>
  BY DEF Receive
<1> QED  BY <1>1, <1>2, ReceiveIndices DEF IInv, TypeOK, Buffer

LEMMA ReceivesKeep ==
  ASSUME IInv, CtlReceive \/ SpecReceive
  PROVE  IInv'
<1>1. CASE CtlReceive
  <2>1. /\ Receive("ctl", mRdr) /\ mRdr' = None /\ mTdr' = "dummy"
        /\ UNCHANGED <<sOut, sRdr, sLast>>
    BY <1>1 DEF CtlReceive
  <2>2. sRdr' \in Chars \union {None} /\ sOut' \in Seq(Chars) /\ Len(sOut') <= 2
    BY <2>1 DEF IInv, TypeOK
  <2>3. "ctl" \in Boards
    BY DEF Boards
  <2> QED  BY <2>1, <2>2, <2>3, Dummy, ReceiveKeeps
<1>2. CASE SpecReceive
  <2>1. PICK c \in Chars : SpecRead(c) /\ Receive("spec", c)
    BY <1>2 DEF SpecReceive
  <2>2. UNCHANGED <<mTdr, mRdr, sOut, sLast>>
    BY <1>2 DEF SpecReceive
  <2>3. /\ sRdr' \in Chars \union {None} /\ sOut' \in Seq(Chars) /\ Len(sOut') <= 2
        /\ mTdr' \in Chars \union {None} /\ mRdr' \in Chars \union {None}
    BY <2>1, <2>2 DEF SpecRead, IInv, TypeOK
  <2>4. "spec" \in Boards
    BY DEF Boards
  <2> QED  BY <2>1, <2>2, <2>3, <2>4, ReceiveKeeps
<1> QED  BY <1>1, <1>2

LEMMA TimeoutKeeps == ASSUME IInv, SpecReceiveTimeout PROVE IInv'
<1>1. /\ role["spec"] = "rx" /\ pc["spec"] \in Moving /\ "spec" \in Boards
      /\ UNCHANGED <<role, inSync, dummies, wire>>
  BY DEF SpecReceiveTimeout, Receiving, Moving, Boards
<1>2. CASE pc["spec"] = "data"
  BY <1>1, <1>2, ReturnKeeps DEF SpecReceiveTimeout, Returns
<1>3. CASE pc["spec"] # "data"
  <2>1. PICK l \in AnySize :
          /\ left' = [left EXCEPT !["spec"] = l]
          /\ \/ Return("spec", "count")
             \/ /\ l # 0 /\ pc' = [pc EXCEPT !["spec"] = "data"]
                /\ UNCHANGED <<ind, ret>>
    BY <1>3 DEF SpecReceiveTimeout, IInv, TypeOK, Boards
  <2>2. moved' = [moved EXCEPT !["spec"] = 2 + HeaderSize]
        /\ good' = [good EXCEPT !["spec"] = FALSE]
    BY <1>3 DEF SpecReceiveTimeout
  <2>3. /\ ind' \in [Boards -> BOOLEAN] /\ ret' \in [Boards -> Returns]
        /\ \/ pc' = [pc EXCEPT !["spec"] = "idle"]
           \/ l # 0 /\ pc' = [pc EXCEPT !["spec"] = "data"]
    <3>1. CASE Return("spec", "count")
      BY <3>1, <1>1 DEF Return, IInv, TypeOK, Returns
    <3>2. CASE l # 0 /\ pc' = [pc EXCEPT !["spec"] = "data"] /\ UNCHANGED <<ind, ret>>
      BY <3>2 DEF IInv, TypeOK
    <3> QED  BY <2>1, <3>1, <3>2
  <2>4. 2 + HeaderSize \in 0 .. Buffer /\ 2 + HeaderSize < Buffer /\ 2 + HeaderSize >= 2
    BY Sizes DEF Buffer
  <2>5. /\ pc' \in [Boards -> PCs] /\ moved' \in [Boards -> 0 .. Buffer]
        /\ left' \in [Boards -> AnySize] /\ good' \in [Boards -> BOOLEAN]
    BY <2>1, <2>2, <2>3, <2>4 DEF IInv, TypeOK, PCs, Buffer
  <2>6. TypeOK'
    BY <1>1, <2>3, <2>5 DEF IInv, TypeOK, wire, Buffer
  <2>7. /\ pc'["spec"] = "idle" \/ (pc'["spec"] = "data" /\ left'["spec"] > 0)
        /\ moved'["spec"] = 2 + HeaderSize
        /\ \A d \in Boards \ {"spec"} :
             pc'[d] = pc[d] /\ moved'[d] = moved[d] /\ left'[d] = left[d]
    <3>1. l # 0 => l > 0
      BY Sizes DEF AnySize
    <3> QED  BY <1>1, <2>1, <2>2, <2>3, <3>1 DEF IInv, TypeOK
  <2>8. Indices'
    BY <1>1, <2>4, <2>7 DEF IInv, Indices, Moving
  <2>9. InString'
    BY <1>1, <2>7 DEF IInv, InString, Boards
  <2> QED  BY <2>6, <2>8, <2>9 DEF IInv
<1> QED  BY <1>2, <1>3

LEMMA NextKeeps == IInv /\ [Next]_vars => IInv'
<1> SUFFICES ASSUME IInv, [Next]_vars PROVE IInv'
  OBVIOUS
<1>1. "ctl" \in Boards /\ "spec" \in Boards
  BY DEF Boards
<1>2. CASE UNCHANGED vars
  BY <1>2 DEF IInv, TypeOK, Indices, InString, vars, board, wire
<1>3. CASE Clock
  BY <1>3, ClockKeeps
<1>4. CASE \E b \in Boards, r \in Roles : Call(b, r)
  BY <1>4, CallKeeps
<1>5. ASSUME NEW b \in Boards, Enter(b) PROVE IInv'
  BY <1>5, EnterKeeps
<1>6. ASSUME NEW b \in Boards, WaitSeen(b) \/ WaitExpired(b) PROVE IInv'
  BY <1>6, WaitKeeps
<1>7. ASSUME CtlSync \/ SpecSync PROVE IInv'
  BY <1>7, CtlSyncKeeps, SpecSyncKeeps
<1>8. ASSUME NEW b \in Boards, SyncLost(b) \/ ReceiveLost(b) PROVE IInv'
  BY <1>8, LostKeeps
<1>9. ASSUME SpecSyncTimeout \/ CtlSendLost PROVE IInv'
  BY <1>1, <1>9, LostKeeps
<1>10. ASSUME NEW b \in Boards, SendChar(b) PROVE IInv'
  BY <1>10, SendKeeps
<1>11. ASSUME NEW b \in Boards, Drain(b) PROVE IInv'
  BY <1>11, DrainKeeps
<1>12. ASSUME SpecSendFails PROVE IInv'
  BY <1>1, <1>12, DrainKeeps
<1>13. ASSUME CtlReceive \/ SpecReceive PROVE IInv'
  BY <1>13, ReceivesKeep
<1>14. ASSUME SpecReceiveTimeout PROVE IInv'
  BY <1>14, TimeoutKeeps
<1>15. CASE CtlStep
  BY <1>1, <1>5, <1>6, <1>7, <1>8, <1>9, <1>10, <1>11, <1>13, <1>15 DEF CtlStep
<1>16. CASE SpecStep
  BY <1>1, <1>5, <1>6, <1>7, <1>8, <1>9, <1>10, <1>11, <1>12, <1>13, <1>14, <1>16 DEF SpecStep
<1> QED  BY <1>2, <1>3, <1>4, <1>15, <1>16 DEF Next

THEOREM Invariance == Spec => []IInv
BY InitIInv, NextKeeps, PTL DEF Spec

(* Types and ranges: the counters of both packet functions stay within the  *)
(* packet and the buffers (SPI_tx_packet and SPI_rx_packet of both boards), *)
(* also after a size field that was garbled or never set.                   *)
THEOREM TypeCorrect == Spec => []TypeOK
BY Invariance, PTL DEF IInv

(* Neither packet function moves a character that does not exist, on either *)
(* board (BuffersHold), whatever the handshakes missed, whichever loop timed *)
(* out and however late the slave is.                                       *)
THEOREM BuffersAlwaysHold == Spec => []BuffersHold
<1>1. IInv => BuffersHold
  <2> SUFFICES ASSUME IInv, NEW b \in Boards
               PROVE  /\ Sending(b) => moved[b] < Len(Packet)
                      /\ Receiving(b) => moved[b] < Buffer
    BY DEF BuffersHold
  <2>1. moved[b] \in Nat
    BY DEF IInv, TypeOK
  <2> QED  BY <2>1, Sizes DEF IInv, Indices, Sending, Receiving, Moving, Buffer
<1> QED  BY Invariance, <1>1, PTL

----------------------------------------------------------------------------
(* The link when the slave keeps up with the clock (Timely).  The boards    *)
(* are apart, or one sends to the other character by character, or the      *)
(* receiver has collected the packet and the sender has not returned yet.   *)

(* The characters that will reach the master before the one in place i of   *)
(* the slave's queue, and those that it has seen, are at most three: what   *)
(* an aborted call left in the queue is gone before the fifth.              *)
Passing(i) == inSync["ctl"] + i - (IF mTdr = None THEN 0 ELSE 1) <= 3

Aside == {"idle", "enter", "early", "wait"}

IndicatorsTell == \A b \in Boards : ind[b] <=> pc[b] \notin {"idle", "enter", "early"}

AllGood == \A b \in Boards : good[b]

(* The slave has offered a character, or has one to read and to answer.     *)
SlaveAnswers == pc["spec"] = "sync" => sOut # <<>> \/ sRdr # None

(* The master has sent the character of its place, or has the answer.       *)
MasterAsks ==
  pc["ctl"] = "sync" =>
    /\ mTdr # None \/ mRdr # None
    /\ mTdr # None => mTdr = Sync(role["ctl"], inSync["ctl"])

(* A slave that is alone in the handshake is at its beginning: at most one  *)
(* character that the master has left behind is clocked out.                *)
Alone ==
  pc["ctl"] \in Aside /\ pc["spec"] = "sync" =>
    /\ mTdr # None => inSync["spec"] = 0 /\ (sOut = <<>> => sRdr # "S")
    /\ mTdr = None => \/ inSync["spec"] = 0
                      \/ inSync["spec"] = 1 /\ (sRdr = None \/ Len(sOut) = 2)

(* Places of both in the string, before a character is exchanged: unless    *)
(* one of them begins, the slave is one behind the master.                  *)
Level(m, s) == m = 1 \/ s = 0 \/ m = s + 1

(* The slave's answer to the letter of its partner is its own letter.       *)
Answering == role["ctl"] # role["spec"] /\ sOut = <<Sync(role["spec"], 4)>>

(* Between two exchanges each of them may have read first.                  *)
InStep ==
  LET m == inSync["ctl"]
      s == inSync["spec"]
  IN
  pc["ctl"] = "sync" /\ pc["spec"] = "sync" =>
    /\ mTdr # None /\ sOut # <<>> =>
         /\ Level(m, s)
         /\ Len(sOut) = 2 => s = 0 \/ (m = 1 /\ s = 1)
         /\ m = 5 /\ s = 4 => Answering
    /\ mTdr = None /\ sOut = <<>> =>
         sRdr = Sync(role["ctl"], m) /\ Level(m, s) /\ (m = 5 => s = 0)
    /\ mTdr = None /\ sOut # <<>> =>
         /\ s = 0 \/ (Len(sOut) = 1 /\ ((m = 1 /\ s = 1) \/ m = s))
         /\ m = 4 /\ s = 4 => Answering
    /\ mTdr # None /\ sOut = <<>> =>
         /\ m = 1 => s # 4 \/ sRdr # "X"
         /\ m > 1 => sRdr = Sync(role["ctl"], m - 1) /\ Level(m - 1, s)

(* The letter of its partner does not reach the master at the end of the    *)
(* handshake unless the slave is there as well.                             *)
LetterInStep ==
  LET m == inSync["ctl"]
      letter == Partner(role["ctl"])
  IN
  pc["ctl"] = "sync" =>
    /\ sLast = letter => m = 1 /\ mTdr # None
    /\ mTdr = None /\ mRdr = letter => m <= 3
    /\ \A i \in 1 .. Len(sOut) : sOut[i] = letter =>
         Passing(i) \/ (pc["spec"] = "sync" /\ inSync["spec"] = 4 /\ m >= 4)

Apart ==
  /\ pc["ctl"] \in Aside \cup {"sync"} /\ pc["spec"] \in Aside \cup {"sync"}
  /\ SlaveAnswers /\ MasterAsks /\ Alone /\ InStep /\ LetterInStep

(* What is left to read for the end of the handshake.                       *)
MasterAtEnd ==
  pc["ctl"] = "sync" /\ inSync["ctl"] = 5 /\ mTdr = None /\ mRdr = Partner(role["ctl"])
SlaveAtEnd ==
  pc["spec"] = "sync" /\ inSync["spec"] = 4 /\ sRdr = "X"

Count(P) == IF P THEN 1 ELSE 0

(* The receiver knows how much there is to come.                            *)
Announced(b) == moved[b] >= 2 => left[b] = Len(Packet) - moved[b]

(* The controller sends: of what it has written all was read, but for one   *)
(* character in its own register and one in the slave's.                    *)
CtlSends ==
  LET unread == pc["spec"] # "sync" /\ sRdr # None IN
  /\ role["ctl"] = "tx" /\ role["spec"] = "rx"
  /\ sOut = <<>>
  /\ MasterAtEnd \/ pc["ctl"] \in Moving \cup {"drain"}
  /\ SlaveAtEnd \/ pc["spec"] \in Moving
  /\ moved["ctl"] = moved["spec"] + Count(mTdr # None) + Count(unread)
  /\ mTdr # None => mTdr = Packet[moved["ctl"]]
  /\ unread => sRdr = Packet[moved["spec"] + 1]
  /\ pc["ctl"] = "drain" => moved["ctl"] = Len(Packet)
  /\ Announced("spec")

(* The spectrometer sends: what the master has not read is in its register  *)
(* and in the slave's queue.                                                *)
SpecSends ==
  LET unread == pc["ctl"] # "sync" /\ mTdr = None
      out == moved["ctl"] + Count(unread)
  IN
  /\ role["ctl"] = "rx" /\ role["spec"] = "tx"
  /\ MasterAtEnd \/ (pc["ctl"] \in Moving /\ mTdr \in {None, "dummy"})
  /\ SlaveAtEnd \/ pc["spec"] \in Moving \cup {"drain"}
  /\ moved["spec"] = out + Len(sOut)
  /\ \A i \in 1 .. Len(sOut) : sOut[i] = Packet[out + i]
  /\ unread => mRdr = Packet[moved["ctl"] + 1]
  /\ out > 0 => sLast = "dummy"
  /\ pc["spec"] = "drain" => moved["spec"] = Len(Packet)
  /\ Announced("ctl")

SpecCollected ==
  /\ pc["ctl"] = "drain" /\ role["spec"] = "rx"
  /\ mTdr = None /\ sRdr = None
  /\ \/ pc["spec"] \in {"idle", "enter", "early"} /\ sOut = <<>>
        /\ moved["spec"] = Len(Packet)
     \/ pc["spec"] = "sync" /\ inSync["spec"] = 0 /\ Len(sOut) = 1

(* A controller that comes back early finds nothing in the handshake: the   *)
(* slave echoes what it sends.                                              *)
CtlCollected ==
  /\ pc["spec"] = "drain" /\ role["ctl"] = "rx"
  /\ sOut = <<>> /\ sLast \in {"dummy", "S"}
  /\ mTdr \in {None, "dummy", "S"} /\ mRdr \in {None, "dummy", "S"}
  /\ \/ pc["ctl"] \in {"idle", "enter", "early"} /\ moved["ctl"] = Len(Packet)
     \/ /\ pc["ctl"] = "sync" /\ inSync["ctl"] = 1
        /\ mTdr # None => mTdr = "S"

TimelyInv ==
  /\ IndicatorsTell /\ AllGood
  /\ Apart \/ CtlSends \/ SpecSends \/ SpecCollected \/ CtlCollected

LEMMA IndicatorsKept ==
  ASSUME IInv, IndicatorsTell, Next
  PROVE  IndicatorsTell'
<1>1. CASE Clock
  BY <1>1 DEF Clock, board, IndicatorsTell
<1>2. ASSUME NEW b \in Boards, NEW r \in Roles, Call(b, r)
      PROVE  IndicatorsTell'
  BY <1>2 DEF Call, IndicatorsTell, IInv, TypeOK
<1>3. ASSUME NEW b \in Boards, NEW r, Return(b, r)
      PROVE  IndicatorsTell'
  BY <1>3 DEF Return, IndicatorsTell, IInv, TypeOK
<1>4. ASSUME NEW b \in Boards, NEW p \in PCs, pc[b] \notin {"idle", "enter", "early"},
             p \notin {"idle", "enter", "early"},
             pc' = [pc EXCEPT ![b] = p], ind' = ind
      PROVE  IndicatorsTell'
  BY <1>4 DEF IndicatorsTell, IInv, TypeOK
<1>5. ASSUME NEW b \in Boards, Enter(b)
      PROVE  IndicatorsTell'
  BY <1>5 DEF Enter, StartSync, IndicatorsTell, IInv, TypeOK
<1>6. ASSUME NEW b \in Boards, WaitSeen(b)
      PROVE  IndicatorsTell'
  BY <1>4, <1>6 DEF WaitSeen, StartSync, PCs
<1>7. ASSUME NEW b \in Boards, WaitExpired(b) \/ SyncLost(b) \/ Drain(b) \/ ReceiveLost(b)
      PROVE  IndicatorsTell'
  BY <1>3, <1>7 DEF WaitExpired, SyncLost, Drain, ReceiveLost
<1>8. CASE CtlSendLost \/ SpecSyncTimeout
  BY <1>3, <1>8 DEF CtlSendLost, SpecSyncTimeout, Boards
<1>9. CASE SpecSendFails
  BY <1>4, <1>9 DEF SpecSendFails, Sending, Boards, PCs
<1>10. CASE CtlSync
  BY <1>3, <1>4, <1>10 DEF CtlSync, Boards, PCs
<1>11. CASE SpecSync
  BY <1>3, <1>4, <1>11 DEF SpecSync, Boards, PCs
<1>12. ASSUME NEW b \in Boards, SendChar(b)
       PROVE  IndicatorsTell'
  <2>1. pc[b] \in Moving /\ moved[b] + 2 \in Nat
    BY <1>12 DEF SendChar, Sending, Moving, IInv, TypeOK
  <2>2. PartOf(moved[b] + 2) \in Moving \cup {"drain"}
    BY <2>1, Parts
  <2> QED BY <1>4, <1>12, <2>1, <2>2 DEF SendChar, Moving, PCs
<1>13. ASSUME NEW b \in Boards, NEW c, Receive(b, c)
       PROVE  IndicatorsTell'
  <2> DEFINE n == moved[b] + 1
  <2>1. pc[b] \in Moving
    BY <1>13 DEF Receive, Receiving, Moving
  <2>2. PICK l, v : IF PhaseAfter(pc[b], n, l) = "end"
                      THEN Return(b, v)
                      ELSE pc' = [pc EXCEPT ![b] = PhaseAfter(pc[b], n, l)] /\ ind' = ind
    BY <1>13 DEF Receive
  <2>3. PhaseAfter(pc[b], n, l) \in Moving \cup {"end"}
    BY DEF PhaseAfter, Moving
  <2> QED BY <1>3, <1>4, <2>1, <2>2, <2>3 DEF Moving, PCs
<1>14. CASE SpecReceiveTimeout
  <2>1. pc["spec"] \in Moving
    BY <1>14 DEF SpecReceiveTimeout, Receiving, Moving
  <2> QED BY <1>3, <1>4, <1>14, <2>1 DEF SpecReceiveTimeout, Boards, PCs, Moving
<1> QED
  BY <1>1, <1>2, <1>5, <1>6, <1>7, <1>8, <1>9, <1>10, <1>11, <1>12, <1>13, <1>14
     DEF Next, CtlStep, SpecStep, CtlReceive, SpecReceive, Boards

(* One pass of the handshake, on the master after character c ...           *)
MasterNext(r, k, c) ==
  IF c = (IF k = 5 THEN Partner(r) ELSE Sync(r, k - 1)) THEN k + 1
  ELSE IF k = 5 THEN 5 ELSE 1

LEMMA MasterPass ==
  ASSUME IInv, CtlSync
  PROVE  LET r == role["ctl"]
             k == inSync["ctl"]
             n == MasterNext(r, k, mRdr)
         IN
         /\ k \in 1 .. 5 /\ r \in Roles /\ n \in 1 .. k + 1
         /\ pc["ctl"] = "sync" /\ mTdr = None /\ mRdr # None /\ mRdr' = None
         /\ pc'["ctl"] = (IF n = 6 THEN "size" ELSE IF k = 5 THEN "idle" ELSE "sync")
         /\ inSync'["ctl"] = n
         /\ n < 6 => mTdr' = Sync(r, n)
         /\ n = 6 => mTdr' = IF r = "rx" THEN "dummy" ELSE None
         /\ pc'["spec"] = pc["spec"] /\ inSync'["spec"] = inSync["spec"]
         /\ UNCHANGED <<role, moved, left, good, sOut, sRdr, sLast>>
<1> DEFINE r == role["ctl"]
           k == inSync["ctl"]
           n == MasterNext(r, k, mRdr)
<1>1. k \in 1 .. 5 /\ r \in Roles /\ SyncLen = 6
  BY DEF CtlSync, IInv, InString, TypeOK, SyncLen, Boards
<1>2. n \in 1 .. k + 1 /\ (k = 5 => n \in {5, 6})
  BY <1>1 DEF MasterNext
<1> DEFINE agreed == mRdr = IF k = SyncLen - 1 THEN Partner(r) ELSE Sync(r, k - 1)
           next == IF agreed THEN k + 1 ELSE IF k = SyncLen - 1 THEN k ELSE 1
<1>3. /\ inSync' = [inSync EXCEPT !["ctl"] = n]
      /\ IF k = 5 /\ n # 6 THEN Return("ctl", "conflict")
         ELSE pc' = [pc EXCEPT !["ctl"] = IF n = 6 THEN "size" ELSE "sync"]
      /\ mTdr' = CASE n # 6 -> Sync(r, n)
                   [] n = 6 /\ r = "rx" -> "dummy"
                   [] OTHER -> None
  <2>1. /\ inSync' = [inSync EXCEPT !["ctl"] = next]
        /\ IF k = SyncLen - 1 /\ ~agreed THEN Return("ctl", "conflict")
           ELSE pc' = [pc EXCEPT !["ctl"] = IF next = SyncLen THEN "size" ELSE "sync"]
        /\ mTdr' = CASE ~(next = SyncLen) -> Sync(r, next)
                     [] next = SyncLen /\ r = "rx" -> "dummy"
                     [] OTHER -> None
    BY DEF CtlSync
  <2>2. SyncLen - 1 = 5
    BY <1>1
  <2>3. next = n /\ (k = 5 => (agreed <=> n = 6))
    BY <1>1, <2>2 DEF MasterNext
  <2> HIDE DEF agreed, next, n, k, r
  <2> QED BY <1>1, <2>1, <2>2, <2>3
<1>4. /\ inSync'["ctl"] = n /\ inSync'["spec"] = inSync["spec"]
      /\ pc'["spec"] = pc["spec"]
      /\ pc'["ctl"] = IF n = 6 THEN "size" ELSE IF k = 5 THEN "idle" ELSE "sync"
  <2> HIDE DEF n
  <2> QED BY <1>2, <1>3 DEF Return, IInv, TypeOK, Boards
<1>5. /\ n < 6 => mTdr' = Sync(r, n)
      /\ n = 6 => mTdr' = IF r = "rx" THEN "dummy" ELSE None
  <2> HIDE DEF n
  <2> QED BY <1>3
<1>6. /\ pc["ctl"] = "sync" /\ mTdr = None /\ mRdr # None /\ mRdr' = None
      /\ UNCHANGED <<role, moved, left, good, sOut, sRdr, sLast>>
  BY DEF CtlSync
<1> QED BY <1>1, <1>2, <1>4, <1>5, <1>6

(* ... and on the slave.                                                    *)
SlaveNext(r, k, c) ==
  IF c = (IF k = 3 THEN Partner(r) ELSE Sync(r, k + 1)) THEN k + 1
  ELSE IF k = 3 THEN 3 ELSE 0

SlavePasses(c) ==
  LET r == role["spec"]
      k == inSync["spec"]
      n == SlaveNext(r, k, c)
  IN
  /\ k \in 0 .. 4 /\ r \in Roles /\ n \in 0 .. k + 1
  /\ pc["spec"] = "sync" /\ Len(sOut) < 2 /\ SpecRead(c)
  /\ pc'["spec"] = (IF n = 5 THEN "size" ELSE IF k = 3 /\ n = 3 THEN "idle" ELSE "sync")
  /\ inSync'["spec"] = n
  /\ sOut' = IF n < 5 THEN Append(sOut, Sync(r, n)) ELSE sOut
  /\ pc'["ctl"] = pc["ctl"] /\ inSync'["ctl"] = inSync["ctl"]
  /\ UNCHANGED <<role, moved, left, good, mTdr, mRdr, sLast>>

LEMMA SlavePass ==
  ASSUME IInv, SpecSync
  PROVE  \E c \in Chars : SlavePasses(c)
<1> DEFINE r == role["spec"]
           k == inSync["spec"]
<1>1. k \in 0 .. 4 /\ r \in Roles /\ SyncLen = 6
  BY DEF SpecSync, IInv, InString, TypeOK, SyncLen, Boards
<1>2. PICK c \in Chars :
        LET n == SlaveNext(r, k, c) IN
        /\ SpecRead(c)
        /\ inSync' = [inSync EXCEPT !["spec"] = n]
        /\ AnswerSync(r, n)
        /\ IF k = 3 /\ n = 3 THEN Return("spec", "conflict")
           ELSE pc' = [pc EXCEPT !["spec"] = IF n = 5 THEN "size" ELSE "sync"]
  <2> DEFINE agreed(c) == c = IF k = 3 THEN Partner(r) ELSE Sync(r, k + 1)
             next(c) == IF agreed(c) THEN k + 1 ELSE IF k = 3 THEN k ELSE 0
  <2>1. PICK c \in Chars :
          /\ SpecRead(c)
          /\ inSync' = [inSync EXCEPT !["spec"] = next(c)]
          /\ AnswerSync(r, next(c))
          /\ IF k = 3 /\ ~agreed(c) THEN Return("spec", "conflict")
             ELSE pc' = [pc EXCEPT !["spec"] = IF next(c) = SyncLen - 1 THEN "size" ELSE "sync"]
    BY DEF SpecSync
  <2>2. SyncLen - 1 = 5
    BY <1>1
  <2>3. next(c) = SlaveNext(r, k, c) /\ (k = 3 => (~agreed(c) <=> next(c) = 3))
    BY <1>1 DEF SlaveNext
  <2> HIDE DEF agreed, next, k, r
  <2> QED BY <2>1, <2>2, <2>3
<1> DEFINE n == SlaveNext(r, k, c)
<1>3. n \in 0 .. k + 1
  BY <1>1 DEF SlaveNext
<1>4. pc["spec"] = "sync" /\ Len(sOut) < 2
      /\ UNCHANGED <<role, moved, left, good, mTdr, mRdr, sLast>>
  BY DEF SpecSync
<1> HIDE DEF n
<1>5. /\ inSync'["spec"] = n /\ inSync'["ctl"] = inSync["ctl"]
      /\ pc'["ctl"] = pc["ctl"]
      /\ pc'["spec"] = IF n = 5 THEN "size" ELSE IF k = 3 /\ n = 3 THEN "idle" ELSE "sync"
  BY <1>2, <1>3 DEF n, Return, IInv, TypeOK, Boards
<1>6. sOut' = IF n < 5 THEN Append(sOut, Sync(r, n)) ELSE sOut
  BY <1>1, <1>2, <1>4 DEF n, AnswerSync, SpecWrite
<1> QED BY <1>1, <1>2, <1>3, <1>4, <1>5, <1>6 DEF n, SlavePasses

(* A receiver takes the next character of the packet.                       *)
LEMMA ReceivesOne ==
  ASSUME IInv, AllGood, NEW b \in Boards, NEW c, Receive(b, c), Announced(b),
         c = Packet[moved[b] + 1], moved[b] < Len(Packet)
  PROVE  /\ AllGood' /\ Announced(b)'
         /\ moved'[b] = moved[b] + 1 /\ moved'[Other(b)] = moved[Other(b)]
         /\ pc'[Other(b)] = pc[Other(b)]
         /\ \/ pc'[b] \in Moving
            \/ pc'[b] = "idle" /\ moved[b] + 1 = Len(Packet)
<1>1. PICK s \in Nat : moved[b] = s
  BY DEF IInv, TypeOK
<1>2. PICK g, p, l :
        /\ moved' = [moved EXCEPT ![b] = s + 1]
        /\ good' = [good EXCEPT ![b] = g] /\ g
        /\ l \in IF s + 1 < 2 THEN {0}
                 ELSE IF s + 1 = 2 THEN {BodySize} ELSE {left[b] - 1}
        /\ left' = [left EXCEPT ![b] = l]
        /\ p = PhaseAfter(pc[b], s + 1, l)
        /\ pc' = [pc EXCEPT ![b] = IF p = "end" THEN "idle" ELSE p]
  <2>1. good[b]
    BY DEF AllGood
  <2> QED BY <1>1, <2>1 DEF Receive, SizesOf, Return
<1>3. /\ moved'[b] = s + 1 /\ moved'[Other(b)] = moved[Other(b)] /\ left'[b] = l
      /\ pc'[b] = (IF p = "end" THEN "idle" ELSE p) /\ pc'[Other(b)] = pc[Other(b)]
      /\ AllGood'
  BY <1>1, <1>2 DEF AllGood, IInv, TypeOK, Boards, Other
<1>4. s + 1 >= 2 => l = Len(Packet) - (s + 1)
  <2>1. CASE s + 1 = 2
    BY <1>2, <2>1, Sizes DEF BodySize
  <2>2. CASE s + 1 > 2
    <3>1. left[b] = Len(Packet) - s
      BY <1>1, <2>2 DEF Announced
    <3> QED BY <1>2, <2>2, <3>1, Sizes
  <2> QED BY <2>1, <2>2
<1>5. p \in Moving \/ (p = "end" /\ s + 1 = Len(Packet))
  <2>1. p \in Moving \/ (p = "end" /\ s + 1 >= 2 /\ (l = 0 \/ s + 1 = 2 + HeaderSize + DataRoom))
    BY <1>2, Sizes DEF PhaseAfter, Moving
  <2> QED BY <1>1, <1>4, <2>1, Sizes
<1>6. Announced(b)'
  BY <1>3, <1>4 DEF Announced
<1> QED BY <1>1, <1>3, <1>5, <1>6 DEF Moving

(* Nothing but the transfer itself happens while the controller sends.      *)
LEMMA CtlSendsOnly ==
  ASSUME Timely, IInv, IndicatorsTell, CtlSends, Next
  PROVE  Clock \/ CtlSync \/ SendChar("ctl") \/ SpecSync \/ SpecReceive
<1>1. /\ pc["ctl"] \in {"sync", "size", "header", "data", "drain"}
      /\ pc["spec"] \in {"sync", "size", "header", "data"}
      /\ role["ctl"] = "tx" /\ role["spec"] = "rx"
      /\ sOut = <<>> /\ ind["ctl"] /\ ind["spec"]
  BY DEF CtlSends, MasterAtEnd, SlaveAtEnd, Moving, IndicatorsTell, Boards
<1>2. ~SpecReceiveTimeout
  <2> SUFFICES ASSUME pc["spec"] \in Moving, CtlSettled, sRdr = None PROVE FALSE
    BY DEF SpecReceiveTimeout, Receiving, Moving
  <2>1. mTdr = None /\ pc["ctl"] = "drain"
    BY <1>1 DEF CtlSettled, CtlSends, MasterAtEnd, Partner, None, Moving
  <2>2. PICK m \in Nat : moved["spec"] = m
    BY DEF IInv, TypeOK, Boards
  <2>3. PICK l \in Nat : left["spec"] = l
    BY Sizes DEF IInv, TypeOK, Boards, AnySize
  <2>4. m = Len(Packet)
    BY <2>1, <2>2, Sizes DEF CtlSends, Count
  <2>5. m < 2 \/ (m >= 2 /\ l > 0 /\ l = Len(Packet) - m)
    BY <1>1, <2>2, <2>3, Sizes DEF CtlSends, Announced, IInv, Indices, Moving, Boards
  <2> QED BY <2>4, <2>5, Sizes
<1>3. ASSUME NEW b \in Boards
      PROVE  /\ \A r \in Roles : ~Call(b, r)
             /\ ~Enter(b) /\ ~WaitSeen(b) /\ ~WaitExpired(b) /\ ~SyncLost(b)
             /\ ~Drain(b) /\ ~ReceiveLost(b)
  BY <1>1 DEF Boards, Call, Enter, WaitSeen, WaitExpired, SyncLost, Drain, ReceiveLost, Other
<1>4. /\ ~CtlSendLost /\ ~SpecSyncTimeout /\ ~SpecSendFails /\ ~SendChar("spec")
      /\ ~CtlReceive
  BY <1>1 DEF CtlSendLost, SpecSyncTimeout, SpecSendFails, SendChar, Sending, CtlReceive,
              Receive, Receiving
<1> QED BY <1>2, <1>3, <1>4 DEF Next, CtlStep, SpecStep, Boards

(* A character goes from the one register to the other, once the slave has  *)
(* read the one before.                                                     *)
LEMMA CtlSendsClock ==
  ASSUME Timely, IInv, CtlSends, Clock
  PROVE  CtlSends' /\ (AllGood' <=> AllGood)
<1>1. /\ mTdr # None /\ mTdr' = None /\ sRdr' = mTdr /\ sOut' = <<>>
      /\ UNCHANGED <<pc, role, inSync, moved, left, good>>
  BY DEF Clock, board, CtlSends
<1>2. pc["spec"] \in Moving /\ pc["spec"] # "sync" /\ sRdr = None /\ pc["ctl"] # "sync"
  BY <1>1 DEF Clock, SpecSettled, CtlSends, SlaveAtEnd, MasterAtEnd, Moving, None
<1>3. PICK m \in Nat, s \in Nat : moved["ctl"] = m /\ moved["spec"] = s
  BY DEF IInv, TypeOK, Boards
<1>4. m = s + 1
  BY <1>1, <1>2, <1>3 DEF CtlSends, Count
<1>5. moved'["ctl"] = moved'["spec"] + Count((mTdr # None)')
                        + Count((pc["spec"] # "sync" /\ sRdr # None)')
  BY <1>1, <1>2, <1>3, <1>4 DEF Count
<1>6. sRdr' = Packet[moved'["spec"] + 1]
  BY <1>1, <1>2, <1>3, <1>4 DEF CtlSends
<1> QED BY <1>1, <1>2, <1>5, <1>6 DEF CtlSends, MasterAtEnd, SlaveAtEnd, Announced, AllGood

LEMMA PartDrain ==
  ASSUME NEW i \in Nat, PartOf(i) = "drain"
  PROVE  i > Len(Packet)
<1> SUFFICES ASSUME i <= Len(Packet) PROVE FALSE
  BY Sizes
<1>1. CASE i <= 2
  BY <1>1 DEF PartOf
<1>2. CASE i > 2 /\ i <= 2 + HeaderSize
  BY <1>2, Sizes DEF PartOf
<1>3. CASE i > 2 + HeaderSize
  BY <1>3, Sizes DEF PartOf
<1> QED BY <1>1, <1>2, <1>3, Sizes

(* The steps of the sender: the end of the handshake, and one character.    *)
LEMMA CtlSendsWrites ==
  ASSUME IInv, CtlSends, CtlSync \/ SendChar("ctl")
  PROVE  CtlSends' /\ (AllGood' <=> AllGood)
<1>1. PICK m \in Nat, s \in Nat : moved["ctl"] = m /\ moved["spec"] = s
  BY DEF IInv, TypeOK, Boards
<1>2. role["ctl"] = "tx" /\ UNCHANGED <<role, left, good, sOut, sRdr>>
  BY DEF CtlSends, CtlSync, SendChar
<1>3. CASE CtlSync
  <2>1. MasterAtEnd
    BY <1>3 DEF CtlSync, CtlSends, Moving
  <2>2. mTdr = None /\ mTdr' = None /\ moved' = moved
        /\ pc' = [pc EXCEPT !["ctl"] = "size"] /\ inSync'["spec"] = inSync["spec"]
    BY <1>2, <1>3, <2>1 DEF CtlSync, MasterAtEnd, SyncLen, IInv, TypeOK, Boards
  <2>3. pc'["ctl"] = "size" /\ pc'["spec"] = pc["spec"]
    BY <2>2 DEF IInv, TypeOK, Boards
  <2> QED BY <1>2, <2>2, <2>3
          DEF CtlSends, MasterAtEnd, SlaveAtEnd, Announced, AllGood, Moving
<1>4. CASE SendChar("ctl")
  <2>1. /\ pc["ctl"] \in Moving /\ mTdr = None /\ mTdr' = Packet[m + 1]
        /\ moved' = [moved EXCEPT !["ctl"] = m + 1]
        /\ pc' = [pc EXCEPT !["ctl"] = PartOf(m + 2)] /\ inSync' = inSync
    BY <1>1, <1>4 DEF SendChar, Sending, Moving
  <2>2. m + 1 <= Len(Packet)
    BY <1>1, <1>2, <2>1, Sizes DEF IInv, Indices, Boards
  <2>3. Packet[m + 1] # None
    <3>1. Packet[m + 1] \in PacketChars
      BY <2>2, Sizes DEF PacketChars
    <3> QED BY <3>1, PacketAssumption
  <2>4. moved'["ctl"] = m + 1 /\ moved'["spec"] = s
        /\ pc'["ctl"] = PartOf(m + 2) /\ pc'["spec"] = pc["spec"]
    BY <1>1, <2>1 DEF IInv, TypeOK, Boards
  <2>5. /\ pc'["ctl"] \in Moving \cup {"drain"}
        /\ pc'["ctl"] = "drain" => m + 1 = Len(Packet)
    BY <2>2, <2>4, Parts, PartDrain, Sizes
  <2>6. moved'["ctl"] = moved'["spec"] + Count((mTdr # None)')
                          + Count((pc["spec"] # "sync" /\ sRdr # None)')
    BY <1>1, <1>2, <2>1, <2>3, <2>4 DEF CtlSends, Count
  <2> QED BY <1>1, <1>2, <2>1, <2>4, <2>5, <2>6
          DEF CtlSends, SlaveAtEnd, Announced, AllGood
<1> QED BY <1>3, <1>4

(* The slave reads the end of the handshake ...                             *)
LEMMA CtlSendsAgreed ==
  ASSUME IInv, CtlSends, SpecSync
  PROVE  CtlSends' /\ (AllGood' <=> AllGood)
<1>1. SlaveAtEnd /\ sOut = <<>> /\ pc["spec"] = "sync"
  BY DEF SpecSync, CtlSends, Moving
<1>2. PICK c \in Chars : SlavePasses(c)
  BY SlavePass
<1>3. c = "X" /\ sRdr' = None
  BY <1>1, <1>2 DEF SlavePasses, SpecRead, SlaveAtEnd
<1>4. SlaveNext(role["spec"], inSync["spec"], c) = 5
  BY <1>1, <1>3 DEF SlaveNext, SlaveAtEnd, Sync
<1>6. /\ pc'["spec"] = "size" /\ pc'["ctl"] = pc["ctl"] /\ inSync'["ctl"] = inSync["ctl"]
      /\ sOut' = sOut
  BY <1>2, <1>4 DEF SlavePasses
<1>7. UNCHANGED <<role, moved, left, good, mTdr, mRdr>>
  BY DEF SpecSync
<1>8. PICK m \in Nat, s \in Nat : moved["ctl"] = m /\ moved["spec"] = s
  BY DEF IInv, TypeOK, Boards
<1>9. moved'["ctl"] = moved'["spec"] + Count((mTdr # None)')
                        + Count((pc["spec"] # "sync" /\ sRdr # None)')
  BY <1>1, <1>3, <1>6, <1>7, <1>8 DEF CtlSends, Count
<1> QED BY <1>1, <1>3, <1>6, <1>7, <1>9
        DEF CtlSends, MasterAtEnd, Announced, AllGood, Moving

(* ... and, one by one, the characters of the packet, until it has all that *)
(* the size announced.                                                      *)
LEMMA CtlSendsReads ==
  ASSUME IInv, CtlSends, AllGood, SpecReceive
  PROVE  (CtlSends \/ SpecCollected)' /\ AllGood'
<1>1. PICK c \in Chars : SpecRead(c) /\ Receive("spec", c)
  BY DEF SpecReceive
<1>2. /\ pc["spec"] \in Moving /\ pc["spec"] # "sync" /\ sOut = <<>> /\ sOut' = <<>>
      /\ c = sRdr /\ sRdr # None /\ sRdr' = None
      /\ UNCHANGED <<mTdr, mRdr, role, inSync>>
  BY <1>1 DEF CtlSends, SpecReceive, SpecRead, Receive, Receiving, Moving
<1>3. PICK m \in Nat, s \in Nat : moved["ctl"] = m /\ moved["spec"] = s
  BY DEF IInv, TypeOK, Boards
<1>4. PICK w \in {0, 1} : w = Count(mTdr # None)
  BY DEF Count
<1>5. m = s + w + 1 /\ c = Packet[s + 1]
  BY <1>2, <1>3, <1>4 DEF CtlSends, Count
<1>6. m <= Len(Packet) /\ (m = Len(Packet) => pc["ctl"] = "drain")
      /\ pc["ctl"] \in Moving \cup {"drain"}
  <2>1. ~MasterAtEnd
    BY <1>3, <1>5 DEF MasterAtEnd, IInv, Indices, Boards
  <2> QED BY <1>3, <2>1, Sizes DEF CtlSends, IInv, Indices, Boards
<1>7. /\ AllGood' /\ Announced("spec")' /\ moved'["spec"] = s + 1 /\ moved'["ctl"] = m
      /\ pc'["ctl"] = pc["ctl"]
      /\ \/ pc'["spec"] \in Moving
         \/ pc'["spec"] = "idle" /\ s + 1 = Len(Packet)
  <2>1. s < Len(Packet) /\ Announced("spec") /\ c = Packet[moved["spec"] + 1]
    BY <1>3, <1>5, <1>6, Sizes DEF CtlSends
  <2> QED BY <1>1, <1>3, <2>1, ReceivesOne DEF Boards, Other
<1>8. CASE pc'["spec"] \in Moving
  <2>1. pc'["spec"] # "sync"
    BY <1>8 DEF Moving
  <2>2. moved'["ctl"] = moved'["spec"] + Count((mTdr # None)')
                          + Count((pc["spec"] # "sync" /\ sRdr # None)')
    BY <1>2, <1>4, <1>5, <1>7 DEF Count
  <2>3. mTdr' # None => mTdr' = Packet[moved'["ctl"]]
    BY <1>2, <1>3, <1>7 DEF CtlSends
  <2> QED BY <1>2, <1>3, <1>6, <1>7, <1>8, <2>1, <2>2, <2>3 DEF CtlSends
<1>9. CASE pc'["spec"] = "idle" /\ s + 1 = Len(Packet)
  <2>1. w = 0 /\ m = Len(Packet)
    BY <1>5, <1>6, <1>9, Sizes
  <2> QED BY <1>2, <1>4, <1>6, <1>7, <1>9, <2>1 DEF SpecCollected, Count, CtlSends
<1> QED BY <1>7, <1>8, <1>9

(* The same when the spectrometer sends.  What the master has yet to read   *)
(* is in the packet.                                                        *)
LEMMA SpecSendsFacts ==
  ASSUME IInv, IndicatorsTell, SpecSends
  PROVE  /\ pc["ctl"] \in {"sync"} \cup Moving /\ pc["spec"] \in {"sync", "drain"} \cup Moving
         /\ role["ctl"] = "rx" /\ role["spec"] = "tx"
         /\ ind["ctl"] /\ ind["spec"] /\ ~CtlSettled
         /\ moved["ctl"] < Len(Packet)
         /\ moved["spec"] <= Len(Packet) /\ (moved["spec"] = Len(Packet) <=> pc["spec"] = "drain")
         /\ pc["spec"] = "sync" => sOut = <<>> /\ (mTdr # None \/ MasterAtEnd)
<1>1. PICK m \in Nat, s \in Nat : moved["ctl"] = m /\ moved["spec"] = s
  BY DEF IInv, TypeOK, Boards
<1>2. PICK q \in Nat, w \in {0, 1} :
        Len(sOut) = q /\ w = Count(pc["ctl"] # "sync" /\ mTdr = None) /\ s = m + w + q
  BY <1>1 DEF SpecSends, Count, IInv, TypeOK
<1>3. /\ pc["ctl"] \in {"sync"} \cup Moving /\ pc["spec"] \in {"sync", "drain"} \cup Moving
      /\ role["ctl"] = "rx" /\ role["spec"] = "tx" /\ ind["ctl"] /\ ind["spec"]
  BY DEF SpecSends, MasterAtEnd, SlaveAtEnd, Moving, IndicatorsTell, Boards
<1>4. m < Len(Packet)
  <2>1. CASE pc["ctl"] = "sync" \/ pc["ctl"] = "size"
    BY <1>1, <1>3, <2>1, Sizes DEF IInv, Indices, Boards
  <2>2. CASE pc["ctl"] \in {"header", "data"}
    <3>1. PICK l \in Nat : left["ctl"] = l
      BY Sizes DEF IInv, TypeOK, Boards, AnySize
    <3>2. m >= 2 /\ l > 0 /\ l = Len(Packet) - m
      BY <1>1, <1>3, <2>2, <3>1 DEF SpecSends, Announced, IInv, Indices, Boards
    <3> QED BY <3>1, <3>2, Sizes
  <2> QED BY <1>3, <2>1, <2>2 DEF Moving
<1>5. s <= Len(Packet) /\ (s = Len(Packet) <=> pc["spec"] = "drain")
  BY <1>1, <1>3, Sizes DEF SpecSends, IInv, Indices, Boards, Moving
<1>6. pc["ctl"] # "sync" /\ mTdr = None => mRdr # None
  <2> SUFFICES ASSUME pc["ctl"] # "sync", mTdr = None PROVE mRdr # None
    OBVIOUS
  <2>1. mRdr = Packet[m + 1]
    BY <1>1 DEF SpecSends
  <2>2. m + 1 \in 1 .. Len(Packet)
    BY <1>4, Sizes
  <2>3. Packet[m + 1] \in PacketChars
    BY <2>2 DEF PacketChars
  <2> QED BY <2>1, <2>3, PacketAssumption
<1>7. ~CtlSettled
  BY <1>3, <1>6 DEF CtlSettled, SpecSends, MasterAtEnd, Partner, None, Moving
<1>8. ASSUME pc["spec"] = "sync" PROVE sOut = <<>> /\ (mTdr # None \/ MasterAtEnd)
  <2>1. s = 0
    BY <1>1, <1>8 DEF IInv, Indices, Boards
  <2>2. q = 0 /\ w = 0
    BY <1>2, <2>1
  <2>3. sOut = <<>>
    <3>1. sOut \in Seq(Chars)
      BY DEF IInv, TypeOK
    <3> QED BY <1>2, <2>2, <3>1
  <2>4. mTdr # None \/ MasterAtEnd
    BY <1>2, <2>2 DEF SpecSends, Count, Moving
  <2> QED BY <2>3, <2>4
<1> QED BY <1>1, <1>3, <1>4, <1>5, <1>7, <1>8

LEMMA SpecSendsOnly ==
  ASSUME Timely, IInv, IndicatorsTell, SpecSends, Next
  PROVE  Clock \/ CtlSync \/ CtlReceive \/ SendChar("spec") \/ SpecSync
<1>1. /\ pc["ctl"] \in {"sync", "size", "header", "data"}
      /\ pc["spec"] \in {"sync", "size", "header", "data", "drain"}
      /\ role["ctl"] = "rx" /\ role["spec"] = "tx"
      /\ ind["ctl"] /\ ind["spec"] /\ ~CtlSettled
  BY SpecSendsFacts DEF Moving
<1>2. ASSUME NEW b \in Boards
      PROVE  /\ \A r \in Roles : ~Call(b, r)
             /\ ~Enter(b) /\ ~WaitSeen(b) /\ ~WaitExpired(b) /\ ~SyncLost(b)
             /\ ~Drain(b) /\ ~ReceiveLost(b)
  BY <1>1 DEF Boards, Call, Enter, WaitSeen, WaitExpired, SyncLost, Drain, ReceiveLost, Other
<1>3. /\ ~CtlSendLost /\ ~SpecSyncTimeout /\ ~SpecSendFails /\ ~SendChar("ctl")
      /\ ~SpecReceive /\ ~SpecReceiveTimeout
  BY <1>1 DEF CtlSendLost, SpecSyncTimeout, SpecSendFails, SendChar, Sending, SpecReceive,
              SpecReceiveTimeout, Receive, Receiving
<1> QED BY <1>1, <1>2, <1>3 DEF Next, CtlStep, SpecStep, Boards

LEMMA SpecSendsClock ==
  ASSUME Timely, IInv, IndicatorsTell, SpecSends, Clock
  PROVE  SpecSends' /\ (AllGood' <=> AllGood)
<1>1. /\ mTdr # None /\ mTdr' = None /\ sLast' = mTdr
      /\ UNCHANGED <<pc, role, inSync, moved, left, good>>
  BY DEF Clock, board
<1>2. pc["ctl"] \in Moving /\ pc["ctl"] # "sync" /\ mTdr = "dummy"
  BY <1>1 DEF SpecSends, MasterAtEnd, Moving
<1>3. PICK m \in Nat, s \in Nat, q \in Nat :
        moved["ctl"] = m /\ moved["spec"] = s /\ Len(sOut) = q
  BY DEF IInv, TypeOK, Boards
<1>4. s = m + q /\ \A i \in 1 .. q : sOut[i] = Packet[m + i]
  <2>1. Count(pc["ctl"] # "sync" /\ mTdr = None) = 0
    BY <1>1 DEF Count
  <2>2. s = m + 0 + q /\ \A i \in 1 .. q : sOut[i] = Packet[m + 0 + i]
    BY <1>3, <2>1 DEF SpecSends
  <2>3. \A i \in 1 .. q : m + 0 + i = m + i
    OBVIOUS
  <2> QED BY <2>2, <2>3
<1>5. q > 0 /\ sOut # <<>> /\ sOut \in Seq(Chars)
  <2>1. m < Len(Packet) /\ (s = Len(Packet) <=> pc["spec"] = "drain")
        /\ (pc["spec"] = "sync" => sOut = <<>>)
        /\ pc["spec"] \in {"sync", "drain"} \cup Moving /\ role["spec"] = "tx"
    BY <1>3, SpecSendsFacts
  <2>2. sOut \in Seq(Chars)
    BY DEF IInv, TypeOK
  <2>3. CASE pc["spec"] = "drain"
    BY <1>3, <1>4, <2>1, <2>2, <2>3, Sizes
  <2>4. CASE pc["spec"] \in Moving
    BY <1>3, <2>1, <2>2, <2>4 DEF Clock, SpecSettled, Moving
  <2>5. CASE pc["spec"] = "sync"
    <3>1. sRdr = "X" /\ sOut = <<>>
      BY <2>1, <2>5 DEF SpecSends, SlaveAtEnd, Moving
    <3> QED BY <2>5, <3>1 DEF Clock, SpecSettled, None
  <2> QED BY <2>1, <2>3, <2>4, <2>5
<1>6. /\ mRdr' = sOut[1] /\ sOut' = Tail(sOut) /\ Len(sOut') = q - 1
      /\ \A i \in 1 .. q - 1 : sOut'[i] = sOut[i + 1]
  BY <1>3, <1>5 DEF Clock
<1>7. mRdr' = Packet[m + 1]
  BY <1>4, <1>5, <1>6
<1>8. \A i \in 1 .. q - 1 : sOut'[i] = Packet[m + 1 + i]
  <2> SUFFICES ASSUME NEW i \in 1 .. q - 1 PROVE sOut'[i] = Packet[m + 1 + i]
    OBVIOUS
  <2>1. i + 1 \in 1 .. q /\ m + (i + 1) = m + 1 + i
    BY <1>5
  <2> QED BY <1>4, <1>6, <2>1
<1>9. Count((pc["ctl"] # "sync" /\ mTdr = None)') = 1
  BY <1>1, <1>2 DEF Count
<1>10. s = m + 1 + (q - 1) /\ pc["spec"] # "sync"
  BY <1>4, <1>5, SpecSendsFacts
<1>11. SlaveAtEnd' \/ pc'["spec"] \in Moving \cup {"drain"}
  BY <1>1, <1>10 DEF SpecSends, SlaveAtEnd
<1>12. pc'["ctl"] \in Moving /\ mTdr' \in {None, "dummy"} /\ Announced("ctl")'
       /\ (pc'["spec"] = "drain" => moved'["spec"] = Len(Packet))
       /\ role'["ctl"] = "rx" /\ role'["spec"] = "tx" /\ (AllGood' <=> AllGood)
  BY <1>1, <1>2 DEF SpecSends, Announced, AllGood
<1> HIDE DEF SpecSends
<1> QED BY <1>1, <1>2, <1>3, <1>6, <1>7, <1>8, <1>9, <1>10, <1>11, <1>12 DEF SpecSends

LEMMA SpecSendsAgain ==
  ASSUME NEW out, out = moved'["ctl"] + Count((pc["ctl"] # "sync" /\ mTdr = None)'),
         role'["ctl"] = "rx", role'["spec"] = "tx",
         MasterAtEnd' \/ (pc'["ctl"] \in Moving /\ mTdr' \in {None, "dummy"}),
         SlaveAtEnd' \/ pc'["spec"] \in Moving \cup {"drain"},
         pc'["ctl"] # "sync" /\ mTdr' = None => mRdr' = Packet[moved'["ctl"] + 1],
         moved'["spec"] = out + Len(sOut'),
         \A i \in 1 .. Len(sOut') : sOut'[i] = Packet[out + i],
         out > 0 => sLast' = "dummy",
         pc'["spec"] = "drain" => moved'["spec"] = Len(Packet),
         Announced("ctl")'
  PROVE  SpecSends'
BY DEF SpecSends

(* The steps of the master.                                                 *)
LEMMA SpecSendsCtl ==
  ASSUME IInv, IndicatorsTell, AllGood, SpecSends, CtlSync \/ CtlReceive
  PROVE  (SpecSends \/ CtlCollected)' /\ AllGood'
<1>1. PICK m \in Nat, s \in Nat, q \in Nat :
        moved["ctl"] = m /\ moved["spec"] = s /\ Len(sOut) = q
  BY DEF IInv, TypeOK, Boards
<1>2. role["ctl"] = "rx" /\ mTdr = None
  BY DEF SpecSends, CtlSync, CtlReceive
<1>3. CASE CtlSync
  <2>1. MasterAtEnd
    BY <1>3 DEF CtlSync, SpecSends, Moving
  <2>2. MasterNext("rx", 5, mRdr) = 6
    BY <1>2, <2>1 DEF MasterNext, MasterAtEnd
  <2>3. /\ mTdr' = "dummy" /\ pc'["ctl"] = "size" /\ pc'["spec"] = pc["spec"]
        /\ inSync'["spec"] = inSync["spec"]
        /\ UNCHANGED <<role, moved, left, good, sOut, sRdr, sLast>>
    BY <1>2, <1>3, <2>1, <2>2, MasterPass DEF MasterAtEnd
  <2>4. m = 0
    BY <1>1, <2>1 DEF MasterAtEnd, IInv, Indices, Boards
  <2>5. Count(pc["ctl"] # "sync" /\ mTdr = None) = 0
        /\ Count((pc["ctl"] # "sync" /\ mTdr = None)') = 0
    BY <2>1, <2>3 DEF Count, MasterAtEnd, None
  <2>6. mTdr' # None
    BY <2>3 DEF None
  <2>7. SlaveAtEnd' \/ pc'["spec"] \in Moving \cup {"drain"}
    BY <2>3 DEF SpecSends, SlaveAtEnd
  <2> QED BY <1>1, <2>3, <2>4, <2>5, <2>6, <2>7 DEF SpecSends, Announced, AllGood, Moving
<1>4. CASE CtlReceive
  <2>1. /\ pc["ctl"] \in Moving /\ pc["ctl"] # "sync" /\ mRdr' = None /\ mTdr' = "dummy"
        /\ Receive("ctl", mRdr) /\ UNCHANGED <<sOut, sRdr, sLast>>
        /\ role' = role /\ inSync' = inSync
    BY <1>4 DEF CtlReceive, Receive, Receiving, Moving
  <2>2. mRdr = Packet[m + 1] /\ sLast = "dummy" /\ s = m + 1 + q
        /\ \A i \in 1 .. q : sOut[i] = Packet[m + 1 + i]
    <3>1. Count(pc["ctl"] # "sync" /\ mTdr = None) = 1
      BY <1>2, <2>1 DEF Count
    <3> QED BY <1>1, <1>2, <2>1, <3>1 DEF SpecSends
  <2>3. m < Len(Packet) /\ s <= Len(Packet) /\ (s = Len(Packet) <=> pc["spec"] = "drain")
    BY <1>1, SpecSendsFacts
  <2>4. /\ AllGood' /\ Announced("ctl")' /\ moved'["ctl"] = m + 1 /\ moved'["spec"] = s
        /\ pc'["spec"] = pc["spec"]
        /\ \/ pc'["ctl"] \in Moving
           \/ pc'["ctl"] = "idle" /\ m + 1 = Len(Packet)
    <3>1. Announced("ctl")
      BY DEF SpecSends
    <3> QED BY <1>1, <2>1, <2>2, <2>3, <3>1, ReceivesOne DEF Boards, Other
  <2>5. mTdr' # None
    BY <2>1 DEF None
  <2>6. CASE pc'["ctl"] \in Moving
    <3>1. pc'["ctl"] # "sync"
      BY <2>6 DEF Moving
    <3>2. Count((pc["ctl"] # "sync" /\ mTdr = None)') = 0
      BY <2>5 DEF Count
    <3>3. SlaveAtEnd' \/ pc'["spec"] \in Moving \cup {"drain"}
      BY <2>1, <2>4 DEF SpecSends, SlaveAtEnd
    <3>4. role'["ctl"] = "rx" /\ role'["spec"] = "tx"
          /\ (pc'["spec"] = "drain" => moved'["spec"] = Len(Packet))
      BY <2>1, <2>3, <2>4 DEF SpecSends
    <3>5. \A i \in 1 .. Len(sOut') : sOut'[i] = Packet[m + 1 + i]
      BY <1>1, <2>1, <2>2
    <3>6. mTdr' \in {None, "dummy"} /\ sLast' = "dummy"
          /\ moved'["spec"] = m + 1 + Len(sOut')
      BY <1>1, <2>1, <2>2, <2>4
    <3>7. m + 1 = moved'["ctl"] + Count((pc["ctl"] # "sync" /\ mTdr = None)')
      BY <2>4, <3>2
    <3> QED BY <2>4, <2>5, <2>6, <3>3, <3>4, <3>5, <3>6, <3>7, SpecSendsAgain
  <2>7. CASE pc'["ctl"] = "idle" /\ m + 1 = Len(Packet)
    <3>1. q = 0 /\ s = Len(Packet)
      BY <2>2, <2>3, <2>7, Sizes
    <3>2. sOut = <<>>
      <4>1. sOut \in Seq(Chars)
        BY DEF IInv, TypeOK
      <4> QED BY <1>1, <3>1, <4>1
    <3> QED BY <1>2, <2>1, <2>2, <2>3, <2>4, <2>7, <3>1, <3>2 DEF CtlCollected
  <2> QED BY <2>4, <2>6, <2>7
<1> QED BY <1>3, <1>4

(* The steps of the slave.                                                  *)
LEMMA SpecSendsSpec ==
  ASSUME IInv, IndicatorsTell, SpecSends, SendChar("spec") \/ SpecSync
  PROVE  SpecSends' /\ (AllGood' <=> AllGood)
<1>1. PICK m \in Nat, s \in Nat, q \in Nat :
        moved["ctl"] = m /\ moved["spec"] = s /\ Len(sOut) = q
  BY DEF IInv, TypeOK, Boards
<1>2. PICK u \in {0, 1} : u = Count(pc["ctl"] # "sync" /\ mTdr = None)
  BY DEF Count
<1>3. PICK out \in Nat : out = m + u
  OBVIOUS
<1>4. /\ s = out + q /\ \A i \in 1 .. q : sOut[i] = Packet[out + i]
      /\ u = 1 => mRdr = Packet[m + 1]
      /\ out > 0 => sLast = "dummy"
      /\ sOut \in Seq(Chars)
  BY <1>1, <1>2, <1>3 DEF SpecSends, Count, IInv, TypeOK
<1>5. /\ MasterAtEnd \/ (pc["ctl"] \in Moving /\ mTdr \in {None, "dummy"})
      /\ role["ctl"] = "rx" /\ role["spec"] = "tx" /\ Announced("ctl")
  BY DEF SpecSends
<1>6. CASE SendChar("spec")
  <2>1. /\ pc["spec"] \in Moving /\ sOut' = Append(sOut, Packet[s + 1])
        /\ moved' = [moved EXCEPT !["spec"] = s + 1]
        /\ pc' = [pc EXCEPT !["spec"] = PartOf(s + 2)]
        /\ UNCHANGED <<role, left, good, inSync, mTdr, mRdr, sLast>>
    BY <1>1, <1>6 DEF SendChar, Sending, Moving
  <2>2. s + 1 <= Len(Packet)
    BY <1>1, <2>1, Sizes, SpecSendsFacts DEF Moving
  <2>3. moved'["ctl"] = m /\ moved'["spec"] = s + 1
        /\ pc'["ctl"] = pc["ctl"] /\ pc'["spec"] = PartOf(s + 2)
    BY <1>1, <2>1 DEF IInv, TypeOK, Boards
  <2>4. /\ pc'["spec"] \in Moving \cup {"drain"}
        /\ pc'["spec"] = "drain" => s + 1 = Len(Packet)
    BY <1>1, <2>2, <2>3, Parts, PartDrain, Sizes
  <2>5. Len(sOut') = q + 1
        /\ sOut'[q + 1] = Packet[s + 1] /\ \A i \in 1 .. q : sOut'[i] = sOut[i]
    <3>1. Packet[s + 1] \in Chars
      BY <1>1, <2>2, Sizes DEF Chars, PacketChars
    <3> QED BY <1>1, <1>4, <2>1, <3>1
  <2>6. \A i \in 1 .. Len(sOut') : sOut'[i] = Packet[out + i]
    <3> SUFFICES ASSUME NEW i \in 1 .. q + 1 PROVE sOut'[i] = Packet[out + i]
      BY <2>5
    <3>1. CASE i = q + 1
      <4>1. out + i = s + 1
        BY <1>4, <3>1
      <4> QED BY <2>5, <3>1, <4>1
    <3>2. CASE i \in 1 .. q
      BY <1>4, <2>5, <3>2
    <3> QED BY <3>1, <3>2
  <2>7. MasterAtEnd' \/ (pc'["ctl"] \in Moving /\ mTdr' \in {None, "dummy"})
    BY <1>5, <2>1, <2>3 DEF MasterAtEnd
  <2>8. role'["ctl"] = "rx" /\ role'["spec"] = "tx" /\ Announced("ctl")' /\ (AllGood' <=> AllGood)
        /\ u = Count((pc["ctl"] # "sync" /\ mTdr = None)')
        /\ (u = 1 => mRdr' = Packet[m + 1])
        /\ (out > 0 => sLast' = "dummy")
    BY <1>1, <1>2, <1>4, <1>5, <2>1, <2>3 DEF Announced, AllGood
  <2>9. /\ out = moved'["ctl"] + Count((pc["ctl"] # "sync" /\ mTdr = None)')
        /\ moved'["spec"] = out + Len(sOut')
        /\ \A i \in 1 .. Len(sOut') : sOut'[i] = Packet[out + i]
        /\ pc'["ctl"] # "sync" /\ mTdr' = None => mRdr' = Packet[moved'["ctl"] + 1]
        /\ out > 0 => sLast' = "dummy"
        /\ pc'["spec"] = "drain" => moved'["spec"] = Len(Packet)
    <3>1. pc'["ctl"] # "sync" /\ mTdr' = None => u = 1
      BY <2>8 DEF Count
    <3>2. s + 1 = out + Len(sOut')
      BY <1>4, <2>5
    <3> HIDE DEF Count
    <3> QED BY <1>3, <2>3, <2>4, <2>6, <2>8, <3>1, <3>2
  <2>10. SpecSends'
    <3>1. role'["ctl"] = "rx" /\ role'["spec"] = "tx" /\ Announced("ctl")'
      BY <2>8
    <3> QED BY <2>4, <2>7, <2>9, <3>1, SpecSendsAgain
  <2> QED BY <2>8, <2>10
<1>7. CASE SpecSync
  <2>1. sOut = <<>> /\ SlaveAtEnd
    <3>1. pc["spec"] = "sync"
      BY <1>7 DEF SpecSync
    <3> QED BY <3>1, SpecSendsFacts DEF SpecSends, Moving
  <2>2. PICK c \in Chars : SlavePasses(c)
    BY <1>7, SlavePass
  <2>3. c = "X"
    BY <2>1, <2>2 DEF SlavePasses, SpecRead, SlaveAtEnd
  <2>4. SlaveNext(role["spec"], inSync["spec"], c) = 5
    BY <2>1, <2>3 DEF SlaveNext, SlaveAtEnd, Sync
  <2>5. /\ pc'["spec"] = "size" /\ pc'["ctl"] = pc["ctl"] /\ inSync'["ctl"] = inSync["ctl"]
        /\ sOut' = sOut
    BY <2>2, <2>4 DEF SlavePasses
  <2>6. UNCHANGED <<role, moved, left, good, mTdr, mRdr, sLast>>
    BY <1>7 DEF SpecSync
  <2>7. MasterAtEnd' \/ (pc'["ctl"] \in Moving /\ mTdr' \in {None, "dummy"})
    BY <1>5, <2>5, <2>6 DEF MasterAtEnd
  <2>8. role'["ctl"] = "rx" /\ role'["spec"] = "tx" /\ Announced("ctl")' /\ (AllGood' <=> AllGood)
        /\ u = Count((pc["ctl"] # "sync" /\ mTdr = None)')
        /\ moved'["ctl"] = m /\ moved'["spec"] = s /\ Len(sOut') = q
        /\ (u = 1 => mRdr' = Packet[m + 1])
        /\ (out > 0 => sLast' = "dummy")
        /\ \A i \in 1 .. q : sOut'[i] = Packet[out + i]
    BY <1>1, <1>2, <1>4, <1>5, <2>5, <2>6 DEF Announced, AllGood
  <2>9. pc'["spec"] \in Moving /\ pc'["spec"] # "drain"
    BY <2>5 DEF Moving
  <2>10. /\ out = moved'["ctl"] + Count((pc["ctl"] # "sync" /\ mTdr = None)')
         /\ moved'["spec"] = out + Len(sOut')
         /\ \A i \in 1 .. Len(sOut') : sOut'[i] = Packet[out + i]
         /\ pc'["ctl"] # "sync" /\ mTdr' = None => mRdr' = Packet[moved'["ctl"] + 1]
         /\ out > 0 => sLast' = "dummy"
    <3>1. pc'["ctl"] # "sync" /\ mTdr' = None => u = 1
      BY <2>8 DEF Count
    <3> QED BY <1>4, <1>3, <2>8, <3>1
  <2>11. SpecSends'
    <3>1. role'["ctl"] = "rx" /\ role'["spec"] = "tx" /\ Announced("ctl")'
      BY <2>8
    <3> QED BY <2>7, <2>9, <2>10, <3>1, SpecSendsAgain
  <2> QED BY <2>8, <2>11
<1> QED BY <1>6, <1>7

(* The spectrometer has collected the packet.  It may be in the next call,  *)
(* where it waits for the controller, which only has to return.             *)
LEMMA SpecCollectedOnly ==
  ASSUME IInv, IndicatorsTell, SpecCollected, Next
  PROVE  (\E r \in Roles : Call("spec", r)) \/ Enter("spec") \/ Drain("ctl")
<1>1. /\ pc["ctl"] = "drain" /\ pc["spec"] \in {"idle", "enter", "early", "sync"}
      /\ ind["ctl"] /\ mTdr = None /\ sRdr = None
  BY DEF SpecCollected, IndicatorsTell, Boards
<1>2. ~Clock /\ ~SpecSync
  BY <1>1 DEF Clock, SpecSync, SpecRead
<1>3. /\ ~CtlSync /\ ~SendChar("ctl") /\ ~CtlSendLost /\ ~CtlReceive /\ ~ReceiveLost("ctl")
      /\ ~Enter("ctl") /\ ~WaitSeen("ctl") /\ ~WaitExpired("ctl") /\ ~SyncLost("ctl")
      /\ ~\E r \in Roles : Call("ctl", r)
  BY <1>1 DEF CtlSync, SendChar, Sending, CtlSendLost, CtlReceive, Receive, Receiving,
              ReceiveLost, Enter, WaitSeen, WaitExpired, SyncLost, Call
<1>4. /\ ~WaitSeen("spec") /\ ~WaitExpired("spec") /\ ~SyncLost("spec")
      /\ ~SendChar("spec") /\ ~SpecSendFails /\ ~Drain("spec")
      /\ ~SpecReceive /\ ~ReceiveLost("spec") /\ ~SpecReceiveTimeout
  BY <1>1 DEF WaitSeen, WaitExpired, SyncLost, Other, SendChar, Sending, SpecSendFails,
              Drain, SpecReceive, Receive, Receiving, ReceiveLost, SpecReceiveTimeout
<1>5. ~SpecSyncTimeout
  <2>1. Len(sOut) = 1 \/ pc["spec"] # "sync"
    BY DEF SpecCollected
  <2> QED BY <2>1 DEF SpecSyncTimeout
<1> QED BY <1>2, <1>3, <1>4, <1>5 DEF Next, CtlStep, SpecStep, Boards

LEMMA SpecCollectedKeeps ==
  ASSUME IInv, IndicatorsTell, AllGood, SpecCollected, Next
  PROVE  /\ AllGood' /\ (SpecCollected \/ Apart)'
         /\ pc'["ctl"] = "idle" => moved["spec"] = Len(Packet)
<1>1. /\ pc["ctl"] = "drain" /\ pc["spec"] \in {"idle", "enter", "early", "sync"}
      /\ ind["ctl"] /\ mTdr = None /\ sRdr = None /\ role["spec"] = "rx"
  BY DEF SpecCollected, IndicatorsTell, Boards
<1>2. ASSUME NEW r \in Roles, Call("spec", r)
      PROVE  AllGood' /\ SpecCollected'
  <2>1. /\ pc["spec"] = "idle" /\ r = "rx"
        /\ pc' = [pc EXCEPT !["spec"] = "enter"] \/ pc' = [pc EXCEPT !["spec"] = "early"]
        /\ role' = [role EXCEPT !["spec"] = r]
        /\ UNCHANGED <<moved, good, wire>>
    BY <1>1, <1>2 DEF Call, Other, Roles
  <2>2. pc'["ctl"] = "drain" /\ pc'["spec"] \in {"enter", "early"} /\ role'["spec"] = "rx"
    BY <1>1, <2>1 DEF IInv, TypeOK, Boards
  <2> QED BY <2>1, <2>2 DEF AllGood, SpecCollected, wire
<1>3. CASE Enter("spec")
  <2>1. /\ pc' = [pc EXCEPT !["spec"] = "sync"]
        /\ inSync' = [inSync EXCEPT !["spec"] = 0]
        /\ good' = [good EXCEPT !["spec"] = TRUE]
        /\ sRdr' = None /\ sOut = <<>> /\ SpecWrite(Sync("rx", 0))
        /\ UNCHANGED <<role, mTdr>>
    BY <1>1, <1>3 DEF Enter, StartSync, SpecCollected
  <2>2. sOut' = <<Sync("rx", 0)>>
    BY <2>1 DEF SpecWrite
  <2>3. pc'["ctl"] = "drain" /\ pc'["spec"] = "sync" /\ inSync'["spec"] = 0 /\ AllGood'
    BY <1>1, <2>1 DEF IInv, TypeOK, Boards, AllGood
  <2> QED BY <1>1, <2>1, <2>2, <2>3 DEF SpecCollected
<1>4. CASE Drain("ctl")
  <2>1. ~ind["spec"]
    BY <1>4 DEF Drain, Other
  <2>2. pc["spec"] \in {"idle", "enter", "early"} /\ moved["spec"] = Len(Packet)
    BY <2>1 DEF IndicatorsTell, Boards, SpecCollected
  <2>3. pc'["ctl"] = "idle" /\ pc'["spec"] = pc["spec"] /\ good' = good
    BY <1>4 DEF Drain, Return, IInv, TypeOK, Boards
  <2>4. AllGood' /\ Apart'
    BY <2>2, <2>3 DEF AllGood, Apart, Aside, SlaveAnswers, MasterAsks, Alone, InStep,
                      LetterInStep
  <2> QED BY <2>2, <2>4
<1>5. SpecCollected' => pc'["ctl"] # "idle"
  BY DEF SpecCollected
<1>6. CASE \E r \in Roles : Call("spec", r)
  BY <1>2, <1>5, <1>6
<1> QED BY <1>3, <1>4, <1>5, <1>6, SpecCollectedOnly

(* The controller has collected the packet.  It may be in the next call,    *)
(* where it gets back what it sends.                                        *)
LEMMA CtlCollectedOnly ==
  ASSUME IInv, IndicatorsTell, CtlCollected, Next
  PROVE  \/ Clock \/ (\E r \in Roles : Call("ctl", r)) \/ Enter("ctl") \/ CtlSync
         \/ Drain("spec")
<1>1. /\ pc["spec"] = "drain" /\ pc["ctl"] \in {"idle", "enter", "early", "sync"}
      /\ ind["spec"] /\ sOut = <<>>
  BY DEF CtlCollected, IndicatorsTell, Boards
<1>2. /\ ~SendChar("ctl") /\ ~CtlSendLost /\ ~CtlReceive /\ ~ReceiveLost("ctl")
      /\ ~WaitSeen("ctl") /\ ~WaitExpired("ctl") /\ ~SyncLost("ctl") /\ ~Drain("ctl")
  BY <1>1 DEF SendChar, Sending, CtlSendLost, CtlReceive, Receive, Receiving, ReceiveLost,
              WaitSeen, WaitExpired, SyncLost, Drain, Other
<1>3. /\ ~Enter("spec") /\ ~WaitSeen("spec") /\ ~WaitExpired("spec") /\ ~SyncLost("spec")
      /\ ~SpecSync /\ ~SpecSyncTimeout /\ ~\E r \in Roles : Call("spec", r)
  BY <1>1 DEF Enter, WaitSeen, WaitExpired, SyncLost, SpecSync, SpecSyncTimeout, Call
<1>4. /\ ~SendChar("spec") /\ ~SpecSendFails
      /\ ~SpecReceive /\ ~ReceiveLost("spec") /\ ~SpecReceiveTimeout
  BY <1>1 DEF SendChar, Sending, SpecSendFails, SpecReceive, Receive, Receiving, ReceiveLost,
              SpecReceiveTimeout
<1> QED BY <1>2, <1>3, <1>4 DEF Next, CtlStep, SpecStep, Boards

LEMMA CtlCollectedKeeps ==
  ASSUME IInv, IndicatorsTell, AllGood, CtlCollected, Next
  PROVE  /\ AllGood' /\ (CtlCollected \/ Apart)'
         /\ pc'["spec"] = "idle" => moved["ctl"] = Len(Packet)
<1>1. /\ pc["spec"] = "drain" /\ pc["ctl"] \in {"idle", "enter", "early", "sync"}
      /\ ind["spec"] /\ role["ctl"] = "rx" /\ sOut = <<>> /\ sLast \in {"dummy", "S"}
  BY DEF CtlCollected, IndicatorsTell, Boards
<1>2. CASE Clock
  <2>1. UNCHANGED <<pc, role, inSync, moved, good>>
    BY <1>2 DEF Clock, board
  <2>2. mTdr' = None /\ mTdr # None /\ sLast' = mTdr /\ sOut' = <<>> /\ mRdr' = sLast
    BY <1>1, <1>2 DEF Clock
  <2> QED BY <2>1, <2>2 DEF CtlCollected, AllGood
<1>3. ASSUME NEW r \in Roles, Call("ctl", r)
      PROVE  AllGood' /\ CtlCollected'
  <2>1. /\ pc["ctl"] = "idle" /\ r = "rx"
        /\ pc' = [pc EXCEPT !["ctl"] = "enter"] \/ pc' = [pc EXCEPT !["ctl"] = "early"]
        /\ role' = [role EXCEPT !["ctl"] = r]
        /\ UNCHANGED <<moved, good, inSync, wire>>
    BY <1>1, <1>3 DEF Call, Other, Roles
  <2>2. pc'["spec"] = "drain" /\ pc'["ctl"] \in {"enter", "early"} /\ role'["ctl"] = "rx"
    BY <1>1, <2>1 DEF IInv, TypeOK, Boards
  <2> QED BY <2>1, <2>2 DEF AllGood, CtlCollected, wire
<1>4. CASE Enter("ctl")
  <2>1. /\ pc' = [pc EXCEPT !["ctl"] = "sync"]
        /\ inSync' = [inSync EXCEPT !["ctl"] = 1]
        /\ good' = [good EXCEPT !["ctl"] = TRUE]
        /\ mRdr' = None /\ mTdr' = Sync("rx", 1) /\ UNCHANGED <<role, sOut, sLast>>
    BY <1>1, <1>4 DEF Enter, StartSync
  <2>2. pc'["spec"] = "drain" /\ pc'["ctl"] = "sync" /\ inSync'["ctl"] = 1 /\ AllGood'
        /\ mTdr' = "S"
    BY <1>1, <2>1 DEF IInv, TypeOK, Boards, AllGood, Sync
  <2> QED BY <1>1, <2>1, <2>2 DEF CtlCollected
<1>5. CASE CtlSync
  <2>1. pc["ctl"] = "sync" /\ inSync["ctl"] = 1 /\ mRdr \in {"dummy", "S"}
    BY <1>5 DEF CtlCollected, CtlSync
  <2>2. MasterNext(role["ctl"], 1, mRdr) = 1
    BY <2>1 DEF MasterNext, Sync
  <2>3. /\ pc'["ctl"] = "sync" /\ inSync'["ctl"] = 1 /\ mTdr' = Sync(role["ctl"], 1)
        /\ pc'["spec"] = pc["spec"] /\ mRdr' = None
        /\ UNCHANGED <<role, moved, good, sOut, sLast>>
    BY <1>5, <2>1, <2>2, MasterPass
  <2> QED BY <1>1, <2>3 DEF CtlCollected, Sync, AllGood
<1>6. CASE Drain("spec")
  <2>1. ~ind["ctl"]
    BY <1>1, <1>6 DEF Drain, Other
  <2>2. pc["ctl"] \in {"idle", "enter", "early"} /\ moved["ctl"] = Len(Packet)
    BY <2>1 DEF IndicatorsTell, Boards, CtlCollected
  <2>3. pc'["spec"] = "idle" /\ pc'["ctl"] = pc["ctl"] /\ good' = good
    BY <1>1, <1>6 DEF Drain, Return, IInv, TypeOK, Boards
  <2>4. AllGood' /\ Apart'
    BY <2>2, <2>3 DEF AllGood, Apart, Aside, SlaveAnswers, MasterAsks, Alone, InStep,
                      LetterInStep
  <2> QED BY <2>2, <2>4
<1>7. CtlCollected' => pc'["spec"] # "idle"
  BY DEF CtlCollected
<1>8. CASE \E r \in Roles : Call("ctl", r)
  BY <1>3, <1>7, <1>8
<1> QED
  <2>1. CASE Clock \/ CtlSync
    BY <1>2, <1>5, <1>7, <2>1
  <2>2. CASE Enter("ctl") \/ Drain("spec")
    BY <1>4, <1>6, <1>7, <2>2
  <2> QED BY <1>8, <2>1, <2>2, CtlCollectedOnly

(* The boards are apart.  One of them stays out of the handshake, or leaves *)
(* it while the other is out of it.                                         *)
LEMMA ApartLeaves ==
  ASSUME IInv, Apart, NEW b \in Boards, pc'[b] \in Aside,
         pc[b] \in Aside \/ pc[Other(b)] \in Aside,
         pc'[Other(b)] = pc[Other(b)], role'[Other(b)] = role[Other(b)],
         UNCHANGED <<inSync, mTdr, sOut, sLast>>,
         b = "spec" => mRdr' = mRdr, b = "ctl" => sRdr' = sRdr
  PROVE  Apart'
<1>1. CASE b = "ctl"
  <2>1. pc'["ctl"] \in Aside /\ pc'["ctl"] # "sync" /\ pc'["spec"] = pc["spec"] /\ sRdr' = sRdr
    BY <1>1 DEF Other, Aside
  <2>2. pc["spec"] = "sync" => pc["ctl"] \in Aside
    BY <1>1 DEF Other, Aside
  <2>3. SlaveAnswers' /\ Alone'
    BY <2>1, <2>2 DEF Apart, SlaveAnswers, Alone
  <2> QED BY <2>1, <2>3 DEF Apart, MasterAsks, InStep, LetterInStep
<1>2. CASE b = "spec"
  <2>1. /\ pc'["spec"] \in Aside /\ pc'["spec"] # "sync" /\ pc'["ctl"] = pc["ctl"]
        /\ role'["ctl"] = role["ctl"] /\ mRdr' = mRdr
    BY <1>2 DEF Other, Aside
  <2>2. pc["ctl"] = "sync" => pc["spec"] # "sync"
    BY <1>2 DEF Other, Aside
  <2>3. MasterAsks'
    BY <2>1 DEF Apart, MasterAsks
  <2>4. LetterInStep'
    BY <2>1, <2>2 DEF Apart, LetterInStep, Passing
  <2> QED BY <2>1, <2>3, <2>4 DEF Apart, SlaveAnswers, Alone, InStep
<1> QED BY <1>1, <1>2 DEF Boards

LEMMA ApartOnly ==
  ASSUME Apart, Next
  PROVE  \/ Clock \/ (\E b \in Boards, r \in Roles : Call(b, r))
         \/ CtlSync \/ SpecSync \/ SpecSyncTimeout
         \/ \E b \in Boards : Enter(b) \/ WaitSeen(b) \/ WaitExpired(b) \/ SyncLost(b)
<1>1. \A b \in Boards : pc[b] \notin {"size", "header", "data", "drain"}
  BY DEF Apart, Aside, Boards
<1>2. \A b \in Boards : ~SendChar(b) /\ ~Drain(b) /\ ~ReceiveLost(b)
  BY <1>1 DEF SendChar, Sending, Drain, ReceiveLost, Receiving
<1>3. /\ ~CtlSendLost /\ ~SpecSendFails /\ ~CtlReceive /\ ~SpecReceive
      /\ ~SpecReceiveTimeout
  BY <1>1 DEF CtlSendLost, SpecSendFails, Sending, CtlReceive, SpecReceive,
              SpecReceiveTimeout, Receive, Receiving, Boards
<1> QED BY <1>2, <1>3 DEF Next, CtlStep, SpecStep, Boards

LEMMA ApartStays ==
  ASSUME Timely, IInv, IndicatorsTell, Apart, NEW b \in Boards,
         \/ \E r \in Roles : Call(b, r)
         \/ (Enter(b) /\ role[b] = "tx")
         \/ WaitExpired(b) \/ SyncLost(b)
         \/ SpecSyncTimeout /\ b = "spec"
  PROVE  Apart'
<1>1. ASSUME NEW r \in Roles, Call(b, r) PROVE Apart'
  <2>1. /\ pc[b] = "idle" /\ pc'[b] \in {"enter", "early"}
        /\ pc'[Other(b)] = pc[Other(b)] /\ role'[Other(b)] = role[Other(b)]
        /\ UNCHANGED <<inSync, wire>>
    BY <1>1 DEF Call, IInv, TypeOK, Boards, Other
  <2> QED BY <2>1, ApartLeaves DEF Aside, wire
<1>2. CASE Enter(b) /\ role[b] = "tx"
  <2>1. /\ pc[b] \in {"enter", "early"} /\ pc' = [pc EXCEPT ![b] = "wait"]
        /\ UNCHANGED <<role, inSync, mTdr, sOut, sLast>>
        /\ b = "spec" => mRdr' = mRdr
        /\ b = "ctl" => sRdr' = sRdr
    BY <1>2 DEF Enter
  <2>2. pc'[b] = "wait" /\ pc'[Other(b)] = pc[Other(b)] /\ role'[Other(b)] = role[Other(b)]
    BY <2>1 DEF IInv, TypeOK, Boards, Other
  <2> QED BY <2>1, <2>2, ApartLeaves DEF Aside
<1>3. ASSUME NEW v, Return(b, v), UNCHANGED <<role, inSync, wire>>,
             pc[b] \in Aside \/ pc[Other(b)] \in Aside
      PROVE  Apart'
  <2>1. pc'[b] = "idle" /\ pc'[Other(b)] = pc[Other(b)] /\ role'[Other(b)] = role[Other(b)]
    BY <1>3 DEF Return, IInv, TypeOK, Boards, Other
  <2> QED BY <1>3, <2>1, ApartLeaves DEF Aside, wire
<1>4. CASE WaitExpired(b)
  BY <1>3, <1>4 DEF WaitExpired, Aside
<1>5. CASE SyncLost(b)
  <2>1. pc[Other(b)] \in Aside
    BY <1>5 DEF SyncLost, IndicatorsTell, Boards, Other, Aside
  <2> QED BY <1>3, <1>5, <2>1 DEF SyncLost
<1>6. CASE SpecSyncTimeout /\ b = "spec"
  <2>1. mTdr = None /\ (pc["ctl"] = "sync" => mRdr = None)
    BY <1>6 DEF SpecSyncTimeout, CtlSettled
  <2>2. pc["ctl"] \in Aside
    BY <2>1 DEF Apart, MasterAsks
  <2> QED BY <1>3, <1>6, <2>2 DEF SpecSyncTimeout, Other
<1> QED BY <1>1, <1>2, <1>4, <1>5, <1>6

(* The beginning of the handshake on the master ...                         *)
LEMMA ApartMasterStarts ==
  ASSUME IInv, Apart, pc["ctl"] \in Aside, StartSync("ctl"),
         UNCHANGED <<role, sRdr, sLast>>
  PROVE  Apart'
<1>1. /\ pc'["ctl"] = "sync" /\ inSync'["ctl"] = 1 /\ mTdr = None /\ mTdr' = Sync(role["ctl"], 1)
      /\ pc'["spec"] = pc["spec"] /\ inSync'["spec"] = inSync["spec"] /\ sOut' = sOut
  BY DEF StartSync, IInv, TypeOK, Boards
<1>2. mTdr' # None /\ Len(sOut) \in Nat /\ Len(sOut) <= 2
  BY <1>1 DEF Sync, None, IInv, TypeOK
<1>3. SlaveAnswers' /\ MasterAsks'
  BY <1>1, <1>2 DEF Apart, SlaveAnswers, MasterAsks
<1>4. pc["spec"] = "sync" => \/ inSync["spec"] = 0
                             \/ inSync["spec"] = 1 /\ (sRdr = None \/ Len(sOut) = 2)
  BY <1>1 DEF Apart, Alone
<1>5. InStep'
  BY <1>1, <1>2, <1>4 DEF InStep, Level
<1>6. LetterInStep'
  <2>1. \A i \in 1 .. Len(sOut) : Passing(i)'
    BY <1>1, <1>2 DEF Passing
  <2> QED BY <1>1, <1>2, <2>1 DEF LetterInStep
<1>7. pc'["ctl"] \notin Aside /\ pc'["spec"] \in Aside \cup {"sync"}
  BY <1>1 DEF Apart, Aside
<1> QED BY <1>1, <1>3, <1>5, <1>6, <1>7 DEF Apart, Alone

(* ... and on the slave.                                                    *)
LEMMA ApartSlaveStarts ==
  ASSUME IInv, Apart, pc["spec"] \in Aside, StartSync("spec"),
         UNCHANGED <<role, mRdr, sLast>>
  PROVE  Apart'
<1>1. /\ pc'["spec"] = "sync" /\ inSync'["spec"] = 0 /\ SpecWrite("?") /\ mTdr' = mTdr
      /\ pc'["ctl"] = pc["ctl"] /\ inSync'["ctl"] = inSync["ctl"]
  BY DEF StartSync, IInv, TypeOK, Boards, Sync
<1>2. sOut \in Seq(Chars) /\ Len(sOut) \in Nat
  BY DEF IInv, TypeOK
<1>3. /\ sOut' # <<>>
      /\ \A i \in 1 .. Len(sOut') : (i \in 1 .. Len(sOut) /\ sOut'[i] = sOut[i]) \/ sOut'[i] = "?"
  <2>1. CASE Len(sOut) < 2
    <3>1. sOut' = Append(sOut, "?")
      BY <1>1, <2>1 DEF SpecWrite
    <3>2. Len(sOut') = Len(sOut) + 1
          /\ \A i \in 1 .. Len(sOut) + 1 : sOut'[i] = IF i = Len(sOut) + 1 THEN "?" ELSE sOut[i]
      BY <1>2, <3>1, SyncTypes
    <3> QED BY <1>2, <3>1, <3>2
  <2>2. CASE Len(sOut) >= 2
    BY <1>1, <1>2, <2>2 DEF SpecWrite
  <2> QED BY <1>2, <2>1, <2>2
<1>4. SlaveAnswers' /\ MasterAsks' /\ Alone' /\ InStep'
  BY <1>1, <1>3 DEF Apart, SlaveAnswers, MasterAsks, Alone, InStep, Level
<1>5. LetterInStep'
  <2> SUFFICES ASSUME pc["ctl"] = "sync" PROVE LetterInStep'
    BY <1>1 DEF LetterInStep
  <2>1. pc["spec"] # "sync"
    BY DEF Aside
  <2>2. Partner(role["ctl"]) # "?"
    BY DEF Partner
  <2>3. \A i : Passing(i)' <=> Passing(i)
    BY <1>1 DEF Passing
  <2>4. \A i \in 1 .. Len(sOut') : sOut'[i] = Partner(role["ctl"]) => Passing(i)'
    BY <1>3, <2>1, <2>2, <2>3 DEF Apart, LetterInStep
  <2> QED BY <1>1, <2>4 DEF Apart, LetterInStep
<1> QED BY <1>1, <1>4, <1>5 DEF Apart, Aside

LEMMA ApartStarts ==
  ASSUME IInv, Apart, NEW b \in Boards, (Enter(b) /\ role[b] = "rx") \/ WaitSeen(b)
  PROVE  Apart'
<1>1. CASE b = "ctl" /\ WaitSeen(b)
  BY <1>1, ApartMasterStarts DEF WaitSeen, Aside
<1>2. CASE b = "spec" /\ WaitSeen(b)
  BY <1>2, ApartSlaveStarts DEF WaitSeen, Aside
<1>3. CASE b = "ctl" /\ Enter(b) /\ role[b] = "rx"
  BY <1>3, ApartMasterStarts DEF Enter, Aside
<1>4. CASE b = "spec" /\ Enter(b) /\ role[b] = "rx"
  BY <1>4, ApartSlaveStarts DEF Enter, Aside
<1> QED BY <1>1, <1>2, <1>3, <1>4 DEF Boards

LEMMA Shift ==
  ASSUME NEW q \in Seq(Chars), q # <<>>, Len(q) <= 2
  PROVE  /\ Len(q) \in {1, 2} /\ Head(q) = q[1] /\ q[1] \in Chars
         /\ Len(Tail(q)) = Len(q) - 1
         /\ \A i \in 1 .. Len(q) - 1 : Tail(q)[i] = q[i + 1]
         /\ Tail(q) = <<>> <=> Len(q) = 1
<1>1. Len(q) \in Nat /\ Len(q) > 0
  OBVIOUS
<1>2. Len(q) \in {1, 2}
  <2>1. PICK n \in Nat : n = Len(q)
    BY <1>1
  <2>2. n > 0 /\ n <= 2 => n \in {1, 2}
    OBVIOUS
  <2> QED BY <1>1, <2>1, <2>2
<1>3. Tail(q) \in Seq(Chars) /\ Len(Tail(q)) = Len(q) - 1
      /\ \A i \in 1 .. Len(q) - 1 : Tail(q)[i] = q[i + 1]
  BY <1>1
<1>4. Tail(q) = <<>> <=> Len(Tail(q)) = 0
  BY <1>3
<1> QED BY <1>1, <1>2, <1>3, <1>4

(* One character is exchanged.  At the end of the handshake this leads to   *)
(* the transfer.                                                            *)
LEMMA ApartClock ==
  ASSUME Timely, IInv, Apart, Clock
  PROVE  (Apart \/ CtlSends \/ SpecSends)'
<1> DEFINE m == inSync["ctl"]
           s == inSync["spec"]
           rc == role["ctl"]
           rs == role["spec"]
<1>1. /\ mTdr # None /\ mTdr' = None /\ sRdr' = mTdr /\ sLast' = mTdr
      /\ UNCHANGED <<pc, role, inSync, moved, left, good>>
      /\ pc["spec"] = "sync" => sOut # <<>>
  BY DEF Clock, board, SpecSettled, Apart, SlaveAnswers
<1>2. /\ sOut \in Seq(Chars) /\ Len(sOut) \in Nat /\ Len(sOut) <= 2 /\ sLast \in Chars
      /\ rc \in Roles /\ rs \in Roles
      /\ pc["ctl"] = "sync" => m \in 1 .. 5
      /\ pc["spec"] = "sync" => s \in 0 .. 4
  BY DEF IInv, TypeOK, InString, SyncLen, Boards
<1>3. /\ sOut = <<>> => mRdr' = sLast /\ sOut' = <<>>
      /\ sOut # <<>> => /\ mRdr' = sOut[1] /\ Len(sOut) \in {1, 2}
                        /\ Len(sOut') = Len(sOut) - 1
                        /\ \A i \in 1 .. Len(sOut') : sOut'[i] = sOut[i + 1]
      /\ mRdr' \in Chars
  <2>1. CASE sOut = <<>>
    BY <1>2, <2>1 DEF Clock
  <2>2. CASE sOut # <<>>
    BY <1>2, <2>2, Shift DEF Clock
  <2> QED BY <2>1, <2>2
<1> DEFINE q == Len(sOut')
<1>4. q \in Nat /\ (q = 0 <=> sOut' = <<>>)
       /\ (sOut # <<>> => Len(sOut) = q + 1 /\ q \in {0, 1})
  <2>1. CASE sOut = <<>>
    BY <1>3, <2>1
  <2>2. CASE sOut # <<>>
    <3>1. sOut' = Tail(sOut)
      BY <2>2 DEF Clock
    <3> QED BY <1>2, <2>2, <3>1, Shift
  <2> QED BY <2>1, <2>2
<1>5. mRdr' # None
  BY <1>3, PacketAssumption DEF Chars, SyncChars, None
<1>6. SlaveAnswers' /\ MasterAsks'
  BY <1>1, <1>5 DEF SlaveAnswers, MasterAsks
<1>7. Alone'
  BY <1>1 DEF Apart, Alone
<1>8. pc["ctl"] = "sync" => mTdr = Sync(rc, m)
  BY <1>1 DEF Apart, MasterAsks
<1>9. CASE pc["ctl"] = "sync" /\ pc["spec"] = "sync" /\ m = 5 /\ s = 4
  <2>1. /\ rc # rs /\ sOut = <<Sync(rs, 4)>>
    BY <1>1, <1>9 DEF Apart, InStep, Answering
  <2>2. mRdr' = Partner(rc) /\ sOut' = <<>> /\ sRdr' = "X"
    BY <1>1, <1>2, <1>3, <1>8, <1>9, <1>4, <2>1 DEF Sync, Partner, Roles
  <2>3. moved["ctl"] = 0 /\ moved["spec"] = 0
    BY <1>9 DEF IInv, Indices, Boards
  <2>4. MasterAtEnd' /\ SlaveAtEnd'
    BY <1>1, <1>9, <2>2 DEF MasterAtEnd, SlaveAtEnd
  <2>5. pc'["ctl"] = "sync" /\ pc'["spec"] = "sync" /\ moved'["ctl"] = 0 /\ moved'["spec"] = 0
        /\ role'["ctl"] = rc /\ role'["spec"] = rs
    BY <1>1, <1>9, <2>3
  <2>6. CASE rc = "tx" /\ rs = "rx"
    <3> QED BY <1>1, <2>2, <2>4, <2>5, <2>6 DEF CtlSends, Announced, Count
  <2>7. CASE rc = "rx" /\ rs = "tx"
    <3> QED BY <1>1, <2>2, <2>4, <2>5, <2>7 DEF SpecSends, Announced, Count
  <2> QED BY <1>2, <2>1, <2>6, <2>7 DEF Roles
<1>10. CASE ~(pc["ctl"] = "sync" /\ pc["spec"] = "sync" /\ m = 5 /\ s = 4)
  <2>1. ASSUME pc["ctl"] = "sync", pc["spec"] = "sync"
        PROVE  /\ Level(m, s) /\ ~(m = 5 /\ s = 4)
               /\ q = 1 => s = 0 \/ (m = 1 /\ s = 1)
               /\ q \in {0, 1} /\ sOut # <<>>
    <3>1. Level(m, s) /\ (Len(sOut) = 2 => s = 0 \/ (m = 1 /\ s = 1)) /\ sOut # <<>>
      BY <1>1, <2>1 DEF Apart, InStep
    <3>2. Len(sOut) = q + 1 /\ q \in {0, 1}
      BY <1>4, <3>1
    <3>3. q = 1 => Len(sOut) = 2
      BY <3>2
    <3> HIDE DEF q, m, s
    <3> QED BY <1>10, <2>1, <3>1, <3>2, <3>3
  <2>2. InStep'
    <3> SUFFICES ASSUME pc["ctl"] = "sync", pc["spec"] = "sync" PROVE InStep'
      BY <1>1 DEF InStep
    <3>1. m = 5 => s = 0
      BY <1>2, <2>1 DEF Level
    <3> QED BY <1>1, <1>2, <1>8, <1>4, <2>1, <3>1 DEF InStep
  <2>3. LetterInStep'
    <3> SUFFICES ASSUME pc["ctl"] = "sync" PROVE LetterInStep'
      BY <1>1 DEF LetterInStep
    <3> DEFINE P == Partner(rc)
    <3>1. sLast' # P
      BY <1>1, <1>8 DEF Sync, Partner
    <3>2. /\ sLast = P => m = 1
          /\ \A i \in 1 .. Len(sOut) : sOut[i] = P =>
               m + i - 1 <= 3 \/ (pc["spec"] = "sync" /\ s = 4 /\ m >= 4)
      BY <1>1 DEF Apart, LetterInStep, Passing
    <3>3. pc["spec"] = "sync" /\ s = 4 => m < 4
      BY <1>2, <2>1 DEF Level
    <3>4. \A i \in 1 .. Len(sOut) : sOut[i] = P => m + i - 1 <= 3
      BY <1>2, <3>2, <3>3
    <3>5. mRdr' = P => m <= 3
      BY <1>2, <1>3, <3>2, <3>4
    <3>6. \A i \in 1 .. q : sOut'[i] = P => m + i - 0 <= 3
      <4> SUFFICES ASSUME NEW i \in 1 .. q, sOut'[i] = P PROVE m + i - 0 <= 3
        OBVIOUS
      <4>1. sOut # <<>> /\ i + 1 \in 1 .. Len(sOut) /\ sOut[i + 1] = P
        BY <1>3, <1>4
      <4> QED BY <1>2, <3>4, <4>1
    <3> QED BY <1>1, <3>1, <3>5, <3>6 DEF LetterInStep, Passing
  <2>4. pc' = pc
    BY <1>1
  <2> QED BY <1>6, <1>7, <2>2, <2>3, <2>4 DEF Apart
<1> QED BY <1>9, <1>10

(* The master reads an answer.  It does not come to the end of the          *)
(* handshake: its partner's letter would have to be left over from a call   *)
(* that was given up.                                                       *)
LEMMA ApartMasterReads ==
  ASSUME IInv, IndicatorsTell, Apart, CtlSync
  PROVE  Apart' /\ good' = good
<1> DEFINE k == inSync["ctl"]
           s == inSync["spec"]
           rc == role["ctl"]
           P == Partner(rc)
           n == MasterNext(rc, k, mRdr)
<1>1. /\ k \in 1 .. 5 /\ rc \in Roles /\ n \in 1 .. k + 1
      /\ pc["ctl"] = "sync" /\ mTdr = None /\ mRdr # None /\ mRdr' = None
      /\ pc'["ctl"] = (IF n = 6 THEN "size" ELSE IF k = 5 THEN "idle" ELSE "sync")
      /\ inSync'["ctl"] = n
      /\ n < 6 => mTdr' = Sync(rc, n)
      /\ pc'["spec"] = pc["spec"] /\ inSync'["spec"] = s
      /\ UNCHANGED <<role, moved, left, good, sOut, sRdr, sLast>>
  BY MasterPass
<1>2. n \in {k + 1, IF k = 5 THEN 5 ELSE 1} /\ (k = 5 /\ n = 6 => mRdr = P)
  BY <1>1 DEF MasterNext
<1>3. /\ sLast # P
      /\ mRdr = P => k <= 3
      /\ \A i \in 1 .. Len(sOut) : sOut[i] = P =>
           k + i <= 3 \/ (pc["spec"] = "sync" /\ s = 4 /\ k >= 4)
  BY <1>1 DEF Apart, LetterInStep, Passing
<1>4. n < 6
  BY <1>1, <1>2, <1>3
<1>5. mTdr' = Sync(rc, n) /\ mTdr' # None
  BY <1>1, <1>4 DEF Sync, None
<1>6. /\ pc["spec"] \in Aside \cup {"sync"}
      /\ pc["spec"] = "sync" => s \in 0 .. 4
      /\ Len(sOut) \in Nat /\ Len(sOut) <= 2
  BY DEF Apart, IInv, TypeOK, InString, SyncLen
<1>7. SlaveAnswers'
  BY <1>1 DEF Apart, SlaveAnswers
<1>8. /\ pc["spec"] = "sync" /\ sOut = <<>> =>
           sRdr = Sync(rc, k) /\ Level(k, s) /\ (k = 5 => s = 0)
      /\ pc["spec"] = "sync" /\ sOut # <<>> =>
           /\ s = 0 \/ (Len(sOut) = 1 /\ ((k = 1 /\ s = 1) \/ k = s))
           /\ k = 4 /\ s = 4 => Answering
  BY <1>1 DEF Apart, InStep
<1> HIDE DEF n
<1>9. CASE k = 5
  <2>1. pc'["ctl"] = "idle"
    BY <1>1, <1>4, <1>9
  <2>2. pc["spec"] = "sync" => s = 0 /\ (sOut = <<>> => sRdr # "S")
    BY <1>6, <1>8, <1>9 DEF Sync
  <2>3. Alone'
    BY <1>1, <1>5, <2>2 DEF Alone
  <2> QED BY <1>1, <1>6, <1>7, <2>1, <2>3 DEF Apart, Aside, MasterAsks, InStep, LetterInStep
<1>10. CASE k # 5
  <2>1. pc'["ctl"] = "sync"
    BY <1>1, <1>4, <1>10
  <2>2. n = k + 1 \/ n = 1
    BY <1>2, <1>10
  <2>3. InStep'
    <3> SUFFICES ASSUME pc["spec"] = "sync" PROVE InStep'
      BY <1>1 DEF InStep
    <3>1. CASE sOut = <<>>
      <4>1. n = 1 => sRdr # "X"
        BY <1>1, <1>8, <1>10, <3>1 DEF Sync
      <4>2. n > 1 => sRdr = Sync(rc, n - 1) /\ Level(n - 1, s)
        BY <1>1, <1>8, <2>2, <3>1
      <4> QED BY <1>1, <1>5, <3>1, <4>1, <4>2 DEF InStep
    <3>2. CASE sOut # <<>>
      <4>1. Level(n, s)
        BY <1>1, <1>6, <1>8, <2>2, <3>2 DEF Level
      <4>2. Len(sOut) = 2 => s = 0
        BY <1>8, <3>2
      <4>3. n = 5 /\ s = 4 => Answering
        BY <1>1, <1>8, <2>2, <3>2
      <4>4. Answering' <=> Answering
        BY <1>1 DEF Answering
      <4> QED BY <1>1, <1>5, <3>2, <4>1, <4>2, <4>3, <4>4 DEF InStep
    <3> QED BY <3>1, <3>2
  <2>4. LetterInStep'
    <3>1. ASSUME NEW i \in 1 .. Len(sOut), sOut[i] = P
          PROVE  n + i - 1 <= 3 \/ (pc["spec"] = "sync" /\ s = 4 /\ n >= 4)
      <4>1. CASE k + i <= 3
        BY <1>1, <1>6, <2>2, <4>1
      <4>2. CASE pc["spec"] = "sync" /\ s = 4 /\ k >= 4
        BY <1>1, <1>6, <2>2, <4>2
      <4> QED BY <1>3, <3>1, <4>1, <4>2
    <3>2. ASSUME NEW i \in 1 .. Len(sOut') , sOut'[i] = P
          PROVE  Passing(i)' \/ (pc'["spec"] = "sync" /\ inSync'["spec"] = 4 /\ n >= 4)
      BY <1>1, <1>5, <3>1, <3>2 DEF Passing
    <3> QED BY <1>1, <1>3, <1>5, <3>2 DEF LetterInStep
  <2>5. MasterAsks' /\ Alone'
    BY <1>1, <1>5, <2>1 DEF MasterAsks, Alone, Aside
  <2> QED BY <1>1, <1>6, <1>7, <2>1, <2>3, <2>4, <2>5 DEF Apart
<1> QED BY <1>9, <1>10

(* The slave reads a character.  It does not come to the end of the         *)
(* handshake either; its answer to the letter of its partner is its own.    *)
LEMMA ApartSlaveReads ==
  ASSUME Timely, IInv, IndicatorsTell, Apart, SpecSync
  PROVE  Apart' /\ good' = good
<1> DEFINE m == inSync["ctl"]
           k == inSync["spec"]
           rc == role["ctl"]
           rs == role["spec"]
           P == Partner(rc)
<1>1. PICK c \in Chars : SlavePasses(c)
  BY SlavePass
<1> DEFINE n == SlaveNext(rs, k, c)
<1>2. /\ k \in 0 .. 4 /\ rs \in Roles /\ n \in 0 .. k + 1
      /\ pc["spec"] = "sync" /\ Len(sOut) < 2 /\ SpecRead(c)
      /\ pc'["spec"] = (IF n = 5 THEN "size" ELSE IF k = 3 /\ n = 3 THEN "idle" ELSE "sync")
      /\ inSync'["spec"] = n
      /\ n < 5 => sOut' = Append(sOut, Sync(rs, n))
      /\ pc'["ctl"] = pc["ctl"] /\ inSync'["ctl"] = m
      /\ UNCHANGED <<role, moved, left, good, mTdr, mRdr, sLast>>
  BY <1>1 DEF SlavePasses
<1>3. /\ n = k + 1 => c = IF k = 3 THEN Partner(rs) ELSE Sync(rs, k + 1)
      /\ n # k + 1 => n = IF k = 3 THEN 3 ELSE 0
  BY <1>2 DEF SlaveNext
<1>4. /\ pc["ctl"] \in {"wait", "sync"} /\ rc \in Roles
      /\ pc["ctl"] = "sync" => m \in 1 .. 5
      /\ sOut \in Seq(Chars) /\ Len(sOut) \in Nat
  <2>1. ind["ctl"]
    BY DEF SpecSync
  <2>2. pc["ctl"] \notin {"idle", "enter", "early"}
    BY <2>1 DEF IndicatorsTell, Boards
  <2> QED BY <2>2 DEF Apart, Aside, IInv, TypeOK, InString, SyncLen, Boards
<1>5. \A x \in Chars : /\ Append(sOut, x) # <<>>
                       /\ Len(Append(sOut, x)) = Len(sOut) + 1
                       /\ sOut = <<>> => Append(sOut, x) = <<x>>
  <2> TAKE x \in Chars
  <2>1. Append(sOut, x) \in Seq(Chars) /\ Len(Append(sOut, x)) = Len(sOut) + 1
    BY <1>4
  <2>2. PICK z : z = Append(sOut, x)
    OBVIOUS
  <2>3. Append(sOut, x) # <<>>
    <3>1. Len(z) = Len(sOut) + 1
      BY <2>1, <2>2
    <3>2. z # <<>>
      BY <1>4, <3>1
    <3> QED BY <2>2, <3>2
  <2>4. sOut = <<>> => Append(sOut, x) = <<x>>
    OBVIOUS
  <2> QED BY <2>1, <2>3, <2>4
<1>6. pc["ctl"] = "sync" => sOut = <<>> /\ c = sRdr /\ sRdr' = None
  <2>1. pc["ctl"] = "sync" => mTdr # None \/ mRdr # None
    BY DEF Apart, MasterAsks
  <2> QED BY <1>2, <2>1 DEF SpecRead, CtlSettled
<1>7. Len(sOut) # 2 /\ (sOut # <<>> => Len(sOut) = 1)
  <2>1. PICK j \in Nat : j = Len(sOut)
    BY <1>4
  <2>2. j < 2
    BY <1>2, <2>1
  <2>3. sOut # <<>> => j # 0
    BY <1>4, <2>1
  <2> QED BY <2>1, <2>2, <2>3
<1> HIDE DEF n
<1>8. CASE pc["ctl"] = "wait"
  <2>1. k = 0
    <3>1. /\ mTdr # None => k = 0
          /\ mTdr = None => \/ k = 0
                            \/ k = 1 /\ (sRdr = None \/ Len(sOut) = 2)
      BY <1>2, <1>8 DEF Apart, Alone, Aside
    <3> QED BY <1>2, <1>7, <3>1 DEF SpecRead
  <2>2. n \in {0, 1} /\ pc'["spec"] = "sync"
    BY <1>2, <1>3, <2>1
  <2>3. sOut' # <<>> /\ Len(sOut') = Len(sOut) + 1
    BY <1>2, <1>5, <2>2, SyncTypes
  <2>4. mTdr # None => n = 0
    <3> SUFFICES ASSUME mTdr # None PROVE n = 0
      OBVIOUS
    <3>1. sOut = <<>> /\ c = sRdr
      BY <1>2 DEF SpecRead, CtlSettled
    <3>2. sRdr # "S"
      BY <1>2, <1>8, <3>1 DEF Apart, Alone, Aside
    <3> QED BY <1>3, <2>1, <2>2, <3>1, <3>2 DEF Sync
  <2>5. mTdr = None /\ n = 1 => sRdr' = None \/ Len(sOut') = 2
    <3>1. CASE sOut = <<>>
      BY <1>2, <3>1 DEF SpecRead
    <3>2. CASE sOut # <<>>
      <4>1. Len(sOut) = 1
        BY <1>7, <3>2
      <4> QED BY <2>3, <4>1
    <3> QED BY <3>1, <3>2
  <2>6. Alone'
    BY <1>2, <2>3, <2>4, <2>5, <2>2 DEF Alone
  <2> QED BY <1>2, <1>8, <2>2, <2>3, <2>6
          DEF Apart, SlaveAnswers, MasterAsks, InStep, LetterInStep, Aside
<1>9. CASE pc["ctl"] = "sync"
  <2>1. /\ mTdr = None => c = Sync(rc, m) /\ (m = 5 => k = 0)
        /\ mTdr # None => /\ m = 1 => k # 4 \/ c # "X"
                          /\ m > 1 => c = Sync(rc, m - 1)
    BY <1>2, <1>6, <1>9 DEF Apart, InStep
  <2>2. n # 5
    <3> SUFFICES ASSUME n = 5 PROVE FALSE
      OBVIOUS
    <3>1. k = 4 /\ c = "X"
      BY <1>2, <1>3 DEF Sync
    <3> QED BY <1>4, <1>9, <2>1, <3>1 DEF Sync
  <2>3. /\ n = k + 1 /\ mTdr = None => m = n /\ (n = 4 => rc # rs)
        /\ n = k + 1 /\ mTdr # None => m = 1 \/ (m = n + 1 /\ (n = 4 => rc # rs))
    <3> SUFFICES ASSUME n = k + 1
                 PROVE  /\ mTdr = None => m = n /\ (n = 4 => rc # rs)
                        /\ mTdr # None => m = 1 \/ (m = n + 1 /\ (n = 4 => rc # rs))
      OBVIOUS
    <3>1. n \in 1 .. 4 /\ c = IF n = 4 THEN Partner(rs) ELSE Sync(rs, n)
      BY <1>2, <1>3, <2>2
    <3>2. \A j \in 1 .. 5 : c = Sync(rc, j) => j = n /\ (n = 4 => rc # rs)
      BY <1>2, <1>4, <3>1 DEF Sync, Partner, Roles
    <3> QED BY <1>4, <1>9, <2>1, <3>2
  <2>4. sOut' = <<Sync(rs, n)>> /\ sOut' # <<>> /\ Len(sOut') = 1
    BY <1>2, <1>5, <1>6, <1>9, <2>2, SyncTypes
  <2>5. n = k + 1 \/ n = 0 \/ (n = 3 /\ k = 3 /\ pc'["spec"] = "idle")
    BY <1>2, <1>3
  <2>6. SlaveAnswers' /\ MasterAsks' /\ Alone'
    BY <1>2, <1>9, <2>4 DEF Apart, SlaveAnswers, MasterAsks, Alone, Aside
  <2>7. pc'["spec"] \in {"sync", "idle"}
    BY <1>2, <2>2
  <2>8. InStep'
    <3> SUFFICES ASSUME pc'["spec"] = "sync" PROVE InStep'
      BY DEF InStep
    <3>1. n = 0 \/ n = k + 1
      BY <2>5
    <3>2. n = 4 /\ rc # rs => Answering'
      BY <1>2, <2>4 DEF Answering
    <3>3. CASE n = 0
      BY <1>2, <2>4, <3>3 DEF InStep, Level
    <3>4. CASE n = k + 1 /\ mTdr = None
      BY <1>2, <2>3, <2>4, <3>2, <3>4 DEF InStep
    <3>5. CASE n = k + 1 /\ mTdr # None
      BY <1>2, <1>4, <1>9, <2>3, <2>4, <3>2, <3>5 DEF InStep, Level
    <3> QED BY <3>1, <3>3, <3>4, <3>5
  <2>9. LetterInStep'
    <3>1. sLast = P => m = 1 /\ mTdr # None
      BY <1>9 DEF Apart, LetterInStep
    <3>2. mTdr = None /\ mRdr = P => m <= 3
      BY <1>9 DEF Apart, LetterInStep
    <3>3. Sync(rs, n) = P => Passing(1)' \/ (pc'["spec"] = "sync" /\ n = 4 /\ m >= 4)
      <4>1. ASSUME Sync(rs, n) = P PROVE n = 4 /\ n = k + 1 /\ pc'["spec"] = "sync"
        <5>1. n = 4
          BY <1>2, <2>2, <4>1 DEF Sync, Partner
        <5> QED BY <1>2, <1>3, <5>1
      <4>2. mTdr # None /\ m = 1 => Passing(1)'
        BY <1>2 DEF Passing
      <4> QED BY <2>3, <4>1, <4>2
    <3>4. \A i \in 1 .. Len(sOut') : i = 1 /\ sOut'[i] = Sync(rs, n)
      BY <2>4
    <3> QED BY <1>2, <1>9, <3>1, <3>2, <3>3, <3>4 DEF LetterInStep
  <2> QED BY <1>2, <1>9, <2>6, <2>7, <2>8, <2>9 DEF Apart, Aside
<1> QED BY <1>4, <1>8, <1>9

LEMMA ApartKeeps ==
  ASSUME Timely, IInv, IndicatorsTell, AllGood, Apart, Next
  PROVE  AllGood' /\ (Apart \/ CtlSends \/ SpecSends)'
<1>1. CASE Clock
  <2>1. good' = good
    BY <1>1 DEF Clock, board
  <2> QED BY <1>1, <2>1, ApartClock DEF AllGood
<1>2. ASSUME NEW b \in Boards, NEW r \in Roles, Call(b, r)
      PROVE  AllGood' /\ Apart'
  <2>1. good' = good
    BY <1>2 DEF Call
  <2> QED BY <1>2, <2>1, ApartStays DEF AllGood
<1>3. CASE CtlSync \/ SpecSync
  BY <1>3, ApartMasterReads, ApartSlaveReads DEF AllGood
<1>4. CASE SpecSyncTimeout
  <2>1. good' = good
    BY <1>4 DEF SpecSyncTimeout
  <2> QED BY <1>4, <2>1, ApartStays DEF AllGood, Boards
<1>5. ASSUME NEW b \in Boards, Enter(b)
      PROVE  AllGood' /\ Apart'
  <2>1. good' = [good EXCEPT ![b] = TRUE]
    BY <1>5 DEF Enter
  <2>2. AllGood'
    BY <2>1 DEF AllGood, IInv, TypeOK
  <2>3. role[b] = "tx" \/ role[b] = "rx"
    BY DEF IInv, TypeOK, Roles
  <2> QED BY <1>5, <2>2, <2>3, ApartStays, ApartStarts
<1>6. ASSUME NEW b \in Boards, WaitSeen(b) \/ WaitExpired(b) \/ SyncLost(b)
      PROVE  AllGood' /\ Apart'
  <2>1. good' = good
    BY <1>6 DEF WaitSeen, WaitExpired, SyncLost
  <2> QED BY <1>6, <2>1, ApartStays, ApartStarts DEF AllGood
<1> QED BY <1>1, <1>2, <1>3, <1>4, <1>5, <1>6, ApartOnly

(* A sender that returns does so when the packet has been collected.        *)
LEMMA TimelyStep ==
  ASSUME Timely, IInv, TimelyInv, Next
  PROVE  /\ TimelyInv'
         /\ \A b \in Boards : pc[b] = "drain" /\ pc'[b] = "idle"
                                => moved[Other(b)] = Len(Packet)
<1>1. IndicatorsTell /\ AllGood /\ IndicatorsTell'
  BY IndicatorsKept DEF TimelyInv
<1>2. CASE Apart
  <2>1. pc["ctl"] # "drain" /\ pc["spec"] # "drain"
    BY <1>2 DEF Apart, Aside
  <2> QED BY <1>1, <1>2, <2>1, ApartKeeps DEF TimelyInv, Boards
<1>3. CASE CtlSends
  <2>1. AllGood' /\ (CtlSends \/ SpecCollected)'
    BY <1>1, <1>3, CtlSendsOnly, CtlSendsClock, CtlSendsWrites, CtlSendsAgreed, CtlSendsReads
  <2>2. pc["spec"] # "drain" /\ pc'["ctl"] # "idle"
    BY <1>3, <2>1 DEF CtlSends, SpecCollected, MasterAtEnd, SlaveAtEnd, Moving
  <2> QED BY <1>1, <2>1, <2>2 DEF TimelyInv, Boards
<1>4. CASE SpecSends
  <2>1. AllGood' /\ (SpecSends \/ CtlCollected)'
    BY <1>1, <1>4, SpecSendsOnly, SpecSendsClock, SpecSendsCtl, SpecSendsSpec
  <2>2. pc["ctl"] # "drain" /\ pc'["spec"] # "idle"
    BY <1>4, <2>1 DEF SpecSends, CtlCollected, MasterAtEnd, SlaveAtEnd, Moving
  <2> QED BY <1>1, <2>1, <2>2 DEF TimelyInv, Boards
<1>5. CASE SpecCollected
  <2>1. pc["spec"] # "drain"
    BY <1>5 DEF SpecCollected
  <2> QED BY <1>1, <1>5, <2>1, SpecCollectedKeeps DEF TimelyInv, Boards, Other
<1>6. CASE CtlCollected
  <2>1. pc["ctl"] # "drain"
    BY <1>6 DEF CtlCollected
  <2> QED BY <1>1, <1>6, <2>1, CtlCollectedKeeps DEF TimelyInv, Boards, Other
<1> QED BY <1>2, <1>3, <1>4, <1>5, <1>6 DEF TimelyInv

LEMMA TimelyNext ==
  ASSUME Timely, IInv, TimelyInv, [Next]_vars
  PROVE  /\ TimelyInv'
         /\ \A b \in Boards : pc[b] = "drain" /\ pc'[b] = "idle"
                                => moved[Other(b)] = Len(Packet)
<1>1. CASE UNCHANGED vars
  <2>1. UNCHANGED <<pc, role, ind, inSync, moved, left, good>>
        /\ UNCHANGED <<mTdr, mRdr, sOut, sRdr, sLast>>
    BY <1>1 DEF vars, board, wire
  <2>2. IndicatorsTell' = IndicatorsTell /\ (AllGood' <=> AllGood)
    BY <2>1 DEF IndicatorsTell, AllGood
  <2>3. Apart' = Apart
    <3>1. SlaveAnswers' = SlaveAnswers /\ MasterAsks' = MasterAsks /\ Alone' = Alone
      BY <2>1 DEF SlaveAnswers, MasterAsks, Alone
    <3>2. InStep' = InStep
      BY <2>1 DEF InStep, Answering
    <3>3. LetterInStep' = LetterInStep
      BY <2>1 DEF LetterInStep, Passing
    <3> QED BY <2>1, <3>1, <3>2, <3>3 DEF Apart
  <2>4. CtlSends' = CtlSends
    BY <2>1 DEF CtlSends, MasterAtEnd, SlaveAtEnd, Announced
  <2>5. SpecSends' = SpecSends
    BY <2>1 DEF SpecSends, MasterAtEnd, SlaveAtEnd, Announced
  <2>6. SpecCollected' = SpecCollected /\ CtlCollected' = CtlCollected
    BY <2>1 DEF SpecCollected, CtlCollected
  <2>7. \A b \in Boards : pc'[b] = pc[b]
    BY <2>1
  <2> QED BY <2>2, <2>3, <2>4, <2>5, <2>6, <2>7 DEF TimelyInv
<1>2. CASE Next
  BY <1>2, TimelyStep
<1> QED BY <1>1, <1>2

(* With a timely slave the boards are always apart, or one sends to the     *)
(* other, or the receiver has all and the sender waits for it.              *)
THEOREM TimelyInvariance ==
  ASSUME Timely
  PROVE  Spec => []TimelyInv
<1>1. Init => TimelyInv
  BY DEF Init, TimelyInv, IndicatorsTell, AllGood, Apart, Aside, SlaveAnswers, MasterAsks,
         Alone, InStep, LetterInStep, Boards
<1>2. IInv /\ TimelyInv /\ [Next]_vars => TimelyInv'
  BY TimelyNext
<1> QED BY <1>1, <1>2, Invariance, PTL DEF Spec

(* Any packet, any pauses: as long as the spectrometer keeps up with the    *)
(* SPI clock neither SPI_rx_packet hands over a packet other than the one   *)
(* that was sent, ...                                                       *)
THEOREM AlwaysDeliveredIntact ==
  ASSUME Timely
  PROVE  Spec => []DeliveredIntact
<1>1. TimelyInv => DeliveredIntact
  BY DEF TimelyInv, AllGood, DeliveredIntact
<1> QED BY <1>1, TimelyInvariance, PTL

(* ... SPI_tx_packet returns success only when the other board has the      *)
(* whole packet, ...                                                        *)
THEOREM SuccessAlwaysDelivered ==
  ASSUME Timely
  PROVE  Spec => SuccessMeansDelivered
<1>1. IInv /\ TimelyInv /\ [Next]_vars =>
        [\A b \in Boards : pc[b] = "drain" /\ pc'[b] = "idle" /\ ret'[b] = "ok"
           => good[Other(b)] /\ moved[Other(b)] = Len(Packet)]_vars
  BY TimelyNext DEF TimelyInv, AllGood, Boards, Other
<1> QED BY <1>1, Invariance, TimelyInvariance, PTL DEF Spec, SuccessMeansDelivered

(* ... and the boards never both send or both receive, whatever characters  *)
(* the packet holds.                                                        *)
THEOREM TimelyIntentionsAgree ==
  ASSUME Timely
  PROVE  Spec => []IntentionsAgree
<1>1. TimelyInv => IntentionsAgree
  BY DEF TimelyInv, Apart, Aside, CtlSends, SpecSends, SpecCollected, CtlCollected,
         IntentionsAgree, InTransfer
<1> QED BY <1>1, TimelyInvariance, PTL
=============================================================================

----------------------- MODULE ProfileTransferProofs -----------------------
(***************************************************************************)
(* Theorems about ProfileTransfer, for every set of profiles, every number *)
(* of packets and bursts and every content of the memory.                  *)
(***************************************************************************)
EXTENDS ProfileTransfer, TLAPS

(* At any time of a transfer. *)
Running == pc # "idle"

(* What is noted as sent belongs to packets of the profile that are done   *)
(* or in transfer.                                                         *)
OnlyCurrent ==
  Running => \A x \in sent :
    x[1] \in Packets(profile) /\ (x[1] \in status \/ x[1] = packet)

(* What is noted as sent was announced, with the bursts memory makes.      *)
Announced ==
  Running => \A p \in Indices, b \in Nat : <<p, b>> \in sent =>
    /\ <<p, 0>> \in sent
    /\ memory > 0 /\ bursts[p] = memory /\ b \in 0 .. memory + 1

(* A packet is chosen. *)
Chosen == pc \in {"connect", "send"} => packet \in Packets(profile) \ status

(* The modem has taken what is noted as sent, and nothing twice.           *)
Noted == Running => accepted = sent /\ ~twice

(* A terminator ends its packet; a packet that is sent is all sent. *)
Terminated ==
  Running =>
    /\ status \subseteq Packets(profile)
    /\ \A p \in Indices : <<p, memory + 1>> \in sent => p \in status
    /\ ~skipped => \A p \in status : Bursts(p) \subseteq sent

NoResultYet == Running => result = "none"

IInv ==
  /\ TypeOK /\ OnlyCurrent /\ Announced /\ Chosen
  /\ Noted /\ Terminated /\ NoResultYet
  /\ SuccessMeansWhole /\ Assembled

LEMMA LayoutTypes ==
  ASSUME NEW f \in Profile
  PROVE  /\ NumPackets(f) \in Nat
         /\ Packets(f) \subseteq Indices
         /\ \A p \in Packets(f) : Layout[f][p] \in Nat /\ Layout[f][p] > 0
         /\ \A p \in Packets(f) : p \in Nat /\ p > 0
<1>1. Layout[f] \in Seq(Nat \ {0})  BY LayoutAssumption
<1>2. Len(Layout[f]) \in Nat /\ \A p \in 1 .. Len(Layout[f]) : Layout[f][p] \in Nat \ {0}
  BY <1>1
<1> QED  BY <1>2 DEF NumPackets, Packets, Indices

LEMMA IndexTypes == ASSUME NEW p \in Indices PROVE p \in Nat /\ p > 0
  BY LayoutTypes DEF Indices

LEMMA Initially == Init => IInv
<1> SUFFICES ASSUME Init PROVE IInv  OBVIOUS
<1>1. bursts \in [Indices -> Nat]  BY DEF Init
<1>2. 0 \in 0 .. MaxTransfers  BY BoundAssumption
<1>3. TypeOK  BY <1>1, <1>2 DEF Init, TypeOK, Results
<1> QED
  BY <1>3 DEF Init, IInv, OnlyCurrent, Announced, Chosen, Noted, Terminated,
    NoResultYet, SuccessMeansWhole, Assembled, Running

LEMMA StaysAssembled ==
  ASSUME Assembled, UNCHANGED <<accepted, bursts, skipped>>
  PROVE  Assembled'
BY DEF Assembled, Bursts

(* An action that ends a transfer leaves nothing but the result and what   *)
(* has been accepted.                                                      *)
LEMMA AtRest ==
  ASSUME IInv, TypeOK', pc' = "idle", UNCHANGED <<accepted, twice, skipped, bursts>>,
         result' = "AllDone" => result = "AllDone" \/ (~skipped => ~twice /\
           \E f \in Profile : accepted = UNION {Bursts(p) : p \in Packets(f)})
  PROVE  IInv'
<1>1. Assembled'
  BY StaysAssembled DEF IInv
<1>2. SuccessMeansWhole'
  BY DEF IInv, SuccessMeansWhole, Bursts, Packets, NumPackets
<1> QED
  BY <1>1, <1>2 DEF IInv, OnlyCurrent, Announced, Chosen, Noted, Terminated,
    NoResultYet, Running

LEMMA BeginKeeps ==
  ASSUME IInv, NEW f \in Profile, Begin(f)
  PROVE  IInv'
<1>1. bursts' \in [Indices -> Nat]  BY DEF Begin
<1>2. transfers' \in 0 .. MaxTransfers
  BY BoundAssumption DEF Begin, IInv, TypeOK
<1>3. TypeOK'
  BY <1>1, <1>2, NoneAssumption DEF Begin, IInv, TypeOK, Results
<1> QED
  BY <1>3 DEF Begin, IInv, OnlyCurrent, Announced, Chosen, Noted,
    Terminated, NoResultYet, SuccessMeansWhole, Assembled, Running

LEMMA CannotBeginKeeps ==
  ASSUME IInv, NEW r \in {"NoProfile", "PackageFail"}, CannotBegin(r)
  PROVE  IInv'
<1>1. transfers' \in 0 .. MaxTransfers
  BY BoundAssumption DEF CannotBegin, IInv, TypeOK
<1>2. TypeOK'
  BY <1>1 DEF CannotBegin, IInv, TypeOK, Results, arrays
<1> QED
  BY <1>2 DEF CannotBegin, IInv, OnlyCurrent, Announced, Chosen, Noted, Terminated,
    NoResultYet, SuccessMeansWhole, Assembled, Running, arrays

LEMMA AllDoneKeeps == ASSUME IInv, AllDone PROVE IInv'
<1>1. TypeOK'
  BY DEF AllDone, Return, IInv, TypeOK, Results, arrays, history
<1>2. CASE skipped
  BY <1>1, <1>2, AtRest DEF AllDone, Return, history, arrays
<1>3. CASE ~skipped
  <2>1. /\ profile \in Profile /\ Running /\ accepted = sent /\ ~twice
        /\ sent \subseteq Indices \X Nat
        /\ status \subseteq Packets(profile) /\ Packets(profile) \subseteq status
        /\ \A p \in status : Bursts(p) \subseteq sent
    BY <1>3 DEF AllDone, IInv, TypeOK, Terminated, Noted, Running
  <2>2. ASSUME NEW x \in sent
        PROVE  x[1] \in Packets(profile) /\ x \in Bursts(x[1])
    <3>1. x = <<x[1], x[2]>> /\ x[1] \in Indices /\ x[2] \in Nat  BY <2>1
    <3>2. x[1] \in Packets(profile)  BY <2>1 DEF IInv, OnlyCurrent
    <3>3. bursts[x[1]] = memory /\ x[2] \in 0 .. memory + 1
      BY <2>1, <3>1 DEF IInv, Announced
    <3> QED  BY <3>1, <3>2, <3>3 DEF Bursts
  <2>3. accepted = UNION {Bursts(p) : p \in Packets(profile)}
    BY <2>1, <2>2
  <2> QED  BY <1>1, <2>1, <2>3, AtRest DEF AllDone, Return, history, arrays
<1> QED  BY <1>2, <1>3

LEMMA ConnectFailsKeeps == ASSUME IInv, ConnectFails PROVE IInv'
<1>1. TypeOK'
  BY DEF ConnectFails, Return, IInv, TypeOK, Results, arrays, history
<1> QED  BY <1>1, AtRest DEF ConnectFails, Return, history, arrays

LEMMA ResetKeeps == ASSUME IInv, Reset PROVE IInv'
<1>1. TypeOK'
  BY DEF Reset, Return, IInv, TypeOK, Results, arrays, history
<1> QED  BY <1>1, AtRest DEF Reset, Return, history, arrays

(* Steps within a transfer that send nothing. *)
LEMMA NothingSent ==
  ASSUME IInv, TypeOK', pc # "idle", pc' # "idle",
         UNCHANGED <<profile, memory, arrays, result, history>>,
         packet' = packet \/ \A x \in sent : x[1] \in status,
         Chosen'
  PROVE  IInv'
<1>1. OnlyCurrent'
  BY DEF arrays, IInv, OnlyCurrent, Running, Packets, NumPackets
<1>2. Announced' /\ Noted' /\ NoResultYet'
  BY DEF arrays, history, IInv, Announced, Noted, NoResultYet, Running
<1>3. Terminated'
  BY DEF arrays, history, IInv, Terminated, Running, Packets, NumPackets, Bursts
<1>4. SuccessMeansWhole'
  BY DEF arrays, history, IInv, SuccessMeansWhole, Packets, NumPackets, Bursts
<1>5. Assembled'
  BY StaysAssembled DEF arrays, history, IInv
<1> QED  BY <1>1, <1>2, <1>3, <1>4, <1>5 DEF IInv

LEMMA StrayPacketKeeps == ASSUME IInv, StrayPacket PROVE IInv'
<1>1. TypeOK'
  BY DEF StrayPacket, IInv, TypeOK, arrays, history
<1>2. Chosen'  BY DEF StrayPacket, Chosen
<1> QED  BY <1>1, <1>2, NothingSent DEF StrayPacket

LEMMA KeepPacketKeeps == ASSUME IInv, KeepPacket PROVE IInv'
<1>1. TypeOK'
  BY DEF KeepPacket, IInv, TypeOK, arrays, history
<1>2. Chosen'
  BY DEF KeepPacket, Chosen, arrays, Packets, NumPackets
<1> QED  BY <1>1, <1>2, NothingSent DEF KeepPacket

LEMMA ConnectKeeps == ASSUME IInv, Connect PROVE IInv'
<1>1. TypeOK'
  BY DEF Connect, IInv, TypeOK, arrays, history
<1>2. Chosen'
  BY DEF Connect, IInv, Chosen, arrays, Packets, NumPackets
<1> QED  BY <1>1, <1>2, NothingSent DEF Connect

LEMMA SendNothingKeeps == ASSUME IInv, SendNothing PROVE IInv'
<1>1. TypeOK'
  BY DEF SendNothing, IInv, TypeOK, arrays, history
<1>2. Chosen'
  BY DEF SendNothing, Chosen
<1> QED  BY <1>1, <1>2, NothingSent DEF SendNothing

LEMMA SelectPacketKeeps ==
  ASSUME IInv, NEW p \in Indices, SelectPacket(p)
  PROVE  IInv'
<1>1. TypeOK'
  BY DEF SelectPacket, IInv, TypeOK, arrays, history
<1>2. Chosen'
  BY DEF SelectPacket, FirstUnsent, Chosen, arrays, Packets, NumPackets
<1>3. \A x \in sent : x[1] \in status
  BY DEF SelectPacket, IInv, OnlyCurrent, Running
<1> QED  BY <1>1, <1>2, <1>3, NothingSent DEF SelectPacket

(* What a step that sends may rely on. *)
LEMMA Sending ==
  ASSUME IInv, pc = "send", memory # 0
  PROVE  /\ Running /\ profile \in Profile
         /\ packet \in Packets(profile) \ status /\ packet \in Indices /\ packet \in Nat
         /\ memory \in Nat /\ memory > 0
<1>1. /\ Running /\ profile \in Profile /\ memory \in Contents
      /\ packet \in Packets(profile) \ status
  BY DEF IInv, TypeOK, Chosen, Running
<1>2. memory \in Nat  BY <1>1, ContentsAssumption
<1> QED  BY <1>1, <1>2, LayoutTypes

(* A step that sends the bursts B of the packet in transfer. *)
LEMMA SendingKeeps ==
  ASSUME IInv, pc = "send", memory # 0, NEW B \in SUBSET Nat,
         Transmit(B), sent' = sent \union ({packet} \X B),
         bursts' \in [Indices -> Nat], bursts'[packet] = memory,
         \A p \in Indices \ {packet} : bursts'[p] = bursts[p],
         B \subseteq 0 .. memory + 1,
         0 \in B \/ <<packet, 0>> \in sent,
         \A b \in B : <<packet, b>> \notin sent,
         skipped' \in BOOLEAN, skipped => skipped',
         status' = IF memory + 1 \in B THEN status \union {packet} ELSE status,
         memory + 1 \in B /\ ~skipped' =>
           \A b \in 0 .. memory + 1 : b \in B \/ <<packet, b>> \in sent,
         pc' = "select",
         UNCHANGED <<profile, packet, memory, connected, result, transfers>>
  PROVE  IInv'
<1>1. /\ Running /\ Running' /\ profile \in Profile
      /\ packet \in Packets(profile) /\ packet \notin status
      /\ packet \in Indices /\ packet \in Nat
      /\ memory \in Nat /\ memory > 0
  BY Sending DEF Running
<1>2. /\ TypeOK /\ sent \subseteq Indices \X Nat /\ accepted = sent /\ ~twice
  BY <1>1 DEF IInv, TypeOK, Noted
<1>3. accepted' = sent' /\ ~twice' /\ twice' \in BOOLEAN
  <2>1. ({packet} \X B) \intersect sent = {}
    <3>1. ASSUME NEW x \in {packet} \X B PROVE x \notin sent
      <4>1. x = <<packet, x[2]>> /\ x[2] \in B  OBVIOUS
      <4> QED  BY <4>1
    <3> QED  BY <3>1
  <2>2. accepted' = sent'  BY <1>2 DEF Transmit
  <2>3. twice' = (twice \/ ({packet} \X B) \intersect accepted # {})  BY DEF Transmit
  <2> QED  BY <1>2, <2>1, <2>2, <2>3
<1>4. TypeOK'
  <2>1. sent' \subseteq Indices \X Nat  BY <1>1, <1>2
  <2>2. accepted' \subseteq Indices \X Nat  BY <1>3, <2>1
  <2>3. status' \subseteq Indices  BY <1>1, <1>2 DEF TypeOK
  <2>4. twice' \in BOOLEAN  BY <1>3
  <2> QED  BY <1>2, <2>1, <2>2, <2>3, <2>4 DEF TypeOK
<1>5. Packets(profile)' = Packets(profile) /\ Packets(profile) \subseteq Indices
  BY <1>1, LayoutTypes DEF Packets, NumPackets
<1>6. ASSUME NEW p \in Indices, NEW b \in Nat
      PROVE  <<p, b>> \in sent' <=> <<p, b>> \in sent \/ (p = packet /\ b \in B)
  OBVIOUS
<1>7. OnlyCurrent'
  <2> SUFFICES ASSUME NEW x \in sent'
               PROVE  x[1] \in Packets(profile) /\ (x[1] \in status' \/ x[1] = packet)
    BY <1>5 DEF OnlyCurrent
  <2>1. CASE x \in sent  BY <1>1, <2>1 DEF IInv, OnlyCurrent
  <2>2. CASE x \in {packet} \X B  BY <1>1, <2>2
  <2> QED  BY <2>1, <2>2
<1>8. \A p \in Indices, b \in Nat : <<p, b>> \in sent =>
        <<p, 0>> \in sent /\ bursts[p] = memory /\ b \in 0 .. memory + 1
  BY <1>1 DEF IInv, Announced
<1>9. ASSUME NEW p \in Indices, NEW b \in Nat, <<p, b>> \in sent'
      PROVE  <<p, 0>> \in sent' /\ bursts'[p] = memory /\ b \in 0 .. memory + 1
  <2>1. CASE p = packet
    BY <1>1, <1>6, <1>8, <1>9, <2>1
  <2>2. CASE p # packet
    BY <1>6, <1>8, <1>9, <2>2
  <2> QED  BY <2>1, <2>2
<1>15. Announced'
  BY <1>1, <1>9 DEF Announced
<1>10. Chosen' /\ NoResultYet' /\ SuccessMeansWhole'
  BY <1>1 DEF IInv, Chosen, NoResultYet, SuccessMeansWhole, Running
<1>11. Noted'  BY <1>3 DEF Noted
<1>12. \A p \in status : bursts'[p] = bursts[p]
  BY <1>1, <1>2 DEF TypeOK
<1>13. Terminated'
  <2>1. /\ status \subseteq Packets(profile)
        /\ \A p \in Indices : <<p, memory + 1>> \in sent => p \in status
        /\ ~skipped => \A p \in status : Bursts(p) \subseteq sent
    BY <1>1 DEF IInv, Terminated
  <2>2. status' \subseteq Packets(profile)  BY <1>1, <2>1
  <2>3. ASSUME NEW p \in Indices, <<p, memory + 1>> \in sent' PROVE p \in status'
    BY <1>1, <2>1, <2>3
  <2>4. ASSUME ~skipped', NEW p \in status' PROVE Bursts(p)' \subseteq sent'
    <3>1. CASE p \in status
      BY <1>12, <2>1, <2>4, <3>1 DEF Bursts
    <3>2. CASE p = packet /\ memory + 1 \in B
      BY <2>4, <3>2 DEF Bursts
    <3> QED  BY <2>4, <3>1, <3>2
  <2> QED  BY <1>5, <2>2, <2>3, <2>4 DEF Terminated
<1>14. Assembled'
  <2>1. ASSUME NEW p \in Indices, Bursts(p)' \intersect sent' # {}
        PROVE  <<p, 0>> \in sent'
    <3> PICK x : x \in Bursts(p)' /\ x \in sent'  BY <2>1
    <3>1. x = <<p, x[2]>>  BY DEF Bursts
    <3>2. x[2] \in Nat  BY <1>4 DEF TypeOK
    <3> QED  BY <1>9, <3>1, <3>2
  <2>2. ASSUME NEW p \in Indices, <<p, bursts'[p] + 1>> \in sent', ~skipped'
        PROVE  Bursts(p)' \subseteq sent'
    <3>1. bursts'[p] + 1 \in Nat  OBVIOUS
    <3>2. bursts'[p] = memory  BY <1>9, <2>2, <3>1
    <3>3. p \in status'  BY <1>1, <1>13, <2>2, <3>2 DEF Terminated
    <3> QED  BY <1>1, <1>13, <2>2, <3>3 DEF Terminated
  <2> QED  BY <1>3, <2>1, <2>2 DEF Assembled
<1> QED  BY <1>4, <1>7, <1>10, <1>11, <1>13, <1>14, <1>15 DEF IInv

LEMMA SendBurstZeroKeeps == ASSUME IInv, SendBurstZero PROVE IInv'
<1>1. /\ packet \in Indices /\ packet \notin status /\ memory \in Nat /\ memory > 0
      /\ pc = "send" /\ memory # 0
  BY Sending DEF SendBurstZero
<1>2. /\ bursts' \in [Indices -> Nat] /\ bursts'[packet] = memory
      /\ \A p \in Indices \ {packet} : bursts'[p] = bursts[p]
      /\ skipped \in BOOLEAN
  BY <1>1 DEF SendBurstZero, IInv, TypeOK
<1>3. {0} \subseteq 0 .. memory + 1 /\ memory + 1 \notin {0}
  BY <1>1
<1>4. sent' = sent \union ({packet} \X {0})
  BY DEF SendBurstZero
<1> QED  BY <1>1, <1>2, <1>3, <1>4, SendingKeeps DEF SendBurstZero

(* The last data burst is the one that memory makes. *)
LEMMA KnownBursts ==
  ASSUME IInv, pc = "send", memory # 0, <<packet, 0>> \in sent
  PROVE  /\ bursts[packet] = memory /\ memory \in Nat /\ memory > 0
         /\ <<packet, memory + 1>> \notin sent
         /\ skipped \in BOOLEAN /\ bursts \in [Indices -> Nat]
<1>1. /\ Running /\ packet \in Indices \ status /\ memory \in Nat /\ memory > 0
  BY Sending
<1>2. <<packet, 0>>[1] = packet  OBVIOUS
<1>3. bursts[packet] = memory
  BY <1>1, <1>2 DEF IInv, Announced
<1>4. <<packet, memory + 1>> \notin sent
  BY <1>1 DEF IInv, Terminated
<1> QED  BY <1>1, <1>3, <1>4 DEF IInv, TypeOK

LEMMA SendBurstKeeps == ASSUME IInv, SendBurst PROVE IInv'
<1>1. pc = "send" /\ memory # 0 /\ <<packet, 0>> \in sent
  BY DEF SendBurst
<1>2. PICK b \in Unsent :
        b < bursts[packet] /\ Transmit({b}) /\ sent' = sent \union {<<packet, b>>}
  BY DEF SendBurst
<1>3. /\ bursts[packet] = memory /\ memory \in Nat /\ memory > 0
      /\ skipped \in BOOLEAN /\ bursts \in [Indices -> Nat]
  BY <1>1, KnownBursts
<1>4. b \in Nat /\ b < memory /\ <<packet, b>> \notin sent  BY <1>2, <1>3 DEF Unsent
<1>5. /\ UNCHANGED <<profile, packet, memory, status, bursts, connected, result,
                     skipped, transfers>>
      /\ pc' = "select"
  BY DEF SendBurst
<1>6. {b} \subseteq 0 .. memory + 1 /\ memory + 1 \notin {b} /\ {b} \in SUBSET Nat
  BY <1>3, <1>4
<1>7. sent' = sent \union ({packet} \X {b})  BY <1>2
<1> QED  BY <1>1, <1>2, <1>3, <1>4, <1>5, <1>6, <1>7, SendingKeeps

LEMMA TerminatorFailsKeeps == ASSUME IInv, TerminatorFails PROVE IInv'
<1>1. /\ pc = "send" /\ memory # 0 /\ <<packet, 0>> \in sent
      /\ bursts[packet] \in Unsent /\ Transmit({bursts[packet]})
      /\ sent' = sent \union {<<packet, bursts[packet]>>}
      /\ skipped' = (skipped \/ Unsent # {bursts[packet]})
      /\ pc' = "select"
      /\ UNCHANGED <<profile, packet, memory, status, bursts, connected, result,
                     transfers>>
  BY DEF TerminatorFails
<1>2. /\ bursts[packet] = memory /\ memory \in Nat /\ memory > 0
      /\ skipped \in BOOLEAN /\ bursts \in [Indices -> Nat]
  BY <1>1, KnownBursts
<1>3. <<packet, memory>> \notin sent  BY <1>1, <1>2 DEF Unsent
<1>4. {memory} \subseteq 0 .. memory + 1 /\ memory + 1 \notin {memory} /\ {memory} \in SUBSET Nat
  BY <1>2
<1>5. sent' = sent \union ({packet} \X {memory})  BY <1>1, <1>2
<1> QED  BY <1>1, <1>2, <1>3, <1>4, <1>5, SendingKeeps

LEMMA SendLastBurstKeeps == ASSUME IInv, SendLastBurst PROVE IInv'
<1>1. /\ pc = "send" /\ memory # 0 /\ <<packet, 0>> \in sent
      /\ bursts[packet] \in Unsent /\ Transmit({bursts[packet], bursts[packet] + 1})
      /\ sent' = sent \union {<<packet, bursts[packet]>>, <<packet, bursts[packet] + 1>>}
      /\ skipped' = (skipped \/ Unsent # {bursts[packet]})
      /\ status' = status \union {packet} /\ pc' = "select"
      /\ UNCHANGED <<profile, packet, memory, bursts, connected, result, transfers>>
  BY DEF SendLastBurst
<1>2. /\ bursts[packet] = memory /\ memory \in Nat /\ memory > 0
      /\ <<packet, memory + 1>> \notin sent
      /\ skipped \in BOOLEAN /\ bursts \in [Indices -> Nat]
  BY <1>1, KnownBursts
<1>3. <<packet, memory>> \notin sent  BY <1>1, <1>2 DEF Unsent
<1>4. /\ {memory, memory + 1} \subseteq 0 .. memory + 1 /\ memory + 1 \in {memory, memory + 1}
      /\ {memory, memory + 1} \in SUBSET Nat
  BY <1>2
<1>5. sent' = sent \union ({packet} \X {memory, memory + 1})  BY <1>1, <1>2
<1>6. ASSUME ~skipped', NEW b \in 0 .. memory + 1
      PROVE  b \in {memory, memory + 1} \/ <<packet, b>> \in sent
  <2>1. Unsent = {memory}  BY <1>1, <1>2, <1>6
  <2>2. CASE b = 0  BY <1>1, <2>2
  <2>3. CASE b \in 1 .. memory  BY <1>2, <2>1, <2>3 DEF Unsent
  <2> QED  BY <1>2, <2>2, <2>3
<1>7. \A b \in {memory, memory + 1} : <<packet, b>> \notin sent  BY <1>2, <1>3
<1> QED  BY <1>1, <1>2, <1>4, <1>5, <1>6, <1>7, SendingKeeps

LEMMA StepKeeps == IInv /\ [Next]_vars => IInv'
<1> SUFFICES ASSUME IInv, [Next]_vars PROVE IInv'  OBVIOUS
<1>1. CASE Next
  BY <1>1, BeginKeeps, CannotBeginKeeps, KeepPacketKeeps, StrayPacketKeeps,
    SelectPacketKeeps, AllDoneKeeps, ConnectKeeps, ConnectFailsKeeps,
    SendBurstZeroKeeps, SendBurstKeeps, SendLastBurstKeeps, TerminatorFailsKeeps,
    SendNothingKeeps, ResetKeeps DEF Next, Select, SendSome
<1>2. CASE UNCHANGED vars
  BY <1>2 DEF vars, arrays, history, IInv, TypeOK, OnlyCurrent, Announced, Chosen,
    Noted, Terminated, NoResultYet, SuccessMeansWhole, Assembled, Running,
    Bursts, Packets, NumPackets
<1> QED  BY <1>1, <1>2

LEMMA Invariance == Spec => []IInv
BY Initially, StepKeeps, PTL DEF Spec

(* The types hold: profile_manager.c is where a transfer keeps its state.  *)
THEOREM TypeCorrect == Spec => []TypeOK
<1>1. IInv => TypeOK  BY DEF IInv
<1> QED  BY <1>1, Invariance, PTL

(* A transfer that reports Tx_Sts_AllDone has handed over everything it    *)
(* announced, for every packet of the profile, each burst once, unless a   *)
(* burst was passed over.                                                  *)
THEOREM SuccessIsWhole == Spec => []SuccessMeansWhole
<1>1. IInv => SuccessMeansWhole  BY DEF IInv
<1> QED  BY <1>1, Invariance, PTL

(* What the receiver sees of a packet begins with its announcement and is  *)
(* complete at its terminator.                                             *)
THEOREM AlwaysAssembled == Spec => []Assembled
<1>1. IInv => Assembled  BY DEF IInv
<1> QED  BY <1>1, Invariance, PTL
=============================================================================

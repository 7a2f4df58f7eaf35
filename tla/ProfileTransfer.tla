-------------------------- MODULE ProfileTransfer --------------------------
(***************************************************************************)
(* The transfer of a profile over the modem by the profile manager of the  *)
(* controller board: profile_fake and pmg_profile_transmission in          *)
(* profile_manager.c.                                                      *)
(*                                                                         *)
(* A profile is a sequence of data packets in files, a packet a sequence   *)
(* of bursts: burst 0 announces how many follow, and one more terminates   *)
(* the packet.  pmg_profile_transmission is called again and again; each   *)
(* pass selects a packet, connects when there is no carrier, and sends.    *)
(* Which packet is in transfer is a static variable that outlives the      *)
(* transfer.  What was sent is noted in arrays that profile_fake makes     *)
(* afresh for each transfer.                                               *)
(*                                                                         *)
(* Bursts are made of the memory at transferring_pdp, to which nothing in  *)
(* this program writes: the call that should read the packet into it names *)
(* the address 12.  So what is sent is what that memory has held since     *)
(* power-up; it counts only how many data bursts it amounts to.  What the  *)
(* file destroys from address 12 on is outside the model.                  *)
(*                                                                         *)
(* A burst is what mdm_send takes in full; what the modem does with it is  *)
(* not known to the code, which waits for no confirmation.                 *)
(***************************************************************************)
EXTENDS Naturals, Sequences

CONSTANTS
  Profile,         \* the profiles on file
  Layout,          \* Layout[f][p]: the data bursts of packet p of profile f
                   \* on file
  Contents,        \* the numbers of data bursts that the memory at power-up
                   \* may amount to; 0: no valid packet
  NoProfile,       \* no transfer is under way
  MaxTransfers     \* bound on the number of transfers

ASSUME LayoutAssumption == Layout \in [Profile -> Seq(Nat \ {0})]
ASSUME ContentsAssumption == Contents \subseteq Nat
ASSUME NoneAssumption == NoProfile \notin Profile
ASSUME BoundAssumption == MaxTransfers \in Nat

VARIABLES
  pc,         \* place in the loop of profile_fake
  profile,    \* profileID, the profile in transfer
  packet,     \* packet_in_transfer; 0 is NO_PACKET_IN_TRANSFER
  memory,     \* the data bursts of what is at transferring_pdp
  status,     \* the packets that are PCK_Sent
  bursts,     \* packet_bursts
  sent,       \* the pairs of packet and burst that are BST_Sent
  connected,  \* connected
  result,     \* the return value of profile_fake
  accepted,   \* history: the pairs of packet and burst that the modem has
              \* taken in this transfer
  twice,      \* history: it has taken one of them twice
  skipped,    \* history: the last data burst of a packet was sent while an
              \* earlier one was not
  transfers   \* number of transfers so far

arrays == <<status, bursts, sent>>
history == <<accepted, twice, skipped>>
vars == <<pc, profile, packet, memory, arrays, connected, result, history,
          transfers>>

NumPackets(f) == Len(Layout[f])
Packets(f) == 1 .. NumPackets(f)
Indices == UNION {Packets(f) : f \in Profile}
Results == {"none", "AllDone", "ModemFail", "NoProfile", "PackageFail"}

Init ==
  /\ pc = "idle" /\ profile = NoProfile /\ result = "none"
  /\ packet = 0 /\ memory \in Contents /\ connected = FALSE
  /\ status = {} /\ bursts = [p \in Indices |-> 0] /\ sent = {}
  /\ accepted = {} /\ twice = FALSE /\ skipped = FALSE
  /\ transfers = 0

----------------------------------------------------------------------------
(* The frame of a transfer: profile_fake *)

\* mutant of Begin: the arrays are not made afresh
BeginOldArrays(f) ==
  /\ pc = "idle" /\ transfers < MaxTransfers
  /\ transfers' = transfers + 1
  /\ pc' = "select" /\ profile' = f /\ result' = "none"
  /\ accepted' = {} /\ twice' = FALSE /\ skipped' = FALSE
  /\ UNCHANGED <<packet, memory, arrays, connected>>

(* The folder is there and profile_package has put the packets into files: *)
(* everything is unsent.                                                   *)
Begin(f) ==
  /\ pc = "idle" /\ transfers < MaxTransfers
  /\ transfers' = transfers + 1
  /\ pc' = "select" /\ profile' = f /\ result' = "none"
  /\ status' = {} /\ bursts' = [p \in Indices |-> 0] /\ sent' = {}
  /\ accepted' = {} /\ twice' = FALSE /\ skipped' = FALSE
  /\ UNCHANGED <<packet, memory, connected>>

(* There is no folder, the packets cannot be made, or no memory for the    *)
(* arrays is left: nothing is sent.                                        *)
CannotBegin(r) ==
  /\ pc = "idle" /\ transfers < MaxTransfers
  /\ transfers' = transfers + 1
  /\ result' = r
  /\ accepted' = {} /\ twice' = FALSE /\ skipped' = FALSE
  /\ UNCHANGED <<pc, profile, packet, memory, arrays, connected>>

(* profile_fake returns and frees the arrays. *)
Return(r) ==
  /\ pc' = "idle" /\ profile' = NoProfile /\ result' = r

----------------------------------------------------------------------------
(* One pass of pmg_profile_transmission: the packet *)

FirstUnsent(p) ==
  /\ p \in Packets(profile) \ status
  /\ \A q \in Packets(profile) \ status : p <= q

(* The packet in transfer is taken up again without a look at the file.    *)
(* It may be left over from an earlier transfer that the modem broke off.  *)
KeepPacket ==
  /\ pc = "select"
  /\ packet \in Packets(profile) \ status
  /\ pc' = "connect"
  /\ UNCHANGED <<profile, packet, memory, arrays, connected, result, history,
                 transfers>>

(* The status of a packet that this profile does not have is read beyond   *)
(* the end of the array: it may look unsent, and what follows is open.     *)
StrayPacket ==
  /\ pc = "select"
  /\ packet > NumPackets(profile)
  /\ pc' = "stray"
  /\ UNCHANGED <<profile, packet, memory, arrays, connected, result, history,
                 transfers>>

\* mutant of SelectPacket: the search begins behind the packet just sent
SelectNext(p) ==
  /\ pc = "select"
  /\ packet \notin Packets(profile) \ status
  /\ p \in Packets(profile) \ status /\ p > packet
  /\ \A q \in Packets(profile) \ status : q > packet => p <= q
  /\ packet' = p
  /\ pc' = "connect"
  /\ UNCHANGED <<profile, memory, arrays, connected, result, history, transfers>>

(* No packet is in transfer, or it has been sent: the first one that is    *)
(* unsent is next.  Its file is read to address 12: memory is unchanged.   *)
SelectPacket(p) ==
  /\ pc = "select"
  /\ packet \notin Packets(profile) \ status
  /\ FirstUnsent(p)
  /\ packet' = p
  /\ pc' = "connect"
  /\ UNCHANGED <<profile, memory, arrays, connected, result, history, transfers>>

(* All packets are sent: log out. *)
AllDone ==
  /\ pc = "select"
  /\ Packets(profile) \subseteq status
  /\ packet' = 0 /\ connected' = FALSE
  /\ Return("AllDone")
  /\ UNCHANGED <<memory, arrays, history, transfers>>

----------------------------------------------------------------------------
(* One pass of pmg_profile_transmission: the connection *)

(* There is a carrier still, or open_rudics_server gets through: modem,    *)
(* registration, signal, dialling, login and the call of the receiver.     *)
Connect ==
  /\ pc = "connect"
  /\ pc' = "send" /\ connected' = TRUE
  /\ UNCHANGED <<profile, packet, memory, arrays, result, history, transfers>>

\* mutant of ConnectFails: the packets are counted as sent
ConnectFailsQuietly ==
  /\ pc = "connect"
  /\ connected' = FALSE
  /\ Return("AllDone")
  /\ UNCHANGED <<packet, memory, arrays, history, transfers>>

(* One of these steps fails, after its retries: the transfer ends.  The    *)
(* packet stays in transfer.                                               *)
ConnectFails ==
  /\ pc = "connect"
  /\ connected' = FALSE
  /\ Return("ModemFail")
  /\ UNCHANGED <<packet, memory, arrays, history, transfers>>

----------------------------------------------------------------------------
(* One pass of pmg_profile_transmission: the bursts *)

(* data_packet_bursts_transmit hands bursts to the modem in full. *)
Transmit(bs) ==
  /\ accepted' = accepted \union ({packet} \X bs)
  /\ twice' = (twice \/ ({packet} \X bs) \intersect accepted # {})

(* Burst 0; the number of bursts is that of what is in memory. *)
SendBurstZero ==
  /\ pc = "send" /\ memory # 0
  /\ <<packet, 0>> \notin sent
  /\ Transmit({0})
  /\ bursts' = [bursts EXCEPT ![packet] = memory]
  /\ sent' = sent \union {<<packet, 0>>}
  /\ pc' = "select"
  /\ UNCHANGED <<profile, packet, memory, status, connected, result, skipped,
                 transfers>>

Unsent == {b \in 1 .. bursts[packet] : <<packet, b>> \notin sent}

(* A data burst but the last.  The unsent ones before it have been tried   *)
(* in this pass, and failed.                                               *)
SendBurst ==
  /\ pc = "send" /\ memory # 0
  /\ <<packet, 0>> \in sent
  /\ \E b \in Unsent :
       /\ b < bursts[packet]
       /\ Transmit({b})
       /\ sent' = sent \union {<<packet, b>>}
  /\ pc' = "select"
  /\ UNCHANGED <<profile, packet, memory, status, bursts, connected, result,
                 skipped, transfers>>

(* The last data burst, and the terminator right after it, which makes the *)
(* packet PCK_Sent.                                                        *)
SendLastBurst ==
  /\ pc = "send" /\ memory # 0
  /\ <<packet, 0>> \in sent
  /\ bursts[packet] \in Unsent
  /\ LET nB == bursts[packet]
     IN  /\ Transmit({nB, nB + 1})
         /\ sent' = sent \union {<<packet, nB>>, <<packet, nB + 1>>}
         /\ skipped' = (skipped \/ Unsent # {nB})
  /\ status' = status \union {packet}
  /\ pc' = "select"
  /\ UNCHANGED <<profile, packet, memory, bursts, connected, result, transfers>>

(* The last data burst without the terminator: the packet stays unsent,    *)
(* and the terminator is not tried again.                                  *)
TerminatorFails ==
  /\ pc = "send" /\ memory # 0
  /\ <<packet, 0>> \in sent
  /\ bursts[packet] \in Unsent
  /\ Transmit({bursts[packet]})
  /\ sent' = sent \union {<<packet, bursts[packet]>>}
  /\ skipped' = (skipped \/ Unsent # {bursts[packet]})
  /\ pc' = "select"
  /\ UNCHANGED <<profile, packet, memory, status, bursts, connected, result,
                 transfers>>

(* Nothing is sent in this pass: the modem takes nothing, the packet in    *)
(* memory is not valid, or there is no burst left to try.                  *)
SendNothing ==
  /\ pc = "send"
  /\ pc' = "select"
  /\ UNCHANGED <<profile, packet, memory, arrays, connected, result, history,
                 transfers>>

(* The watchdog or a loss of power resets the board.  The external memory  *)
(* keeps its content, or comes up with any other.                          *)
Reset ==
  /\ pc # "idle"
  /\ packet' = 0 /\ connected' = FALSE
  /\ memory' \in Contents
  /\ Return("none")
  /\ UNCHANGED <<arrays, history, transfers>>

Select ==
  \/ KeepPacket \/ StrayPacket
  \/ \E p \in Indices : SelectPacket(p)
  \/ AllDone
SendSome == SendBurstZero \/ SendBurst \/ SendLastBurst

Next ==
  \/ \E f \in Profile : Begin(f)
  \/ \E r \in {"NoProfile", "PackageFail"} : CannotBegin(r)
  \/ Select
  \/ Connect \/ ConnectFails
  \/ SendSome \/ TerminatorFails \/ SendNothing
  \/ Reset

(* The task goes on, and the modem takes something sooner or later.        *)
Fairness ==
  /\ WF_vars(Select) /\ WF_vars(Connect) /\ WF_vars(SendNothing)
  /\ SF_vars(SendSome)

Spec == Init /\ [][Next]_vars
FairSpec == Spec /\ Fairness

----------------------------------------------------------------------------
(* Properties *)

TypeOK ==
  /\ pc \in {"idle", "select", "connect", "send", "stray"}
  /\ profile \in Profile \union {NoProfile}
  /\ profile = NoProfile <=> pc = "idle"
  /\ packet \in Indices \union {0}
  /\ memory \in Contents
  /\ status \subseteq Indices
  /\ bursts \in [Indices -> Nat]
  /\ sent \subseteq Indices \X Nat
  /\ connected \in BOOLEAN /\ twice \in BOOLEAN /\ skipped \in BOOLEAN
  /\ result \in Results
  /\ accepted \subseteq Indices \X Nat
  /\ transfers \in 0 .. MaxTransfers

(* Announcement, data and terminator of packet p, as announced. *)
Bursts(p) == {p} \X (0 .. bursts[p] + 1)

(* A transfer that reports success has handed over all of what it          *)
(* announced, for every packet of the profile, each burst once, and        *)
(* nothing else, through all losses of the carrier, failures to send and   *)
(* earlier transfers that broke off or were reset.  One slip of the code   *)
(* is set aside: a burst passed over.                                      *)
SuccessMeansWhole ==
  result = "AllDone" /\ ~skipped =>
    \E f \in Profile :
      accepted = UNION {Bursts(p) : p \in Packets(f)} /\ ~twice

(* What the receiver has to assemble at any moment: a packet begins with   *)
(* its announcement and nothing is missing before its terminator.          *)
Assembled ==
  /\ \A p \in Indices :
       Bursts(p) \intersect accepted # {} => <<p, 0>> \in accepted
  /\ ~skipped => \A p \in Indices :
       <<p, bursts[p] + 1>> \in accepted => Bursts(p) \subseteq accepted

(* A packet whose data bursts have all been sent but for the terminator.   *)
Unterminated ==
  /\ packet \in Indices \ status
  /\ <<packet, 0>> \in sent /\ Unsent = {}

(* A transfer ends and the commander gets its result, unless the           *)
(* terminator of a packet has failed, which is never sent again, memory    *)
(* holds nothing that can be sent, or the packet in transfer was left by a *)
(* profile that had more of them.                                          *)
TransferReturns ==
  pc # "idle" ~> (pc = "idle" \/ Unterminated \/ memory = 0 \/ pc = "stray")

(* What the comment above profile_package says, that in a transfer the     *)
(* finished packets are written as they are: a packet counts as sent after *)
(* as many bursts as it has on file.  It does not hold: what is in memory  *)
(* is not the packet.                                                      *)
WrittenAsTheyAre ==
  pc # "idle" => \A p \in status : bursts[p] = Layout[profile][p]

=============================================================================

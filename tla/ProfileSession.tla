---------------------------- MODULE ProfileSession ----------------------------
(***************************************************************************)
(* A profile from its first command to its transfer.  The float's own      *)
(* controller (NAVIS) sends text commands over the serial line to the      *)
(* commander; the commander keeps the operation state and sends orders to  *)
(* the profile manager; the profile manager sends commands over the SPI    *)
(* link to the data acquisition, which keeps frames in its flash memory    *)
(* while it profiles and returns them when the profile has ended.  The     *)
(* profile manager stores the frames in the files of the profile and, when *)
(* all frames have come and NAVIS has asked for it, transfers the profile. *)
(*                                                                         *)
(* The way between the two boards is a lossy first-in first-out channel,   *)
(* which is what module DataExchange implements (FrameChannel).            *)
(***************************************************************************)
EXTENDS Naturals, Sequences

CONSTANTS
  Spectrometers, \* the spectrometers that are installed (serial number not 0)
  MaxProfiles,   \* bound on the number of PRFBEG
  MaxCommands,   \* bound on the number of commands of NAVIS
  MaxFrames,     \* bound on the number of frames
  Patient,       \* TRUE: NAVIS begins a profile only after the transfer of the
                 \* previous one, asks for one transfer of it, and ends none
  Faults         \* TRUE: the link may lose packets, and files may fail

ASSUME BoundAssumption ==
  /\ MaxProfiles \in Nat /\ MaxCommands \in Nat /\ MaxFrames \in Nat
  /\ {Patient, Faults} \subseteq BOOLEAN

NoProfile == 0
Profile == 1..MaxProfiles
Frame == 1..MaxFrames
Command == {"PRFBEG", "PRFEND", "TXBEG", "TXEND", "SLP"}
Order == {"Profile", "Profile_End", "Transmit", "Transmit_End"}
(* A command for the data acquisition.  The profile it is sent for is not   *)
(* part of the packet: the properties need it.                              *)
DaqCommand == [code : {"Profiling", "Profiling_End"}, for : Profile \cup {NoProfile}]
(* What the data acquisition sends: commands and frames.                    *)
PmgPacket ==
  [code : {"Offloading", "Offloading_Done"}] \cup [code : {"frame"}, frame : Frame]

VARIABLES
  op,         \* the operation state of the commander
  pending,    \* NAVIS has begun a profile and not learnt of its transfer yet
  begun,      \* how many commands and profiles NAVIS has sent
  orders,     \* from the commander to the profile manager
  results,    \* CMD_CMC_Transfer_Status packets to the commander
  pmg,        \* pmg_state
  profile,    \* profile_id
  txbeg,      \* Received_TXBEG_command
  offDone,    \* Offloading_is_Done
  sending,    \* the profile manager is in profile_fake
  started,    \* how many profiles have been started
  stored,     \* the frames in the files of every profile
  daq,        \* DAQ_state
  for,        \* the profile that the acquisition was started for
  action,     \* PRF_action
  busy,       \* the spectrometers whose DAQ_Phase is not idle
  stopping,   \* prepareToStop
  offload,    \* offload_FlashMemory
  flash,      \* the frames in flash memory, the last one on top
  acquired,   \* the frames that have been put there for every profile
  down, up,   \* the channels between the boards
  faulty      \* a packet has been lost, or a file has failed

navis == <<pending, begun>>
cmc == <<op, orders, results>>
pm == <<pmg, profile, txbeg, offDone, sending, started, stored>>
da == <<daq, for, action, busy, stopping, offload, flash, acquired>>
vars == <<navis, cmc, pm, da, down, up, faulty>>

TypeOK ==
  /\ op \in {"Prompt", "Profiling", "Transmitting"}
  /\ pending \in BOOLEAN
  /\ begun \in [commands : 0..MaxCommands, profiles : 0..MaxProfiles]
  /\ orders \in Seq(Order) /\ results \in Nat
  /\ pmg \in {"Idle", "Profiling", "Offloading"}
  /\ profile \in Profile \cup {NoProfile}
  /\ {txbeg, offDone, sending, stopping, offload, faulty} \subseteq BOOLEAN
  /\ started \in 0..MaxProfiles
  /\ stored \in [Profile -> SUBSET Frame]
  /\ daq \in {"Idle", "FloatProfile"}
  /\ for \in Profile \cup {NoProfile}
  /\ action \in {"Delay", "Single", "Continuous", "Complete"}
  /\ busy \subseteq Spectrometers
  /\ flash \in Seq(Frame)
  /\ acquired \in [Profile -> SUBSET Frame]
  /\ down \in Seq(DaqCommand) /\ up \in Seq(PmgPacket)
  \* the states that the loops exclude
  /\ busy # {} => daq = "FloatProfile"
  /\ stopping => daq = "FloatProfile"
  /\ pmg # "Idle" => profile # NoProfile

Init ==
  /\ op = "Prompt" /\ pending = FALSE
  /\ begun = [commands |-> 0, profiles |-> 0]
  /\ orders = <<>> /\ results = 0
  /\ pmg = "Idle" /\ profile = NoProfile
  /\ txbeg = FALSE /\ offDone = FALSE /\ sending = FALSE
  /\ started = 0
  /\ stored = [p \in Profile |-> {}]
  /\ daq = "Idle" /\ for = NoProfile /\ action = "Complete" /\ busy = {}
  /\ stopping = FALSE /\ offload = FALSE
  /\ flash = <<>> /\ acquired = [p \in Profile |-> {}]
  /\ down = <<>> /\ up = <<>> /\ faulty = FALSE

----------------------------------------------------------------------------
(* The commander: APM_CMD_Handle *)

(* The order that ends what is under way.                                   *)
EndOrder ==
  CASE op = "Profiling" -> <<"Profile_End">>
    [] op = "Transmitting" -> <<"Transmit_End">>
    [] op = "Prompt" -> <<>>

PRFBEG ==
  IF op = "Profiling" THEN UNCHANGED <<op, orders>>
  ELSE /\ orders' = orders \o EndOrder \o <<"Profile">>
       /\ op' = "Profiling"

(* Both PRFEND and TXEND end whatever is under way.                         *)
PRFEND_TXEND ==
  /\ orders' = orders \o EndOrder
  /\ op' = "Prompt"

TXBEG ==
  IF op = "Transmitting" THEN UNCHANGED <<op, orders>>
  ELSE /\ orders' = orders \o EndOrder \o <<"Transmit">>
       /\ op' = "Transmitting"

(* SLP does not sleep, and leaves the operation state as it was.            *)
SLP ==
  /\ orders' = orders \o EndOrder
  /\ UNCHANGED op

(* What NAVIS sends, and when.                                              *)
Sends(c) ==
  /\ begun.commands < MaxCommands
  /\ c = "PRFBEG" => begun.profiles < MaxProfiles
  /\ Patient => CASE c = "PRFBEG" -> ~pending
                  [] c \in {"PRFEND", "TXEND"} -> op # "Transmitting"
                  [] c = "TXBEG" -> pending /\ op # "Transmitting"
                  [] c = "SLP" -> TRUE

Navis(c) ==
  /\ Sends(c)
  /\ begun' = [commands |-> begun.commands + 1,
               profiles |-> begun.profiles + IF c = "PRFBEG" THEN 1 ELSE 0]
  /\ pending' = (pending \/ c = "PRFBEG")
  /\ CASE c = "PRFBEG" -> PRFBEG
       [] c \in {"PRFEND", "TXEND"} -> PRFEND_TXEND
       [] c = "TXBEG" -> TXBEG
       [] c = "SLP" -> SLP
  /\ UNCHANGED <<results, pm, da, down, up, faulty>>

\* mutant of TransferStatus: the operation state stays
TransferStatusIgnored ==
  /\ results > 0
  /\ results' = results - 1
  /\ pending' = FALSE
  /\ UNCHANGED <<op, begun, orders, pm, da, down, up, faulty>>

(* The result of a transfer: back to the prompt, whatever is under way now. *)
TransferStatus ==
  /\ results > 0
  /\ results' = results - 1
  /\ op' = "Prompt"
  /\ pending' = FALSE
  /\ UNCHANGED <<begun, orders, pm, da, down, up, faulty>>

----------------------------------------------------------------------------
(* The profile manager: one pass of its loop *)

SendDown(code, p) == down' = Append(down, [code |-> code, for |-> p])

(* The end of every pass: with all frames there and TXBEG received, the     *)
(* transfer begins.                                                         *)
Transmission(done, tx) ==
  /\ offDone' = done
  /\ txbeg' = tx
  /\ sending' = (done /\ tx)

(* CMD_PMG_Profile starts a profile, or starts the acquisition again.       *)
ProfileStarts ==
  /\ pmg = "Idle"
  /\ \/ /\ profile' = started + 1
        /\ pmg' = "Profiling"
        /\ started' = started + 1
        /\ SendDown("Profiling", started + 1)
        /\ UNCHANGED faulty
     \/ /\ Faults
        /\ faulty' = TRUE
        /\ profile' = NoProfile
        /\ UNCHANGED <<pmg, started, down>>

ProfileResent ==
  /\ pmg # "Idle"
  /\ IF pmg = "Profiling" THEN SendDown("Profiling", profile)
                          ELSE UNCHANGED down
  /\ UNCHANGED <<pmg, profile, started, faulty>>

\* mutant of PmgProfileEnd: the end is not passed on to the acquisition
PmgProfileEndKept ==
  /\ pmg' = IF pmg = "Profiling" THEN "Idle" ELSE pmg
  /\ UNCHANGED <<profile, started, down, faulty>>

\* mutant of PmgProfileEnd: the state is not left
PmgProfileEndStays ==
  /\ IF pmg \in {"Idle", "Profiling"} THEN SendDown("Profiling_End", NoProfile)
                                       ELSE UNCHANGED down
  /\ UNCHANGED <<pmg, profile, started, faulty>>

PmgProfileEnd ==
  /\ pmg' = IF pmg = "Profiling" THEN "Idle" ELSE pmg
  /\ IF pmg' = "Idle" THEN SendDown("Profiling_End", NoProfile)
                      ELSE UNCHANGED down
  /\ UNCHANGED <<profile, started, faulty>>

PmgTransmit ==
  /\ IF pmg = "Profiling" THEN /\ pmg' = "Idle"
                               /\ SendDown("Profiling_End", NoProfile)
                          ELSE UNCHANGED <<pmg, down>>
  /\ UNCHANGED <<profile, started, faulty>>

(* CMD_PMG_Transmit_End only has an effect in a state that is never entered.*)
PmgOrder ==
  /\ ~sending
  /\ orders # <<>>
  /\ orders' = Tail(orders)
  /\ CASE Head(orders) = "Profile" -> ProfileStarts \/ ProfileResent
       [] Head(orders) = "Profile_End" -> PmgProfileEnd
       [] Head(orders) = "Transmit" -> PmgTransmit
       [] Head(orders) = "Transmit_End" -> UNCHANGED <<pmg, profile, started, down, faulty>>
  /\ Transmission(offDone, txbeg \/ Head(orders) = "Transmit")
  /\ UNCHANGED <<op, results, navis, stored, da, up>>

PmgOffloading ==
  /\ pmg' = IF pmg = "Profiling" \/ (pmg = "Idle" /\ profile # NoProfile)
              THEN "Offloading" ELSE pmg
  /\ Transmission(FALSE, txbeg)
  /\ UNCHANGED <<stored, faulty>>

PmgOffloadingDone ==
  /\ Transmission(TRUE, txbeg)
  /\ UNCHANGED <<pmg, stored, faulty>>

(* Frames are taken in for a profile that is under way or offloading.       *)
PmgFrame(f) ==
  /\ \/ /\ pmg \in {"Profiling", "Offloading"}
        /\ stored' = [stored EXCEPT ![profile] = @ \cup {f}]
        /\ UNCHANGED faulty
     \/ /\ pmg = "Idle"
        /\ UNCHANGED <<stored, faulty>>
     \/ /\ pmg \in {"Profiling", "Offloading"} /\ Faults
        /\ faulty' = TRUE
        /\ UNCHANGED stored
  /\ Transmission(offDone, txbeg)
  /\ UNCHANGED pmg

PmgPacketFromDaq ==
  /\ ~sending
  /\ up # <<>>
  /\ up' = Tail(up)
  /\ CASE Head(up).code = "Offloading" -> PmgOffloading
       [] Head(up).code = "Offloading_Done" -> PmgOffloadingDone
       [] Head(up).code = "frame" -> PmgFrame(Head(up).frame)
  /\ UNCHANGED <<profile, started, navis, cmc, da, down>>

(* The end of profile_fake, successful or not; its bursts are left out.     *)
TransferEnds ==
  /\ sending
  /\ results' = results + 1
  /\ profile' = NoProfile
  /\ pmg' = "Idle" /\ offDone' = FALSE /\ txbeg' = FALSE /\ sending' = FALSE
  /\ UNCHANGED <<op, orders, navis, started, stored, da, down, up, faulty>>

----------------------------------------------------------------------------
(* The data acquisition: the parts of one pass of its loop *)

\* mutant of Finish: the spectrometers may still be at work
FinishAnyPhase(d, s) ==
  IF s
    THEN /\ daq' = "Idle" /\ stopping' = FALSE /\ offload' = TRUE
         /\ up' = Append(up, [code |-> "Offloading"])
    ELSE daq' = d /\ stopping' = s /\ UNCHANGED <<offload, up>>

(* Once the spectrometers are idle a stop is completed and the offload      *)
(* begins.                                                                  *)
Finish(d, s) ==
  IF s /\ busy = {}
    THEN /\ daq' = "Idle" /\ stopping' = FALSE /\ offload' = TRUE
         /\ up' = Append(up, [code |-> "Offloading"])
    ELSE daq' = d /\ stopping' = s /\ UNCHANGED <<offload, up>>

Finishing == stopping /\ busy = {}

DaqPassStop ==
  /\ Finishing
  /\ Finish(daq, stopping)
  /\ UNCHANGED <<for, action, busy, flash, acquired, down, navis, cmc, pm,
                 faulty>>

(* A command is handled, and a stop completed in the same pass.  A start is *)
(* accepted when the acquisition is idle, even while frames of the previous *)
(* profile are in flash memory.                                             *)
DaqPassCommand ==
  /\ down # <<>>
  /\ down' = Tail(down)
  /\ IF Head(down).code = "Profiling"
       THEN IF daq = "Idle"
              THEN /\ for' = Head(down).for /\ action' = "Delay"
                   /\ Finish("FloatProfile", stopping)
              ELSE Finish(daq, stopping) /\ UNCHANGED <<for, action>>
       ELSE /\ Finish(daq, stopping \/ daq = "FloatProfile")
            /\ UNCHANGED <<for, action>>
  /\ UNCHANGED <<busy, flash, acquired, navis, cmc, pm, faulty>>

\* mutant of Offload: the end is reported with a frame left
OffloadShort ==
  /\ offload /\ ~Finishing
  /\ IF Len(flash) <= 1
       THEN /\ up' = Append(up, [code |-> "Offloading_Done"])
            /\ offload' = FALSE
            /\ UNCHANGED flash
       ELSE /\ up' = Append(up, [code |-> "frame", frame |-> flash[Len(flash)]])
            /\ flash' = SubSeq(flash, 1, Len(flash) - 1)
            /\ UNCHANGED offload
  /\ UNCHANGED <<daq, for, action, busy, stopping, acquired, down, navis, cmc, pm,
                 faulty>>

(* One frame per pass, the last one first, then the report.                 *)
Offload ==
  /\ offload /\ ~Finishing
  /\ IF flash = <<>>
       THEN /\ up' = Append(up, [code |-> "Offloading_Done"])
            /\ offload' = FALSE
            /\ UNCHANGED flash
       ELSE /\ up' = Append(up, [code |-> "frame", frame |-> flash[Len(flash)]])
            /\ flash' = SubSeq(flash, 1, Len(flash) - 1)
            /\ UNCHANGED offload
  /\ UNCHANGED <<daq, for, action, busy, stopping, acquired, down, navis, cmc, pm,
                 faulty>>

(* measureNow: the pressure decides whether a measurement is due, or the    *)
(* continuous ones of the upper section.                                    *)
Schedule ==
  /\ daq = "FloatProfile" /\ busy = {} /\ ~Finishing
  /\ action \in {"Delay", "Single"}
  /\ action' \in {"Single", "Continuous"}
  /\ busy' = Spectrometers
  /\ UNCHANGED <<daq, for, stopping, offload, flash, acquired, down, up, navis,
                 cmc, pm, faulty>>

(* CGS_StartSampling fails: the acquisition is aborted.                     *)
SamplingFails(s) ==
  /\ s \in busy
  /\ busy' = busy \ {s}
  /\ stopping' = TRUE
  /\ UNCHANGED <<daq, for, action, offload, flash, acquired, down, up, navis,
                 cmc, pm, faulty>>

Made == UNION {acquired[p] : p \in Profile}

(* The frame goes to flash memory, unless no package is empty to put it     *)
(* together in.                                                             *)
AddFrame ==
  \/ UNCHANGED <<flash, acquired>>
  \/ \E f \in Frame :
       /\ \A g \in Frame : g < f <=> g \in Made
       /\ flash' = Append(flash, f)
       /\ acquired' = [acquired EXCEPT ![for] = @ \cup {f}]

(* A spectrometer has a light and a dark spectrum.  It goes idle for a stop *)
(* and after a single measurement; in the upper section it goes on until    *)
(* the float has been at the surface for a while, and the last one to do so *)
(* stops the profile.                                                       *)
Transfer(s) ==
  LET last == busy = {s} IN
  /\ s \in busy
  /\ AddFrame
  /\ \/ /\ stopping
        /\ busy' = busy \ {s}
        /\ UNCHANGED <<action, stopping>>
     \/ /\ ~stopping /\ action = "Single"
        /\ busy' = busy \ {s}
        /\ action' = IF last THEN "Delay" ELSE action
        /\ UNCHANGED stopping
     \/ /\ ~stopping /\ action = "Continuous"
        /\ UNCHANGED <<busy, action, stopping>>
     \/ /\ ~stopping /\ action = "Continuous" \* at the surface
        /\ busy' = busy \ {s}
        /\ action' = IF last THEN "Complete" ELSE action
        /\ stopping' = last
  /\ UNCHANGED <<daq, for, offload, down, up, navis, cmc, pm, faulty>>

----------------------------------------------------------------------------
LoseDown ==
  /\ Faults /\ down # <<>>
  /\ faulty' = TRUE
  /\ down' = Tail(down)
  /\ UNCHANGED <<up, navis, cmc, pm, da>>

LoseUp ==
  /\ Faults /\ up # <<>>
  /\ faulty' = TRUE
  /\ up' = Tail(up)
  /\ UNCHANGED <<down, navis, cmc, pm, da>>

DaqPass == DaqPassStop \/ DaqPassCommand \/ Offload

Next ==
  \/ \E c \in Command : Navis(c)
  \/ TransferStatus
  \/ PmgOrder \/ PmgPacketFromDaq \/ TransferEnds
  \/ DaqPass \/ Schedule
  \/ \E s \in Spectrometers : SamplingFails(s) \/ Transfer(s)
  \/ LoseDown \/ LoseUp

(* Every loop goes on, and a spectrometer that has been started delivers    *)
(* what is waited for when the acquisition is to stop.                      *)
Fairness ==
  /\ WF_vars(TransferStatus)
  /\ WF_vars(PmgOrder) /\ WF_vars(PmgPacketFromDaq) /\ WF_vars(TransferEnds)
  /\ WF_vars(DaqPassStop) /\ WF_vars(DaqPassCommand) /\ WF_vars(Offload)
  /\ \A s \in Spectrometers : WF_vars(stopping /\ Transfer(s))

Spec == Init /\ [][Next]_vars
FairSpec == Spec /\ Fairness

----------------------------------------------------------------------------
(* Properties *)

(* The files of a profile hold frames of that profile only, although frames *)
(* arrive long after the acquisition and carry no profile number.           *)
OwnFrames == \A p \in Profile : stored[p] \subseteq acquired[p]

(* A transfer is of a profile that is there, all of it: every frame put in  *)
(* flash memory has arrived and none is still to come.                      *)
TransferComplete ==
  sending /\ ~faulty => profile # NoProfile /\ stored[profile] = acquired[profile]

(* "the sensor is at the prompt (i.e., not profiling or transmitting)": when*)
(* no order is on its way, the commander's prompt means that the profile    *)
(* manager is not profiling.                                                *)
PromptMeansIdle == op = "Prompt" /\ orders = <<>> => pmg # "Profiling"

(* Flash memory is filled only while it is not being emptied.               *)
FillsOrEmpties == [][Len(flash') > Len(flash) => ~offload]_vars

(* TXBEG is answered: the commander gets the result of a transfer.          *)
TransferAnswered == op = "Transmitting" ~> op = "Prompt" \/ faulty

(* The acquisition does not go on after the profile manager has ended the   *)
(* profile, even when the order crosses a stop at the surface.              *)
AcquisitionEnds == pmg # "Profiling" ~> daq = "Idle" \/ faulty

=============================================================================

---------------------------- MODULE Acquisition ----------------------------
(***************************************************************************)
(* The data acquisition task of the spectrometer board: DAQ_Task in        *)
(* data_acquisition.c.                                                     *)
(*                                                                         *)
(* The task is a loop.  A pass takes at most one command, stops the        *)
(* acquisition when that was decided and both spectrometers rest, decides  *)
(* during a profile from the pressure whether to measure, and then lets    *)
(* each spectrometer take one step through its phases: shutter closed,     *)
(* dark spectrum, shutter opened, light spectrum, transfer, and again.     *)
(* The spectrometers share the state of the acquisition: a command, the    *)
(* failure of one of them, or the surface ends the work of both.           *)
(*                                                                         *)
(* Spectra are abstracted to the integration time and the shutter they     *)
(* were taken with, pressures to natural numbers, the integration times to *)
(* their index.  Where a frame goes (flash memory, stream log, or nowhere  *)
(* when no package is empty) is the matter of other modules.               *)
(***************************************************************************)
EXTENDS Integers, Sequences

CONSTANTS
  Setups,       \* the instruments and their use: the sides whose spectrometer has
                \* a serial number, the modes of CMD_DAQ_Start, the values of
                \* Lights_Per_Dark and Darks_Per_Integration_Time
  Times,        \* number_of_integration_times
  Points,       \* APM_Point_Pressure, from deep to shallow
  Pressures,    \* what the pressure sensor may read; 0 also when it fails
  Surface,      \* PRES_AT_SURFACE + 0.5
  SurfaceLimit, \* frames at the surface before the profile ends
  FixedTimes    \* the integration times that CMD_DAQ_Start fixes; 0 is none

Side == {"port", "starboard"}
Other(s) == IF s = "port" THEN "starboard" ELSE "port"
Stream == {"StreamLMD", "StreamLandD", "Calibrate"}

ASSUME SetupAssumption ==
  Setups \subseteq [installed : SUBSET Side,
                    modes : SUBSET (Stream \union {"DarkCharacterize"}),
                    runLengths : SUBSET (Nat \ {0})]
ASSUME TimesAssumption == Times \in Nat /\ Times > 1
ASSUME PointsAssumption == Points \in Seq(Nat \ {0}) /\ Len(Points) > 0
ASSUME PressuresAssumption == 0 \in Pressures /\ Pressures \subseteq Nat
ASSUME SurfaceAssumption == Surface \in Nat /\ SurfaceLimit \in Nat
ASSUME CommandAssumption == FixedTimes \subseteq 0 .. Times

VARIABLES
  setup,        \* the instrument; it does not change
  turn,         \* place in the loop
  DAQ_state,
  DAQ_Phase,    \* DAQ_Phase[s]
  prepareToStop,
  PRF_action,
  nextPoint,    \* APM_Point_Next
  OCR_started,
  fixed,        \* Fixed_Integration_Time
  runLength,    \* Lights_Per_Dark or Darks_Per_Integration_Time
  index,        \* current_integration_idx[s]
  nextIndex,    \* next_integration_idx[s]
  time,         \* current_integration_time[s]
  darks,        \* dark_sample_number[s] modulo runLength, where it is used
  lights,       \* lights_after_dark[s]
  closed,       \* shutter_is_closed[s]
  atSurface,    \* pressure_value[0] <= PRES_AT_SURFACE + 0.5
  numAtSurface,
  ocr,          \* the auxiliary acquisition has been told to run
  dark,         \* the integration time of the dark spectrum in memory, if it was
                \* taken in this acquisition and behind a closed shutter; else 0
  surfaced,     \* history: frames of this profile at the surface, up to the limit,
                \* when none were carried over
  carried,      \* history: numAtSurface was not 0 when this profile began
  misled        \* history: OCR_started has stayed when the OCR was stopped

Phases == {"Idle", "CloseShutter", "StartDark", "GetDark", "TransferD",
           "OpenShutter", "StartLight", "GetLight", "TransferL", "TransferLMD"}
Transfers == {"TransferD", "TransferL", "TransferLMD"}
LightPhases == {"OpenShutter", "StartLight", "GetLight", "TransferL", "TransferLMD"}

command == <<fixed, runLength>>
control == <<DAQ_state, prepareToStop, PRF_action, nextPoint, OCR_started, ocr>>
exposure == <<index, nextIndex, time>>
counts == <<darks, lights>>
spectra == <<closed, dark>>
surface == <<numAtSurface, surfaced, carried>>
Installed == setup.installed

vars == <<setup, turn, control, DAQ_Phase, command, exposure, counts, spectra, atSurface,
          surface, misled>>

Resting == \A s \in Side : DAQ_Phase[s] = "Idle"
All(v) == [s \in Side |-> v]

Init ==
  /\ setup \in Setups
  /\ turn = "receive" /\ DAQ_state = "Idle" /\ DAQ_Phase = All("Idle")
  /\ prepareToStop = FALSE /\ PRF_action = "Complete" /\ nextPoint = 0
  /\ OCR_started = FALSE /\ ocr = FALSE
  /\ fixed = 0 /\ runLength = 10
  /\ index = All(1) /\ nextIndex = All(1) /\ time = All(0)
  /\ darks = All(0) /\ lights = All(0)
  /\ closed = All(TRUE) /\ dark = All(0)
  /\ atSurface = TRUE /\ numAtSurface = 0 /\ surfaced = 0 /\ carried = FALSE
  /\ misled = FALSE

----------------------------------------------------------------------------
(* The command of this pass *)

NoCommand ==
  /\ turn = "receive" /\ turn' = "decide"
  /\ UNCHANGED <<control, DAQ_Phase, command, exposure, counts, spectra,
                 atSurface, surface, misled>>

(* The installed spectrometers begin with a dark spectrum. *)
BeginPhase(s) == IF s \in Installed THEN "CloseShutter" ELSE "Idle"

StartIndex(mode) ==
  IF mode \in {"StreamLMD", "Calibrate"} THEN Times \div 2 ELSE 1

(* What both kinds of acquisition set before they begin. *)
Prepare ==
  /\ darks' = All(0) /\ UNCHANGED lights
  /\ dark' = All(0) /\ UNCHANGED closed

(* CMD_DAQ_Start in one of its modes.  The streaming ones start the OCR,   *)
(* without a word to OCR_started.                                          *)
Start(mode, fix, n) ==
  /\ turn = "receive" /\ turn' = "decide"
  /\ DAQ_state = "Idle"
  /\ DAQ_state' = mode
  /\ DAQ_Phase' = [s \in Side |-> BeginPhase(s)]
  /\ fixed' = fix /\ runLength' = n
  /\ IF fix # 0
     THEN time' = All(fix) /\ UNCHANGED <<index, nextIndex>>
     ELSE /\ index' = All(StartIndex(mode)) /\ nextIndex' = index'
          /\ time' = index'
  /\ Prepare
  /\ ocr' = (ocr \/ mode \in {"StreamLMD", "StreamLandD"})
  /\ UNCHANGED <<prepareToStop, PRF_action, nextPoint, OCR_started, atSurface,
                 surface, misled>>

(* CMD_DAQ_Profiling: begin a profile with the longest integration time.   *)
(* The spectrometers start when a depth is reached.                        *)
Profiling(n) ==
  /\ turn = "receive" /\ turn' = "decide"
  /\ DAQ_state = "Idle"
  /\ DAQ_state' = "FloatProfile"
  /\ DAQ_Phase' = All("Idle")
  /\ PRF_action' = "Delay" /\ nextPoint' = 0
  /\ fixed' = 0 /\ runLength' = n
  /\ index' = All(Times) /\ nextIndex' = All(Times) /\ time' = All(Times)
  /\ Prepare
  /\ surfaced' = 0 /\ carried' = (numAtSurface > 0) /\ UNCHANGED numAtSurface
  /\ UNCHANGED <<prepareToStop, OCR_started, ocr, atSurface, misled>>

(* CMD_DAQ_Stop ends any acquisition, and with a profile or a stream the   *)
(* OCR.                                                                    *)
Stop ==
  /\ turn = "receive" /\ turn' = "decide"
  /\ DAQ_state # "Idle"
  /\ prepareToStop' = TRUE
  /\ IF DAQ_state \in {"FloatProfile", "StreamLMD", "StreamLandD"}
     THEN ocr' = FALSE /\ misled' = (misled \/ OCR_started)
     ELSE UNCHANGED <<ocr, misled>>
  /\ UNCHANGED <<DAQ_state, PRF_action, nextPoint, OCR_started, DAQ_Phase, command,
                 exposure, counts, spectra, atSurface, surface>>

\* mutant of ProfilingEnd: it stops the OCR, and OCR_started stays
ProfilingEndStopsOCR ==
  /\ turn = "receive" /\ turn' = "decide"
  /\ DAQ_state = "FloatProfile"
  /\ prepareToStop' = TRUE /\ ocr' = FALSE
  /\ UNCHANGED <<DAQ_state, PRF_action, nextPoint, OCR_started, DAQ_Phase,
                 command, exposure, counts, spectra, atSurface, surface, misled>>

(* CMD_DAQ_Profiling_End ends a profile and leaves the OCR running. *)
ProfilingEnd ==
  /\ turn = "receive" /\ turn' = "decide"
  /\ DAQ_state = "FloatProfile"
  /\ prepareToStop' = TRUE
  /\ UNCHANGED <<DAQ_state, PRF_action, nextPoint, OCR_started, ocr, DAQ_Phase,
                 command, exposure, counts, spectra, atSurface, surface, misled>>

----------------------------------------------------------------------------
(* The end of an acquisition, and the decision to measure *)

\* mutant of MayStop: one spectrometer is forgotten
MayStopOne == prepareToStop /\ DAQ_Phase["port"] = "Idle"

MayStop == prepareToStop /\ Resting

(* Power off; the profile manager is told that the frames will come. *)
StopAcquisition ==
  /\ turn = "decide" /\ turn' = "receive"
  /\ MayStop
  /\ DAQ_state' = "Idle" /\ prepareToStop' = FALSE
  /\ UNCHANGED <<PRF_action, nextPoint, OCR_started, ocr, DAQ_Phase, command,
                 exposure, counts, spectra, atSurface, surface, misled>>

MayMeasure ==
  /\ DAQ_state = "FloatProfile" /\ Resting
  /\ PRF_action \notin {"Continuous", "Complete"}

(* Behind the last point the array holds zeros. *)
Point(i) == IF i < Len(Points) THEN Points[i + 1] ELSE 0

measureNow(current) ==
  IF current < Points[Len(Points)] THEN "Continuous"
  ELSE IF current <= Point(nextPoint) THEN "Single" ELSE "Delay"

NextTurn == turn' = IF DAQ_state = "Idle" THEN "receive" ELSE "port"

(* The pressure decides; one that cannot be read is 0. *)
Measure(current) ==
  /\ turn = "decide" /\ NextTurn
  /\ ~MayStop /\ MayMeasure
  /\ PRF_action' = measureNow(current)
  /\ nextPoint' = IF PRF_action' = "Single" THEN nextPoint + 1 ELSE nextPoint
  /\ IF PRF_action' \in {"Single", "Continuous"}
     THEN DAQ_Phase' = [s \in Side |-> BeginPhase(s)]
     ELSE UNCHANGED DAQ_Phase
  /\ IF PRF_action' = "Continuous" /\ ~OCR_started /\ Installed # {}
     THEN OCR_started' = TRUE /\ ocr' = TRUE
     ELSE UNCHANGED <<OCR_started, ocr>>
  /\ UNCHANGED <<DAQ_state, prepareToStop, command, exposure, counts, spectra,
                 atSurface, surface, misled>>

NothingToDecide ==
  /\ turn = "decide" /\ NextTurn
  /\ ~MayStop /\ ~MayMeasure
  /\ UNCHANGED <<control, DAQ_Phase, command, exposure, counts, spectra,
                 atSurface, surface, misled>>

----------------------------------------------------------------------------
(* The step of a spectrometer *)

AtTurn(s, phase) ==
  /\ turn = s /\ DAQ_Phase[s] = phase
  /\ turn' = IF s = "port" THEN "starboard" ELSE "receive"

To(s, phase) == DAQ_Phase' = [DAQ_Phase EXCEPT ![s] = phase]

StayIdle(s) ==
  /\ AtTurn(s, "Idle")
  /\ UNCHANGED <<control, DAQ_Phase, command, exposure, counts, spectra,
                 atSurface, surface, misled>>

CloseShutter(s) ==
  /\ AtTurn(s, "CloseShutter") /\ To(s, "StartDark")
  /\ closed' = [closed EXCEPT ![s] = TRUE]
  /\ UNCHANGED <<control, command, exposure, counts, dark, atSurface,
                 surface, misled>>

OpenShutter(s) ==
  /\ AtTurn(s, "OpenShutter") /\ To(s, "StartLight")
  /\ closed' = [closed EXCEPT ![s] = FALSE]
  /\ UNCHANGED <<control, command, exposure, counts, dark, atSurface,
                 surface, misled>>

(* CGS_StartSampling succeeds, or fails and ends the acquisition. *)
StartSampling(s) ==
  /\ \/ AtTurn(s, "StartDark") /\ To(s, "GetDark")
     \/ AtTurn(s, "StartLight") /\ To(s, "GetLight")
  /\ UNCHANGED <<control, command, exposure, counts, spectra, atSurface, surface,
                 misled>>

\* mutant of SamplingFails: the phase stays
SamplingFailsAgain(s) ==
  /\ \/ AtTurn(s, "StartDark")
     \/ AtTurn(s, "StartLight")
  /\ prepareToStop' = TRUE
  /\ UNCHANGED <<DAQ_state, PRF_action, nextPoint, OCR_started, ocr, DAQ_Phase,
                 command, exposure, counts, spectra, atSurface, surface, misled>>

SamplingFails(s) ==
  /\ \/ AtTurn(s, "StartDark")
     \/ AtTurn(s, "StartLight")
  /\ To(s, "Idle") /\ prepareToStop' = TRUE
  /\ UNCHANGED <<DAQ_state, PRF_action, nextPoint, OCR_started, ocr, command,
                 exposure, counts, spectra, atSurface, surface, misled>>

(* The FIFO holds no spectrum yet.  There is no time-out. *)
Wait(s) ==
  /\ AtTurn(s, "GetDark") \/ AtTurn(s, "GetLight")
  /\ UNCHANGED <<control, DAQ_Phase, command, exposure, counts, spectra,
                 atSurface, surface, misled>>

PhaseAfterDark ==
  CASE DAQ_state \in {"StreamLandD", "Calibrate", "DarkCharacterize"} -> "TransferD"
    [] DAQ_state \in {"FloatProfile", "StreamLMD"} -> "OpenShutter"
    [] OTHER -> "Idle"

GetDark(s) ==
  /\ AtTurn(s, "GetDark") /\ To(s, PhaseAfterDark)
  /\ dark' = [dark EXCEPT ![s] = IF closed[s] THEN time[s] ELSE 0]
  /\ IF DAQ_state = "DarkCharacterize"
     THEN darks' = [darks EXCEPT ![s] = (@ + 1) % runLength] /\ UNCHANGED lights
     ELSE lights' = [lights EXCEPT ![s] = 0] /\ UNCHANGED darks
  /\ UNCHANGED <<control, command, exposure, closed, atSurface, surface,
                 misled>>

PhaseAfterLight ==
  CASE DAQ_state \in {"StreamLandD", "Calibrate"} -> "TransferL"
    [] DAQ_state \in {"FloatProfile", "StreamLMD"} -> "TransferLMD"
    [] OTHER -> "Idle"

(* A saturated spectrum asks for a shorter integration time, a faint one   *)
(* for a longer one.                                                       *)
Adapted(s) ==
  IF fixed # 0 THEN {nextIndex[s]}
  ELSE {nextIndex[s]} \union ({index[s] - 1, index[s] + 1} \intersect 1 .. Times)

(* With the light spectrum comes the pressure that both frames will carry: *)
(* just measured, the last one, or a code below 0 (here 0) for a failure.  *)
GetLight(s) ==
  /\ AtTurn(s, "GetLight") /\ To(s, PhaseAfterLight)
  /\ lights' = [lights EXCEPT ![s] = @ + 1]
  /\ \E i \in Adapted(s) : nextIndex' = [nextIndex EXCEPT ![s] = i]
  /\ \E p \in Pressures : atSurface' = (p <= Surface)
  /\ UNCHANGED <<control, command, index, time, darks, spectra, surface, misled>>

----------------------------------------------------------------------------
(* The transfer of a frame, and what follows it *)

AtTransfer(s) == \E phase \in Transfers : AtTurn(s, phase)

TransferStopping(s) ==
  /\ AtTransfer(s) /\ prepareToStop
  /\ To(s, "Idle")
  /\ UNCHANGED <<control, command, exposure, counts, spectra, atSurface, surface,
                 misled>>

Expose(s, i) ==
  /\ index' = [index EXCEPT ![s] = i]
  /\ time' = [time EXCEPT ![s] = i]

(* Dark characterization: the next dark spectrum, after enough of them     *)
(* with the next integration time.                                         *)
TransferDark(s) ==
  /\ AtTransfer(s) /\ ~prepareToStop /\ DAQ_state = "DarkCharacterize"
  /\ To(s, "StartDark")
  /\ IF fixed = 0 /\ darks[s] = 0
     THEN Expose(s, IF index[s] = Times THEN 1 ELSE index[s] + 1)
     ELSE UNCHANGED <<index, time>>
  /\ UNCHANGED <<control, command, nextIndex, counts, spectra, atSurface, surface,
                 misled>>

\* mutant of DarkDue: one light spectrum too many
DarkDueLate(s) ==
  \/ lights[s] > runLength
  \/ fixed = 0 /\ nextIndex[s] # index[s]

DarkDue(s) ==
  \/ lights[s] = runLength
  \/ fixed = 0 /\ nextIndex[s] # index[s]

\* mutant of PhaseAfterFrame: a new integration time, and the old dark spectrum
PhaseAfterFrameByCount(s) ==
  IF lights[s] = runLength THEN "CloseShutter"
  ELSE IF closed[s] THEN "OpenShutter" ELSE "StartLight"

PhaseAfterFrame(s) ==
  IF DarkDue(s) THEN "CloseShutter"
  ELSE IF closed[s] THEN "OpenShutter" ELSE "StartLight"

TakeNextIndex(s) ==
  IF fixed = 0 THEN Expose(s, nextIndex[s]) ELSE UNCHANGED <<index, time>>

TransferStream(s) ==
  /\ AtTransfer(s) /\ ~prepareToStop /\ DAQ_state \in Stream
  /\ To(s, PhaseAfterFrame(s))
  /\ IF DarkDue(s) THEN TakeNextIndex(s) ELSE UNCHANGED <<index, time>>
  /\ UNCHANGED <<control, command, nextIndex, counts, spectra, atSurface, surface,
                 misled>>

(* The frame of a single measurement. *)
TransferSingle(s) ==
  /\ AtTransfer(s) /\ ~prepareToStop
  /\ DAQ_state = "FloatProfile" /\ PRF_action = "Single"
  /\ To(s, "Idle")
  /\ TakeNextIndex(s)
  /\ PRF_action' = IF DAQ_Phase[Other(s)] = "Idle" THEN "Delay" ELSE "Single"
  /\ UNCHANGED <<DAQ_state, prepareToStop, nextPoint, OCR_started, ocr, command,
                 nextIndex, counts, spectra, atSurface, surface, misled>>

InUpper(s) ==
  /\ AtTransfer(s) /\ ~prepareToStop
  /\ DAQ_state = "FloatProfile" /\ PRF_action = "Continuous"
  /\ IF DarkDue(s) THEN TakeNextIndex(s) ELSE UNCHANGED <<index, time>>

Counted ==
  IF surfaced < SurfaceLimit /\ ~carried THEN surfaced + 1 ELSE surfaced

\* mutant of TransferContinuous: every frame counts
TransferContinuousCounts(s) ==
  /\ InUpper(s)
  /\ ~atSurface \/ numAtSurface < SurfaceLimit
  /\ To(s, PhaseAfterFrame(s))
  /\ numAtSurface' = IF numAtSurface < SurfaceLimit THEN numAtSurface + 1
                     ELSE numAtSurface
  /\ surfaced' = IF atSurface THEN Counted ELSE surfaced
  /\ UNCHANGED <<control, command, nextIndex, counts, spectra, atSurface, carried,
                 misled>>

(* A frame of the upper part of the profile; one at the surface counts. *)
TransferContinuous(s) ==
  /\ InUpper(s)
  /\ ~atSurface \/ numAtSurface < SurfaceLimit
  /\ To(s, PhaseAfterFrame(s))
  /\ IF atSurface
     THEN /\ numAtSurface' = numAtSurface + 1
          /\ surfaced' = Counted
     ELSE UNCHANGED <<numAtSurface, surfaced>>
  /\ UNCHANGED <<control, command, nextIndex, counts, spectra, atSurface, carried,
                 misled>>

(* Enough frames at the surface: this spectrometer rests, and when the     *)
(* other one does so too, the profile is complete.                         *)
TransferSurfaced(s) ==
  /\ InUpper(s)
  /\ atSurface /\ numAtSurface >= SurfaceLimit
  /\ To(s, "Idle")
  /\ DAQ_Phase[Other(s)] # "Idle"
  /\ UNCHANGED <<control, command, nextIndex, counts, spectra, atSurface, surface,
                 misled>>

\* mutant of TransferLast: nobody is told to stop
TransferLastQuietly(s) ==
  /\ InUpper(s)
  /\ atSurface /\ numAtSurface >= SurfaceLimit
  /\ To(s, "Idle")
  /\ DAQ_Phase[Other(s)] = "Idle"
  /\ PRF_action' = "Complete"
  /\ numAtSurface' = 0
  /\ OCR_started' = FALSE /\ ocr' = (ocr /\ ~OCR_started) /\ misled' = FALSE
  /\ UNCHANGED <<DAQ_state, prepareToStop, nextPoint, command, nextIndex, counts,
                 spectra, atSurface, surfaced, carried>>

TransferLast(s) ==
  /\ InUpper(s)
  /\ atSurface /\ numAtSurface >= SurfaceLimit
  /\ To(s, "Idle")
  /\ DAQ_Phase[Other(s)] = "Idle"
  /\ PRF_action' = "Complete" /\ prepareToStop' = TRUE
  /\ numAtSurface' = 0
  /\ OCR_started' = FALSE /\ ocr' = (ocr /\ ~OCR_started) /\ misled' = FALSE
  /\ UNCHANGED <<DAQ_state, nextPoint, command, nextIndex, counts, spectra,
                 atSurface, surfaced, carried>>

----------------------------------------------------------------------------

Receive ==
  \/ NoCommand \/ Stop \/ ProfilingEnd
  \/ \E m \in setup.modes, f \in FixedTimes, n \in setup.runLengths : Start(m, f, n)
  \/ \E n \in setup.runLengths : Profiling(n)

Decide ==
  \/ StopAcquisition
  \/ \E p \in Pressures : Measure(p)
  \/ NothingToDecide

Transfer(s) ==
  \/ TransferStopping(s)
  \/ TransferDark(s) \/ TransferStream(s) \/ TransferSingle(s)
  \/ TransferContinuous(s) \/ TransferSurfaced(s) \/ TransferLast(s)

Step(s) ==
  \/ StayIdle(s) \/ CloseShutter(s) \/ OpenShutter(s)
  \/ StartSampling(s) \/ SamplingFails(s)
  \/ Wait(s) \/ GetDark(s) \/ GetLight(s)
  \/ Transfer(s)

Next ==
  /\ Receive \/ Decide \/ \E s \in Side : Step(s)
  /\ UNCHANGED setup

Get(s) == (GetDark(s) \/ GetLight(s)) /\ UNCHANGED setup

(* The loop goes on, and a spectrometer whose sampling has been started    *)
(* puts a spectrum into its FIFO sooner or later.                          *)
Fairness ==
  /\ WF_vars(Next)
  /\ \A s \in Side : SF_vars(Get(s))

Spec == Init /\ [][Next]_vars
FairSpec == Spec /\ Fairness

----------------------------------------------------------------------------
(* Properties *)

TypeOK ==
  /\ setup \in Setups
  /\ turn \in {"receive", "decide"} \union Side
  /\ DAQ_state \in Stream \union {"Idle", "FloatProfile", "DarkCharacterize"}
  /\ DAQ_Phase \in [Side -> Phases]
  /\ prepareToStop \in BOOLEAN /\ OCR_started \in BOOLEAN /\ ocr \in BOOLEAN
  /\ PRF_action \in {"Complete", "Continuous", "Single", "Delay"}
  /\ nextPoint \in 0 .. Len(Points)
  /\ fixed \in 0 .. Times /\ runLength \in Nat \ {0}
  /\ index \in [Side -> 1 .. Times] /\ nextIndex \in [Side -> 1 .. Times]
  /\ time \in [Side -> 0 .. Times]
  /\ darks \in [Side -> Nat] /\ lights \in [Side -> Nat]
  /\ closed \in [Side -> BOOLEAN]
  /\ dark \in [Side -> 0 .. Times]
  /\ atSurface \in BOOLEAN /\ numAtSurface \in 0 .. SurfaceLimit
  /\ surfaced \in 0 .. SurfaceLimit /\ carried \in BOOLEAN /\ misled \in BOOLEAN

(* The branches that the code marks "Cannot happen" and "Impossible" are   *)
(* never taken: no spectrometer is at work without an acquisition, none    *)
(* has its shutter opened during a dark characterization, and during a     *)
(* profile none is at work but for a single or a continuous measurement.   *)
CannotHappen ==
  \A s \in Side : DAQ_Phase[s] # "Idle" =>
    /\ DAQ_state # "Idle"
    /\ DAQ_state = "DarkCharacterize" => DAQ_Phase[s] \notin LightPhases
    /\ DAQ_state = "FloatProfile" => PRF_action \in {"Single", "Continuous"}

(* What a frame says of itself is true: the light spectrum was taken with  *)
(* the shutter open, the dark one that is subtracted or sent with the      *)
(* shutter closed, both in this acquisition and with the integration time  *)
(* that the frame reports, whatever changes of the integration time,       *)
(* failures and commands came in between.                                  *)
SpectraMatch ==
  \A s \in Side :
    /\ DAQ_Phase[s] \in {"TransferD", "TransferLMD"} => dark[s] = time[s] /\ time[s] # 0
    /\ DAQ_Phase[s] \in {"GetLight", "TransferL", "TransferLMD"} => ~closed[s]
    /\ DAQ_Phase[s] \in {"StartDark", "GetDark"} => closed[s]

(* No more light spectra follow a dark one than the command has ordered,   *)
(* although the count is compared for equality only.                       *)
DarkIsRecent ==
  \A s \in Side : DAQ_Phase[s] \in {"TransferL", "TransferLMD"} =>
    lights[s] \in 1 .. runLength

(* A profile that ends by itself has given the ordered number of frames at *)
(* the surface, by both spectrometers together, unless the count was left  *)
(* over from an earlier profile that was ended by order.                   *)
EnoughAtSurface ==
  DAQ_state = "FloatProfile" /\ PRF_action = "Complete" /\ ~carried =>
    surfaced = SurfaceLimit

(* While the spectra of the upper part are taken, the OCR is running,      *)
(* through all earlier profiles and streams and the ways they ended,       *)
(* unless a CMD_DAQ_Stop has bypassed OCR_started.                         *)
OcrRuns ==
  DAQ_state = "FloatProfile" /\ PRF_action = "Continuous" /\ ~Resting =>
    ocr \/ misled

(* When a stop has been decided, by a command, by the surface or by a      *)
(* failure, no spectrometer that rests is set to work again before the     *)
(* acquisition has ended.                                                  *)
NothingStartsWhileStopping ==
  [][prepareToStop => \A s \in Side : DAQ_Phase[s] = "Idle" => DAQ_Phase'[s] = "Idle"]_vars

(* A stop is carried out: each spectrometer comes to rest with its next    *)
(* transfer, and the task with both.                                       *)
StopCompletes == prepareToStop ~> DAQ_state = "Idle"

(* A float that stays at the surface ends its profile.                     *)
SurfaceEnds ==
  DAQ_state = "FloatProfile" /\ PRF_action = "Continuous" ~>
    DAQ_state = "Idle" \/ ~atSurface

=============================================================================

--------------------------- MODULE AcquisitionProofs ---------------------------
(***************************************************************************)
(* Safety of the data acquisition task, for every instrument, number of    *)
(* integration times, profile and limit at the surface.                    *)
(***************************************************************************)
EXTENDS Acquisition, TLAPS

----------------------------------------------------------------------------
(* The inductive invariant *)

(* What a stop, the phases and the OCR have to do with the state of the    *)
(* acquisition.                                                            *)
Ordered ==
  /\ prepareToStop => DAQ_state # "Idle"
  /\ \A s \in Side : DAQ_Phase[s] # "Idle" => s \in Installed
  /\ OCR_started => ocr \/ misled
  /\ DAQ_state = "FloatProfile" /\ PRF_action = "Continuous" /\ Installed # {} =>
       OCR_started

(* What is known of the shutter and the spectra in each phase. *)
Exposed ==
  \A s \in Side :
    /\ DAQ_state # "Idle" => time[s] # 0
    /\ DAQ_Phase[s] \in {"StartDark", "GetDark", "TransferD"} => closed[s] = TRUE
    /\ DAQ_Phase[s] \in {"StartLight", "GetLight", "TransferL", "TransferLMD"} =>
         closed[s] = FALSE
    /\ DAQ_Phase[s] \in LightPhases \union {"TransferD"} => dark[s] = time[s]

(* How many light spectra have followed the dark one. *)
CountedLights ==
  \A s \in Side :
    /\ DAQ_Phase[s] \in {"OpenShutter", "StartLight", "GetLight"} =>
         lights[s] < runLength
    /\ DAQ_Phase[s] = "TransferD" /\ DAQ_state # "DarkCharacterize" => lights[s] = 0
    /\ DAQ_Phase[s] \in {"TransferL", "TransferLMD"} => lights[s] \in 1 .. runLength

(* A count that began at 0 is that of this profile. *)
CountedAtSurface ==
  DAQ_state = "FloatProfile" /\ ~carried =>
    IF PRF_action = "Complete" THEN surfaced = SurfaceLimit ELSE numAtSurface = surfaced

IInv ==
  /\ TypeOK /\ CannotHappen /\ Ordered /\ Exposed /\ CountedLights
  /\ CountedAtSurface

----------------------------------------------------------------------------
LEMMA SetupTypes ==
  ASSUME setup \in Setups
  PROVE  /\ Installed \subseteq Side
         /\ setup.modes \subseteq Stream \union {"DarkCharacterize"}
         /\ setup.runLengths \subseteq Nat \ {0}
BY SetupAssumption DEF Installed

(* After the last point only shallower readings are possible, and those    *)
(* are measured continuously.                                              *)
LEMMA PointInRange ==
  ASSUME NEW p \in Nat, nextPoint \in 0 .. Len(Points), measureNow(p) = "Single"
  PROVE  nextPoint + 1 \in 0 .. Len(Points)
<1>1. Len(Points) \in Nat /\ Len(Points) > 0 /\ Points[Len(Points)] \in Nat \ {0}
  BY PointsAssumption
<1>2. p >= Points[Len(Points)] /\ p <= Point(nextPoint)  BY <1>1 DEF measureNow
<1>3. nextPoint # Len(Points)  BY <1>1, <1>2 DEF Point
<1> QED  BY <1>1, <1>3

LEMMA PhaseTypes ==
  /\ PhaseAfterDark \in {"TransferD", "OpenShutter", "Idle"}
  /\ PhaseAfterLight \in {"TransferL", "TransferLMD", "Idle"}
  /\ \A s \in Side :
       /\ BeginPhase(s) \in {"CloseShutter", "Idle"}
       /\ PhaseAfterFrame(s) \in {"CloseShutter", "OpenShutter", "StartLight"}
       /\ DarkDue(s) => PhaseAfterFrame(s) = "CloseShutter"
BY DEF PhaseAfterDark, PhaseAfterLight, BeginPhase, PhaseAfterFrame

LEMMA AdaptedTypes ==
  ASSUME TypeOK, NEW s \in Side
  PROVE  Adapted(s) \subseteq 1 .. Times
BY DEF TypeOK, Adapted, Side

LEMMA StartTypes == \A m : StartIndex(m) \in 1 .. Times
<1>1. Times \div 2 \in Nat /\ Times \div 2 >= 1 /\ Times \div 2 <= Times  BY TimesAssumption
<1> QED  BY <1>1, TimesAssumption DEF StartIndex

LEMMA ModTypes == \A a \in Nat, n \in Nat \ {0} : a % n \in Nat
OBVIOUS

LEMMA ExposeTypes ==
  ASSUME TypeOK, NEW s \in Side, TakeNextIndex(s) \/ UNCHANGED <<index, time>>
  PROVE  index' \in [Side -> 1 .. Times] /\ time' \in [Side -> 0 .. Times]
<1>1. CASE UNCHANGED <<index, time>>  BY <1>1 DEF TypeOK
<1>2. CASE TakeNextIndex(s) /\ fixed = 0
  <2>1. nextIndex[s] \in 1 .. Times /\ nextIndex[s] \in 0 .. Times
    BY TimesAssumption DEF TypeOK
  <2>2. index' = [index EXCEPT ![s] = nextIndex[s]] /\ time' = [time EXCEPT ![s] = nextIndex[s]]
    BY <1>2 DEF TakeNextIndex, Expose
  <2> QED  BY <2>1, <2>2 DEF TypeOK
<1> QED  BY <1>1, <1>2 DEF TakeNextIndex

(* When no dark spectrum is due, fewer light spectra than ordered have     *)
(* followed the last one.                                                  *)
LEMMA FrameCounted ==
  ASSUME IInv, NEW s \in Side, DAQ_Phase[s] \in Transfers, DAQ_state # "DarkCharacterize"
  PROVE  \/ PhaseAfterFrame(s) = "CloseShutter"
         \/ PhaseAfterFrame(s) \in {"OpenShutter", "StartLight"} /\ lights[s] < runLength
<1>1. lights[s] \in 0 .. runLength /\ runLength \in Nat \ {0}
  BY DEF IInv, CountedLights, TypeOK, Transfers
<1>2. ~DarkDue(s) => lights[s] < runLength
  BY <1>1 DEF DarkDue
<1>3. CASE DarkDue(s)  BY <1>3 DEF PhaseAfterFrame
<1>4. CASE ~DarkDue(s)  BY <1>2, <1>4, PhaseTypes
<1> QED  BY <1>3, <1>4

(* The variables that a step leaves alone keep their types; the next       *)
(* lemmas say so of each group of them.                                    *)
ControlTypes ==
  /\ DAQ_state \in Stream \union {"Idle", "FloatProfile", "DarkCharacterize"}
  /\ prepareToStop \in BOOLEAN /\ OCR_started \in BOOLEAN /\ ocr \in BOOLEAN
  /\ PRF_action \in {"Complete", "Continuous", "Single", "Delay"}
  /\ nextPoint \in 0 .. Len(Points)
CommandTypes == fixed \in 0 .. Times /\ runLength \in Nat \ {0}
ExposureTypes ==
  /\ index \in [Side -> 1 .. Times] /\ nextIndex \in [Side -> 1 .. Times]
  /\ time \in [Side -> 0 .. Times]
CountTypes == darks \in [Side -> Nat] /\ lights \in [Side -> Nat]
SpectraTypes == closed \in [Side -> BOOLEAN] /\ dark \in [Side -> 0 .. Times]
SurfaceTypes ==
  /\ numAtSurface \in 0 .. SurfaceLimit
  /\ surfaced \in 0 .. SurfaceLimit /\ carried \in BOOLEAN

Parts ==
  /\ setup \in Setups
  /\ turn \in {"receive", "decide"} \union Side
  /\ DAQ_Phase \in [Side -> Phases]
  /\ atSurface \in BOOLEAN /\ misled \in BOOLEAN
  /\ ControlTypes /\ CommandTypes /\ ExposureTypes /\ CountTypes /\ SpectraTypes
  /\ SurfaceTypes

LEMMA InParts == ASSUME TypeOK PROVE Parts
BY DEF TypeOK, Parts, ControlTypes, CommandTypes, ExposureTypes, CountTypes, SpectraTypes,
  SurfaceTypes

LEMMA OfParts == ASSUME Parts' PROVE TypeOK'
BY DEF TypeOK, Parts, ControlTypes, CommandTypes, ExposureTypes, CountTypes, SpectraTypes,
  SurfaceTypes

LEMMA PartsKept ==
  ASSUME Parts
  PROVE  /\ UNCHANGED control => ControlTypes'
         /\ UNCHANGED command => CommandTypes'
         /\ UNCHANGED exposure => ExposureTypes'
         /\ UNCHANGED counts => CountTypes'
         /\ UNCHANGED spectra => SpectraTypes'
         /\ UNCHANGED surface => SurfaceTypes'
<1>1. UNCHANGED control => ControlTypes'  BY DEF Parts, control, ControlTypes
<1>2. UNCHANGED command => CommandTypes'  BY DEF Parts, command, CommandTypes
<1>3. UNCHANGED exposure => ExposureTypes'  BY DEF Parts, exposure, ExposureTypes
<1>4. UNCHANGED counts => CountTypes'  BY DEF Parts, counts, CountTypes
<1>5. UNCHANGED spectra => SpectraTypes'  BY DEF Parts, spectra, SpectraTypes
<1>6. UNCHANGED surface => SurfaceTypes'  BY DEF Parts, surface, SurfaceTypes
<1> QED  BY <1>1, <1>2, <1>3, <1>4, <1>5, <1>6

(* A spectrometer at rest stays so, and its turn is passed on. *)
LEMMA StepsMove ==
  ASSUME TypeOK, NEW s \in Side, Step(s)
  PROVE  /\ \A t \in Side : DAQ_Phase'[t] # "Idle" => DAQ_Phase[t] # "Idle"
         /\ turn' \in {"receive"} \union Side
<1>1. CASE StayIdle(s) \/ Wait(s)
  BY <1>1 DEF StayIdle, Wait, AtTurn, Side
<1>2. CASE ~(StayIdle(s) \/ Wait(s))
  <2>1. \E phase \in Phases \ {"Idle"} : AtTurn(s, phase)
    <3>1. CASE Transfer(s)
      BY <3>1 DEF Transfer, TransferStopping, TransferDark, TransferStream, TransferSingle,
        TransferContinuous, TransferSurfaced, TransferLast, InUpper, AtTransfer, Transfers, Phases
    <3> QED
      BY <1>2, <3>1 DEF Step, CloseShutter, OpenShutter, StartSampling, SamplingFails, GetDark,
        GetLight, Phases
  <2>2. \E phase : To(s, phase)
    <3>1. CASE Transfer(s)
      BY <3>1 DEF Transfer, TransferStopping, TransferDark, TransferStream, TransferSingle,
        TransferContinuous, TransferSurfaced, TransferLast
    <3> QED
      BY <1>2, <3>1 DEF Step, CloseShutter, OpenShutter, StartSampling, SamplingFails, GetDark,
        GetLight
  <2>3. DAQ_Phase[s] # "Idle" /\ turn' \in {"receive"} \union Side
    BY <2>1 DEF AtTurn, Side
  <2> QED  BY <2>2, <2>3 DEF To, TypeOK
<1> QED  BY <1>1, <1>2

----------------------------------------------------------------------------
(* Every action keeps every part of the invariant *)

(* Types.  The parts that take thought are named first. *)
LEMMA TypesKept ==
  ASSUME IInv, Next
  PROVE  TypeOK'
<1> UNCHANGED setup  BY DEF Next
<1> TypeOK /\ Parts  BY InParts DEF IInv
<1>1. ASSUME NoCommand \/ Stop \/ ProfilingEnd
      PROVE  TypeOK'
  <2>1. CASE NoCommand
    BY <2>1
    DEF NoCommand, Transfers, TypeOK, control, command, exposure, counts, spectra, surface
  <2>2. CASE Stop
    BY <2>2
    DEF Stop, Transfers, TypeOK, control, command, exposure, counts, spectra, surface
  <2>3. CASE ProfilingEnd
    BY <2>3
    DEF ProfilingEnd, Transfers, TypeOK, control, command, exposure, counts, spectra, surface
  <2> QED  BY <1>1, <2>1, <2>2, <2>3
<1>2. ASSUME NEW m \in setup.modes, NEW f \in FixedTimes, NEW n \in setup.runLengths, Start(m, f, n)
      PROVE  TypeOK'
  <2>1. DAQ_state' \in Stream \union {"DarkCharacterize"} /\ runLength' \in Nat \ {0}
    BY <1>2, SetupTypes DEF TypeOK, Start
  <2>2. DAQ_Phase' \in [Side -> Phases]
    BY <1>2, PhaseTypes DEF TypeOK, Start, Phases
  <2>3. /\ fixed' \in 0 .. Times /\ index' \in [Side -> 1 .. Times]
        /\ nextIndex' \in [Side -> 1 .. Times] /\ time' \in [Side -> 0 .. Times]
    BY <1>2, StartTypes, CommandAssumption, TimesAssumption DEF TypeOK, Start, All
  <2>4. /\ darks' \in [Side -> Nat] /\ lights' \in [Side -> Nat]
        /\ closed' \in [Side -> BOOLEAN] /\ dark' \in [Side -> 0 .. Times]
    BY <1>2, TimesAssumption DEF TypeOK, Start, All, Prepare
  <2>5. ocr' \in BOOLEAN
    BY <1>2 DEF Start
  <2> QED  BY <1>2, <2>1, <2>2, <2>3, <2>4, <2>5 DEF TypeOK, Start, surface
<1>3. ASSUME NEW n \in setup.runLengths, Profiling(n)
      PROVE  TypeOK'
  <2>1. runLength' \in Nat \ {0} /\ fixed' \in 0 .. Times
    BY <1>3, SetupTypes, TimesAssumption DEF TypeOK, Profiling
  <2>2. DAQ_Phase' \in [Side -> Phases]
    BY <1>3 DEF Profiling, All, Phases
  <2>3. /\ index' \in [Side -> 1 .. Times] /\ nextIndex' \in [Side -> 1 .. Times]
        /\ time' \in [Side -> 0 .. Times]
    BY <1>3, TimesAssumption DEF Profiling, All
  <2>4. /\ darks' \in [Side -> Nat] /\ lights' \in [Side -> Nat]
        /\ closed' \in [Side -> BOOLEAN] /\ dark' \in [Side -> 0 .. Times]
    BY <1>3, TimesAssumption DEF TypeOK, Profiling, All, Prepare
  <2>5. /\ nextPoint' \in 0 .. Len(Points) /\ surfaced' \in 0 .. SurfaceLimit
        /\ carried' \in BOOLEAN
    BY <1>3, PointsAssumption, SurfaceAssumption DEF Profiling
  <2> QED  BY <1>3, <2>1, <2>2, <2>3, <2>4, <2>5 DEF TypeOK, Profiling
<1>4. ASSUME StopAcquisition \/ NothingToDecide
      PROVE  TypeOK'
  <2>1. CASE StopAcquisition
    BY <2>1
    DEF StopAcquisition, MayStop, Resting, Transfers, TypeOK, control, command, exposure,
        counts, spectra, surface
  <2>2. CASE NothingToDecide
    BY <2>2
    DEF NothingToDecide, NextTurn, Transfers, TypeOK, Side, control, command, exposure, counts,
        spectra, surface
  <2> QED  BY <1>4, <2>1, <2>2
<1>5. ASSUME NEW p \in Pressures, Measure(p)
      PROVE  TypeOK'
  <2>1. PRF_action' \in {"Continuous", "Single", "Delay"}
    BY <1>5 DEF Measure, measureNow
  <2>2. nextPoint' \in 0 .. Len(Points)
    BY <1>5, PointInRange, PressuresAssumption DEF TypeOK, Measure
  <2>3. DAQ_Phase' \in [Side -> Phases]
    BY <1>5, PhaseTypes DEF TypeOK, Measure, Phases
  <2>4. turn' \in {"receive", "port"}
    BY <1>5 DEF Measure, NextTurn
  <2>5. OCR_started' \in BOOLEAN /\ ocr' \in BOOLEAN
    BY <1>5 DEF TypeOK, Measure
  <2> QED
    BY <1>5, <2>1, <2>2, <2>3, <2>4, <2>5
    DEF TypeOK, Measure, Side, command, exposure, counts, spectra, surface
<1>6. ASSUME NEW s \in Side, StayIdle(s) \/ Wait(s)
      PROVE  TypeOK'
  <2>1. CASE StayIdle(s)
    BY <2>1
    DEF StayIdle, AtTurn, Transfers, TypeOK, Side, control, command, exposure, counts, spectra,
        surface
  <2>2. CASE Wait(s)
    BY <2>2
    DEF Wait, AtTurn, Transfers, TypeOK, Side, control, command, exposure, counts, spectra,
        surface
  <2> QED  BY <1>6, <2>1, <2>2
<1>7. ASSUME NEW s \in Side, CloseShutter(s) \/ OpenShutter(s)
      PROVE  TypeOK'
  <2>1. DAQ_Phase' \in [Side -> Phases]
    BY <1>7 DEF TypeOK, CloseShutter, OpenShutter, To, Phases
  <2>2. closed' \in [Side -> BOOLEAN]
    BY <1>7 DEF TypeOK, CloseShutter, OpenShutter
  <2>3. UNCHANGED <<control, command, exposure, counts, dark, atSurface, surface, misled>>
    BY <1>7 DEF CloseShutter, OpenShutter
  <2>4. turn' \in {"receive"} \union Side
    BY <1>7, StepsMove DEF Step
  <2> QED
    <3>1. SpectraTypes'  BY <2>2, <2>3 DEF Parts, SpectraTypes
    <3> QED  BY <2>1, <2>3, <2>4, <3>1, PartsKept, OfParts DEF Parts
<1>8. ASSUME NEW s \in Side, StartSampling(s) \/ SamplingFails(s)
      PROVE  TypeOK'
  <2>1. DAQ_Phase' \in [Side -> Phases]
    BY <1>8 DEF TypeOK, StartSampling, SamplingFails, To, Phases
  <2>2. prepareToStop' \in BOOLEAN
    BY <1>8 DEF TypeOK, StartSampling, SamplingFails, control
  <2>3. UNCHANGED <<DAQ_state, PRF_action, nextPoint, OCR_started, ocr, command, exposure,
                    counts, spectra, atSurface, surface, misled>>
    BY <1>8 DEF StartSampling, SamplingFails, control
  <2>4. turn' \in {"receive"} \union Side
    BY <1>8, StepsMove DEF Step
  <2> QED
    <3>1. ControlTypes'  BY <2>2, <2>3 DEF Parts, ControlTypes
    <3> QED  BY <2>1, <2>3, <2>4, <3>1, PartsKept, OfParts DEF Parts
<1>9. ASSUME NEW s \in Side, GetDark(s)
      PROVE  TypeOK'
  <2>1. DAQ_Phase' \in [Side -> Phases]
    BY <1>9, PhaseTypes DEF TypeOK, GetDark, To, Phases
  <2>2. darks' \in [Side -> Nat] /\ lights' \in [Side -> Nat]
    <3>1. (darks[s] + 1) % runLength \in Nat  BY ModTypes DEF TypeOK
    <3>2. CASE DAQ_state = "DarkCharacterize"
      <4>1. darks' = [darks EXCEPT ![s] = (darks[s] + 1) % runLength] /\ lights' = lights
        BY <1>9, <3>2 DEF GetDark
      <4> QED  BY <3>1, <4>1 DEF TypeOK
    <3>3. CASE DAQ_state # "DarkCharacterize"
      <4>1. lights' = [lights EXCEPT ![s] = 0] /\ darks' = darks
        BY <1>9, <3>3 DEF GetDark
      <4> QED  BY <4>1 DEF TypeOK
    <3> QED  BY <3>2, <3>3
  <2>3. dark' \in [Side -> 0 .. Times]
    BY <1>9, TimesAssumption DEF TypeOK, GetDark
  <2>4. UNCHANGED <<control, command, exposure, surface, atSurface, misled, closed>>
    BY <1>9 DEF GetDark, surface
  <2>5. turn' \in {"receive"} \union Side
    BY <1>9, StepsMove DEF Step
  <2> QED
    <3>1. CountTypes'  BY <2>2 DEF CountTypes
    <3>2. SpectraTypes'  BY <2>3, <2>4 DEF Parts, SpectraTypes
    <3> QED  BY <2>1, <2>4, <2>5, <3>1, <3>2, PartsKept, OfParts DEF Parts
<1>10. ASSUME NEW s \in Side, GetLight(s)
      PROVE  TypeOK'
  <2>1. DAQ_Phase' \in [Side -> Phases]
    BY <1>10, PhaseTypes DEF TypeOK, GetLight, To, Phases
  <2>2. lights' \in [Side -> Nat]
    BY <1>10 DEF TypeOK, GetLight
  <2>3. nextIndex' \in [Side -> 1 .. Times]
    BY <1>10, AdaptedTypes DEF TypeOK, GetLight
  <2>4. atSurface' \in BOOLEAN
    BY <1>10 DEF GetLight
  <2>5. turn' \in {"receive"} \union Side
    BY <1>10, StepsMove DEF Step
  <2>6. UNCHANGED <<control, command, index, time, darks, spectra, surface, misled>>
    BY <1>10 DEF GetLight
  <2> QED
    <3>1. CountTypes'  BY <2>2, <2>6 DEF Parts, CountTypes
    <3>2. ExposureTypes'  BY <2>3, <2>6 DEF Parts, ExposureTypes
    <3> QED  BY <2>1, <2>4, <2>5, <2>6, <3>1, <3>2, PartsKept, OfParts DEF Parts
<1>11. ASSUME NEW s \in Side, TransferStopping(s) \/ TransferSurfaced(s)
      PROVE  TypeOK'
  <2>1. DAQ_Phase' \in [Side -> Phases]
    BY <1>11 DEF TypeOK, TransferStopping, TransferSurfaced, To, Phases
  <2>2. index' \in [Side -> 1 .. Times] /\ time' \in [Side -> 0 .. Times]
    <3>1. TakeNextIndex(s) \/ UNCHANGED <<index, time>>
      BY <1>11 DEF TransferStopping, TransferSurfaced, InUpper, exposure
    <3> QED  BY <3>1, ExposeTypes
  <2>3. UNCHANGED <<control, command, nextIndex, counts, spectra, atSurface, surface, misled>>
    BY <1>11 DEF TransferStopping, TransferSurfaced, exposure
  <2>4. turn' \in {"receive"} \union Side
    BY <1>11, StepsMove DEF Step, Transfer
  <2> QED
    <3>1. ExposureTypes'  BY <2>2, <2>3 DEF Parts, ExposureTypes
    <3> QED  BY <2>1, <2>3, <2>4, <3>1, PartsKept, OfParts DEF Parts
<1>12. ASSUME NEW s \in Side, TransferDark(s)
      PROVE  TypeOK'
  <2>1. index' \in [Side -> 1 .. Times] /\ time' \in [Side -> 0 .. Times]
    <3>1. CASE UNCHANGED <<index, time>>  BY <3>1 DEF TypeOK
    <3>2. CASE ~UNCHANGED <<index, time>>
      <4>1. PICK i \in 1 .. Times : Expose(s, i)
        <5>1. (IF index[s] = Times THEN 1 ELSE index[s] + 1) \in 1 .. Times
          BY TimesAssumption DEF TypeOK
        <5> QED  BY <1>12, <3>2, <5>1 DEF TransferDark
      <4>2. i \in 0 .. Times  BY TimesAssumption
      <4> QED  BY <4>1, <4>2 DEF TypeOK, Expose
    <3> QED  BY <3>1, <3>2
  <2>2. DAQ_Phase' \in [Side -> Phases]
    BY <1>12 DEF TypeOK, TransferDark, To, Phases
  <2> QED
    BY <1>12, <2>1, <2>2
    DEF TypeOK, TransferDark, AtTransfer, AtTurn, Side, control, command, counts, spectra, surface
<1>13. ASSUME NEW s \in Side, TransferStream(s)
      PROVE  TypeOK'
  <2>1. index' \in [Side -> 1 .. Times] /\ time' \in [Side -> 0 .. Times]
    BY <1>13, ExposeTypes DEF TransferStream
  <2>2. DAQ_Phase' \in [Side -> Phases]
    BY <1>13, PhaseTypes DEF TypeOK, TransferStream, To, Phases
  <2> QED
    BY <1>13, <2>1, <2>2
    DEF TypeOK, TransferStream, AtTransfer, AtTurn, Side, control, command, counts, spectra, surface
<1>14. ASSUME NEW s \in Side, TransferSingle(s)
      PROVE  TypeOK'
  BY <1>14, ExposeTypes, TimesAssumption
  DEF TransferSingle, To, TakeNextIndex, Expose, AtTurn, AtTransfer, Transfers, IInv, TypeOK,
      Side, Phases, Stream, Other, control, command, exposure, counts, spectra, surface
<1>15. ASSUME NEW s \in Side, TransferContinuous(s)
      PROVE  TypeOK'
  <2>1. DAQ_Phase' \in [Side -> Phases]
    BY <1>15, PhaseTypes DEF TypeOK, TransferContinuous, To, Phases
  <2>2. index' \in [Side -> 1 .. Times] /\ time' \in [Side -> 0 .. Times]
    BY <1>15, ExposeTypes DEF TransferContinuous, InUpper
  <2>3. numAtSurface' \in 0 .. SurfaceLimit /\ surfaced' \in 0 .. SurfaceLimit
    <3>1. Counted \in 0 .. SurfaceLimit
      BY SurfaceAssumption DEF TypeOK, Counted
    <3>2. CASE atSurface
      <4>1. numAtSurface' = numAtSurface + 1 /\ numAtSurface < SurfaceLimit /\ surfaced' = Counted
        BY <1>15, <3>2 DEF TransferContinuous
      <4> QED  BY <3>1, <4>1, SurfaceAssumption DEF TypeOK
    <3>3. CASE ~atSurface
      BY <1>15, <3>3 DEF TransferContinuous, TypeOK
    <3> QED  BY <3>2, <3>3
  <2>4. turn' \in {"receive"} \union Side
    BY <1>15, StepsMove DEF Step, Transfer
  <2>5. UNCHANGED <<control, command, nextIndex, counts, spectra, atSurface, carried, misled>>
    BY <1>15 DEF TransferContinuous
  <2> QED
    <3>1. ExposureTypes'  BY <2>2, <2>5 DEF Parts, ExposureTypes
    <3>2. SurfaceTypes'  BY <2>3, <2>5 DEF Parts, SurfaceTypes
    <3> QED  BY <2>1, <2>4, <2>5, <3>1, <3>2, PartsKept, OfParts DEF Parts
<1>16. ASSUME NEW s \in Side, TransferLast(s)
      PROVE  TypeOK'
  <2>1. DAQ_Phase' \in [Side -> Phases]
    BY <1>16 DEF TypeOK, TransferLast, To, Phases
  <2>2. index' \in [Side -> 1 .. Times] /\ time' \in [Side -> 0 .. Times]
    BY <1>16, ExposeTypes DEF TransferLast, InUpper
  <2>3. ocr' \in BOOLEAN
    BY <1>16 DEF TransferLast
  <2>4. turn' \in {"receive"} \union Side
    BY <1>16 DEF TransferLast, InUpper, AtTransfer, AtTurn, Side
  <2>5. numAtSurface' \in 0 .. SurfaceLimit
    BY <1>16, SurfaceAssumption DEF TransferLast
  <2>6. prepareToStop' \in BOOLEAN /\ OCR_started' \in BOOLEAN /\ misled' \in BOOLEAN
    BY <1>16 DEF TransferLast
  <2> QED
    BY <1>16, <2>1, <2>2, <2>3, <2>4, <2>5, <2>6 DEF TypeOK, TransferLast, command, counts, spectra
<1> QED
  BY <1>1, <1>2, <1>3, <1>4, <1>5, <1>6, <1>7, <1>8, <1>9, <1>10, <1>11, <1>12, <1>13, <1>14,
     <1>15, <1>16
  DEF Next, Receive, Decide, Step, Transfer

(* The branches that cannot happen. *)
LEMMA CannotHappenKept ==
  ASSUME IInv, Next
  PROVE  CannotHappen'
<1> UNCHANGED setup  BY DEF Next
<1>1. ASSUME NoCommand \/ Stop \/ ProfilingEnd
      PROVE  CannotHappen'
  BY <1>1, SetupTypes
  DEF NoCommand, Stop, ProfilingEnd, IInv, CannotHappen, TypeOK, Ordered, Side, Stream, Phases,
      LightPhases, Transfers, Other, control, command, exposure, counts, spectra, surface
<1>2. ASSUME NEW m \in setup.modes, NEW f \in FixedTimes, NEW n \in setup.runLengths,
             Start(m, f, n)
      PROVE  CannotHappen'
  BY <1>2, SetupTypes
  DEF Start, StartIndex, BeginPhase, Prepare, All, Stream, IInv, CannotHappen, TypeOK, Ordered,
      Side, Phases, LightPhases, Transfers, Other, control, command, exposure, counts, spectra,
      surface
<1>3. ASSUME NEW n \in setup.runLengths, Profiling(n)
      PROVE  CannotHappen'
  BY <1>3, SetupTypes
  DEF Profiling, Prepare, All, IInv, CannotHappen, TypeOK, Ordered, Side, Stream, Phases,
      LightPhases, Transfers, Other, control, command, exposure, counts, spectra, surface
<1>4. ASSUME StopAcquisition \/ NothingToDecide
      PROVE  CannotHappen'
  BY <1>4, SetupTypes
  DEF StopAcquisition, MayStop, Resting, NothingToDecide, NextTurn, IInv, CannotHappen, TypeOK,
      Ordered, Side, Stream, Phases, LightPhases, Transfers, Other, control, command, exposure,
      counts, spectra, surface
<1>5. ASSUME NEW p \in Pressures, Measure(p)
      PROVE  CannotHappen'
  BY <1>5, SetupTypes
  DEF Measure, MayMeasure, Resting, measureNow, BeginPhase, NextTurn, IInv, CannotHappen,
      TypeOK, Ordered, Side, Stream, Phases, LightPhases, Transfers, Other, control, command,
      exposure, counts, spectra, surface
<1>6. ASSUME NEW s \in Side, StayIdle(s) \/ Wait(s)
      PROVE  CannotHappen'
  BY <1>6, SetupTypes
  DEF StayIdle, Wait, AtTurn, IInv, CannotHappen, TypeOK, Ordered, Side, Stream, Phases,
      LightPhases, Transfers, Other, control, command, exposure, counts, spectra, surface
<1>7. ASSUME NEW s \in Side, CloseShutter(s) \/ OpenShutter(s)
      PROVE  CannotHappen'
  BY <1>7, SetupTypes
  DEF CloseShutter, To, OpenShutter, AtTurn, IInv, CannotHappen, TypeOK, Ordered, Side, Stream,
      Phases, LightPhases, Transfers, Other, control, command, exposure, counts, spectra,
      surface
<1>8. ASSUME NEW s \in Side, StartSampling(s) \/ SamplingFails(s)
      PROVE  CannotHappen'
  BY <1>8, SetupTypes
  DEF StartSampling, To, SamplingFails, AtTurn, IInv, CannotHappen, TypeOK, Ordered, Side,
      Stream, Phases, LightPhases, Transfers, Other, control, command, exposure, counts,
      spectra, surface
<1>9. ASSUME NEW s \in Side, GetDark(s)
      PROVE  CannotHappen'
  BY <1>9, SetupTypes
  DEF GetDark, To, PhaseAfterDark, AtTurn, IInv, CannotHappen, TypeOK, Ordered, Side, Stream,
      Phases, LightPhases, Transfers, Other, control, command, exposure, counts, spectra,
      surface
<1>10. ASSUME NEW s \in Side, GetLight(s)
      PROVE  CannotHappen'
  BY <1>10, SetupTypes
  DEF GetLight, To, PhaseAfterLight, Adapted, AtTurn, IInv, CannotHappen, TypeOK, Ordered, Side,
      Stream, Phases, LightPhases, Transfers, Other, control, command, exposure, counts,
      spectra, surface
<1>11. ASSUME NEW s \in Side, TransferStopping(s) \/ TransferSurfaced(s)
      PROVE  CannotHappen'
  BY <1>11, SetupTypes
  DEF TransferStopping, To, TransferSurfaced, InUpper, DarkDue, TakeNextIndex, Expose, AtTurn,
      AtTransfer, Transfers, IInv, CannotHappen, TypeOK, Ordered, Side, Stream, Phases,
      LightPhases, Other, control, command, exposure, counts, spectra, surface
<1>12. ASSUME NEW s \in Side, TransferDark(s)
      PROVE  CannotHappen'
  BY <1>12, SetupTypes
  DEF TransferDark, To, Expose, AtTurn, AtTransfer, Transfers, IInv, CannotHappen, TypeOK,
      Ordered, Side, Stream, Phases, LightPhases, Other, control, command, exposure, counts,
      spectra, surface
<1>13. ASSUME NEW s \in Side, TransferStream(s)
      PROVE  CannotHappen'
  BY <1>13, SetupTypes
  DEF TransferStream, To, PhaseAfterFrame, DarkDue, TakeNextIndex, Expose, Stream, AtTurn,
      AtTransfer, Transfers, IInv, CannotHappen, TypeOK, Ordered, Side, Phases, LightPhases,
      Other, control, command, exposure, counts, spectra, surface
<1>14. ASSUME NEW s \in Side, TransferSingle(s)
      PROVE  CannotHappen'
  BY <1>14, SetupTypes
  DEF TransferSingle, To, TakeNextIndex, Expose, AtTurn, AtTransfer, Transfers, IInv,
      CannotHappen, TypeOK, Ordered, Side, Stream, Phases, LightPhases, Other, control, command,
      exposure, counts, spectra, surface
<1>15. ASSUME NEW s \in Side, TransferContinuous(s)
      PROVE  CannotHappen'
  BY <1>15, SetupTypes
  DEF TransferContinuous, InUpper, To, PhaseAfterFrame, DarkDue, TakeNextIndex, Expose, Counted,
      AtTurn, AtTransfer, Transfers, IInv, CannotHappen, TypeOK, Ordered, Side, Stream, Phases,
      LightPhases, Other, control, command, exposure, counts, spectra, surface
<1>16. ASSUME NEW s \in Side, TransferLast(s)
      PROVE  CannotHappen'
  BY <1>16, SetupTypes
  DEF TransferLast, InUpper, To, DarkDue, TakeNextIndex, Expose, AtTurn, AtTransfer, Transfers,
      IInv, CannotHappen, TypeOK, Ordered, Side, Stream, Phases, LightPhases, Other, control,
      command, exposure, counts, spectra, surface
<1> QED
  BY <1>1, <1>2, <1>3, <1>4, <1>5, <1>6, <1>7, <1>8, <1>9, <1>10, <1>11, <1>12, <1>13, <1>14,
     <1>15, <1>16
  DEF Next, Receive, Decide, Step, Transfer

(* Stops, phases and the OCR. *)
LEMMA OrderedKept ==
  ASSUME IInv, Next
  PROVE  Ordered'
<1> UNCHANGED setup  BY DEF Next
<1> Ordered /\ TypeOK  BY DEF IInv
<1>1. ASSUME NoCommand \/ Stop \/ ProfilingEnd
      PROVE  Ordered'
  <2>1. UNCHANGED <<DAQ_state, DAQ_Phase, PRF_action, OCR_started>>
    BY <1>1 DEF NoCommand, Stop, ProfilingEnd, control
  <2>2. prepareToStop' => DAQ_state # "Idle"
    BY <1>1 DEF NoCommand, Stop, ProfilingEnd, control, Ordered
  <2>3. OCR_started => ocr' \/ misled'
    BY <1>1 DEF NoCommand, Stop, ProfilingEnd, control, Ordered
  <2> QED  BY <2>1, <2>2, <2>3 DEF Ordered, Installed
<1>2. ASSUME NEW m \in setup.modes, NEW f \in FixedTimes, NEW n \in setup.runLengths,
             Start(m, f, n)
      PROVE  Ordered'
  <2>1. DAQ_state' = m /\ m \in Stream \union {"DarkCharacterize"}
    BY <1>2, SetupTypes DEF Start, TypeOK
  <2>2. DAQ_Phase' = [s \in Side |-> BeginPhase(s)]
    BY <1>2 DEF Start
  <2>3. UNCHANGED <<OCR_started, misled>> /\ (ocr => ocr')
    BY <1>2 DEF Start
  <2> QED  BY <2>1, <2>2, <2>3 DEF Ordered, BeginPhase, Installed, Stream
<1>3. ASSUME NEW n \in setup.runLengths, Profiling(n)
      PROVE  Ordered'
  <2>1. DAQ_state' = "FloatProfile" /\ PRF_action' = "Delay"
    BY <1>3 DEF Profiling
  <2>2. \A s \in Side : DAQ_Phase'[s] = "Idle"
    BY <1>3 DEF Profiling, All
  <2>3. UNCHANGED <<OCR_started, ocr, misled>>
    BY <1>3 DEF Profiling
  <2> QED  BY <2>1, <2>2, <2>3 DEF Ordered
<1>4. ASSUME StopAcquisition \/ NothingToDecide
      PROVE  Ordered'
  <2>1. UNCHANGED <<DAQ_Phase, PRF_action, OCR_started, ocr, misled>>
    BY <1>4 DEF StopAcquisition, NothingToDecide, control
  <2>2. \/ DAQ_state' = "Idle" /\ prepareToStop' = FALSE
        \/ UNCHANGED <<DAQ_state, prepareToStop>>
    BY <1>4 DEF StopAcquisition, NothingToDecide, control
  <2> QED  BY <2>1, <2>2 DEF Ordered, Installed
<1>5. ASSUME NEW p \in Pressures, Measure(p)
      PROVE  Ordered'
  <2>1. UNCHANGED <<DAQ_state, prepareToStop, misled>>
    BY <1>5 DEF Measure
  <2>2. DAQ_Phase' = DAQ_Phase \/ DAQ_Phase' = [s \in Side |-> BeginPhase(s)]
    BY <1>5 DEF Measure
  <2>3. \/ OCR_started' = TRUE /\ ocr' = TRUE
        \/ UNCHANGED <<OCR_started, ocr>>
           /\ ~(PRF_action' = "Continuous" /\ ~OCR_started /\ Installed # {})
    BY <1>5 DEF Measure
  <2> QED  BY <2>1, <2>2, <2>3 DEF Ordered, BeginPhase, Installed
<1>6. ASSUME NEW s \in Side, Step(s)
      PROVE  Ordered'
  <2>1. \A t \in Side : DAQ_Phase'[t] # "Idle" => t \in Installed
    BY <1>6, StepsMove DEF Ordered
  <2>2. CASE SamplingFails(s)
    <3>1. UNCHANGED <<DAQ_state, PRF_action, OCR_started, ocr, misled>>
      BY <2>2 DEF SamplingFails
    <3>2. DAQ_state # "Idle"
      BY <2>2 DEF SamplingFails, AtTurn, IInv, CannotHappen
    <3> QED  BY <2>1, <3>1, <3>2 DEF Ordered, Installed
  <2>3. CASE TransferSingle(s)
    <3>1. UNCHANGED <<DAQ_state, prepareToStop, OCR_started, ocr, misled>>
      BY <2>3 DEF TransferSingle
    <3>2. PRF_action' \in {"Delay", "Single"}
      BY <2>3 DEF TransferSingle
    <3> QED  BY <2>1, <3>1, <3>2 DEF Ordered, Installed
  <2>4. CASE TransferLast(s)
    <3>1. DAQ_state' = "FloatProfile" /\ PRF_action' = "Complete" /\ OCR_started' = FALSE
      BY <2>4 DEF TransferLast, InUpper
    <3> QED  BY <2>1, <3>1 DEF Ordered, Installed
  <2>5. CASE ~(SamplingFails(s) \/ TransferSingle(s) \/ TransferLast(s))
    <3>1. UNCHANGED <<control, misled>>
      BY <1>6, <2>5 DEF Step, Transfer, StayIdle, CloseShutter, OpenShutter, StartSampling, Wait,
        GetDark, GetLight, TransferStopping, TransferDark, TransferStream, TransferContinuous,
        TransferSurfaced
    <3> QED  BY <2>1, <3>1 DEF Ordered, Installed, control
  <2> QED  BY <2>2, <2>3, <2>4, <2>5
<1> QED
  BY <1>1, <1>2, <1>3, <1>4, <1>5, <1>6 DEF Next, Receive, Decide

(* Shutters and spectra. *)
LEMMA ExposedKept ==
  ASSUME IInv, Next
  PROVE  Exposed'
<1> UNCHANGED setup  BY DEF Next
<1>1. ASSUME NoCommand \/ Stop \/ ProfilingEnd
      PROVE  Exposed'
  <2>1. UNCHANGED <<DAQ_state, DAQ_Phase, time, closed, dark>>
    BY <1>1 DEF NoCommand, Stop, ProfilingEnd, control, exposure, spectra
  <2> QED  BY <2>1 DEF IInv, Exposed
<1>2. ASSUME NEW m \in setup.modes, NEW f \in FixedTimes, NEW n \in setup.runLengths,
             Start(m, f, n)
      PROVE  Exposed'
  <2>1. \A s \in Side : DAQ_Phase'[s] \in {"CloseShutter", "Idle"}
    BY <1>2 DEF Start, BeginPhase
  <2>2. \A s \in Side : time'[s] # 0
    <3>1. (time' = All(f) /\ f # 0) \/ time' = All(StartIndex(m))
      BY <1>2 DEF Start
    <3> QED  BY <3>1, StartTypes DEF All
  <2> QED  BY <2>1, <2>2 DEF Exposed, LightPhases
<1>3. ASSUME NEW n \in setup.runLengths, Profiling(n)
      PROVE  Exposed'
  BY <1>3, SetupTypes, CommandAssumption, TimesAssumption, StartTypes
  DEF Profiling, Prepare, All, IInv, Exposed, TypeOK, CannotHappen, Side, Stream, Phases,
      LightPhases, Transfers, control, command, exposure, counts, spectra, surface
<1>4. ASSUME StopAcquisition \/ NothingToDecide
      PROVE  Exposed'
  BY <1>4, SetupTypes, CommandAssumption, TimesAssumption, StartTypes
  DEF StopAcquisition, MayStop, Resting, NothingToDecide, NextTurn, IInv, Exposed, TypeOK,
      CannotHappen, Side, Stream, Phases, LightPhases, Transfers, control, command, exposure,
      counts, spectra, surface
<1>5. ASSUME NEW p \in Pressures, Measure(p)
      PROVE  Exposed'
  <2>1. UNCHANGED <<DAQ_state, time, closed, dark>>
    BY <1>5 DEF Measure, exposure, spectra
  <2>2. DAQ_Phase' = DAQ_Phase \/ \A s \in Side : DAQ_Phase'[s] \in {"CloseShutter", "Idle"}
    BY <1>5, PhaseTypes DEF Measure
  <2> QED  BY <2>1, <2>2 DEF IInv, Exposed, LightPhases
<1>6. ASSUME NEW s \in Side, StayIdle(s) \/ Wait(s)
      PROVE  Exposed'
  <2>1. UNCHANGED <<DAQ_state, DAQ_Phase, time, closed, dark>>
    BY <1>6 DEF StayIdle, Wait, control, exposure, spectra
  <2> QED  BY <2>1 DEF IInv, Exposed
<1>7. ASSUME NEW s \in Side, CloseShutter(s) \/ OpenShutter(s)
      PROVE  Exposed'
  <2>1. UNCHANGED <<DAQ_state, time, dark>>
    BY <1>7 DEF CloseShutter, OpenShutter, control, exposure
  <2>2. CASE CloseShutter(s)
    <3>1. /\ DAQ_Phase' = [DAQ_Phase EXCEPT ![s] = "StartDark"]
          /\ closed' = [closed EXCEPT ![s] = TRUE]
      BY <2>2 DEF CloseShutter, To
    <3> QED  BY <2>1, <3>1 DEF IInv, Exposed, TypeOK, LightPhases
  <2>3. CASE OpenShutter(s)
    <3>1. /\ DAQ_Phase[s] = "OpenShutter"
          /\ DAQ_Phase' = [DAQ_Phase EXCEPT ![s] = "StartLight"]
          /\ closed' = [closed EXCEPT ![s] = FALSE]
      BY <2>3 DEF OpenShutter, AtTurn, To
    <3> QED  BY <2>1, <3>1 DEF IInv, Exposed, TypeOK, LightPhases
  <2> QED  BY <1>7, <2>2, <2>3
<1>8. ASSUME NEW s \in Side, StartSampling(s) \/ SamplingFails(s)
      PROVE  Exposed'
  <2>1. UNCHANGED <<DAQ_state, time, closed, dark>>
    BY <1>8 DEF StartSampling, SamplingFails, control, exposure, spectra
  <2>2. \/ DAQ_Phase[s] = "StartDark" /\ DAQ_Phase' = [DAQ_Phase EXCEPT ![s] = "GetDark"]
        \/ DAQ_Phase[s] = "StartLight" /\ DAQ_Phase' = [DAQ_Phase EXCEPT ![s] = "GetLight"]
        \/ DAQ_Phase' = [DAQ_Phase EXCEPT ![s] = "Idle"]
    BY <1>8 DEF StartSampling, SamplingFails, To, AtTurn
  <2> QED  BY <2>1, <2>2 DEF IInv, Exposed, TypeOK, LightPhases
<1>9. ASSUME NEW s \in Side, GetDark(s)
      PROVE  Exposed'
  <2>1. UNCHANGED <<DAQ_state, time, closed>>
    BY <1>9 DEF GetDark, control, exposure
  <2>2. DAQ_Phase' = [DAQ_Phase EXCEPT ![s] = PhaseAfterDark]
    BY <1>9 DEF GetDark, To
  <2>3. PhaseAfterDark \in {"TransferD", "OpenShutter", "Idle"}
    BY DEF PhaseAfterDark
  <2>4. closed[s] = TRUE
    BY <1>9 DEF GetDark, AtTurn, IInv, Exposed
  <2>5. dark' = [dark EXCEPT ![s] = time[s]]
    BY <1>9, <2>4 DEF GetDark
  <2> QED  BY <2>1, <2>2, <2>3, <2>4, <2>5 DEF IInv, Exposed, TypeOK, LightPhases
<1>10. ASSUME NEW s \in Side, GetLight(s)
      PROVE  Exposed'
  BY <1>10, SetupTypes, CommandAssumption, TimesAssumption, StartTypes
  DEF GetLight, To, PhaseAfterLight, Adapted, AtTurn, IInv, Exposed, TypeOK, CannotHappen, Side,
      Stream, Phases, LightPhases, Transfers, control, command, exposure, counts, spectra,
      surface
<1>11. ASSUME NEW s \in Side, TransferStopping(s) \/ TransferSurfaced(s)
      PROVE  Exposed'
  <2>1. DAQ_Phase' = [DAQ_Phase EXCEPT ![s] = "Idle"] /\ UNCHANGED <<DAQ_state, closed, dark>>
    BY <1>11 DEF TransferStopping, TransferSurfaced, To, control, spectra
  <2>2. \A t \in Side : time'[t] = time[t] \/ (t = s /\ time'[t] = nextIndex[t])
    <3>1. time' = time \/ time' = [time EXCEPT ![s] = nextIndex[s]]
      BY <1>11 DEF TransferStopping, TransferSurfaced, InUpper, TakeNextIndex, Expose, exposure
    <3> QED  BY <3>1 DEF IInv, TypeOK
  <2>3. \A t \in Side : time'[t] = time[t] \/ (t = s /\ time'[t] # 0)
    BY <2>2, TimesAssumption DEF IInv, TypeOK
  <2> QED  BY <2>1, <2>3 DEF IInv, Exposed, TypeOK, LightPhases
<1>12. ASSUME NEW s \in Side, TransferDark(s) PROVE Exposed'
  <2>1. DAQ_Phase[s] = "TransferD" /\ DAQ_Phase' = [DAQ_Phase EXCEPT ![s] = "StartDark"]
    BY <1>12 DEF TransferDark, AtTransfer, AtTurn, Transfers, To, IInv, CannotHappen, LightPhases
  <2>2. DAQ_state' = DAQ_state /\ closed' = closed /\ dark' = dark
    BY <1>12 DEF TransferDark, control, spectra
  <2>3. \A t \in Side : time'[t] # 0 /\ (t # s => time'[t] = time[t])
    <3>1. \A t \in Side : time[t] # 0
      BY <1>12 DEF TransferDark, IInv, Exposed
    <3>2. (IF index[s] = Times THEN 1 ELSE index[s] + 1) \in Nat \ {0}
      BY TimesAssumption DEF IInv, TypeOK
    <3>3. \/ time' = time
          \/ time' = [time EXCEPT ![s] = IF index[s] = Times THEN 1 ELSE index[s] + 1]
      BY <1>12 DEF TransferDark, Expose
    <3> QED  BY <3>1, <3>2, <3>3 DEF IInv, TypeOK
  <2> QED  BY <2>1, <2>2, <2>3 DEF IInv, Exposed, TypeOK, LightPhases
<1>13. ASSUME NEW s \in Side, TransferStream(s) PROVE Exposed'
  <2>1. DAQ_Phase' = [DAQ_Phase EXCEPT ![s] = PhaseAfterFrame(s)]
    BY <1>13 DEF TransferStream, To
  <2>2. UNCHANGED <<DAQ_state, closed, dark>>
    BY <1>13 DEF TransferStream, control, spectra
  <2>3. CASE DarkDue(s)
    <3>1. PhaseAfterFrame(s) = "CloseShutter"
      BY <2>3, PhaseTypes
    <3>2. time' = [time EXCEPT ![s] = nextIndex[s]] \/ time' = time
      BY <1>13, <2>3 DEF TransferStream, TakeNextIndex, Expose
    <3>3. nextIndex[s] # 0 /\ DAQ_Phase \in [Side -> Phases] /\ time \in [Side -> 0 .. Times]
      BY TimesAssumption DEF IInv, TypeOK
    <3> QED  BY <2>1, <2>2, <3>1, <3>2, <3>3 DEF IInv, Exposed, LightPhases
  <2>4. CASE ~DarkDue(s)
    <3>1. PhaseAfterFrame(s) = IF closed[s] THEN "OpenShutter" ELSE "StartLight"
      BY <2>4 DEF PhaseAfterFrame
    <3>2. DAQ_Phase[s] \in Transfers /\ time' = time
      BY <1>13, <2>4 DEF TransferStream, AtTransfer, AtTurn
    <3>3. DAQ_state # "DarkCharacterize" /\ DAQ_state # "Idle"
      BY <1>13 DEF TransferStream, Stream
    <3>4. closed[s] \in BOOLEAN /\ DAQ_Phase \in [Side -> Phases]
      BY DEF IInv, TypeOK
    <3> QED  BY <2>1, <2>2, <3>1, <3>2, <3>3, <3>4 DEF IInv, Exposed, LightPhases, Transfers
  <2> QED  BY <2>3, <2>4
<1>14. ASSUME NEW s \in Side, TransferSingle(s) PROVE Exposed'
  <2>1. DAQ_Phase' = [DAQ_Phase EXCEPT ![s] = "Idle"] /\ UNCHANGED <<DAQ_state, closed, dark>>
    BY <1>14 DEF TransferSingle, To, spectra
  <2>2. time' = time \/ time' = [time EXCEPT ![s] = nextIndex[s]]
    BY <1>14 DEF TransferSingle, TakeNextIndex, Expose
  <2>3. \A t \in Side : time'[t] = time[t] \/ (t = s /\ time'[t] # 0)
    BY <2>2, TimesAssumption DEF IInv, TypeOK
  <2> QED  BY <2>1, <2>3 DEF IInv, Exposed, TypeOK, LightPhases
<1>15. ASSUME NEW s \in Side, TransferContinuous(s) PROVE Exposed'
  <2>1. DAQ_Phase' = [DAQ_Phase EXCEPT ![s] = PhaseAfterFrame(s)]
    BY <1>15 DEF TransferContinuous, To
  <2>2. CASE DarkDue(s)
    <3>1. PhaseAfterFrame(s) = "CloseShutter"
      BY <2>2, PhaseTypes
    <3>2. UNCHANGED <<DAQ_state, closed, dark>>
      BY <1>15 DEF TransferContinuous, control, spectra
    <3>3. time' = [time EXCEPT ![s] = nextIndex[s]] \/ time' = time
      BY <1>15, <2>2 DEF TransferContinuous, InUpper, TakeNextIndex, Expose
    <3>4. nextIndex[s] # 0 /\ DAQ_Phase \in [Side -> Phases] /\ time \in [Side -> 0 .. Times]
      BY TimesAssumption DEF IInv, TypeOK
    <3> QED  BY <2>1, <3>1, <3>2, <3>3, <3>4 DEF IInv, Exposed, LightPhases
  <2>3. CASE ~DarkDue(s)
    <3>1. PhaseAfterFrame(s) = IF closed[s] THEN "OpenShutter" ELSE "StartLight"
      BY <2>3 DEF PhaseAfterFrame
    <3>2. DAQ_Phase[s] \in Transfers /\ UNCHANGED <<time, DAQ_state, closed, dark>>
      BY <1>15, <2>3 DEF TransferContinuous, InUpper, AtTransfer, AtTurn, control, spectra
    <3>3. closed[s] \in BOOLEAN /\ DAQ_Phase \in [Side -> Phases]
      BY DEF IInv, TypeOK
    <3> QED  BY <2>1, <3>1, <3>2, <3>3 DEF IInv, Exposed, LightPhases, Transfers
  <2> QED  BY <2>2, <2>3
<1>16. ASSUME NEW s \in Side, TransferLast(s)
      PROVE  Exposed'
  <2>1. DAQ_Phase' = [DAQ_Phase EXCEPT ![s] = "Idle"] /\ UNCHANGED <<DAQ_state, closed, dark>>
    BY <1>16 DEF TransferLast, To, spectra
  <2>2. time' = time \/ time' = [time EXCEPT ![s] = nextIndex[s]]
    BY <1>16 DEF TransferLast, InUpper, TakeNextIndex, Expose
  <2>3. \A t \in Side : time'[t] = time[t] \/ (t = s /\ time'[t] # 0)
    BY <2>2, TimesAssumption DEF IInv, TypeOK
  <2> QED  BY <2>1, <2>3 DEF IInv, Exposed, TypeOK, LightPhases
<1> QED
  BY <1>1, <1>2, <1>3, <1>4, <1>5, <1>6, <1>7, <1>8, <1>9, <1>10, <1>11, <1>12, <1>13, <1>14,
     <1>15, <1>16
  DEF Next, Receive, Decide, Step, Transfer

(* Light spectra after a dark one. *)
LEMMA CountedLightsKept ==
  ASSUME IInv, Next
  PROVE  CountedLights'
<1> UNCHANGED setup  BY DEF Next
<1>1. ASSUME NoCommand \/ Stop \/ ProfilingEnd
      PROVE  CountedLights'
  BY <1>1, SetupTypes
  DEF NoCommand, Stop, ProfilingEnd, IInv, CountedLights, TypeOK, CannotHappen, Side, Stream,
      Phases, LightPhases, Transfers, control, command, exposure, counts, spectra, surface
<1>2. ASSUME NEW m \in setup.modes, NEW f \in FixedTimes, NEW n \in setup.runLengths,
             Start(m, f, n)
      PROVE  CountedLights'
  BY <1>2, SetupTypes
  DEF Start, StartIndex, BeginPhase, Prepare, All, Stream, IInv, CountedLights, TypeOK,
      CannotHappen, Side, Phases, LightPhases, Transfers, control, command, exposure, counts,
      spectra, surface
<1>3. ASSUME NEW n \in setup.runLengths, Profiling(n)
      PROVE  CountedLights'
  BY <1>3, SetupTypes
  DEF Profiling, Prepare, All, IInv, CountedLights, TypeOK, CannotHappen, Side, Stream, Phases,
      LightPhases, Transfers, control, command, exposure, counts, spectra, surface
<1>4. ASSUME StopAcquisition \/ NothingToDecide
      PROVE  CountedLights'
  BY <1>4, SetupTypes
  DEF StopAcquisition, MayStop, Resting, NothingToDecide, NextTurn, IInv, CountedLights, TypeOK,
      CannotHappen, Side, Stream, Phases, LightPhases, Transfers, control, command, exposure,
      counts, spectra, surface
<1>5. ASSUME NEW p \in Pressures, Measure(p)
      PROVE  CountedLights'
  <2>1. UNCHANGED <<DAQ_state, lights, runLength>>
    BY <1>5 DEF Measure, counts, command
  <2>2. DAQ_Phase' = DAQ_Phase \/ \A s \in Side : DAQ_Phase'[s] \in {"CloseShutter", "Idle"}
    BY <1>5, PhaseTypes DEF Measure
  <2> QED  BY <2>1, <2>2 DEF IInv, CountedLights
<1>6. ASSUME NEW s \in Side, StayIdle(s) \/ Wait(s)
      PROVE  CountedLights'
  BY <1>6, SetupTypes
  DEF StayIdle, Wait, AtTurn, IInv, CountedLights, TypeOK, CannotHappen, Side, Stream, Phases,
      LightPhases, Transfers, control, command, exposure, counts, spectra, surface
<1>7. ASSUME NEW s \in Side, CloseShutter(s) \/ OpenShutter(s)
      PROVE  CountedLights'
  <2>1. UNCHANGED <<DAQ_state, lights, runLength>>
    BY <1>7 DEF CloseShutter, OpenShutter, control, counts, command
  <2>2. \/ DAQ_Phase' = [DAQ_Phase EXCEPT ![s] = "StartDark"]
        \/ DAQ_Phase[s] = "OpenShutter" /\ DAQ_Phase' = [DAQ_Phase EXCEPT ![s] = "StartLight"]
    BY <1>7 DEF CloseShutter, OpenShutter, To, AtTurn
  <2> QED  BY <2>1, <2>2 DEF IInv, CountedLights, TypeOK
<1>8. ASSUME NEW s \in Side, StartSampling(s) \/ SamplingFails(s)
      PROVE  CountedLights'
  <2>1. UNCHANGED <<DAQ_state, lights, runLength>>
    BY <1>8 DEF StartSampling, SamplingFails, control, counts, command
  <2>2. \/ DAQ_Phase' = [DAQ_Phase EXCEPT ![s] = "GetDark"]
        \/ DAQ_Phase[s] = "StartLight" /\ DAQ_Phase' = [DAQ_Phase EXCEPT ![s] = "GetLight"]
        \/ DAQ_Phase' = [DAQ_Phase EXCEPT ![s] = "Idle"]
    BY <1>8 DEF StartSampling, SamplingFails, To, AtTurn
  <2> QED  BY <2>1, <2>2 DEF IInv, CountedLights, TypeOK
<1>9. ASSUME NEW s \in Side, GetDark(s) PROVE CountedLights'
  <2>1. DAQ_Phase[s] = "GetDark" /\ DAQ_Phase' = [DAQ_Phase EXCEPT ![s] = PhaseAfterDark]
    BY <1>9 DEF GetDark, AtTurn, To
  <2>2. UNCHANGED <<runLength, DAQ_state>> /\ runLength \in Nat \ {0}
    BY <1>9 DEF GetDark, command, control, IInv, TypeOK
  <2>3. CASE DAQ_state = "DarkCharacterize"
    <3>1. lights' = lights /\ PhaseAfterDark = "TransferD"
      BY <1>9, <2>3 DEF GetDark, PhaseAfterDark
    <3> QED  BY <2>1, <2>2, <2>3, <3>1 DEF IInv, CountedLights, TypeOK
  <2>4. CASE DAQ_state # "DarkCharacterize"
    <3>1. lights' = [lights EXCEPT ![s] = 0]
      BY <1>9, <2>4 DEF GetDark
    <3> QED  BY <2>1, <2>2, <3>1, PhaseTypes DEF IInv, CountedLights, TypeOK
  <2> QED  BY <2>3, <2>4
<1>10. ASSUME NEW s \in Side, GetLight(s) PROVE CountedLights'
  <2>1. DAQ_Phase[s] = "GetLight" /\ DAQ_Phase' = [DAQ_Phase EXCEPT ![s] = PhaseAfterLight]
    BY <1>10 DEF GetLight, AtTurn, To
  <2>2. lights' = [lights EXCEPT ![s] = lights[s] + 1] /\ UNCHANGED <<runLength, DAQ_state>>
    BY <1>10 DEF GetLight, command, control
  <2>3. lights[s] < runLength /\ lights[s] \in Nat /\ runLength \in Nat
    BY <2>1 DEF IInv, CountedLights, TypeOK
  <2>4. DAQ_Phase'[s] \in {"TransferL", "TransferLMD", "Idle"} /\ lights'[s] \in 1 .. runLength
    BY <2>1, <2>2, <2>3, PhaseTypes DEF IInv, TypeOK
  <2>5. \A t \in Side : t # s => DAQ_Phase'[t] = DAQ_Phase[t] /\ lights'[t] = lights[t]
    BY <2>1, <2>2 DEF IInv, TypeOK
  <2> QED  BY <2>2, <2>4, <2>5 DEF IInv, CountedLights
<1>11. ASSUME NEW s \in Side, TransferStopping(s) \/ TransferSurfaced(s)
      PROVE  CountedLights'
  <2>1. UNCHANGED <<DAQ_state, lights, runLength>>
    BY <1>11 DEF TransferStopping, TransferSurfaced, control, counts, command
  <2>2. DAQ_Phase' = [DAQ_Phase EXCEPT ![s] = "Idle"]
    BY <1>11 DEF TransferStopping, TransferSurfaced, To
  <2> QED  BY <2>1, <2>2 DEF IInv, CountedLights, TypeOK
<1>12. ASSUME NEW s \in Side, TransferDark(s)
      PROVE  CountedLights'
  BY <1>12, SetupTypes
  DEF TransferDark, To, Expose, AtTurn, AtTransfer, Transfers, IInv, CountedLights, TypeOK,
      CannotHappen, Side, Stream, Phases, LightPhases, control, command, exposure, counts,
      spectra, surface
<1>13. ASSUME NEW s \in Side, TransferStream(s)
      PROVE  CountedLights'
  <2>1. DAQ_Phase' = [DAQ_Phase EXCEPT ![s] = PhaseAfterFrame(s)] /\ DAQ_Phase[s] \in Transfers
    BY <1>13 DEF TransferStream, To, AtTransfer, AtTurn
  <2>2. UNCHANGED <<runLength, DAQ_state, lights>> /\ DAQ_state \in Stream
    BY <1>13 DEF TransferStream, command, control, counts
  <2> QED  BY <2>1, <2>2, FrameCounted DEF IInv, CountedLights, TypeOK, Stream
<1>14. ASSUME NEW s \in Side, TransferSingle(s)
      PROVE  CountedLights'
  BY <1>14, SetupTypes
  DEF TransferSingle, To, TakeNextIndex, Expose, AtTurn, AtTransfer, Transfers, IInv,
      CountedLights, TypeOK, CannotHappen, Side, Stream, Phases, LightPhases, control, command,
      exposure, counts, spectra, surface
<1>15. ASSUME NEW s \in Side, TransferContinuous(s)
      PROVE  CountedLights'
  <2>1. DAQ_Phase' = [DAQ_Phase EXCEPT ![s] = PhaseAfterFrame(s)] /\ DAQ_Phase[s] \in Transfers
    BY <1>15 DEF TransferContinuous, InUpper, To, AtTransfer, AtTurn
  <2>2. UNCHANGED <<runLength, DAQ_state, lights>> /\ DAQ_state = "FloatProfile"
    BY <1>15 DEF TransferContinuous, InUpper, command, control, counts
  <2> QED  BY <2>1, <2>2, FrameCounted DEF IInv, CountedLights, TypeOK
<1>16. ASSUME NEW s \in Side, TransferLast(s)
      PROVE  CountedLights'
  BY <1>16, SetupTypes
  DEF TransferLast, InUpper, To, DarkDue, TakeNextIndex, Expose, AtTurn, AtTransfer, Transfers,
      IInv, CountedLights, TypeOK, CannotHappen, Side, Stream, Phases, LightPhases, control,
      command, exposure, counts, spectra, surface
<1> QED
  BY <1>1, <1>2, <1>3, <1>4, <1>5, <1>6, <1>7, <1>8, <1>9, <1>10, <1>11, <1>12, <1>13, <1>14,
     <1>15, <1>16
  DEF Next, Receive, Decide, Step, Transfer

(* Frames at the surface. *)
LEMMA CountedAtSurfaceKept ==
  ASSUME IInv, Next
  PROVE  CountedAtSurface'
<1> UNCHANGED setup  BY DEF Next
<1>1. ASSUME NoCommand \/ Stop \/ ProfilingEnd
      PROVE  CountedAtSurface'
  BY <1>1, SurfaceAssumption
  DEF NoCommand, Stop, ProfilingEnd, IInv, CountedAtSurface, TypeOK, Side, Stream, control,
      command, exposure, counts, spectra, surface
<1>2. ASSUME NEW m \in setup.modes, NEW f \in FixedTimes, NEW n \in setup.runLengths, Start(m, f, n) PROVE CountedAtSurface'
  BY <1>2, SetupTypes DEF Start, IInv, TypeOK, CountedAtSurface, Stream
<1>3. ASSUME NEW n \in setup.runLengths, Profiling(n) PROVE CountedAtSurface'
  <2>1. PRF_action' = "Delay" /\ surfaced' = 0 /\ numAtSurface' = numAtSurface
    BY <1>3 DEF Profiling
  <2>2. carried' <=> numAtSurface > 0
    BY <1>3 DEF Profiling
  <2>3. ~carried' => numAtSurface = 0
    BY <2>2, SurfaceAssumption DEF IInv, TypeOK
  <2> QED  BY <2>1, <2>3 DEF CountedAtSurface
<1>4. ASSUME StopAcquisition \/ NothingToDecide
      PROVE  CountedAtSurface'
  BY <1>4, SurfaceAssumption
  DEF StopAcquisition, MayStop, Resting, NothingToDecide, NextTurn, IInv, CountedAtSurface,
      TypeOK, Side, Stream, control, command, exposure, counts, spectra, surface
<1>5. ASSUME NEW p \in Pressures, Measure(p)
      PROVE  CountedAtSurface'
  BY <1>5, SurfaceAssumption
  DEF Measure, MayMeasure, Resting, measureNow, BeginPhase, NextTurn, IInv, CountedAtSurface,
      TypeOK, Side, Stream, control, command, exposure, counts, spectra, surface
<1>6. ASSUME NEW s \in Side, StayIdle(s) \/ Wait(s)
      PROVE  CountedAtSurface'
  BY <1>6, SurfaceAssumption
  DEF StayIdle, Wait, AtTurn, IInv, CountedAtSurface, TypeOK, Side, Stream, control, command,
      exposure, counts, spectra, surface
<1>7. ASSUME NEW s \in Side, CloseShutter(s) \/ OpenShutter(s)
      PROVE  CountedAtSurface'
  BY <1>7, SurfaceAssumption
  DEF CloseShutter, To, OpenShutter, AtTurn, IInv, CountedAtSurface, TypeOK, Side, Stream,
      control, command, exposure, counts, spectra, surface
<1>8. ASSUME NEW s \in Side, StartSampling(s) \/ SamplingFails(s)
      PROVE  CountedAtSurface'
  BY <1>8, SurfaceAssumption
  DEF StartSampling, To, SamplingFails, AtTurn, IInv, CountedAtSurface, TypeOK, Side, Stream,
      control, command, exposure, counts, spectra, surface
<1>9. ASSUME NEW s \in Side, GetDark(s)
      PROVE  CountedAtSurface'
  BY <1>9, SurfaceAssumption
  DEF GetDark, To, PhaseAfterDark, AtTurn, IInv, CountedAtSurface, TypeOK, Side, Stream,
      control, command, exposure, counts, spectra, surface
<1>10. ASSUME NEW s \in Side, GetLight(s)
      PROVE  CountedAtSurface'
  BY <1>10, SurfaceAssumption
  DEF GetLight, To, PhaseAfterLight, Adapted, AtTurn, IInv, CountedAtSurface, TypeOK, Side,
      Stream, control, command, exposure, counts, spectra, surface
<1>11. ASSUME NEW s \in Side, TransferStopping(s) \/ TransferSurfaced(s)
      PROVE  CountedAtSurface'
  BY <1>11, SurfaceAssumption
  DEF TransferStopping, To, TransferSurfaced, InUpper, DarkDue, TakeNextIndex, Expose, AtTurn,
      AtTransfer, Transfers, IInv, CountedAtSurface, TypeOK, Side, Stream, control, command,
      exposure, counts, spectra, surface
<1>12. ASSUME NEW s \in Side, TransferDark(s)
      PROVE  CountedAtSurface'
  BY <1>12, SurfaceAssumption
  DEF TransferDark, To, Expose, AtTurn, AtTransfer, Transfers, IInv, CountedAtSurface, TypeOK,
      Side, Stream, control, command, exposure, counts, spectra, surface
<1>13. ASSUME NEW s \in Side, TransferStream(s)
      PROVE  CountedAtSurface'
  BY <1>13, SurfaceAssumption
  DEF TransferStream, To, PhaseAfterFrame, DarkDue, TakeNextIndex, Expose, Stream, AtTurn,
      AtTransfer, Transfers, IInv, CountedAtSurface, TypeOK, Side, control, command, exposure,
      counts, spectra, surface
<1>14. ASSUME NEW s \in Side, TransferSingle(s)
      PROVE  CountedAtSurface'
  BY <1>14, SurfaceAssumption
  DEF TransferSingle, To, TakeNextIndex, Expose, AtTurn, AtTransfer, Transfers, IInv,
      CountedAtSurface, TypeOK, Side, Stream, control, command, exposure, counts, spectra,
      surface
<1>15. ASSUME NEW s \in Side, TransferContinuous(s)
      PROVE  CountedAtSurface'
  BY <1>15, SurfaceAssumption
  DEF TransferContinuous, InUpper, To, PhaseAfterFrame, DarkDue, TakeNextIndex, Expose, Counted,
      AtTurn, AtTransfer, Transfers, IInv, CountedAtSurface, TypeOK, Side, Stream, control,
      command, exposure, counts, spectra, surface
<1>16. ASSUME NEW s \in Side, TransferLast(s)
      PROVE  CountedAtSurface'
  BY <1>16, SurfaceAssumption
  DEF TransferLast, InUpper, To, DarkDue, TakeNextIndex, Expose, AtTurn, AtTransfer, Transfers,
      IInv, CountedAtSurface, TypeOK, Side, Stream, control, command, exposure, counts, spectra,
      surface
<1> QED
  BY <1>1, <1>2, <1>3, <1>4, <1>5, <1>6, <1>7, <1>8, <1>9, <1>10, <1>11, <1>12, <1>13, <1>14,
     <1>15, <1>16
  DEF Next, Receive, Decide, Step, Transfer

LEMMA Initially == Init => IInv
<1> SUFFICES ASSUME Init PROVE IInv  OBVIOUS
<1>1. All(TRUE) \in [Side -> BOOLEAN] /\ All("Idle") \in [Side -> Phases]
  BY DEF All, Phases
<1>2. TypeOK
  <2>1. Times \in Nat /\ 1 \in 1 .. Times /\ 0 \in 0 .. Times  BY TimesAssumption
  <2>2. /\ index \in [Side -> 1 .. Times] /\ nextIndex \in [Side -> 1 .. Times]
        /\ time \in [Side -> 0 .. Times] /\ dark \in [Side -> 0 .. Times]
        /\ darks \in [Side -> Nat] /\ lights \in [Side -> Nat]
        /\ closed \in [Side -> BOOLEAN] /\ DAQ_Phase \in [Side -> Phases]
    BY <1>1, <2>1 DEF Init, All
  <2>3. nextPoint \in 0 .. Len(Points)  BY PointsAssumption DEF Init
  <2>4. numAtSurface \in 0 .. SurfaceLimit /\ surfaced \in 0 .. SurfaceLimit
    BY SurfaceAssumption DEF Init
  <2>5. /\ DAQ_state \in Stream \union {"Idle", "FloatProfile", "DarkCharacterize"}
        /\ turn \in {"receive", "decide"} \union Side
        /\ PRF_action \in {"Complete", "Continuous", "Single", "Delay"}
    BY DEF Init
  <2>6. /\ prepareToStop \in BOOLEAN /\ OCR_started \in BOOLEAN /\ ocr \in BOOLEAN
        /\ atSurface \in BOOLEAN /\ carried \in BOOLEAN /\ misled \in BOOLEAN
    BY DEF Init
  <2>7. setup \in Setups /\ fixed \in 0 .. Times /\ runLength \in Nat \ {0}
    BY <2>1 DEF Init
  <2> QED  BY <2>2, <2>3, <2>4, <2>5, <2>6, <2>7 DEF TypeOK
<1>3. \A s \in Side : DAQ_Phase[s] = "Idle"  BY DEF Init, All
<1>4. DAQ_state = "Idle" /\ prepareToStop = FALSE /\ OCR_started = FALSE  BY DEF Init
<1>5. CannotHappen  BY <1>3 DEF CannotHappen
<1>6. Ordered  BY <1>3, <1>4 DEF Ordered
<1>7. Exposed  BY <1>3, <1>4 DEF Exposed, LightPhases
<1>8. CountedLights  BY <1>3 DEF CountedLights
<1>9. CountedAtSurface  BY <1>4 DEF CountedAtSurface
<1> QED  BY <1>2, <1>5, <1>6, <1>7, <1>8, <1>9 DEF IInv

LEMMA Stuttering == IInv /\ UNCHANGED vars => IInv'
<1> SUFFICES ASSUME IInv, UNCHANGED vars PROVE IInv'  OBVIOUS
<1> USE DEF vars, control, command, exposure, counts, spectra, surface
<1>1. TypeOK'  BY DEF IInv, TypeOK
<1>2. CannotHappen'  BY DEF IInv, CannotHappen
<1>3. Ordered'  BY DEF IInv, Ordered, Installed
<1>4. Exposed'  BY DEF IInv, Exposed
<1>5. CountedLights'  BY DEF IInv, CountedLights
<1>6. CountedAtSurface'  BY DEF IInv, CountedAtSurface
<1> QED  BY <1>1, <1>2, <1>3, <1>4, <1>5, <1>6 DEF IInv

LEMMA Inductive == IInv /\ [Next]_vars => IInv'
<1>1. ASSUME IInv, Next PROVE IInv'
  BY <1>1, TypesKept, CannotHappenKept, OrderedKept, ExposedKept, CountedLightsKept,
     CountedAtSurfaceKept
  DEF IInv
<1> QED  BY <1>1, Stuttering

LEMMA Invariant == Spec => []IInv
<1> QED  BY Initially, Inductive, PTL DEF Spec

----------------------------------------------------------------------------
(* The theorems *)

(* The phases, counters and indices of the acquisition stay in their       *)
(* ranges, for any set of instruments: an index of an integration time is  *)
(* one of a time there is, and the next point at most the one after the    *)
(* last.                                                                   *)
THEOREM TypeCorrect == Spec => []TypeOK
<1> QED  BY Invariant, PTL DEF IInv

(* The branches marked "Cannot happen" and "Impossible" in DAQ_Task are    *)
(* dead code.                                                              *)
THEOREM NeverHappens == Spec => []CannotHappen
<1> QED  BY Invariant, PTL DEF IInv

(* A frame combines spectra of one acquisition and one integration time,   *)
(* with the shutter where it should be.                                    *)
THEOREM SpectraAlwaysMatch == Spec => []SpectraMatch
<1>1. IInv => SpectraMatch
  <2> SUFFICES ASSUME IInv, NEW s \in Side
               PROVE  /\ DAQ_Phase[s] \in {"TransferD", "TransferLMD"} =>
                           dark[s] = time[s] /\ time[s] # 0
                      /\ DAQ_Phase[s] \in {"GetLight", "TransferL", "TransferLMD"} => ~closed[s]
                      /\ DAQ_Phase[s] \in {"StartDark", "GetDark"} => closed[s]
    BY DEF SpectraMatch
  <2>1. DAQ_Phase[s] # "Idle" => time[s] # 0  BY DEF IInv, CannotHappen, Exposed
  <2>2. DAQ_Phase[s] \in {"TransferD", "TransferLMD"} => dark[s] = time[s]
    BY DEF IInv, Exposed, LightPhases
  <2>3. DAQ_Phase[s] \in {"GetLight", "TransferL", "TransferLMD"} => closed[s] = FALSE
    BY DEF IInv, Exposed
  <2>4. DAQ_Phase[s] \in {"StartDark", "GetDark"} => closed[s] = TRUE
    BY DEF IInv, Exposed
  <2> QED  BY <2>1, <2>2, <2>3, <2>4
<1> QED  BY Invariant, <1>1, PTL

(* A dark spectrum serves for no more light spectra than were ordered,     *)
(* although DAQ_Task compares the count for equality only.                 *)
THEOREM DarkAlwaysRecent == Spec => []DarkIsRecent
<1>1. IInv => DarkIsRecent  BY DEF IInv, CountedLights, DarkIsRecent
<1> QED  BY Invariant, <1>1, PTL

(* A profile that ends by itself has given the ordered number of frames at *)
(* the surface, unless its count was left over from another profile.       *)
THEOREM AlwaysEnoughAtSurface == Spec => []EnoughAtSurface
<1>1. IInv => EnoughAtSurface  BY DEF IInv, CountedAtSurface, EnoughAtSurface
<1> QED  BY Invariant, <1>1, PTL

(* The OCR runs while the upper part of a profile is taken, unless a       *)
(* CMD_DAQ_Stop has stopped it behind the back of OCR_started.             *)
THEOREM OcrAlwaysRuns == Spec => []OcrRuns
<1>1. IInv => OcrRuns  BY DEF IInv, Ordered, OcrRuns, Resting
<1> QED  BY Invariant, <1>1, PTL

(* After the decision to stop nothing is set to work again: MayStop keeps  *)
(* Measure from starting the spectrometers, and no command starts an       *)
(* acquisition before the old one has ended.                               *)
THEOREM NothingEverStartsWhileStopping == Spec => NothingStartsWhileStopping
<1> DEFINE Still == prepareToStop => \A s \in Side : DAQ_Phase[s] = "Idle" => DAQ_Phase'[s] = "Idle"
<1>1. ASSUME IInv, Next PROVE Still
  <2> SUFFICES ASSUME prepareToStop, NEW r \in Side, DAQ_Phase[r] = "Idle"
               PROVE  DAQ_Phase'[r] = "Idle"
    OBVIOUS
  <2>1. DAQ_state # "Idle" /\ DAQ_Phase \in [Side -> Phases]  BY <1>1 DEF IInv, Ordered, TypeOK
  <2>2. CASE Receive
    BY <2>1, <2>2 DEF Receive, NoCommand, Stop, ProfilingEnd, Start, Profiling
  <2>3. CASE StopAcquisition \/ NothingToDecide
    BY <2>3 DEF StopAcquisition, NothingToDecide
  <2>4. CASE \E p \in Pressures : Measure(p)
    BY <2>4 DEF Measure, MayStop, MayMeasure
  <2>5. ASSUME NEW s \in Side, Step(s) PROVE DAQ_Phase'[r] = "Idle"
    <3>1. r # s => DAQ_Phase'[r] = DAQ_Phase[r]
      BY <2>1, <2>5
      DEF Step, StayIdle, CloseShutter, OpenShutter, StartSampling, SamplingFails, Wait, GetDark,
          GetLight, Transfer, TransferStopping, TransferDark, TransferStream, TransferSingle,
          TransferContinuous, TransferSurfaced, TransferLast, To
    <3>2. DAQ_Phase[s] = "Idle" => DAQ_Phase' = DAQ_Phase
      BY <2>5
      DEF Step, StayIdle, CloseShutter, OpenShutter, StartSampling, SamplingFails, Wait, GetDark,
          GetLight, Transfer, TransferStopping, TransferDark, TransferStream, TransferSingle,
          TransferContinuous, TransferSurfaced, TransferLast, InUpper, AtTurn, AtTransfer, Transfers
    <3> QED  BY <3>1, <3>2
  <2> QED  BY <1>1, <2>2, <2>3, <2>4, <2>5 DEF Next, Decide
<1>2. ASSUME UNCHANGED vars PROVE Still  BY <1>2 DEF vars
<1>3. IInv /\ [Next]_vars => [Still]_vars  BY <1>1, <1>2
<1> QED  BY Invariant, <1>3, PTL DEF Spec, NothingStartsWhileStopping

=============================================================================

----------------------------- MODULE BoardStartup -----------------------------
(***************************************************************************)
(* How the two boards get ready, and how they find each other again after  *)
(* the spectrometer board has been reset.  The commander of the controller *)
(* pings the other board until it answers, sends it the time and the       *)
(* configuration, and asks for the number of the configuration until it    *)
(* gets the right one; then it accepts commands, and starts on its own if  *)
(* no input comes.  A spectrometer board that has started says so.         *)
(*                                                                         *)
(* What goes to the other board waits in the queue of the data exchange    *)
(* task (queue), is sent over the link, and waits again on that board      *)
(* (down).  Packets that are under way, on both ways, may be lost          *)
(* (DataExchange, FrameChannel).  Profiles are begun and ended by the      *)
(* profile manager, which the commander gives orders.  A reset of the      *)
(* controller holds the other board in reset too: the initial state        *)
(* follows it.                                                             *)
(***************************************************************************)
EXTENDS Naturals, SequencesExt

CONSTANTS
  Counter,       \* the power cycle counter, which numbers the configuration
  MaxResets,     \* bounds on the resets of the spectrometer board,
  MaxLosses,     \* on the packets that are lost by a full queue, or under
                 \* way while it runs,
  MaxInputs,     \* on the inputs at the serial line
  MaxInTransit   \* and on the packets under way when more are sent on time

(* The counter is incremented before its first use.                        *)
ASSUME BoundAssumption ==
  /\ Counter \in Nat \ {0}
  /\ {MaxResets, MaxLosses, MaxInputs, MaxInTransit} \subseteq Nat

(* Config_Data_t: its number, the vertical of the accelerometer, the rest: *)
(* as on the controller, zero, or neither.                                 *)
Config_Data ==
  [id : {0, Counter}, vertical : {"own", "zero", "none"}, rest : {"own", "none"}]

Default == [id |-> 0, vertical |-> "none", rest |-> "none"]

Code == {"Ping", "SyncTime", "Configuration", "Query", "Profiling", "Profiling_End"}
Down == [code : Code, cfg : Config_Data]
Up == [code : {"StartSpecBoard", "Ping", "Query", "Offloading"}, id : {0, Counter}]

VARIABLES
  board,      \* specBoard_state
  selfStart,  \* self_start
  op,         \* the operation state
  package,    \* sending_data_package: its state
  memory,     \* and the Config_Data_t in it
  orders,     \* the commands of the commander to the profile manager
  pmg,        \* pmg_state; PMG_Idle is "Idle" or, with a profile_id, "Ended"
  queue,      \* the codes of the packets in the queue of the data exchange
  down, up,   \* the packets to the spectrometer board and from it
  running,    \* the spectrometer board has started
  cfg,        \* cfg_data of the spectrometer board
  synced,     \* its time has been set
  daq,        \* DAQ_state; "Stopping" is DAQ_Stt_FloatProfile in its stop
  resets, losses, inputs,  \* how many there have been
  startLost,  \* history: the StartSpecBoard of the last start has been lost
  slipped,    \* history: a SyncTime has been lost, or a reset has come between
              \* it and its configuration
  repeated,   \* history: the configuration has been sent again
  cancelled   \* history: an input has cancelled the resumption of a profile

commander == <<board, selfStart, op, package, memory>>
manager == <<orders, pmg>>
spectrometer == <<running, cfg, synced, daq>>
counts == <<resets, losses, inputs>>
history == <<startLost, slipped, repeated, cancelled>>
vars == <<commander, manager, queue, down, up, spectrometer, counts, history>>

Init ==
  /\ board = "Unknown" /\ selfStart = TRUE /\ op = "Prompt"
  /\ package = "Empty" /\ memory = Default
  /\ orders = <<>> /\ pmg = "Idle"
  /\ queue = <<>> /\ down = <<>> /\ up = <<>>
  /\ running = FALSE /\ cfg = Default /\ synced = FALSE /\ daq = "Idle"
  /\ resets = 0 /\ losses = 0 /\ inputs = 0
  /\ startLost = FALSE /\ slipped = FALSE /\ repeated = FALSE /\ cancelled = FALSE

InTransit == Len(queue) + Len(down) + Len(up)

----------------------------------------------------------------------------
(* The commander of the controller *)

(* Every two seconds.                                                      *)
Ping ==
  /\ board = "Unknown"
  /\ InTransit < MaxInTransit
  /\ queue' = Append(queue, "Ping")
  /\ UNCHANGED <<commander, manager, down, up, spectrometer, counts, history>>

\* mutant of SendConfiguration: the package may still be on its way
SendConfigurationAgain(vertical, rest) ==
  /\ memory' = [id |-> Counter, vertical |-> vertical, rest |-> rest]
  /\ package' = "Full"
  /\ queue' = queue \o <<"SyncTime", "Configuration", "Query">>

\* mutant of SendConfiguration: the time comes last
SendConfigurationFirst(vertical, rest) ==
  IF package = "Empty"
    THEN /\ memory' = [id |-> Counter, vertical |-> vertical, rest |-> rest]
         /\ package' = "Full"
         /\ queue' = queue \o <<"Configuration", "Query", "SyncTime">>
    ELSE UNCHANGED <<memory, package, queue>>

(* The time, the configuration in the package, and the query, unless the   *)
(* package holds a configuration still that was not sent.                  *)
SendConfiguration(vertical, rest) ==
  IF package = "Empty"
    THEN /\ memory' = [id |-> Counter, vertical |-> vertical, rest |-> rest]
         /\ package' = "Full"
         /\ queue' = queue \o <<"SyncTime", "Configuration", "Query">>
    ELSE UNCHANGED <<memory, package, queue>>

\* mutant of Resend: without the query
ResendUnasked ==
  /\ board = "Alive" /\ package = "Empty"
  /\ InTransit + 3 <= MaxInTransit
  /\ memory' = [memory EXCEPT !.vertical = "zero"] /\ package' = "Full"
  /\ queue' = queue \o <<"SyncTime", "Configuration">>
  /\ repeated' = TRUE
  /\ UNCHANGED <<board, selfStart, op, manager, down, up, spectrometer, counts,
                 startLost, slipped, cancelled>>

(* Every five seconds, and with the vertical of the accelerometer zero.    *)
(* The rest of the package is what an earlier sending left in it.          *)
Resend ==
  /\ board = "Alive" /\ package = "Empty"
  /\ InTransit + 3 <= MaxInTransit
  /\ SendConfiguration("zero", memory.rest)
  /\ repeated' = TRUE
  /\ UNCHANGED <<board, selfStart, op, manager, down, up, spectrometer, counts,
                 startLost, slipped, cancelled>>

(* CMD_CMC_StartSpecBoard *)
TakeStart ==
  /\ up # <<>> /\ Head(up).code = "StartSpecBoard"
  /\ up' = Tail(up)
  /\ board' = "Unknown"
  /\ UNCHANGED <<selfStart, op, package, memory, manager, queue, down, spectrometer,
                 counts, history>>

\* mutant of TakePing: the rest is left to the repetitions
TakePingShort ==
  /\ up # <<>> /\ Head(up).code = "Ping"
  /\ up' = Tail(up)
  /\ IF board = "Unknown" THEN board' = "Alive" /\ SendConfiguration("own", memory.rest)
                          ELSE UNCHANGED <<board, memory, package, queue>>
  /\ UNCHANGED <<selfStart, op, manager, down, spectrometer, counts, history>>

(* RSP_ALL_Ping *)
TakePing ==
  /\ up # <<>> /\ Head(up).code = "Ping"
  /\ up' = Tail(up)
  /\ IF board = "Unknown" THEN board' = "Alive" /\ SendConfiguration("own", "own")
                          ELSE UNCHANGED <<board, memory, package, queue>>
  /\ UNCHANGED <<selfStart, op, manager, down, spectrometer, counts, history>>

\* mutant of TakeQuery: any answer will do
TakeQueryAny ==
  /\ up # <<>> /\ Head(up).code = "Query"
  /\ up' = Tail(up)
  /\ IF board # "Ready" THEN board' = "Ready" /\ selfStart' = TRUE
                        ELSE UNCHANGED <<board, selfStart>>
  /\ UNCHANGED <<op, package, memory, manager, queue, down, spectrometer, counts,
                 history>>

\* mutant of TakeQuery: self_start as it is
TakeQueryOnce ==
  /\ up # <<>> /\ Head(up).code = "Query"
  /\ up' = Tail(up)
  /\ board' = IF Head(up).id = Counter THEN "Ready" ELSE board
  /\ UNCHANGED <<selfStart, op, package, memory, manager, queue, down, spectrometer,
                 counts, history>>

(* RSP_CMS_Query *)
TakeQuery ==
  /\ up # <<>> /\ Head(up).code = "Query"
  /\ up' = Tail(up)
  /\ IF board # "Ready" /\ Head(up).id = Counter
       THEN board' = "Ready" /\ selfStart' = TRUE
       ELSE UNCHANGED <<board, selfStart>>
  /\ UNCHANGED <<op, package, memory, manager, queue, down, spectrometer, counts,
                 history>>

(* When the countdown has ended, whatever the profile manager does. *)
SelfStart ==
  /\ board = "Ready" /\ selfStart
  /\ selfStart' = FALSE
  /\ op' = "Profiling"
  /\ orders' = Append(orders, "Profile")
  /\ UNCHANGED <<board, package, memory, pmg, queue, down, up, spectrometer, counts,
                 history>>

PRFBEG ==
  IF op = "Profiling" THEN UNCHANGED <<op, orders>>
  ELSE op' = "Profiling" /\ orders' = Append(orders, "Profile")

PRFEND ==
  /\ op' = "Prompt"
  /\ orders' = IF op = "Profiling" THEN Append(orders, "Profile_End") ELSE orders

(* Any input cancels the countdown; a command needs a board that is ready. *)
Input(c) ==
  /\ inputs < MaxInputs /\ inputs' = inputs + 1
  /\ selfStart' = FALSE
  /\ IF board = "Ready"
       THEN CASE c = "PRFBEG" -> PRFBEG
              [] c = "PRFEND" -> PRFEND
              [] c = "W" -> UNCHANGED <<op, orders>>
       ELSE UNCHANGED <<op, orders>>
  /\ cancelled' = (cancelled \/ (board = "Ready" /\ selfStart /\ pmg = "Profiling"))
  /\ UNCHANGED <<board, package, memory, pmg, queue, down, up, spectrometer, resets,
                 losses, startLost, slipped, repeated>>

----------------------------------------------------------------------------
(* The profile manager of the controller *)

Order(code) ==
  /\ orders # <<>> /\ Head(orders) = code
  /\ orders' = Tail(orders)
  /\ UNCHANGED <<commander, down, up, spectrometer, counts, history>>

(* CMD_PMG_Profile in PMG_Idle; profile_start may fail.                    *)
BeginProfile ==
  /\ Order("Profile") /\ pmg \in {"Idle", "Ended"}
  /\ \/ pmg' = "Profiling" /\ queue' = Append(queue, "Profiling")
     \/ pmg' = "Idle" /\ UNCHANGED queue

(* The same in PMG_Profiling: the acquisition is told again.               *)
RepeatProfile ==
  /\ Order("Profile") /\ pmg = "Profiling"
  /\ queue' = Append(queue, "Profiling")
  /\ UNCHANGED pmg

(* CMD_PMG_Profile_End, in PMG_Idle again if it has come before.           *)
EndProfile ==
  /\ Order("Profile_End") /\ pmg # "Offloading"
  /\ pmg' = IF pmg = "Profiling" THEN "Ended" ELSE pmg
  /\ queue' = Append(queue, "Profiling_End")

(* Neither has an effect while frames are returned.                        *)
IgnoreOrder ==
  /\ pmg = "Offloading"
  /\ Order("Profile") \/ Order("Profile_End")
  /\ UNCHANGED <<pmg, queue>>

(* CMD_PMG_Offloading: the frames come, and until they have been returned  *)
(* and transferred (module ProfileSession) there is no way back.           *)
TakeOffloading ==
  /\ up # <<>> /\ Head(up).code = "Offloading"
  /\ up' = Tail(up)
  /\ pmg' = IF pmg = "Idle" THEN "Idle" ELSE "Offloading"
  /\ UNCHANGED <<commander, orders, queue, down, spectrometer, counts, history>>

----------------------------------------------------------------------------
(* The data exchange of the controller sends the oldest packet, and frees  *)
(* the package it names, whether the other board has received it or not.   *)

Send ==
  /\ queue # <<>> /\ queue' = Tail(queue)
  /\ package' = IF Head(queue) = "Configuration" THEN "Empty" ELSE package
  /\ LET content == IF Head(queue) = "Configuration" THEN memory ELSE Default
     IN  down' = IF running
                   THEN Append(down, [code |-> Head(queue), cfg |-> content])
                   ELSE down
  /\ slipped' = (slipped \/ (Head(queue) = "SyncTime" /\ ~running))
  /\ UNCHANGED <<board, selfStart, op, memory, manager, up, spectrometer, counts,
                 startLost, repeated, cancelled>>

----------------------------------------------------------------------------
(* The spectrometer board *)

Take(code) ==
  /\ running /\ down # <<>> /\ Head(down).code = code
  /\ down' = Tail(down)
  /\ UNCHANGED <<commander, manager, queue, running, counts, startLost, repeated,
                 cancelled>>

AnswerPing ==
  /\ Take("Ping")
  /\ up' = Append(up, [code |-> "Ping", id |-> 0])
  /\ UNCHANGED <<cfg, synced, daq, slipped>>

AnswerQuery ==
  /\ Take("Query")
  /\ up' = Append(up, [code |-> "Query", id |-> cfg.id])
  /\ UNCHANGED <<cfg, synced, daq, slipped>>

SyncTime ==
  /\ Take("SyncTime")
  /\ synced' = TRUE /\ slipped' = FALSE
  /\ UNCHANGED <<up, cfg, daq>>

(* CFG_Set *)
Configure ==
  /\ Take("Configuration")
  /\ cfg' = Head(down).cfg
  /\ UNCHANGED <<up, synced, daq, slipped>>

(* The start and the end of the acquisition (module Acquisition): a start  *)
(* is taken only at rest.                                                  *)
Acquire ==
  /\ \/ /\ Take("Profiling")
        /\ daq' = IF daq = "Idle" THEN "FloatProfile" ELSE daq
     \/ /\ Take("Profiling_End")
        /\ daq' = IF daq = "FloatProfile" THEN "Stopping" ELSE daq
  /\ UNCHANGED <<up, cfg, synced, slipped>>

(* The instrument is at the surface.                                       *)
Surface ==
  /\ daq = "FloatProfile"
  /\ daq' = "Stopping"
  /\ UNCHANGED <<commander, manager, queue, down, up, running, cfg, synced, counts,
                 history>>

(* The acquisition has stopped, and the frames will be returned.           *)
StopCompletes ==
  /\ daq = "Stopping"
  /\ daq' = "Idle"
  /\ up' = Append(up, [code |-> "Offloading", id |-> 0])
  /\ UNCHANGED <<commander, manager, queue, down, running, cfg, synced, counts, history>>

(* The watchdog, or any other reset.  What was sent to that board is lost, *)
(* and what it has not sent yet.                                           *)
Reset ==
  /\ running /\ resets < MaxResets
  /\ resets' = resets + 1
  /\ running' = FALSE /\ cfg' = Default /\ synced' = FALSE /\ daq' = "Idle"
  /\ down' = <<>>
  /\ \E n \in 0 .. Len(up) : up' = SubSeq(up, 1, n)
  /\ slipped' = (slipped \/ "Configuration" \in Range(queue))
  /\ UNCHANGED <<commander, manager, queue, losses, inputs, startLost, repeated,
                 cancelled>>

(* The tasks have been resumed, and the commander begins its loop.         *)
Start ==
  /\ ~running
  /\ running' = TRUE
  /\ up' = Append(up, [code |-> "StartSpecBoard", id |-> 0])
  /\ startLost' = FALSE
  /\ UNCHANGED <<commander, manager, queue, down, cfg, synced, daq, counts, slipped,
                 repeated, cancelled>>

----------------------------------------------------------------------------
(* Losses *)

(* The queue of the data exchange was full when the packet came: it is     *)
(* dropped, and a package that it names is not freed.                      *)
Drop(i) ==
  /\ losses < MaxLosses /\ losses' = losses + 1
  /\ queue' = RemoveAt(queue, i)
  /\ slipped' = (slipped \/ queue[i] = "SyncTime")
  /\ UNCHANGED <<commander, manager, down, up, spectrometer, resets, inputs, startLost,
                 repeated, cancelled>>

(* On the link, or at a full queue of the other board.                     *)
LoseDown(i) ==
  /\ losses < MaxLosses /\ losses' = losses + 1
  /\ down' = RemoveAt(down, i)
  /\ slipped' = (slipped \/ down[i].code = "SyncTime")
  /\ UNCHANGED <<commander, manager, queue, up, spectrometer, resets, inputs, startLost,
                 repeated, cancelled>>

LoseUp(i) ==
  /\ losses < MaxLosses /\ losses' = losses + 1
  /\ up' = RemoveAt(up, i)
  /\ startLost' = (startLost \/ up[i].code = "StartSpecBoard")
  /\ UNCHANGED <<commander, manager, queue, down, spectrometer, resets, inputs, slipped,
                 repeated, cancelled>>

----------------------------------------------------------------------------
ProfileManager ==
  BeginProfile \/ RepeatProfile \/ EndProfile \/ IgnoreOrder

Next ==
  \/ Ping \/ Resend \/ TakeStart \/ TakePing \/ TakeQuery \/ SelfStart
  \/ \E c \in {"PRFBEG", "PRFEND", "W"} : Input(c)
  \/ ProfileManager \/ TakeOffloading
  \/ Send
  \/ AnswerPing \/ AnswerQuery \/ SyncTime \/ Configure \/ Acquire
  \/ Surface \/ StopCompletes
  \/ Reset \/ Start
  \/ \E i \in 1 .. Len(queue) : Drop(i)
  \/ \E i \in 1 .. Len(down) : LoseDown(i)
  \/ \E i \in 1 .. Len(up) : LoseUp(i)

(* The loops go on, a stop completes, and a board that was reset starts    *)
(* again.                                                                  *)
Fairness ==
  /\ WF_vars(Ping) /\ WF_vars(Resend) /\ WF_vars(Send)
  /\ WF_vars(TakeStart \/ TakePing \/ TakeQuery \/ TakeOffloading)
  /\ WF_vars(SelfStart) /\ WF_vars(ProfileManager)
  /\ WF_vars(AnswerPing \/ AnswerQuery \/ SyncTime \/ Configure \/ Acquire)
  /\ WF_vars(StopCompletes) /\ WF_vars(Start)

Spec == Init /\ [][Next]_vars
FairSpec == Spec /\ Fairness

----------------------------------------------------------------------------
(* Properties *)

TypeOK ==
  /\ board \in {"Unknown", "Alive", "Ready"} /\ selfStart \in BOOLEAN
  /\ op \in {"Prompt", "Profiling"}
  /\ package \in {"Empty", "Full"} /\ memory \in Config_Data
  /\ orders \in Seq({"Profile", "Profile_End"})
  /\ pmg \in {"Idle", "Ended", "Profiling", "Offloading"}
  /\ queue \in Seq(Code) /\ down \in Seq(Down) /\ up \in Seq(Up)
  /\ running \in BOOLEAN /\ cfg \in Config_Data /\ synced \in BOOLEAN
  /\ daq \in {"Idle", "FloatProfile", "Stopping"}
  /\ resets \in 0 .. MaxResets /\ losses \in 0 .. MaxLosses
  /\ inputs \in 0 .. MaxInputs
  /\ startLost \in BOOLEAN /\ slipped \in BOOLEAN
  /\ repeated \in BOOLEAN /\ cancelled \in BOOLEAN

(* The package is filled only when it is empty: its pointer waits in the   *)
(* queue of the data exchange once at most, and only while the package is  *)
(* full, although two handlers fill it and another task frees it.  The     *)
(* converse does not hold: a package whose pointer was dropped stays full. *)
PackageStays ==
  \A i, j \in 1 .. Len(queue) :
    queue[i] = "Configuration" /\ queue[j] = "Configuration" =>
      i = j /\ package = "Full"

(* The board has been reset and the commander will or cannot learn it.     *)
Untold ==
  \/ ~running \/ startLost
  \/ \E i \in 1 .. Len(up) : up[i].code = "StartSpecBoard"

(* "Only after that, start data acquisition": a board that counts as ready *)
(* has a configuration of this power cycle, although answers may be late   *)
(* and from before a reset; unless the commander could not learn of the    *)
(* reset yet.                                                              *)
ReadyIsConfigured == board = "Ready" => cfg.id = Counter \/ Untold

(* The board never works with memory that was not filled, whichever        *)
(* sending got through; and only one that was repeated has taken away the  *)
(* vertical of the accelerometer.                                          *)
ConfigurationIsWhole ==
  cfg # Default => cfg.rest = "own" /\ (cfg.vertical = "own" \/ repeated)

(* "Then, sync time, send configuration parameters & query state until     *)
(* ready": the time of a ready board has been set, unless that packet was  *)
(* lost or a reset came between it and the configuration.                  *)
ClockIsSet == board = "Ready" => synced \/ slipped \/ Untold

(* A configuration was dropped by the full queue of the data exchange: its *)
(* package stays full, and nothing is ever sent again.                     *)
Stuck == package = "Full" /\ "Configuration" \notin Range(queue)

(* The board gets ready, after every reset, whatever packets are lost on   *)
(* the way or at the full queues of both boards; unless the one that is    *)
(* dropped by the controller is the configuration.                         *)
BecomesReady == board # "Ready" ~> board = "Ready" \/ Stuck

(* A profile that is under way when the board is reset is taken up again,  *)
(* and every profile that was begun is acquired until it is ended or the   *)
(* frames are returned, unless a packet is lost or an input cancels the    *)
(* countdown.                                                              *)
AcquisitionResumes ==
  pmg = "Profiling" ~>
    daq = "FloatProfile" \/ pmg # "Profiling" \/ losses > 0 \/ cancelled
=============================================================================

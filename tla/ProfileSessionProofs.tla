-------------------------- MODULE ProfileSessionProofs --------------------------
(***************************************************************************)
(* Safety of the profile session with a NAVIS that waits for the result of *)
(* a transfer before it begins the next profile, for every number of       *)
(* spectrometers, profiles, commands and frames, whatever packets are lost *)
(* and files fail.                                                         *)
(***************************************************************************)
EXTENDS ProfileSession, TLAPS

----------------------------------------------------------------------------
(* What the channels hold *)

(* The orders from the commander.                                           *)
Ends == {"Profile_End", "Transmit"}
Begins(o) == \E i \in 1 .. Len(o) : o[i] = "Profile"
BeginsOnce(o) ==
  \A i, j \in 1 .. Len(o) : o[i] = "Profile" /\ o[j] = "Profile" => i = j
Ended(o) == \E i \in 1 .. Len(o) : o[i] \in Ends
EndedAfter(o) ==
  \A i \in 1 .. Len(o) :
    o[i] = "Profile" => \E j \in i + 1 .. Len(o) : o[j] \in Ends

(* The commands to the data acquisition.                                    *)
Starts(d) == \E i \in 1 .. Len(d) : d[i].code = "Profiling"
StartsOnce(d) ==
  \A i, j \in 1 .. Len(d) : d[i].code = "Profiling" /\ d[j].code = "Profiling" => i = j

(* The packets from the data acquisition.                                   *)
Reports(u) == \E i \in 1 .. Len(u) : u[i].code = "Offloading_Done"
ReportsOnce(u) ==
  \A i, j \in 1 .. Len(u) :
    u[i].code = "Offloading_Done" /\ u[j].code = "Offloading_Done" => i = j
Followed(u) ==
  \A i \in 1 .. Len(u) :
    u[i].code # "Offloading_Done" =>
      \E j \in i + 1 .. Len(u) : u[j].code = "Offloading_Done"
Announces(u) == \E i \in 1 .. Len(u) : u[i].code = "Offloading"
AnnouncedFirst(u) ==
  \A i \in 1 .. Len(u) :
    u[i].code # "Offloading" => \E j \in 1 .. i - 1 : u[j].code = "Offloading"
Brought(u) ==
  {f \in Frame : \E i \in 1 .. Len(u) : u[i].code = "frame" /\ u[i].frame = f}

(* The frames in flash memory.                                              *)
Held(s) == {f \in Frame : \E i \in 1 .. Len(s) : s[i] = f}

----------------------------------------------------------------------------
(* The inductive invariant *)

(* The acquisition is on, or its frames are on their way.                   *)
Acquiring == daq # "Idle" \/ offload \/ Reports(up)

(* Between PRFBEG and the result of its transfer a profile is in one of     *)
(* these places at a time, and in none when NAVIS may begin another.        *)
OneRun ==
  /\ BeginsOnce(orders) /\ StartsOnce(down) /\ ReportsOnce(up) /\ results \in 0 .. 1
  /\ Begins(orders) => ~Starts(down) /\ ~Acquiring /\ ~offDone /\ results = 0
  /\ Starts(down) => ~Acquiring /\ ~offDone /\ results = 0
  /\ daq # "Idle" => ~offload /\ ~Reports(up)
  /\ offload => ~Reports(up)
  /\ Acquiring => ~offDone /\ results = 0
  /\ offDone => results = 0
  /\ ~pending => ~Begins(orders) /\ ~Starts(down) /\ ~Acquiring /\ ~offDone /\ results = 0

(* Nothing of an acquisition remains behind its end.                        *)
NothingLeft ==
  /\ ~offload => Followed(up)
  /\ flash # <<>> => daq # "Idle" \/ offload

(* Where no profile is under way the profile manager is idle.               *)
QuietMeansIdle == Begins(orders) \/ results > 0 \/ ~pending => pmg = "Idle"

Counted == started + (IF Begins(orders) THEN 1 ELSE 0) <= begun.profiles

(* A profile that has not been started has no frames; started and not       *)
(* begun, neither.                                                          *)
Fresh ==
  /\ \A p \in Profile : p > started => acquired[p] = {}
  /\ for <= started
  /\ \A i \in 1 .. Len(down) :
       down[i].code = "Profiling" =>
         /\ down[i].for \in 1 .. started /\ acquired[down[i].for] = {}
         /\ profile \in {NoProfile, down[i].for}

(* All frames under way belong to the profile of the acquisition, and the   *)
(* profile manager works on that one or on none.                            *)
Belongs ==
  /\ Held(flash) \cup Brought(up) \subseteq IF for = NoProfile THEN {} ELSE acquired[for]
  /\ Acquiring \/ offDone => for # NoProfile /\ profile \in {NoProfile, for}

(* Nothing is lost before something fails.                                  *)
Conserved ==
  ~faulty =>
    /\ Starts(down) \/ Acquiring \/ offDone => profile # NoProfile
    /\ Acquiring \/ offDone =>
         acquired[for] = stored[for] \cup Held(flash) \cup Brought(up)
    /\ offload => pmg = "Offloading" \/ Announces(up)
    /\ pmg = "Offloading" \/ AnnouncedFirst(up)

SendingIsDone == sending => offDone

(* Whatever makes the profile manager profile is followed by its end.       *)
PromptFollows ==
  op # "Profiling" => (pmg = "Profiling" => Ended(orders)) /\ EndedAfter(orders)

IInv ==
  /\ TypeOK /\ OneRun /\ NothingLeft /\ QuietMeansIdle /\ Counted /\ Fresh
  /\ Belongs /\ Conserved /\ SendingIsDone /\ PromptFollows /\ OwnFrames

----------------------------------------------------------------------------
(* Sequences *)

LEMMA HeadAndTail ==
  ASSUME NEW S, NEW s \in Seq(S), s # <<>>
  PROVE  /\ Len(s) \in Nat \ {0} /\ Head(s) = s[1] /\ s[1] \in S
         /\ Tail(s) \in Seq(S) /\ Len(Tail(s)) = Len(s) - 1
         /\ \A i \in 1 .. Len(s) - 1 : Tail(s)[i] = s[i + 1]
  OBVIOUS

LEMMA Appended ==
  ASSUME NEW S, NEW s \in Seq(S), NEW e \in S
  PROVE  /\ Append(s, e) \in Seq(S) /\ Len(Append(s, e)) = Len(s) + 1
         /\ Append(s, e)[Len(s) + 1] = e
         /\ \A i \in 1 .. Len(s) : Append(s, e)[i] = s[i]
  OBVIOUS

LEMMA OneAdded ==
  ASSUME NEW S, NEW s \in Seq(S), NEW e \in S
  PROVE  s \o <<e>> = Append(s, e) /\ s \o <<>> = s
  OBVIOUS

LEMMA LastRemoved ==
  ASSUME NEW S, NEW s \in Seq(S), s # <<>>
  PROVE  LET t == SubSeq(s, 1, Len(s) - 1) IN
         /\ t \in Seq(S) /\ Len(t) = Len(s) - 1 /\ Len(s) \in Nat \ {0}
         /\ s[Len(s)] \in S
         /\ \A i \in 1 .. Len(s) - 1 : t[i] = s[i]
<1>1. Len(s) \in Nat \ {0} /\ s[Len(s)] \in S
  OBVIOUS
<1>2. ASSUME NEW n \in 0 .. Len(s)
      PROVE  /\ SubSeq(s, 1, n) \in Seq(S) /\ Len(SubSeq(s, 1, n)) = n
             /\ \A i \in 1 .. n : SubSeq(s, 1, n)[i] = s[i]
  OBVIOUS
<1>3. Len(s) - 1 \in 0 .. Len(s)
  BY <1>1
<1>. QED
  BY <1>1, <1>2, <1>3

----------------------------------------------------------------------------
(* The orders *)

LEMMA OrdersTail ==
  ASSUME NEW o \in Seq(Order), o # <<>>
  PROVE  /\ Head(o) \in Order /\ Tail(o) \in Seq(Order)
         /\ BeginsOnce(o) => BeginsOnce(Tail(o))
         /\ Head(o) # "Profile" => (Begins(Tail(o)) <=> Begins(o))
         /\ Head(o) = "Profile" => Begins(o) /\ (BeginsOnce(o) => ~Begins(Tail(o)))
         /\ EndedAfter(o) => EndedAfter(Tail(o))
         /\ Head(o) = "Profile" /\ EndedAfter(o) => Ended(Tail(o))
         /\ Head(o) \notin Ends /\ Ended(o) => Ended(Tail(o))
<1> DEFINE t == Tail(o)
<1>1. /\ Len(o) \in Nat \ {0} /\ Head(o) = o[1] /\ o[1] \in Order
      /\ t \in Seq(Order) /\ Len(t) = Len(o) - 1
      /\ \A i \in 1 .. Len(o) - 1 : t[i] = o[i + 1]
  BY HeadAndTail
<1> HIDE DEF t
<1>2. \A i \in 1 .. Len(o) : i # 1 => i - 1 \in 1 .. Len(t) /\ t[i - 1] = o[i]
  BY <1>1
<1>3. \A i \in 1 .. Len(t) : i + 1 \in 1 .. Len(o) /\ o[i + 1] = t[i]
  BY <1>1
<1>4. BeginsOnce(o) => BeginsOnce(t)
  <2> SUFFICES ASSUME BeginsOnce(o), NEW i \in 1 .. Len(t), NEW j \in 1 .. Len(t),
                      t[i] = "Profile", t[j] = "Profile"
               PROVE  i = j
    BY DEF BeginsOnce
  <2>1. i + 1 = j + 1
    BY <1>3 DEF BeginsOnce
  <2>. QED
    BY <2>1, <1>1
<1>5. Head(o) # "Profile" => (Begins(t) <=> Begins(o))
  BY <1>1, <1>2, <1>3 DEF Begins
<1>6. Head(o) = "Profile" => Begins(o)
  BY <1>1 DEF Begins
<1>7. Head(o) = "Profile" /\ BeginsOnce(o) => ~Begins(t)
  <2> SUFFICES ASSUME Head(o) = "Profile", BeginsOnce(o),
                      NEW i \in 1 .. Len(t), t[i] = "Profile"
               PROVE  FALSE
    BY DEF Begins
  <2>1. 1 \in 1 .. Len(o) /\ i + 1 \in 1 .. Len(o) /\ o[i + 1] = "Profile" /\ o[1] = "Profile"
    BY <1>1, <1>3
  <2>. QED
    BY <2>1 DEF BeginsOnce
<1>8. EndedAfter(o) => EndedAfter(t)
  <2> SUFFICES ASSUME EndedAfter(o), NEW i \in 1 .. Len(t), t[i] = "Profile"
               PROVE  \E j \in i + 1 .. Len(t) : t[j] \in Ends
    BY DEF EndedAfter
  <2>1. PICK j \in (i + 1) + 1 .. Len(o) : o[j] \in Ends
    BY <1>3 DEF EndedAfter
  <2>2. j \in 1 .. Len(o) /\ j # 1 /\ j - 1 \in i + 1 .. Len(t)
    BY <1>1, <2>1
  <2>. QED
    BY <1>2, <2>1, <2>2
<1>9. Head(o) = "Profile" /\ EndedAfter(o) => Ended(t)
  <2> SUFFICES ASSUME Head(o) = "Profile", EndedAfter(o) PROVE Ended(t)
    OBVIOUS
  <2>1. PICK j \in 1 + 1 .. Len(o) : o[j] \in Ends
    BY <1>1 DEF EndedAfter
  <2>2. j \in 1 .. Len(o) /\ j # 1
    BY <1>1, <2>1
  <2>. QED
    BY <1>2, <2>1, <2>2 DEF Ended
<1>10. Head(o) \notin Ends /\ Ended(o) => Ended(t)
  BY <1>1, <1>2 DEF Ended
<1>. QED
  BY <1>1, <1>4, <1>5, <1>6, <1>7, <1>8, <1>9, <1>10 DEF t

LEMMA OrdersAppend ==
  ASSUME NEW o \in Seq(Order), NEW e \in Order
  PROVE  LET t == Append(o, e) IN
         /\ t \in Seq(Order)
         /\ Begins(t) <=> Begins(o) \/ e = "Profile"
         /\ BeginsOnce(o) /\ (e = "Profile" => ~Begins(o)) => BeginsOnce(t)
         /\ Ended(o) => Ended(t)
         /\ e # "Profile" /\ EndedAfter(o) => EndedAfter(t)
         /\ e \in Ends => Ended(t) /\ EndedAfter(t)
<1> DEFINE t == Append(o, e)
<1>1. /\ t \in Seq(Order) /\ Len(t) = Len(o) + 1 /\ t[Len(o) + 1] = e
      /\ \A i \in 1 .. Len(o) : t[i] = o[i]
  BY Appended
<1>2. Len(o) \in Nat
  OBVIOUS
<1> HIDE DEF t
<1>3. \A i \in 1 .. Len(t) : (i \in 1 .. Len(o) /\ t[i] = o[i]) \/ (i = Len(o) + 1 /\ t[i] = e)
  BY <1>1, <1>2
<1>4. Begins(t) <=> Begins(o) \/ e = "Profile"
  <2>1. Begins(t) => Begins(o) \/ e = "Profile"
    BY <1>3 DEF Begins
  <2>2. Begins(o) \/ e = "Profile" => Begins(t)
    BY <1>1, <1>2 DEF Begins
  <2>. QED
    BY <2>1, <2>2
<1>5. BeginsOnce(o) /\ (e = "Profile" => ~Begins(o)) => BeginsOnce(t)
  <2> SUFFICES ASSUME BeginsOnce(o), e = "Profile" => ~Begins(o),
                      NEW i \in 1 .. Len(t), NEW j \in 1 .. Len(t),
                      t[i] = "Profile", t[j] = "Profile"
               PROVE  i = j
    BY DEF BeginsOnce
  <2>1. CASE e = "Profile"
    BY <1>3, <2>1 DEF Begins
  <2>2. CASE e # "Profile"
    BY <1>3, <2>2 DEF BeginsOnce
  <2>. QED
    BY <2>1, <2>2
<1>6. Ended(o) => Ended(t)
  BY <1>1, <1>2 DEF Ended
<1>7. e # "Profile" /\ EndedAfter(o) => EndedAfter(t)
  <2> SUFFICES ASSUME e # "Profile", EndedAfter(o), NEW i \in 1 .. Len(t), t[i] = "Profile"
               PROVE  \E j \in i + 1 .. Len(t) : t[j] \in Ends
    BY DEF EndedAfter
  <2>1. i \in 1 .. Len(o) /\ o[i] = "Profile"
    BY <1>3
  <2>2. PICK j \in i + 1 .. Len(o) : o[j] \in Ends
    BY <2>1 DEF EndedAfter
  <2>. QED
    BY <1>1, <1>2, <2>1, <2>2
<1>8. e \in Ends => Ended(t) /\ EndedAfter(t)
  <2> SUFFICES ASSUME e \in Ends PROVE Ended(t) /\ EndedAfter(t)
    OBVIOUS
  <2>1. e # "Profile"
    BY DEF Ends
  <2>2. Ended(t)
    BY <1>1, <1>2 DEF Ended
  <2>3. ASSUME NEW i \in 1 .. Len(t), t[i] = "Profile"
        PROVE  Len(o) + 1 \in i + 1 .. Len(t)
    BY <1>1, <1>2, <1>3, <2>1, <2>3
  <2>. QED
    BY <1>1, <2>2, <2>3 DEF EndedAfter
<1>. QED
  BY <1>1, <1>4, <1>5, <1>6, <1>7, <1>8 DEF t

----------------------------------------------------------------------------
(* The commands *)

LEMMA DownTail ==
  ASSUME NEW d \in Seq(DaqCommand), d # <<>>
  PROVE  /\ Head(d) \in DaqCommand /\ Tail(d) \in Seq(DaqCommand)
         /\ 1 \in 1 .. Len(d) /\ Head(d) = d[1]
         /\ \A i \in 1 .. Len(Tail(d)) : i + 1 \in 1 .. Len(d) /\ Tail(d)[i] = d[i + 1]
         /\ StartsOnce(d) => StartsOnce(Tail(d))
         /\ Starts(Tail(d)) => Starts(d)
         /\ Head(d).code = "Profiling" => Starts(d) /\ (StartsOnce(d) => ~Starts(Tail(d)))
<1> DEFINE t == Tail(d)
<1>1. /\ Len(d) \in Nat \ {0} /\ Head(d) = d[1] /\ d[1] \in DaqCommand
      /\ t \in Seq(DaqCommand) /\ Len(t) = Len(d) - 1
      /\ \A i \in 1 .. Len(d) - 1 : t[i] = d[i + 1]
  BY HeadAndTail
<1> HIDE DEF t
<1>2. \A i \in 1 .. Len(t) : i + 1 \in 1 .. Len(d) /\ t[i] = d[i + 1]
  BY <1>1
<1>3. StartsOnce(d) => StartsOnce(t)
  <2> SUFFICES ASSUME StartsOnce(d), NEW i \in 1 .. Len(t), NEW j \in 1 .. Len(t),
                      t[i].code = "Profiling", t[j].code = "Profiling"
               PROVE  i = j
    BY DEF StartsOnce
  <2>1. i + 1 = j + 1
    BY <1>2 DEF StartsOnce
  <2>. QED
    BY <2>1, <1>1
<1>4. Starts(t) => Starts(d)
  BY <1>2 DEF Starts
<1>5. Head(d).code = "Profiling" => Starts(d)
  BY <1>1 DEF Starts
<1>6. Head(d).code = "Profiling" /\ StartsOnce(d) => ~Starts(t)
  <2> SUFFICES ASSUME Head(d).code = "Profiling", StartsOnce(d),
                      NEW i \in 1 .. Len(t), t[i].code = "Profiling"
               PROVE  FALSE
    BY DEF Starts
  <2>1. /\ 1 \in 1 .. Len(d) /\ i + 1 \in 1 .. Len(d)
        /\ d[i + 1].code = "Profiling" /\ d[1].code = "Profiling"
    BY <1>1, <1>2
  <2>2. 1 = i + 1
    BY <2>1 DEF StartsOnce
  <2>. QED
    BY <2>2
<1>. QED
  BY <1>1, <1>2, <1>3, <1>4, <1>5, <1>6 DEF t

LEMMA DownAppend ==
  ASSUME NEW d \in Seq(DaqCommand), NEW e \in DaqCommand
  PROVE  LET t == Append(d, e) IN
         /\ t \in Seq(DaqCommand)
         /\ \A i \in 1 .. Len(t) : (i \in 1 .. Len(d) /\ t[i] = d[i]) \/ t[i] = e
         /\ Starts(t) <=> Starts(d) \/ e.code = "Profiling"
         /\ StartsOnce(d) /\ (e.code = "Profiling" => ~Starts(d)) => StartsOnce(t)
<1> DEFINE t == Append(d, e)
<1>1. /\ t \in Seq(DaqCommand) /\ Len(t) = Len(d) + 1 /\ t[Len(d) + 1] = e
      /\ \A i \in 1 .. Len(d) : t[i] = d[i]
  BY Appended
<1>2. Len(d) \in Nat
  OBVIOUS
<1> HIDE DEF t
<1>3. \A i \in 1 .. Len(t) : (i \in 1 .. Len(d) /\ t[i] = d[i]) \/ (i = Len(d) + 1 /\ t[i] = e)
  BY <1>1, <1>2
<1>4. Starts(t) => Starts(d) \/ e.code = "Profiling"
  BY <1>3 DEF Starts
<1>5. Starts(d) \/ e.code = "Profiling" => Starts(t)
  BY <1>1, <1>2 DEF Starts
<1>6. StartsOnce(d) /\ (e.code = "Profiling" => ~Starts(d)) => StartsOnce(t)
  <2> SUFFICES ASSUME StartsOnce(d), e.code = "Profiling" => ~Starts(d),
                      NEW i \in 1 .. Len(t), NEW j \in 1 .. Len(t),
                      t[i].code = "Profiling", t[j].code = "Profiling"
               PROVE  i = j
    BY DEF StartsOnce
  <2>1. CASE e.code = "Profiling"
    BY <1>3, <2>1 DEF Starts
  <2>2. CASE e.code # "Profiling"
    BY <1>3, <2>2 DEF StartsOnce
  <2>. QED
    BY <2>1, <2>2
<1>. QED
  BY <1>1, <1>3, <1>4, <1>5, <1>6 DEF t

----------------------------------------------------------------------------
(* The packets and the frames *)

LEMMA UpTail ==
  ASSUME NEW u \in Seq(PmgPacket), u # <<>>
  PROVE  /\ Head(u) \in PmgPacket /\ Tail(u) \in Seq(PmgPacket)
         /\ ReportsOnce(u) => ReportsOnce(Tail(u))
         /\ Head(u).code # "Offloading_Done" => (Reports(Tail(u)) <=> Reports(u))
         /\ Head(u).code = "Offloading_Done" =>
              Reports(u) /\ (ReportsOnce(u) => ~Reports(Tail(u)))
         /\ Followed(u) => Followed(Tail(u))
         /\ Brought(Tail(u)) \subseteq Brought(u)
         /\ Head(u).code # "frame" => Brought(Tail(u)) = Brought(u)
         /\ Head(u).code = "frame" =>
              Head(u).frame \in Frame /\ Brought(u) = Brought(Tail(u)) \cup {Head(u).frame}
         /\ AnnouncedFirst(u) => Head(u).code = "Offloading"
<1> DEFINE t == Tail(u)
<1>1. /\ Len(u) \in Nat \ {0} /\ Head(u) = u[1] /\ u[1] \in PmgPacket
      /\ t \in Seq(PmgPacket) /\ Len(t) = Len(u) - 1
      /\ \A i \in 1 .. Len(u) - 1 : t[i] = u[i + 1]
  BY HeadAndTail
<1> HIDE DEF t
<1>2. \A i \in 1 .. Len(u) : i # 1 => i - 1 \in 1 .. Len(t) /\ t[i - 1] = u[i]
  BY <1>1
<1>3. \A i \in 1 .. Len(t) : i + 1 \in 1 .. Len(u) /\ u[i + 1] = t[i]
  BY <1>1
<1>4. ReportsOnce(u) => ReportsOnce(t)
  <2> SUFFICES ASSUME ReportsOnce(u), NEW i \in 1 .. Len(t), NEW j \in 1 .. Len(t),
                      t[i].code = "Offloading_Done", t[j].code = "Offloading_Done"
               PROVE  i = j
    BY DEF ReportsOnce
  <2>1. i + 1 = j + 1
    BY <1>3 DEF ReportsOnce
  <2>. QED
    BY <2>1, <1>1
<1>5. Head(u).code # "Offloading_Done" => (Reports(t) <=> Reports(u))
  BY <1>1, <1>2, <1>3 DEF Reports
<1>6. Head(u).code = "Offloading_Done" => Reports(u)
  BY <1>1 DEF Reports
<1>7. Head(u).code = "Offloading_Done" /\ ReportsOnce(u) => ~Reports(t)
  <2> SUFFICES ASSUME Head(u).code = "Offloading_Done", ReportsOnce(u),
                      NEW i \in 1 .. Len(t), t[i].code = "Offloading_Done"
               PROVE  FALSE
    BY DEF Reports
  <2>1. /\ 1 \in 1 .. Len(u) /\ i + 1 \in 1 .. Len(u)
        /\ u[i + 1].code = "Offloading_Done" /\ u[1].code = "Offloading_Done"
    BY <1>1, <1>3
  <2>2. 1 = i + 1
    BY <2>1 DEF ReportsOnce
  <2>. QED
    BY <2>2
<1>8. Followed(u) => Followed(t)
  <2> SUFFICES ASSUME Followed(u), NEW i \in 1 .. Len(t), t[i].code # "Offloading_Done"
               PROVE  \E j \in i + 1 .. Len(t) : t[j].code = "Offloading_Done"
    BY DEF Followed
  <2>1. PICK j \in (i + 1) + 1 .. Len(u) : u[j].code = "Offloading_Done"
    BY <1>3 DEF Followed
  <2>2. j \in 1 .. Len(u) /\ j # 1 /\ j - 1 \in i + 1 .. Len(t)
    BY <1>1, <2>1
  <2>. QED
    BY <1>2, <2>1, <2>2
<1>9. Brought(t) \subseteq Brought(u)
  BY <1>3 DEF Brought
<1>10. Head(u).code # "frame" => Brought(u) \subseteq Brought(t)
  BY <1>1, <1>2 DEF Brought
<1>11. ASSUME Head(u).code = "frame"
       PROVE  Head(u).frame \in Frame /\ Brought(u) = Brought(t) \cup {Head(u).frame}
  <2>1. Head(u).frame \in Frame
    BY <1>1, <1>11 DEF PmgPacket
  <2>2. Head(u).frame \in Brought(u)
    BY <1>1, <1>11, <2>1 DEF Brought
  <2>3. Brought(u) \subseteq Brought(t) \cup {Head(u).frame}
    BY <1>1, <1>2 DEF Brought
  <2>. QED
    BY <1>9, <2>1, <2>2, <2>3
<1>12. AnnouncedFirst(u) => Head(u).code = "Offloading"
  BY <1>1 DEF AnnouncedFirst
<1>. QED
  BY <1>1, <1>4, <1>5, <1>6, <1>7, <1>8, <1>9, <1>10, <1>11, <1>12 DEF t

LEMMA UpAppend ==
  ASSUME NEW u \in Seq(PmgPacket), NEW e \in PmgPacket
  PROVE  LET t == Append(u, e) IN
         /\ t \in Seq(PmgPacket)
         /\ Reports(t) <=> Reports(u) \/ e.code = "Offloading_Done"
         /\ ReportsOnce(u) /\ ~Reports(u) => ReportsOnce(t)
         /\ e.code = "Offloading_Done" => Followed(t)
         /\ e.code # "frame" => Brought(t) = Brought(u)
         /\ e.code = "frame" => Brought(t) = Brought(u) \cup {e.frame}
         /\ Announces(t) <=> Announces(u) \/ e.code = "Offloading"
         /\ AnnouncedFirst(u) /\ (Announces(u) \/ e.code = "Offloading") => AnnouncedFirst(t)
<1> DEFINE t == Append(u, e)
<1>1. /\ t \in Seq(PmgPacket) /\ Len(t) = Len(u) + 1 /\ t[Len(u) + 1] = e
      /\ \A i \in 1 .. Len(u) : t[i] = u[i]
  BY Appended
<1>2. Len(u) \in Nat
  OBVIOUS
<1> HIDE DEF t
<1>3. \A i \in 1 .. Len(t) : (i \in 1 .. Len(u) /\ t[i] = u[i]) \/ (i = Len(u) + 1 /\ t[i] = e)
  BY <1>1, <1>2
<1>4. \A i \in 1 .. Len(u) : i \in 1 .. Len(t)
  BY <1>1, <1>2
<1>5. Len(u) + 1 \in 1 .. Len(t)
  BY <1>1, <1>2
<1>6. Reports(t) <=> Reports(u) \/ e.code = "Offloading_Done"
  BY <1>1, <1>3, <1>4, <1>5 DEF Reports
<1>7. ReportsOnce(u) /\ ~Reports(u) => ReportsOnce(t)
  BY <1>3 DEF ReportsOnce, Reports
<1>8. e.code = "Offloading_Done" => Followed(t)
  <2> SUFFICES ASSUME e.code = "Offloading_Done",
                      NEW i \in 1 .. Len(t), t[i].code # "Offloading_Done"
               PROVE  Len(u) + 1 \in i + 1 .. Len(t)
    BY <1>1 DEF Followed
  <2>. QED
    BY <1>1, <1>2, <1>3
<1>9. e.code # "frame" => Brought(t) = Brought(u)
  BY <1>1, <1>3, <1>4 DEF Brought
<1>10. e.code = "frame" => Brought(t) = Brought(u) \cup {e.frame}
  <2> SUFFICES ASSUME e.code = "frame" PROVE Brought(t) = Brought(u) \cup {e.frame}
    OBVIOUS
  <2>1. e.frame \in Frame
    BY DEF PmgPacket
  <2>2. Brought(t) \subseteq Brought(u) \cup {e.frame}
    BY <1>3 DEF Brought
  <2>3. Brought(u) \subseteq Brought(t)
    BY <1>1, <1>4 DEF Brought
  <2>4. e.frame \in Brought(t)
    BY <1>1, <1>5, <2>1 DEF Brought
  <2>. QED
    BY <2>2, <2>3, <2>4
<1>11. Announces(t) <=> Announces(u) \/ e.code = "Offloading"
  BY <1>1, <1>3, <1>4, <1>5 DEF Announces
<1>12. AnnouncedFirst(u) /\ (Announces(u) \/ e.code = "Offloading") => AnnouncedFirst(t)
  <2> SUFFICES ASSUME AnnouncedFirst(u), Announces(u) \/ e.code = "Offloading",
                      NEW i \in 1 .. Len(t), t[i].code # "Offloading"
               PROVE  \E j \in 1 .. i - 1 : t[j].code = "Offloading"
    BY DEF AnnouncedFirst
  <2>1. CASE i \in 1 .. Len(u)
    <3>1. PICK j \in 1 .. i - 1 : u[j].code = "Offloading"
      BY <1>1, <2>1 DEF AnnouncedFirst
    <3>. QED
      BY <1>1, <1>2, <2>1, <3>1
  <2>2. CASE i \notin 1 .. Len(u)
    <3>1. i = Len(u) + 1 /\ Announces(u)
      BY <1>3, <2>2
    <3>2. PICK j \in 1 .. Len(u) : u[j].code = "Offloading"
      BY <3>1 DEF Announces
    <3>. QED
      BY <1>1, <1>2, <3>1, <3>2
  <2>. QED
    BY <2>1, <2>2
<1>. QED
  BY <1>1, <1>6, <1>7, <1>8, <1>9, <1>10, <1>11, <1>12 DEF t

LEMMA NothingUnreported ==
  ASSUME NEW u \in Seq(PmgPacket), Followed(u), ~Reports(u)
  PROVE  u = <<>> /\ Brought(u) = {}
<1>1. Len(u) \in Nat
  OBVIOUS
<1>2. Len(u) = 0
  <2> SUFFICES ASSUME Len(u) # 0 PROVE FALSE
    OBVIOUS
  <2>1. Len(u) \in 1 .. Len(u)
    BY <1>1
  <2>2. u[Len(u)].code # "Offloading_Done"
    BY <2>1 DEF Reports
  <2>3. \E j \in Len(u) + 1 .. Len(u) : u[j].code = "Offloading_Done"
    BY <2>1, <2>2 DEF Followed
  <2>. QED
    BY <1>1, <2>3
<1>. QED
  BY <1>2 DEF Brought

LEMMA FlashAppend ==
  ASSUME NEW s \in Seq(Frame), NEW f \in Frame
  PROVE  Append(s, f) \in Seq(Frame) /\ Held(Append(s, f)) = Held(s) \cup {f}
<1> DEFINE t == Append(s, f)
<1>1. /\ t \in Seq(Frame) /\ Len(t) = Len(s) + 1 /\ t[Len(s) + 1] = f
      /\ \A i \in 1 .. Len(s) : t[i] = s[i]
  BY Appended
<1>2. Len(s) \in Nat
  OBVIOUS
<1> HIDE DEF t
<1>3. Held(t) \subseteq Held(s) \cup {f}
  BY <1>1, <1>2 DEF Held
<1>4. Held(s) \subseteq Held(t)
  BY <1>1, <1>2 DEF Held
<1>5. f \in Held(t)
  BY <1>1, <1>2 DEF Held
<1>. QED
  BY <1>1, <1>3, <1>4, <1>5 DEF t

LEMMA FlashTaken ==
  ASSUME NEW s \in Seq(Frame), s # <<>>
  PROVE  LET t == SubSeq(s, 1, Len(s) - 1) IN
         /\ t \in Seq(Frame) /\ s[Len(s)] \in Frame /\ s[Len(s)] \in Held(s)
         /\ Held(s) = Held(t) \cup {s[Len(s)]}
         /\ Len(t) < Len(s)
<1> DEFINE t == SubSeq(s, 1, Len(s) - 1)
<1>1. /\ t \in Seq(Frame) /\ Len(t) = Len(s) - 1 /\ Len(s) \in Nat \ {0}
      /\ s[Len(s)] \in Frame
      /\ \A i \in 1 .. Len(s) - 1 : t[i] = s[i]
  BY LastRemoved
<1> HIDE DEF t
<1>2. Held(s) \subseteq Held(t) \cup {s[Len(s)]}
  BY <1>1 DEF Held
<1>3. Held(t) \subseteq Held(s)
  BY <1>1 DEF Held
<1>4. s[Len(s)] \in Held(s)
  BY <1>1 DEF Held
<1>. QED
  BY <1>1, <1>2, <1>3, <1>4 DEF t

LEMMA NoneHeld == Held(<<>>) = {} /\ Brought(<<>>) = {}
  BY DEF Held, Brought

----------------------------------------------------------------------------
(* The commander *)

LEMMA Concluded ==
  ASSUME TypeOK
  PROVE  LET o == orders \o EndOrder IN
         /\ o \in Seq(Order)
         /\ Begins(o) <=> Begins(orders)
         /\ BeginsOnce(orders) => BeginsOnce(o)
         /\ Ended(orders) => Ended(o)
         /\ EndedAfter(orders) => EndedAfter(o)
         /\ op = "Profiling" => Ended(o) /\ EndedAfter(o)
<1>0. orders \in Seq(Order)
  BY DEF TypeOK
<1>1. CASE op = "Prompt"
  <2>1. orders \o EndOrder = orders
    BY <1>0, <1>1 DEF EndOrder
  <2>. QED
    BY <1>0, <1>1, <2>1
<1>2. CASE op = "Profiling"
  <2>1. "Profile_End" \in Order /\ "Profile_End" \in Ends
    BY DEF Order, Ends
  <2>2. orders \o EndOrder = Append(orders, "Profile_End")
    BY <1>0, <1>2, <2>1, OneAdded DEF EndOrder
  <2>. QED
    BY <1>0, <2>1, <2>2, OrdersAppend, "Profile_End" # "Profile"
<1>3. CASE op = "Transmitting"
  <2>1. "Transmit_End" \in Order
    BY DEF Order
  <2>2. orders \o EndOrder = Append(orders, "Transmit_End")
    BY <1>0, <1>3, <2>1, OneAdded DEF EndOrder
  <2>. QED
    BY <1>0, <1>3, <2>1, <2>2, OrdersAppend, "Transmit_End" # "Profile"
<1>. QED
  BY <1>1, <1>2, <1>3 DEF TypeOK

LEMMA NavisOrders ==
  ASSUME TypeOK, NEW c \in Command, Navis(c)
  PROVE  /\ orders' \in Seq(Order) /\ op' \in {"Prompt", "Profiling", "Transmitting"}
         /\ Ended(orders) => Ended(orders')
         /\ Begins(orders') => Begins(orders) \/ c = "PRFBEG"
         /\ BeginsOnce(orders) /\ (c = "PRFBEG" => ~Begins(orders)) => BeginsOnce(orders')
         /\ op # "Profiling" /\ op' # "Profiling" /\ EndedAfter(orders) => EndedAfter(orders')
         /\ op = "Profiling" /\ op' # "Profiling" => Ended(orders') /\ EndedAfter(orders')
<1> DEFINE o == orders \o EndOrder
<1>0. orders \in Seq(Order) /\ op \in {"Prompt", "Profiling", "Transmitting"}
  BY DEF TypeOK
<1>1. /\ o \in Seq(Order)
      /\ Begins(o) <=> Begins(orders)
      /\ BeginsOnce(orders) => BeginsOnce(o)
      /\ Ended(orders) => Ended(o)
      /\ EndedAfter(orders) => EndedAfter(o)
      /\ op = "Profiling" => Ended(o) /\ EndedAfter(o)
  BY Concluded
<1>2. CASE c = "PRFBEG"
  <2>1. PRFBEG
    BY <1>2 DEF Navis
  <2>2. CASE op = "Profiling"
    BY <1>0, <2>1, <2>2 DEF PRFBEG
  <2>3. CASE op # "Profiling"
    <3>1. op' = "Profiling" /\ orders' = o \o <<"Profile">>
      BY <2>1, <2>3 DEF PRFBEG
    <3>2. "Profile" \in Order
      BY DEF Order
    <3> HIDE DEF o
    <3>3. orders' = Append(o, "Profile")
      BY <1>1, <3>1, <3>2, OneAdded
    <3>4. /\ orders' \in Seq(Order)
          /\ Begins(orders') <=> Begins(o) \/ "Profile" = "Profile"
          /\ BeginsOnce(o) /\ ("Profile" = "Profile" => ~Begins(o)) => BeginsOnce(orders')
          /\ Ended(o) => Ended(orders')
          /\ "Profile" \in Ends => Ended(orders') /\ EndedAfter(orders')
      BY <1>1, <3>2, <3>3, OrdersAppend
    <3>. QED
      BY <1>1, <1>2, <3>1, <3>2, <3>4
  <2>. QED
    BY <2>2, <2>3
<1>3. CASE c \in {"PRFEND", "TXEND"}
  <2>1. op' = "Prompt" /\ orders' = o
    BY <1>3 DEF Navis, PRFEND_TXEND
  <2> HIDE DEF o
  <2>. QED
    BY <1>1, <1>3, <2>1
<1>4. CASE c = "TXBEG"
  <2>1. TXBEG
    BY <1>4 DEF Navis
  <2>2. CASE op = "Transmitting"
    BY <1>0, <1>4, <2>1, <2>2 DEF TXBEG
  <2>3. CASE op # "Transmitting"
    <3>1. op' = "Transmitting" /\ orders' = o \o <<"Transmit">>
      BY <2>1, <2>3 DEF TXBEG
    <3>2. "Transmit" \in Order /\ "Transmit" \in Ends
      BY DEF Order, Ends
    <3> HIDE DEF o
    <3>3. orders' = Append(o, "Transmit")
      BY <1>1, <3>1, <3>2, OneAdded
    <3>4. /\ orders' \in Seq(Order)
          /\ Begins(orders') <=> Begins(o) \/ "Transmit" = "Profile"
          /\ BeginsOnce(o) /\ ("Transmit" = "Profile" => ~Begins(o)) => BeginsOnce(orders')
          /\ Ended(o) => Ended(orders')
          /\ "Transmit" \in Ends => Ended(orders') /\ EndedAfter(orders')
      BY <1>1, <3>2, <3>3, OrdersAppend
    <3>. QED
      BY <1>1, <1>4, <3>1, <3>2, <3>4
  <2>. QED
    BY <2>2, <2>3
<1>5. CASE c = "SLP"
  <2>1. op' = op /\ orders' = o
    BY <1>5 DEF Navis, SLP
  <2> HIDE DEF o
  <2>. QED
    BY <1>0, <1>1, <1>5, <2>1
<1>. QED
  BY <1>2, <1>3, <1>4, <1>5 DEF Command

LEMMA NavisKeeps ==
  ASSUME Patient, IInv, NEW c \in Command, Navis(c)
  PROVE  IInv'
<1>0. TypeOK /\ OneRun
  BY DEF IInv
<1>1. /\ begun.profiles \in 0 .. MaxProfiles /\ begun.commands \in 0 .. MaxCommands
      /\ begun' = [commands |-> begun.commands + 1,
                   profiles |-> begun.profiles + IF c = "PRFBEG" THEN 1 ELSE 0]
      /\ begun.commands < MaxCommands
      /\ c = "PRFBEG" => begun.profiles < MaxProfiles /\ ~pending
      /\ pending' = (pending \/ c = "PRFBEG")
      /\ UNCHANGED <<results, pm, da, down, up, faulty>>
  BY <1>0 DEF Navis, Sends, TypeOK
<1>2. /\ orders' \in Seq(Order) /\ op' \in {"Prompt", "Profiling", "Transmitting"}
      /\ Ended(orders) => Ended(orders')
      /\ Begins(orders') => Begins(orders) \/ c = "PRFBEG"
      /\ BeginsOnce(orders) /\ (c = "PRFBEG" => ~Begins(orders)) => BeginsOnce(orders')
      /\ op # "Profiling" /\ op' # "Profiling" /\ EndedAfter(orders) => EndedAfter(orders')
      /\ op = "Profiling" /\ op' # "Profiling" => Ended(orders') /\ EndedAfter(orders')
  BY <1>0, NavisOrders
<1>3. begun' \in [commands : 0 .. MaxCommands, profiles : 0 .. MaxProfiles]
  BY <1>1, BoundAssumption
<1>4. pending' \in BOOLEAN
  BY <1>1
<1>5. TypeOK'
  BY <1>0, <1>1, <1>2, <1>3, <1>4 DEF TypeOK, pm, da
<1>6. Acquiring' = Acquiring
  BY <1>1 DEF Acquiring, da
<1>7. OneRun'
  BY <1>0, <1>1, <1>2, <1>6 DEF OneRun, pm, da
<1>8. NothingLeft' /\ Fresh' /\ Belongs' /\ Conserved' /\ SendingIsDone' /\ OwnFrames'
  BY <1>1, <1>6
     DEF IInv, NothingLeft, Fresh, Belongs, Conserved, SendingIsDone, OwnFrames, pm, da
<1>9. QuietMeansIdle'
  BY <1>1, <1>2 DEF IInv, QuietMeansIdle, pm
<1>10. Counted'
  BY <1>0, <1>1, <1>2 DEF IInv, Counted, TypeOK, pm
<1>11. PromptFollows'
  BY <1>1, <1>2 DEF IInv, PromptFollows, pm
<1>. QED
  BY <1>5, <1>7, <1>8, <1>9, <1>10, <1>11 DEF IInv

LEMMA TransferStatusKeeps == ASSUME IInv, TransferStatus PROVE IInv'
<1>0. TypeOK /\ OneRun
  BY DEF IInv
<1>1. /\ results > 0 /\ results' = results - 1 /\ op' = "Prompt" /\ pending' = FALSE
      /\ UNCHANGED <<begun, orders, pm, da, down, up, faulty>>
  BY DEF TransferStatus
<1>2. /\ results = 1 /\ results' = 0
      /\ ~Begins(orders) /\ ~Starts(down) /\ ~Acquiring /\ ~offDone
  BY <1>0, <1>1 DEF OneRun
<1>3. Acquiring' = Acquiring
  BY <1>1 DEF Acquiring, da
<1>4. pmg = "Idle"
  BY <1>1 DEF IInv, QuietMeansIdle
<1>5. TypeOK'
  <2>1. op' \in {"Prompt", "Profiling", "Transmitting"}
    BY <1>1
  <2>2. pending' \in BOOLEAN
    BY <1>1
  <2>3. results' \in Nat
    BY <1>2
  <2>. QED
    BY <1>0, <1>1, <2>1, <2>2, <2>3 DEF TypeOK, pm, da
<1>6. OneRun'
  BY <1>0, <1>1, <1>2, <1>3 DEF OneRun, pm, da
<1>7. NothingLeft' /\ Fresh' /\ Belongs' /\ Conserved' /\ SendingIsDone' /\ OwnFrames'
  BY <1>1, <1>3
     DEF IInv, NothingLeft, Fresh, Belongs, Conserved, SendingIsDone, OwnFrames, pm, da
<1>8. QuietMeansIdle' /\ Counted'
  BY <1>1, <1>4 DEF IInv, QuietMeansIdle, Counted, pm
<1>9. PromptFollows'
  BY <1>1, <1>2, <1>4 DEF PromptFollows, Begins, EndedAfter, pm
<1>. QED
  BY <1>5, <1>6, <1>7, <1>8, <1>9 DEF IInv

----------------------------------------------------------------------------
(* The profile manager *)

(* An order that does not begin a profile.                                  *)
LEMMA OtherOrderKeeps ==
  ASSUME IInv, PmgOrder, Head(orders) # "Profile"
  PROVE  IInv'
<1> DEFINE end == [code |-> "Profiling_End", for |-> NoProfile]
<1>0. TypeOK /\ OneRun
  BY DEF IInv
<1>1. /\ ~sending /\ orders # <<>> /\ orders' = Tail(orders)
      /\ offDone' = offDone /\ txbeg' = (txbeg \/ Head(orders) = "Transmit")
      /\ sending' = (offDone /\ (txbeg \/ Head(orders) = "Transmit"))
      /\ UNCHANGED <<op, results, navis, stored, da, up>>
  BY DEF PmgOrder, Transmission
<1>2. /\ Head(orders) \in Order /\ orders' \in Seq(Order)
      /\ BeginsOnce(orders) => BeginsOnce(orders')
      /\ Begins(orders') <=> Begins(orders)
      /\ EndedAfter(orders) => EndedAfter(orders')
      /\ Head(orders) \notin Ends /\ Ended(orders) => Ended(orders')
  BY <1>0, <1>1, OrdersTail DEF TypeOK
<1>3. /\ pmg' = pmg \/ (pmg = "Profiling" /\ pmg' = "Idle")
      /\ Head(orders) \in Ends => pmg' # "Profiling"
      /\ down' = down \/ down' = Append(down, end)
      /\ UNCHANGED <<profile, started, faulty>>
  <2>1. CASE Head(orders) = "Profile_End"
    <3>1. PmgProfileEnd
      BY <2>1 DEF PmgOrder
    <3>. QED
      BY <3>1 DEF PmgProfileEnd, SendDown
  <2>2. CASE Head(orders) = "Transmit"
    <3>1. PmgTransmit
      BY <2>2 DEF PmgOrder
    <3>. QED
      BY <3>1 DEF PmgTransmit, SendDown
  <2>3. CASE Head(orders) = "Transmit_End"
    <3>1. UNCHANGED <<pmg, profile, started, down, faulty>>
      BY <2>3 DEF PmgOrder
    <3>. QED
      BY <2>3, <3>1 DEF Ends
  <2>. QED
    BY <1>2, <2>1, <2>2, <2>3 DEF Order
<1>4. /\ down' \in Seq(DaqCommand)
      /\ \A i \in 1 .. Len(down') :
           down'[i].code = "Profiling" => i \in 1 .. Len(down) /\ down'[i] = down[i]
      /\ Starts(down') <=> Starts(down)
      /\ StartsOnce(down) => StartsOnce(down')
  <2>1. down \in Seq(DaqCommand) /\ end \in DaqCommand /\ end.code = "Profiling_End"
    BY <1>0 DEF TypeOK, DaqCommand
  <2> HIDE DEF end
  <2>2. CASE down' = down
    BY <2>1, <2>2
  <2>3. CASE down' = Append(down, end)
    BY <2>1, <2>3, DownAppend
  <2>. QED
    BY <1>3, <2>2, <2>3
<1>5. Acquiring' = Acquiring
  BY <1>1 DEF Acquiring, da
<1>6. TypeOK'
  <2>1. txbeg' \in BOOLEAN /\ sending' \in BOOLEAN /\ offDone' \in BOOLEAN
    BY <1>0, <1>1 DEF TypeOK
  <2>2. pmg' \in {"Idle", "Profiling", "Offloading"} /\ (pmg' # "Idle" => profile # NoProfile)
    BY <1>0, <1>3 DEF TypeOK
  <2>. QED
    BY <1>0, <1>1, <1>2, <1>3, <1>4, <2>1, <2>2 DEF TypeOK, navis, da
<1>7. OneRun'
  BY <1>0, <1>1, <1>2, <1>4, <1>5 DEF OneRun, navis, da
<1>8. NothingLeft' /\ Belongs' /\ OwnFrames'
  BY <1>1, <1>3, <1>5 DEF IInv, NothingLeft, Belongs, OwnFrames, da
<1>9. QuietMeansIdle' /\ Counted'
  BY <1>1, <1>2, <1>3 DEF IInv, QuietMeansIdle, Counted, navis
<1>10. Fresh'
  BY <1>1, <1>3, <1>4 DEF IInv, Fresh, da
<1>11. Conserved'
  BY <1>1, <1>3, <1>4, <1>5 DEF IInv, Conserved, da
<1>12. SendingIsDone'
  BY <1>1 DEF SendingIsDone
<1>13. PromptFollows'
  BY <1>1, <1>2, <1>3 DEF IInv, PromptFollows
<1>. QED
  BY <1>6, <1>7, <1>8, <1>9, <1>10, <1>11, <1>12, <1>13 DEF IInv

(* CMD_PMG_Profile finds the profile manager idle.                          *)
LEMMA ProfileKeeps ==
  ASSUME IInv, PmgOrder, Head(orders) = "Profile"
  PROVE  IInv'
<1>0. TypeOK /\ OneRun
  BY DEF IInv
<1>1. /\ ~sending /\ orders # <<>> /\ orders' = Tail(orders)
      /\ offDone' = offDone /\ txbeg' = (txbeg \/ Head(orders) = "Transmit")
      /\ sending' = (offDone /\ (txbeg \/ Head(orders) = "Transmit"))
      /\ UNCHANGED <<op, results, navis, stored, da, up>>
  BY DEF PmgOrder, Transmission
<1>2. /\ orders' \in Seq(Order) /\ BeginsOnce(orders')
      /\ Begins(orders) /\ ~Begins(orders')
      /\ EndedAfter(orders) => EndedAfter(orders') /\ Ended(orders')
  BY <1>0, <1>1, OrdersTail DEF TypeOK, OneRun
<1>3. /\ ~Starts(down) /\ ~Acquiring /\ ~offDone /\ results = 0
      /\ pending = TRUE /\ pmg = "Idle"
  BY <1>0, <1>2 DEF OneRun, IInv, QuietMeansIdle, TypeOK
<1>4. Acquiring' = Acquiring
  BY <1>1 DEF Acquiring, da
<1>5. txbeg' \in BOOLEAN /\ sending' = FALSE /\ offDone' = FALSE
  BY <1>0, <1>1, <1>3 DEF TypeOK
<1>6. ~daq' # "Idle" /\ ~offload' /\ ~Reports(up')
  BY <1>3, <1>4 DEF Acquiring
<1>7. NothingLeft' /\ OwnFrames' /\ SendingIsDone'
  BY <1>1, <1>5 DEF IInv, NothingLeft, OwnFrames, SendingIsDone, da
<1>8. CASE /\ profile' = started + 1 /\ pmg' = "Profiling" /\ started' = started + 1
           /\ SendDown("Profiling", started + 1)
           /\ UNCHANGED faulty
  <2> DEFINE begin == [code |-> "Profiling", for |-> started + 1]
  <2>1. started + 1 <= begun.profiles /\ started \in 0 .. MaxProfiles
    BY <1>0, <1>2 DEF IInv, Counted, TypeOK
  <2>2. started + 1 \in Profile /\ started + 1 # NoProfile
    BY <1>0, <2>1, BoundAssumption DEF TypeOK, Profile, NoProfile
  <2>3. begin \in DaqCommand /\ begin.code = "Profiling" /\ begin.for = started + 1
    BY <2>2 DEF DaqCommand
  <2>4. down' = Append(down, begin)
    BY <1>8 DEF SendDown
  <2> HIDE DEF begin
  <2>5. /\ down' \in Seq(DaqCommand) /\ Starts(down') /\ StartsOnce(down')
        /\ \A i \in 1 .. Len(down') :
             (i \in 1 .. Len(down) /\ down'[i] = down[i]) \/ down'[i] = begin
    BY <1>0, <1>3, <2>3, <2>4, DownAppend DEF TypeOK, OneRun
  <2>6. \A i \in 1 .. Len(down') : down'[i].code = "Profiling" => down'[i] = begin
    BY <1>3, <2>5 DEF Starts
  <2>7. TypeOK'
    <3>1. started' \in 0 .. MaxProfiles /\ profile' \in Profile \cup {NoProfile}
          /\ (pmg' # "Idle" => profile' # NoProfile)
          /\ pmg' \in {"Idle", "Profiling", "Offloading"}
      BY <1>0, <1>8, <2>1, <2>2 DEF TypeOK, Profile
    <3>. QED
      BY <1>0, <1>1, <1>2, <1>5, <1>8, <2>5, <3>1 DEF TypeOK, navis, da
  <2>8. OneRun'
    BY <1>0, <1>1, <1>2, <1>3, <1>4, <1>5, <2>5 DEF OneRun, navis, da
  <2>9. QuietMeansIdle' /\ Counted'
    BY <1>1, <1>2, <1>3, <1>8, <2>1 DEF QuietMeansIdle, Counted, navis
  <2>10. Fresh'
    <3>1. acquired[started + 1] = {} /\ started \in Nat
      BY <2>1, <2>2 DEF IInv, Fresh
    <3>2. for <= started' /\ (\A p \in Profile : p > started' => acquired[p] = {})
      <4>1. for <= started /\ (\A p \in Profile : p > started => acquired[p] = {})
        BY DEF IInv, Fresh
      <4>2. for \in Nat /\ Profile \subseteq Nat
        BY <1>0 DEF TypeOK, Profile, NoProfile
      <4>3. for <= started + 1
        BY <3>1, <4>1, <4>2
      <4>4. \A p \in Profile : p > started + 1 => p > started
        BY <3>1, <4>2
      <4>. QED
        BY <1>8, <4>1, <4>3, <4>4
    <3>3. started + 1 \in 1 .. started'
      BY <1>8, <3>1
    <3>. QED
      BY <1>1, <1>8, <2>3, <2>6, <3>1, <3>2, <3>3 DEF Fresh, da
  <2>11. Belongs'
    BY <1>1, <1>3, <1>4, <1>5 DEF IInv, Belongs, da
  <2>12. Conserved'
    BY <1>1, <1>3, <1>4, <1>5, <1>6, <1>8, <2>2 DEF IInv, Conserved, da
  <2>13. PromptFollows'
    BY <1>1, <1>2 DEF IInv, PromptFollows
  <2>. QED
    BY <1>7, <2>7, <2>8, <2>9, <2>10, <2>11, <2>12, <2>13 DEF IInv
<1>9. CASE /\ faulty' = TRUE /\ profile' = NoProfile
           /\ UNCHANGED <<pmg, started, down>>
  <2>1. TypeOK'
    <3>1. profile' \in Profile \cup {NoProfile} /\ faulty' \in BOOLEAN
      BY <1>9
    <3>. QED
      BY <1>0, <1>1, <1>2, <1>3, <1>5, <1>9, <3>1 DEF TypeOK, navis, da
  <2>2. OneRun'
    BY <1>0, <1>1, <1>2, <1>3, <1>4, <1>5, <1>9 DEF OneRun, navis, da
  <2>3. QuietMeansIdle' /\ Counted'
    <3>1. QuietMeansIdle'
      BY <1>3, <1>9 DEF QuietMeansIdle
    <3>2. Counted'
      BY <1>0, <1>1, <1>2, <1>9 DEF IInv, Counted, TypeOK, navis
    <3>. QED
      BY <3>1, <3>2
  <2>4. Fresh'
    BY <1>1, <1>9 DEF IInv, Fresh, da
  <2>5. Belongs' /\ Conserved'
    BY <1>1, <1>3, <1>4, <1>5, <1>9 DEF IInv, Belongs, Conserved, da
  <2>6. PromptFollows'
    BY <1>1, <1>2, <1>3, <1>9 DEF IInv, PromptFollows
  <2>. QED
    BY <1>7, <2>1, <2>2, <2>3, <2>4, <2>5, <2>6 DEF IInv
<1>10. ProfileStarts \/ ProfileResent
  BY DEF PmgOrder
<1>. QED
  BY <1>3, <1>8, <1>9, <1>10 DEF ProfileStarts, ProfileResent

LEMMA PmgOrderKeeps == ASSUME IInv, PmgOrder PROVE IInv'
  BY OtherOrderKeeps, ProfileKeeps

LEMMA PacketKeeps == ASSUME IInv, PmgPacketFromDaq PROVE IInv'
<1>0. TypeOK /\ OneRun
  BY DEF IInv
<1>1. /\ ~sending /\ up # <<>> /\ up' = Tail(up)
      /\ UNCHANGED <<profile, started, navis, cmc, da, down>>
      /\ up \in Seq(PmgPacket)
  BY <1>0 DEF PmgPacketFromDaq, TypeOK
<1>2. /\ Head(up) \in PmgPacket /\ up' \in Seq(PmgPacket)
      /\ ReportsOnce(up')
      /\ Head(up).code # "Offloading_Done" => (Reports(up') <=> Reports(up))
      /\ Head(up).code = "Offloading_Done" => Reports(up) /\ ~Reports(up')
      /\ Followed(up) => Followed(up')
      /\ Head(up).code # "frame" => Brought(up') = Brought(up)
      /\ Head(up).code = "frame" =>
           Head(up).frame \in Frame /\ Brought(up) = Brought(up') \cup {Head(up).frame}
      /\ AnnouncedFirst(up) => Head(up).code = "Offloading"
  BY <1>0, <1>1, UpTail DEF OneRun
<1>3. offload \/ Reports(up)
  BY <1>1, NothingUnreported DEF IInv, NothingLeft
<1>4. /\ Acquiring /\ ~offDone /\ results = 0 /\ ~Begins(orders) /\ ~Starts(down)
      /\ pending = TRUE /\ daq = "Idle"
  BY <1>0, <1>3 DEF OneRun, Acquiring, TypeOK
<1>5. /\ for # NoProfile /\ profile \in {NoProfile, for}
      /\ Held(flash) \cup Brought(up) \subseteq acquired[for]
  BY <1>4 DEF IInv, Belongs
<1>6. NothingLeft' /\ Counted' /\ Fresh'
  BY <1>1, <1>2 DEF IInv, NothingLeft, Counted, Fresh, navis, cmc, da
<1>7. CASE Head(up).code = "Offloading"
  <2>1. /\ pmg' = IF pmg = "Profiling" \/ (pmg = "Idle" /\ profile # NoProfile)
                    THEN "Offloading" ELSE pmg
        /\ offDone' = FALSE /\ txbeg' = txbeg /\ sending' = (FALSE /\ txbeg)
        /\ UNCHANGED <<stored, faulty>>
    BY <1>7 DEF PmgPacketFromDaq, PmgOffloading, Transmission
  <2>2. (Reports(up') <=> Reports(up)) /\ (Acquiring' <=> Acquiring)
    BY <1>1, <1>2, <1>7 DEF Acquiring, da
  <2>3. TypeOK'
    <3>1. sending' \in BOOLEAN /\ offDone' \in BOOLEAN /\ txbeg' \in BOOLEAN
      BY <1>0, <2>1 DEF TypeOK
    <3>2. pmg' \in {"Idle", "Profiling", "Offloading"} /\ (pmg' # "Idle" => profile # NoProfile)
      BY <1>0, <2>1 DEF TypeOK
    <3>. QED
      BY <1>0, <1>1, <1>2, <2>1, <3>1, <3>2 DEF TypeOK, navis, cmc, da
  <2>4. OneRun'
    BY <1>0, <1>1, <1>2, <1>4, <2>1, <2>2 DEF OneRun, navis, cmc, da
  <2>5. QuietMeansIdle'
    BY <1>1, <1>4 DEF QuietMeansIdle, navis, cmc
  <2>6. Belongs' /\ OwnFrames' /\ SendingIsDone'
    BY <1>1, <1>2, <1>4, <1>7, <2>1, <2>2
       DEF IInv, Belongs, OwnFrames, SendingIsDone, da
  <2>7. Conserved'
    <3>1. ~faulty => pmg' = "Offloading"
      BY <1>0, <1>4, <2>1 DEF IInv, Conserved, TypeOK
    <3>2. Brought(up') = Brought(up)
      BY <1>2, <1>7
    <3>. QED
      BY <1>1, <1>4, <2>1, <2>2, <3>1, <3>2 DEF IInv, Conserved, da
  <2>8. PromptFollows'
    BY <1>1, <2>1 DEF IInv, PromptFollows, cmc
  <2>. QED
    BY <1>6, <2>3, <2>4, <2>5, <2>6, <2>7, <2>8 DEF IInv
<1>8. CASE Head(up).code = "Offloading_Done"
  <2>1. /\ offDone' = TRUE /\ txbeg' = txbeg /\ sending' = (TRUE /\ txbeg)
        /\ UNCHANGED <<pmg, stored, faulty>>
    BY <1>8 DEF PmgPacketFromDaq, PmgOffloadingDone, Transmission
  <2>2. ~offload /\ ~Reports(up') /\ ~Acquiring' /\ Brought(up') = Brought(up)
    BY <1>0, <1>1, <1>2, <1>4, <1>8 DEF OneRun, Acquiring, da
  <2>3. TypeOK'
    <3>1. sending' \in BOOLEAN /\ offDone' \in BOOLEAN /\ txbeg' \in BOOLEAN
      BY <1>0, <2>1 DEF TypeOK
    <3>. QED
      BY <1>0, <1>1, <1>2, <2>1, <3>1 DEF TypeOK, navis, cmc, da
  <2>4. OneRun'
    BY <1>0, <1>1, <1>2, <1>4, <2>1, <2>2 DEF OneRun, navis, cmc, da
  <2>5. QuietMeansIdle'
    BY <1>1, <1>4 DEF QuietMeansIdle, navis, cmc
  <2>6. Belongs' /\ OwnFrames' /\ SendingIsDone'
    BY <1>1, <1>4, <1>5, <2>1, <2>2 DEF IInv, Belongs, OwnFrames, SendingIsDone, da
  <2>7. Conserved'
    <3>1. ~faulty => pmg = "Offloading"
      BY <1>2, <1>8 DEF IInv, Conserved
    <3>. QED
      BY <1>1, <1>4, <2>1, <2>2, <3>1 DEF IInv, Conserved, da
  <2>8. PromptFollows'
    BY <1>1, <2>1 DEF IInv, PromptFollows, cmc
  <2>. QED
    BY <1>6, <2>3, <2>4, <2>5, <2>6, <2>7, <2>8 DEF IInv
<1>9. CASE Head(up).code = "frame"
  <2> DEFINE f == Head(up).frame
  <2>1. /\ offDone' = offDone /\ txbeg' = txbeg /\ sending' = (offDone /\ txbeg)
        /\ UNCHANGED pmg /\ PmgFrame(f)
    BY <1>9 DEF PmgPacketFromDaq, PmgFrame, Transmission
  <2>2. (Reports(up') <=> Reports(up)) /\ (Acquiring' <=> Acquiring)
    BY <1>1, <1>2, <1>9 DEF Acquiring, da
  <2>3. f \in Frame /\ Brought(up) = Brought(up') \cup {f} /\ f \in acquired[for]
    BY <1>2, <1>5, <1>9
  <2> HIDE DEF f
  <2>4. \/ /\ profile = for /\ for \in Profile
           /\ stored' = [stored EXCEPT ![for] = @ \cup {f}]
           /\ UNCHANGED faulty
        \/ stored' = stored /\ faulty' = faulty /\ pmg = "Idle"
        \/ stored' = stored /\ faulty' = TRUE
    BY <1>0, <1>5, <2>1 DEF PmgFrame, TypeOK
  <2>5. /\ stored' \in [Profile -> SUBSET Frame] /\ faulty' \in BOOLEAN
        /\ \A p \in Profile : stored'[p] \subseteq acquired[p]
    <3>1. stored \in [Profile -> SUBSET Frame] /\ faulty \in BOOLEAN
      BY <1>0 DEF TypeOK
    <3>2. \A p \in Profile : stored[p] \subseteq acquired[p]
      BY DEF IInv, OwnFrames
    <3>3. CASE stored' = stored
      BY <2>4, <3>1, <3>2, <3>3
    <3>4. CASE /\ for \in Profile /\ stored' = [stored EXCEPT ![for] = @ \cup {f}]
               /\ UNCHANGED faulty
      <4>1. stored' \in [Profile -> SUBSET Frame]
        BY <2>3, <3>1, <3>4
      <4>2. \A p \in Profile : stored'[p] = IF p = for THEN stored[for] \cup {f} ELSE stored[p]
        BY <3>1, <3>4
      <4>. QED
        BY <2>3, <3>1, <3>2, <3>4, <4>1, <4>2
    <3>. QED
      BY <2>4, <3>3, <3>4
  <2>6. TypeOK'
    <3>1. sending' \in BOOLEAN /\ offDone' \in BOOLEAN /\ txbeg' \in BOOLEAN
      BY <1>0, <2>1 DEF TypeOK
    <3>. QED
      BY <1>0, <1>1, <1>2, <2>1, <2>5, <3>1 DEF TypeOK, navis, cmc, da
  <2>7. OneRun'
    BY <1>0, <1>1, <1>2, <1>4, <2>1, <2>2 DEF OneRun, navis, cmc, da
  <2>8. QuietMeansIdle'
    BY <1>1, <1>4 DEF QuietMeansIdle, navis, cmc
  <2>9. Belongs' /\ SendingIsDone'
    BY <1>1, <1>4, <1>5, <2>1, <2>2, <2>3 DEF Belongs, SendingIsDone, da
  <2>10. OwnFrames'
    BY <1>1, <2>5 DEF OwnFrames, da
  <2>11. Conserved'
    <3>1. ~faulty => /\ pmg = "Offloading" /\ profile # NoProfile
                     /\ acquired[for] = stored[for] \cup Held(flash) \cup Brought(up)
      BY <1>2, <1>4, <1>9 DEF IInv, Conserved
    <3>2. ~faulty' => acquired[for] = stored'[for] \cup Held(flash) \cup Brought(up')
      <4>1. stored \in [Profile -> SUBSET Frame] /\ (faulty => faulty')
        BY <1>0, <2>4 DEF TypeOK
      <4>. QED
        BY <2>3, <2>4, <3>1, <4>1
    <3>3. faulty => faulty'
      BY <2>4
    <3>. QED
      BY <1>1, <1>4, <2>1, <2>2, <3>1, <3>2, <3>3 DEF Conserved, da
  <2>12. PromptFollows'
    BY <1>1, <2>1 DEF IInv, PromptFollows, cmc
  <2>. QED
    BY <1>6, <2>6, <2>7, <2>8, <2>9, <2>10, <2>11, <2>12 DEF IInv
<1>10. Head(up).code \in {"Offloading", "Offloading_Done", "frame"}
  BY <1>2 DEF PmgPacket
<1>. QED
  BY <1>7, <1>8, <1>9, <1>10

LEMMA TransferEndsKeeps == ASSUME IInv, TransferEnds PROVE IInv'
<1>0. TypeOK /\ OneRun
  BY DEF IInv
<1>1. /\ sending /\ results' = results + 1 /\ profile' = NoProfile
      /\ pmg' = "Idle" /\ offDone' = FALSE /\ txbeg' = FALSE /\ sending' = FALSE
      /\ UNCHANGED <<op, orders, navis, started, stored, da, down, up, faulty>>
  BY DEF TransferEnds
<1>2. offDone
  BY <1>1 DEF IInv, SendingIsDone
<1>3. /\ ~Begins(orders) /\ ~Starts(down) /\ ~Acquiring /\ results = 0 /\ pending = TRUE
      /\ results' = 1
  BY <1>0, <1>1, <1>2 DEF OneRun, TypeOK
<1>4. Acquiring' = Acquiring /\ ~offload /\ ~Reports(up)
  BY <1>1, <1>3 DEF Acquiring, da
<1>5. up = <<>>
  BY <1>0, <1>4, NothingUnreported DEF IInv, NothingLeft, TypeOK
<1>6. TypeOK'
  <2>1. /\ profile' \in Profile \cup {NoProfile} /\ pmg' \in {"Idle", "Profiling", "Offloading"}
        /\ results' \in Nat
    BY <1>1, <1>3
  <2>2. offDone' \in BOOLEAN /\ txbeg' \in BOOLEAN /\ sending' \in BOOLEAN
    BY <1>1
  <2>. QED
    BY <1>0, <1>1, <2>1, <2>2 DEF TypeOK, navis, da
<1>7. OneRun'
  BY <1>0, <1>1, <1>3, <1>4 DEF OneRun, navis, da
<1>8. NothingLeft' /\ Counted' /\ OwnFrames' /\ QuietMeansIdle' /\ SendingIsDone'
  BY <1>1 DEF IInv, NothingLeft, Counted, OwnFrames, QuietMeansIdle, SendingIsDone, navis, da
<1>9. Fresh' /\ Belongs'
  BY <1>1, <1>3, <1>4 DEF IInv, Fresh, Belongs, Starts, da
<1>10. Conserved'
  BY <1>1, <1>3, <1>4, <1>5 DEF Conserved, AnnouncedFirst, da
<1>11. PromptFollows'
  BY <1>1 DEF IInv, PromptFollows
<1>. QED
  BY <1>6, <1>7, <1>8, <1>9, <1>10, <1>11 DEF IInv

----------------------------------------------------------------------------
(* The data acquisition *)

(* The end of an acquisition: its frames will come.                         *)
LEMMA FinishKeeps ==
  ASSUME IInv, daq = "FloatProfile", busy = {}, daq' = "Idle", stopping' = FALSE,
         offload' = TRUE, up' = Append(up, [code |-> "Offloading"]),
         UNCHANGED <<for, action, busy, flash, acquired, navis, cmc, pm, faulty>>,
         down' \in Seq(DaqCommand), ~Starts(down')
  PROVE  IInv'
<1> DEFINE e == [code |-> "Offloading"]
<1>0. TypeOK /\ OneRun
  BY DEF IInv
<1>1. /\ Acquiring /\ ~offload /\ ~Reports(up) /\ ~offDone /\ results = 0
      /\ ~Begins(orders) /\ pending = TRUE
  BY <1>0 DEF OneRun, Acquiring, TypeOK
<1>2. e \in PmgPacket /\ e.code = "Offloading" /\ up \in Seq(PmgPacket)
  BY <1>0 DEF PmgPacket, TypeOK
<1> HIDE DEF e
<1>3. /\ up' \in Seq(PmgPacket) /\ ~Reports(up') /\ ReportsOnce(up')
      /\ Brought(up') = Brought(up) /\ Announces(up')
      /\ AnnouncedFirst(up) => AnnouncedFirst(up')
  <2>1. up' = Append(up, e)
    BY DEF e
  <2>. QED
    BY <1>0, <1>1, <1>2, <2>1, UpAppend DEF OneRun
<1>4. Acquiring'
  BY DEF Acquiring
<1>5. TypeOK'
  <2>1. offload' \in BOOLEAN /\ stopping' \in BOOLEAN
    OBVIOUS
  <2>. QED
    BY <1>0, <1>3, <2>1 DEF TypeOK, navis, cmc, pm
<1>6. OneRun'
  <2>1. StartsOnce(down')
    BY DEF Starts, StartsOnce
  <2>. QED
    BY <1>0, <1>1, <1>3, <2>1 DEF OneRun, navis, cmc, pm
<1>7. NothingLeft' /\ QuietMeansIdle' /\ Counted' /\ SendingIsDone' /\ OwnFrames' /\ PromptFollows'
  BY DEF IInv, NothingLeft, QuietMeansIdle, Counted, SendingIsDone, OwnFrames, PromptFollows,
         navis, cmc, pm
<1>8. Fresh'
  BY DEF IInv, Fresh, Starts, pm
<1>9. Belongs'
  BY <1>1, <1>3 DEF IInv, Belongs, pm
<1>10. Conserved'
  BY <1>1, <1>3 DEF IInv, Conserved, pm
<1>. QED
  BY <1>5, <1>6, <1>7, <1>8, <1>9, <1>10 DEF IInv

LEMMA DaqPassStopKeeps == ASSUME IInv, DaqPassStop PROVE IInv'
<1>1. /\ stopping /\ busy = {} /\ daq' = "Idle" /\ stopping' = FALSE /\ offload' = TRUE
      /\ up' = Append(up, [code |-> "Offloading"])
      /\ UNCHANGED <<for, action, busy, flash, acquired, down, navis, cmc, pm, faulty>>
  BY DEF DaqPassStop, Finishing, Finish
<1>2. daq = "FloatProfile" /\ down \in Seq(DaqCommand)
  BY <1>1 DEF IInv, TypeOK
<1>3. ~Starts(down)
  BY <1>2 DEF IInv, OneRun, Acquiring
<1>. QED
  BY <1>1, <1>2, <1>3, FinishKeeps

LEMMA DaqPassCommandKeeps == ASSUME IInv, DaqPassCommand PROVE IInv'
<1>0. TypeOK /\ OneRun
  BY DEF IInv
<1>1. /\ down # <<>> /\ down' = Tail(down)
      /\ UNCHANGED <<busy, flash, acquired, navis, cmc, pm, faulty>>
  BY DEF DaqPassCommand
<1>2. /\ Head(down) \in DaqCommand /\ down' \in Seq(DaqCommand)
      /\ 1 \in 1 .. Len(down) /\ Head(down) = down[1]
      /\ \A i \in 1 .. Len(down') : i + 1 \in 1 .. Len(down) /\ down'[i] = down[i + 1]
      /\ StartsOnce(down')
      /\ Starts(down') => Starts(down)
      /\ Head(down).code = "Profiling" => Starts(down) /\ ~Starts(down')
  BY <1>0, <1>1, DownTail DEF TypeOK, OneRun
<1>3. CASE Head(down).code = "Profiling"
  <2>1. /\ ~Acquiring /\ ~offDone /\ results = 0 /\ ~Begins(orders) /\ pending = TRUE
        /\ daq = "Idle" /\ ~offload /\ ~Reports(up)
        /\ Starts(down) /\ ~Starts(down')
    BY <1>0, <1>2, <1>3 DEF OneRun, Acquiring, TypeOK
  <2>2. stopping = FALSE
    BY <1>0, <2>1 DEF TypeOK
  <2>3. /\ for' = Head(down).for /\ action' = "Delay" /\ Finish("FloatProfile", stopping)
    BY <1>3, <2>1 DEF DaqPassCommand
  <2>4. daq' = "FloatProfile" /\ stopping' = FALSE /\ UNCHANGED <<offload, up>>
    BY <2>2, <2>3 DEF Finish
  <2>5. flash = <<>> /\ Held(flash) = {} /\ Brought(up) = {}
    <3>1. flash = <<>> /\ Followed(up) /\ up \in Seq(PmgPacket)
      BY <1>0, <2>1 DEF IInv, NothingLeft, TypeOK
    <3>. QED
      BY <2>1, <3>1, NothingUnreported, NoneHeld
  <2>6. /\ for' \in 1 .. started /\ acquired[for'] = {} /\ profile \in {NoProfile, for'}
        /\ for' # NoProfile /\ for' \in Profile
    <3>1. /\ for' \in 1 .. started /\ acquired[for'] = {} /\ profile \in {NoProfile, for'}
      BY <1>2, <1>3, <2>3 DEF IInv, Fresh
    <3>2. started \in 0 .. MaxProfiles
      BY <1>0 DEF TypeOK
    <3>3. for' # NoProfile /\ for' \in Profile
      BY <3>1, <3>2, BoundAssumption DEF Profile, NoProfile
    <3>. QED
      BY <3>1, <3>3
  <2>7. TypeOK'
    <3>1. stopping' \in BOOLEAN /\ for' \in Profile \cup {NoProfile}
      BY <2>4, <2>6
    <3>. QED
      BY <1>0, <1>1, <1>2, <2>3, <2>4, <3>1 DEF TypeOK, navis, cmc, pm
  <2>8. OneRun'
    BY <1>0, <1>1, <1>2, <2>1, <2>4 DEF OneRun, navis, cmc, pm, Acquiring
  <2>9. NothingLeft' /\ QuietMeansIdle' /\ Counted' /\ SendingIsDone' /\ OwnFrames' /\ PromptFollows'
    BY <1>1, <2>4
       DEF IInv, NothingLeft, QuietMeansIdle, Counted, SendingIsDone, OwnFrames, PromptFollows,
           navis, cmc, pm
  <2>10. Fresh'
    <3>1. for' <= started
      BY <1>0, <2>6 DEF TypeOK
    <3>. QED
      BY <1>1, <2>1, <3>1 DEF IInv, Fresh, Starts, pm
  <2>11. Belongs'
    BY <1>1, <2>4, <2>5, <2>6 DEF Belongs, pm
  <2>12. Conserved'
    <3>1. stored[for'] = {}
      BY <1>0, <2>6 DEF IInv, OwnFrames, TypeOK
    <3>. QED
      BY <1>1, <2>1, <2>4, <2>5, <2>6, <3>1 DEF IInv, Conserved, pm
  <2>. QED
    BY <2>7, <2>8, <2>9, <2>10, <2>11, <2>12 DEF IInv
<1>4. CASE Head(down).code # "Profiling"
  <2>1. UNCHANGED <<for, action>> /\ Finish(daq, stopping \/ daq = "FloatProfile")
    BY <1>4 DEF DaqPassCommand
  <2>2. CASE (stopping \/ daq = "FloatProfile") /\ busy = {}
    <3>1. daq = "FloatProfile"
      BY <1>0, <2>2 DEF TypeOK
    <3>2. /\ daq' = "Idle" /\ stopping' = FALSE /\ offload' = TRUE
          /\ up' = Append(up, [code |-> "Offloading"])
      BY <2>1, <2>2 DEF Finish
    <3>3. ~Starts(down')
      BY <1>0, <1>2, <3>1 DEF OneRun, Acquiring
    <3>. QED
      BY <1>1, <1>2, <2>1, <2>2, <3>1, <3>2, <3>3, FinishKeeps
  <2>3. CASE ~((stopping \/ daq = "FloatProfile") /\ busy = {})
    <3>1. /\ daq' = daq /\ stopping' = (stopping \/ daq = "FloatProfile")
          /\ UNCHANGED <<offload, up>>
      BY <2>1, <2>3 DEF Finish
    <3>2. TypeOK'
      <4>1. stopping' \in BOOLEAN /\ (stopping' => daq = "FloatProfile")
        BY <1>0, <3>1 DEF TypeOK
      <4>. QED
        BY <1>0, <1>1, <1>2, <2>1, <3>1, <4>1 DEF TypeOK, navis, cmc, pm
    <3>3. Acquiring' <=> Acquiring
      BY <3>1 DEF Acquiring
    <3>4. OneRun'
      BY <1>0, <1>1, <1>2, <3>1, <3>3 DEF OneRun, navis, cmc, pm
    <3>5. NothingLeft' /\ QuietMeansIdle' /\ Counted' /\ SendingIsDone' /\ OwnFrames' /\ PromptFollows'
      BY <1>1, <3>1
         DEF IInv, NothingLeft, QuietMeansIdle, Counted, SendingIsDone, OwnFrames, PromptFollows,
             navis, cmc, pm
    <3>6. Fresh'
      BY <1>1, <1>2, <2>1 DEF IInv, Fresh, pm
    <3>7. Belongs' /\ Conserved'
      BY <1>1, <1>2, <2>1, <3>1, <3>3 DEF IInv, Belongs, Conserved, pm
    <3>. QED
      BY <3>2, <3>4, <3>5, <3>6, <3>7 DEF IInv
  <2>. QED
    BY <2>2, <2>3
<1>. QED
  BY <1>3, <1>4

LEMMA OffloadKeeps == ASSUME IInv, Offload PROVE IInv'
<1>0. TypeOK /\ OneRun
  BY DEF IInv
<1>1. /\ offload
      /\ UNCHANGED <<daq, for, action, busy, stopping, acquired, down, navis, cmc, pm, faulty>>
  BY DEF Offload
<1>2. /\ Acquiring /\ ~Reports(up) /\ daq = "Idle" /\ ~offDone /\ results = 0
      /\ ~Begins(orders) /\ ~Starts(down) /\ pending = TRUE
      /\ up \in Seq(PmgPacket) /\ flash \in Seq(Frame)
  BY <1>0, <1>1 DEF OneRun, Acquiring, TypeOK
<1>3. ~faulty => /\ pmg = "Offloading" \/ AnnouncedFirst(up)
                 /\ pmg = "Offloading" \/ Announces(up)
  BY <1>1 DEF IInv, Conserved
<1>4. QuietMeansIdle' /\ Counted' /\ Fresh' /\ SendingIsDone' /\ OwnFrames' /\ PromptFollows'
  BY <1>1
     DEF IInv, QuietMeansIdle, Counted, Fresh, SendingIsDone, OwnFrames, PromptFollows,
         navis, cmc, pm
<1>5. CASE flash = <<>>
  <2> DEFINE e == [code |-> "Offloading_Done"]
  <2>1. up' = Append(up, e) /\ offload' = FALSE /\ UNCHANGED flash
    BY <1>5 DEF Offload
  <2>2. e \in PmgPacket /\ e.code = "Offloading_Done"
    BY DEF PmgPacket
  <2> HIDE DEF e
  <2>3. /\ up' \in Seq(PmgPacket) /\ Reports(up') /\ ReportsOnce(up') /\ Followed(up')
        /\ Brought(up') = Brought(up)
        /\ AnnouncedFirst(up) /\ Announces(up) => AnnouncedFirst(up')
    BY <1>0, <1>2, <2>1, <2>2, UpAppend DEF OneRun
  <2>4. TypeOK'
    <3>1. offload' \in BOOLEAN
      BY <2>1
    <3>. QED
      BY <1>0, <1>1, <2>1, <2>3, <3>1 DEF TypeOK, navis, cmc, pm
  <2>5. OneRun'
    BY <1>0, <1>1, <1>2, <2>1, <2>3 DEF OneRun, navis, cmc, pm
  <2>6. NothingLeft'
    BY <1>5, <2>1, <2>3 DEF NothingLeft
  <2>7. Belongs'
    BY <1>1, <1>2, <2>1, <2>3 DEF IInv, Belongs, pm
  <2>8. Conserved'
    BY <1>1, <1>2, <1>3, <2>1, <2>3 DEF IInv, Conserved, pm
  <2>. QED
    BY <1>4, <2>4, <2>5, <2>6, <2>7, <2>8 DEF IInv
<1>6. CASE flash # <<>>
  <2> DEFINE f == flash[Len(flash)]
             e == [code |-> "frame", frame |-> f]
  <2>1. /\ up' = Append(up, e) /\ flash' = SubSeq(flash, 1, Len(flash) - 1)
        /\ UNCHANGED offload
    BY <1>6 DEF Offload
  <2>2. /\ flash' \in Seq(Frame) /\ f \in Frame /\ f \in Held(flash)
        /\ Held(flash) = Held(flash') \cup {f}
    BY <1>2, <1>6, <2>1, FlashTaken
  <2> HIDE DEF f
  <2>3. e \in PmgPacket /\ e.code = "frame" /\ e.frame = f
    BY <2>2 DEF PmgPacket
  <2> HIDE DEF e
  <2>4. /\ up' \in Seq(PmgPacket) /\ ~Reports(up') /\ ReportsOnce(up')
        /\ Brought(up') = Brought(up) \cup {f}
        /\ Announces(up') <=> Announces(up)
        /\ AnnouncedFirst(up) /\ Announces(up) => AnnouncedFirst(up')
    BY <1>0, <1>2, <2>1, <2>3, UpAppend DEF OneRun
  <2>5. TypeOK'
    BY <1>0, <1>1, <2>1, <2>2, <2>4 DEF TypeOK, navis, cmc, pm
  <2>6. Acquiring'
    BY <1>1, <2>1 DEF Acquiring
  <2>7. OneRun'
    BY <1>0, <1>1, <1>2, <2>1, <2>4 DEF OneRun, navis, cmc, pm
  <2>8. NothingLeft'
    BY <1>1, <2>1 DEF NothingLeft
  <2>9. Held(flash') \cup Brought(up') = Held(flash) \cup Brought(up)
    BY <2>2, <2>4
  <2>10. Belongs'
    BY <1>1, <1>2, <2>9 DEF IInv, Belongs, pm
  <2>11. Conserved'
    BY <1>1, <1>2, <1>3, <2>1, <2>4, <2>9 DEF IInv, Conserved, pm
  <2>. QED
    BY <1>4, <2>5, <2>7, <2>8, <2>10, <2>11 DEF IInv
<1>. QED
  BY <1>5, <1>6

LEMMA ScheduleKeeps == ASSUME IInv, Schedule PROVE IInv'
<1>1. /\ daq = "FloatProfile" /\ busy' = Spectrometers /\ action' \in {"Single", "Continuous"}
      /\ UNCHANGED <<daq, for, stopping, offload, flash, acquired, down, up, navis, cmc, pm,
                     faulty>>
  BY DEF Schedule
<1>2. TypeOK'
  BY <1>1 DEF IInv, TypeOK, navis, cmc, pm
<1>3. OneRun' /\ NothingLeft' /\ QuietMeansIdle' /\ Counted'
  BY <1>1 DEF IInv, OneRun, NothingLeft, QuietMeansIdle, Counted, Acquiring, navis, cmc, pm
<1>4. Fresh' /\ Belongs' /\ Conserved' /\ SendingIsDone' /\ PromptFollows' /\ OwnFrames'
  BY <1>1 DEF IInv, Fresh, Belongs, Conserved, SendingIsDone, PromptFollows, OwnFrames, Acquiring,
              navis, cmc, pm
<1>. QED
  BY <1>2, <1>3, <1>4 DEF IInv

LEMMA SamplingFailsKeeps ==
  ASSUME IInv, NEW s \in Spectrometers, SamplingFails(s)
  PROVE  IInv'
<1>1. /\ s \in busy /\ busy' = busy \ {s} /\ stopping' = TRUE
      /\ UNCHANGED <<daq, for, action, offload, flash, acquired, down, up, navis, cmc, pm,
                     faulty>>
  BY DEF SamplingFails
<1>2. TypeOK'
  <2>1. daq = "FloatProfile" /\ stopping' \in BOOLEAN /\ busy' \subseteq Spectrometers
    BY <1>1 DEF IInv, TypeOK
  <2>. QED
    BY <1>1, <2>1 DEF IInv, TypeOK, navis, cmc, pm
<1>3. OneRun' /\ NothingLeft' /\ QuietMeansIdle' /\ Counted'
  BY <1>1 DEF IInv, OneRun, NothingLeft, QuietMeansIdle, Counted, Acquiring, navis, cmc, pm
<1>4. Fresh' /\ Belongs' /\ Conserved' /\ SendingIsDone' /\ PromptFollows' /\ OwnFrames'
  BY <1>1 DEF IInv, Fresh, Belongs, Conserved, SendingIsDone, PromptFollows, OwnFrames, Acquiring,
              navis, cmc, pm
<1>. QED
  BY <1>2, <1>3, <1>4 DEF IInv

LEMMA TransferKeeps ==
  ASSUME IInv, NEW s \in Spectrometers, Transfer(s)
  PROVE  IInv'
<1>0. TypeOK /\ OneRun
  BY DEF IInv
<1>1. /\ s \in busy /\ AddFrame
      /\ UNCHANGED <<daq, for, offload, down, up, navis, cmc, pm, faulty>>
  BY DEF Transfer
<1>2. /\ busy' \subseteq busy /\ stopping' \in BOOLEAN
      /\ action' \in {"Delay", "Single", "Continuous", "Complete"}
  BY <1>0 DEF Transfer, TypeOK
<1>3. /\ daq = "FloatProfile" /\ Acquiring /\ ~offload /\ ~Reports(up) /\ ~Starts(down)
      /\ for # NoProfile /\ for \in Profile
  <2>1. daq = "FloatProfile" /\ Acquiring
    BY <1>0, <1>1 DEF TypeOK, Acquiring
  <2>. QED
    BY <1>0, <2>1 DEF OneRun, Acquiring, IInv, Belongs, TypeOK
<1>4. \/ UNCHANGED <<flash, acquired>>
      \/ \E f \in Frame : /\ flash' = Append(flash, f)
                          /\ acquired' = [acquired EXCEPT ![for] = @ \cup {f}]
  BY <1>1 DEF AddFrame
<1>5. \E F \in SUBSET Frame :
        /\ flash' \in Seq(Frame) /\ Held(flash') = Held(flash) \cup F
        /\ acquired' \in [Profile -> SUBSET Frame]
        /\ \A p \in Profile : acquired'[p] = IF p = for THEN acquired[for] \cup F ELSE acquired[p]
  <2>0. flash \in Seq(Frame) /\ acquired \in [Profile -> SUBSET Frame]
    BY <1>0 DEF TypeOK
  <2>1. CASE UNCHANGED <<flash, acquired>>
    <3>. WITNESS {} \in SUBSET Frame
    <3>. QED
      BY <2>0, <2>1
  <2>2. ASSUME NEW f \in Frame, flash' = Append(flash, f),
               acquired' = [acquired EXCEPT ![for] = @ \cup {f}]
        PROVE  \E F \in SUBSET Frame :
                 /\ flash' \in Seq(Frame) /\ Held(flash') = Held(flash) \cup F
                 /\ acquired' \in [Profile -> SUBSET Frame]
                 /\ \A p \in Profile :
                      acquired'[p] = IF p = for THEN acquired[for] \cup F ELSE acquired[p]
    <3>1. flash' \in Seq(Frame) /\ Held(flash') = Held(flash) \cup {f}
      BY <2>0, <2>2, FlashAppend
    <3>2. acquired' \in [Profile -> SUBSET Frame]
      BY <2>0, <2>2
    <3>3. \A p \in Profile :
            acquired'[p] = IF p = for THEN acquired[for] \cup {f} ELSE acquired[p]
      BY <1>3, <2>0, <2>2
    <3>. WITNESS {f} \in SUBSET Frame
    <3>. QED
      BY <3>1, <3>2, <3>3
  <2>. QED
    BY <1>4, <2>1, <2>2
<1>6. PICK F \in SUBSET Frame :
        /\ flash' \in Seq(Frame) /\ Held(flash') = Held(flash) \cup F
        /\ acquired' \in [Profile -> SUBSET Frame]
        /\ \A p \in Profile : acquired'[p] = IF p = for THEN acquired[for] \cup F ELSE acquired[p]
  BY <1>5
<1>7. acquired'[for] = acquired[for] \cup F
  BY <1>3, <1>6
<1>8. Acquiring'
  BY <1>1, <1>3 DEF Acquiring
<1>9. TypeOK'
  BY <1>0, <1>1, <1>2, <1>3, <1>6 DEF TypeOK, navis, cmc, pm
<1>10. OneRun' /\ QuietMeansIdle' /\ Counted' /\ SendingIsDone' /\ PromptFollows'
  BY <1>1 DEF IInv, OneRun, QuietMeansIdle, Counted, SendingIsDone, PromptFollows, Acquiring,
              navis, cmc, pm
<1>11. NothingLeft'
  BY <1>1, <1>3 DEF IInv, NothingLeft
<1>12. Fresh'
  <2>1. for <= started /\ started \in Nat /\ for \in Nat
    BY <1>0 DEF IInv, Fresh, TypeOK, Profile, NoProfile
  <2>2. \A p \in Profile : p > started => acquired'[p] = {}
    <3>1. \A p \in Profile : p > started => p # for /\ acquired[p] = {}
      BY <2>1 DEF IInv, Fresh, Profile
    <3>. QED
      BY <1>6, <3>1
  <2>. QED
    BY <1>1, <1>3, <2>1, <2>2 DEF Fresh, Starts, pm
<1>13. Belongs'
  <2>1. Held(flash') \cup Brought(up) \subseteq acquired'[for]
    BY <1>3, <1>6, <1>7 DEF IInv, Belongs
  <2>. QED
    BY <1>1, <1>3, <2>1 DEF IInv, Belongs, pm
<1>14. Conserved'
  <2>1. ~faulty => acquired'[for] = stored[for] \cup Held(flash') \cup Brought(up)
    <3>1. ~faulty => acquired[for] = stored[for] \cup Held(flash) \cup Brought(up)
      BY <1>3 DEF IInv, Conserved
    <3>. QED
      BY <1>6, <1>7, <3>1
  <2>. QED
    BY <1>1, <1>3, <1>8, <2>1 DEF IInv, Conserved, pm
<1>15. OwnFrames'
  <2>1. \A p \in Profile : stored[p] \subseteq acquired[p] /\ acquired[p] \subseteq acquired'[p]
    BY <1>6 DEF IInv, OwnFrames
  <2>. QED
    BY <1>1, <2>1 DEF OwnFrames, pm
<1>. QED
  BY <1>9, <1>10, <1>11, <1>12, <1>13, <1>14, <1>15 DEF IInv

----------------------------------------------------------------------------
(* The link *)

LEMMA LoseDownKeeps == ASSUME IInv, LoseDown PROVE IInv'
<1>0. TypeOK /\ OneRun
  BY DEF IInv
<1>1. /\ down # <<>> /\ faulty' = TRUE /\ down' = Tail(down)
      /\ UNCHANGED <<up, navis, cmc, pm, da>>
  BY DEF LoseDown
<1>2. /\ down' \in Seq(DaqCommand)
      /\ \A i \in 1 .. Len(down') : i + 1 \in 1 .. Len(down) /\ down'[i] = down[i + 1]
      /\ StartsOnce(down') /\ (Starts(down') => Starts(down))
  BY <1>0, <1>1, DownTail DEF TypeOK, OneRun
<1>3. TypeOK'
  <2>1. faulty' \in BOOLEAN
    BY <1>1
  <2>. QED
    BY <1>0, <1>1, <1>2, <2>1 DEF TypeOK, navis, cmc, pm, da
<1>4. OneRun'
  BY <1>0, <1>1, <1>2 DEF OneRun, Acquiring, navis, cmc, pm, da
<1>5. Fresh'
  BY <1>1, <1>2 DEF IInv, Fresh, pm, da
<1>6. Conserved'
  BY <1>1 DEF Conserved
<1>7. /\ NothingLeft' /\ QuietMeansIdle' /\ Counted' /\ Belongs' /\ SendingIsDone'
      /\ PromptFollows' /\ OwnFrames'
  BY <1>1 DEF IInv, NothingLeft, QuietMeansIdle, Counted, Belongs, SendingIsDone, PromptFollows,
              OwnFrames, Acquiring, navis, cmc, pm, da
<1>. QED
  BY <1>3, <1>4, <1>5, <1>6, <1>7 DEF IInv

LEMMA LoseUpKeeps == ASSUME IInv, LoseUp PROVE IInv'
<1>0. TypeOK /\ OneRun
  BY DEF IInv
<1>1. /\ up # <<>> /\ faulty' = TRUE /\ up' = Tail(up)
      /\ UNCHANGED <<down, navis, cmc, pm, da>>
  BY DEF LoseUp
<1>2. /\ up' \in Seq(PmgPacket) /\ ReportsOnce(up')
      /\ Reports(up') => Reports(up)
      /\ Followed(up) => Followed(up')
      /\ Brought(up') \subseteq Brought(up)
  BY <1>0, <1>1, UpTail DEF TypeOK, OneRun
<1>3. Acquiring' => Acquiring
  BY <1>1, <1>2 DEF Acquiring, da
<1>4. TypeOK'
  <2>1. faulty' \in BOOLEAN
    BY <1>1
  <2>. QED
    BY <1>0, <1>1, <1>2, <2>1 DEF TypeOK, navis, cmc, pm, da
<1>5. OneRun'
  BY <1>0, <1>1, <1>2, <1>3 DEF OneRun, navis, cmc, pm, da
<1>6. Conserved'
  BY <1>1 DEF Conserved
<1>7. /\ NothingLeft' /\ QuietMeansIdle' /\ Counted' /\ Fresh' /\ SendingIsDone'
      /\ PromptFollows' /\ OwnFrames'
  BY <1>1, <1>2 DEF IInv, NothingLeft, QuietMeansIdle, Counted, Fresh, SendingIsDone,
                    PromptFollows, OwnFrames, navis, cmc, pm, da
<1>8. Belongs'
  BY <1>1, <1>2, <1>3 DEF IInv, Belongs, pm, da
<1>. QED
  BY <1>4, <1>5, <1>6, <1>7, <1>8 DEF IInv

----------------------------------------------------------------------------
(* Theorems *)

LEMMA InitIInv == Init => IInv
<1> SUFFICES ASSUME Init PROVE IInv
  OBVIOUS
<1>1. /\ orders = <<>> /\ down = <<>> /\ up = <<>> /\ flash = <<>>
      /\ ~Begins(orders) /\ BeginsOnce(orders) /\ EndedAfter(orders)
      /\ ~Starts(down) /\ StartsOnce(down)
      /\ ~Reports(up) /\ ReportsOnce(up) /\ Followed(up) /\ AnnouncedFirst(up)
      /\ Held(flash) = {} /\ Brought(up) = {}
  BY NoneHeld
     DEF Init, Begins, BeginsOnce, EndedAfter, Starts, StartsOnce, Reports, ReportsOnce,
         Followed, AnnouncedFirst
<1>2. TypeOK
  <2>1. begun \in [commands : 0 .. MaxCommands, profiles : 0 .. MaxProfiles]
        /\ started \in 0 .. MaxProfiles
    BY BoundAssumption DEF Init
  <2>2. /\ orders \in Seq(Order) /\ flash \in Seq(Frame)
        /\ down \in Seq(DaqCommand) /\ up \in Seq(PmgPacket)
    BY <1>1
  <2>3. stored \in [Profile -> SUBSET Frame] /\ acquired \in [Profile -> SUBSET Frame]
    BY DEF Init
  <2>. QED
    BY <2>1, <2>2, <2>3 DEF Init, TypeOK
<1>3. ~Acquiring
  BY <1>1 DEF Init, Acquiring
<1>4. OneRun
  BY <1>1, <1>3 DEF Init, OneRun
<1>5. NothingLeft /\ QuietMeansIdle /\ SendingIsDone /\ PromptFollows /\ OwnFrames
  BY <1>1 DEF Init, NothingLeft, QuietMeansIdle, SendingIsDone, PromptFollows, OwnFrames
<1>6. Counted /\ Fresh
  BY <1>1 DEF Init, Counted, Fresh, Starts, NoProfile
<1>7. Belongs /\ Conserved
  BY <1>1, <1>3 DEF Init, Belongs, Conserved
<1>. QED
  BY <1>2, <1>4, <1>5, <1>6, <1>7 DEF IInv

LEMMA NextKeepsIInv == ASSUME Patient, IInv, [Next]_vars PROVE IInv'
<1>1. CASE \E c \in Command : Navis(c)
  BY <1>1, NavisKeeps
<1>2. CASE TransferStatus
  BY <1>2, TransferStatusKeeps
<1>3. CASE PmgOrder \/ PmgPacketFromDaq \/ TransferEnds
  BY <1>3, PmgOrderKeeps, PacketKeeps, TransferEndsKeeps
<1>4. CASE DaqPass
  BY <1>4, DaqPassStopKeeps, DaqPassCommandKeeps, OffloadKeeps DEF DaqPass
<1>5. CASE Schedule
  BY <1>5, ScheduleKeeps
<1>6. CASE \E s \in Spectrometers : SamplingFails(s) \/ Transfer(s)
  BY <1>6, SamplingFailsKeeps, TransferKeeps
<1>7. CASE LoseDown \/ LoseUp
  BY <1>7, LoseDownKeeps, LoseUpKeeps
<1>8. CASE UNCHANGED vars
  <2>1. UNCHANGED <<navis, cmc, pm, da, down, up, faulty>>
    BY <1>8 DEF vars
  <2>2. TypeOK'
    BY <2>1 DEF IInv, TypeOK, navis, cmc, pm, da
  <2>3. OneRun' /\ NothingLeft' /\ QuietMeansIdle' /\ Counted'
    BY <2>1 DEF IInv, OneRun, NothingLeft, QuietMeansIdle, Counted, Acquiring, navis, cmc, pm, da
  <2>4. Fresh' /\ Belongs' /\ Conserved' /\ SendingIsDone' /\ PromptFollows' /\ OwnFrames'
    BY <2>1 DEF IInv, Fresh, Belongs, Conserved, SendingIsDone, PromptFollows, OwnFrames,
                Acquiring, navis, cmc, pm, da
  <2>. QED
    BY <2>2, <2>3, <2>4 DEF IInv
<1>. QED
  BY <1>1, <1>2, <1>3, <1>4, <1>5, <1>6, <1>7, <1>8 DEF Next

LEMMA Invariance == Patient /\ Spec => []IInv
<1> SUFFICES ASSUME Patient PROVE Spec => []IInv
  OBVIOUS
<1>1. IInv /\ [Next]_vars => IInv'
  BY NextKeepsIInv
<1>. QED
  BY InitIInv, <1>1, PTL DEF Spec

(* Types and ranges, whatever is lost or fails: no state of the commander,  *)
(* the profile manager or the acquisition that their loops exclude.         *)
THEOREM TypeCorrect == Patient /\ Spec => []TypeOK
  BY Invariance, PTL DEF IInv

(* The files of a profile hold frames of that profile only, although the    *)
(* frames carry no profile number (profile_manager.c, PMG_Frame) and some   *)
(* of them, or the reports before and after them, may have been lost.       *)
THEOREM OnlyOwnFrames == Patient /\ Spec => []OwnFrames
  BY Invariance, PTL DEF IInv

(* What profile_fake transfers is all that the acquisition has put in flash *)
(* memory, unless something failed.                                         *)
THEOREM TransfersComplete == Patient /\ Spec => []TransferComplete
<1>1. IInv => TransferComplete
  <2> SUFFICES ASSUME IInv, sending, ~faulty
               PROVE  profile # NoProfile /\ stored[profile] = acquired[profile]
    BY DEF TransferComplete
  <2>1. offDone
    BY DEF IInv, SendingIsDone
  <2>2. ~Acquiring
    BY <2>1 DEF IInv, OneRun
  <2>3. /\ profile # NoProfile /\ profile = for
        /\ acquired[for] = stored[for] \cup Held(flash) \cup Brought(up)
    BY <2>1 DEF IInv, Belongs, Conserved
  <2>4. flash = <<>> /\ Followed(up) /\ ~Reports(up) /\ up \in Seq(PmgPacket)
    BY <2>2 DEF IInv, NothingLeft, Acquiring, TypeOK
  <2>5. Held(flash) = {} /\ Brought(up) = {}
    BY <2>4, NothingUnreported, NoneHeld
  <2>. QED
    BY <2>3, <2>5
<1>. QED
  BY Invariance, <1>1, PTL

(* The commander's prompt means that the profile manager is not profiling,  *)
(* or has its end before it.                                                *)
THEOREM PromptIsIdle == Patient /\ Spec => []PromptMeansIdle
<1>1. IInv => PromptMeansIdle
  BY DEF IInv, PromptFollows, PromptMeansIdle, Ended
<1>. QED
  BY Invariance, <1>1, PTL

(* No frame is added to flash memory while frames are being returned from   *)
(* it, which is the assumption of the frame store (FlashMemory).            *)
THEOREM NeverFillsAndEmpties == Patient /\ Spec => FillsOrEmpties
<1> SUFFICES ASSUME Patient PROVE Spec => FillsOrEmpties
  OBVIOUS
<1>1. ASSUME IInv, [Next]_vars, Len(flash') > Len(flash) PROVE ~offload
  <2>0. flash \in Seq(Frame) /\ Len(flash) \in Nat
    BY <1>1 DEF IInv, TypeOK
  <2>1. flash' # flash
    BY <1>1, <2>0
  <2>2. CASE Offload
    <3>1. CASE flash = <<>>
      BY <2>1, <2>2, <3>1 DEF Offload
    <3>2. CASE flash # <<>>
      <4>1. flash' = SubSeq(flash, 1, Len(flash) - 1)
        BY <2>2, <3>2 DEF Offload
      <4>2. Len(flash') < Len(flash)
        BY <2>0, <3>2, <4>1, FlashTaken
      <4>. QED
        BY <1>1, <2>0, <4>2, LastRemoved, <3>2, <4>1
    <3>. QED
      BY <3>1, <3>2
  <2>3. CASE \E s \in Spectrometers : Transfer(s)
    <3>1. busy # {}
      BY <2>3 DEF Transfer
    <3>2. daq = "FloatProfile"
      BY <1>1, <3>1 DEF IInv, TypeOK
    <3>. QED
      BY <1>1, <3>2 DEF IInv, OneRun
  <2>4. CASE [Next]_vars /\ ~Offload /\ ~(\E s \in Spectrometers : Transfer(s))
    BY <2>1, <2>4
       DEF Next, DaqPass, Navis, TransferStatus, PmgOrder, PmgPacketFromDaq, TransferEnds,
           DaqPassStop, DaqPassCommand, Schedule, SamplingFails, LoseDown, LoseUp, vars, da
  <2>. QED
    BY <1>1, <2>2, <2>3, <2>4
<1>2. IInv /\ [Next]_vars => [Len(flash') > Len(flash) => ~offload]_vars
  BY <1>1
<1>3. Spec => []IInv
  BY Invariance
<1>. QED
  BY <1>2, <1>3, PTL DEF Spec, FillsOrEmpties

=============================================================================

-------------------------- MODULE BoardStartupProofs --------------------------
(***************************************************************************)
(* Safety of the start-up, for every number of resets, losses, inputs and  *)
(* packets under way.                                                      *)
(***************************************************************************)
EXTENDS BoardStartup, TLAPS

----------------------------------------------------------------------------
(* The inductive invariant *)

(* The package waits in this queue; once at most; behind the time that     *)
(* goes with it.                                                           *)
Has(q) == \E i \in 1 .. Len(q) : q[i] = "Configuration"
Once(q) ==
  \A i, j \in 1 .. Len(q) : q[i] = "Configuration" /\ q[j] = "Configuration" => i = j
Timed(q) ==
  \A i \in 1 .. Len(q) :
    q[i] = "Configuration" => \E j \in 1 .. i - 1 : q[j] = "SyncTime"

(* The time is on its way to the other board; every configuration that is, *)
(* has the time before it, and has been filled in.                         *)
Clock(d) == \E i \in 1 .. Len(d) : d[i].code = "SyncTime"
TimedOn(d) ==
  \A i \in 1 .. Len(d) :
    d[i].code = "Configuration" => \E j \in 1 .. i - 1 : d[j].code = "SyncTime"
FilledIn(c, again) ==
  c.id = Counter /\ c.rest = "own" /\ (c.vertical = "own" \/ again)
Loaded(d, again) ==
  \A i \in 1 .. Len(d) : d[i].code = "Configuration" => FilledIn(d[i].cfg, again)

(* The report of a start is in this channel, and behind every answer that  *)
(* the board can no longer give.                                           *)
Told(u) == \E i \in 1 .. Len(u) : u[i].code = "StartSpecBoard"
Corrected(u) ==
  \A i \in 1 .. Len(u) : u[i].code = "Query" /\ u[i].id = Counter =>
    \E j \in i + 1 .. Len(u) : u[j].code = "StartSpecBoard"

TimeFirst ==
  \/ synced \/ slipped
  \/ TimedOn(down) /\ (Timed(queue) \/ Clock(down))
ConfiguredIsTimed == cfg.id = Counter => synced \/ slipped
AnswersAreTrue == cfg.id # Counter => ~running \/ startLost \/ Corrected(up)

(* What may be sent, and be sent again, is whole.                          *)
MemoryIsWhole ==
  /\ package = "Full" => FilledIn(memory, repeated)
  /\ board = "Alive" => memory.rest = "own"
DownIsWhole == Loaded(down, repeated)

IInv ==
  /\ TypeOK /\ PackageStays /\ TimeFirst /\ ConfiguredIsTimed
  /\ MemoryIsWhole /\ DownIsWhole /\ AnswersAreTrue
  /\ ReadyIsConfigured /\ ConfigurationIsWhole

----------------------------------------------------------------------------
(* Sequences *)

LEMMA HeadAndTail ==
  ASSUME NEW S, NEW s \in Seq(S), s # <<>>
  PROVE  /\ Len(s) \in Nat \ {0} /\ Head(s) = s[1] /\ s[1] \in S
         /\ Tail(s) \in Seq(S) /\ Len(Tail(s)) = Len(s) - 1
         /\ \A i \in 1 .. Len(s) - 1 : Tail(s)[i] = s[i + 1]
  OBVIOUS

LEMMA Appended ==
  ASSUME NEW S, NEW s \in Seq(S), NEW e \in S
  PROVE  /\ Append(s, e) \in Seq(S) /\ Len(Append(s, e)) = Len(s) + 1
         /\ Append(s, e)[Len(s) + 1] = e
         /\ \A i \in 1 .. Len(s) : Append(s, e)[i] = s[i]
  OBVIOUS

LEMMA ThreeAppended ==
  ASSUME NEW S, NEW s \in Seq(S), NEW a \in S, NEW b \in S, NEW c \in S
  PROVE  LET t == s \o <<a, b, c>> IN
         /\ t \in Seq(S) /\ Len(t) = Len(s) + 3
         /\ \A i \in 1 .. Len(s) : t[i] = s[i]
         /\ t[Len(s) + 1] = a /\ t[Len(s) + 2] = b /\ t[Len(s) + 3] = c
  OBVIOUS

LEMMA Part ==
  ASSUME NEW S, NEW s \in Seq(S), NEW m \in 1 .. Len(s) + 1, NEW n \in 0 .. Len(s),
         m <= n + 1
  PROVE  /\ SubSeq(s, m, n) \in Seq(S) /\ Len(SubSeq(s, m, n)) = n - m + 1
         /\ \A i \in 1 .. n - m + 1 : SubSeq(s, m, n)[i] = s[i + m - 1]
  OBVIOUS

LEMMA Removed ==
  ASSUME NEW S, NEW s \in Seq(S), NEW i \in 1 .. Len(s)
  PROVE  /\ RemoveAt(s, i) \in Seq(S) /\ Len(RemoveAt(s, i)) = Len(s) - 1
         /\ \A j \in 1 .. Len(s) - 1 :
              RemoveAt(s, i)[j] = IF j < i THEN s[j] ELSE s[j + 1]
<1> DEFINE before == SubSeq(s, 1, i - 1)
           after == SubSeq(s, i + 1, Len(s))
<1>1. /\ before \in Seq(S) /\ Len(before) = i - 1
      /\ \A j \in 1 .. i - 1 : before[j] = s[j]
  BY Part, 1 \in 1 .. Len(s) + 1, i - 1 \in 0 .. Len(s)
<1>2. /\ after \in Seq(S) /\ Len(after) = Len(s) - i
      /\ \A j \in 1 .. Len(s) - i : after[j] = s[j + i]
  BY Part, i + 1 \in 1 .. Len(s) + 1, Len(s) \in 0 .. Len(s)
<1> HIDE DEF before, after
<1>3. RemoveAt(s, i) = before \o after
  BY DEF RemoveAt, before, after
<1>4. /\ before \o after \in Seq(S)
      /\ Len(before \o after) = Len(s) - 1
  BY <1>1, <1>2
<1>5. ASSUME NEW j \in 1 .. Len(s) - 1
      PROVE  (before \o after)[j] = IF j < i THEN s[j] ELSE s[j + 1]
  <2>1. CASE j < i
    <3>1. j \in 1 .. Len(before)
      BY <1>1, <2>1
    <3>2. (before \o after)[j] = before[j]
      BY <1>1, <1>2, <3>1
    <3>. QED
      BY <1>1, <2>1, <3>1, <3>2
  <2>2. CASE j >= i
    <3>1. (before \o after)[j] = after[j - (i - 1)]
      BY <1>1, <1>2, <2>2
    <3>2. j - (i - 1) \in 1 .. Len(s) - i
      BY <2>2
    <3>. QED
      BY <1>2, <2>2, <3>1, <3>2
  <2>3. j < i \/ j >= i
    OBVIOUS
  <2> HIDE DEF before, after
  <2>. QED
    BY <2>1, <2>2, <2>3, Zenon
<1>. QED
  BY <1>3, <1>4, <1>5

LEMMA RangeByIndex ==
  ASSUME NEW S, NEW s \in Seq(S), NEW e
  PROVE  e \in Range(s) <=> \E i \in 1 .. Len(s) : s[i] = e
  BY DEF Range

----------------------------------------------------------------------------
(* The queue of the data exchange *)

LEMMA QueueTail ==
  ASSUME NEW q \in Seq(Code), q # <<>>
  PROVE  /\ Tail(q) \in Seq(Code)
         /\ Once(q) => Once(Tail(q))
         /\ Head(q) # "Configuration" => (Has(Tail(q)) <=> Has(q))
         /\ Head(q) = "Configuration" => Has(q) /\ ~Timed(q)
         /\ Head(q) = "Configuration" /\ Once(q) => ~Has(Tail(q))
         /\ Head(q) # "SyncTime" /\ Timed(q) => Timed(Tail(q))
<1> DEFINE t == Tail(q)
<1>1. /\ Len(q) \in Nat \ {0} /\ Head(q) = q[1]
      /\ t \in Seq(Code) /\ Len(t) = Len(q) - 1
      /\ \A i \in 1 .. Len(q) - 1 : t[i] = q[i + 1]
  BY HeadAndTail
<1> HIDE DEF t
<1>2. Once(q) => Once(t)
  BY <1>1 DEF Once
<1>3. Has(t) => Has(q)
  BY <1>1 DEF Has
<1>4. Head(q) # "Configuration" /\ Has(q) => Has(t)
  <2> SUFFICES ASSUME Head(q) # "Configuration", Has(q) PROVE Has(t)
    OBVIOUS
  <2>1. PICK i \in 1 .. Len(q) : q[i] = "Configuration"
    BY DEF Has
  <2>2. i # 1 /\ i - 1 \in 1 .. Len(t) /\ t[i - 1] = q[i]
    BY <1>1, <2>1
  <2>. QED
    BY <2>1, <2>2 DEF Has
<1>5. Head(q) = "Configuration" => Has(q) /\ ~Timed(q)
  BY <1>1 DEF Has, Timed
<1>6. Head(q) = "Configuration" /\ Once(q) => ~Has(t)
  <2> SUFFICES ASSUME Head(q) = "Configuration", Once(q),
                      NEW i \in 1 .. Len(t), t[i] = "Configuration"
               PROVE  FALSE
    BY DEF Has
  <2>1. 1 \in 1 .. Len(q) /\ i + 1 \in 1 .. Len(q) /\ q[i + 1] = t[i] /\ q[1] = Head(q)
    BY <1>1
  <2>. QED
    BY <2>1 DEF Once
<1>7. Head(q) # "SyncTime" /\ Timed(q) => Timed(t)
  <2> SUFFICES ASSUME Head(q) # "SyncTime", Timed(q),
                      NEW i \in 1 .. Len(t), t[i] = "Configuration"
               PROVE  \E j \in 1 .. i - 1 : t[j] = "SyncTime"
    BY DEF Timed
  <2>1. i + 1 \in 1 .. Len(q) /\ q[i + 1] = t[i]
    BY <1>1
  <2>2. PICK j \in 1 .. (i + 1) - 1 : q[j] = "SyncTime"
    BY <2>1 DEF Timed
  <2>3. j # 1 /\ j - 1 \in 1 .. i - 1 /\ j - 1 \in 1 .. Len(q) - 1
    BY <1>1, <2>1, <2>2
  <2>4. t[j - 1] = q[(j - 1) + 1]
    BY <1>1, <2>3
  <2>. QED
    BY <2>2, <2>3, <2>4
<1>. QED
  BY <1>1, <1>2, <1>3, <1>4, <1>5, <1>6, <1>7 DEF t

LEMMA QueueAppend ==
  ASSUME NEW q \in Seq(Code), NEW e \in Code \ {"Configuration"}
  PROVE  /\ Append(q, e) \in Seq(Code)
         /\ Has(Append(q, e)) <=> Has(q)
         /\ Once(q) => Once(Append(q, e))
         /\ Timed(q) => Timed(Append(q, e))
<1> DEFINE t == Append(q, e)
<1>1. /\ t \in Seq(Code) /\ Len(t) = Len(q) + 1 /\ t[Len(q) + 1] = e
      /\ \A i \in 1 .. Len(q) : t[i] = q[i]
  BY Appended
<1>2. Len(q) \in Nat
  OBVIOUS
<1> HIDE DEF t
<1>3. \A i \in 1 .. Len(t) : t[i] = "Configuration" => i \in 1 .. Len(q) /\ q[i] = t[i]
  BY <1>1, <1>2
<1>4. Has(t) <=> Has(q)
  BY <1>1, <1>2, <1>3 DEF Has
<1>5. Once(q) => Once(t)
  BY <1>3 DEF Once
<1>6. Timed(q) => Timed(t)
  <2> SUFFICES ASSUME Timed(q), NEW i \in 1 .. Len(t), t[i] = "Configuration"
               PROVE  \E j \in 1 .. i - 1 : t[j] = "SyncTime"
    BY DEF Timed
  <2>1. i \in 1 .. Len(q) /\ q[i] = "Configuration"
    BY <1>3
  <2>2. PICK j \in 1 .. i - 1 : q[j] = "SyncTime"
    BY <2>1 DEF Timed
  <2>. QED
    BY <1>1, <1>2, <2>1, <2>2
<1>. QED
  BY <1>1, <1>4, <1>5, <1>6 DEF t

LEMMA QueueSend ==
  ASSUME NEW q \in Seq(Code), ~Has(q)
  PROVE  LET t == q \o <<"SyncTime", "Configuration", "Query">> IN
         t \in Seq(Code) /\ Has(t) /\ Once(t) /\ Timed(t)
<1> DEFINE t == q \o <<"SyncTime", "Configuration", "Query">>
<1>1. /\ t \in Seq(Code) /\ Len(t) = Len(q) + 3
      /\ \A i \in 1 .. Len(q) : t[i] = q[i]
      /\ t[Len(q) + 1] = "SyncTime" /\ t[Len(q) + 2] = "Configuration"
      /\ t[Len(q) + 3] = "Query"
  BY ThreeAppended DEF Code
<1>2. Len(q) \in Nat
  OBVIOUS
<1> HIDE DEF t
<1>3. \A i \in 1 .. Len(t) : t[i] = "Configuration" <=> i = Len(q) + 2
  <2> TAKE i \in 1 .. Len(t)
  <2>1. CASE i \in 1 .. Len(q)
    BY <1>1, <1>2, <2>1 DEF Has
  <2>2. CASE i \in {Len(q) + 1, Len(q) + 2, Len(q) + 3}
    BY <1>1, <1>2, <2>2
  <2>. QED
    BY <1>1, <1>2, <2>1, <2>2
<1>4. Has(t)
  BY <1>1, <1>2 DEF Has
<1>5. Once(t)
  BY <1>3 DEF Once
<1>6. Timed(t)
  BY <1>1, <1>2, <1>3 DEF Timed
<1>. QED
  BY <1>1, <1>4, <1>5, <1>6 DEF t

LEMMA QueueRemoved ==
  ASSUME NEW q \in Seq(Code), NEW k \in 1 .. Len(q)
  PROVE  LET t == RemoveAt(q, k) IN
         /\ t \in Seq(Code)
         /\ Once(q) => Once(t)
         /\ q[k] # "Configuration" => (Has(t) <=> Has(q))
         /\ q[k] = "Configuration" /\ Once(q) => ~Has(t)
         /\ q[k] # "SyncTime" /\ Timed(q) => Timed(t)
<1> DEFINE t == RemoveAt(q, k)
           At(i) == IF i < k THEN i ELSE i + 1
           From(i) == IF i < k THEN i ELSE i - 1
<1>1. /\ t \in Seq(Code) /\ Len(t) = Len(q) - 1
      /\ \A i \in 1 .. Len(q) - 1 : t[i] = IF i < k THEN q[i] ELSE q[i + 1]
  BY Removed
<1>2. Len(q) \in Nat /\ k \in Nat
  OBVIOUS
<1> HIDE DEF t
<1>3. \A i \in 1 .. Len(t) : At(i) \in 1 .. Len(q) /\ At(i) # k /\ q[At(i)] = t[i]
  BY <1>1, <1>2
<1>4. \A i \in 1 .. Len(q) : i # k => From(i) \in 1 .. Len(t) /\ t[From(i)] = q[i]
  BY <1>1, <1>2
<1>5. Once(q) => Once(t)
  <2> SUFFICES ASSUME Once(q), NEW i \in 1 .. Len(t), NEW j \in 1 .. Len(t),
                      t[i] = "Configuration", t[j] = "Configuration"
               PROVE  i = j
    BY DEF Once
  <2>1. At(i) = At(j)
    BY <1>3 DEF Once
  <2>. QED
    BY <2>1, <1>1, <1>2
<1>6. q[k] # "Configuration" => (Has(t) <=> Has(q))
  BY <1>3, <1>4 DEF Has
<1>7. q[k] = "Configuration" /\ Once(q) => ~Has(t)
  BY <1>3 DEF Has, Once
<1>8. q[k] # "SyncTime" /\ Timed(q) => Timed(t)
  <2> SUFFICES ASSUME q[k] # "SyncTime", Timed(q),
                      NEW i \in 1 .. Len(t), t[i] = "Configuration"
               PROVE  \E j \in 1 .. i - 1 : t[j] = "SyncTime"
    BY DEF Timed
  <2>1. PICK j \in 1 .. At(i) - 1 : q[j] = "SyncTime"
    BY <1>3 DEF Timed
  <2>2. j \in 1 .. Len(q) /\ j # k
    BY <1>1, <1>2, <1>3, <2>1
  <2>3. From(j) \in 1 .. i - 1
    BY <1>1, <1>2, <2>1, <2>2
  <2>. QED
    BY <1>4, <2>1, <2>2, <2>3
<1>. QED
  BY <1>1, <1>5, <1>6, <1>7, <1>8 DEF t

----------------------------------------------------------------------------
(* The channel to the spectrometer board *)

LEMMA DownTail ==
  ASSUME NEW d \in Seq(Down), d # <<>>
  PROVE  /\ Head(d) \in Down /\ Tail(d) \in Seq(Down)
         /\ Head(d).code = "Configuration" => ~TimedOn(d)
         /\ Head(d).code # "SyncTime" /\ TimedOn(d) => TimedOn(Tail(d))
         /\ Head(d).code # "SyncTime" /\ Clock(d) => Clock(Tail(d))
         /\ \A again : Loaded(d, again) => Loaded(Tail(d), again)
         /\ \A again : Loaded(d, again) /\ Head(d).code = "Configuration" =>
                        FilledIn(Head(d).cfg, again)
<1> DEFINE t == Tail(d)
<1>1. /\ Len(d) \in Nat \ {0} /\ Head(d) = d[1] /\ d[1] \in Down
      /\ t \in Seq(Down) /\ Len(t) = Len(d) - 1
      /\ \A i \in 1 .. Len(d) - 1 : t[i] = d[i + 1]
  BY HeadAndTail
<1> HIDE DEF t
<1>2. Head(d).code = "Configuration" => ~TimedOn(d)
  BY <1>1 DEF TimedOn
<1>3. \A i \in 1 .. Len(t) : i + 1 \in 1 .. Len(d) /\ d[i + 1] = t[i]
  BY <1>1
<1>4. \A j \in 1 .. Len(d) : j # 1 => j - 1 \in 1 .. Len(t) /\ t[j - 1] = d[j]
  BY <1>1
<1>5. ASSUME Head(d).code # "SyncTime", TimedOn(d) PROVE TimedOn(t)
  <2> SUFFICES ASSUME NEW i \in 1 .. Len(t), t[i].code = "Configuration"
               PROVE  \E j \in 1 .. i - 1 : t[j].code = "SyncTime"
    BY DEF TimedOn
  <2>1. PICK j \in 1 .. (i + 1) - 1 : d[j].code = "SyncTime"
    BY <1>3, <1>5 DEF TimedOn
  <2>2. j # 1 /\ j \in 1 .. Len(d) /\ j - 1 \in 1 .. i - 1
    BY <1>1, <1>5, <2>1
  <2>. QED
    BY <1>4, <2>1, <2>2
<1>6. ASSUME Head(d).code # "SyncTime", Clock(d) PROVE Clock(t)
  <2>1. PICK j \in 1 .. Len(d) : d[j].code = "SyncTime"
    BY <1>6 DEF Clock
  <2>2. j # 1
    BY <1>1, <1>6, <2>1
  <2>. QED
    BY <1>4, <2>1, <2>2 DEF Clock
<1>7. \A again : Loaded(d, again) => Loaded(t, again)
  BY <1>3 DEF Loaded
<1>8. \A again : Loaded(d, again) /\ Head(d).code = "Configuration" =>
                 FilledIn(Head(d).cfg, again)
  BY <1>1 DEF Loaded
<1>. QED
  BY <1>1, <1>2, <1>5, <1>6, <1>7, <1>8 DEF t

LEMMA DownAppend ==
  ASSUME NEW d \in Seq(Down), NEW e \in Down
  PROVE  LET t == Append(d, e) IN
         /\ t \in Seq(Down)
         /\ TimedOn(d) /\ (e.code = "Configuration" => Clock(d)) => TimedOn(t)
         /\ Clock(d) \/ e.code = "SyncTime" => Clock(t)
         /\ \A again : Loaded(d, again)
                /\ (e.code = "Configuration" => FilledIn(e.cfg, again)) => Loaded(t, again)
<1> DEFINE t == Append(d, e)
<1>1. /\ t \in Seq(Down) /\ Len(t) = Len(d) + 1 /\ t[Len(d) + 1] = e
      /\ \A i \in 1 .. Len(d) : t[i] = d[i]
  BY Appended
<1>2. Len(d) \in Nat
  OBVIOUS
<1> HIDE DEF t
<1>3. \A i \in 1 .. Len(t) : \/ i \in 1 .. Len(d) /\ t[i] = d[i]
                             \/ i = Len(d) + 1 /\ t[i] = e
  BY <1>1, <1>2
<1>4. \A i \in 1 .. Len(d) : i \in 1 .. Len(t) /\ t[i] = d[i]
  BY <1>1, <1>2
<1>5. ASSUME TimedOn(d), e.code = "Configuration" => Clock(d) PROVE TimedOn(t)
  <2> SUFFICES ASSUME NEW i \in 1 .. Len(t), t[i].code = "Configuration"
               PROVE  \E j \in 1 .. i - 1 : t[j].code = "SyncTime"
    BY DEF TimedOn
  <2>1. CASE i \in 1 .. Len(d)
    <3>1. PICK j \in 1 .. i - 1 : d[j].code = "SyncTime"
      BY <1>4, <1>5, <2>1 DEF TimedOn
    <3>. QED
      BY <1>2, <1>4, <2>1, <3>1
  <2>2. CASE i = Len(d) + 1
    <3>1. PICK j \in 1 .. Len(d) : d[j].code = "SyncTime"
      BY <1>1, <1>5, <2>2 DEF Clock
    <3>. QED
      BY <1>2, <1>4, <2>2, <3>1
  <2>. QED
    BY <1>3, <2>1, <2>2
<1>6. Clock(d) \/ e.code = "SyncTime" => Clock(t)
  BY <1>1, <1>2, <1>4 DEF Clock
<1>7. \A again : Loaded(d, again)
             /\ (e.code = "Configuration" => FilledIn(e.cfg, again)) => Loaded(t, again)
  BY <1>3 DEF Loaded
<1>. QED
  BY <1>1, <1>5, <1>6, <1>7 DEF t

LEMMA DownRemoved ==
  ASSUME NEW d \in Seq(Down), NEW k \in 1 .. Len(d)
  PROVE  LET t == RemoveAt(d, k) IN
         /\ t \in Seq(Down)
         /\ d[k].code # "SyncTime" /\ TimedOn(d) => TimedOn(t)
         /\ d[k].code # "SyncTime" /\ Clock(d) => Clock(t)
         /\ \A again : Loaded(d, again) => Loaded(t, again)
<1> DEFINE t == RemoveAt(d, k)
           At(i) == IF i < k THEN i ELSE i + 1
           From(i) == IF i < k THEN i ELSE i - 1
<1>1. /\ t \in Seq(Down) /\ Len(t) = Len(d) - 1
      /\ \A i \in 1 .. Len(d) - 1 : t[i] = IF i < k THEN d[i] ELSE d[i + 1]
  BY Removed
<1>2. Len(d) \in Nat /\ k \in Nat
  OBVIOUS
<1> HIDE DEF t
<1>3. \A i \in 1 .. Len(t) : At(i) \in 1 .. Len(d) /\ At(i) # k /\ d[At(i)] = t[i]
  BY <1>1, <1>2
<1>4. \A i \in 1 .. Len(d) : i # k => From(i) \in 1 .. Len(t) /\ t[From(i)] = d[i]
  BY <1>1, <1>2
<1>5. ASSUME d[k].code # "SyncTime", TimedOn(d) PROVE TimedOn(t)
  <2> SUFFICES ASSUME NEW i \in 1 .. Len(t), t[i].code = "Configuration"
               PROVE  \E j \in 1 .. i - 1 : t[j].code = "SyncTime"
    BY DEF TimedOn
  <2>1. PICK j \in 1 .. At(i) - 1 : d[j].code = "SyncTime"
    BY <1>3, <1>5 DEF TimedOn
  <2>2. j \in 1 .. Len(d) /\ j # k
    BY <1>1, <1>2, <1>3, <1>5, <2>1
  <2>3. From(j) \in 1 .. i - 1
    BY <1>1, <1>2, <2>1, <2>2
  <2>. QED
    BY <1>4, <2>1, <2>2, <2>3
<1>6. d[k].code # "SyncTime" /\ Clock(d) => Clock(t)
  BY <1>4 DEF Clock
<1>7. \A again : Loaded(d, again) => Loaded(t, again)
  BY <1>3 DEF Loaded
<1>. QED
  BY <1>1, <1>5, <1>6, <1>7 DEF t

----------------------------------------------------------------------------
(* The channel from the spectrometer board *)

LEMMA UpTail ==
  ASSUME NEW u \in Seq(Up), u # <<>>
  PROVE  /\ Head(u) \in Up /\ Tail(u) \in Seq(Up)
         /\ Corrected(u) => Corrected(Tail(u))
         /\ Head(u).code # "StartSpecBoard" /\ Told(u) => Told(Tail(u))
         /\ Head(u).code = "Query" /\ Head(u).id = Counter /\ Corrected(u) => Told(Tail(u))
<1> DEFINE t == Tail(u)
<1>1. /\ Len(u) \in Nat \ {0} /\ Head(u) = u[1] /\ u[1] \in Up
      /\ t \in Seq(Up) /\ Len(t) = Len(u) - 1
      /\ \A i \in 1 .. Len(u) - 1 : t[i] = u[i + 1]
  BY HeadAndTail
<1> HIDE DEF t
<1>2. \A i \in 1 .. Len(u) : i # 1 => i - 1 \in 1 .. Len(t) /\ t[i - 1] = u[i]
  BY <1>1
<1>3. Corrected(u) => Corrected(t)
  <2> SUFFICES ASSUME Corrected(u), NEW i \in 1 .. Len(t),
                      t[i].code = "Query", t[i].id = Counter
               PROVE  \E j \in i + 1 .. Len(t) : t[j].code = "StartSpecBoard"
    BY DEF Corrected
  <2>1. i + 1 \in 1 .. Len(u) /\ u[i + 1] = t[i]
    BY <1>1
  <2>2. PICK j \in (i + 1) + 1 .. Len(u) : u[j].code = "StartSpecBoard"
    BY <2>1 DEF Corrected
  <2>3. j \in 1 .. Len(u) /\ j # 1 /\ j - 1 \in i + 1 .. Len(t)
    BY <1>1, <2>2
  <2>. QED
    BY <1>2, <2>2, <2>3
<1>4. Head(u).code # "StartSpecBoard" /\ Told(u) => Told(t)
  BY <1>1, <1>2 DEF Told
<1>5. Head(u).code = "Query" /\ Head(u).id = Counter /\ Corrected(u) => Told(t)
  <2> SUFFICES ASSUME Head(u).code = "Query", Head(u).id = Counter, Corrected(u)
               PROVE  Told(t)
    OBVIOUS
  <2>1. PICK j \in 1 + 1 .. Len(u) : u[j].code = "StartSpecBoard"
    BY <1>1 DEF Corrected
  <2>2. j \in 1 .. Len(u) /\ j # 1
    BY <1>1, <2>1
  <2>. QED
    BY <1>2, <2>1, <2>2 DEF Told
<1>. QED
  BY <1>1, <1>3, <1>4, <1>5 DEF t

LEMMA UpAppend ==
  ASSUME NEW u \in Seq(Up), NEW e \in Up
  PROVE  LET t == Append(u, e) IN
         /\ t \in Seq(Up)
         /\ Told(u) => Told(t)
         /\ e.code = "StartSpecBoard" => Told(t) /\ Corrected(t)
         /\ ~(e.code = "Query" /\ e.id = Counter) /\ Corrected(u) => Corrected(t)
<1> DEFINE t == Append(u, e)
<1>1. /\ t \in Seq(Up) /\ Len(t) = Len(u) + 1 /\ t[Len(u) + 1] = e
      /\ \A i \in 1 .. Len(u) : t[i] = u[i]
  BY Appended
<1>2. Len(u) \in Nat
  OBVIOUS
<1> HIDE DEF t
<1>3. Told(u) => Told(t)
  BY <1>1, <1>2 DEF Told
<1>4. ASSUME e.code = "StartSpecBoard" PROVE Told(t) /\ Corrected(t)
  <2>1. Told(t)
    BY <1>1, <1>2, <1>4 DEF Told
  <2>2. ASSUME NEW i \in 1 .. Len(t), t[i].code = "Query"
        PROVE  Len(u) + 1 \in i + 1 .. Len(t)
    BY <1>1, <1>2, <1>4, <2>2
  <2>. QED
    BY <1>1, <1>4, <2>1, <2>2 DEF Corrected
<1>5. ASSUME ~(e.code = "Query" /\ e.id = Counter), Corrected(u) PROVE Corrected(t)
  <2> SUFFICES ASSUME NEW i \in 1 .. Len(t), t[i].code = "Query", t[i].id = Counter
               PROVE  \E j \in i + 1 .. Len(t) : t[j].code = "StartSpecBoard"
    BY DEF Corrected
  <2>1. i \in 1 .. Len(u) /\ u[i] = t[i]
    BY <1>1, <1>2, <1>5
  <2>2. PICK j \in i + 1 .. Len(u) : u[j].code = "StartSpecBoard"
    BY <1>5, <2>1 DEF Corrected
  <2>. QED
    BY <1>1, <1>2, <2>1, <2>2
<1>. QED
  BY <1>1, <1>3, <1>4, <1>5 DEF t

LEMMA UpRemoved ==
  ASSUME NEW u \in Seq(Up), NEW k \in 1 .. Len(u)
  PROVE  LET t == RemoveAt(u, k) IN
         /\ t \in Seq(Up)
         /\ u[k].code # "StartSpecBoard" /\ Told(u) => Told(t)
         /\ u[k].code # "StartSpecBoard" /\ Corrected(u) => Corrected(t)
<1> DEFINE t == RemoveAt(u, k)
           At(i) == IF i < k THEN i ELSE i + 1
           From(i) == IF i < k THEN i ELSE i - 1
<1>1. /\ t \in Seq(Up) /\ Len(t) = Len(u) - 1
      /\ \A i \in 1 .. Len(u) - 1 : t[i] = IF i < k THEN u[i] ELSE u[i + 1]
  BY Removed
<1>2. Len(u) \in Nat /\ k \in Nat
  OBVIOUS
<1> HIDE DEF t
<1>3. \A i \in 1 .. Len(t) : At(i) \in 1 .. Len(u) /\ u[At(i)] = t[i]
  BY <1>1, <1>2
<1>4. \A i \in 1 .. Len(u) : i # k => From(i) \in 1 .. Len(t) /\ t[From(i)] = u[i]
  BY <1>1, <1>2
<1>5. u[k].code # "StartSpecBoard" /\ Told(u) => Told(t)
  BY <1>4 DEF Told
<1>6. u[k].code # "StartSpecBoard" /\ Corrected(u) => Corrected(t)
  <2> SUFFICES ASSUME u[k].code # "StartSpecBoard", Corrected(u), NEW i \in 1 .. Len(t),
                      t[i].code = "Query", t[i].id = Counter
               PROVE  \E j \in i + 1 .. Len(t) : t[j].code = "StartSpecBoard"
    BY DEF Corrected
  <2>1. PICK j \in At(i) + 1 .. Len(u) : u[j].code = "StartSpecBoard"
    BY <1>3 DEF Corrected
  <2>2. j \in 1 .. Len(u) /\ j # k
    BY <1>2, <1>3, <2>1
  <2>3. From(j) \in i + 1 .. Len(t)
    BY <1>1, <1>2, <2>1, <2>2
  <2>. QED
    BY <1>4, <2>1, <2>2, <2>3
<1>. QED
  BY <1>1, <1>5, <1>6 DEF t

----------------------------------------------------------------------------
(* The type invariant in two parts, and the properties in terms of the     *)
(* channels                                                                *)

Values ==
  /\ board \in {"Unknown", "Alive", "Ready"} /\ selfStart \in BOOLEAN
  /\ op \in {"Prompt", "Profiling"}
  /\ package \in {"Empty", "Full"} /\ memory \in Config_Data
  /\ pmg \in {"Idle", "Ended", "Profiling", "Offloading"}
  /\ running \in BOOLEAN /\ cfg \in Config_Data /\ synced \in BOOLEAN
  /\ daq \in {"Idle", "FloatProfile", "Stopping"}
  /\ resets \in 0 .. MaxResets /\ losses \in 0 .. MaxLosses
  /\ inputs \in 0 .. MaxInputs
  /\ startLost \in BOOLEAN /\ slipped \in BOOLEAN
  /\ repeated \in BOOLEAN /\ cancelled \in BOOLEAN
Channels ==
  /\ orders \in Seq({"Profile", "Profile_End"})
  /\ queue \in Seq(Code) /\ down \in Seq(Down) /\ up \in Seq(Up)

LEMMA InParts ==
  /\ TypeOK <=> Values /\ Channels
  /\ TypeOK' <=> Values' /\ Channels'
  BY DEF TypeOK, Values, Channels

LEMMA StaysMeans ==
  /\ PackageStays <=> Once(queue) /\ (Has(queue) => package = "Full")
  /\ PackageStays' <=> Once(queue') /\ (Has(queue') => package' = "Full")
<1>1. PackageStays <=> Once(queue) /\ (Has(queue) => package = "Full")
  BY Zenon DEF PackageStays, Once, Has
<1>2. PackageStays' <=> Once(queue') /\ (Has(queue') => package' = "Full")
  BY Zenon DEF PackageStays, Once, Has
<1>. QED
  BY <1>1, <1>2

LEMMA UntoldMeans ==
  /\ Untold <=> ~running \/ startLost \/ Told(up)
  /\ Untold' <=> ~running' \/ startLost' \/ Told(up')
  BY DEF Untold, Told

LEMMA ClockFollows == ReadyIsConfigured /\ ConfiguredIsTimed => ClockIsSet
  BY DEF ReadyIsConfigured, ConfiguredIsTimed, ClockIsSet

----------------------------------------------------------------------------
(* The invariant is inductive *)

LEMMA InitIInv == Init => IInv
<1> SUFFICES ASSUME Init PROVE IInv
  OBVIOUS
<1>0. {MaxResets, MaxLosses, MaxInputs} \subseteq Nat /\ Counter # 0
  BY BoundAssumption
<1>1. Values
  <2>1. 0 \in 0 .. MaxResets /\ 0 \in 0 .. MaxLosses /\ 0 \in 0 .. MaxInputs
    BY <1>0
  <2>2. Default \in Config_Data
    BY DEF Default, Config_Data
  <2>. QED
    BY <2>1, <2>2 DEF Init, Values
<1>2. queue = <<>> /\ down = <<>> /\ up = <<>> /\ ~Has(queue) /\ Once(queue)
  BY DEF Init, Has, Once
<1>3. TypeOK /\ PackageStays
  BY <1>1, <1>2, InParts, StaysMeans DEF Init, Channels
<1>4. TimeFirst /\ DownIsWhole
  BY <1>2 DEF TimeFirst, TimedOn, Timed, DownIsWhole, Loaded
<1>. QED
  BY <1>0, <1>3, <1>4
     DEF Init, IInv, ConfiguredIsTimed, MemoryIsWhole, AnswersAreTrue, ReadyIsConfigured,
         ConfigurationIsWhole, Default

(* Something but a configuration follows what waits in the queue, or       *)
(* nothing does.                                                           *)
LEMMA QueueKeeps ==
  ASSUME IInv, NEW e \in Code \ {"Configuration"}, queue' \in {queue, Append(queue, e)},
         selfStart' \in BOOLEAN, op' \in {"Prompt", "Profiling"},
         orders' \in Seq({"Profile", "Profile_End"}),
         pmg' \in {"Idle", "Ended", "Profiling", "Offloading"},
         inputs' \in 0 .. MaxInputs, cancelled' \in BOOLEAN,
         UNCHANGED <<board, package, memory, down, up, spectrometer, resets, losses,
                     startLost, slipped, repeated>>
  PROVE  IInv'
<1>0. Values /\ Channels
  BY InParts DEF IInv
<1>1. /\ queue' \in Seq(Code) /\ (Has(queue') <=> Has(queue))
      /\ (Once(queue) => Once(queue')) /\ (Timed(queue) => Timed(queue'))
  BY <1>0, QueueAppend DEF Channels
<1>2. Values' /\ Channels'
  BY <1>0, <1>1 DEF Values, Channels, spectrometer
<1>3. PackageStays'
  BY <1>1, StaysMeans DEF IInv
<1>. QED
  BY <1>1, <1>2, <1>3, InParts, UntoldMeans
     DEF IInv, TimeFirst, ConfiguredIsTimed, MemoryIsWhole, DownIsWhole,
         AnswersAreTrue, ReadyIsConfigured, ConfigurationIsWhole, spectrometer

LEMMA PingKeeps == ASSUME IInv, Ping PROVE IInv'
<1>0. Values /\ Channels
  BY InParts DEF IInv
<1>1. "Ping" \in Code \ {"Configuration"}
  BY DEF Code
<1>. QED
  BY <1>0, <1>1, QueueKeeps
     DEF Ping, Values, Channels, commander, manager, spectrometer, counts, history

LEMMA OrdersKeep ==
  ASSUME IInv, SelfStart \/ \E c \in {"PRFBEG", "PRFEND", "W"} : Input(c)
  PROVE  IInv'
<1>0. Values /\ Channels
  BY InParts DEF IInv
<1>1. "Ping" \in Code \ {"Configuration"} /\ queue' = queue
  BY DEF Code, SelfStart, Input
<1>2. \A o \in {"Profile", "Profile_End"} :
        Append(orders, o) \in Seq({"Profile", "Profile_End"})
  BY <1>0, Appended DEF Channels
<1>3. CASE SelfStart
  BY <1>0, <1>1, <1>2, <1>3, QueueKeeps
     DEF SelfStart, Values, spectrometer, counts, history
<1>4. ASSUME NEW c \in {"PRFBEG", "PRFEND", "W"}, Input(c) PROVE IInv'
  <2>1. inputs' \in 0 .. MaxInputs
    <3>1. inputs < MaxInputs /\ inputs' = inputs + 1 /\ inputs \in 0 .. MaxInputs
      BY <1>0, <1>4 DEF Input, Values
    <3>. QED
      BY <3>1, BoundAssumption
  <2>2. /\ cancelled' \in BOOLEAN /\ pmg' = pmg /\ selfStart' \in BOOLEAN
        /\ UNCHANGED <<board, package, memory, down, up, spectrometer, resets, losses,
                       startLost, slipped, repeated>>
    BY <1>4 DEF Input
  <2>3. /\ op' \in {"Prompt", "Profiling"}
        /\ orders' \in Seq({"Profile", "Profile_End"})
    BY <1>0, <1>2, <1>4 DEF Input, PRFBEG, PRFEND, Values, Channels
  <2>. QED
    BY <1>0, <1>1, <2>1, <2>2, <2>3, QueueKeeps DEF Values
<1>. QED
  BY <1>3, <1>4

LEMMA ManagerKeeps == ASSUME IInv, ProfileManager PROVE IInv'
<1>0. Values /\ Channels
  BY InParts DEF IInv
<1>1. ASSUME NEW code \in {"Profile", "Profile_End"}, Order(code)
      PROVE  /\ orders' \in Seq({"Profile", "Profile_End"})
             /\ UNCHANGED <<commander, down, up, spectrometer, counts, history>>
  BY <1>0, <1>1, HeadAndTail DEF Order, Channels
<1>2. /\ orders' \in Seq({"Profile", "Profile_End"})
      /\ UNCHANGED <<commander, down, up, spectrometer, counts, history>>
  BY <1>1 DEF ProfileManager, BeginProfile, RepeatProfile, EndProfile, IgnoreOrder
<1>3. pmg' \in {"Idle", "Ended", "Profiling", "Offloading"}
  BY <1>0 DEF ProfileManager, BeginProfile, RepeatProfile, EndProfile, IgnoreOrder, Values
<1>4. \E e \in {"Profiling", "Profiling_End"} : queue' \in {queue, Append(queue, e)}
  BY DEF ProfileManager, BeginProfile, RepeatProfile, EndProfile, IgnoreOrder
<1>5. {"Profiling", "Profiling_End"} \subseteq Code \ {"Configuration"}
  BY DEF Code
<1>. QED
  BY <1>0, <1>2, <1>3, <1>4, <1>5, QueueKeeps DEF Values, commander, counts, history

(* Both sendings: what the memory becomes is whole.                        *)
LEMMA SendKeeps ==
  ASSUME IInv, NEW vertical, NEW rest, SendConfiguration(vertical, rest),
         vertical \in {"own", "zero"}, rest = "own",
         UNCHANGED <<synced, slipped, down, orders>>,
         up' \in Seq(Up), repeated' \in BOOLEAN, repeated => repeated',
         vertical = "own" \/ repeated'
  PROVE  /\ Channels' /\ PackageStays' /\ TimeFirst'
         /\ package' \in {"Empty", "Full"} /\ memory' \in Config_Data
         /\ package' = "Full" => FilledIn(memory', repeated')
         /\ memory'.rest = "own"
<1>0. Values /\ Channels
  BY InParts DEF IInv
<1>1. CASE package = "Empty"
  <2>1. ~Has(queue)
    BY <1>1, StaysMeans DEF IInv
  <2>2. /\ memory' = [id |-> Counter, vertical |-> vertical, rest |-> rest]
        /\ package' = "Full"
        /\ queue' = queue \o <<"SyncTime", "Configuration", "Query">>
    BY <1>1 DEF SendConfiguration
  <2>3. queue' \in Seq(Code) /\ Has(queue') /\ Once(queue') /\ Timed(queue')
    BY <1>0, <2>1, <2>2, QueueSend DEF Channels
  <2>4. Channels' /\ PackageStays'
    BY <1>0, <2>2, <2>3, StaysMeans DEF Channels
  <2>5. memory' \in Config_Data /\ FilledIn(memory', repeated')
    BY <2>2 DEF Config_Data, FilledIn
  <2>6. TimeFirst'
    BY <2>3 DEF IInv, TimeFirst, Timed
  <2>. QED
    BY <2>2, <2>4, <2>5, <2>6
<1>2. CASE package # "Empty"
  <2>1. UNCHANGED <<memory, package, queue>> /\ package = "Full"
    BY <1>0, <1>2 DEF SendConfiguration, Values
  <2>2. Channels' /\ PackageStays' /\ TimeFirst'
    BY <1>0, <2>1, StaysMeans DEF IInv, Channels, TimeFirst
  <2>. QED
    BY <1>0, <2>1, <2>2 DEF IInv, MemoryIsWhole, FilledIn, Values
<1>. QED
  BY <1>1, <1>2

LEMMA ResendKeeps == ASSUME IInv, Resend PROVE IInv'
<1>0. Values /\ Channels
  BY InParts DEF IInv
<1>1. /\ SendConfiguration("zero", memory.rest) /\ board = "Alive" /\ repeated' = TRUE
      /\ UNCHANGED <<board, selfStart, op, manager, down, up, spectrometer, counts,
                     startLost, slipped, cancelled>>
  BY DEF Resend
<1>2. memory.rest = "own"
  BY <1>1 DEF IInv, MemoryIsWhole
<1>3. /\ Channels' /\ PackageStays' /\ TimeFirst'
      /\ package' \in {"Empty", "Full"} /\ memory' \in Config_Data
      /\ package' = "Full" => FilledIn(memory', repeated')
      /\ memory'.rest = "own"
  BY <1>0, <1>1, <1>2, SendKeeps DEF Channels, spectrometer, manager
<1>4. Values'
  BY <1>0, <1>1, <1>3 DEF Values, spectrometer, counts, manager
<1>5. MemoryIsWhole'
  BY <1>3 DEF MemoryIsWhole
<1>6. AnswersAreTrue' /\ ConfiguredIsTimed'
  BY <1>1 DEF IInv, AnswersAreTrue, ConfiguredIsTimed, spectrometer
<1>7. ReadyIsConfigured' /\ ConfigurationIsWhole'
  BY <1>1 DEF IInv, ReadyIsConfigured, ConfigurationIsWhole, spectrometer
<1>8. DownIsWhole'
  BY <1>1 DEF IInv, DownIsWhole, Loaded, FilledIn
<1>. QED
  BY <1>3, <1>4, <1>5, <1>6, <1>7, <1>8, InParts DEF IInv

LEMMA TakeStartKeeps == ASSUME IInv, TakeStart PROVE IInv'
<1>0. Values /\ Channels
  BY InParts DEF IInv
<1>1. /\ up # <<>> /\ up' = Tail(up) /\ board' = "Unknown"
      /\ UNCHANGED <<selfStart, op, package, memory, manager, queue, down, spectrometer,
                     counts, history>>
  BY DEF TakeStart
<1>2. up' \in Seq(Up) /\ (Corrected(up) => Corrected(up'))
  BY <1>0, <1>1, UpTail DEF Channels
<1>3. Values' /\ Channels'
  BY <1>0, <1>1, <1>2 DEF Values, Channels, manager, spectrometer, counts, history
<1>4. PackageStays'
  BY <1>1, StaysMeans DEF IInv
<1>. QED
  BY <1>1, <1>2, <1>3, <1>4, InParts
     DEF IInv, TimeFirst, ConfiguredIsTimed, MemoryIsWhole, DownIsWhole,
         AnswersAreTrue, ReadyIsConfigured, ConfigurationIsWhole,
         spectrometer, counts, history

LEMMA TakePingKeeps == ASSUME IInv, TakePing PROVE IInv'
<1>0. Values /\ Channels
  BY InParts DEF IInv
<1>1. /\ up # <<>> /\ Head(up).code = "Ping" /\ up' = Tail(up)
      /\ UNCHANGED <<selfStart, op, manager, down, spectrometer, counts, history>>
  BY DEF TakePing
<1>2. /\ up' \in Seq(Up) /\ (Corrected(up) => Corrected(up'))
      /\ Told(up) => Told(up')
  BY <1>0, <1>1, UpTail DEF Channels
<1>3. DownIsWhole'
  BY <1>1 DEF IInv, DownIsWhole, history
<1>4. CASE board = "Unknown"
  <2>1. board' = "Alive" /\ SendConfiguration("own", "own")
    BY <1>4 DEF TakePing
  <2>2. /\ Channels' /\ PackageStays' /\ TimeFirst'
        /\ package' \in {"Empty", "Full"} /\ memory' \in Config_Data
        /\ package' = "Full" => FilledIn(memory', repeated')
        /\ memory'.rest = "own"
    BY <1>0, <1>1, <1>2, <2>1, SendKeeps DEF Values, history, spectrometer, manager
  <2>3. Values'
    BY <1>0, <1>1, <2>1, <2>2 DEF Values, spectrometer, counts, history, manager
  <2>4. MemoryIsWhole'
    BY <2>2 DEF MemoryIsWhole
  <2>5. AnswersAreTrue' /\ ConfiguredIsTimed'
    BY <1>1, <1>2 DEF IInv, AnswersAreTrue, ConfiguredIsTimed, spectrometer, history
  <2>6. ReadyIsConfigured' /\ ConfigurationIsWhole'
    BY <1>1, <2>1 DEF IInv, ReadyIsConfigured, ConfigurationIsWhole, spectrometer, history
  <2>. QED
    BY <1>3, <2>2, <2>3, <2>4, <2>5, <2>6, InParts DEF IInv
<1>5. CASE board # "Unknown"
  <2>1. UNCHANGED <<board, memory, package, queue>>
    BY <1>5 DEF TakePing
  <2>2. Values' /\ Channels'
    BY <1>0, <1>1, <1>2, <2>1 DEF Values, Channels, manager, spectrometer, counts, history
  <2>3. TimeFirst' /\ MemoryIsWhole'
    BY <1>1, <2>1 DEF IInv, TimeFirst, MemoryIsWhole, spectrometer, history
  <2>4. ConfiguredIsTimed' /\ AnswersAreTrue'
    BY <1>1, <1>2, <2>1
       DEF IInv, ConfiguredIsTimed, AnswersAreTrue, spectrometer, history
  <2>5. ReadyIsConfigured' /\ ConfigurationIsWhole'
    BY <1>1, <1>2, <2>1, UntoldMeans
       DEF IInv, ReadyIsConfigured, ConfigurationIsWhole, spectrometer, history
  <2>6. PackageStays'
    BY <2>1, StaysMeans DEF IInv
  <2>. QED
    BY <1>3, <2>2, <2>3, <2>4, <2>5, <2>6, InParts DEF IInv
<1>. QED
  BY <1>4, <1>5

LEMMA TakeQueryKeeps == ASSUME IInv, TakeQuery PROVE IInv'
<1>0. Values /\ Channels
  BY InParts DEF IInv
<1>1. /\ up # <<>> /\ Head(up).code = "Query" /\ up' = Tail(up)
      /\ UNCHANGED <<op, package, memory, manager, queue, down, spectrometer, counts,
                     history>>
  BY DEF TakeQuery
<1>2. /\ up' \in Seq(Up) /\ (Corrected(up) => Corrected(up'))
      /\ Told(up) => Told(up')
      /\ Head(up).id = Counter /\ Corrected(up) => Told(up')
  BY <1>0, <1>1, UpTail DEF Channels
<1>3. /\ \/ board' = board
         \/ board' = "Ready" /\ Head(up).id = Counter
      /\ selfStart' \in {selfStart, TRUE}
  BY DEF TakeQuery
<1>4. Values' /\ Channels'
  <2>1. board' \in {"Unknown", "Alive", "Ready"} /\ selfStart' \in BOOLEAN
    BY <1>0, <1>3 DEF Values
  <2>2. Channels'
    BY <1>0, <1>1, <1>2 DEF Channels, manager
  <2>. QED
    BY <1>0, <1>1, <2>1, <2>2 DEF Values, manager, spectrometer, counts, history
<1>5. ReadyIsConfigured'
  BY <1>1, <1>2, <1>3, UntoldMeans
     DEF IInv, AnswersAreTrue, ReadyIsConfigured, spectrometer, history
<1>6. TypeOK' /\ PackageStays'
  BY <1>1, <1>4, InParts, StaysMeans DEF IInv
<1>7. TimeFirst' /\ ConfiguredIsTimed' /\ ConfigurationIsWhole' /\ DownIsWhole'
  BY <1>1 DEF IInv, TimeFirst, ConfiguredIsTimed, ConfigurationIsWhole, DownIsWhole,
              spectrometer, history
<1>8. MemoryIsWhole' /\ AnswersAreTrue'
  BY <1>1, <1>2, <1>3 DEF IInv, MemoryIsWhole, AnswersAreTrue, spectrometer, history
<1>. QED
  BY <1>5, <1>6, <1>7, <1>8 DEF IInv

LEMMA TakeOffloadingKeeps == ASSUME IInv, TakeOffloading PROVE IInv'
<1>0. Values /\ Channels
  BY InParts DEF IInv
<1>1. /\ up # <<>> /\ Head(up).code = "Offloading" /\ up' = Tail(up)
      /\ pmg' \in {"Idle", "Offloading"}
      /\ UNCHANGED <<commander, orders, queue, down, spectrometer, counts, history>>
  BY DEF TakeOffloading
<1>2. /\ up' \in Seq(Up) /\ (Corrected(up) => Corrected(up'))
      /\ Told(up) => Told(up')
  BY <1>0, <1>1, UpTail DEF Channels
<1>3. Values' /\ Channels'
  BY <1>0, <1>1, <1>2 DEF Values, Channels, commander, spectrometer, counts, history
<1>4. PackageStays'
  BY <1>1, StaysMeans DEF IInv, commander
<1>. QED
  BY <1>1, <1>2, <1>3, <1>4, InParts, UntoldMeans
     DEF IInv, TimeFirst, ConfiguredIsTimed, MemoryIsWhole, DownIsWhole,
         AnswersAreTrue, ReadyIsConfigured, ConfigurationIsWhole,
         commander, spectrometer, history

(* The time goes first, and the configuration as it has been filled in.    *)
LEMMA SendPacketKeeps == ASSUME IInv, Send PROVE IInv'
<1>0. Values /\ Channels
  BY InParts DEF IInv
<1> DEFINE content == IF Head(queue) = "Configuration" THEN memory ELSE Default
           e == [code |-> Head(queue), cfg |-> content]
<1>1. /\ queue # <<>> /\ queue' = Tail(queue)
      /\ package' = IF Head(queue) = "Configuration" THEN "Empty" ELSE package
      /\ down' = IF running THEN Append(down, e) ELSE down
      /\ slipped' = (slipped \/ (Head(queue) = "SyncTime" /\ ~running))
      /\ UNCHANGED <<board, selfStart, op, memory, manager, up, spectrometer, counts,
                     startLost, repeated, cancelled>>
  BY DEF Send
<1>2. /\ queue' \in Seq(Code) /\ Once(queue')
      /\ Head(queue) # "Configuration" => (Has(queue') <=> Has(queue))
      /\ Head(queue) = "Configuration" => Has(queue) /\ ~Timed(queue) /\ ~Has(queue')
      /\ Head(queue) # "SyncTime" /\ Timed(queue) => Timed(queue')
  BY <1>0, <1>1, QueueTail, StaysMeans DEF Channels, IInv
<1>3. Head(queue) \in Code
  BY <1>0, <1>1, HeadAndTail DEF Channels
<1>4. Default \in Config_Data
  BY DEF Default, Config_Data
<1>5. e \in Down
  BY <1>0, <1>3, <1>4 DEF Values, Down
<1>6. e.code = Head(queue) /\ (Head(queue) = "Configuration" => e.cfg = memory)
  OBVIOUS
<1> HIDE DEF e
<1>7. e.code = "Configuration" => package = "Full" /\ FilledIn(e.cfg, repeated)
  BY <1>2, <1>6, StaysMeans DEF IInv, MemoryIsWhole
<1>8. /\ down' \in Seq(Down)
      /\ TimedOn(down) /\ (e.code = "Configuration" => Clock(down)) => TimedOn(down')
      /\ Clock(down) => Clock(down')
      /\ running /\ e.code = "SyncTime" => Clock(down')
      /\ DownIsWhole'
  <2>1. CASE running
    BY <1>0, <1>1, <1>5, <1>7, <2>1, DownAppend DEF Channels, IInv, DownIsWhole
  <2>2. CASE ~running
    BY <1>0, <1>1, <2>2 DEF Channels, IInv, DownIsWhole
  <2>. QED
    BY <2>1, <2>2
<1>9. Values' /\ Channels'
  BY <1>0, <1>1, <1>2, <1>8 DEF Values, Channels, manager, spectrometer, counts
<1>10. PackageStays'
  BY <1>1, <1>2, StaysMeans DEF IInv
<1>11. TimeFirst'
  BY <1>0, <1>1, <1>2, <1>6, <1>8 DEF IInv, TimeFirst, spectrometer, Values
<1>12. MemoryIsWhole'
  BY <1>1 DEF IInv, MemoryIsWhole
<1>13. ConfiguredIsTimed' /\ AnswersAreTrue' /\ ReadyIsConfigured' /\ ConfigurationIsWhole'
  BY <1>1, UntoldMeans
     DEF IInv, ConfiguredIsTimed, AnswersAreTrue, ReadyIsConfigured, ConfigurationIsWhole,
         spectrometer
<1>. QED
  BY <1>8, <1>9, <1>10, <1>11, <1>12, <1>13, InParts DEF IInv

(* What the spectrometer board does, but for its configuration and its     *)
(* time: what lies behind a packet that it takes stays as it was.          *)
LEMMA BoardKeeps ==
  ASSUME IInv,
         UNCHANGED <<commander, manager, queue, running, cfg, synced, counts, history>>,
         daq' \in {"Idle", "FloatProfile", "Stopping"},
         \/ down' = down
         \/ down # <<>> /\ down' = Tail(down) /\ Head(down).code # "SyncTime",
         \/ up' = up
         \/ \E e \in Up : up' = Append(up, e) /\ ~(e.code = "Query" /\ e.id = Counter)
         \/ cfg.id = Counter /\ \E e \in Up : up' = Append(up, e)
  PROVE  IInv'
<1>0. Values /\ Channels
  BY InParts DEF IInv
<1>1. /\ down' \in Seq(Down)
      /\ (TimedOn(down) => TimedOn(down')) /\ (Clock(down) => Clock(down'))
      /\ Loaded(down, repeated) => Loaded(down', repeated)
  BY <1>0, DownTail DEF Channels
<1>2. /\ up' \in Seq(Up) /\ (Told(up) => Told(up'))
      /\ cfg.id # Counter /\ Corrected(up) => Corrected(up')
  BY <1>0, UpAppend DEF Channels
<1>3. Values' /\ Channels'
  BY <1>0, <1>1, <1>2 DEF Values, Channels, commander, manager, counts, history
<1>4. PackageStays'
  BY StaysMeans DEF IInv, commander
<1>5. TimeFirst' /\ DownIsWhole'
  BY <1>1 DEF IInv, TimeFirst, DownIsWhole, history
<1>. QED
  BY <1>2, <1>3, <1>4, <1>5, InParts, UntoldMeans
     DEF IInv, ConfiguredIsTimed, MemoryIsWhole,
         AnswersAreTrue, ReadyIsConfigured, ConfigurationIsWhole, commander, history

LEMMA AnswersKeep ==
  ASSUME IInv, AnswerPing \/ AnswerQuery \/ Acquire \/ Surface \/ StopCompletes
  PROVE  IInv'
<1>0. Values
  BY InParts DEF IInv
<1>1. CASE AnswerPing
  <2>1. [code |-> "Ping", id |-> 0] \in Up
    BY DEF Up
  <2>. QED
    BY <1>0, <1>1, <2>1, BoardKeeps DEF AnswerPing, Take, Values, history
<1>2. CASE AnswerQuery
  <2>1. cfg.id \in {0, Counter}
    BY <1>0 DEF Values, Config_Data
  <2>2. [code |-> "Query", id |-> cfg.id] \in Up
    BY <2>1 DEF Up
  <2>3. cfg.id = Counter \/ ~([code |-> "Query", id |-> cfg.id].id = Counter)
    OBVIOUS
  <2>. QED
    BY <1>0, <1>2, <2>2, <2>3, BoardKeeps DEF AnswerQuery, Take, Values, history
<1>3. CASE Acquire
  BY <1>0, <1>3, BoardKeeps DEF Acquire, Take, Values, history
<1>4. CASE Surface
  BY <1>4, BoardKeeps DEF Surface
<1>5. CASE StopCompletes
  <2>1. [code |-> "Offloading", id |-> 0] \in Up
    BY DEF Up
  <2>. QED
    BY <1>5, <2>1, BoardKeeps DEF StopCompletes
<1>. QED
  BY <1>1, <1>2, <1>3, <1>4, <1>5

LEMMA SyncTimeKeeps == ASSUME IInv, SyncTime PROVE IInv'
<1>0. Values /\ Channels
  BY InParts DEF IInv
<1>1. /\ down # <<>> /\ down' = Tail(down)
      /\ synced' = TRUE /\ slipped' = FALSE
      /\ UNCHANGED <<commander, manager, queue, up, running, cfg, daq, counts, startLost,
                     repeated, cancelled>>
  BY DEF SyncTime, Take
<1>2. down' \in Seq(Down) /\ (Loaded(down, repeated) => Loaded(down', repeated))
  BY <1>0, <1>1, DownTail DEF Channels
<1>3. Values' /\ Channels'
  <2>1. synced' \in BOOLEAN /\ slipped' \in BOOLEAN
    BY <1>1
  <2>2. UNCHANGED <<board, selfStart, op, package, memory, pmg, running, cfg, daq, resets,
                    losses, inputs, startLost, repeated, cancelled>>
    BY <1>1 DEF commander, manager, counts
  <2>3. Values'
    BY <1>0, <2>1, <2>2 DEF Values
  <2>4. Channels'
    BY <1>0, <1>1, <1>2 DEF Channels, manager
  <2>. QED
    BY <2>3, <2>4
<1>4. PackageStays'
  BY <1>1, StaysMeans DEF IInv, commander
<1>. QED
  BY <1>1, <1>2, <1>3, <1>4, InParts, UntoldMeans
     DEF IInv, TimeFirst, ConfiguredIsTimed, MemoryIsWhole, DownIsWhole,
         AnswersAreTrue, ReadyIsConfigured, ConfigurationIsWhole, commander

LEMMA ConfigureKeeps == ASSUME IInv, Configure PROVE IInv'
<1>0. Values /\ Channels
  BY InParts DEF IInv
<1>1. /\ down # <<>> /\ Head(down).code = "Configuration" /\ down' = Tail(down)
      /\ cfg' = Head(down).cfg
      /\ UNCHANGED <<commander, manager, queue, up, running, synced, daq, counts, history>>
  BY DEF Configure, Take, history
<1>2. /\ Head(down) \in Down /\ down' \in Seq(Down) /\ ~TimedOn(down)
      /\ Loaded(down', repeated) /\ FilledIn(cfg', repeated)
  BY <1>0, <1>1, DownTail DEF Channels, IInv, DownIsWhole
<1>3. synced \/ slipped
  BY <1>2 DEF IInv, TimeFirst
<1>4. Values' /\ Channels'
  BY <1>0, <1>1, <1>2 DEF Values, Channels, Down, commander, manager, counts, history
<1>5. PackageStays'
  BY <1>1, StaysMeans DEF IInv, commander
<1>. QED
  BY <1>1, <1>2, <1>3, <1>4, <1>5, InParts
     DEF IInv, TimeFirst, ConfiguredIsTimed, MemoryIsWhole, DownIsWhole, FilledIn,
         AnswersAreTrue, ReadyIsConfigured, ConfigurationIsWhole, commander, history

LEMMA ResetKeeps == ASSUME IInv, Reset PROVE IInv'
<1>0. Values /\ Channels
  BY InParts DEF IInv
<1>1. /\ resets < MaxResets /\ resets' = resets + 1 /\ running' = FALSE
      /\ cfg' = Default /\ synced' = FALSE /\ daq' = "Idle" /\ down' = <<>>
      /\ slipped' = (slipped \/ "Configuration" \in Range(queue))
      /\ UNCHANGED <<commander, manager, queue, losses, inputs, startLost, repeated,
                     cancelled>>
  BY DEF Reset
<1>2. PICK k \in 0 .. Len(up) : up' = SubSeq(up, 1, k)
  BY DEF Reset
<1>3. up' \in Seq(Up) /\ down' \in Seq(Down)
  BY <1>0, <1>1, <1>2, Part, 1 \in 1 .. Len(up) + 1 DEF Channels
<1>4. "Configuration" \in Range(queue) <=> Has(queue)
  BY <1>0, RangeByIndex DEF Has, Channels
<1>5. Values'
  <2>1. resets' \in 0 .. MaxResets
    BY <1>0, <1>1, BoundAssumption DEF Values
  <2>2. Default \in Config_Data
    BY DEF Default, Config_Data
  <2>3. slipped' \in BOOLEAN
    BY <1>1
  <2>. QED
    BY <1>0, <1>1, <2>1, <2>2, <2>3 DEF Values, commander, manager
<1>6. Channels'
  BY <1>0, <1>1, <1>3 DEF Channels, manager
<1>7. PackageStays'
  BY <1>1, StaysMeans DEF IInv, commander
<1>8. TimeFirst' /\ DownIsWhole'
  <2>1. slipped' \/ Timed(queue)
    BY <1>1, <1>4 DEF Timed, Has
  <2>2. TimedOn(down') /\ Loaded(down', repeated')
    BY <1>1 DEF TimedOn, Loaded
  <2>. QED
    BY <1>1, <2>1, <2>2 DEF TimeFirst, DownIsWhole
<1>9. Default.id # Counter
  BY BoundAssumption DEF Default
<1>. QED
  BY <1>1, <1>5, <1>6, <1>7, <1>8, <1>9, InParts, UntoldMeans
     DEF IInv, ConfiguredIsTimed, MemoryIsWhole,
         AnswersAreTrue, ReadyIsConfigured, ConfigurationIsWhole, commander

LEMMA StartKeeps == ASSUME IInv, Start PROVE IInv'
<1>0. Values /\ Channels
  BY InParts DEF IInv
<1>1. /\ running' = TRUE /\ startLost' = FALSE
      /\ up' = Append(up, [code |-> "StartSpecBoard", id |-> 0])
      /\ UNCHANGED <<commander, manager, queue, down, cfg, synced, daq, counts, slipped,
                     repeated, cancelled>>
  BY DEF Start
<1>2. up' \in Seq(Up) /\ Told(up') /\ Corrected(up')
  BY <1>0, <1>1, UpAppend, [code |-> "StartSpecBoard", id |-> 0] \in Up DEF Channels, Up
<1>3. Values' /\ Channels'
  <2>1. running' \in BOOLEAN /\ startLost' \in BOOLEAN
    BY <1>1
  <2>2. UNCHANGED <<board, selfStart, op, package, memory, pmg, cfg, synced, daq, resets,
                    losses, inputs, slipped, repeated, cancelled>>
    BY <1>1 DEF commander, manager, counts
  <2>3. Values'
    BY <1>0, <2>1, <2>2 DEF Values
  <2>4. Channels'
    BY <1>0, <1>1, <1>2 DEF Channels, manager
  <2>. QED
    BY <2>3, <2>4
<1>4. PackageStays'
  BY <1>1, StaysMeans DEF IInv, commander
<1>. QED
  BY <1>1, <1>2, <1>3, <1>4, InParts, UntoldMeans
     DEF IInv, TimeFirst, ConfiguredIsTimed, MemoryIsWhole, DownIsWhole,
         AnswersAreTrue, ReadyIsConfigured, ConfigurationIsWhole, commander

LEMMA OneMoreLost == ASSUME Values, losses < MaxLosses PROVE losses + 1 \in 0 .. MaxLosses
  BY BoundAssumption DEF Values

(* A dropped packet takes nothing away but the time.                       *)
LEMMA DropKeeps == ASSUME IInv, NEW i \in 1 .. Len(queue), Drop(i) PROVE IInv'
<1>0. Values /\ Channels
  BY InParts DEF IInv
<1>1. /\ losses < MaxLosses /\ losses' = losses + 1 /\ queue' = RemoveAt(queue, i)
      /\ slipped' = (slipped \/ queue[i] = "SyncTime")
      /\ UNCHANGED <<commander, manager, down, up, spectrometer, resets, inputs, startLost,
                     repeated, cancelled>>
  BY DEF Drop
<1>2. /\ queue' \in Seq(Code) /\ Once(queue') /\ (Has(queue') => Has(queue))
      /\ queue[i] # "SyncTime" /\ Timed(queue) => Timed(queue')
  BY <1>0, <1>1, QueueRemoved, StaysMeans DEF Channels, IInv
<1>3. losses' \in 0 .. MaxLosses
  BY <1>0, <1>1, OneMoreLost
<1>4. slipped' \in BOOLEAN
  BY <1>1
<1>5. Values' /\ Channels'
  BY <1>0, <1>1, <1>2, <1>3, <1>4 DEF Values, Channels, commander, manager, spectrometer
<1>6. PackageStays'
  BY <1>1, <1>2, StaysMeans DEF IInv, commander
<1>7. TimeFirst' /\ DownIsWhole'
  BY <1>1, <1>2 DEF IInv, TimeFirst, DownIsWhole, spectrometer
<1>. QED
  BY <1>1, <1>5, <1>6, <1>7, InParts, UntoldMeans
     DEF IInv, ConfiguredIsTimed, MemoryIsWhole,
         AnswersAreTrue, ReadyIsConfigured, ConfigurationIsWhole, commander, spectrometer

LEMMA LoseDownKeeps == ASSUME IInv, NEW i \in 1 .. Len(down), LoseDown(i) PROVE IInv'
<1>0. Values /\ Channels
  BY InParts DEF IInv
<1>1. /\ losses < MaxLosses /\ losses' = losses + 1 /\ down' = RemoveAt(down, i)
      /\ slipped' = (slipped \/ down[i].code = "SyncTime")
      /\ UNCHANGED <<commander, manager, queue, up, spectrometer, resets, inputs, startLost,
                     repeated, cancelled>>
  BY DEF LoseDown
<1>2. /\ down' \in Seq(Down)
      /\ down[i].code # "SyncTime" /\ TimedOn(down) => TimedOn(down')
      /\ down[i].code # "SyncTime" /\ Clock(down) => Clock(down')
      /\ Loaded(down, repeated) => Loaded(down', repeated)
  BY <1>0, <1>1, DownRemoved DEF Channels
<1>3. losses' \in 0 .. MaxLosses
  BY <1>0, <1>1, OneMoreLost
<1>4. slipped' \in BOOLEAN
  BY <1>1
<1>5. Values' /\ Channels'
  BY <1>0, <1>1, <1>2, <1>3, <1>4 DEF Values, Channels, commander, manager, spectrometer
<1>6. PackageStays'
  BY <1>1, StaysMeans DEF IInv, commander
<1>7. TimeFirst' /\ DownIsWhole'
  BY <1>1, <1>2 DEF IInv, TimeFirst, DownIsWhole, spectrometer
<1>. QED
  BY <1>1, <1>5, <1>6, <1>7, InParts, UntoldMeans
     DEF IInv, ConfiguredIsTimed, MemoryIsWhole,
         AnswersAreTrue, ReadyIsConfigured, ConfigurationIsWhole, commander, spectrometer

LEMMA LoseUpKeeps == ASSUME IInv, NEW i \in 1 .. Len(up), LoseUp(i) PROVE IInv'
<1>0. Values /\ Channels
  BY InParts DEF IInv
<1>1. /\ losses < MaxLosses /\ losses' = losses + 1 /\ up' = RemoveAt(up, i)
      /\ startLost' = (startLost \/ up[i].code = "StartSpecBoard")
      /\ UNCHANGED <<commander, manager, queue, down, spectrometer, resets, inputs, slipped,
                     repeated, cancelled>>
  BY DEF LoseUp
<1>2. losses' \in 0 .. MaxLosses
  BY <1>0, <1>1, OneMoreLost
<1>3. /\ up' \in Seq(Up)
      /\ up[i].code # "StartSpecBoard" /\ Told(up) => Told(up')
      /\ up[i].code # "StartSpecBoard" /\ Corrected(up) => Corrected(up')
  BY <1>0, <1>1, UpRemoved DEF Channels
<1>4. startLost' \in BOOLEAN
  BY <1>1
<1>5. Values' /\ Channels'
  BY <1>0, <1>1, <1>2, <1>3, <1>4 DEF Values, Channels, commander, manager, spectrometer
<1>6. AnswersAreTrue' /\ ReadyIsConfigured'
  BY <1>1, <1>3, UntoldMeans
     DEF IInv, AnswersAreTrue, ReadyIsConfigured, commander, spectrometer
<1>7. PackageStays'
  BY <1>1, StaysMeans DEF IInv, commander
<1>. QED
  BY <1>1, <1>5, <1>6, <1>7, InParts
     DEF IInv, TimeFirst, ConfiguredIsTimed, MemoryIsWhole, DownIsWhole,
         ConfigurationIsWhole, commander, spectrometer

LEMMA StutterKeeps == ASSUME IInv, UNCHANGED vars PROVE IInv'
<1>0. Values /\ Channels
  BY InParts DEF IInv
<1>1. Values' /\ Channels'
  BY <1>0 DEF Values, Channels, vars, commander, manager, spectrometer, counts, history
<1>2. PackageStays'
  BY StaysMeans DEF IInv, commander, vars
<1>. QED
  BY <1>1, <1>2, InParts, UntoldMeans
     DEF IInv, TimeFirst, ConfiguredIsTimed, MemoryIsWhole, DownIsWhole,
         AnswersAreTrue, ReadyIsConfigured, ConfigurationIsWhole,
         vars, commander, spectrometer, history

LEMMA IInvIsInductive == IInv /\ [Next]_vars => IInv'
<1> SUFFICES ASSUME IInv, [Next]_vars PROVE IInv'
  OBVIOUS
<1>1. CASE Ping
  BY <1>1, PingKeeps
<1>2. CASE Resend
  BY <1>2, ResendKeeps
<1>3. CASE TakeStart
  BY <1>3, TakeStartKeeps
<1>4. CASE TakePing
  BY <1>4, TakePingKeeps
<1>5. CASE TakeQuery
  BY <1>5, TakeQueryKeeps
<1>6. CASE SelfStart \/ \E c \in {"PRFBEG", "PRFEND", "W"} : Input(c)
  BY <1>6, OrdersKeep
<1>7. CASE ProfileManager
  BY <1>7, ManagerKeeps
<1>8. CASE TakeOffloading
  BY <1>8, TakeOffloadingKeeps
<1>9. CASE Send
  BY <1>9, SendPacketKeeps
<1>10. CASE AnswerPing \/ AnswerQuery \/ Acquire \/ Surface \/ StopCompletes
  BY <1>10, AnswersKeep
<1>11. CASE SyncTime
  BY <1>11, SyncTimeKeeps
<1>12. CASE Configure
  BY <1>12, ConfigureKeeps
<1>13. CASE Reset
  BY <1>13, ResetKeeps
<1>14. CASE Start
  BY <1>14, StartKeeps
<1>15. CASE \E i \in 1 .. Len(queue) : Drop(i)
  BY <1>15, DropKeeps
<1>16. CASE \E i \in 1 .. Len(down) : LoseDown(i)
  BY <1>16, LoseDownKeeps
<1>17. CASE \E i \in 1 .. Len(up) : LoseUp(i)
  BY <1>17, LoseUpKeeps
<1>18. CASE UNCHANGED vars
  BY <1>18, StutterKeeps
<1>. QED
  BY <1>1, <1>2, <1>3, <1>4, <1>5, <1>6, <1>7, <1>8, <1>9, <1>10, <1>11, <1>12, <1>13,
     <1>14, <1>15, <1>16, <1>17, <1>18 DEF Next

(* The invariant of the start-up holds in every state.                     *)
LEMMA Invariant == Spec => []IInv
  BY InitIInv, IInvIsInductive, PTL DEF Spec

----------------------------------------------------------------------------
(* Every variable keeps its type: the counts stay within their bounds, and *)
(* the channels carry packets.                                             *)
THEOREM TypeCorrect == Spec => []TypeOK
<1>1. IInv => TypeOK
  BY DEF IInv
<1>. QED
  BY <1>1, Invariant, PTL

(* The package of the configuration is in the hands of one task at a time: *)
(* its pointer waits once at most, and never when the package is free.     *)
THEOREM PackageAlwaysStays == Spec => []PackageStays
<1>1. IInv => PackageStays
  BY DEF IInv
<1>. QED
  BY <1>1, Invariant, PTL

(* A board that counts as ready works with a configuration of this power   *)
(* cycle, however many answers of an earlier life of the board are still   *)
(* on their way, unless its reset could not be reported yet.               *)
THEOREM ReadyAlwaysConfigured == Spec => []ReadyIsConfigured
<1>1. IInv => ReadyIsConfigured
  BY DEF IInv
<1>. QED
  BY <1>1, Invariant, PTL

(* Whatever is lost and however often it is sent, the configuration that   *)
(* the board works with was filled in by the commander.                    *)
THEOREM ConfigurationAlwaysWhole == Spec => []ConfigurationIsWhole
<1>1. IInv => ConfigurationIsWhole
  BY DEF IInv
<1>. QED
  BY <1>1, Invariant, PTL

(* The time of a board that counts as ready has been set, unless the time  *)
(* was lost, or separated from its configuration by a reset.               *)
THEOREM ClockAlwaysSet == Spec => []ClockIsSet
<1>1. IInv => ClockIsSet
  BY ClockFollows DEF IInv
<1>. QED
  BY <1>1, Invariant, PTL
=============================================================================

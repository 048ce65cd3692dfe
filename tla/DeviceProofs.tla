---------------------------- MODULE DeviceProofs ----------------------------
(***************************************************************************)
(* What the page knows of its device, for any number of requests, starts,  *)
(* readers and intervals.                                                  *)
(*                                                                         *)
(* A monitor is known by the number of its start, so what listens belongs  *)
(* to the monitor that runs because a late promise is tested against that  *)
(* number (HeardIsRunning); with exactly one sampler per running monitor   *)
(* an interval in view adds one sample, which is newer than all others.    *)
(* The frame counter runs while it is read (RunsWhileRead).  A request has *)
(* a number no other has, which takes a pigeonhole to exist (UnusedIsFree).*)
(***************************************************************************)
EXTENDS Device, FiniteSetTheorems, SequenceTheorems, TLAPS

Ask == [n : 1..MaxAsks + 1, refresh : BOOLEAN]
Status == {"off", "pending", "on", "denied", "unavailable"}

DeviceTypeOK ==
  /\ sharing \in Status /\ aged \in BOOLEAN /\ wanted \in BOOLEAN
  /\ asks \subseteq Ask /\ IsFiniteSet(asks)
  /\ monitor \in [starts : Nat, live : BOOLEAN]
  /\ hidden \in BOOLEAN
  /\ meter \in [readers : SUBSET Readers, running : BOOLEAN, frames : Nat,
                timed : BOOLEAN]
  /\ clock \in Nat /\ history \in Seq(Nat) /\ seen \subseteq 1..clock

\* What listens belongs to the running monitor, and its sampler is there; a job
\* is of one start, too.
HeardIsRunning ==
  /\ \A h \in heard : monitor.live /\ h = <<Now, h[2]>>
  /\ monitor.live => <<Now, "sampler">> \in heard
  /\ \A j \in jobs : j = <<j[1], j[2]>>

\* The loop is on while there are readers, and a loop that is off has no frame.
RunsWhileRead ==
  /\ meter.running <=> meter.readers # {}
  /\ ~meter.running => meter.frames = 0 /\ ~meter.timed

DeviceInv ==
  /\ DeviceTypeOK /\ PendingIsAsked /\ HeardIsRunning /\ RunsWhileRead
  /\ OneLoopWhileRead /\ HistoryIsTimeInView

LEMMA DeviceInitInv == Init => DeviceInv
<1> SUFFICES ASSUME Init PROVE DeviceInv
  OBVIOUS
<1>1. history \in Seq(Nat) /\ Len(history) = 0
  BY DEF Init
<1>2. HistoryIsTimeInView
  BY <1>1, DeviceAssumption DEF Init, HistoryIsTimeInView
<1>3. DeviceTypeOK
  BY <1>1, FS_EmptySet DEF Init, DeviceTypeOK, Status
<1>4. PendingIsAsked /\ HeardIsRunning /\ RunsWhileRead /\ OneLoopWhileRead
  BY DEF Init, PendingIsAsked, HeardIsRunning, RunsWhileRead, OneLoopWhileRead
<1> QED
  BY <1>2, <1>3, <1>4 DEF DeviceInv
----------------------------------------------------------------------------
(* Location sharing.                                                        *)

\* While a request may be made there is a number for it.
LEMMA UnusedIsFree ==
  ASSUME DeviceTypeOK, Cardinality(asks) < MaxAsks
  PROVE  Unused \in 1..MaxAsks + 1 /\ \A a \in asks : a.n # Unused
<1> DEFINE used == {a.n : a \in asks}
           f == [a \in asks |-> a.n]
<1>1. f \in Surjection(asks, used)
  BY DEF Surjection
<1>2. IsFiniteSet(used) /\ Cardinality(used) <= Cardinality(asks)
  BY <1>1, FS_Surjection DEF DeviceTypeOK
<1>3. IsFiniteSet(1..MaxAsks + 1) /\ Cardinality(1..MaxAsks + 1) = MaxAsks + 1
  BY DeviceAssumption, FS_Interval
<1>4. Cardinality(used) \in Nat /\ Cardinality(asks) \in Nat
  BY <1>2, FS_CardinalityType DEF DeviceTypeOK
<1>5. ~(1..MaxAsks + 1 \subseteq used)
  <2> HIDE DEF used
  <2> QED
    BY <1>2, <1>3, <1>4, DeviceAssumption, FS_Subset
<1>6. \E n \in 1..MaxAsks + 1 : \A a \in asks : a.n # n
  BY <1>5
<1> QED
  BY <1>6 DEF Unused

\* A request that is made is a new one.
LEMMA AcquireAsks ==
  ASSUME DeviceTypeOK, Geolocation, NEW refresh \in BOOLEAN, acquire(refresh)
  PROVE  /\ asks' \subseteq Ask /\ IsFiniteSet(asks')
         /\ Cardinality(asks') > Cardinality(asks)
         /\ \E a \in asks' : a.refresh = refresh
         /\ sharing' = IF refresh THEN sharing ELSE "pending"
         /\ asks \subseteq asks'
<1> DEFINE a == [n |-> Unused, refresh |-> refresh]
<1>1. /\ asks' = asks \cup {a} /\ Cardinality(asks) < MaxAsks
      /\ sharing' = IF refresh THEN sharing ELSE "pending"
  BY DEF acquire
<1>2. a \in Ask /\ a \notin asks /\ a.refresh = refresh
  BY <1>1, UnusedIsFree DEF Ask
<1>3. IsFiniteSet(asks') /\ Cardinality(asks') = Cardinality(asks) + 1
  <2> HIDE DEF a
  <2> QED
    BY <1>1, <1>2, FS_AddElement DEF DeviceTypeOK
<1>4. Cardinality(asks) \in Nat
  BY FS_CardinalityType DEF DeviceTypeOK
<1> HIDE DEF a
<1> QED
  BY <1>1, <1>2, <1>3, <1>4 DEF DeviceTypeOK

LEMMA SharingKeeps ==
  ASSUME DeviceInv, Sharing PROVE DeviceInv'
<1>1. /\ DeviceTypeOK /\ PendingIsAsked
      /\ UNCHANGED <<monitor, heard, jobs, hidden, meter, clock, history, seen>>
  BY DEF DeviceInv, Sharing, ShareLocation, LocButton, stopSharing, locate, MapCloses,
     FixAges, Fixed, FixFailed, watch, ring
<1>2. /\ sharing' \in Status /\ aged' \in BOOLEAN /\ wanted' \in BOOLEAN
      /\ asks' \subseteq Ask /\ IsFiniteSet(asks') /\ PendingIsAsked'
  <2>0. ASSUME acquire(FALSE), wanted' \in BOOLEAN
        PROVE  /\ sharing' \in Status /\ aged' \in BOOLEAN /\ wanted' \in BOOLEAN
               /\ asks' \subseteq Ask /\ IsFiniteSet(asks') /\ PendingIsAsked'
    <3>1. /\ asks' \subseteq Ask /\ IsFiniteSet(asks')
          /\ \/ sharing' = "pending" /\ \E a \in asks' : a.refresh = FALSE
             \/ sharing' = "unavailable"
      <4>1. CASE Geolocation
        BY <1>1, <2>0, <4>1, AcquireAsks
      <4>2. CASE ~Geolocation
        BY <1>1, <2>0, <4>2 DEF acquire, DeviceTypeOK
      <4> QED
        BY <4>1, <4>2
    <3>2. aged' = aged
      BY <2>0 DEF acquire
    <3>3. PendingIsAsked'
      BY <3>1, <2>0 DEF PendingIsAsked
    <3> QED
      BY <1>1, <2>0, <3>1, <3>2, <3>3 DEF DeviceTypeOK, Status
  <2>1. CASE ShareLocation
    BY <1>1, <2>0, <2>1 DEF ShareLocation, DeviceTypeOK
  <2>2. CASE locate
    BY <2>0, <2>2 DEF locate
  <2>3. CASE LocButton
    <3>1. CASE stopSharing
      BY <1>1, <3>1 DEF stopSharing, DeviceTypeOK, PendingIsAsked, Status
    <3> QED
      BY <2>1, <2>3, <3>1 DEF LocButton
  <2>4. CASE MapCloses \/ FixAges
    <3>1. sharing' = sharing /\ asks' = asks /\ (wanted' = wanted \/ wanted' = FALSE)
          /\ (aged' = aged \/ aged' = TRUE)
      BY <2>4 DEF MapCloses, FixAges
    <3>2. PendingIsAsked'
      BY <1>1, <3>1 DEF PendingIsAsked
    <3> QED
      BY <1>1, <3>1, <3>2 DEF DeviceTypeOK
  <2>5. ASSUME NEW a \in asks,
               Fixed(a) \/ \E code \in {"denied", "timeout"} : FixFailed(a, code)
        PROVE  /\ sharing' \in Status /\ aged' \in BOOLEAN /\ wanted' \in BOOLEAN
               /\ asks' \subseteq Ask /\ IsFiniteSet(asks') /\ PendingIsAsked'
    <3>1. asks' = asks \ {a} /\ IsFiniteSet(asks \ {a})
      BY <1>1, <2>5, FS_RemoveElement DEF Fixed, FixFailed, DeviceTypeOK
    <3>2. CASE Fixed(a)
      BY <1>1, <3>1, <3>2 DEF Fixed, Flown, DeviceTypeOK, PendingIsAsked, Status
    <3>3. CASE \E code \in {"denied", "timeout"} : FixFailed(a, code)
      BY <1>1, <3>1, <3>3 DEF FixFailed, DeviceTypeOK, PendingIsAsked, Status
    <3> QED
      BY <2>5, <3>2, <3>3
  <2> QED
    BY <2>1, <2>2, <2>3, <2>4, <2>5 DEF Sharing
<1> QED
  BY <1>1, <1>2 DEF DeviceInv, DeviceTypeOK, HeardIsRunning, Now, RunsWhileRead,
     OneLoopWhileRead, HistoryIsTimeInView
----------------------------------------------------------------------------
(* The monitor.                                                             *)

\* Appending one sample to a buffer with room, and to a full one.
LEMMA AppendOne ==
  ASSUME NEW h \in Seq(Nat), NEW c \in Nat
  PROVE  LET all == h \o [i \in 1..1 |-> c] IN
         /\ all \in Seq(Nat) /\ Len(all) = Len(h) + 1 /\ all[Len(h) + 1] = c
         /\ \A i \in 1..Len(h) : all[i] = h[i]
<1> DEFINE one == [i \in 1..1 |-> c]
           all == h \o one
           L == Len(h)
<1>1. L \in Nat
  BY LenProperties
<1>2. one \in Seq(Nat) /\ Len(one) = 1 /\ one[1] = c
  OBVIOUS
<1> HIDE DEF one
<1>3. /\ h \o one \in Seq(Nat) /\ Len(h \o one) = Len(h) + Len(one)
      /\ \A i \in 1..Len(h) + Len(one) :
           (h \o one)[i] = IF i <= Len(h) THEN h[i] ELSE one[i - Len(h)]
  BY ONLY <1>2, h \in Seq(Nat), ConcatProperties
<1>4. /\ all \in Seq(Nat) /\ Len(all) = L + 1
      /\ \A i \in 1..L + 1 : all[i] = IF i <= L THEN h[i] ELSE one[i - L]
  BY <1>2, <1>3
<1> HIDE DEF all, L
<1>5. /\ all \in Seq(Nat) /\ Len(all) = L + 1 /\ all[L + 1] = c
      /\ \A i \in 1..L : all[i] = h[i]
  BY <1>1, <1>2, <1>4
<1> QED
  BY <1>5 DEF all, one, L

Newest(all) ==
  IF Len(all) > HistoryMax THEN SubSeq(all, Len(all) - HistoryMax + 1, Len(all)) ELSE all

LEMMA NewestHasRoom ==
  ASSUME NEW all \in Seq(Nat), Len(all) <= HistoryMax
  PROVE  Newest(all) = all
<1>1. Len(all) \in Nat /\ HistoryMax \in Nat
  BY LenProperties, DeviceAssumption
<1> QED
  BY <1>1 DEF Newest

LEMMA NewestMakesRoom ==
  ASSUME NEW all \in Seq(Nat), Len(all) = HistoryMax + 1
  PROVE  /\ Newest(all) \in Seq(Nat) /\ Len(Newest(all)) = HistoryMax
         /\ \A i \in 1..HistoryMax : Newest(all)[i] = all[i + 1]
<1> DEFINE M == HistoryMax
           sub == SubSeq(all, 2, M + 1)
<1>1. M \in Nat /\ M > 0 /\ M + 1 \in Int /\ 2 \in Int
  BY DeviceAssumption
<1>2. Newest(all) = sub
  <2>1. Len(all) > M /\ Len(all) - M + 1 = 2
    BY <1>1
  <2> QED
    BY <2>1 DEF Newest
<1> HIDE DEF M
<1>3. \A i \in 2..(M + 1) : all[i] \in Nat
  BY <1>1, ElementOfSeq DEF M
<1>4. /\ sub \in Seq(Nat)
      /\ Len(sub) = IF 2 <= M + 1 THEN (M + 1) - 2 + 1 ELSE 0
      /\ \A i \in 1..((M + 1) - 2 + 1) : sub[i] = all[2 + i - 1]
  BY ONLY <1>1, <1>3, SubSeqProperties
<1> HIDE DEF sub
<1>5. sub \in Seq(Nat) /\ Len(sub) = M
  BY <1>1, <1>4
<1>6. ASSUME NEW i \in 1..M PROVE sub[i] = all[i + 1]
  <2>1. i \in 1..((M + 1) - 2 + 1) /\ 2 + i - 1 = i + 1
    BY <1>1
  <2> QED
    BY <1>4, <2>1
<1> QED
  BY <1>2, <1>5, <1>6 DEF M

\* A sample newer than all others is kept, and the oldest makes room for it.
LEMMA PushKeeps ==
  ASSUME DeviceTypeOK, HistoryIsTimeInView,
         seen' = seen \cup {clock + 1},
         history' = pushSamples(history, [i \in 1..1 |-> clock + 1])
  PROVE  history' \in Seq(Nat) /\ HistoryIsTimeInView'
<1> DEFINE c == clock + 1
           L == Len(history)
           M == HistoryMax
           buf == history'
<1>1. /\ c \in Nat /\ L \in Nat /\ M \in Nat /\ M > 0 /\ L <= M
  BY LenProperties, DeviceAssumption DEF DeviceTypeOK, HistoryIsTimeInView
<1>2. /\ \A i \in 1..L : history[i] \in seen
      /\ \A i, j \in 1..L : i < j => history[i] < history[j]
      /\ \A t \in seen : t < c /\ t \in Nat
      /\ \A t \in seen : (\E i \in 1..L : history[i] = t)
                           \/ (L = M /\ \A i \in 1..L : t < history[i])
  <2>1. \A t \in seen : t < c /\ t \in Nat
    BY DEF DeviceTypeOK
  <2> QED
    BY <2>1 DEF HistoryIsTimeInView
<1>3. /\ buf \in Seq(Nat)
      /\ L < M => /\ Len(buf) = L + 1 /\ buf[L + 1] = c
                  /\ \A i \in 1..L : buf[i] = history[i]
      /\ L = M => /\ Len(buf) = M /\ buf[M] = c
                  /\ \A i \in 2..M : buf[i - 1] = history[i]
  <2> DEFINE all == history \o [i \in 1..1 |-> c]
  <2>1. history \in Seq(Nat)
    BY DEF DeviceTypeOK
  <2>2. buf = Newest(all)
    BY DEF pushSamples, Newest
  <2>3. /\ all \in Seq(Nat) /\ Len(all) = L + 1 /\ all[L + 1] = c
        /\ \A i \in 1..L : all[i] = history[i]
    BY <1>1, <2>1, AppendOne
  <2> HIDE DEF all, c, L, M, buf
  <2>4. CASE L < M
    <3>1. Len(all) <= HistoryMax
      BY <1>1, <2>3, <2>4 DEF M
    <3>2. buf = all
      BY <2>2, <2>3, <3>1, NewestHasRoom
    <3> QED
      BY <1>1, <2>3, <2>4, <3>2
  <2>5. CASE L = M
    <3>1. Len(all) = HistoryMax + 1
      BY <1>1, <2>3, <2>5 DEF M
    <3>2. buf \in Seq(Nat) /\ Len(buf) = M /\ \A i \in 1..M : buf[i] = all[i + 1]
      BY <2>2, <2>3, <3>1, NewestMakesRoom DEF M
    <3>3. buf[M] = c
      BY <1>1, <2>3, <2>5, <3>2
    <3>4. ASSUME NEW i \in 2..M PROVE buf[i - 1] = history[i]
      <4>1. i - 1 \in 1..M /\ (i - 1) + 1 = i /\ i \in 1..L
        BY <1>1, <2>5
      <4> QED
        BY <2>3, <3>2, <4>1
    <3> QED
      BY <1>1, <2>5, <3>2, <3>3, <3>4
  <2> QED
    BY <1>1, <2>4, <2>5
<1>4. seen' = seen \cup {c}
  OBVIOUS
<1> HIDE DEF c, L, M, buf
<1> DEFINE K == Len(buf)
<1>5. /\ K \in Nat /\ K <= M
      /\ \A i, j \in 1..K : i < j => buf[i] < buf[j]
      /\ \A i \in 1..K : buf[i] \in seen \cup {c}
      /\ \A t \in seen \cup {c} :
           (\E i \in 1..K : buf[i] = t) \/ (K = M /\ \A i \in 1..K : t < buf[i])
  <2>1. CASE L < M
    <3>1. K = L + 1
      BY <1>3, <2>1
    <3>2. \A i \in 1..L : buf[i] = history[i] /\ buf[i] \in seen /\ buf[i] < c
      BY <1>2, <1>3, <2>1
    <3> HIDE DEF K
    <3>3. \A i, j \in 1..K : i < j => buf[i] < buf[j]
      <4> TAKE i, j \in 1..K
      <4>1. CASE j = L + 1
        BY <1>1, <1>3, <2>1, <3>1, <3>2, <4>1
      <4>2. CASE j # L + 1
        BY <1>1, <1>2, <3>1, <3>2, <4>2
      <4> QED
        BY <4>1, <4>2
    <3>4. \A i \in 1..K : buf[i] \in seen \cup {c}
      BY <1>1, <1>3, <2>1, <3>1, <3>2
    <3>5. ASSUME NEW t \in seen \cup {c} PROVE \E i \in 1..K : buf[i] = t
      <4>1. CASE t = c
        BY <1>1, <1>3, <2>1, <3>1, <4>1
      <4>2. CASE t \in seen
        <5>1. PICK i \in 1..L : history[i] = t
          <6>1. L # M
            BY <1>1, <2>1
          <6> QED
            BY <1>2, <4>2, <6>1
        <5>2. i \in 1..K /\ buf[i] = t
          BY <1>1, <3>1, <3>2, <5>1
        <5> QED
          BY <5>2
      <4> QED
        BY <4>1, <4>2
    <3> QED
      BY <1>1, <2>1, <3>1, <3>3, <3>4, <3>5
  <2>2. CASE L = M
    <3>1. K = M /\ L = M
      BY <1>3, <2>2
    <3>2. \A i \in 1..(M - 1) : buf[i] = history[i + 1] /\ i + 1 \in 2..M
      <4> TAKE i \in 1..(M - 1)
      <4>1. i + 1 \in 2..M /\ (i + 1) - 1 = i
        BY <1>1
      <4>2. buf[(i + 1) - 1] = history[i + 1]
        BY <1>3, <2>2, <4>1
      <4> QED
        BY <4>1, <4>2
    <3>3. \A i \in 1..(M - 1) : buf[i] \in seen /\ buf[i] < c
      <4> TAKE i \in 1..(M - 1)
      <4>1. i + 1 \in 1..L /\ buf[i] = history[i + 1]
        BY <1>1, <2>2, <3>2
      <4> QED
        BY <1>2, <4>1
    <3> HIDE DEF K
    <3>4. \A i, j \in 1..K : i < j => buf[i] < buf[j]
      <4> TAKE i, j \in 1..K
      <4>1. CASE j = M
        BY <1>1, <1>3, <2>2, <3>1, <3>3, <4>1
      <4>2. CASE j # M /\ i < j
        <5>1. i \in 1..(M - 1) /\ j \in 1..(M - 1)
          BY <1>1, <3>1, <4>2
        <5>2. /\ buf[i] = history[i + 1] /\ buf[j] = history[j + 1]
              /\ i + 1 \in 1..L /\ j + 1 \in 1..L /\ i + 1 < j + 1
          BY <1>1, <3>1, <3>2, <4>2, <5>1
        <5> QED
          BY <1>2, <5>2
      <4> QED
        BY <4>1, <4>2
    <3>5. \A i \in 1..K : buf[i] \in seen \cup {c}
      BY <1>1, <1>3, <2>2, <3>1, <3>3
    <3>6. ASSUME NEW t \in seen \cup {c}, ~\E i \in 1..K : buf[i] = t
          PROVE  \A i \in 1..K : t < buf[i]
      <4>1. t # c /\ t \in seen
        BY <1>1, <1>3, <2>2, <3>1, <3>6
      <4>2. ASSUME NEW i \in 2..L PROVE history[i] # t
        <5>1. i - 1 \in 1..K /\ buf[i - 1] = history[i]
          BY <1>1, <1>3, <2>2, <3>1
        <5> QED
          BY <3>6, <5>1
      <4>3. \A i \in 2..L : t < history[i]
        <5>1. 1 \in 1..L /\ \A i \in 2..L : i \in 1..L /\ 1 < i
          BY <1>1, <3>1
        <5>2. CASE t = history[1]
          BY <1>2, <5>1, <5>2
        <5>3. CASE t # history[1]
          <6>1. ~\E i \in 1..L : history[i] = t
            BY <1>1, <4>2, <5>3
          <6> QED
            BY <1>2, <4>1, <5>1, <6>1
        <5> QED
          BY <5>2, <5>3
      <4>4. ASSUME NEW i \in 1..K PROVE t < buf[i]
        <5>1. CASE i = M
          BY <1>2, <1>3, <2>2, <4>1, <5>1
        <5>2. CASE i # M
          <6>1. i \in 1..(M - 1) /\ i + 1 \in 2..L /\ buf[i] = history[i + 1]
            BY <1>1, <3>1, <3>2, <5>2
          <6> QED
            BY <4>3, <6>1
        <5> QED
          BY <5>1, <5>2
      <4> QED
        BY <4>4
    <3> QED
      BY <1>1, <3>1, <3>4, <3>5, <3>6
  <2> QED
    BY <1>1, <2>1, <2>2
<1> QED
  <2> DEFINE kept == {buf[i] : i \in 1..K}
  <2>1. kept \subseteq seen'
    BY <1>4, <1>5
  <2>2. ASSUME NEW t \in seen' \ kept PROVE K = M /\ \A k \in kept : t < k
    BY <1>4, <1>5
  <2> QED
    BY <1>3, <1>5, <2>1, <2>2 DEF HistoryIsTimeInView, M, buf

\* A listener whose job settles late is the running monitor's.
LEMMA HeardKeeps ==
  ASSUME DeviceInv, Monitoring PROVE HeardIsRunning'
<1>1. HeardIsRunning
  BY DEF DeviceInv
<1>2. CASE startDeviceMonitor
  <2>1. heard' = {Now + 1} \X Sources
    BY <1>1, <1>2 DEF startDeviceMonitor, HeardIsRunning
  <2>2. monitor'.live /\ Now' = Now + 1
    BY <1>2 DEF startDeviceMonitor, Now
  <2>3. "sampler" \in Sources
    BY DEF Sources
  <2>4. \A j \in jobs' : j = <<j[1], j[2]>>
    BY <1>1, <1>2 DEF startDeviceMonitor, HeardIsRunning, requestAdapter, readStorage
  <2> QED
    BY <2>1, <2>2, <2>3, <2>4 DEF HeardIsRunning
<1>3. CASE stopActive
  <2>1. heard' = {} /\ jobs' = jobs
    BY <1>1, <1>3 DEF stopActive, HeardIsRunning
  <2>2. ~monitor'.live
    BY <1>3 DEF stopActive, DeviceInv, DeviceTypeOK
  <2> QED
    BY <1>1, <2>1, <2>2 DEF HeardIsRunning
<1>4. CASE StoragePoll \/ Tick \/ Visibility
  <2>1. UNCHANGED <<monitor, heard>>
    BY <1>4 DEF StoragePoll, Tick, Visibility, watch
  <2>2. \A j \in jobs' : j = <<j[1], j[2]>>
    BY <1>1, <1>4 DEF StoragePoll, Tick, Visibility, watch, HeardIsRunning, readStorage
  <2> QED
    BY <1>1, <2>1, <2>2 DEF HeardIsRunning, Now
<1>5. ASSUME NEW job \in jobs, Settled(job) PROVE HeardIsRunning'
  <2>1. UNCHANGED monitor /\ jobs' \subseteq jobs /\ job = <<job[1], job[2]>>
    BY <1>1, <1>5 DEF Settled, HeardIsRunning
  <2>2. heard' = heard \/ (heard' = heard \cup {job} /\ monitor.live /\ job[1] = Now)
    BY <1>5 DEF Settled, alive
  <2> QED
    BY <1>1, <2>1, <2>2 DEF HeardIsRunning, Now
<1>6. ASSUME NEW job \in jobs, Rejected(job) PROVE HeardIsRunning'
  BY <1>1, <1>6 DEF Rejected, HeardIsRunning, Now
<1> QED
  BY <1>2, <1>3, <1>4, <1>5, <1>6 DEF Monitoring

\* An interval adds the one sample of the one sampler, if it is in view.
LEMMA TickKeeps ==
  ASSUME DeviceInv, Tick PROVE DeviceInv'
<1>1. /\ DeviceTypeOK /\ HeardIsRunning /\ HistoryIsTimeInView
      /\ UNCHANGED <<monitor, heard, jobs, sharing, asks, aged, wanted, hidden, meter>>
      /\ clock' = clock + 1
  BY DEF DeviceInv, Tick, watch, where
<1> DEFINE samplers == IF hidden THEN {} ELSE {h \in heard : h[2] = "sampler"}
           news == [i \in 1..Cardinality(samplers) |-> clock + 1]
<1>2. /\ history' = pushSamples(history, news)
      /\ seen' = IF monitor.live /\ ~hidden THEN seen \cup {clock + 1} ELSE seen
  BY DEF Tick
<1>3. /\ history' \in Seq(Nat) /\ HistoryIsTimeInView'
  <2>1. CASE monitor.live /\ ~hidden
    <3>1. samplers = {<<Now, "sampler">>}
      <4>1. \A h \in samplers : h = <<Now, "sampler">>
        BY <1>1, <2>1 DEF HeardIsRunning
      <4>2. <<Now, "sampler">> \in samplers
        BY <1>1, <2>1 DEF HeardIsRunning
      <4> HIDE DEF samplers
      <4> QED
        BY <4>1, <4>2
    <3>2. Cardinality(samplers) = 1
      BY <3>1, FS_Singleton
    <3> QED
      BY <1>1, <1>2, <2>1, <3>2, PushKeeps
  <2>2. CASE ~(monitor.live /\ ~hidden)
    <3>1. samplers = {}
      BY <1>1, <2>2 DEF HeardIsRunning
    <3>2. news = <<>>
      <4>1. news = [i \in 1..0 |-> clock + 1]
        BY <3>1, FS_EmptySet
      <4>2. news \in Seq(Nat) /\ Len(news) = 0
        <5>1. clock + 1 \in Nat
          BY <1>1 DEF DeviceTypeOK
        <5> DEFINE c == clock + 1
        <5> HIDE DEF c
        <5>2. [i \in 1..0 |-> c] \in Seq(Nat) /\ Len([i \in 1..0 |-> c]) = 0
          BY <5>1 DEF c
        <5> QED
          BY <4>1, <5>2 DEF c
      <4> HIDE DEF news
      <4> QED
        BY <4>2, EmptySeq
    <3>3. history \o <<>> = history /\ history \in Seq(Nat)
      BY <1>1, ConcatEmptySeq DEF DeviceTypeOK
    <3>4. Len(history) \in Nat /\ Len(history) <= HistoryMax /\ HistoryMax \in Nat
      BY <1>1, <3>3, LenProperties, DeviceAssumption DEF HistoryIsTimeInView
    <3>5. pushSamples(history, <<>>) = history
      BY <3>3, <3>4 DEF pushSamples
    <3>6. history' = history /\ seen' = seen
      BY <1>2, <2>2, <3>2, <3>5
    <3> QED
      BY <1>1, <3>3, <3>6 DEF HistoryIsTimeInView
  <2> QED
    BY <2>1, <2>2
<1>4. seen' \subseteq 1..clock'
  BY <1>1, <1>2 DEF DeviceTypeOK
<1>5. DeviceTypeOK'
  BY <1>1, <1>3, <1>4 DEF DeviceTypeOK
<1> QED
  BY <1>1, <1>3, <1>5 DEF DeviceInv, PendingIsAsked, HeardIsRunning, Now, RunsWhileRead,
     OneLoopWhileRead
----------------------------------------------------------------------------
(* The frame counter.                                                       *)

Meter == [readers : SUBSET Readers, running : BOOLEAN, frames : Nat, timed : BOOLEAN]

\* What the counter keeps of itself on a page that is hidden or in view.
MeterOK(m, hid) ==
  /\ m \in Meter /\ (m.running <=> m.readers # {})
  /\ ~m.running => m.frames = 0 /\ ~m.timed
  /\ m.frames <= 1
  /\ m.running /\ ~hid => m.frames = 1
  /\ m.timed => m.frames = 1 /\ ~hid

LEMMA MeterIs ==
  ASSUME DeviceTypeOK
  PROVE  MeterOK(meter, hidden) <=> RunsWhileRead /\ OneLoopWhileRead
<1>1. meter \in Meter
  BY DEF DeviceTypeOK, Meter
<1> QED
  BY <1>1 DEF MeterOK, RunsWhileRead, OneLoopWhileRead, Meter

Metered(m, rs, on, n, ti) ==
  [m EXCEPT !.readers = rs, !.running = on, !.frames = n, !.timed = ti]

ReadsAs(k, rs, on, n, ti) ==
  k \in Meter /\ k.readers = rs /\ k.running = on /\ k.frames = n /\ k.timed = ti

LEMMA MeterUpdates ==
  \A m \in Meter, rs \in SUBSET Readers, on \in BOOLEAN, n \in Nat, ti \in BOOLEAN :
    ReadsAs(Metered(m, rs, on, n, ti), rs, on, n, ti)
<1> SUFFICES ASSUME NEW m \in Meter, NEW rs \in SUBSET Readers, NEW on \in BOOLEAN,
                    NEW n \in Nat, NEW ti \in BOOLEAN
             PROVE  ReadsAs(Metered(m, rs, on, n, ti), rs, on, n, ti)
  OBVIOUS
<1> QED
  BY DEF Meter, Metered, ReadsAs

LEMMA MeterSees ==
  ASSUME NEW m \in Meter, NEW hid \in BOOLEAN, MeterOK(m, hid)
  PROVE  MeterOK(onVisibility(m, ~hid), ~hid)
<1>1. /\ m.readers \in SUBSET Readers /\ m.running \in BOOLEAN /\ m.frames \in Nat
      /\ m.timed \in BOOLEAN
      /\ (m.running <=> m.readers # {}) /\ (~m.running => m.frames = 0 /\ ~m.timed)
      /\ m.frames <= 1 /\ (m.running /\ ~hid => m.frames = 1)
      /\ (m.timed => m.frames = 1 /\ ~hid)
  BY DEF MeterOK, Meter
<1>2. MeterOK(onVisibility(m, ~hid), ~hid)
  <2>1. CASE ~m.running
    BY <1>1, <2>1 DEF onVisibility, MeterOK
  <2>2. CASE m.running
    <3> DEFINE n == IF hid THEN 1 ELSE 0
               k == Metered(m, m.readers, TRUE, n, FALSE)
    <3>1. onVisibility(m, ~hid) = k
      <4>1. CASE ~hid
        <5>1. cancelled(m.frames) = 0
          BY <1>1 DEF cancelled
        <5>2. onVisibility(m, ~hid) = [m EXCEPT !.frames = 0, !.timed = FALSE]
          BY <2>2, <4>1, <5>1 DEF onVisibility
        <5> QED
          BY <1>1, <2>2, <4>1, <5>2 DEF Metered, Meter
      <4>2. CASE hid
        <5>1. m.timed = FALSE
          BY <1>1, <4>2
        <5>2. CASE m.frames > 0
          <6>1. m.frames = 1
            BY <1>1, <5>2
          <6>2. onVisibility(m, ~hid) = m
            BY <2>2, <4>2, <5>2 DEF onVisibility
          <6> QED
            BY <1>1, <2>2, <4>2, <5>1, <6>1, <6>2 DEF Metered, Meter
        <5>3. CASE ~(m.frames > 0)
          <6>1. onVisibility(m, ~hid) = [m EXCEPT !.frames = 1]
            BY <2>2, <4>2, <5>3 DEF onVisibility
          <6> QED
            BY <1>1, <2>2, <4>2, <5>1, <6>1 DEF Metered, Meter
        <5> QED
          BY <5>2, <5>3
      <4> QED
        BY <4>1, <4>2
    <3>2. n \in Nat /\ n <= 1 /\ (hid => n = 1)
      OBVIOUS
    <3> HIDE DEF n
    <3>3. ReadsAs(k, m.readers, TRUE, n, FALSE)
      BY <1>1, <3>2, MeterUpdates, Zenon
    <3> HIDE DEF k
    <3>4. MeterOK(k, ~hid)
      BY <1>1, <2>2, <3>2, <3>3 DEF MeterOK, ReadsAs
    <3> QED
      BY <3>1, <3>4
  <2> QED
    BY <1>1, <2>1, <2>2
<1> QED
  BY <1>2

LEMMA MeterSteps ==
  ASSUME NEW m \in Meter, NEW r \in Readers, NEW hid \in BOOLEAN, MeterOK(m, hid)
  PROVE  /\ MeterOK([start(m) EXCEPT !.readers = @ \cup {r}], hid)
         /\ LET left == [m EXCEPT !.readers = @ \ {r}]
            IN  MeterOK(IF left.readers = {} THEN stop(left) ELSE left, hid)
         /\ m.frames > 0 /\ ~hid => MeterOK([m EXCEPT !.timed = TRUE], hid)
<1>1. /\ m.readers \in SUBSET Readers /\ m.running \in BOOLEAN /\ m.frames \in Nat
      /\ m.timed \in BOOLEAN
      /\ (m.running <=> m.readers # {}) /\ (~m.running => m.frames = 0 /\ ~m.timed)
      /\ m.frames <= 1 /\ (m.running /\ ~hid => m.frames = 1)
      /\ (m.timed => m.frames = 1 /\ ~hid)
  BY DEF MeterOK, Meter
<1>2. MeterOK([start(m) EXCEPT !.readers = @ \cup {r}], hid)
  <2> DEFINE n == IF m.running THEN m.frames ELSE 1
             k == Metered(m, m.readers \cup {r}, TRUE, n, m.timed)
  <2>1. [start(m) EXCEPT !.readers = @ \cup {r}] = k
    <3>1. CASE m.running
      BY <1>1, <3>1 DEF start, Metered, Meter
    <3>2. CASE ~m.running
      <4>1. m.frames + 1 = 1
        BY <1>1, <3>2
      <4>2. start(m) = [m EXCEPT !.running = TRUE, !.frames = 1]
        BY <3>2, <4>1 DEF start
      <4> QED
        BY <1>1, <3>2, <4>2 DEF Metered, Meter
    <3> QED
      BY <1>1, <3>1, <3>2
  <2>2. n \in Nat /\ n <= 1 /\ (~hid => n = 1) /\ (m.timed => n = 1)
    BY <1>1
  <2> HIDE DEF n
  <2>3. ReadsAs(k, m.readers \cup {r}, TRUE, n, m.timed)
    <3>1. m.readers \cup {r} \in SUBSET Readers
      BY <1>1
    <3> QED
      BY <1>1, <2>2, <3>1, MeterUpdates, Zenon
  <2> HIDE DEF k
  <2>4. MeterOK(k, hid)
    BY <1>1, <2>2, <2>3 DEF MeterOK, ReadsAs
  <2> QED
    BY <2>1, <2>4
<1>3. ASSUME NEW left, left = [m EXCEPT !.readers = @ \ {r}]
      PROVE  MeterOK(IF left.readers = {} THEN stop(left) ELSE left, hid)
  <2> DEFINE rs == m.readers \ {r}
             k == Metered(m, rs, FALSE, 0, FALSE)
  <2>1. left \in Meter /\ left.readers = rs /\ left.running = m.running
        /\ left.frames = m.frames /\ left.timed = m.timed
    BY <1>1, <1>3 DEF Meter
  <2>2. CASE rs # {}
    BY <1>1, <2>1, <2>2 DEF MeterOK
  <2>3. CASE rs = {}
    <3>1. cancelled(left.frames) = 0
      BY <1>1, <2>1 DEF cancelled
    <3>2. stop(left) = k
      BY <1>3, <2>1, <3>1 DEF stop, Metered, Meter
    <3>3. ReadsAs(k, rs, FALSE, 0, FALSE)
      <4>1. 0 \in Nat /\ rs \in SUBSET Readers
        BY <1>1
      <4> QED
        BY <4>1, MeterUpdates, Zenon
    <3> HIDE DEF k
    <3>4. MeterOK(k, hid)
      BY <2>3, <3>3 DEF MeterOK, ReadsAs
    <3> QED
      BY <2>1, <2>3, <3>2, <3>4
  <2> QED
    BY <2>1, <2>2, <2>3
<1>4. ASSUME m.frames > 0, ~hid PROVE MeterOK([m EXCEPT !.timed = TRUE], hid)
  <2> DEFINE k == Metered(m, m.readers, m.running, m.frames, TRUE)
  <2>1. [m EXCEPT !.timed = TRUE] = k
    BY <1>1 DEF Metered, Meter
  <2>2. ReadsAs(k, m.readers, m.running, m.frames, TRUE)
    BY <1>1, MeterUpdates, Zenon
  <2> HIDE DEF k
  <2>3. MeterOK(k, hid)
    BY <1>1, <1>4, <2>2 DEF MeterOK, ReadsAs
  <2> QED
    BY <2>1, <2>3
<1> QED
  BY <1>2, <1>3, <1>4

----------------------------------------------------------------------------
\* A change of the counter alone.
LEMMA CountKeeps ==
  ASSUME DeviceInv, meter' \in Meter, MeterOK(meter', hidden),
         UNCHANGED <<where, watch, hidden, ring>>
  PROVE  DeviceInv'
<1>1. DeviceTypeOK'
  BY DEF DeviceInv, DeviceTypeOK, where, watch, ring, Meter
<1>2. RunsWhileRead' /\ OneLoopWhileRead'
  <2>1. hidden' = hidden
    OBVIOUS
  <2> QED
    BY <2>1 DEF MeterOK, RunsWhileRead, OneLoopWhileRead, Meter
<1> QED
  BY <1>1, <1>2 DEF DeviceInv, where, watch, ring, PendingIsAsked, HeardIsRunning, Now,
     HistoryIsTimeInView

LEMMA CountingKeeps ==
  ASSUME DeviceInv, Counting PROVE DeviceInv'
<1>1. /\ meter \in Meter /\ hidden \in BOOLEAN /\ MeterOK(meter, hidden)
      /\ meter.frames \in Nat
  BY MeterIs DEF DeviceInv, DeviceTypeOK, Meter
<1>2. PICK r \in Readers : ReaderMounts(r) \/ ReaderLeaves(r) \/ loop
  BY DEF Counting
<1>3. MeterOK(meter', hidden) /\ UNCHANGED <<where, watch, hidden, ring>>
  <2>1. CASE ReaderMounts(r)
    <3>1. meter' = [start(meter) EXCEPT !.readers = @ \cup {r}]
          /\ UNCHANGED <<where, watch, hidden, ring>>
      BY <2>1 DEF ReaderMounts
    <3>2. MeterOK([start(meter) EXCEPT !.readers = @ \cup {r}], hidden)
      BY <1>1, MeterSteps
    <3> QED
      BY <3>1, <3>2
  <2>2. CASE ReaderLeaves(r)
    <3> DEFINE left == [meter EXCEPT !.readers = @ \ {r}]
    <3>1. meter' = (IF left.readers = {} THEN stop(left) ELSE left)
          /\ UNCHANGED <<where, watch, hidden, ring>>
      BY <2>2 DEF ReaderLeaves
    <3>2. MeterOK(IF left.readers = {} THEN stop(left) ELSE left, hidden)
      BY <1>1, MeterSteps
    <3> QED
      BY <3>1, <3>2
  <2>3. CASE loop
    <3>1. /\ meter.frames > 0 /\ ~hidden /\ meter' = [meter EXCEPT !.timed = TRUE]
          /\ UNCHANGED <<where, watch, hidden, ring>>
      BY <2>3 DEF loop
    <3>2. MeterOK([meter EXCEPT !.timed = TRUE], hidden)
      BY <1>1, <3>1, MeterSteps
    <3> QED
      BY <3>1, <3>2
  <2> QED
    BY <1>2, <2>1, <2>2, <2>3
<1>4. meter' \in Meter
  BY <1>3 DEF MeterOK
<1> QED
  BY <1>3, <1>4, CountKeeps

\* Hiding and showing reaches the counter, the listeners and the position.
LEMMA VisibilityKeeps ==
  ASSUME DeviceInv, Visibility PROVE DeviceInv'
<1>1. /\ DeviceTypeOK /\ PendingIsAsked /\ meter \in Meter /\ hidden \in BOOLEAN
      /\ MeterOK(meter, hidden)
  BY MeterIs DEF DeviceInv, DeviceTypeOK, Meter
<1>2. /\ hidden' = ~hidden /\ meter' = onVisibility(meter, ~hidden)
      /\ UNCHANGED <<monitor, heard, device, clock, history, seen>>
  BY DEF Visibility, ring
<1>3. MeterOK(meter', hidden')
  <2>1. MeterOK(onVisibility(meter, ~hidden), ~hidden)
    BY <1>1, MeterSees
  <2> QED
    BY <1>2, <2>1
<1>4. /\ sharing' \in Status /\ aged' \in BOOLEAN /\ wanted' \in BOOLEAN
      /\ asks' \subseteq Ask /\ IsFiniteSet(asks') /\ PendingIsAsked'
  <2>1. CASE UNCHANGED where
    BY <1>1, <2>1 DEF where, DeviceTypeOK, PendingIsAsked
  <2>2. CASE sharing = "on" /\ acquire(TRUE) /\ UNCHANGED wanted
    <3>1. asks' \subseteq Ask /\ IsFiniteSet(asks') /\ sharing' = "on"
      <4>1. CASE Geolocation
        BY <1>1, <2>2, <4>1, AcquireAsks
      <4>2. CASE ~Geolocation
        BY <1>1, <2>2, <4>2 DEF acquire, DeviceTypeOK
      <4> QED
        BY <4>1, <4>2
    <3>2. aged' = aged /\ wanted' = wanted
      BY <2>2 DEF acquire
    <3>3. PendingIsAsked'
      BY <1>1, <2>2, <3>1, <3>2 DEF PendingIsAsked
    <3> QED
      BY <1>1, <3>1, <3>2, <3>3 DEF DeviceTypeOK, Status
  <2> QED
    BY <2>1, <2>2 DEF Visibility, refreshIfStale
<1>5. hidden' \in BOOLEAN /\ meter' \in Meter
  BY <1>2, <1>3 DEF MeterOK
<1>6. DeviceTypeOK'
  BY <1>1, <1>2, <1>4, <1>5 DEF DeviceTypeOK, Meter
<1>7. RunsWhileRead' /\ OneLoopWhileRead'
  BY <1>3, <1>5 DEF MeterOK, RunsWhileRead, OneLoopWhileRead, Meter
<1>8. HeardIsRunning'
  BY HeardKeeps DEF Monitoring
<1>9. HistoryIsTimeInView'
  BY <1>2 DEF DeviceInv, HistoryIsTimeInView
<1> QED
  BY <1>4, <1>6, <1>7, <1>8, <1>9 DEF DeviceInv

\* Starting, stopping and what settles between.
LEMMA MonitorKeeps ==
  ASSUME DeviceInv, Monitoring, UNCHANGED <<where, hidden, meter, ring>>,
         monitor' \in [starts : Nat, live : BOOLEAN]
  PROVE  DeviceInv'
<1>1. HeardIsRunning'
  BY HeardKeeps
<1>2. DeviceTypeOK'
  BY DEF DeviceInv, DeviceTypeOK, where, ring
<1> QED
  BY <1>1, <1>2 DEF DeviceInv, where, ring, PendingIsAsked, RunsWhileRead,
     OneLoopWhileRead, HistoryIsTimeInView

LEMMA DeviceStepInv == DeviceInv /\ [Next]_vars => DeviceInv'
<1> SUFFICES ASSUME DeviceInv, [Next]_vars PROVE DeviceInv'
  OBVIOUS
<1>1. monitor \in [starts : Nat, live : BOOLEAN]
  BY DEF DeviceInv, DeviceTypeOK
<1>2. CASE UNCHANGED vars
  BY <1>2 DEF vars, where, watch, ring, DeviceInv, DeviceTypeOK, PendingIsAsked,
     HeardIsRunning, Now, RunsWhileRead, OneLoopWhileRead, HistoryIsTimeInView
<1>3. CASE Sharing
  BY <1>3, SharingKeeps
<1>4. CASE Counting
  BY <1>4, CountingKeeps
<1>5. CASE Monitoring
  <2>1. CASE startDeviceMonitor \/ stopActive
    <3>1. monitor' \in [starts : Nat, live : BOOLEAN]
      <4>1. CASE startDeviceMonitor
        BY <1>1, <4>1 DEF startDeviceMonitor, Now
      <4>2. CASE stopActive
        BY <1>1, <4>2 DEF stopActive
      <4> QED
        BY <2>1, <4>1, <4>2
    <3>2. UNCHANGED <<where, hidden, meter, ring>>
      BY <2>1 DEF startDeviceMonitor, stopActive
    <3> QED
      BY <1>5, <3>1, <3>2, MonitorKeeps
  <2>2. CASE StoragePoll \/ \E job \in jobs : Settled(job) \/ Rejected(job)
    <3>1. monitor' = monitor /\ UNCHANGED <<where, hidden, meter, ring>>
      BY <2>2 DEF StoragePoll, Settled, Rejected
    <3> QED
      BY <1>1, <1>5, <3>1, MonitorKeeps
  <2>3. CASE Tick
    BY <2>3, TickKeeps
  <2>4. CASE Visibility
    BY <2>4, VisibilityKeeps
  <2> QED
    BY <1>5, <2>1, <2>2, <2>3, <2>4 DEF Monitoring
<1> QED
  BY <1>2, <1>3, <1>4, <1>5 DEF Next

LEMMA DeviceInvHolds == Spec => []DeviceInv
  BY DeviceInitInv, DeviceStepInv, PTL DEF Spec
----------------------------------------------------------------------------
(* The theorems.                                                            *)

\* Whoever sees "pending" waits for an answer that can still come, and a map
\* that waits to fly has not missed a fix (geolocation.ts acquire,
\* MapLayer.tsx locate).
THEOREM PendingIsAskedHolds == Spec => []PendingIsAsked
<1>1. DeviceInv => PendingIsAsked
  BY DEF DeviceInv
<1> QED
  BY <1>1, DeviceInvHolds, PTL

\* The history is the newest intervals that ended in view of a running
\* monitor, once each and in order (deviceMonitor.ts sampler, pushSample).
THEOREM HistoryIsTimeInViewHolds == Spec => []HistoryIsTimeInView
<1>1. DeviceInv => HistoryIsTimeInView
  BY DEF DeviceInv
<1> QED
  BY <1>1, DeviceInvHolds, PTL

\* One frame loop while anyone reads in view, none after the last reader
\* (telemetry.ts start, stop, onVisibility, useTelemetry).
THEOREM OneLoopWhileReadHolds == Spec => []OneLoopWhileRead
<1>1. DeviceInv => OneLoopWhileRead
  BY DEF DeviceInv
<1> QED
  BY <1>1, DeviceInvHolds, PTL

\* Location turned off stays off until a new request is made
\* (geolocation.ts acquire).
THEOREM NeverSwitchedBackOnHolds == Spec => NeverSwitchedBackOn
<1> DEFINE More == sharing = "off" /\ sharing' # "off"
                     => \/ Cardinality(asks') > Cardinality(asks)
                        \/ ~Geolocation /\ sharing' = "unavailable"
<1>1. DeviceInv /\ [Next]_vars => [More]_vars
  <2> SUFFICES ASSUME DeviceInv, Next, sharing = "off", sharing' # "off"
               PROVE  \/ Cardinality(asks') > Cardinality(asks)
                      \/ ~Geolocation /\ sharing' = "unavailable"
    OBVIOUS
  <2>1. acquire(FALSE) \/ acquire(TRUE)
    BY DEF Next, Sharing, Monitoring, Counting, ShareLocation, LocButton, stopSharing,
       locate, MapCloses, FixAges, Fixed, FixFailed, startDeviceMonitor, stopActive,
       StoragePoll, Tick, Visibility, refreshIfStale, Settled, Rejected, ReaderMounts,
       ReaderLeaves, loop, where
  <2>2. CASE Geolocation
    BY <2>1, <2>2, AcquireAsks DEF DeviceInv
  <2>3. CASE ~Geolocation
    BY <2>1, <2>3 DEF acquire
  <2> QED
    BY <2>2, <2>3
<1> QED
  BY <1>1, DeviceInvHolds, PTL DEF Spec, NeverSwitchedBackOn

\* What listens or writes belongs to the running monitor, and between a stop
\* and the next start the readings stand still (deviceMonitor.ts alive).
THEOREM StoppedMeansStoppedHolds == Spec => StoppedMeansStopped
<1> DEFINE Heard == \A h \in heard : monitor.live /\ h[1] = Now
           Still == ~monitor.live /\ ~monitor'.live => device' = device
<1>1. DeviceInv => Heard
  BY DEF DeviceInv, HeardIsRunning
<1>2. DeviceInv /\ [Next]_vars => [Still]_vars
  <2> SUFFICES ASSUME DeviceInv, Next, ~monitor.live PROVE device' = device
    OBVIOUS
  <2> QED
    BY DEF Next, Sharing, Monitoring, Counting, ShareLocation, LocButton, stopSharing,
       locate, MapCloses, FixAges, Fixed, FixFailed, startDeviceMonitor, stopActive,
       StoragePoll, Tick, Visibility, Settled, alive, Rejected, ReaderMounts,
       ReaderLeaves, loop, watch
<1> QED
  BY <1>1, <1>2, DeviceInvHolds, PTL DEF Spec, StoppedMeansStopped
=============================================================================

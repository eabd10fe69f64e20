---------------------------- MODULE TelemetryProofs ----------------------------
(***************************************************************************)
(* Proofs about Telemetry, for any number of readings within +-2 g and any *)
(* behaviour of the link.                                                  *)
(***************************************************************************)
EXTENDS Telemetry, BleLinkProofs, TLAPS

-----------------------------------------------------------------------------
(* The link.                                                               *)

(***************************************************************************)
(* The polling thread and the client change nothing of ble.c and main.c:   *)
(* every step of the whole is a step of the link or leaves it alone.       *)
(***************************************************************************)
LEMMA LinkStepSimulated == [TeleNext]_allVars => [Next]_vars
<1> SUFFICES ASSUME [TeleNext]_allVars PROVE [Next]_vars
  OBVIOUS
<1>1. CASE LinkStep
  BY <1>1 DEF LinkStep, Next
<1>2. CASE ClientComes
  BY <1>2 DEF ClientComes, Next
<1>3. CASE ClientLeaves
  BY <1>3 DEF ClientLeaves, Next
<1>4. CASE TeleStep
  BY <1>4 DEF TeleStep
<1>5. CASE UNCHANGED allVars
  BY <1>5 DEF allVars
<1> QED
  BY <1>1, <1>2, <1>3, <1>4, <1>5 DEF TeleNext

(***************************************************************************)
(* The composition implements the specification of the link alone.         *)
(***************************************************************************)
THEOREM LinkImplemented == TeleSpec => Spec
<1>1. TeleInit => Init
  BY DEF TeleInit
<1> QED
  BY <1>1, LinkStepSimulated, PTL DEF TeleSpec, Spec

(***************************************************************************)
(* So an awake badge is not left invisible, whatever its client reads.     *)
(***************************************************************************)
THEOREM TeleNoLostAdvertising == TeleSpec => []NoLostAdvertising
  BY LinkImplemented, NoLostAdvertisingSafe, PTL

-----------------------------------------------------------------------------
(* The conversions.                                                        *)

(***************************************************************************)
(* The 2 g of accel_init() are a number.                                   *)
(***************************************************************************)
LEMMA FullScaleType == FullScale \in Int
  BY SMT DEF FullScale

(***************************************************************************)
(* So is how often the sensor is read.                                     *)
(***************************************************************************)
LEMMA LenType == Len(Readings) \in Nat
  BY TelemetryAssumption

(***************************************************************************)
(* The range of int16_t.                                                   *)
(***************************************************************************)
LEMMA InInt16 ==
  ASSUME NEW i \in Int, -32768 <= i, i <= 32767 PROVE i \in Int16
<1>1. PICK a \in Int, b \in Int : a = -32768 /\ b = 32767
  BY SMT
<1>2. Int16 = a..b
  BY <1>1 DEF Int16
<1>3. a <= i /\ i <= b
  BY <1>1, SMT
<1> QED
  BY <1>2, <1>3, SMT

(***************************************************************************)
(* What the division by 9807 leaves, over the +-2 g range.                 *)
(***************************************************************************)
LEMMA DivBy9807 ==
  ASSUME NEW a \in Int, a >= 0, a <= FullScale
  PROVE  /\ a \div 9807 \in 0..1999
         /\ 9807 * (a \div 9807) <= a
         /\ a < 9807 * (a \div 9807) + 9807
  BY SMTT(30) DEF FullScale

(***************************************************************************)
(* um / 9807, cut to int16_t, is the acceleration in milli-g (accel.c:117) *)
(***************************************************************************)
LEMMA MgIsMg ==
  ASSUME NEW um \in -FullScale..FullScale
  PROVE  Mg(um) \in Int16 /\ IsMg(Mg(um), um)
<1> DEFINE q == Quotient(um, 9807)
<1>1. um \in Int /\ -FullScale <= um /\ um <= FullScale
  BY FullScaleType, SMT
<1>2. CASE um >= 0
  <2>1. q = um \div 9807
    BY <1>2, SMT DEF Quotient
  <2> HIDE DEF q
  <2>2. q \in 0..1999 /\ 9807 * q <= um /\ um < 9807 * q + 9807
    BY DivBy9807, <1>1, <1>2, <2>1, SMT
  <2>3. ToInt16(q) = q
    BY <2>2, SMTT(30) DEF ToInt16
  <2>4. Mg(um) = q
    BY <2>3, SMT DEF Mg, q
  <2>5. q \in Int16
    BY <2>2, InInt16, SMT
  <2>6. IsMg(q, um)
    BY <1>1, <2>2, SMTT(30) DEF IsMg
  <2> QED
    BY <2>4, <2>5, <2>6
<1>3. CASE um < 0
  <2>1. PICK a \in Int :
          a = -um /\ a >= 0 /\ a <= FullScale /\ q = -(a \div 9807)
    BY <1>1, <1>3, FullScaleType, SMT DEF Quotient
  <2> DEFINE p == a \div 9807
  <2>2. p \in 0..1999 /\ 9807 * p <= -um /\ -um < 9807 * p + 9807
    BY DivBy9807, <2>1, SMT
  <2> HIDE DEF p, q
  <2>3. q = -p
    BY <2>1 DEF p
  <2>4. ToInt16(q) = q
    BY <2>2, <2>3, SMTT(30) DEF ToInt16
  <2>5. Mg(um) = q
    BY <2>4, SMT DEF Mg, q
  <2>6. q \in Int16
    BY <2>2, <2>3, InInt16, SMT
  <2>7. IsMg(q, um)
    BY <1>1, <2>2, <2>3, SMTT(30) DEF IsMg
  <2> QED
    BY <2>5, <2>6, <2>7
<1> QED
  BY <1>2, <1>3, SMT

(***************************************************************************)
(* clamp_i16() (accel.c:126).                                              *)
(***************************************************************************)
LEMMA ClampType == ASSUME NEW i \in Int PROVE Clamp(i) \in Int16
<1>1. /\ Clamp(i) \in Int
      /\ -32768 <= Clamp(i)
      /\ Clamp(i) <= 32767
  BY SMT DEF Clamp
<1> QED
  BY <1>1, InInt16

(***************************************************************************)
(* A sample has the ranges of struct accel_telemetry (accel.h:30), and its *)
(* axes are those of the reading.                                          *)
(***************************************************************************)
LEMMA SampleType ==
  ASSUME NEW k \in 1..Len(Readings)
  PROVE  /\ Sample(Readings[k]).mg \in [1..3 -> Int16]
         /\ Sample(Readings[k]).temp_c01 \in Int16
         /\ \A i \in 1..3 : IsMg(Sample(Readings[k]).mg[i], Readings[k].um[i])
<1> DEFINE r == Readings[k]
<1>1. r.um \in [1..3 -> -FullScale..FullScale]
  BY TelemetryAssumption
<1>2. \A d \in r.die : d.val1 \in Int /\ d.val2 \in Int
  BY TelemetryAssumption
<1>3. ASSUME NEW i \in 1..3
      PROVE  Mg(r.um[i]) \in Int16 /\ IsMg(Mg(r.um[i]), r.um[i])
  <2>1. PICK um \in -FullScale..FullScale : um = r.um[i]
    BY <1>1
  <2>2. Mg(um) \in Int16 /\ IsMg(Mg(um), um)
    BY MgIsMg
  <2> QED
    BY <2>1, <2>2
<1>4. ASSUME NEW d \in r.die PROVE C01(d) \in Int16
  <2>1. Quotient(d.val2, 10000) \in Int
    BY <1>2, SMT DEF Quotient
  <2>2. d.val1 * 100 + Quotient(d.val2, 10000) \in Int
    BY <1>2, <2>1, SMT
  <2> QED
    BY <2>2, ClampType DEF C01
<1> HIDE DEF r
<1>5. Sample(r).temp_c01 = IF r.die = {} THEN 0
                           ELSE C01(CHOOSE d \in r.die : TRUE)
  BY DEF Sample
<1>6. Sample(r).temp_c01 \in Int16
  <2>1. CASE r.die = {}
    BY <2>1, <1>5, InInt16, SMT
  <2>2. CASE r.die # {}
    <3>1. (CHOOSE d \in r.die : TRUE) \in r.die
      BY <2>2
    <3> QED
      BY <2>2, <3>1, <1>4, <1>5
  <2> QED
    BY <2>1, <2>2
<1>7. Sample(r).mg = [i \in 1..3 |-> Mg(r.um[i])]
  BY DEF Sample
<1>8. Sample(r).mg \in [1..3 -> Int16]
  BY <1>3, <1>7
<1>9. \A i \in 1..3 : IsMg(Sample(r).mg[i], r.um[i])
  BY <1>3, <1>7
<1> QED
  BY <1>6, <1>8, <1>9 DEF r

-----------------------------------------------------------------------------
(* The cache and the client.                                               *)

OneSample(mg) ==
  \/ mg = NoSample.mg
  \/ \E k \in 1..taken : mg = Sample(Readings[k]).mg

Publishing == {"accel", "x", "y", "z", "notify_accel", "temp"}

\* While a sample is published t holds it.
FetchedInv ==
  poll \in Publishing => taken >= 1 /\ t = Sample(Readings[taken])

\* The cache mixes two samples only under cfg_lock, and then the axes
\* already stored are those of t.
CacheInv ==
  /\ poll \notin {"y", "z"} => OneSample(last_accel_mg)
  /\ poll \in {"y", "z"} => last_accel_mg[1] = t.mg[1]
  /\ poll = "z" => last_accel_mg[2] = t.mg[2]

\* What is notified is what is cached.
SeenInv ==
  /\ seen <= stored
  /\ poll = "notify_accel" => stored = taken

\* TeleTypeOK without the link.
SampleTypeOK ==
  /\ poll \in {"sleep"} \cup Publishing
  /\ taken \in 0..Len(Readings)
  /\ last_accel_mg \in [1..3 -> Int16]
  /\ t.mg \in [1..3 -> Int16]
  /\ last_temp_c01 \in Int16
  /\ t.temp_c01 \in Int16
  /\ cfg_lock <=> poll \in {"x", "y", "z"}
  /\ rx \in {"idle", "accel", "temp"}
  /\ subscribed \in BOOLEAN
  /\ stored \in 0..taken
  /\ seen \in 0..taken

TeleInv == SampleTypeOK /\ FetchedInv /\ CacheInv /\ SeenInv

(***************************************************************************)
(* Nothing is taken, stored or seen.                                       *)
(***************************************************************************)
LEMMA TeleInitInv == TeleInit => TeleInv
<1> SUFFICES ASSUME TeleInit PROVE TeleInv
  OBVIOUS
<1>1. NoSample.mg \in [1..3 -> Int16] /\ NoSample.temp_c01 \in Int16
  <2>1. 0 \in Int16
    BY InInt16, SMT
  <2> QED
    BY <2>1, SMT DEF NoSample
<1>2. SampleTypeOK
  <2>1. /\ taken \in 0..Len(Readings)
        /\ stored \in 0..taken
        /\ seen \in 0..taken
    BY LenType, SMT DEF TeleInit
  <2> QED
    BY <1>1, <2>1, Zenon DEF TeleInit, SampleTypeOK
<1>3. FetchedInv /\ CacheInv /\ SeenInv
  BY SMT DEF TeleInit, FetchedInv, CacheInv, SeenInv, OneSample, Publishing
<1> QED
  BY <1>2, <1>3 DEF TeleInv

(***************************************************************************)
(* accel_fetch_telemetry(): t becomes the next reading; the cache is that  *)
(* of an earlier one.                                                      *)
(***************************************************************************)
LEMMA FetchInv ==
  ASSUME TeleInv, FetchTelemetry \/ FetchTelemetryError PROVE TeleInv'
<1> USE DEF TeleInv, SampleTypeOK, FetchedInv, CacheInv, SeenInv, Publishing,
            cacheVars, clientVars
<1>1. /\ poll = "sleep" /\ taken < Len(Readings) /\ taken' = taken + 1
      /\ UNCHANGED <<cacheVars, clientVars>>
  BY DEF FetchTelemetry, FetchTelemetryError, PollGoto
<1>2. taken \in Nat /\ Len(Readings) \in Nat /\ taken' \in 1..Len(Readings)
  BY <1>1, LenType, SMT
<1>3. OneSample(last_accel_mg)'
  BY <1>1, <1>2, SMT DEF OneSample
<1>4. stored' \in 0..taken' /\ seen' \in 0..taken' /\ seen' <= stored'
  BY <1>1, <1>2, SMT
<1>5. CASE FetchTelemetry
  <2>1. poll' = "accel" /\ t' = Sample(Readings[taken'])
    BY <1>5 DEF FetchTelemetry, PollGoto
  <2>2. t'.mg \in [1..3 -> Int16] /\ t'.temp_c01 \in Int16
    BY <1>2, <2>1, SampleType
  <2>3. SampleTypeOK'
    BY <1>1, <1>2, <1>4, <2>1, <2>2, SMT
  <2> QED
    BY <1>1, <1>2, <1>3, <1>4, <2>1, <2>3, SMT
<1>6. CASE FetchTelemetryError
  <2>1. UNCHANGED <<poll, t>>
    BY <1>6 DEF FetchTelemetryError
  <2> QED
    BY <1>1, <1>2, <1>3, <1>4, <2>1, SMT
<1> QED
  BY <1>5, <1>6

(***************************************************************************)
(* gatt_badge_publish_accel() takes the lock, stores the axes, releases    *)
(* it with the third.                                                      *)
(***************************************************************************)
LEMMA StoreInv ==
  ASSUME TeleInv, NEW i \in 1..3, StoreAxis(i) PROVE TeleInv'
<1> USE DEF TeleInv, SampleTypeOK, FetchedInv, CacheInv, SeenInv, Publishing,
            cacheVars, clientVars
<1>1. /\ poll = Axes[i] /\ poll' = Axes[i + 1]
      /\ last_accel_mg' = [last_accel_mg EXCEPT ![i] = t.mg[i]]
      /\ cfg_lock' = (i # 3)
      /\ stored' = IF i = 3 THEN taken ELSE stored
      /\ UNCHANGED <<taken, t, last_temp_c01, clientVars>>
  BY DEF StoreAxis, PollGoto
<1>2. taken \in Nat /\ stored' \in 0..taken /\ seen' \in 0..taken
      /\ seen' <= stored'
  BY <1>1, LenType, SMT
<1>3. last_accel_mg' \in [1..3 -> Int16]
  BY <1>1, SMT
<1>4. Axes[1] = "x" /\ Axes[2] = "y" /\ Axes[3] = "z" /\ Axes[4] = "notify_accel"
  BY SMT DEF Axes
<1>5. CASE i = 1
  <2>1. poll = "x" /\ poll' = "y" /\ cfg_lock'
    <3>1. poll' = Axes[2]
      BY <1>1, <1>5, SMT
    <3> QED
      BY <1>1, <1>5, <1>4, <3>1
  <2>2. last_accel_mg'[1] = t'.mg[1]
    BY <1>1, <1>5, SMT
  <2> QED
    BY <1>1, <1>2, <1>3, <1>5, <2>1, <2>2, SMT
<1>6. CASE i = 2
  <2>1. poll = "y" /\ poll' = "z" /\ cfg_lock'
    <3>1. poll' = Axes[3]
      BY <1>1, <1>6, SMT
    <3> QED
      BY <1>1, <1>6, <1>4, <3>1
  <2>2. last_accel_mg'[1] = t'.mg[1] /\ last_accel_mg'[2] = t'.mg[2]
    BY <1>1, <1>6, <2>1, SMT
  <2> QED
    BY <1>1, <1>2, <1>3, <1>6, <2>1, <2>2, SMT
<1>7. CASE i = 3
  <2>1. poll = "z" /\ poll' = "notify_accel" /\ ~cfg_lock'
    <3>1. poll' = Axes[4]
      BY <1>1, <1>7, SMT
    <3> QED
      BY <1>1, <1>7, <1>4, <3>1
  <2>2. \A j \in 1..3 : last_accel_mg'[j] = t.mg[j]
    BY <1>1, <1>7, <2>1, SMT
  <2>3. last_accel_mg' = t.mg
    BY <1>3, <2>2, SMT
  <2>4. taken \in 1..taken
    BY <1>2, <2>1, SMT
  <2>5. t = Sample(Readings[taken]) /\ taken' = taken
    BY <1>1, <2>1
  <2>6. taken' \in 1..taken' /\ last_accel_mg' = Sample(Readings[taken']).mg
    BY <2>3, <2>4, <2>5
  <2>7. OneSample(last_accel_mg)'
    BY <2>6 DEF OneSample
  <2> QED
    BY <1>1, <1>2, <1>3, <1>7, <2>1, <2>7, SMT
<1> QED
  BY <1>5, <1>6, <1>7, SMT

(***************************************************************************)
(* The polling thread.                                                     *)
(***************************************************************************)
LEMMA PollInv == ASSUME TeleInv, PollStep PROVE TeleInv'
<1> USE DEF TeleInv, SampleTypeOK, FetchedInv, CacheInv, SeenInv, Publishing,
            cacheVars, clientVars, OneSample, PollGoto
<1>1. CASE PublishAccel
  BY <1>1, SMT DEF PublishAccel
<1>2. CASE NotifyAccel
  <2>1. taken \in Nat /\ seen' \in {seen, taken} /\ stored = taken
    BY <1>2, LenType, SMT DEF NotifyAccel, Notified
  <2> QED
    BY <1>2, <2>1, SMT DEF NotifyAccel
<1>3. CASE NotifyError
  BY <1>3, SMT DEF NotifyError
<1>4. CASE PublishTemp
  BY <1>4, SMT DEF PublishTemp
<1> QED
  BY <1>1, <1>2, <1>3, <1>4, FetchInv, StoreInv DEF PollStep

(***************************************************************************)
(* BT RX and the client: a client that leaves has seen nothing.            *)
(***************************************************************************)
LEMMA ClientInv ==
  ASSUME TeleInv, CccChanged \/ ReadRequest \/ Read \/ ClientLeaves
  PROVE  TeleInv'
<1> USE DEF TeleInv, SampleTypeOK, FetchedInv, CacheInv, SeenInv, Publishing,
            cacheVars, clientVars, OneSample
<1>1. taken \in Nat /\ stored \in Nat /\ stored <= taken /\ seen \in Nat
  BY LenType, SMT
<1>2. CASE CccChanged
  BY <1>2, SMT DEF CccChanged
<1>3. CASE ReadRequest
  BY <1>3, SMT DEF ReadRequest
<1>4. CASE ReadAccel
  BY <1>1, <1>4, SMT DEF ReadAccel, Answered
<1>5. CASE ReadTemp
  BY <1>5, SMT DEF ReadTemp
<1>6. CASE ClientLeaves
  <2>1. seen' = 0 /\ UNCHANGED <<poll, taken, t, cacheVars, rx>>
    BY <1>6 DEF ClientLeaves
  <2>2. subscribed' \in BOOLEAN
    BY <1>6, Zenon DEF ClientLeaves
  <2> QED
    BY <1>1, <2>1, <2>2, SMT
<1> QED
  BY <1>2, <1>3, <1>4, <1>5, <1>6 DEF Read

(***************************************************************************)
(* The cache holds one sample whenever cfg_lock is free, and the client    *)
(* has seen nothing the cache does not have yet.                           *)
(***************************************************************************)
THEOREM TeleInvariance == TeleSpec => []TeleInv
<1>1. TeleInv /\ [TeleNext]_allVars => TeleInv'
  <2> SUFFICES ASSUME TeleInv, [TeleNext]_allVars PROVE TeleInv'
    OBVIOUS
  <2>1. CASE UNCHANGED teleVars
    BY <2>1, SMT
    DEF teleVars, cacheVars, clientVars, TeleInv, SampleTypeOK, FetchedInv,
        CacheInv, SeenInv, OneSample
  <2>2. CASE ClientLeaves
    BY <2>2, ClientInv
  <2>3. CASE TeleStep
    BY <2>3, ClientInv, PollInv DEF TeleStep
  <2> QED
    BY <2>1, <2>2, <2>3 DEF TeleNext, LinkStep, ClientComes, allVars
<1> QED
  BY <1>1, TeleInitInv, PTL DEF TeleSpec

(***************************************************************************)
(* Type correctness.                                                       *)
(***************************************************************************)
THEOREM TeleTypeCorrect == TeleSpec => []TeleTypeOK
<1>1. TeleInv /\ TypeOK => TeleTypeOK
  BY DEF TeleInv, SampleTypeOK, TeleTypeOK, Publishing
<1> QED
  BY <1>1, TeleInvariance, LinkImplemented, TypeCorrect, PTL

(***************************************************************************)
(* A read that returns, returns one sample: it takes cfg_lock, and the     *)
(* cache is whole while the lock is free.                                  *)
(***************************************************************************)
THEOREM ReadIsOneSampleSafe == TeleSpec => ReadIsOneSample
<1>1. ASSUME TeleInv, ~cfg_lock PROVE IsSample(last_accel_mg)
  <2>1. OneSample(last_accel_mg)
    BY <1>1, SMT DEF TeleInv, SampleTypeOK, CacheInv
  <2>2. CASE last_accel_mg = NoSample.mg
    BY <2>2 DEF IsSample
  <2>3. CASE \E k \in 1..taken : last_accel_mg = Sample(Readings[k]).mg
    <3>1. PICK k \in 1..taken : last_accel_mg = Sample(Readings[k]).mg
      BY <2>3
    <3>2. k \in 1..Len(Readings)
      BY <1>1, LenType, SMT DEF TeleInv, SampleTypeOK
    <3>3. \A i \in 1..3 : IsMg(last_accel_mg[i], Readings[k].um[i])
      BY <3>1, <3>2, SampleType
    <3> QED
      BY <3>3 DEF IsSample
  <2> QED
    BY <2>1, <2>2, <2>3 DEF OneSample
<1>2. ASSUME TeleInv, [TeleNext]_allVars, rx = "accel", rx' = "idle"
      PROVE  ~cfg_lock
  <2>1. CASE ReadAccel
    BY <2>1 DEF ReadAccel
  <2>2. CASE ReadTemp \/ ReadRequest
    BY <1>2, <2>2, SMT DEF ReadTemp, ReadRequest
  <2>3. CASE UNCHANGED rx
    BY <1>2, <2>3, SMT
  <2>4. CASE PollStep
    BY <2>3, <2>4
    DEF PollStep, FetchTelemetry, FetchTelemetryError, PublishAccel, StoreAxis,
        NotifyAccel, NotifyError, PublishTemp, clientVars
  <2> QED
    BY <1>2, <2>1, <2>2, <2>3, <2>4
    DEF TeleNext, LinkStep, ClientComes, ClientLeaves, TeleStep, Read,
        CccChanged, allVars, teleVars, clientVars
<1>3. TeleInv /\ [TeleNext]_allVars
        => [rx = "accel" /\ rx' = "idle" => IsSample(last_accel_mg)]_allVars
  BY <1>1, <1>2
<1> QED
  BY <1>3, TeleInvariance, PTL DEF TeleSpec, ReadIsOneSample

(***************************************************************************)
(* The client is never given an older sample after a newer one: it has     *)
(* seen at most what is stored, which is what either way gives it.         *)
(***************************************************************************)
THEOREM NeverOlderSafe == TeleSpec => NeverOlder
<1>1. ASSUME TeleInv, [TeleNext]_allVars, link' # "none" PROVE seen' >= seen
  <2>1. seen \in Nat /\ seen <= stored /\ seen <= taken
    BY <1>1, LenType, SMT DEF TeleInv, SampleTypeOK, SeenInv
  <2>2. CASE UNCHANGED seen
    BY <2>1, <2>2, SMT
  <2>3. CASE NotifyAccel
    BY <2>1, <2>3, SMT DEF NotifyAccel, Notified
  <2>4. CASE ReadAccel
    BY <2>1, <2>4, SMT DEF ReadAccel, Answered
  <2>5. CASE ClientLeaves
    BY <1>1, <2>5 DEF ClientLeaves, Disconnected
  <2>6. CASE PollStep
    BY <2>2, <2>3, <2>6
    DEF PollStep, FetchTelemetry, FetchTelemetryError, PublishAccel, StoreAxis,
        NotifyError, PublishTemp, clientVars
  <2> QED
    BY <1>1, <2>2, <2>4, <2>5, <2>6
    DEF TeleNext, LinkStep, ClientComes, TeleStep, Read, ReadTemp, ReadRequest,
        CccChanged, allVars, teleVars, clientVars
<1>2. TeleInv /\ [TeleNext]_allVars
        => [link' # "none" => seen' >= seen]_allVars
  BY <1>1
<1> QED
  BY <1>2, TeleInvariance, PTL DEF TeleSpec, NeverOlder
=============================================================================

------------------------------- MODULE Telemetry -------------------------------
(***************************************************************************)
(* The samples of the accelerometer on their way to a client: the polling  *)
(* thread of accel.c takes one, converts it and publishes it through       *)
(* gatt_badge.c, BT RX reads the cached one for the client, and the link   *)
(* of BleLink comes and goes under both.                                   *)
(*                                                                         *)
(* The polling thread is preemptible, so BT RX may run between any two of  *)
(* its steps, and finds cfg_lock held.  BT RX is cooperative: what it does *)
(* between two waits is one step, and while it waits for cfg_lock no       *)
(* connected() or disconnected() runs.  The configuration takes cfg_lock   *)
(* too (BadgeCfg), for bounded times.                                      *)
(*                                                                         *)
(* Subscriptions are kept by the Bluetooth host, and survive the           *)
(* connection if the client is bonded.                                     *)
(***************************************************************************)
EXTENDS BleLink, Integers, Sequences

CONSTANT
  Readings            \* what the sensor measures, in the order it is asked:
                      \* [um |-> <<x, y, z>> in micro m/s^2,
                      \*  die |-> {[val1, val2]} in degrees and their 10^-6,
                      \*  or {} if sensor_channel_get(DIE_TEMP) fails]

\* accel_init() sets the range to +-2 g.
FullScale == 19613300

ASSUME TelemetryAssumption ==
  /\ DOMAIN Readings = 1..Len(Readings)
  /\ Len(Readings) \in Nat
  /\ \A k \in DOMAIN Readings :
    /\ Readings[k].um \in [1..3 -> -FullScale..FullScale]
    /\ \A d \in Readings[k].die : d.val1 \in Int /\ d.val2 \in Int

Int16 == -32768..32767

\* struct accel_telemetry, and the value the cache starts with.
NoSample == [mg |-> <<0, 0, 0>>, temp_c01 |-> 0]

VARIABLES
  poll,               \* the step of accel_poll_thread()
  taken,              \* readings asked for
  t,                  \* t of accel_poll_thread()
  cfg_lock,           \* the polling thread is in its critical section
  last_accel_mg,
  last_temp_c01,
  stored,             \* the sample the cache of BAD6E002 holds
  rx,                 \* what BT RX waits to read for the client
  subscribed,         \* the client's CCC, as the host keeps it
  seen                \* the last sample of BAD6E002 the client was given

cacheVars == <<cfg_lock, last_accel_mg, last_temp_c01, stored>>
clientVars == <<rx, subscribed, seen>>
teleVars == <<poll, taken, t, cacheVars, clientVars>>
allVars == <<vars, teleVars>>

TeleInit ==
  /\ Init
  /\ poll = "sleep"
  /\ taken = 0
  /\ t = NoSample
  /\ cfg_lock = FALSE
  /\ last_accel_mg = NoSample.mg
  /\ last_temp_c01 = NoSample.temp_c01
  /\ stored = 0
  /\ rx = "idle"
  /\ subscribed = FALSE
  /\ seen = 0

-----------------------------------------------------------------------------
(* accel_fetch_telemetry().                                                *)

\* Division in C drops the remainder.
Quotient(a, b) == IF a >= 0 THEN a \div b ELSE -((-a) \div b)

\* The cast to int16_t.
ToInt16(i) == ((i + 32768) % 65536) - 32768

Clamp(i) == IF i > 32767 THEN 32767 ELSE IF i < -32768 THEN -32768 ELSE i

Mg(um) == ToInt16(Quotient(um, 9807))

C01(die) == Clamp(die.val1 * 100 + Quotient(die.val2, 10000))

Sample(reading) ==
  [mg       |-> [i \in 1..3 |-> Mg(reading.um[i])],
   temp_c01 |-> IF reading.die = {} THEN 0
                ELSE C01(CHOOSE d \in reading.die : TRUE)]

PollGoto(from, to) ==
  /\ poll = from
  /\ poll' = to

\* -EBADMSG, a sample overrun, counts as success.  The sleep before it and
\* the pending ODR are in BadgeCfg.
FetchTelemetry ==
  /\ PollGoto("sleep", "accel")
  /\ taken < Len(Readings)
  /\ taken' = taken + 1
  /\ t' = Sample(Readings[taken'])
  /\ UNCHANGED <<cacheVars, clientVars>>

\* sensor_sample_fetch() or sensor_channel_get(XYZ) fails, for any
\* reading.
FetchTelemetryError ==
  /\ poll = "sleep"
  /\ taken < Len(Readings)
  /\ taken' = taken + 1
  /\ UNCHANGED <<poll, t, cacheVars, clientVars>>

-----------------------------------------------------------------------------
(* on_accel_telemetry(): gatt_badge_publish_accel(), then                  *)
(* gatt_badge_publish_temp().                                              *)

\* bt_gatt_notify(NULL, ...): to the connected client that subscribed.
Notified == IF bt_ready_flag /\ link = "up" /\ subscribed THEN taken ELSE seen

\* A mutant: the notification goes out before the cache is written.
Mutant_PublishAccel ==
  /\ poll = "accel"
  /\ \/ poll' = "accel" /\ seen' = Notified /\ UNCHANGED cfg_lock
     \/ poll' = "x" /\ cfg_lock' = TRUE /\ UNCHANGED seen
  /\ UNCHANGED <<taken, t, last_accel_mg, last_temp_c01, stored, rx,
                 subscribed>>

PublishAccel ==
  /\ PollGoto("accel", "x")
  /\ cfg_lock' = TRUE
  /\ UNCHANGED <<taken, t, last_accel_mg, last_temp_c01, stored,
                 clientVars>>

Axes == <<"x", "y", "z", "notify_accel">>

\* A mutant: it looks at bt_ready_flag first and returns with the lock.
Mutant_StoreAxis(i) ==
  /\ PollGoto(Axes[i], Axes[i + 1])
  /\ last_accel_mg' = [last_accel_mg EXCEPT ![i] = t.mg[i]]
  /\ cfg_lock' = (i # 3 \/ ~bt_ready_flag)
  /\ stored' = IF i = 3 THEN taken ELSE stored
  /\ UNCHANGED <<taken, t, last_temp_c01, clientVars>>

\* The lock is released after the third.
StoreAxis(i) ==
  /\ PollGoto(Axes[i], Axes[i + 1])
  /\ last_accel_mg' = [last_accel_mg EXCEPT ![i] = t.mg[i]]
  /\ cfg_lock' = (i # 3)
  /\ stored' = IF i = 3 THEN taken ELSE stored
  /\ UNCHANGED <<taken, t, last_temp_c01, clientVars>>

NotifyAccel ==
  /\ PollGoto("notify_accel", "temp")
  /\ seen' = Notified
  /\ UNCHANGED <<taken, t, cacheVars, rx, subscribed>>

\* Its notification follows: the client's view of the temperature is not kept.
PublishTemp ==
  /\ PollGoto("temp", "sleep")
  /\ last_temp_c01' = t.temp_c01
  /\ UNCHANGED <<taken, t, cfg_lock, last_accel_mg, stored, clientVars>>

\* bt_gatt_notify() fails, which is only logged.
NotifyError ==
  /\ PollGoto("notify_accel", "temp")
  /\ bt_ready_flag
  /\ UNCHANGED <<taken, t, cacheVars, clientVars>>

PollStep ==
  \/ FetchTelemetry
  \/ FetchTelemetryError
  \/ PublishAccel
  \/ \E i \in 1..3 : StoreAxis(i)
  \/ NotifyAccel
  \/ PublishTemp
  \/ NotifyError

-----------------------------------------------------------------------------
(* BT RX and the client.                                                   *)

\* The client writes the CCCs: accel_ccc_changed() and temp_ccc_changed()
\* only log, the host keeps the value.
CccChanged ==
  /\ link = "up"
  /\ rx = "idle"
  /\ subscribed' = ~subscribed
  /\ UNCHANGED <<poll, taken, t, cacheVars, rx, seen>>

\* The client asks for one of the two.
ReadRequest ==
  /\ link = "up"
  /\ rx = "idle"
  /\ rx' \in {"accel", "temp"}
  /\ UNCHANGED <<poll, taken, t, cacheVars, subscribed, seen>>

Answered == IF link = "up" THEN stored ELSE seen

\* A mutant: it does not take cfg_lock.
Mutant_ReadAccel ==
  /\ rx = "accel"
  /\ rx' = "idle"
  /\ seen' = Answered
  /\ UNCHANGED <<poll, taken, t, cacheVars, subscribed>>

ReadAccel ==
  /\ rx = "accel"
  /\ ~cfg_lock
  /\ rx' = "idle"
  /\ seen' = Answered
  /\ UNCHANGED <<poll, taken, t, cacheVars, subscribed>>

ReadTemp ==
  /\ rx = "temp"
  /\ ~cfg_lock
  /\ rx' = "idle"
  /\ UNCHANGED <<poll, taken, t, cacheVars, subscribed, seen>>

Read == ReadAccel \/ ReadTemp

\* The host forgets the subscriptions of a client that is not bonded.
ClientLeaves ==
  /\ Disconnected
  /\ rx = "idle"
  /\ subscribed' \in {subscribed, FALSE}
  /\ seen' = 0
  /\ UNCHANGED <<poll, taken, t, cacheVars, rx>>
-----------------------------------------------------------------------------
(* The composition with the link.                                          *)

\* The handlers, the timers, the controller.
LinkStep ==
  /\ \/ BtReady \/ HandlerStep \/ LinkUp \/ LinkDown
     \/ RestartTimeout \/ RestartStart \/ SleepTimeout \/ SleepStart \/ Press
  /\ UNCHANGED teleVars

ClientComes ==
  /\ Connected
  /\ rx = "idle"
  /\ UNCHANGED teleVars

TeleStep ==
  /\ PollStep \/ CccChanged \/ ReadRequest \/ Read
  /\ UNCHANGED vars

TeleNext ==
  \/ LinkStep
  \/ ClientComes
  \/ ClientLeaves
  \/ TeleStep

TeleSpec == TeleInit /\ [][TeleNext]_allVars

\* As in BleLink; BT RX answers, and the polling thread is not starved.
TeleFairSpec ==
  /\ TeleSpec
  /\ SF_allVars(BtReady /\ UNCHANGED teleVars)
  /\ WF_allVars(HandlerStep /\ UNCHANGED teleVars)
  /\ WF_allVars(ClientComes)
  /\ WF_allVars(ClientLeaves)
  /\ WF_allVars(RestartTimeout /\ UNCHANGED teleVars)
  /\ SF_allVars(RestartStart /\ UNCHANGED teleVars)
  /\ WF_allVars(PollStep /\ TeleStep)
  /\ WF_allVars(Read /\ TeleStep)

-----------------------------------------------------------------------------
\* The lock is held while an axis is to be stored and at no other time.
TeleTypeOK ==
  /\ TypeOK
  /\ poll \in {"sleep", "accel", "x", "y", "z", "notify_accel", "temp"}
  /\ taken \in 0..Len(Readings)
  /\ {last_accel_mg, t.mg} \subseteq [1..3 -> Int16]
  /\ {last_temp_c01, t.temp_c01} \subseteq Int16
  /\ cfg_lock <=> poll \in {"x", "y", "z"}
  /\ rx \in {"idle", "accel", "temp"}
  /\ subscribed \in BOOLEAN
  /\ {stored, seen} \subseteq 0..taken

\* Within 1.1 mg of the acceleration, 1 g being 9806650 micro m/s^2: the
\* remainder of the division, and 9807 in the place of 9806.65.
IsMg(mg, um) ==
  /\ 20 * um - 196133 * mg <= 215746
  /\ 196133 * mg - 20 * um <= 215746

IsSample(mg) ==
  \/ mg = NoSample.mg
  \/ \E k \in 1..taken : \A i \in 1..3 : IsMg(mg[i], Readings[k].um[i])

(***************************************************************************)
(* A read of BAD6E002 is answered with one sample: its three axes are      *)
(* those of one reading of the sensor in milli-g, or the zeros of the      *)
(* start, whatever the polling thread is doing when BT RX reads.           *)
(***************************************************************************)
ReadIsOneSample ==
  [][rx = "accel" /\ rx' = "idle" => IsSample(last_accel_mg)]_allVars

(***************************************************************************)
(* A connected client never gets an older sample after a newer one, be it  *)
(* notified or read (gatt_badge.c writes the cache before it notifies).    *)
(***************************************************************************)
NeverOlder ==
  [][link' # "none" => seen' >= seen]_allVars

(***************************************************************************)
(* A read is answered: BT RX does not wait for cfg_lock for good, whatever *)
(* the polling thread returns with.                                        *)
(***************************************************************************)
ReadAnswered == rx # "idle" ~> rx = "idle"
=============================================================================

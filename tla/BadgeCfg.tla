------------------------------- MODULE BadgeCfg -------------------------------
(***************************************************************************)
(* The badge configuration (characteristic BAD6E003) of gatt_badge.c on its *)
(* way from the BLE client to NVS and to the accelerometer of accel.c.     *)
(*                                                                         *)
(*   BT RX     write_cfg() validates, snaps the ODR, stores cfg, submits   *)
(*   WorkQ     apply_cfg_work: snapshot, hand to accel.c, save to NVS;     *)
(*             bt_ready() with its settings_load()                         *)
(*   Main      main(): settings_load() in user_data_init(), accel_init(),  *)
(*             ble_init()                                                  *)
(*   Shell     udtest: user_data_init() again, if it failed in main()      *)
(*   Poll      the polling thread of accel.c                               *)
(*                                                                         *)
(* BT RX and WorkQ are cooperative, so what they do between two blocking   *)
(* calls is one step; Main, Shell and Poll can be preempted anywhere.      *)
(* The two wake thresholds are stored and never used: they are left out.   *)
(***************************************************************************)
EXTENDS Integers

CONSTANTS
  RawOdrs,            \* the accel_odr_hz values clients write
  Periods,            \* the telemetry_period_s values clients write
  MaxWrites,          \* bound: accepted writes
  MaxLoads,           \* bound: settings_load() by udtest
  MaxFaults,          \* bound: NVS, PSA or I2C calls that fail
  MaxCrashes          \* bound: resets

Uint16 == 0..65535

ASSUME BadgeCfgAssumption ==
  /\ RawOdrs \subseteq Uint16
  /\ Periods \subseteq Uint16
  /\ {MaxWrites, MaxLoads, MaxFaults, MaxCrashes} \subseteq Nat

VARIABLES
  cfg,                \* the live configuration
  cfg_save_pending,   \* it is to be saved
  apply_queued,       \* apply_cfg_work is on the system workqueue
  bt_ready_queued,    \* so is the work that calls bt_ready()
  advertising,        \* clients can connect
  nvs,                \* badge/cfg in NVS, or NoCfg
  settings_lock,      \* holder of the lock inside the settings subsystem
  odr_hz_pending,     \* ODR for the polling thread, 0: none
  telemetry_period_s, \* the period for the polling thread
  chip_odr,           \* the ODR the chip runs at
  pc,                 \* per thread: its next step
  c,                  \* WorkQ: the snapshot of apply_cfg_work_handler()
  loaded,             \* per thread: what its settings_load() has read
  odr,                \* Poll: the ODR taken from odr_hz_pending
  accepted,           \* the configuration last accepted since the reset
  save_failed,        \* the last save failed
  odr_failed,         \* the last sensor_attr_set() failed
  writes, loads, faults, crashes     \* how much of the bounds is used

cfgVars   == <<cfg, cfg_save_pending, accepted, writes>>
workVars  == <<apply_queued, bt_ready_queued, advertising, c>>
nvsVars   == <<nvs, settings_lock, loaded, save_failed, loads>>
accelVars == <<odr_hz_pending, telemetry_period_s, chip_odr, odr, odr_failed>>
vars == <<cfgVars, workVars, nvsVars, accelVars, pc, faults, crashes>>

-----------------------------------------------------------------------------
(* Configurations; owner_id is the number of the write.                    *)

accel_odr_supported == {1, 10, 25, 50, 100, 200}

Config == [owner_id : Nat, odr_hz : Uint16, period_s : Uint16]
NoCfg  == [owner_id |-> 0, odr_hz |-> 0, period_s |-> 0]

BADGE_CFG_DEFAULT == [owner_id |-> 0, odr_hz |-> 10, period_s |-> 1]

\* cfg_validate()
Valid(k) == k.odr_hz \in 1..200 /\ k.period_s \in 1..3600

Distance(a, b) == IF a < b THEN b - a ELSE a - b

\* A mutant: the value is taken as it is.
Mutant_SnapOdr(hz) == hz

\* snap_odr(): the nearest supported value, the lower of two.
SnapOdr(hz) ==
  CHOOSE best \in accel_odr_supported : \A o \in accel_odr_supported :
    \/ Distance(hz, best) < Distance(hz, o)
    \/ Distance(hz, best) = Distance(hz, o) /\ best <= o

-----------------------------------------------------------------------------
(* Threads and their steps.                                                *)

Loaders == {"Main", "Shell", "WorkQ"}
Threads == Loaders \cup {"Poll"}

BootPc == [t \in Threads |-> CASE t = "Main" -> "load"
                               [] t = "Poll" -> "off"
                               [] OTHER      -> "idle"]

Goto(t, from, to) ==
  /\ pc[t] = from
  /\ pc' = [pc EXCEPT ![t] = to]

Fault ==
  /\ faults < MaxFaults
  /\ faults' = faults + 1

\* k_work_submit(&apply_cfg_work): once queued, it is queued.
SubmitApply == apply_queued' = TRUE

Init ==
  /\ cfg = BADGE_CFG_DEFAULT
  /\ cfg_save_pending = FALSE
  /\ apply_queued = FALSE
  /\ bt_ready_queued = FALSE
  /\ advertising = FALSE
  /\ nvs = NoCfg
  /\ settings_lock = {}
  /\ odr_hz_pending = 0
  /\ telemetry_period_s = 1
  /\ chip_odr = 0
  /\ pc = BootPc
  /\ c = NoCfg
  /\ loaded = [t \in Loaders |-> NoCfg]
  /\ odr = 0
  /\ accepted = NoCfg
  /\ save_failed = FALSE
  /\ odr_failed = FALSE
  /\ writes = 0
  /\ loads = 0
  /\ faults = 0
  /\ crashes = 0

-----------------------------------------------------------------------------
(* settings_load(), from user_data_init() and from bt_ready().  The        *)
(* settings subsystem holds its lock from the first handler to the last    *)
(* commit, and while it saves.                                             *)

NextOfLoad(t) == CASE t = "Main" -> "accel" [] t = "Shell" -> "idle" [] OTHER -> "adv"

\* badge_settings_set() reads the stored value.
LoadRead(t) ==
  /\ Goto(t, "load", "set")
  /\ settings_lock = {}
  /\ settings_lock' = {t}
  /\ loaded' = [loaded EXCEPT ![t] = nvs]
  /\ UNCHANGED <<cfgVars, workVars, nvs, save_failed, loads, accelVars,
                 faults, crashes>>

\* read_cb() fails; the other handlers and the commits follow all the same.
LoadReadError(t) ==
  /\ Goto(t, "load", "set")
  /\ Fault
  /\ nvs # NoCfg
  /\ settings_lock = {}
  /\ settings_lock' = {t}
  /\ loaded' = [loaded EXCEPT ![t] = NoCfg]
  /\ UNCHANGED <<cfgVars, workVars, nvs, save_failed, loads, accelVars,
                 crashes>>

\* What was read, if it is valid, becomes the configuration, under cfg_lock.
LoadSet(t) ==
  /\ Goto(t, "set", "commit")
  /\ cfg' = IF Valid(loaded[t]) THEN loaded[t] ELSE cfg
  /\ UNCHANGED <<cfg_save_pending, accepted, writes, workVars, nvsVars,
                 accelVars, faults, crashes>>

\* badge_settings_commit().
LoadCommit(t) ==
  /\ Goto(t, "commit", NextOfLoad(t))
  /\ SubmitApply
  /\ settings_lock' = {}
  /\ UNCHANGED <<cfgVars, bt_ready_queued, advertising, c, nvs, loaded,
                 save_failed, loads, accelVars, faults, crashes>>

Load(t) == LoadRead(t) \/ LoadReadError(t) \/ LoadSet(t) \/ LoadCommit(t)

\* psa_crypto_init() or settings_subsys_init() fails: user_data_init()
\* comes back without a load.
NoLoad ==
  /\ Goto("Main", "load", "accel")
  /\ Fault
  /\ UNCHANGED <<cfgVars, workVars, nvsVars, accelVars, crashes>>

\* cmd_udtest() calls user_data_init() again after it failed in main().
UdtestLoad ==
  /\ Goto("Shell", "idle", "load")
  /\ pc["Main"] \in {"accel", "ble", "done"}
  /\ loads < MaxLoads
  /\ loads' = loads + 1
  /\ UNCHANGED <<cfgVars, workVars, nvs, settings_lock, loaded, save_failed,
                 accelVars, faults, crashes>>

-----------------------------------------------------------------------------
(* main(): accel_init() and ble_init(), after user_data_init().            *)

\* The chip is set to 10 Hz, then the polling thread starts.
AccelInit ==
  /\ Goto("Main", "accel", "start")
  /\ chip_odr' = 10
  /\ UNCHANGED <<cfgVars, workVars, nvsVars, odr_hz_pending,
                 telemetry_period_s, odr, odr_failed, faults, crashes>>

AccelInitError ==
  /\ Goto("Main", "accel", "ble")
  /\ Fault
  /\ UNCHANGED <<cfgVars, workVars, nvsVars, accelVars, crashes>>

AccelStart ==
  /\ pc["Main"] = "start"
  /\ pc' = [pc EXCEPT !["Main"] = "ble", !["Poll"] = "sleep"]
  /\ UNCHANGED <<cfgVars, workVars, nvsVars, accelVars, faults, crashes>>

\* bt_enable(): the stack comes up and bt_ready() is queued.
BleInit ==
  /\ Goto("Main", "ble", "done")
  /\ bt_ready_queued' = TRUE
  /\ UNCHANGED <<cfgVars, apply_queued, advertising, c, nvsVars, accelVars,
                 faults, crashes>>

\* bt_ready(): settings_load() ...
BtReady ==
  /\ Goto("WorkQ", "idle", "load")
  /\ bt_ready_queued
  /\ bt_ready_queued' = FALSE
  /\ UNCHANGED <<cfgVars, apply_queued, advertising, c, nvsVars, accelVars,
                 faults, crashes>>

\* ... then bt_le_adv_start().
BtReadyAdv ==
  /\ Goto("WorkQ", "adv", "idle")
  /\ advertising' = TRUE
  /\ UNCHANGED <<cfgVars, apply_queued, bt_ready_queued, c, nvsVars,
                 accelVars, faults, crashes>>

-----------------------------------------------------------------------------
(* BT RX.                                                                  *)

Written(hz, period) ==
  [owner_id |-> writes + 1, odr_hz |-> hz, period_s |-> period]

WriteCfg(hz, period) ==
  /\ advertising
  /\ writes < MaxWrites
  /\ Valid(Written(hz, period))
  /\ cfg' = [Written(hz, period) EXCEPT !.odr_hz = SnapOdr(hz)]
  /\ cfg_save_pending' = TRUE
  /\ SubmitApply
  /\ accepted' = cfg'
  /\ writes' = writes + 1
  /\ UNCHANGED <<bt_ready_queued, advertising, c, nvsVars, accelVars, pc,
                 faults, crashes>>

\* The values are out of range: an error response, nothing else.
WriteCfgRefused(hz, period) ==
  /\ advertising
  /\ ~Valid(Written(hz, period))
  /\ UNCHANGED vars

-----------------------------------------------------------------------------
(* apply_cfg_work_handler().                                               *)

\* A mutant: it saves whether that is asked for or not.
Mutant_ApplyStart ==
  /\ pc["WorkQ"] = "idle"
  /\ apply_queued
  /\ apply_queued' = FALSE
  /\ c' = cfg
  /\ cfg_save_pending' = FALSE
  /\ odr_hz_pending' = IF cfg.odr_hz = 0 THEN odr_hz_pending ELSE cfg.odr_hz
  /\ telemetry_period_s' = IF cfg.period_s = 0 THEN 1 ELSE cfg.period_s
  /\ pc' = [pc EXCEPT !["WorkQ"] = "save"]
  /\ UNCHANGED <<cfg, accepted, writes, bt_ready_queued, advertising, nvsVars,
                 chip_odr, odr, odr_failed, faults, crashes>>

\* Snapshot under cfg_lock, and the two setters of accel.c, none of which
\* blocks; accel_set_odr() refuses 0.
ApplyStart ==
  /\ pc["WorkQ"] = "idle"
  /\ apply_queued
  /\ apply_queued' = FALSE
  /\ c' = cfg
  /\ cfg_save_pending' = FALSE
  /\ odr_hz_pending' = IF cfg.odr_hz = 0 THEN odr_hz_pending ELSE cfg.odr_hz
  /\ telemetry_period_s' = IF cfg.period_s = 0 THEN 1 ELSE cfg.period_s
  /\ pc' = [pc EXCEPT !["WorkQ"] = IF cfg_save_pending THEN "save" ELSE "idle"]
  /\ UNCHANGED <<cfg, accepted, writes, bt_ready_queued, advertising, nvsVars,
                 chip_odr, odr, odr_failed, faults, crashes>>

\* A mutant: cfg_save_pending is cleared when the save is done.
Mutant_ApplySave ==
  /\ Goto("WorkQ", "save", "idle")
  /\ settings_lock = {}
  /\ nvs' = c
  /\ save_failed' = FALSE
  /\ cfg_save_pending' = FALSE
  /\ UNCHANGED <<cfg, accepted, writes, workVars, settings_lock, loaded,
                 loads, accelVars, faults, crashes>>

\* settings_save_one().
ApplySave ==
  /\ Goto("WorkQ", "save", "idle")
  /\ settings_lock = {}
  /\ nvs' = c
  /\ save_failed' = FALSE
  /\ UNCHANGED <<cfgVars, workVars, settings_lock, loaded, loads, accelVars,
                 faults, crashes>>

\* It fails: logged, not tried again.
ApplySaveError ==
  /\ Goto("WorkQ", "save", "idle")
  /\ settings_lock = {}
  /\ Fault
  /\ save_failed' = TRUE
  /\ UNCHANGED <<cfgVars, workVars, nvs, settings_lock, loaded, loads,
                 accelVars, crashes>>

-----------------------------------------------------------------------------
(* accel_poll_thread(): it sleeps for the period, and then ...             *)

\* ... apply_pending_odr() takes the pending ODR ...
PollTake ==
  /\ Goto("Poll", "sleep", IF odr_hz_pending = 0 THEN "sleep" ELSE "attr_set")
  /\ odr' = odr_hz_pending
  /\ odr_hz_pending' = 0
  /\ UNCHANGED <<cfgVars, workVars, nvsVars, telemetry_period_s, chip_odr,
                 odr_failed, faults, crashes>>

\* A mutant: the pending ODR is cleared when it has been applied.
Mutant_PollSet ==
  /\ Goto("Poll", "attr_set", "sleep")
  /\ chip_odr' = odr
  /\ odr_hz_pending' = 0
  /\ odr_failed' = FALSE
  /\ UNCHANGED <<cfgVars, workVars, nvsVars, telemetry_period_s, odr, faults,
                 crashes>>

\* ... and gives it to the chip: sensor_attr_set().
PollSet ==
  /\ Goto("Poll", "attr_set", "sleep")
  /\ chip_odr' = odr
  /\ odr_failed' = FALSE
  /\ UNCHANGED <<cfgVars, workVars, nvsVars, odr_hz_pending,
                 telemetry_period_s, odr, faults, crashes>>

\* It fails: logged, the pending value is gone.
PollSetError ==
  /\ Goto("Poll", "attr_set", "sleep")
  /\ Fault
  /\ odr_failed' = TRUE
  /\ UNCHANGED <<cfgVars, workVars, nvsVars, odr_hz_pending,
                 telemetry_period_s, chip_odr, odr, crashes>>

-----------------------------------------------------------------------------
\* A reset: NVS stays, and the chip, which is not reset, keeps its ODR.
Crash ==
  /\ crashes < MaxCrashes
  /\ crashes' = crashes + 1
  /\ cfg' = BADGE_CFG_DEFAULT
  /\ cfg_save_pending' = FALSE
  /\ apply_queued' = FALSE
  /\ bt_ready_queued' = FALSE
  /\ advertising' = FALSE
  /\ settings_lock' = {}
  /\ odr_hz_pending' = 0
  /\ telemetry_period_s' = 1
  /\ pc' = BootPc
  /\ c' = NoCfg
  /\ loaded' = [t \in Loaders |-> NoCfg]
  /\ odr' = 0
  /\ accepted' = NoCfg
  /\ save_failed' = FALSE
  /\ odr_failed' = FALSE
  /\ UNCHANGED <<nvs, chip_odr, writes, loads, faults>>

WorkQStep ==
  \/ BtReady
  \/ Load("WorkQ")
  \/ BtReadyAdv
  \/ ApplyStart
  \/ ApplySave
  \/ ApplySaveError

MainStep ==
  \/ Load("Main")
  \/ NoLoad
  \/ AccelInit
  \/ AccelInitError
  \/ AccelStart
  \/ BleInit

PollStep ==
  \/ PollTake
  \/ PollSet
  \/ PollSetError

Next ==
  \/ WorkQStep
  \/ MainStep
  \/ PollStep
  \/ UdtestLoad
  \/ Load("Shell")
  \/ \E hz \in RawOdrs, period \in Periods : WriteCfg(hz, period)
  \/ \E hz \in RawOdrs, period \in Periods : WriteCfgRefused(hz, period)
  \/ Crash

Spec == Init /\ [][Next]_vars

\* Threads that can run do run: the scheduler of the kernel.
FairSpec ==
  /\ Spec
  /\ WF_vars(WorkQStep)
  /\ WF_vars(MainStep)
  /\ WF_vars(PollStep)
  /\ WF_vars(Load("Shell"))

-----------------------------------------------------------------------------
TypeOK ==
  /\ cfg \in Config
  /\ cfg_save_pending \in BOOLEAN
  /\ apply_queued \in BOOLEAN
  /\ bt_ready_queued \in BOOLEAN
  /\ advertising \in BOOLEAN
  /\ nvs \in Config
  /\ settings_lock \in {{}} \cup {{t} : t \in Loaders}
  /\ odr_hz_pending \in accel_odr_supported \cup {0}
  /\ telemetry_period_s \in 1..3600
  /\ chip_odr \in accel_odr_supported \cup {0}
  /\ pc \in [Threads -> {"off", "idle", "load", "set", "commit", "accel",
                         "start", "ble", "done", "adv", "save", "sleep",
                         "attr_set"}]
  /\ c \in Config
  /\ loaded \in [Loaders -> Config]
  /\ odr \in accel_odr_supported \cup {0}
  /\ accepted \in Config
  /\ save_failed \in BOOLEAN
  /\ odr_failed \in BOOLEAN
  /\ {writes, loads, faults, crashes} \subseteq Nat

\* Nothing is under way between NVS, RAM and the chip.
Quiet ==
  /\ pc["Main"] = "done"
  /\ pc["WorkQ"] = "idle" /\ ~apply_queued /\ ~bt_ready_queued
  /\ pc["Shell"] = "idle"
  /\ pc["Poll"] \in {"off", "sleep"}

(***************************************************************************)
(* Once things are quiet, accel.c and the chip run with the live           *)
(* configuration, and NVS holds what the client was last told is accepted  *)
(* - whatever writes, boot and polling did in between - unless the last    *)
(* save or the last sensor_attr_set() failed.  The second half is not true *)
(* any more once udtest has loaded the settings again: AcceptedStays.      *)
(***************************************************************************)
Settled ==
  Quiet =>
    /\ telemetry_period_s = cfg.period_s
    /\ (pc["Poll"] = "sleep" /\ odr_hz_pending = 0 /\ ~odr_failed) =>
         chip_odr = cfg.odr_hz
    /\ (accepted # NoCfg /\ ~save_failed /\ loads = 0) =>
         cfg = accepted /\ nvs = accepted

(***************************************************************************)
(* NVS never goes back to an earlier configuration: a snapshot is not      *)
(* saved over one that was accepted after it, and a boot whose load failed *)
(* does not save the defaults - as long as udtest loads no settings.       *)
(***************************************************************************)
NvsMovesOn == [][loads = 0 => nvs'.owner_id >= nvs.owner_id]_vars

(***************************************************************************)
(* What a client was told is accepted is brought to the chip and to NVS,   *)
(* unless another write, a reset, a fault or udtest comes first.                  *)
(***************************************************************************)
AcceptedIsApplied ==
  \A n \in 1..MaxWrites :
    (accepted.owner_id = n) ~>
      \/ accepted.owner_id # n
      \/ faults > 0 \/ loads > 0
      \/ nvs = accepted /\ chip_odr = accepted.odr_hz
                        /\ telemetry_period_s = accepted.period_s

-----------------------------------------------------------------------------
(***************************************************************************)
(* "A successful write response = the values are accepted; applying and    *)
(* saving are deferred" (gatt_badge.c:357), "the handlers are idempotent"  *)
(* (user_data.c:417): Settled, with a udtest that loads the settings again *)
(* while a write is on its way.                                            *)
(***************************************************************************)
AcceptedStays ==
  (Quiet /\ accepted # NoCfg /\ ~save_failed) => cfg = accepted /\ nvs = accepted
=============================================================================

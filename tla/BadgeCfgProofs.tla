---------------------------- MODULE BadgeCfgProofs ----------------------------
(***************************************************************************)
(* Proofs about BadgeCfg.  The inductive invariant is IInv: who runs, in   *)
(* which order the boot goes on and who holds the settings lock (BootInv), *)
(* which values a configuration can have on its way (CfgInv), that the     *)
(* accelerometer is behind the live configuration only while an apply is   *)
(* due (AccelInv), and that NVS is behind the accepted configuration only  *)
(* while a save is due (SaveInv).                                          *)
(***************************************************************************)
EXTENDS BadgeCfg, TLAPS

-----------------------------------------------------------------------------
(* The inductive invariant.                                                *)

\* A configuration cfg can have after w writes: it passed cfg_validate() and
\* snap_odr().
Live(k, w) ==
  /\ k \in Config
  /\ k.odr_hz \in accel_odr_supported
  /\ k.period_s >= 1 /\ k.period_s <= 3600
  /\ k.owner_id <= w

Carried(k, w) == k = NoCfg \/ Live(k, w)

CfgInv ==
  /\ writes \in Nat
  /\ Live(cfg, writes)
  /\ Carried(nvs, writes)
  /\ Carried(c, writes)
  /\ Carried(accepted, writes)
  /\ loaded \in [Loaders -> Config]
  /\ \A t \in Loaders : Carried(loaded[t], writes)

Steps == {"off", "idle", "load", "set", "commit", "accel", "start", "ble",
          "done", "adv", "save", "sleep", "attr_set"}

\* The types that no other part gives.
FlagInv ==
  /\ {cfg_save_pending, apply_queued, bt_ready_queued, advertising}
       \subseteq BOOLEAN
  /\ {save_failed, odr_failed} \subseteq BOOLEAN
  /\ {faults, crashes} \subseteq Nat
  /\ settings_lock \in {{}} \cup {{t} : t \in Loaders}

\* Main boots, then bt_ready() loads, then clients connect and write.
BootInv ==
  /\ pc \in [Threads -> Steps]
  /\ loads \in Nat
  /\ pc["Main"] \in {"load", "set", "commit", "accel", "start", "ble", "done"}
  /\ pc["WorkQ"] \in {"idle", "load", "set", "commit", "adv", "save"}
  /\ pc["Shell"] \in {"idle", "load", "set", "commit"}
  /\ pc["Poll"] \in {"off", "sleep", "attr_set"}
  /\ pc["Main"] # "done" =>
       pc["WorkQ"] = "idle" /\ ~bt_ready_queued /\ ~advertising
  /\ pc["WorkQ"] \in {"load", "set", "commit", "adv"} =>
       ~bt_ready_queued /\ ~advertising
  /\ bt_ready_queued => ~advertising
  /\ ~advertising => accepted = NoCfg
  /\ accepted = NoCfg => ~cfg_save_pending /\ pc["WorkQ"] # "save"
  /\ loads = 0 => pc["Shell"] = "idle"
  /\ cfg_save_pending => apply_queued

\* No apply of the live configuration is due.
Applied == ~apply_queued /\ \A t \in Loaders : pc[t] # "commit"

AccelInv ==
  /\ {odr_hz_pending, chip_odr, odr} \subseteq accel_odr_supported \cup {0}
  /\ telemetry_period_s \in Nat
  /\ telemetry_period_s >= 1 /\ telemetry_period_s <= 3600
  /\ pc["Main"] \in {"load", "set", "commit", "accel", "start"} =>
       pc["Poll"] = "off"
  /\ pc["Main"] = "start" => chip_odr = 10
  /\ pc["Poll"] = "attr_set" => odr # 0
  /\ Applied =>
       /\ telemetry_period_s = cfg.period_s
       /\ odr_hz_pending # 0 => odr_hz_pending = cfg.odr_hz
       /\ odr_hz_pending = 0 =>
            /\ pc["Poll"] = "off" => cfg.odr_hz = 10
            /\ pc["Poll"] = "attr_set" => odr = cfg.odr_hz
            /\ pc["Poll"] = "sleep" => odr_failed \/ chip_odr = cfg.odr_hz

SaveInv ==
  (accepted # NoCfg /\ loads = 0) =>
    /\ cfg = accepted
    /\ nvs.owner_id <= accepted.owner_id
    /\ pc["WorkQ"] = "save" => /\ nvs.owner_id <= c.owner_id
                               /\ c.owner_id <= accepted.owner_id
    /\ \/ cfg_save_pending
       \/ pc["WorkQ"] = "save" /\ c = accepted
       \/ pc["WorkQ"] # "save" /\ (nvs = accepted \/ save_failed)

IInv == FlagInv /\ CfgInv /\ BootInv /\ AccelInv /\ SaveInv

-----------------------------------------------------------------------------
(* Lemmas about the helpers.                                               *)

\* snap_odr() comes back with a supported ODR for every value.
LEMMA SnapOdrSupported ==
  ASSUME NEW hz \in Nat
  PROVE  SnapOdr(hz) \in accel_odr_supported
<1> DEFINE Nearest(b) == \A o \in accel_odr_supported :
                        \/ Distance(hz, b) < Distance(hz, o)
                        \/ Distance(hz, b) = Distance(hz, o) /\ b <= o
<1>1. \E b \in accel_odr_supported : Nearest(b)
  <2>1. CASE hz <= 5
    BY <2>1, Nearest(1), SMT DEF accel_odr_supported, Distance
  <2>2. CASE hz >= 6 /\ hz <= 17
    BY <2>2, Nearest(10), SMT DEF accel_odr_supported, Distance
  <2>3. CASE hz >= 18 /\ hz <= 37
    BY <2>3, Nearest(25), SMT DEF accel_odr_supported, Distance
  <2>4. CASE hz >= 38 /\ hz <= 75
    BY <2>4, Nearest(50), SMT DEF accel_odr_supported, Distance
  <2>5. CASE hz >= 76 /\ hz <= 150
    BY <2>5, Nearest(100), SMT DEF accel_odr_supported, Distance
  <2>6. CASE hz >= 151
    BY <2>6, Nearest(200), SMT DEF accel_odr_supported, Distance
  <2> QED  BY <2>1, <2>2, <2>3, <2>4, <2>5, <2>6, SMT
<1> QED  BY <1>1, Zenon DEF SnapOdr

\* A uint16_t is a number, and a small number is one.
LEMMA Uint16Nat == Uint16 \subseteq Nat
BY DEF Uint16

\* The numbers of hours and minutes fit in 16 bits.
LEMMA SmallUint16 ==
  ASSUME NEW n \in Nat, n <= 3600
  PROVE  n \in Uint16
<1>1. PICK U \in Nat : U = 65535
  BY SMT
<1>2. Uint16 = 0..U
  BY <1>1, SMT DEF Uint16
<1>3. n <= U
  BY <1>1, SMT
<1> QED BY <1>2, <1>3

\* The range of the period, told without the set.
LEMMA PeriodRange ==
  ASSUME NEW n \in Nat
  PROVE  n >= 1 /\ n <= 3600 <=> n \in 1..3600
<1>1. PICK P \in Nat : P = 3600
  BY SMT
<1>2. 1..3600 = 1..P
  BY <1>1, SMT
<1>3. n >= 1 /\ n <= P <=> n \in 1..P
  OBVIOUS
<1> QED BY <1>1, <1>2, <1>3, SMT

\* The fields of a configuration.
LEMMA ConfigFields ==
  ASSUME NEW k \in Config
  PROVE  k.owner_id \in Nat /\ k.odr_hz \in Uint16 /\ k.period_s \in Uint16
BY DEF Config

\* The supported ODRs are 16-bit values above 0.
LEMMA SupportedOdrs ==
  ASSUME NEW o \in accel_odr_supported
  PROVE  o \in Uint16 /\ o \in Nat /\ o # 0
<1>1. o \in Nat /\ o <= 3600 /\ o # 0
  BY SMT DEF accel_odr_supported
<1> QED BY <1>1, SmallUint16, SMT

\* The fields of a live configuration.
LEMMA LiveFields ==
  ASSUME NEW w \in Nat, NEW k, Live(k, w)
  PROVE  /\ k \in Config
         /\ k.owner_id \in Nat /\ k.owner_id <= w
         /\ k.odr_hz \in accel_odr_supported /\ k.odr_hz # 0
         /\ k.period_s \in Nat /\ k.period_s >= 1 /\ k.period_s <= 3600
         /\ k # NoCfg
<1>1. k \in Config /\ k.odr_hz # 0
  BY SupportedOdrs, SMT DEF Live
<1>2. k.period_s \in Nat
  <2>1. k.period_s \in Uint16
    BY <1>1, ConfigFields
  <2> QED BY <2>1, Uint16Nat
<1>3. k # NoCfg
  BY <1>1, SMT DEF NoCfg
<1> QED BY <1>1, <1>2, <1>3, ConfigFields, SMT DEF Live

\* Another write leaves it one.
LEMMA LiveStays ==
  ASSUME NEW w \in Nat, NEW v \in Nat, w <= v, NEW k, Carried(k, w)
  PROVE  Carried(k, v) /\ (Live(k, w) => Live(k, v))
<1>1. ASSUME Live(k, w)
      PROVE  Live(k, v)
  BY <1>1, ConfigFields, SMT DEF Live
<1> QED BY <1>1, Zenon DEF Carried

\* The defaults are a live configuration, and no configuration has none.
LEMMA DefaultIsLive ==
  ASSUME NEW w \in Nat
  PROVE  /\ Live(BADGE_CFG_DEFAULT, w)
         /\ BADGE_CFG_DEFAULT.odr_hz = 10 /\ BADGE_CFG_DEFAULT.period_s = 1
         /\ NoCfg \in Config /\ ~Live(NoCfg, w) /\ ~Valid(NoCfg)
         /\ NoCfg.owner_id = 0
<1>1. 0 \in Uint16 /\ 1 \in Uint16 /\ 10 \in Uint16
  BY SmallUint16, SMT
<1>2. BADGE_CFG_DEFAULT \in Config /\ NoCfg \in Config
  BY <1>1 DEF BADGE_CFG_DEFAULT, NoCfg, Config
<1>3. Live(BADGE_CFG_DEFAULT, w)
  BY <1>2, SMT DEF BADGE_CFG_DEFAULT, Live, accel_odr_supported
<1>4. ~Live(NoCfg, w) /\ ~Valid(NoCfg)
  BY SMT DEF NoCfg, Live, accel_odr_supported, Valid
<1> QED BY <1>2, <1>3, <1>4, SMT DEF BADGE_CFG_DEFAULT, NoCfg

\* What a client writes, once validated and snapped, is a live configuration.
LEMMA WrittenIsLive ==
  ASSUME NEW w \in Nat, NEW hz \in RawOdrs, NEW period \in Periods,
         NEW k, k = [owner_id |-> w + 1, odr_hz |-> hz, period_s |-> period],
         Valid(k)
  PROVE  /\ Live([k EXCEPT !.odr_hz = SnapOdr(hz)], w + 1)
         /\ [k EXCEPT !.odr_hz = SnapOdr(hz)] # NoCfg
         /\ [k EXCEPT !.odr_hz = SnapOdr(hz)].owner_id = w + 1
<1>1. hz \in Nat /\ period \in Uint16 /\ period \in Nat
  BY BadgeCfgAssumption, Uint16Nat DEF BadgeCfgAssumption
<1>2. PICK o \in accel_odr_supported : o = SnapOdr(hz)
  BY <1>1, SnapOdrSupported, Zenon
<1> DEFINE n == [owner_id |-> w + 1, odr_hz |-> o, period_s |-> period]
<1>3. [k EXCEPT !.odr_hz = SnapOdr(hz)] = n
  BY <1>2, SMT
<1>4. o \in Uint16 /\ o # 0 /\ w + 1 \in Nat
  BY SupportedOdrs
<1>5. n \in Config
  BY <1>1, <1>4 DEF Config
<1>6. period >= 1 /\ period <= 3600
  BY <1>1, SMT DEF Valid
<1>7. Live(n, w + 1)
  BY <1>4, <1>5, <1>6, SMT DEF Live
<1>8. n # NoCfg /\ n.owner_id = w + 1
  BY <1>4, SMT DEF NoCfg
<1> QED BY <1>3, <1>7, <1>8, Zenon

-----------------------------------------------------------------------------
(* The steps.                                                              *)

\* A step is one of the actions, or nothing changes.
LEMMA NextCases ==
  ASSUME [Next]_vars
  PROVE  \/ BtReady \/ BtReadyAdv \/ ApplyStart \/ ApplySave \/ ApplySaveError
         \/ NoLoad \/ AccelInit \/ AccelInitError \/ AccelStart \/ BleInit
         \/ PollTake \/ PollSet \/ PollSetError \/ UdtestLoad \/ Crash
         \/ \E t \in Loaders :
              LoadRead(t) \/ LoadReadError(t) \/ LoadSet(t) \/ LoadCommit(t)
         \/ \E hz \in RawOdrs, period \in Periods : WriteCfg(hz, period)
         \/ UNCHANGED vars
BY Zenon DEF Next, WorkQStep, MainStep, PollStep, Load, Loaders, WriteCfgRefused

\* Every step keeps the invariant on the flags and the lock.
LEMMA FlagInvStep ==
  ASSUME FlagInv, [Next]_vars
  PROVE  FlagInv'
<1> USE DEF vars, cfgVars, workVars, nvsVars, accelVars, Goto, Fault,
            SubmitApply, FlagInv
<1>1. ASSUME BtReady PROVE FlagInv'
  BY <1>1, Zenon DEF BtReady
<1>2. ASSUME BtReadyAdv PROVE FlagInv'
  BY <1>2, SMT DEF BtReadyAdv
<1>3. ASSUME ApplyStart PROVE FlagInv'
  BY <1>3, Zenon DEF ApplyStart
<1>4. ASSUME ApplySave PROVE FlagInv'
  BY <1>4, Zenon DEF ApplySave
<1>5. ASSUME ApplySaveError PROVE FlagInv'
  BY <1>5, SMT DEF ApplySaveError
<1>6. ASSUME NoLoad PROVE FlagInv'
  BY <1>6, SMT DEF NoLoad
<1>7. ASSUME AccelInit PROVE FlagInv'
  BY <1>7, SMT DEF AccelInit
<1>8. ASSUME AccelInitError PROVE FlagInv'
  BY <1>8, SMT DEF AccelInitError
<1>9. ASSUME AccelStart PROVE FlagInv'
  BY <1>9, SMT DEF AccelStart
<1>10. ASSUME BleInit PROVE FlagInv'
  BY <1>10, SMT DEF BleInit
<1>11. ASSUME PollTake PROVE FlagInv'
  BY <1>11, SMT DEF PollTake
<1>12. ASSUME PollSet PROVE FlagInv'
  BY <1>12, Zenon DEF PollSet
<1>13. ASSUME PollSetError PROVE FlagInv'
  BY <1>13, SMT DEF PollSetError
<1>14. ASSUME UdtestLoad PROVE FlagInv'
  BY <1>14, SMT DEF UdtestLoad
<1>15. ASSUME NEW t \in Loaders, LoadRead(t) PROVE FlagInv'
  BY <1>15, SMT DEF LoadRead
<1>16. ASSUME NEW t \in Loaders, LoadReadError(t) PROVE FlagInv'
  BY <1>16, SMT DEF LoadReadError
<1>17. ASSUME NEW t \in Loaders, LoadSet(t) PROVE FlagInv'
  BY <1>17, SMT DEF LoadSet
<1>18. ASSUME NEW t \in Loaders, LoadCommit(t) PROVE FlagInv'
  BY <1>18, SMT DEF LoadCommit, NextOfLoad
<1>19. ASSUME NEW hz \in RawOdrs, NEW period \in Periods, WriteCfg(hz, period)
       PROVE  FlagInv'
  BY <1>19, SMT DEF WriteCfg, Written
<1>20. ASSUME UNCHANGED vars PROVE FlagInv'
  BY <1>20, SMT DEF vars
<1>21. ASSUME Crash PROVE FlagInv'
  <2>1. crashes + 1 \in Nat
    OBVIOUS
  <2> QED BY <1>21, <2>1, Zenon DEF Crash
<1> QED BY <1>1, <1>2, <1>3, <1>4, <1>5, <1>6, <1>7, <1>8, <1>9, <1>10, <1>11,
           <1>12, <1>13, <1>14, <1>15, <1>16, <1>17, <1>18, <1>19, <1>20,
           <1>21, NextCases, SMT

\* Every step keeps the invariant on the values of the configurations.
LEMMA CfgInvStep ==
  ASSUME CfgInv, BootInv, [Next]_vars
  PROVE  CfgInv'
<1> USE DEF vars, cfgVars, workVars, nvsVars, accelVars, Goto, Fault,
            SubmitApply, CfgInv, Carried, Threads, Loaders
<1>1. ASSUME BtReady PROVE CfgInv'
  BY <1>1, SMT DEF BtReady
<1>2. ASSUME BtReadyAdv PROVE CfgInv'
  BY <1>2, SMT DEF BtReadyAdv
<1>3. ASSUME ApplyStart PROVE CfgInv'
  BY <1>3, SMT DEF ApplyStart
<1>4. ASSUME ApplySave PROVE CfgInv'
  BY <1>4, SMT DEF ApplySave
<1>5. ASSUME ApplySaveError PROVE CfgInv'
  BY <1>5, SMT DEF ApplySaveError
<1>6. ASSUME NoLoad PROVE CfgInv'
  BY <1>6, SMT DEF NoLoad
<1>7. ASSUME AccelInit PROVE CfgInv'
  BY <1>7, SMT DEF AccelInit
<1>8. ASSUME AccelInitError PROVE CfgInv'
  BY <1>8, SMT DEF AccelInitError
<1>9. ASSUME AccelStart PROVE CfgInv'
  BY <1>9, SMT DEF AccelStart
<1>10. ASSUME BleInit PROVE CfgInv'
  BY <1>10, SMT DEF BleInit
<1>11. ASSUME PollTake PROVE CfgInv'
  BY <1>11, SMT DEF PollTake
<1>12. ASSUME PollSet PROVE CfgInv'
  BY <1>12, SMT DEF PollSet
<1>13. ASSUME PollSetError PROVE CfgInv'
  BY <1>13, SMT DEF PollSetError
<1>14. ASSUME UdtestLoad PROVE CfgInv'
  BY <1>14, SMT DEF UdtestLoad
<1>15. ASSUME NEW t \in Loaders, LoadRead(t) PROVE CfgInv'
  BY <1>15, DefaultIsLive, LiveFields, SMT DEF LoadRead
<1>16. ASSUME NEW t \in Loaders, LoadReadError(t) PROVE CfgInv'
  BY <1>16, DefaultIsLive, SMT DEF LoadReadError
<1>17. ASSUME NEW t \in Loaders, LoadSet(t) PROVE CfgInv'
  BY <1>17, DefaultIsLive, SMT DEF LoadSet
<1>18. ASSUME NEW t \in Loaders, LoadCommit(t) PROVE CfgInv'
  BY <1>18, SMT DEF LoadCommit, NextOfLoad
<1>19. ASSUME NEW hz \in RawOdrs, NEW period \in Periods, WriteCfg(hz, period)
       PROVE  CfgInv'
  <2> DEFINE k == Written(hz, period)
             n == [k EXCEPT !.odr_hz = SnapOdr(hz)]
  <2>1. cfg' = n /\ accepted' = n /\ writes' = writes + 1 /\ Valid(k)
    BY <1>19, SMT DEF WriteCfg
  <2>2. k = [owner_id |-> writes + 1, odr_hz |-> hz, period_s |-> period]
    BY DEF Written
  <2>3. Live(n, writes + 1)
    BY <2>1, <2>2, WrittenIsLive, Zenon
  <2>4. /\ Carried(nvs, writes + 1)
        /\ Carried(c, writes + 1)
        /\ \A t \in Loaders : Carried(loaded[t], writes + 1)
    BY LiveStays, writes + 1 \in Nat, writes <= writes + 1
  <2> HIDE DEF n
  <2> QED BY <1>19, <2>1, <2>3, <2>4, SMTT(20) DEF WriteCfg
<1>20. ASSUME UNCHANGED vars PROVE CfgInv'
  BY <1>20, SMT DEF vars
<1>21. ASSUME Crash PROVE CfgInv'
  BY <1>21, DefaultIsLive, SMT DEF Crash, BootPc
<1> QED BY <1>1, <1>2, <1>3, <1>4, <1>5, <1>6, <1>7, <1>8, <1>9, <1>10, <1>11,
           <1>12, <1>13, <1>14, <1>15, <1>16, <1>17, <1>18, <1>19, <1>20,
           <1>21, NextCases, SMT

\* Every step keeps the invariant on the order of the boot.
LEMMA BootInvStep ==
  ASSUME CfgInv, BootInv, [Next]_vars
  PROVE  BootInv'
<1> USE DEF vars, cfgVars, workVars, nvsVars, accelVars, Goto, Fault,
            SubmitApply, BootInv, Threads, Loaders, Steps
<1>1. ASSUME BtReady PROVE BootInv'
  BY <1>1, SMT DEF BtReady
<1>2. ASSUME BtReadyAdv PROVE BootInv'
  BY <1>2, SMT DEF BtReadyAdv
<1>3. ASSUME ApplyStart PROVE BootInv'
  BY <1>3, SMT DEF ApplyStart
<1>4. ASSUME ApplySave PROVE BootInv'
  BY <1>4, SMT DEF ApplySave
<1>5. ASSUME ApplySaveError PROVE BootInv'
  BY <1>5, SMT DEF ApplySaveError
<1>6. ASSUME NoLoad PROVE BootInv'
  BY <1>6, SMT DEF NoLoad
<1>7. ASSUME AccelInit PROVE BootInv'
  BY <1>7, SMT DEF AccelInit
<1>8. ASSUME AccelInitError PROVE BootInv'
  BY <1>8, SMT DEF AccelInitError
<1>9. ASSUME AccelStart PROVE BootInv'
  BY <1>9, SMT DEF AccelStart
<1>10. ASSUME BleInit PROVE BootInv'
  BY <1>10, SMT DEF BleInit
<1>11. ASSUME PollTake PROVE BootInv'
  BY <1>11, SMT DEF PollTake
<1>12. ASSUME PollSet PROVE BootInv'
  BY <1>12, SMT DEF PollSet
<1>13. ASSUME PollSetError PROVE BootInv'
  BY <1>13, SMT DEF PollSetError
<1>14. ASSUME UdtestLoad PROVE BootInv'
  BY <1>14, SMT DEF UdtestLoad
<1>15. ASSUME NEW t \in Loaders, LoadRead(t) PROVE BootInv'
  BY <1>15, SMT DEF LoadRead
<1>16. ASSUME NEW t \in Loaders, LoadReadError(t) PROVE BootInv'
  BY <1>16, SMT DEF LoadReadError
<1>17. ASSUME NEW t \in Loaders, LoadSet(t) PROVE BootInv'
  BY <1>17, SMT DEF LoadSet
<1>18. ASSUME NEW t \in Loaders, LoadCommit(t) PROVE BootInv'
  BY <1>18, SMT DEF LoadCommit, NextOfLoad
<1>19. ASSUME NEW hz \in RawOdrs, NEW period \in Periods, WriteCfg(hz, period)
       PROVE  BootInv'
  <2>1. accepted' # NoCfg
    <3> DEFINE k == Written(hz, period)
    <3>1. accepted' = [k EXCEPT !.odr_hz = SnapOdr(hz)] /\ Valid(k)
      BY <1>19, SMT DEF WriteCfg
    <3>2. k = [owner_id |-> writes + 1, odr_hz |-> hz, period_s |-> period]
      BY DEF Written
    <3>3. writes \in Nat
      BY DEF CfgInv
    <3> QED BY <3>1, <3>2, <3>3, WrittenIsLive, Zenon
  <2>2. pc["WorkQ"] \notin {"load", "set", "commit", "adv"} /\ pc["Main"] = "done"
    BY <1>19 DEF WriteCfg
  <2> QED BY <1>19, <2>1, <2>2, Zenon DEF WriteCfg
<1>20. ASSUME UNCHANGED vars PROVE BootInv'
  BY <1>20, SMT DEF vars
<1>21. ASSUME Crash PROVE BootInv'
  BY <1>21, SMT DEF Crash, BootPc
<1> QED BY <1>1, <1>2, <1>3, <1>4, <1>5, <1>6, <1>7, <1>8, <1>9, <1>10, <1>11,
           <1>12, <1>13, <1>14, <1>15, <1>16, <1>17, <1>18, <1>19, <1>20,
           <1>21, NextCases, SMT

\* Every step keeps the invariant on what accel.c and the chip have.
LEMMA AccelInvStep ==
  ASSUME CfgInv, BootInv, AccelInv, [Next]_vars
  PROVE  AccelInv'
<1> USE DEF vars, cfgVars, workVars, nvsVars, accelVars, Goto, Fault,
            SubmitApply, CfgInv, BootInv, AccelInv, Applied, Threads, Loaders
<1>1. ASSUME BtReady PROVE AccelInv'
  BY <1>1, SMT DEF BtReady
<1>2. ASSUME BtReadyAdv PROVE AccelInv'
  BY <1>2, SMT DEF BtReadyAdv
<1>3. ASSUME ApplyStart PROVE AccelInv'
  BY <1>3, LiveFields, SMT DEF ApplyStart
<1>4. ASSUME ApplySave PROVE AccelInv'
  BY <1>4, SMT DEF ApplySave
<1>5. ASSUME ApplySaveError PROVE AccelInv'
  BY <1>5, SMT DEF ApplySaveError
<1>6. ASSUME NoLoad PROVE AccelInv'
  BY <1>6, SMT DEF NoLoad
<1>7. ASSUME AccelInit PROVE AccelInv'
  BY <1>7, LiveFields, DefaultIsLive, SMT DEF AccelInit
<1>8. ASSUME AccelInitError PROVE AccelInv'
  BY <1>8, SMT DEF AccelInitError
<1>9. ASSUME AccelStart PROVE AccelInv'
  BY <1>9, SMT DEF AccelStart
<1>10. ASSUME BleInit PROVE AccelInv'
  BY <1>10, SMT DEF BleInit
<1>11. ASSUME PollTake PROVE AccelInv'
  BY <1>11, SMT DEF PollTake
<1>12. ASSUME PollSet PROVE AccelInv'
  BY <1>12, SMT DEF PollSet
<1>13. ASSUME PollSetError PROVE AccelInv'
  BY <1>13, SMT DEF PollSetError
<1>14. ASSUME UdtestLoad PROVE AccelInv'
  BY <1>14, SMT DEF UdtestLoad
<1>15. ASSUME NEW t \in Loaders, LoadRead(t) PROVE AccelInv'
  BY <1>15, SMT DEF LoadRead
<1>16. ASSUME NEW t \in Loaders, LoadReadError(t) PROVE AccelInv'
  BY <1>16, SMT DEF LoadReadError
<1>17. ASSUME NEW t \in Loaders, LoadSet(t) PROVE AccelInv'
  BY <1>17, SMT DEF LoadSet
<1>18. ASSUME NEW t \in Loaders, LoadCommit(t) PROVE AccelInv'
  BY <1>18, SMT DEF LoadCommit, NextOfLoad
<1>19. ASSUME NEW hz \in RawOdrs, NEW period \in Periods, WriteCfg(hz, period)
       PROVE  AccelInv'
  BY <1>19, SMT DEF WriteCfg, Written
<1>20. ASSUME UNCHANGED vars PROVE AccelInv'
  BY <1>20, SMT DEF vars
<1>21. ASSUME Crash PROVE AccelInv'
  BY <1>21, DefaultIsLive, SMT DEF Crash, BootPc
<1> QED BY <1>1, <1>2, <1>3, <1>4, <1>5, <1>6, <1>7, <1>8, <1>9, <1>10, <1>11,
           <1>12, <1>13, <1>14, <1>15, <1>16, <1>17, <1>18, <1>19, <1>20,
           <1>21, NextCases, SMT

\* Every step keeps the invariant on what NVS has.
LEMMA SaveInvStep ==
  ASSUME CfgInv, BootInv, SaveInv, [Next]_vars
  PROVE  SaveInv'
<1> USE DEF vars, cfgVars, workVars, nvsVars, accelVars, Goto, Fault,
            SubmitApply, CfgInv, BootInv, SaveInv, Threads, Loaders
<1>1. ASSUME BtReady PROVE SaveInv'
  BY <1>1, SMT DEF BtReady
<1>2. ASSUME BtReadyAdv PROVE SaveInv'
  BY <1>2, SMT DEF BtReadyAdv
<1>3. ASSUME ApplyStart PROVE SaveInv'
  BY <1>3, LiveFields, SMT DEF ApplyStart
<1>4. ASSUME ApplySave PROVE SaveInv'
  BY <1>4, SMT DEF ApplySave
<1>5. ASSUME ApplySaveError PROVE SaveInv'
  BY <1>5, SMT DEF ApplySaveError
<1>6. ASSUME NoLoad PROVE SaveInv'
  BY <1>6, SMT DEF NoLoad
<1>7. ASSUME AccelInit PROVE SaveInv'
  BY <1>7, SMT DEF AccelInit
<1>8. ASSUME AccelInitError PROVE SaveInv'
  BY <1>8, SMT DEF AccelInitError
<1>9. ASSUME AccelStart PROVE SaveInv'
  BY <1>9, SMT DEF AccelStart
<1>10. ASSUME BleInit PROVE SaveInv'
  BY <1>10, SMT DEF BleInit
<1>11. ASSUME PollTake PROVE SaveInv'
  BY <1>11, SMT DEF PollTake
<1>12. ASSUME PollSet PROVE SaveInv'
  BY <1>12, SMT DEF PollSet
<1>13. ASSUME PollSetError PROVE SaveInv'
  BY <1>13, SMT DEF PollSetError
<1>14. ASSUME UdtestLoad PROVE SaveInv'
  BY <1>14, SMT DEF UdtestLoad
<1>15. ASSUME NEW t \in Loaders, LoadRead(t) PROVE SaveInv'
  BY <1>15, SMT DEF LoadRead
<1>16. ASSUME NEW t \in Loaders, LoadReadError(t) PROVE SaveInv'
  BY <1>16, SMT DEF LoadReadError
<1>17. ASSUME NEW t \in Loaders, LoadSet(t) PROVE SaveInv'
  BY <1>17, SMT DEF LoadSet
<1>18. ASSUME NEW t \in Loaders, LoadCommit(t) PROVE SaveInv'
  BY <1>18, SMT DEF LoadCommit, NextOfLoad
<1>19. ASSUME NEW hz \in RawOdrs, NEW period \in Periods, WriteCfg(hz, period)
       PROVE  SaveInv'
  <2> DEFINE k == Written(hz, period)
             n == [k EXCEPT !.odr_hz = SnapOdr(hz)]
  <2>1. cfg' = n /\ accepted' = n /\ Valid(k)
    BY <1>19, SMT DEF WriteCfg
  <2>2. k = [owner_id |-> writes + 1, odr_hz |-> hz, period_s |-> period]
    BY DEF Written
  <2>3. n.owner_id = writes + 1
    BY <2>1, <2>2, WrittenIsLive, Zenon
  <2>4. /\ nvs.owner_id \in Nat /\ nvs.owner_id <= writes
        /\ c.owner_id \in Nat /\ c.owner_id <= writes
    BY LiveFields, DefaultIsLive, SMT DEF Carried
  <2>5. /\ nvs.owner_id <= accepted'.owner_id /\ c.owner_id <= accepted'.owner_id
        /\ cfg' = accepted'
    <3> HIDE DEF n
    <3> QED BY <2>1, <2>3, <2>4, SMT
  <2>6. /\ cfg_save_pending' = TRUE
        /\ nvs' = nvs /\ c' = c /\ pc' = pc /\ loads' = loads
    BY <1>19 DEF WriteCfg
  <2>7. pc["WorkQ"] = "save" /\ loads = 0 => nvs.owner_id <= c.owner_id
    BY SMT
  <2> QED BY <2>5, <2>6, <2>7, Zenon
<1>20. ASSUME UNCHANGED vars PROVE SaveInv'
  BY <1>20, SMT DEF vars
<1>21. ASSUME Crash PROVE SaveInv'
  BY <1>21, SMT DEF Crash, BootPc
<1> QED BY <1>1, <1>2, <1>3, <1>4, <1>5, <1>6, <1>7, <1>8, <1>9, <1>10, <1>11,
           <1>12, <1>13, <1>14, <1>15, <1>16, <1>17, <1>18, <1>19, <1>20,
           <1>21, NextCases, SMT

-----------------------------------------------------------------------------
(* The theorems.                                                           *)

\* The initial state satisfies the inductive invariant.
LEMMA InitIInv == Init => IInv
<1> SUFFICES ASSUME Init PROVE IInv
  OBVIOUS
<1> USE DEF Init, BootPc, Threads, Loaders
<1>1. FlagInv
  <2>1. faults \in Nat /\ crashes \in Nat
    OBVIOUS
  <2> QED BY <2>1, Zenon DEF FlagInv
<1>2. CfgInv
  BY DefaultIsLive, SMT DEF CfgInv, Carried
<1>3. BootInv
  BY SMT DEF BootInv, Steps
<1>4. AccelInv
  BY DefaultIsLive, SMT DEF AccelInv
<1>5. SaveInv
  BY DEF SaveInv
<1> QED BY <1>1, <1>2, <1>3, <1>4, <1>5 DEF IInv

\* Every reachable state satisfies the inductive invariant.
THEOREM InductiveInvariant == Spec => []IInv
<1>1. IInv /\ [Next]_vars => IInv'
  <2> SUFFICES ASSUME IInv, [Next]_vars PROVE IInv'
    OBVIOUS
  <2>1. FlagInv /\ CfgInv /\ BootInv /\ AccelInv /\ SaveInv
    BY Zenon DEF IInv
  <2> QED BY <2>1, FlagInvStep, CfgInvStep, BootInvStep, AccelInvStep,
             SaveInvStep, Zenon DEF IInv
<1> QED BY <1>1, InitIInv, PTL DEF Spec

\* The types of the configuration module's state: every configuration on its
\* way has the fields of one, and the chip and accel.c only ever see supported
\* ODRs and periods of 1 to 3600 s, whatever clients write.
THEOREM TypeCorrect == Spec => []TypeOK
<1>1. IInv => TypeOK
  <2> SUFFICES ASSUME IInv PROVE TypeOK
    OBVIOUS
  <2>1. /\ {cfg, nvs, c, accepted} \subseteq Config
        /\ loaded \in [Loaders -> Config]
    BY LiveFields, DefaultIsLive, SMT DEF IInv, CfgInv, Carried
  <2>2. telemetry_period_s \in 1..3600
    <3>1. /\ telemetry_period_s \in Nat
          /\ telemetry_period_s >= 1 /\ telemetry_period_s <= 3600
      BY SMT DEF IInv, AccelInv
    <3> QED BY <3>1, PeriodRange
  <2>3. {odr_hz_pending, chip_odr, odr} \subseteq accel_odr_supported \cup {0}
    BY SMT DEF IInv, AccelInv
  <2>4. /\ pc \in [Threads -> Steps]
        /\ {writes, loads, faults, crashes} \subseteq Nat
    BY SMT DEF IInv, FlagInv, CfgInv, BootInv
  <2>5. FlagInv
    BY Zenon DEF IInv
  <2> HIDE DEF IInv
  <2> QED BY <2>1, <2>2, <2>3, <2>4, <2>5, SMT DEF TypeOK, FlagInv, Steps
<1> QED BY <1>1, InductiveInvariant, PTL

\* Settled: when nothing is under way, accel.c and the chip run with the live
\* configuration and NVS holds the accepted one, for every number of writes,
\* resets and faults and every order of boot, loads, writes and polling.
THEOREM ConfigurationSettles == Spec => []Settled
<1>1. IInv => Settled
  <2> SUFFICES ASSUME IInv, Quiet PROVE Settled
    BY DEF Settled
  <2>1. Applied
    BY Zenon DEF Quiet, Applied, Loaders
  <2>2. ~cfg_save_pending
    BY Zenon DEF IInv, BootInv, Quiet
  <2>3. telemetry_period_s = cfg.period_s
    BY <2>1, SMT DEF IInv, AccelInv
  <2>4. (pc["Poll"] = "sleep" /\ odr_hz_pending = 0 /\ ~odr_failed) =>
          chip_odr = cfg.odr_hz
    BY <2>1, SMT DEF IInv, AccelInv
  <2>5. pc["WorkQ"] # "save"
    BY SMT DEF Quiet
  <2>6. (accepted # NoCfg /\ ~save_failed /\ loads = 0) =>
          cfg = accepted /\ nvs = accepted
    BY <2>2, <2>5, Zenon DEF IInv, SaveInv
  <2> QED BY <2>3, <2>4, <2>6 DEF Settled
<1> QED BY <1>1, InductiveInvariant, PTL

\* NvsMovesOn: NVS never goes back to an earlier configuration, however many
\* writes, boots and failed loads and saves there are.
THEOREM NvsNeverGoesBack == Spec => NvsMovesOn
<1>1. IInv /\ [Next]_vars => [loads = 0 => nvs'.owner_id >= nvs.owner_id]_vars
  <2> SUFFICES ASSUME IInv, [Next]_vars, loads = 0
               PROVE  nvs'.owner_id >= nvs.owner_id
    OBVIOUS
  <2>1. nvs.owner_id \in Nat
    BY LiveFields, DefaultIsLive, SMT DEF IInv, CfgInv, Carried
  <2>2. CASE nvs' = nvs
    BY <2>1, <2>2
  <2>3. CASE ApplySave
    <3>1. nvs' = c /\ pc["WorkQ"] = "save"
      BY <2>3 DEF ApplySave, Goto
    <3>2. accepted # NoCfg
      BY <3>1, Zenon DEF IInv, BootInv
    <3>3. nvs.owner_id <= c.owner_id
      BY <3>1, <3>2, SMT DEF IInv, SaveInv
    <3>4. c.owner_id \in Nat
      BY LiveFields, DefaultIsLive, SMT DEF IInv, CfgInv, Carried
    <3> QED BY <2>1, <3>1, <3>3, <3>4
  <2>4. ApplySave \/ nvs' = nvs
    BY NextCases, Zenon
       DEF vars, cfgVars, workVars, nvsVars, accelVars, BtReady, BtReadyAdv,
           ApplyStart, ApplySaveError, NoLoad, AccelInit, AccelInitError,
           AccelStart, BleInit, PollTake, PollSet, PollSetError, UdtestLoad,
           Crash, LoadRead, LoadReadError, LoadSet, LoadCommit, WriteCfg
  <2> QED BY <2>2, <2>3, <2>4
<1> QED BY <1>1, InductiveInvariant, PTL DEF Spec, NvsMovesOn
=============================================================================

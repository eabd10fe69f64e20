----------------------------- MODULE BleLinkProofs -----------------------------
(***************************************************************************)
(* Proofs about BleLink, for any number of failing calls of the Bluetooth  *)
(* host, and with ble_sleep() called or not.                               *)
(***************************************************************************)
EXTENDS BleLink, TLAPS

-----------------------------------------------------------------------------
(* What the two flags is_sleeping, the running handler and                 *)
(* adv_restart_work have to do with each other.                            *)

SleepPcs == {"sleep_disconnect", "sleep_cancel", "sleep_stop"}

\* A badge that sleeps has started; the two flags agree as main.c has it.
FlagsInv ==
  /\ sleep_queued \/ main_sleeping => started
  /\ main_sleeping => (ble_sleeping <=> calls_sleep)
  /\ ble_sleeping => main_sleeping

\* The handler that puts it to sleep runs, or none does; once the restart is
\* cancelled nothing schedules another.
SleepInv ==
  /\ pc \in SleepPcs => Asleep
  /\ Asleep => pc \in {"idle"} \cup SleepPcs
  /\ Asleep /\ pc \in {"idle", "sleep_stop"} => adv_restart_work = {}

IInv ==
  /\ TypeOK
  /\ FlagsInv
  /\ SleepInv
  /\ NoLostAdvertising

(***************************************************************************)
(* No flag is set before bt_ready(), and nothing runs.                     *)
(***************************************************************************)
LEMMA InitInv == Init => IInv
<1> SUFFICES ASSUME Init PROVE IInv
  OBVIOUS
<1> USE BleLinkAssumption DEF Init, Asleep, SleepPcs
<1>1. TypeOK
  BY DEF TypeOK
<1>2. FlagsInv
  BY DEF FlagsInv
<1>3. SleepInv
  BY DEF SleepInv
<1>4. NoLostAdvertising
  BY DEF NoLostAdvertising
<1> QED
  BY <1>1, <1>2, <1>3, <1>4 DEF IInv

(***************************************************************************)
(* A failing call is counted.                                              *)
(***************************************************************************)
LEMMA FaultsInNat == faults \in Nat /\ Fault => faults' \in Nat
  BY DEF Fault

(***************************************************************************)
(* The steps of bt_ready().                                                *)
(***************************************************************************)
LEMMA BootInv ==
  ASSUME IInv, BtReady \/ BtReadyAdv \/ BtReadyAdvError \/ GattBadgeBtReady
  PROVE  IInv'
<1> USE BleLinkAssumption
    DEF Goto, Asleep, SleepPcs, IInv, TypeOK, FlagsInv, SleepInv,
        NoLostAdvertising, linkVars, sleepVars, bootVars
<1>1. CASE BtReady
  BY <1>1 DEF BtReady
<1>2. CASE BtReadyAdv
  BY <1>2 DEF BtReadyAdv, AdvStarts
<1>3. CASE BtReadyAdvError
  <2>1. faults' \in Nat
    BY <1>3, FaultsInNat DEF BtReadyAdvError, AdvFails
  <2> QED
    BY <1>3, <2>1 DEF BtReadyAdvError, AdvFails
<1>4. CASE GattBadgeBtReady
  BY <1>4 DEF GattBadgeBtReady
<1> QED
  BY <1>1, <1>2, <1>3, <1>4

(***************************************************************************)
(* The steps of the controller and the callbacks of BT RX.                 *)
(***************************************************************************)
LEMMA ConnectionInv ==
  ASSUME IInv, LinkUp \/ Connected \/ LinkDown \/ Disconnected
  PROVE  IInv'
<1> USE BleLinkAssumption
    DEF Asleep, SleepPcs, IInv, TypeOK, FlagsInv, SleepInv,
        NoLostAdvertising, linkVars, sleepVars, bootVars
<1>1. CASE LinkUp
  BY <1>1 DEF LinkUp
<1>2. CASE Connected
  BY <1>2 DEF Connected
<1>3. CASE LinkDown
  BY <1>3 DEF LinkDown
<1>4. CASE Disconnected
  BY <1>4 DEF Disconnected
<1> QED
  BY <1>1, <1>2, <1>3, <1>4

(***************************************************************************)
(* The steps of adv_restart_work and of ble_wake(), with the press before. *)
(***************************************************************************)
LEMMA AdvertisingInv ==
  ASSUME IInv, RestartTimeout \/ RestartStart \/ Restart \/ Press \/ Wake
  PROVE  IInv'
<1> USE BleLinkAssumption
    DEF Goto, Asleep, SleepPcs, IInv, TypeOK, FlagsInv, SleepInv,
        NoLostAdvertising, linkVars, sleepVars, bootVars
<1>1. CASE RestartTimeout
  BY <1>1 DEF RestartTimeout
<1>2. CASE RestartStart
  BY <1>2 DEF RestartStart
<1>3. CASE Restart
  <2>1. faults' \in Nat
    BY <1>3, FaultsInNat DEF Restart, AdvStarts, AdvRefused, AdvFails
  <2>2. CASE AdvStarts
    BY <1>3, <2>1, <2>2 DEF Restart, AdvStarts
  <2>3. CASE AdvRefused
    BY <1>3, <2>1, <2>3 DEF Restart, AdvRefused
  <2>4. CASE AdvFails
    BY <1>3, <2>1, <2>4 DEF Restart, AdvFails
  <2> QED
    BY <1>3, <2>2, <2>3, <2>4 DEF Restart
<1>4. CASE Press
  BY <1>4 DEF Press
<1>5. CASE Wake
  <2>1. faults' \in Nat
    BY <1>5, FaultsInNat DEF Wake, AdvStarts, AdvRefused, AdvFails
  <2>2. CASE AdvStarts
    BY <1>5, <2>1, <2>2 DEF Wake, AdvStarts
  <2>3. CASE AdvRefused
    BY <1>5, <2>1, <2>3 DEF Wake, AdvRefused
  <2>4. CASE AdvFails
    BY <1>5, <2>1, <2>4 DEF Wake, AdvFails
  <2> QED
    BY <1>5, <2>2, <2>3, <2>4 DEF Wake
<1> QED
  BY <1>1, <1>2, <1>3, <1>4, <1>5

(***************************************************************************)
(* The steps of sleep_work and ble_sleep().                                *)
(***************************************************************************)
LEMMA SleepStepInv ==
  ASSUME IInv,
         \/ SleepTimeout \/ SleepStart \/ SleepDisconnect
         \/ SleepDisconnectError \/ SleepCancel \/ SleepStop \/ SleepStopError
  PROVE  IInv'
<1> USE BleLinkAssumption
    DEF Goto, Asleep, SleepPcs, IInv, TypeOK, FlagsInv, SleepInv,
        NoLostAdvertising, linkVars, sleepVars, bootVars
<1>1. CASE SleepTimeout
  BY <1>1 DEF SleepTimeout
<1>2. CASE SleepStart
  BY <1>2 DEF SleepStart
<1>3. CASE SleepDisconnect
  BY <1>3 DEF SleepDisconnect
<1>4. CASE SleepDisconnectError
  <2>1. faults' \in Nat
    BY <1>4, FaultsInNat DEF SleepDisconnectError
  <2> QED
    BY <1>4, <2>1 DEF SleepDisconnectError
<1>5. CASE SleepCancel
  BY <1>5 DEF SleepCancel
<1>6. CASE SleepStop
  BY <1>6 DEF SleepStop
<1>7. CASE SleepStopError
  <2>1. faults' \in Nat
    BY <1>7, FaultsInNat DEF SleepStopError
  <2> QED
    BY <1>7, <2>1 DEF SleepStopError
<1> QED
  BY <1>1, <1>2, <1>3, <1>4, <1>5, <1>6, <1>7

(***************************************************************************)
(* IInv is inductive.                                                      *)
(***************************************************************************)
LEMMA NextInv == IInv /\ [Next]_vars => IInv'
<1> SUFFICES ASSUME IInv, [Next]_vars PROVE IInv'
  OBVIOUS
<1>1. CASE UNCHANGED vars
  BY <1>1 DEF vars, linkVars, sleepVars, bootVars, IInv, TypeOK, FlagsInv,
              SleepInv, NoLostAdvertising, Asleep, SleepPcs
<1>2. CASE Next
  BY <1>2, BootInv, ConnectionInv, AdvertisingInv, SleepStepInv
     DEF Next, HandlerStep
<1> QED
  BY <1>1, <1>2

(***************************************************************************)
(* The inductive invariant holds in every state.                           *)
(***************************************************************************)
THEOREM Invariance == Spec => []IInv
  BY InitInv, NextInv, PTL DEF Spec

(***************************************************************************)
(* The types, and that default_conn is a connection connected() was told   *)
(* of and disconnected() was not (ble.c).                                  *)
(***************************************************************************)
THEOREM TypeCorrect == Spec => []TypeOK
<1>1. IInv => TypeOK
  BY DEF IInv
<1> QED
  BY Invariance, <1>1, PTL

(***************************************************************************)
(* No order of disconnected(), ble_sleep(), ble_wake() and                 *)
(* adv_restart_work leaves a badge that is awake and not connected         *)
(* invisible, but for a bt_le_adv_start() that failed.                     *)
(***************************************************************************)
THEOREM NoLostAdvertisingSafe == Spec => []NoLostAdvertising
<1>1. IInv => NoLostAdvertising
  BY DEF IInv
<1> QED
  BY Invariance, <1>1, PTL

(***************************************************************************)
(* Only bt_ready(), adv_restart_work_handler() and ble_wake() start        *)
(* advertising, and none of them runs while the badge sleeps.              *)
(***************************************************************************)
LEMMA SilentStep == IInv /\ [Next]_vars => (Asleep /\ ~adv => ~adv')
<1> SUFFICES ASSUME IInv, [Next]_vars, Asleep, ~adv PROVE ~adv'
  OBVIOUS
<1>1. pc \notin {"ready_adv", "restart", "wake"}
  BY DEF IInv, SleepInv, SleepPcs
<1>2. CASE UNCHANGED vars
  BY <1>2 DEF vars, linkVars
<1>3. CASE Next
  BY <1>1, <1>3
     DEF Next, HandlerStep, BtReady, BtReadyAdv, BtReadyAdvError,
         GattBadgeBtReady, LinkUp, Connected, LinkDown, Disconnected,
         RestartTimeout, RestartStart, Restart, SleepTimeout, SleepStart,
         SleepDisconnect, SleepDisconnectError, SleepCancel, SleepStop,
         SleepStopError, Press, Wake, Goto, linkVars
<1> QED
  BY <1>2, <1>3

(***************************************************************************)
(* A sleeping badge that is silent stays silent (ble.c:141).               *)
(***************************************************************************)
THEOREM SilentInSleepSafe == Spec => SilentInSleep
<1>1. IInv /\ [Next]_vars => [Asleep /\ ~adv => ~adv']_vars
  BY SilentStep
<1> QED
  BY Invariance, <1>1, PTL DEF Spec, SilentInSleep
=============================================================================

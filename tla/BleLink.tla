-------------------------------- MODULE BleLink --------------------------------
(***************************************************************************)
(* Connection, advertising and sleep: ble.c with its callers in main.c and *)
(* button.c.  The handlers of the system workqueue run one after another   *)
(* (pc is the step of the one that runs); the callbacks connected() and    *)
(* disconnected() run in the BT RX thread while a handler waits for the    *)
(* controller in bt_le_adv_start(), bt_le_adv_stop(), bt_conn_disconnect(). *)
(* Both threads are cooperative: between two such calls is one step.       *)
(*                                                                         *)
(* The Bluetooth host is modelled from its use: one connection at most     *)
(* (prj.conf leaves CONFIG_BT_MAX_CONN at its default, 1), a connection    *)
(* ends advertising, and advertising does not start while there is one or  *)
(* while it is on.                                                         *)
(*                                                                         *)
(* main.c has its call of ble_sleep() in a comment (line 77).  calls_sleep *)
(* says whether it is made, so that the API of ble.c is checked as well as *)
(* the program as it is.                                                   *)
(***************************************************************************)
EXTENDS Naturals

CONSTANTS
  CallsSleep,         \* the values of calls_sleep to look at
  MaxFaults           \* bound: calls of the Bluetooth host that fail

ASSUME BleLinkAssumption ==
  /\ CallsSleep \subseteq BOOLEAN
  /\ MaxFaults \in Nat

VARIABLES
  calls_sleep,        \* sleep_work_handler() calls ble_sleep()
  started,            \* bt_ready() has run
  bt_ready_flag,      \* gatt_badge_bt_ready() has run
  adv,                \* the radio advertises
  adv_failed,         \* the last bt_le_adv_start() failed
  link,               \* the connection: none, coming up, up, going down
  default_conn,       \* ble.c holds a reference to it
  ble_sleeping,       \* is_sleeping of ble.c
  main_sleeping,      \* is_sleeping of main.c
  adv_restart_work,   \* {}, or "scheduled" (20 ms), "queued", or both
  sleep_timer,        \* the 10 s of sleep_work run
  sleep_queued,       \* sleep_work is on the workqueue
  pc,                 \* the step of the running handler
  faults

linkVars  == <<adv, adv_failed, link, default_conn>>
sleepVars == <<ble_sleeping, main_sleeping, sleep_timer, sleep_queued>>
bootVars  == <<calls_sleep, started, bt_ready_flag>>
vars == <<bootVars, linkVars, sleepVars, adv_restart_work, pc, faults>>

Goto(from, to) ==
  /\ pc = from
  /\ pc' = to

Fault ==
  /\ faults < MaxFaults
  /\ faults' = faults + 1

Init ==
  /\ calls_sleep \in CallsSleep
  /\ started = FALSE
  /\ bt_ready_flag = FALSE
  /\ adv = FALSE
  /\ adv_failed = FALSE
  /\ link = "none"
  /\ default_conn = FALSE
  /\ ble_sleeping = FALSE
  /\ main_sleeping = FALSE
  /\ adv_restart_work = {}
  /\ sleep_timer = FALSE
  /\ sleep_queued = FALSE
  /\ pc = "idle"
  /\ faults = 0

-----------------------------------------------------------------------------
(* bt_le_adv_start(): it starts, or is refused (-EALREADY, -ENOMEM) as the *)
(* radio is in use, or fails.                                              *)

AdvStarts ==
  /\ ~adv /\ link = "none"
  /\ adv' = TRUE
  /\ adv_failed' = FALSE
  /\ UNCHANGED <<link, default_conn, faults>>

AdvRefused ==
  /\ adv \/ link # "none"
  /\ UNCHANGED <<linkVars, faults>>

AdvFails ==
  /\ ~adv
  /\ Fault
  /\ adv_failed' = TRUE
  /\ UNCHANGED <<adv, link, default_conn>>

-----------------------------------------------------------------------------
(* bt_ready(), after settings_load().                                      *)

BtReady ==
  /\ Goto("idle", "ready_adv")
  /\ ~started
  /\ started' = TRUE
  /\ sleep_timer' = TRUE
  /\ UNCHANGED <<calls_sleep, bt_ready_flag, linkVars, ble_sleeping,
                 main_sleeping, sleep_queued, adv_restart_work, faults>>

BtReadyAdv ==
  /\ Goto("ready_adv", "ready")
  /\ AdvStarts
  /\ UNCHANGED <<bootVars, sleepVars, adv_restart_work>>

\* It returns without gatt_badge_bt_ready().
BtReadyAdvError ==
  /\ Goto("ready_adv", "idle")
  /\ AdvFails
  /\ UNCHANGED <<bootVars, sleepVars, adv_restart_work>>

GattBadgeBtReady ==
  /\ Goto("ready", "idle")
  /\ bt_ready_flag' = TRUE
  /\ UNCHANGED <<calls_sleep, started, linkVars, sleepVars, adv_restart_work,
                 faults>>

-----------------------------------------------------------------------------
(* The controller and BT RX.                                               *)

\* A central connects.
LinkUp ==
  /\ adv
  /\ link = "none"
  /\ adv' = FALSE
  /\ link' = "coming up"
  /\ UNCHANGED <<bootVars, adv_failed, default_conn, sleepVars,
                 adv_restart_work, pc, faults>>

Connected ==
  /\ link = "coming up"
  /\ link' = "up"
  /\ default_conn' = TRUE
  /\ UNCHANGED <<bootVars, adv, adv_failed, sleepVars, adv_restart_work, pc,
                 faults>>

\* The central leaves or is out of range.
LinkDown ==
  /\ link = "up"
  /\ link' = "going down"
  /\ UNCHANGED <<bootVars, adv, adv_failed, default_conn, sleepVars,
                 adv_restart_work, pc, faults>>

\* A mutant: the return for the sleeping badge comes first.
Mutant_Disconnected ==
  /\ link = "going down"
  /\ link' = "none"
  /\ default_conn' = (default_conn /\ ble_sleeping)
  /\ adv_restart_work' = IF ble_sleeping THEN adv_restart_work
                         ELSE adv_restart_work \cup {"scheduled"}
  /\ UNCHANGED <<bootVars, adv, adv_failed, sleepVars, pc, faults>>

Disconnected ==
  /\ link = "going down"
  /\ link' = "none"
  /\ default_conn' = FALSE
  /\ adv_restart_work' = IF ble_sleeping THEN adv_restart_work
                         ELSE adv_restart_work \cup {"scheduled"}
  /\ UNCHANGED <<bootVars, adv, adv_failed, sleepVars, pc, faults>>

-----------------------------------------------------------------------------
(* adv_restart_work.                                                       *)

RestartTimeout ==
  /\ "scheduled" \in adv_restart_work
  /\ adv_restart_work' = {"queued"}
  /\ UNCHANGED <<bootVars, linkVars, sleepVars, pc, faults>>

\* A mutant: it waits for bt_ready_flag, 20 ms at a time.
Mutant_RestartStart ==
  /\ Goto("idle", IF default_conn \/ ~bt_ready_flag THEN "idle" ELSE "restart")
  /\ "queued" \in adv_restart_work
  /\ adv_restart_work' = (adv_restart_work \ {"queued"})
                           \cup IF bt_ready_flag THEN {} ELSE {"scheduled"}
  /\ UNCHANGED <<bootVars, linkVars, sleepVars, faults>>

RestartStart ==
  /\ Goto("idle", IF default_conn THEN "idle" ELSE "restart")
  /\ "queued" \in adv_restart_work
  /\ adv_restart_work' = adv_restart_work \ {"queued"}
  /\ UNCHANGED <<bootVars, linkVars, sleepVars, faults>>

Restart ==
  /\ Goto("restart", "idle")
  /\ AdvStarts \/ AdvRefused \/ AdvFails
  /\ UNCHANGED <<bootVars, sleepVars, adv_restart_work>>

-----------------------------------------------------------------------------
(* sleep_work and ble_sleep().                                             *)

\* Boot is over well within the 10 s.
SleepTimeout ==
  /\ sleep_timer
  /\ started
  /\ sleep_timer' = FALSE
  /\ sleep_queued' = TRUE
  /\ UNCHANGED <<bootVars, linkVars, ble_sleeping, main_sleeping,
                 adv_restart_work, pc, faults>>

\* sleep_work_handler(), and ble_sleep() to its first call of the host.
SleepStart ==
  /\ sleep_queued
  /\ sleep_queued' = FALSE
  /\ Goto("idle", IF main_sleeping \/ ~calls_sleep THEN "idle"
                  ELSE IF default_conn THEN "sleep_disconnect"
                  ELSE "sleep_cancel")
  /\ main_sleeping' = TRUE
  /\ ble_sleeping' = (ble_sleeping \/ calls_sleep)
  /\ UNCHANGED <<bootVars, linkVars, sleep_timer, adv_restart_work, faults>>

\* bt_conn_disconnect(): disconnected() is to come.
SleepDisconnect ==
  /\ Goto("sleep_disconnect", "sleep_cancel")
  /\ link' = IF link = "up" THEN "going down" ELSE link
  /\ UNCHANGED <<bootVars, adv, adv_failed, default_conn, sleepVars,
                 adv_restart_work, faults>>

SleepDisconnectError ==
  /\ Goto("sleep_disconnect", "sleep_cancel")
  /\ Fault
  /\ UNCHANGED <<bootVars, linkVars, sleepVars, adv_restart_work>>

\* A mutant: no k_work_cancel_delayable().
Mutant_SleepCancel ==
  /\ Goto("sleep_cancel", "sleep_stop")
  /\ UNCHANGED <<bootVars, linkVars, sleepVars, adv_restart_work, faults>>

SleepCancel ==
  /\ Goto("sleep_cancel", "sleep_stop")
  /\ adv_restart_work' = {}
  /\ UNCHANGED <<bootVars, linkVars, sleepVars, faults>>

SleepStop ==
  /\ Goto("sleep_stop", "idle")
  /\ adv' = FALSE
  /\ UNCHANGED <<bootVars, adv_failed, link, default_conn, sleepVars,
                 adv_restart_work, faults>>

SleepStopError ==
  /\ Goto("sleep_stop", "idle")
  /\ Fault
  /\ UNCHANGED <<bootVars, linkVars, sleepVars, adv_restart_work>>

-----------------------------------------------------------------------------
(* The button: debounce_work calls on_button_activity().                   *)

\* A mutant: ble_wake() looks for a connection before it clears is_sleeping.
Mutant_Press ==
  /\ Goto("idle", IF main_sleeping /\ ~default_conn THEN "wake" ELSE "idle")
  /\ sleep_timer' = TRUE
  /\ main_sleeping' = FALSE
  /\ ble_sleeping' = (ble_sleeping /\ (default_conn \/ ~main_sleeping))
  /\ UNCHANGED <<bootVars, linkVars, sleep_queued, adv_restart_work, faults>>

\* k_work_reschedule() sets the timer anew and leaves sleep_work, when it is
\* queued, in the queue; ble_wake() follows if the badge slept.
Press ==
  /\ Goto("idle", IF main_sleeping /\ ~default_conn THEN "wake" ELSE "idle")
  /\ sleep_timer' = TRUE
  /\ main_sleeping' = FALSE
  /\ ble_sleeping' = (ble_sleeping /\ ~main_sleeping)
  /\ UNCHANGED <<bootVars, linkVars, sleep_queued, adv_restart_work, faults>>

Wake ==
  /\ Goto("wake", "idle")
  /\ AdvStarts \/ AdvRefused \/ AdvFails
  /\ UNCHANGED <<bootVars, sleepVars, adv_restart_work>>

-----------------------------------------------------------------------------
\* The rest of a handler that has begun.
HandlerStep ==
  \/ BtReadyAdv
  \/ BtReadyAdvError
  \/ GattBadgeBtReady
  \/ Restart
  \/ SleepDisconnect
  \/ SleepDisconnectError
  \/ SleepCancel
  \/ SleepStop
  \/ SleepStopError
  \/ Wake

Next ==
  \/ BtReady
  \/ HandlerStep
  \/ LinkUp
  \/ Connected
  \/ LinkDown
  \/ Disconnected
  \/ RestartTimeout
  \/ RestartStart
  \/ SleepTimeout
  \/ SleepStart
  \/ Press

Spec == Init /\ [][Next]_vars

\* The workqueue runs, first come first served; BT RX runs; timers expire.
\* Nothing is assumed of centrals and of the button.
FairSpec ==
  /\ Spec
  /\ SF_vars(BtReady)
  /\ WF_vars(HandlerStep)
  /\ WF_vars(Connected)
  /\ WF_vars(Disconnected)
  /\ WF_vars(RestartTimeout)
  /\ SF_vars(RestartStart)

-----------------------------------------------------------------------------
\* default_conn is a connection that exists and that connected() was told of.
TypeOK ==
  /\ {calls_sleep, started, bt_ready_flag, adv, adv_failed, default_conn,
      ble_sleeping, main_sleeping, sleep_timer, sleep_queued} \subseteq BOOLEAN
  /\ link \in {"none", "coming up", "up", "going down"}
  /\ default_conn <=> link \in {"up", "going down"}
  /\ adv_restart_work \subseteq {"scheduled", "queued"}
  /\ pc \in {"idle", "ready_adv", "ready", "restart", "sleep_disconnect",
             "sleep_cancel", "sleep_stop", "wake"}
  /\ faults \in Nat

Asleep == main_sleeping /\ ble_sleeping

(***************************************************************************)
(* While the badge is awake and not connected it advertises, or a step is  *)
(* to come that starts advertising, or the last attempt failed: no order   *)
(* of disconnected(), ble_sleep(), ble_wake() and adv_restart_work makes   *)
(* it invisible.                                                           *)
(***************************************************************************)
NoLostAdvertising ==
  (started /\ ~Asleep /\ link = "none") =>
    \/ adv
    \/ adv_failed
    \/ adv_restart_work # {}
    \/ pc \in {"ready_adv", "restart", "wake"}

(***************************************************************************)
(* A sleeping badge that is silent stays silent (ble.c, lines 32 and 141): *)
(* neither disconnected() nor a restart on its way starts advertising.     *)
(***************************************************************************)
SilentInSleep == [][Asleep /\ ~adv => ~adv']_vars

(***************************************************************************)
(* A badge that is awake and has lost its connection can be found, or is   *)
(* connected, or goes to sleep, or an attempt to advertise has failed.     *)
(***************************************************************************)
VisibleAgain ==
  (started /\ ~Asleep /\ link = "going down") ~>
    (adv \/ link = "up" \/ Asleep \/ adv_failed)

-----------------------------------------------------------------------------
(***************************************************************************)
(* bt_ready_flag says that the stack is up; until then notifications are   *)
(* held back (gatt_badge.c:90-92).  So once a client is connected, and no  *)
(* handler is in between, notifications are sent.                          *)
(***************************************************************************)
ConnectedIsNotified == (default_conn /\ pc = "idle") => bt_ready_flag
=============================================================================

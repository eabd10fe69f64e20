------------------------------ MODULE MCEventLog ------------------------------
(***************************************************************************)
(* The threads of the firmware for model checking EventLog: the BLE        *)
(* receive thread writes (connected(), disconnected()), the shell thread   *)
(* writes (udtest) and clears, the work queue writes (button) and clears   *)
(* (GATT command).  The shell is the preemptible one; the others are       *)
(* cooperative.                                                            *)
(***************************************************************************)
EXTENDS EventLog

MCThreads == {"workq", "btrx", "shell"}
MCWorkQ == "workq"
MCClearers == {"workq", "shell"}
MCPreemptible == {"shell"}
=============================================================================

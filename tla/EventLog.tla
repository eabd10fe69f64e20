------------------------------- MODULE EventLog -------------------------------
(***************************************************************************)
(* The event journal of event_log.c: event_log_write() puts an event in    *)
(* the message queue evt_q from any thread, the flush work item of the     *)
(* system work queue appends it to the flash circular buffer (FCB) under   *)
(* journal_lock, and the shell or a GATT command clears the journal under  *)
(* the same lock.  Threads interleave at every access to shared state;     *)
(* power may be lost between any two steps; a flash operation may fail, or *)
(* succeed and leave wrong bytes.                                          *)
(*                                                                         *)
(* The FCB is a Zephyr library.  It is modelled from its use here: sectors *)
(* numbered by their FCB sector id, oldest..active in use, at most         *)
(* NumSectors of them, SlotsPerSector records in each.                     *)
(***************************************************************************)
EXTENDS Integers, Sequences

CONSTANTS
  Threads,            \* threads that call event_log_write()
  WorkQ,              \* the system work queue's thread, one of them
  Clearers,           \* threads that clear: the shell, and WorkQ for GATT
  Preemptible,        \* threads another thread may interrupt: the shell
  QueueDepth,         \* capacity of evt_q (16)
  NumSectors,         \* sectors of the journal partition (32)
  SlotsPerSector,     \* records that fit in a sector (about 255)
  MaxEvents,          \* bound: events accepted into evt_q
  MaxDrops,           \* bound: events refused by a full evt_q
  MaxFaults,          \* bound: flash operations that go wrong
  MaxCrashes          \* bound: power losses

ASSUME EventLogAssumption ==
  /\ WorkQ \in Clearers
  /\ Clearers \subseteq Threads
  /\ Preemptible \subseteq Threads
  /\ QueueDepth \in Nat \ {0}
  /\ NumSectors \in Nat \ {0}
  /\ SlotsPerSector \in Nat \ {0}
  /\ MaxEvents \in Nat
  /\ MaxDrops \in Nat
  /\ MaxFaults \in Nat
  /\ MaxCrashes \in Nat

VARIABLES
  journal_ready,      \* event_log_init() has succeeded
  evt_q,              \* the events waiting, by number
  flush_queued,       \* flush_work is submitted and has not started
  dropped_events,     \* the counter of events refused
  pc,                 \* where each thread is
  reg,                \* the value of dropped_events a thread has loaded
  journal_lock,       \* the threads that hold the mutex
  ev,                 \* the event journal_flush_handler() is working on
  flash,              \* contents of the sectors in use
  oldest,             \* journal_fcb.f_oldest
  active,             \* journal_fcb.f_active
  next_ev,            \* the number the next accepted event gets
  drops, reported,    \* events refused, and refusals logged, since boot
  live,               \* events handed to live_cb
  failed,             \* events whose journal_append() returned an error
  erased,             \* records readable once, then erased
  cutoff,             \* the last event accepted before the last power loss
  faults, crashes     \* how much of the bounds is used

queueVars == <<evt_q, flush_queued, next_ev>>
dropVars  == <<dropped_events, reg, drops, reported>>
fcbVars   == <<flash, oldest, active, erased>>
fateVars  == <<live, failed, cutoff>>
vars == <<journal_ready, queueVars, dropVars, pc, journal_lock, ev, fcbVars,
          fateVars, faults, crashes>>

-----------------------------------------------------------------------------
(* The flash circular buffer.                                              *)

\* A slot: the event it was taken for, its data bytes (10 of them with the
\* record's CRC8) and whether the FCB's own CRC has been written after them.
Entry == [n : 1..MaxEvents, data : {"blank", "good", "bad"}, fin : BOOLEAN]

\* fcb_walk() passes over entries without a valid FCB CRC.
Visible(sectors) ==
  {n \in 1..MaxEvents :
     \E s \in sectors : \E i \in 1..Len(flash[s]) :
       flash[s][i].fin /\ flash[s][i].n = n}

Kept == Visible(oldest..active)

\* A mutant: one sector too many.
Mutant_RoomInRing == active - oldest < NumSectors

RoomInSector == Len(flash[active]) < SlotsPerSector
RoomInRing   == active - oldest + 1 < NumSectors

\* The active sector is the oldest and holds nothing: fcb_is_empty().
FcbIsEmpty == oldest = active /\ flash[active] = <<>>

\* fcb_append() reserves the slot after the last one, in the next sector if
\* the active one is full, and writes its length.
Reserve(n) ==
  LET slot == [n |-> n, data |-> "blank", fin |-> FALSE] IN
  /\ IF RoomInSector
     THEN /\ flash' = [flash EXCEPT ![active] = Append(@, slot)]
          /\ UNCHANGED active
     ELSE /\ flash' = [s \in oldest..(active + 1) |->
                         IF s = active + 1 THEN <<slot>> ELSE flash[s]]
          /\ active' = active + 1
  /\ UNCHANGED <<oldest, erased>>

\* fcb_rotate() erases the oldest sector, and opens a new one first if that
\* was the active one.
Rotate ==
  /\ active' = IF oldest = active THEN active + 1 ELSE active
  /\ oldest' = oldest + 1
  /\ flash' = [s \in (oldest + 1)..active' |->
                 IF s = active + 1 THEN <<>> ELSE flash[s]]
  /\ erased' = erased \cup Visible({oldest})

\* The last slot of the active sector gets the value e.
SetLast(e) ==
  /\ flash' = [flash EXCEPT ![active][Len(flash[active])] = e]
  /\ UNCHANGED <<oldest, active, erased>>

LastSlot == flash[active][Len(flash[active])]

-----------------------------------------------------------------------------
Init ==
  /\ journal_ready = FALSE
  /\ evt_q = <<>>
  /\ flush_queued = FALSE
  /\ dropped_events = 0
  /\ pc = [t \in Threads |-> "idle"]
  /\ reg = [t \in Threads |-> 0]
  /\ journal_lock = {}
  /\ ev = 0
  /\ flash = [s \in 1..1 |-> <<>>]
  /\ oldest = 1
  /\ active = 1
  /\ next_ev = 1
  /\ drops = 0
  /\ reported = 0
  /\ live = {}
  /\ failed = {}
  /\ erased = {}
  /\ cutoff = 0
  /\ faults = 0
  /\ crashes = 0

Goto(t, from, to) ==
  /\ pc[t] = from
  /\ pc' = [pc EXCEPT ![t] = to]

Fault ==
  /\ faults < MaxFaults
  /\ faults' = faults + 1

\* A mutant: the mutex is not waited for.
Mutant_LockFree == TRUE

\* k_mutex_lock() with K_FOREVER returns.
LockFree == journal_lock = {}

-----------------------------------------------------------------------------
(* event_log_write()                                                       *)

\* Before event_log_init() has succeeded the event is ignored.
WriteNotReady(t) ==
  /\ pc[t] = "idle"
  /\ ~journal_ready
  /\ UNCHANGED vars

WritePut(t) ==
  /\ Goto(t, "idle", "submit")
  /\ journal_ready
  /\ next_ev <= MaxEvents
  /\ Len(evt_q) < QueueDepth
  /\ evt_q' = Append(evt_q, next_ev)
  /\ next_ev' = next_ev + 1
  /\ UNCHANGED <<journal_ready, flush_queued, dropVars, journal_lock, ev,
                 fcbVars, fateVars, faults, crashes>>

\* A mutant: the work item is submitted for the first event in the queue only.
Mutant_WriteSubmit(t) ==
  /\ Goto(t, "submit", "idle")
  /\ flush_queued' = (flush_queued \/ Len(evt_q) = 1)
  /\ UNCHANGED <<journal_ready, evt_q, next_ev, dropVars, journal_lock, ev,
                 fcbVars, fateVars, faults, crashes>>

WriteSubmit(t) ==
  /\ Goto(t, "submit", "idle")
  /\ flush_queued' = TRUE
  /\ UNCHANGED <<journal_ready, evt_q, next_ev, dropVars, journal_lock, ev,
                 fcbVars, fateVars, faults, crashes>>

\* A mutant: a full queue gives up its oldest event.
Mutant_WriteFull(t) ==
  /\ Goto(t, "idle", "submit")
  /\ journal_ready
  /\ next_ev <= MaxEvents
  /\ Len(evt_q) = QueueDepth
  /\ evt_q' = Append(Tail(evt_q), next_ev)
  /\ next_ev' = next_ev + 1
  /\ UNCHANGED <<journal_ready, flush_queued, dropVars, journal_lock, ev,
                 fcbVars, fateVars, faults, crashes>>

\* dropped_events++ is a load and a store; a cooperative thread does both
\* with no other thread between them.
WriteFull(t) ==
  /\ pc[t] = "idle"
  /\ journal_ready
  /\ drops < MaxDrops
  /\ Len(evt_q) = QueueDepth
  /\ t \notin Preemptible
  /\ dropped_events' = dropped_events + 1
  /\ drops' = drops + 1
  /\ UNCHANGED <<journal_ready, queueVars, reg, reported, pc, journal_lock,
                 ev, fcbVars, fateVars, faults, crashes>>

WriteFullLoad(t) ==
  /\ Goto(t, "idle", "drop")
  /\ journal_ready
  /\ drops < MaxDrops
  /\ Len(evt_q) = QueueDepth
  /\ t \in Preemptible
  /\ reg' = [reg EXCEPT ![t] = dropped_events]
  /\ UNCHANGED <<journal_ready, queueVars, dropped_events, drops, reported,
                 journal_lock, ev, fcbVars, fateVars, faults, crashes>>

WriteFullStore(t) ==
  /\ Goto(t, "drop", "idle")
  /\ dropped_events' = reg[t] + 1
  /\ reg' = [reg EXCEPT ![t] = 0]
  /\ drops' = drops + 1
  /\ UNCHANGED <<journal_ready, queueVars, reported, journal_lock, ev,
                 fcbVars, fateVars, faults, crashes>>

-----------------------------------------------------------------------------
(* journal_flush_handler() and journal_append()                            *)

FlushStart ==
  /\ Goto(WorkQ, "idle", "get")
  /\ flush_queued
  /\ flush_queued' = FALSE
  /\ UNCHANGED <<journal_ready, evt_q, next_ev, dropVars, journal_lock, ev,
                 fcbVars, fateVars, faults, crashes>>

FlushGet ==
  /\ Goto(WorkQ, "get", "lock")
  /\ evt_q # <<>>
  /\ ev' = Head(evt_q)
  /\ evt_q' = Tail(evt_q)
  /\ UNCHANGED <<journal_ready, flush_queued, next_ev, dropVars,
                 journal_lock, fcbVars, fateVars, faults, crashes>>

FlushEmpty ==
  /\ Goto(WorkQ, "get", "report")
  /\ evt_q = <<>>
  /\ UNCHANGED <<journal_ready, queueVars, dropVars, journal_lock, ev,
                 fcbVars, fateVars, faults, crashes>>

AppendLock ==
  /\ Goto(WorkQ, "lock", "append")
  /\ LockFree
  /\ journal_lock' = journal_lock \cup {WorkQ}
  /\ UNCHANGED <<journal_ready, queueVars, dropVars, ev, fcbVars, fateVars,
                 faults, crashes>>

\* The first fcb_append(), or the one after the rotation.
FcbAppend(from) ==
  /\ RoomInSector \/ RoomInRing
  /\ Goto(WorkQ, from, "write")
  /\ Reserve(ev)
  /\ UNCHANGED <<journal_ready, queueVars, dropVars, journal_lock, ev,
                 fateVars, faults, crashes>>

\* A mutant: any error of fcb_append() is taken for -ENOSPC.
Mutant_FcbAppendNoSpace ==
  /\ RoomInSector \/ RoomInRing => Fault
  /\ ~(RoomInSector \/ RoomInRing) => UNCHANGED faults
  /\ Goto(WorkQ, "append", "rotate")
  /\ UNCHANGED <<journal_ready, queueVars, dropVars, journal_lock, ev,
                 fcbVars, fateVars, crashes>>

FcbAppendNoSpace ==
  /\ ~(RoomInSector \/ RoomInRing)
  /\ Goto(WorkQ, "append", "rotate")
  /\ UNCHANGED <<journal_ready, queueVars, dropVars, journal_lock, ev,
                 fcbVars, fateVars, faults, crashes>>

FcbRotate ==
  /\ Goto(WorkQ, "rotate", "retry")
  /\ Rotate
  /\ UNCHANGED <<journal_ready, queueVars, dropVars, journal_lock, ev,
                 fateVars, faults, crashes>>

\* The write succeeds; rc = 0 does not say what the chip now holds.
FlashWrite ==
  /\ Goto(WorkQ, "write", "finish")
  /\ \/ SetLast([LastSlot EXCEPT !.data = "good"]) /\ UNCHANGED faults
     \/ SetLast([LastSlot EXCEPT !.data = "bad"]) /\ Fault
  /\ UNCHANGED <<journal_ready, queueVars, dropVars, journal_lock, ev,
                 fateVars, crashes>>

FcbAppendFinish ==
  /\ Goto(WorkQ, "finish", "unlock")
  /\ SetLast([LastSlot EXCEPT !.fin = TRUE])
  /\ UNCHANGED <<journal_ready, queueVars, dropVars, journal_lock, ev,
                 fateVars, faults, crashes>>

\* A step of journal_append() returns an error, with nothing changed: goto out.
AppendError(from) ==
  /\ from \in {"append", "rotate", "retry", "write", "finish"}
  /\ Goto(WorkQ, from, "unlock_err")
  /\ Fault
  /\ UNCHANGED <<journal_ready, queueVars, dropVars, journal_lock, ev,
                 fcbVars, fateVars, crashes>>

AppendUnlock ==
  /\ Goto(WorkQ, "unlock", "live")
  /\ journal_lock' = journal_lock \ {WorkQ}
  /\ UNCHANGED <<journal_ready, queueVars, dropVars, ev, fcbVars, fateVars,
                 faults, crashes>>

\* Mutants: the event is queued again for a retry; the live tail is told
\* whatever rc is.
Mutant_Requeue ==
  /\ Goto(WorkQ, "unlock_err", "get")
  /\ journal_lock' = journal_lock \ {WorkQ}
  /\ Len(evt_q) < QueueDepth
  /\ evt_q' = Append(evt_q, ev)
  /\ ev' = 0
  /\ UNCHANGED <<journal_ready, flush_queued, next_ev, dropVars, fcbVars,
                 fateVars, faults, crashes>>

Mutant_TellAnyway ==
  /\ Goto(WorkQ, "unlock_err", "live")
  /\ journal_lock' = journal_lock \ {WorkQ}
  /\ UNCHANGED <<journal_ready, queueVars, dropVars, ev, fcbVars, fateVars,
                 faults, crashes>>

\* rc # 0: the error is logged and the loop continues.
AppendUnlockError ==
  /\ Goto(WorkQ, "unlock_err", "get")
  /\ journal_lock' = journal_lock \ {WorkQ}
  /\ failed' = failed \cup {ev}
  /\ ev' = 0
  /\ UNCHANGED <<journal_ready, queueVars, dropVars, fcbVars, live, cutoff,
                 faults, crashes>>

LiveNotify ==
  /\ Goto(WorkQ, "live", "get")
  /\ live' = live \cup {ev}
  /\ ev' = 0
  /\ UNCHANGED <<journal_ready, queueVars, dropVars, journal_lock, fcbVars,
                 failed, cutoff, faults, crashes>>

\* A mutant: the work item is no more queued when its handler returns.
Mutant_Report ==
  /\ Goto(WorkQ, "report", IF dropped_events = 0 THEN "idle" ELSE "reset")
  /\ reported' = reported + dropped_events
  /\ flush_queued' = FALSE
  /\ UNCHANGED <<journal_ready, evt_q, next_ev, dropped_events, reg, drops,
                 journal_lock, ev, fcbVars, fateVars, faults, crashes>>

\* The loss is logged, then the counter cleared: two accesses.
Report ==
  /\ Goto(WorkQ, "report", IF dropped_events = 0 THEN "idle" ELSE "reset")
  /\ reported' = reported + dropped_events
  /\ UNCHANGED <<journal_ready, queueVars, dropped_events, reg, drops,
                 journal_lock, ev, fcbVars, fateVars, faults, crashes>>

Reset ==
  /\ Goto(WorkQ, "reset", "idle")
  /\ dropped_events' = 0
  /\ UNCHANGED <<journal_ready, queueVars, reg, drops, reported,
                 journal_lock, ev, fcbVars, fateVars, faults, crashes>>

-----------------------------------------------------------------------------
(* event_log_clear(): from the shell, or from WorkQ on a GATT command.     *)

ClearStart(t) ==
  /\ Goto(t, "idle", "clear_lock")
  /\ journal_ready
  /\ UNCHANGED <<journal_ready, queueVars, dropVars, journal_lock, ev,
                 fcbVars, fateVars, faults, crashes>>

ClearLock(t) ==
  /\ Goto(t, "clear_lock", "clear")
  /\ LockFree
  /\ journal_lock' = journal_lock \cup {t}
  /\ UNCHANGED <<journal_ready, queueVars, dropVars, ev, fcbVars, fateVars,
                 faults, crashes>>

\* fcb_clear() rotates until the buffer is empty.
ClearRotate(t) ==
  /\ pc[t] = "clear"
  /\ ~FcbIsEmpty
  /\ Rotate
  /\ UNCHANGED <<journal_ready, queueVars, dropVars, pc, journal_lock, ev,
                 fateVars, faults, crashes>>

ClearError(t) ==
  /\ ~FcbIsEmpty
  /\ Goto(t, "clear", "clear_unlock")
  /\ Fault
  /\ UNCHANGED <<journal_ready, queueVars, dropVars, journal_lock, ev,
                 fcbVars, fateVars, crashes>>

ClearDone(t) ==
  /\ FcbIsEmpty
  /\ Goto(t, "clear", "clear_unlock")
  /\ UNCHANGED <<journal_ready, queueVars, dropVars, journal_lock, ev,
                 fcbVars, fateVars, faults, crashes>>

ClearUnlock(t) ==
  /\ Goto(t, "clear_unlock", "idle")
  /\ journal_lock' = journal_lock \ {t}
  /\ UNCHANGED <<journal_ready, queueVars, dropVars, ev, fcbVars, fateVars,
                 faults, crashes>>

-----------------------------------------------------------------------------
(* Power.                                                                  *)

\* RAM is lost: the queue, the counter, the lock, every thread's progress.
Crash ==
  /\ crashes < MaxCrashes
  /\ crashes' = crashes + 1
  /\ journal_ready' = FALSE
  /\ evt_q' = <<>>
  /\ flush_queued' = FALSE
  /\ dropped_events' = 0
  /\ drops' = 0
  /\ reported' = 0
  /\ pc' = [t \in Threads |-> "idle"]
  /\ reg' = [t \in Threads |-> 0]
  /\ journal_lock' = {}
  /\ ev' = 0
  /\ cutoff' = next_ev - 1
  /\ UNCHANGED <<next_ev, fcbVars, live, failed, faults>>

\* event_log_init(): fcb_init() finds the oldest and the active sector on the
\* flash.
EventLogInit ==
  /\ ~journal_ready
  /\ journal_ready' = TRUE
  /\ UNCHANGED <<queueVars, dropVars, pc, journal_lock, ev, fcbVars,
                 fateVars, faults, crashes>>

\* Every thread waits for something to do.
Idle ==
  /\ \A t \in Threads : pc[t] = "idle"
  /\ ~flush_queued
  /\ UNCHANGED vars

Write(t) ==
  \/ WriteNotReady(t)
  \/ WritePut(t)
  \/ WriteSubmit(t)
  \/ WriteFull(t)
  \/ WriteFullLoad(t)
  \/ WriteFullStore(t)

Flush ==
  \/ FlushStart
  \/ FlushGet
  \/ FlushEmpty
  \/ AppendLock
  \/ \E from \in {"append", "retry"} : FcbAppend(from)
  \/ FcbAppendNoSpace
  \/ FcbRotate
  \/ FlashWrite
  \/ FcbAppendFinish
  \/ \E from \in {"append", "rotate", "retry", "write", "finish"} :
       AppendError(from)
  \/ AppendUnlock
  \/ AppendUnlockError
  \/ LiveNotify
  \/ Report
  \/ Reset

Clear(t) ==
  \/ ClearStart(t)
  \/ ClearLock(t)
  \/ ClearRotate(t)
  \/ ClearError(t)
  \/ ClearDone(t)
  \/ ClearUnlock(t)

Next ==
  \/ \E t \in Threads : Write(t)
  \/ Flush
  \/ \E t \in Clearers : Clear(t)
  \/ Crash
  \/ EventLogInit
  \/ Idle

Spec == Init /\ [][Next]_vars

(***************************************************************************)
(* Threads keep running.  The work queue is FIFO, so a submitted item is   *)
(* started however often other items are, and k_mutex_unlock() hands the   *)
(* mutex to a waiting thread: both are strong fairness.                    *)
(***************************************************************************)
Fairness ==
  /\ WF_vars(Flush)
  /\ SF_vars(FlushStart)
  /\ SF_vars(AppendLock)
  /\ \A t \in Threads : WF_vars(WriteSubmit(t)) /\ WF_vars(WriteFullStore(t))
  /\ \A t \in Clearers :
       /\ SF_vars(ClearLock(t))
       /\ WF_vars(ClearRotate(t) \/ ClearDone(t) \/ ClearUnlock(t))

FairSpec == Spec /\ Fairness

-----------------------------------------------------------------------------
(* What the journal is built on.                                           *)

UnreservedPcs == {"lock", "append", "rotate", "retry"}
WritingPcs == {"write", "finish"}
LockedPcs == {"append", "rotate", "retry", "unlock", "unlock_err"}
                \cup WritingPcs
EventPcs == {"lock", "live"} \cup LockedPcs
WorkQPcs == {"get", "report", "reset"} \cup EventPcs
ClearPcs == {"clear", "clear_unlock"}

FcbTypeOK ==
  /\ oldest \in Nat \ {0}
  /\ active \in Nat \ {0}
  /\ oldest <= active
  /\ active - oldest < NumSectors
  /\ DOMAIN flash = oldest..active
  /\ \A s \in oldest..active :
       flash[s] \in Seq(Entry) /\ Len(flash[s]) <= SlotsPerSector

TypeOK ==
  /\ journal_ready \in BOOLEAN
  /\ evt_q \in Seq(1..MaxEvents)
  /\ Len(evt_q) <= QueueDepth
  /\ flush_queued \in BOOLEAN
  /\ dropped_events \in Nat
  /\ pc \in [Threads -> {"idle", "submit", "drop", "clear_lock"}
                          \cup ClearPcs \cup WorkQPcs]
  /\ \A t \in Threads \ {WorkQ} : pc[t] \notin WorkQPcs
  /\ reg \in [Threads -> Nat]
  /\ journal_lock \subseteq Threads
  /\ ev \in 0..MaxEvents
  /\ FcbTypeOK
  /\ next_ev \in 1..(MaxEvents + 1)
  /\ drops \in Nat
  /\ reported \in Nat
  /\ live \subseteq 1..MaxEvents
  /\ failed \subseteq 1..MaxEvents
  /\ erased \subseteq 1..MaxEvents
  /\ cutoff \in 0..MaxEvents
  /\ faults \in Nat
  /\ crashes \in Nat

(***************************************************************************)
(* The slot that journal_append() reserved stays the last one of the       *)
(* active sector until it is finished, and only the lock's holder is       *)
(* between reserving and finishing: a clear on the shell thread cannot     *)
(* erase it under the work queue's hands (event_log.c, the comment on      *)
(* journal_lock).                                                          *)
(***************************************************************************)
OpenSlotIntact ==
  pc[WorkQ] \in WritingPcs =>
    /\ flash[active] # <<>>
    /\ LastSlot.n = ev
    /\ ~LastSlot.fin

(***************************************************************************)
(* An event in the queue is never stranded: the flush work item is         *)
(* submitted, or its handler will look at the queue again, or the writer   *)
(* is about to submit it.  This is what the order "put, then submit" and   *)
(* the handler's "loop until empty" are for.                               *)
(***************************************************************************)
NoStrandedEvent ==
  evt_q # <<>> =>
    \/ flush_queued
    \/ pc[WorkQ] \in {"get"} \cup EventPcs
    \/ \E t \in Threads : pc[t] = "submit"

(***************************************************************************)
(* Order of acceptance is order on the flash: records are in strictly      *)
(* increasing order along the ring, whatever failed or was cleared between *)
(* them, and are older than the event in hand and those in the queue.      *)
(***************************************************************************)
InOrder ==
  \A s1, s2 \in oldest..active :
    \A i \in 1..Len(flash[s1]), j \in 1..Len(flash[s2]) :
      (s1 < s2 \/ (s1 = s2 /\ i < j)) => flash[s1][i].n < flash[s2][j].n

QueueInOrder ==
  /\ \A i, j \in 1..Len(evt_q) : i < j => evt_q[i] < evt_q[j]
  /\ \A i \in 1..Len(evt_q) : ev < evt_q[i] /\ evt_q[i] < next_ev
  /\ ev < next_ev

QueueAfterFlash ==
  \A s \in oldest..active : \A j \in 1..Len(flash[s]) :
    /\ flash[s][j].n < next_ev
    /\ \A i \in 1..Len(evt_q) : flash[s][j].n < evt_q[i]

FifoOrder == InOrder /\ QueueInOrder /\ QueueAfterFlash

(***************************************************************************)
(* What the handler tells is true of the flash: an event shown to a BLE    *)
(* client by the live tail is on the flash and stays there, power losses   *)
(* included, until its sector is erased by a rotation or a clear; one      *)
(* logged as failed is never found by a walk.                              *)
(***************************************************************************)
ToldTruth ==
  /\ live \subseteq Kept \cup erased
  /\ failed \cap (Kept \cup erased) = {}

(***************************************************************************)
(* No event vanishes between the queue and the flash: since the last power *)
(* loss, each accepted event is in exactly one place: in the queue, in the *)
(* handler's hands, shown to the live tail, or logged as an error.         *)
(***************************************************************************)
Places(n) ==
  [queue  |-> \E i \in 1..Len(evt_q) : evt_q[i] = n,
   hand   |-> ev = n,
   live   |-> n \in live,
   failed |-> n \in failed]

OneFate ==
  \A n \in (cutoff + 1)..(next_ev - 1) :
    \E p \in {"queue", "hand", "live", "failed"} :
      Places(n) = [q \in {"queue", "hand", "live", "failed"} |-> q = p]

-----------------------------------------------------------------------------
(* What makes the invariants above inductive.                              *)

\* Whoever is between k_mutex_lock() and k_mutex_unlock() is the holder.
LockInv ==
  \A t \in Threads : pc[t] \in ClearPcs \cup LockedPcs => journal_lock = {t}

\* The handler has an event in hand from k_msgq_get() to the end of its turn.
HandInv == pc[WorkQ] \in EventPcs <=> ev # 0

\* Until its slot is reserved, the event in hand is newer than the flash.
HandInOrder ==
  pc[WorkQ] \in UnreservedPcs =>
    \A s \in oldest..active : \A j \in 1..Len(flash[s]) : flash[s][j].n < ev

\* What has been erased is older than everything that remains or is to come.
ErasedIsOld ==
  \A e \in erased :
    /\ \A s \in oldest..active : \A j \in 1..Len(flash[s]) : e < flash[s][j].n
    /\ \A i \in 1..Len(evt_q) : e < evt_q[i]
    /\ e < next_ev
    /\ pc[WorkQ] \in UnreservedPcs \cup WritingPcs => e < ev

LockIInv == TypeOK /\ LockInv /\ HandInv /\ OpenSlotIntact

OrderIInv == FifoOrder /\ HandInOrder /\ ErasedIsOld

-----------------------------------------------------------------------------
(* What a step may never do.                                               *)

(***************************************************************************)
(* A sector is erased only to make room in a full ring or by a clear that  *)
(* holds the lock: an I/O error never costs old records.                   *)
(***************************************************************************)
EraseOnlyWhenFull ==
  [][erased' # erased =>
       \/ \E t \in journal_lock : pc[t] = "clear"
       \/ /\ active - oldest + 1 = NumSectors
          /\ Len(flash[active]) = SlotsPerSector]_vars

-----------------------------------------------------------------------------
(* Liveness, on the runs without power loss.                               *)

\* Every accepted event is recorded and shown, or its failure is logged: of
\* MaxEvents events, all that are accepted are handled some time.
Handled == \A n \in 1..(next_ev - 1) : n \in live \cup failed

EventuallyHandled == ~Handled ~> Handled

-----------------------------------------------------------------------------
(* The journal as its readers see it: the abstract journal of              *)
(* BoundedJournal, which no power loss and no fault disturbs.              *)

Abstract == INSTANCE BoundedJournal WITH
              Ids <- 1..MaxEvents, kept <- Kept, forgotten <- erased

ImplementsJournal == Abstract!Spec

=============================================================================

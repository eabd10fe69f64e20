---------------------------- MODULE EventLogProofs ----------------------------
(***************************************************************************)
(* What holds of the event journal for every queue depth, ring size, set   *)
(* of threads and number of power losses and flash faults.                 *)
(***************************************************************************)
EXTENDS EventLog, TLAPS

USE EventLogAssumption DEF EventLogAssumption

(***************************************************************************)
(* What the three operations on the FCB do to its sectors.                 *)
(***************************************************************************)
LEMMA EntryAt ==
  ASSUME FcbTypeOK, NEW s \in oldest..active, NEW j \in 1..Len(flash[s])
  PROVE  flash[s][j] \in Entry /\ flash[s][j].n \in 1..MaxEvents
<1>1. flash[s][j] \in Entry
  BY DEF FcbTypeOK
<1> QED BY <1>1 DEF Entry

\* fcb_append(): all slots stay, and a blank one is the new last.
LEMMA ReserveEffect ==
  ASSUME FcbTypeOK, RoomInSector \/ RoomInRing,
         NEW n \in 1..MaxEvents, Reserve(n)
  PROVE  /\ FcbTypeOK'
         /\ oldest' = oldest
         /\ active' \in {active, active + 1}
         /\ flash'[active'] # <<>>
         /\ LastSlot' = [n |-> n, data |-> "blank", fin |-> FALSE]
         /\ \A s \in oldest'..active' : \A j \in 1..Len(flash'[s]) :
              \/ s = active' /\ j = Len(flash'[s])
              \/ /\ s \in oldest..active
                 /\ j \in 1..Len(flash[s])
                 /\ flash'[s][j] = flash[s][j]
         /\ \A s \in oldest..active : \A j \in 1..Len(flash[s]) :
              /\ s \in oldest'..active'
              /\ j \in 1..Len(flash'[s])
              /\ flash'[s][j] = flash[s][j]
<1> DEFINE slot == [n |-> n, data |-> "blank", fin |-> FALSE]
<1>1. slot \in Entry
  BY DEF Entry
<1> USE DEF Reserve, FcbTypeOK, LastSlot
<1>2. CASE RoomInSector
  <2>1. /\ active' = active /\ oldest' = oldest
        /\ flash' = [flash EXCEPT ![active] = Append(@, slot)]
    BY <1>2
  <2>2. active \in oldest..active /\ flash[active] \in Seq(Entry)
    OBVIOUS
  <2>3. /\ flash'[active] = Append(flash[active], slot)
        /\ \A s \in oldest..active : s # active => flash'[s] = flash[s]
        /\ DOMAIN flash' = oldest..active
    BY <2>1, <2>2
  <2>4. /\ flash'[active] \in Seq(Entry)
        /\ Len(flash'[active]) = Len(flash[active]) + 1
        /\ flash'[active][Len(flash[active]) + 1] = slot
        /\ \A j \in 1..Len(flash[active]) : flash'[active][j] = flash[active][j]
    BY <1>1, <2>2, <2>3
  <2> QED BY <1>2, <2>1, <2>2, <2>3, <2>4 DEF RoomInSector
<1>3. CASE ~RoomInSector
  <2>1. /\ active' = active + 1 /\ oldest' = oldest
        /\ flash' = [s \in oldest..(active + 1) |->
                       IF s = active + 1 THEN <<slot>> ELSE flash[s]]
    BY <1>3
  <2> HIDE DEF slot
  <2>2. /\ flash'[active + 1] = <<slot>>
        /\ \A s \in oldest..active : flash'[s] = flash[s]
        /\ DOMAIN flash' = oldest..(active + 1)
    BY <2>1
  <2>3. /\ <<slot>> \in Seq(Entry)
        /\ Len(<<slot>>) = 1
        /\ <<slot>>[1] = slot
    BY <1>1
  <2>4. FcbTypeOK'
    BY <1>3, <2>1, <2>2, <2>3 DEF RoomInRing
  <2> QED BY <2>1, <2>2, <2>3, <2>4 DEF slot
<1> QED BY <1>2, <1>3

\* flash_area_write() and fcb_append_finish(): the last slot only.
LEMMA SetLastEffect ==
  ASSUME FcbTypeOK, flash[active] # <<>>, NEW e \in Entry, SetLast(e)
  PROVE  /\ FcbTypeOK'
         /\ oldest' = oldest
         /\ active' = active
         /\ erased' = erased
         /\ flash'[active] # <<>>
         /\ LastSlot' = e
         /\ \A s \in oldest..active :
              /\ Len(flash'[s]) = Len(flash[s])
              /\ \A j \in 1..Len(flash[s]) :
                   ~(s = active /\ j = Len(flash[s])) =>
                     flash'[s][j] = flash[s][j]
<1> USE DEF SetLast, FcbTypeOK, LastSlot
<1> DEFINE k == Len(flash[active])
<1>1. /\ active \in oldest..active /\ flash[active] \in Seq(Entry)
      /\ k \in 1..Len(flash[active])
  OBVIOUS
<1>2. /\ flash'[active] = [flash[active] EXCEPT ![k] = e]
      /\ \A s \in oldest..active : s # active => flash'[s] = flash[s]
      /\ DOMAIN flash' = oldest..active
      /\ active' = active /\ oldest' = oldest /\ erased' = erased
  BY <1>1
<1>3. /\ flash'[active] \in Seq(Entry)
      /\ Len(flash'[active]) = k
      /\ flash'[active][k] = e
      /\ \A j \in 1..k : j # k => flash'[active][j] = flash[active][j]
  BY <1>1, <1>2
<1> QED BY <1>1, <1>2, <1>3

\* fcb_rotate(): the oldest sector goes, all others stay.
LEMMA RotateEffect ==
  ASSUME FcbTypeOK, Rotate
  PROVE  /\ FcbTypeOK'
         /\ \A s \in oldest'..active' : \A j \in 1..Len(flash'[s]) :
              /\ s \in oldest..active
              /\ s # oldest
              /\ j \in 1..Len(flash[s])
              /\ flash'[s][j] = flash[s][j]
         /\ \A s \in oldest..active : s # oldest =>
              s \in oldest'..active' /\ flash'[s] = flash[s]
<1> USE DEF Rotate, FcbTypeOK
<1>1. CASE oldest = active
  <2>1. /\ oldest' = active + 1 /\ active' = active + 1
        /\ DOMAIN flash' = (active + 1)..(active + 1)
        /\ flash'[active + 1] = <<>>
    BY <1>1
  <2> QED BY <1>1, <2>1
<1>2. CASE oldest # active
  <2>1. /\ oldest' = oldest + 1 /\ active' = active
        /\ DOMAIN flash' = (oldest + 1)..active
        /\ \A s \in (oldest + 1)..active : flash'[s] = flash[s]
    BY <1>2
  <2> QED BY <1>2, <2>1
<1> QED BY <1>1, <1>2

\* The lock, the event in hand and the open slot: at first.
LEMMA LockInit == Init => LockIInv
<1> SUFFICES ASSUME Init PROVE LockIInv
  OBVIOUS
<1> USE DEF Init, ClearPcs, LockedPcs, WritingPcs, EventPcs, WorkQPcs
<1>1. FcbTypeOK
  <2>1. DOMAIN flash = 1..1 /\ flash[1] = <<>>
    OBVIOUS
  <2> QED BY <2>1 DEF FcbTypeOK
<1>2. TypeOK
  <2>1. evt_q \in Seq(1..MaxEvents) /\ Len(evt_q) <= QueueDepth
    OBVIOUS
  <2>2. /\ pc \in [Threads -> {"idle", "submit", "drop", "clear_lock"}
                               \cup ClearPcs \cup WorkQPcs]
        /\ \A t \in Threads \ {WorkQ} : pc[t] \notin WorkQPcs
        /\ reg \in [Threads -> Nat]
    <3>1. pc = [t \in Threads |-> "idle"] /\ reg = [t \in Threads |-> 0]
      OBVIOUS
    <3> HIDE DEF Init
    <3> QED BY <3>1
  <2>3. journal_ready \in BOOLEAN /\ flush_queued \in BOOLEAN
    OBVIOUS
  <2>4. /\ dropped_events \in Nat /\ drops \in Nat /\ reported \in Nat
        /\ ev \in 0..MaxEvents /\ next_ev \in 1..(MaxEvents + 1)
        /\ cutoff \in 0..MaxEvents /\ faults \in Nat /\ crashes \in Nat
    OBVIOUS
  <2>5. /\ journal_lock \subseteq Threads
        /\ live \subseteq 1..MaxEvents /\ failed \subseteq 1..MaxEvents
        /\ erased \subseteq 1..MaxEvents
    OBVIOUS
  <2> HIDE DEF Init
  <2> QED BY <1>1, <2>1, <2>2, <2>3, <2>4, <2>5 DEF TypeOK
<1>3. LockInv /\ HandInv /\ OpenSlotIntact
  BY DEF LockInv, HandInv, OpenSlotIntact
<1> QED BY <1>2, <1>3 DEF LockIInv

\* event_log_write().
LEMMA WriteStep ==
  ASSUME LockIInv, NEW t \in Threads, Write(t)
  PROVE  LockIInv'
<1> USE DEF LockIInv, TypeOK, FcbTypeOK, LockInv, HandInv, OpenSlotIntact, LastSlot,
            ClearPcs, LockedPcs, WritingPcs, EventPcs, WorkQPcs, Goto,
            queueVars, dropVars, fcbVars, fateVars
<1>1. CASE WriteNotReady(t)
  BY <1>1 DEF WriteNotReady, vars
<1>2. CASE WritePut(t)
  BY <1>2 DEF WritePut
<1>3. CASE WriteSubmit(t)
  BY <1>3 DEF WriteSubmit
<1>4. CASE WriteFull(t)
  BY <1>4 DEF WriteFull
<1>5. CASE WriteFullLoad(t)
  BY <1>5 DEF WriteFullLoad
<1>6. CASE WriteFullStore(t)
  BY <1>6 DEF WriteFullStore
<1> QED BY <1>1, <1>2, <1>3, <1>4, <1>5, <1>6 DEF Write

\* The steps of the flush that leave the flash alone.
LEMMA QuietFlushStep ==
  ASSUME LockIInv,
         \/ FlushStart \/ FlushGet \/ FlushEmpty \/ AppendLock
         \/ FcbAppendNoSpace \/ AppendUnlock \/ AppendUnlockError
         \/ LiveNotify \/ Report \/ Reset
         \/ \E from \in {"append", "rotate", "retry", "write", "finish"} :
              AppendError(from)
  PROVE  LockIInv'
<1> USE DEF LockIInv, TypeOK, FcbTypeOK, LockInv, HandInv, OpenSlotIntact, LastSlot,
            ClearPcs, LockedPcs, WritingPcs, EventPcs, WorkQPcs, Goto,
            queueVars, dropVars, fcbVars, fateVars, LockFree, Fault
<1>1. CASE FlushStart
  BY <1>1 DEF FlushStart
<1>2. CASE FlushGet
  BY <1>2 DEF FlushGet
<1>3. CASE FlushEmpty
  BY <1>3 DEF FlushEmpty
<1>4. CASE AppendLock
  BY <1>4 DEF AppendLock
<1>5. CASE FcbAppendNoSpace
  BY <1>5 DEF FcbAppendNoSpace
<1>6. CASE AppendUnlock
  BY <1>6 DEF AppendUnlock
<1>7. CASE AppendUnlockError
  BY <1>7 DEF AppendUnlockError
<1>8. CASE LiveNotify
  BY <1>8 DEF LiveNotify
<1>9. CASE Report
  BY <1>9 DEF Report
<1>10. CASE Reset
  BY <1>10 DEF Reset
<1>11. ASSUME NEW from \in {"append", "rotate", "retry", "write", "finish"},
              AppendError(from)
       PROVE  LockIInv'
  BY <1>11 DEF AppendError
<1> QED BY <1>1, <1>2, <1>3, <1>4, <1>5, <1>6, <1>7, <1>8, <1>9, <1>10, <1>11

\* The steps of the flush on the flash.
LEMMA FcbFlushStep ==
  ASSUME LockIInv,
         \/ \E from \in {"append", "retry"} : FcbAppend(from)
         \/ FcbRotate \/ FlashWrite \/ FcbAppendFinish
  PROVE  LockIInv'
<1> USE DEF LockIInv, TypeOK, LockInv, HandInv, OpenSlotIntact,
            ClearPcs, LockedPcs, WritingPcs, EventPcs, WorkQPcs, Goto,
            queueVars, dropVars, fateVars, Fault
<1>1. ASSUME NEW from \in {"append", "retry"}, FcbAppend(from)
      PROVE  LockIInv'
  <2>1. ev \in 1..MaxEvents
    BY <1>1 DEF FcbAppend
  <2>2. FcbTypeOK' /\ flash'[active'] # <<>> /\ LastSlot'.n = ev /\ ~LastSlot'.fin
    BY <1>1, <2>1, ReserveEffect DEF FcbAppend
  <2>3. erased' = erased
    BY <1>1 DEF FcbAppend, Reserve
  <2> QED BY <1>1, <2>2, <2>3 DEF FcbAppend
<1>2. CASE FcbRotate
  <2>1. FcbTypeOK'
    BY <1>2, RotateEffect DEF FcbRotate
  <2>2. erased' \subseteq 1..MaxEvents
    BY <1>2 DEF FcbRotate, Rotate, Visible
  <2> QED BY <1>2, <2>1, <2>2 DEF FcbRotate
<1>3. ASSUME NEW e \in Entry, SetLast(e), flash[active] # <<>>,
             e.n = ev, pc[WorkQ] = "finish" \/ ~e.fin
      PROVE  /\ FcbTypeOK' /\ erased' = erased
             /\ flash'[active'] # <<>> /\ LastSlot'.n = ev
             /\ pc[WorkQ] = "finish" \/ ~LastSlot'.fin
  BY <1>3, SetLastEffect
<1>4. pc[WorkQ] \in WritingPcs => /\ flash[active] # <<>>
                                  /\ LastSlot \in Entry
                                  /\ LastSlot.n = ev
                                  /\ ~LastSlot.fin
  BY DEF LastSlot, FcbTypeOK
<1>5. CASE FlashWrite
  <2>1. PICK d \in {"good", "bad"} : SetLast([LastSlot EXCEPT !.data = d])
    BY <1>5 DEF FlashWrite
  <2>2. /\ [LastSlot EXCEPT !.data = d] \in Entry
        /\ [LastSlot EXCEPT !.data = d].n = ev
        /\ ~[LastSlot EXCEPT !.data = d].fin
    BY <1>4, <1>5 DEF FlashWrite, Entry
  <2>3. /\ FcbTypeOK' /\ erased' = erased
        /\ flash'[active'] # <<>> /\ LastSlot'.n = ev /\ ~LastSlot'.fin
    BY <1>3, <1>4, <1>5, <2>1, <2>2 DEF FlashWrite
  <2>4. /\ pc' = [pc EXCEPT ![WorkQ] = "finish"]
        /\ faults' \in Nat
        /\ UNCHANGED <<journal_ready, evt_q, flush_queued, next_ev,
                       dropped_events, reg, drops, reported, journal_lock,
                       ev, live, failed, cutoff, crashes>>
    BY <1>5 DEF FlashWrite
  <2> QED BY <1>5, <2>3, <2>4 DEF FlashWrite
<1>6. CASE FcbAppendFinish
  <2>1. /\ [LastSlot EXCEPT !.fin = TRUE] \in Entry
        /\ [LastSlot EXCEPT !.fin = TRUE].n = ev
    BY <1>4, <1>6 DEF FcbAppendFinish, Entry
  <2>2. FcbTypeOK' /\ erased' = erased
    BY <1>3, <1>4, <1>6, <2>1 DEF FcbAppendFinish
  <2> QED BY <1>6, <2>2 DEF FcbAppendFinish
<1> QED BY <1>1, <1>2, <1>5, <1>6

\* event_log_clear().
LEMMA ClearStep ==
  ASSUME LockIInv, NEW t \in Clearers, Clear(t)
  PROVE  LockIInv'
<1> USE DEF LockIInv, TypeOK, LockInv, HandInv, OpenSlotIntact, LastSlot,
            ClearPcs, LockedPcs, WritingPcs, EventPcs, WorkQPcs, Goto,
            queueVars, dropVars, fateVars, LockFree, Fault
<1>1. CASE ClearStart(t)
  BY <1>1 DEF ClearStart, fcbVars, FcbTypeOK
<1>2. CASE ClearLock(t)
  BY <1>2 DEF ClearLock, fcbVars, FcbTypeOK
<1>3. CASE ClearRotate(t)
  <2>1. FcbTypeOK'
    BY <1>3, RotateEffect DEF ClearRotate
  <2>2. erased' \subseteq 1..MaxEvents
    BY <1>3 DEF ClearRotate, Rotate, Visible
  <2>3. pc[WorkQ] \notin WritingPcs
    <3>1. journal_lock = {t} /\ pc[t] = "clear"
      BY <1>3 DEF ClearRotate
    <3>2. pc[WorkQ] \in WritingPcs => journal_lock = {WorkQ}
      OBVIOUS
    <3> QED BY <3>1, <3>2
  <2> QED BY <1>3, <2>1, <2>2, <2>3 DEF ClearRotate
<1>4. CASE ClearError(t)
  BY <1>4 DEF ClearError, fcbVars, FcbTypeOK
<1>5. CASE ClearDone(t)
  BY <1>5 DEF ClearDone, fcbVars, FcbTypeOK
<1>6. CASE ClearUnlock(t)
  BY <1>6 DEF ClearUnlock, fcbVars, FcbTypeOK
<1> QED BY <1>1, <1>2, <1>3, <1>4, <1>5, <1>6 DEF Clear

\* A power loss, and event_log_init() after it.
LEMMA PowerStep ==
  ASSUME LockIInv, Crash \/ EventLogInit
  PROVE  LockIInv'
<1> USE DEF LockIInv, TypeOK, FcbTypeOK, LockInv, HandInv, OpenSlotIntact,
            LastSlot, ClearPcs, LockedPcs, WritingPcs, EventPcs, WorkQPcs,
            queueVars, dropVars, fcbVars, fateVars
<1>1. CASE Crash
  <2>1. /\ pc' = [t \in Threads |-> "idle"]
        /\ reg' = [t \in Threads |-> 0]
    BY <1>1 DEF Crash
  <2>2. /\ pc' \in [Threads -> {"idle", "submit", "drop", "clear_lock"}
                               \cup ClearPcs \cup WorkQPcs]
        /\ \A t \in Threads \ {WorkQ} : pc'[t] \notin WorkQPcs
        /\ reg' \in [Threads -> Nat]
        /\ (LockInv /\ OpenSlotIntact)'
    BY <2>1
  <2>3. /\ FcbTypeOK'
        /\ HandInv'
    BY <1>1, <2>1 DEF Crash
  <2>4. evt_q' \in Seq(1..MaxEvents) /\ Len(evt_q') <= QueueDepth
    BY <1>1 DEF Crash
  <2>5. journal_ready' \in BOOLEAN /\ flush_queued' \in BOOLEAN
    BY <1>1 DEF Crash
  <2>6. /\ dropped_events' \in Nat /\ drops' \in Nat /\ reported' \in Nat
        /\ ev' \in 0..MaxEvents /\ next_ev' \in 1..(MaxEvents + 1)
        /\ cutoff' \in 0..MaxEvents /\ faults' \in Nat /\ crashes' \in Nat
    BY <1>1 DEF Crash
  <2>7. /\ journal_lock' \subseteq Threads
        /\ live' \subseteq 1..MaxEvents /\ failed' \subseteq 1..MaxEvents
        /\ erased' \subseteq 1..MaxEvents
    BY <1>1 DEF Crash
  <2> QED BY <2>2, <2>3, <2>4, <2>5, <2>6, <2>7
<1>2. CASE EventLogInit
  BY <1>2 DEF EventLogInit
<1> QED BY <1>1, <1>2

\* All steps together.
LEMMA LockStep ==
  ASSUME LockIInv, [Next]_vars
  PROVE  LockIInv'
<1>1. CASE UNCHANGED vars
  BY <1>1 DEF vars, queueVars, dropVars, fcbVars, fateVars, LockIInv,
     TypeOK, FcbTypeOK, LockInv, HandInv, OpenSlotIntact, LastSlot
<1>2. CASE Next
  BY <1>1, <1>2, WriteStep, QuietFlushStep, FcbFlushStep, ClearStep,
     PowerStep DEF Next, Flush, Idle
<1> QED BY <1>1, <1>2

(***************************************************************************)
(* Every variable keeps its type, whoever holds the lock is alone with the *)
(* FCB, and the slot being written is not disturbed (event_log.c, lines    *)
(* 55-59 and 137-166).                                                     *)
(***************************************************************************)
THEOREM LockInvariant == Spec => []LockIInv
<1>1. LockIInv /\ [Next]_vars => LockIInv'
  BY LockStep
<1> QED BY <1>1, LockInit, PTL DEF Spec

\* The type invariant alone.
THEOREM TypeCorrect == Spec => []TypeOK
  BY LockInvariant, PTL DEF LockIInv

\* A clear never erases the slot journal_append() is writing.
THEOREM OpenSlotSafe == Spec => []OpenSlotIntact
  BY LockInvariant, PTL DEF LockIInv

-----------------------------------------------------------------------------
(* No event is stranded in the queue.                                      *)

\* Each step leaves someone to look at the queue.
LEMMA NoStrandedStep ==
  ASSUME LockIInv, NoStrandedEvent, [Next]_vars
  PROVE  NoStrandedEvent'
<1> USE DEF NoStrandedEvent, LockIInv, TypeOK, Goto, EventPcs, LockedPcs,
            WritingPcs, WorkQPcs, ClearPcs
<1>1. CASE UNCHANGED vars
  BY <1>1 DEF vars, queueVars
<1>2. ASSUME NEW t \in Threads, Write(t) PROVE NoStrandedEvent'
  BY <1>2 DEF Write, WriteNotReady, WritePut, WriteSubmit, WriteFull,
     WriteFullLoad, WriteFullStore, vars, queueVars
<1>3. CASE Flush
  <2>1. CASE FlushStart \/ FlushGet \/ FlushEmpty \/ Report \/ Reset
    BY <2>1 DEF FlushStart, FlushGet, FlushEmpty, Report, Reset, queueVars
  <2>2. CASE AppendLock \/ AppendUnlock \/ AppendUnlockError \/ LiveNotify
             \/ FcbAppendNoSpace \/ FcbRotate \/ FlashWrite \/ FcbAppendFinish
    BY <2>2 DEF AppendLock, AppendUnlock, AppendUnlockError, LiveNotify,
       FcbAppendNoSpace, FcbRotate, FlashWrite, FcbAppendFinish, queueVars
  <2>3. ASSUME NEW from \in {"append", "rotate", "retry", "write", "finish"},
               AppendError(from) \/ FcbAppend(from)
        PROVE  NoStrandedEvent'
    BY <2>3 DEF AppendError, FcbAppend, queueVars
  <2> QED BY <1>3, <2>1, <2>2, <2>3 DEF Flush
<1>4. ASSUME NEW t \in Clearers, Clear(t) PROVE NoStrandedEvent'
  BY <1>4 DEF Clear, ClearStart, ClearLock, ClearRotate, ClearError,
     ClearDone, ClearUnlock, queueVars
<1>5. CASE Crash
  BY <1>5 DEF Crash
<1>6. CASE EventLogInit
  BY <1>6 DEF EventLogInit, queueVars
<1> QED BY <1>1, <1>2, <1>3, <1>4, <1>5, <1>6 DEF Next, Idle

(***************************************************************************)
(* An event in the queue always has somebody coming for it                 *)
(* (event_log.c, lines 174 and 209-214).                                   *)
(***************************************************************************)
THEOREM NoStranded == Spec => []NoStrandedEvent
<1>1. Init => NoStrandedEvent
  BY DEF Init, NoStrandedEvent
<1>2. LockIInv /\ NoStrandedEvent /\ [Next]_vars => NoStrandedEvent'
  BY NoStrandedStep
<1> QED BY <1>1, <1>2, LockInvariant, PTL DEF Spec

-----------------------------------------------------------------------------
(* The order of the flash is the order of acceptance.                      *)

\* A step that leaves the flash and the queue alone, and takes no event.
LEMMA OrderQuiet ==
  ASSUME LockIInv, OrderIInv,
         UNCHANGED <<fcbVars, evt_q, next_ev>>, ev' \in {0, ev},
         pc'[WorkQ] \in UnreservedPcs =>
           pc[WorkQ] \in UnreservedPcs /\ ev' = ev,
         pc'[WorkQ] \in WritingPcs =>
           pc[WorkQ] \in UnreservedPcs \cup WritingPcs /\ ev' = ev
  PROVE  OrderIInv'
<1> USE DEF OrderIInv, fcbVars
<1>1. InOrder' /\ QueueAfterFlash'
  BY DEF FifoOrder, InOrder, QueueAfterFlash
<1>2. QueueInOrder'
  BY DEF FifoOrder, QueueInOrder, LockIInv, TypeOK
<1>3. HandInOrder'
  BY DEF HandInOrder
<1>4. ErasedIsOld'
  BY DEF ErasedIsOld
<1> QED BY <1>1, <1>2, <1>3, <1>4 DEF FifoOrder

\* The steps on the queue and the event in hand.
LEMMA OrderQueueStep ==
  ASSUME LockIInv, OrderIInv,
         (\E t \in Threads : WritePut(t)) \/ FlushGet
  PROVE  OrderIInv'
<1> USE DEF OrderIInv, fcbVars
<1>0. evt_q \in Seq(1..MaxEvents) /\ ev \in 0..MaxEvents /\ next_ev \in 1..(MaxEvents + 1)
  BY DEF LockIInv, TypeOK
<1>1. ASSUME NEW t \in Threads, WritePut(t) PROVE OrderIInv'
  <2>1. /\ evt_q' = Append(evt_q, next_ev) /\ next_ev' = next_ev + 1
        /\ UNCHANGED <<ev, flash, oldest, active, erased>>
    BY <1>1 DEF WritePut
  <2>2. /\ Len(evt_q') = Len(evt_q) + 1
        /\ \A i \in 1..Len(evt_q) : evt_q'[i] = evt_q[i]
        /\ evt_q'[Len(evt_q) + 1] = next_ev
    BY <1>0, <2>1
  <2>3. pc'[WorkQ] \in UnreservedPcs \cup WritingPcs => pc'[WorkQ] = pc[WorkQ]
    BY <1>1 DEF WritePut, Goto, UnreservedPcs, WritingPcs, LockIInv, TypeOK
  <2>4. InOrder'
    BY <2>1 DEF FifoOrder, InOrder
  <2>5. QueueInOrder'
    <3>1. \A i \in 1..Len(evt_q') : evt_q'[i] < next_ev' /\ ev' < evt_q'[i]
      BY <1>0, <2>1, <2>2 DEF FifoOrder, QueueInOrder
    <3>2. ASSUME NEW i \in 1..Len(evt_q'), NEW j \in 1..Len(evt_q'), i < j
          PROVE  evt_q'[i] < evt_q'[j]
      <4>1. i \in 1..Len(evt_q) /\ evt_q'[i] = evt_q[i]
        BY <1>0, <2>2, <3>2
      <4>2. CASE j \in 1..Len(evt_q)
        BY <2>2, <3>2, <4>1, <4>2 DEF FifoOrder, QueueInOrder
      <4>3. CASE j = Len(evt_q) + 1
        BY <2>2, <4>1, <4>3 DEF FifoOrder, QueueInOrder
      <4> QED BY <1>0, <2>2, <4>2, <4>3
    <3> QED BY <1>0, <2>1, <3>1, <3>2 DEF FifoOrder, QueueInOrder
  <2>6. QueueAfterFlash'
    <3> SUFFICES ASSUME NEW s \in oldest..active, NEW j \in 1..Len(flash[s])
                 PROVE  /\ flash[s][j].n < next_ev'
                        /\ \A i \in 1..Len(evt_q') : flash[s][j].n < evt_q'[i]
      BY <2>1 DEF QueueAfterFlash
    <3>1. flash[s][j].n \in 1..MaxEvents /\ flash[s][j].n < next_ev
      BY EntryAt DEF FifoOrder, QueueAfterFlash, LockIInv, TypeOK
    <3>2. ASSUME NEW i \in 1..Len(evt_q')
          PROVE  flash[s][j].n < evt_q'[i]
      <4>1. CASE i \in 1..Len(evt_q)
        BY <1>0, <2>1, <2>2, <4>1 DEF FifoOrder, QueueAfterFlash
      <4>2. CASE i = Len(evt_q) + 1
        BY <1>0, <2>1, <2>2, <3>1, <4>2
      <4> QED BY <1>0, <2>2, <3>2, <4>1, <4>2
    <3> QED BY <1>0, <2>1, <3>1, <3>2
  <2>7. HandInOrder'
    BY <2>1, <2>3 DEF HandInOrder
  <2>8. ErasedIsOld'
    BY <1>0, <2>1, <2>2, <2>3 DEF ErasedIsOld, LockIInv, TypeOK
  <2> QED BY <2>4, <2>5, <2>6, <2>7, <2>8 DEF FifoOrder
<1>2. CASE FlushGet
  <2>1. /\ evt_q # <<>> /\ ev' = Head(evt_q) /\ evt_q' = Tail(evt_q)
        /\ UNCHANGED <<next_ev, flash, oldest, active, erased>>
    BY <1>2 DEF FlushGet, fcbVars
  <2>2. /\ ev' = evt_q[1] /\ 1 \in 1..Len(evt_q)
        /\ Len(evt_q') = Len(evt_q) - 1
        /\ \A i \in 1..Len(evt_q') : /\ i + 1 \in 1..Len(evt_q)
                                     /\ evt_q'[i] = evt_q[i + 1]
    BY <1>0, <2>1
  <2>3. InOrder'
    BY <2>1 DEF FifoOrder, InOrder
  <2>4. QueueInOrder'
    <3>1. \A i \in 1..Len(evt_q') : evt_q'[i] < next_ev' /\ ev' < evt_q'[i]
      BY <1>0, <2>1, <2>2 DEF FifoOrder, QueueInOrder
    <3>2. ASSUME NEW i \in 1..Len(evt_q'), NEW j \in 1..Len(evt_q'), i < j
          PROVE  evt_q'[i] < evt_q'[j]
      BY <1>0, <2>1, <2>2, <3>2 DEF FifoOrder, QueueInOrder
    <3> QED BY <1>0, <2>1, <2>2, <3>1, <3>2 DEF FifoOrder, QueueInOrder
  <2>5. QueueAfterFlash'
    BY <2>1, <2>2 DEF FifoOrder, QueueAfterFlash
  <2>6. HandInOrder'
    BY <2>1, <2>2 DEF HandInOrder, FifoOrder, QueueAfterFlash
  <2>7. ErasedIsOld'
    BY <2>1, <2>2 DEF ErasedIsOld
  <2> QED BY <2>3, <2>4, <2>5, <2>6, <2>7 DEF FifoOrder
<1> QED BY <1>1, <1>2

\* A new slot is the newest.
LEMMA OrderReserve ==
  ASSUME LockIInv, OrderIInv, NEW from \in {"append", "retry"}, FcbAppend(from)
  PROVE  OrderIInv'
<1> USE DEF OrderIInv
<1>1. /\ ev \in 1..MaxEvents /\ FcbTypeOK /\ Reserve(ev)
      /\ RoomInSector \/ RoomInRing
      /\ pc[WorkQ] \in UnreservedPcs /\ pc'[WorkQ] = "write"
      /\ UNCHANGED <<evt_q, next_ev, ev, erased>>
  BY DEF FcbAppend, Reserve, Goto, LockIInv, TypeOK, HandInv, EventPcs,
     LockedPcs, UnreservedPcs, queueVars
<1>2. FcbTypeOK' /\ LastSlot'.n = ev
  BY <1>1, ReserveEffect
<1> DEFINE New(s, j) == s = active' /\ j = Len(flash'[s])
           Old(s, j) == /\ s \in oldest..active
                        /\ j \in 1..Len(flash[s])
                        /\ flash'[s][j] = flash[s][j]
<1>3. \A s \in oldest'..active' : \A j \in 1..Len(flash'[s]) :
        New(s, j) \/ Old(s, j)
  BY <1>1, ReserveEffect
<1>4. \A s, j : New(s, j) => flash'[s][j].n = ev
  BY <1>2 DEF LastSlot
<1>5. \A s, j : Old(s, j) => flash'[s][j].n < ev
  BY <1>1 DEF HandInOrder
<1>6. InOrder'
  <2> SUFFICES ASSUME NEW s1 \in oldest'..active', NEW s2 \in oldest'..active',
                      NEW i \in 1..Len(flash'[s1]), NEW j \in 1..Len(flash'[s2]),
                      s1 < s2 \/ (s1 = s2 /\ i < j)
               PROVE  flash'[s1][i].n < flash'[s2][j].n
    BY DEF InOrder
  <2>1. ~New(s1, i)
    BY <1>2 DEF FcbTypeOK
  <2>2. Old(s1, i)
    BY <1>3, <2>1
  <2>3. CASE New(s2, j)
    BY <1>4, <1>5, <2>2, <2>3
  <2>4. CASE Old(s2, j)
    BY <2>2, <2>4 DEF FifoOrder, InOrder
  <2> QED BY <1>3, <2>3, <2>4
<1>7. QueueInOrder'
  BY <1>1 DEF FifoOrder, QueueInOrder
<1>8. QueueAfterFlash'
  <2> SUFFICES ASSUME NEW s \in oldest'..active', NEW j \in 1..Len(flash'[s])
               PROVE  /\ flash'[s][j].n < next_ev
                      /\ \A i \in 1..Len(evt_q) : flash'[s][j].n < evt_q[i]
    BY <1>1 DEF QueueAfterFlash
  <2>1. CASE New(s, j)
    BY <1>4, <2>1 DEF FifoOrder, QueueInOrder
  <2>2. CASE Old(s, j)
    BY <2>2 DEF FifoOrder, QueueAfterFlash
  <2> QED BY <1>3, <2>1, <2>2
<1>9. HandInOrder'
  BY <1>1 DEF HandInOrder, UnreservedPcs
<1>10. ErasedIsOld'
  <2> SUFFICES ASSUME NEW e \in erased
               PROVE  /\ \A s \in oldest'..active' : \A j \in 1..Len(flash'[s]) :
                            e < flash'[s][j].n
                      /\ \A i \in 1..Len(evt_q) : e < evt_q[i]
                      /\ e < next_ev
                      /\ e < ev
    BY <1>1 DEF ErasedIsOld
  <2>1. e < ev
    BY <1>1 DEF ErasedIsOld
  <2>2. ASSUME NEW s \in oldest'..active', NEW j \in 1..Len(flash'[s])
        PROVE  e < flash'[s][j].n
    <3>1. CASE New(s, j)
      BY <1>4, <2>1, <3>1
    <3>2. CASE Old(s, j)
      BY <3>2 DEF ErasedIsOld
    <3> QED BY <1>3, <3>1, <3>2
  <2> QED BY <2>1, <2>2 DEF ErasedIsOld
<1> QED BY <1>6, <1>7, <1>8, <1>9, <1>10 DEF FifoOrder

\* The slot keeps its number while it is written and finished.
LEMMA OrderSetLast ==
  ASSUME LockIInv, OrderIInv, FlashWrite \/ FcbAppendFinish
  PROVE  OrderIInv'
<1>1. /\ FcbTypeOK /\ flash[active] # <<>> /\ LastSlot.n = ev
      /\ pc[WorkQ] \in WritingPcs
      /\ pc'[WorkQ] \in WritingPcs \cup {"unlock"}
      /\ UNCHANGED <<evt_q, next_ev, ev>>
  BY DEF FlashWrite, FcbAppendFinish, Goto, LockIInv, TypeOK, OpenSlotIntact,
     WritingPcs, queueVars
<1>2. LastSlot \in Entry
  BY <1>1 DEF LastSlot, FcbTypeOK
<1>3. \E e \in Entry : SetLast(e) /\ e.n = LastSlot.n
  <2>1. CASE FlashWrite
    <3>1. PICK d \in {"good", "bad"} : SetLast([LastSlot EXCEPT !.data = d])
      BY <2>1 DEF FlashWrite
    <3>2. /\ [LastSlot EXCEPT !.data = d] \in Entry
          /\ [LastSlot EXCEPT !.data = d].n = LastSlot.n
      BY <1>2 DEF Entry
    <3> QED BY <3>1, <3>2
  <2>2. CASE FcbAppendFinish
    <3>1. SetLast([LastSlot EXCEPT !.fin = TRUE])
      BY <2>2 DEF FcbAppendFinish
    <3>2. /\ [LastSlot EXCEPT !.fin = TRUE] \in Entry
          /\ [LastSlot EXCEPT !.fin = TRUE].n = LastSlot.n
      BY <1>2 DEF Entry
    <3> QED BY <3>1, <3>2
  <2> QED BY <2>1, <2>2
<1>4. PICK e \in Entry : SetLast(e) /\ e.n = LastSlot.n
  BY <1>3
<1>5. /\ oldest' = oldest /\ active' = active /\ erased' = erased
      /\ LastSlot' = e
      /\ \A s \in oldest..active :
           /\ Len(flash'[s]) = Len(flash[s])
           /\ \A j \in 1..Len(flash[s]) :
                ~(s = active /\ j = Len(flash[s])) => flash'[s][j] = flash[s][j]
  BY <1>1, <1>4, SetLastEffect
<1>6. \A s \in oldest..active :
        /\ Len(flash'[s]) = Len(flash[s])
        /\ \A j \in 1..Len(flash[s]) : flash'[s][j].n = flash[s][j].n
  BY <1>1, <1>4, <1>5 DEF LastSlot, FcbTypeOK
<1>7. InOrder'
  BY <1>5, <1>6 DEF OrderIInv, FifoOrder, InOrder
<1>8. QueueInOrder' /\ QueueAfterFlash'
  BY <1>1, <1>5, <1>6 DEF OrderIInv, FifoOrder, QueueInOrder, QueueAfterFlash
<1>9. HandInOrder'
  BY <1>1 DEF HandInOrder, UnreservedPcs, WritingPcs
<1>10. ErasedIsOld'
  BY <1>1, <1>5, <1>6 DEF OrderIInv, ErasedIsOld
<1> QED BY <1>7, <1>8, <1>9, <1>10 DEF OrderIInv, FifoOrder

\* Only the oldest records go, by a rotation or a clear.
LEMMA OrderRotate ==
  ASSUME LockIInv, OrderIInv, FcbRotate \/ \E t \in Clearers : ClearRotate(t)
  PROVE  OrderIInv'
<1>1. /\ FcbTypeOK /\ Rotate
      /\ pc[WorkQ] \notin WritingPcs
      /\ pc'[WorkQ] \in UnreservedPcs => pc[WorkQ] \in UnreservedPcs
      /\ pc'[WorkQ] \notin WritingPcs
      /\ UNCHANGED <<evt_q, next_ev, ev>>
  <2>1. CASE FcbRotate
    BY <2>1 DEF FcbRotate, Goto, LockIInv, TypeOK, UnreservedPcs, WritingPcs,
       queueVars
  <2>2. ASSUME NEW t \in Clearers, ClearRotate(t)
        PROVE  pc[WorkQ] \notin WritingPcs
    <3>1. journal_lock = {t}
      BY <2>2 DEF ClearRotate, LockIInv, LockInv, ClearPcs
    <3>2. pc[WorkQ] \in WritingPcs => journal_lock = {WorkQ}
      BY DEF LockIInv, LockInv, LockedPcs
    <3> QED BY <2>2, <3>1, <3>2 DEF ClearRotate, WritingPcs
  <2> QED BY <2>1, <2>2 DEF ClearRotate, LockIInv, TypeOK, queueVars
<1>2. /\ \A s \in oldest'..active' : \A j \in 1..Len(flash'[s]) :
           /\ s \in oldest..active
           /\ s # oldest
           /\ j \in 1..Len(flash[s])
           /\ flash'[s][j] = flash[s][j]
  BY <1>1, RotateEffect
<1>3. InOrder'
  BY <1>2 DEF OrderIInv, FifoOrder, InOrder
<1>4. QueueInOrder' /\ QueueAfterFlash'
  BY <1>1, <1>2 DEF OrderIInv, FifoOrder, QueueInOrder, QueueAfterFlash
<1>5. HandInOrder'
  BY <1>1, <1>2 DEF OrderIInv, HandInOrder
<1>6. ErasedIsOld'
  <2> SUFFICES ASSUME NEW e \in erased'
               PROVE  /\ \A s \in oldest'..active' : \A j \in 1..Len(flash'[s]) :
                            e < flash'[s][j].n
                      /\ \A i \in 1..Len(evt_q) : e < evt_q[i]
                      /\ e < next_ev
                      /\ pc[WorkQ] \in UnreservedPcs => e < ev
    BY <1>1 DEF ErasedIsOld
  <2>1. CASE e \in erased
    BY <1>2, <2>1 DEF OrderIInv, ErasedIsOld
  <2>2. CASE e \in Visible({oldest})
    <3>1. oldest \in oldest..active
      BY <1>1 DEF FcbTypeOK
    <3>2. PICK i \in 1..Len(flash[oldest]) : flash[oldest][i].n = e
      BY <2>2 DEF Visible
    <3>3. ASSUME NEW s \in oldest'..active', NEW j \in 1..Len(flash'[s])
          PROVE  e < flash'[s][j].n
      BY <1>1, <1>2, <3>1, <3>2 DEF OrderIInv, FifoOrder, InOrder, FcbTypeOK
    <3> QED BY <3>1, <3>2, <3>3 DEF OrderIInv, FifoOrder, QueueAfterFlash, HandInOrder
  <2> QED BY <1>1, <2>1, <2>2 DEF Rotate
<1> QED BY <1>3, <1>4, <1>5, <1>6 DEF OrderIInv, FifoOrder

\* All steps together.
LEMMA OrderStep ==
  ASSUME LockIInv, OrderIInv, [Next]_vars
  PROVE  OrderIInv'
<1> USE DEF Goto, queueVars
<1>0. /\ ev \in 0..MaxEvents /\ WorkQ \in Threads
      /\ pc \in [Threads -> {"idle", "submit", "drop", "clear_lock"}
                             \cup ClearPcs \cup WorkQPcs]
  BY DEF LockIInv, TypeOK
<1>1. CASE UNCHANGED vars
  BY <1>1, OrderQuiet DEF vars
<1>2. ASSUME NEW t \in Threads, Write(t), ~WritePut(t)
      PROVE  OrderIInv'
  <2>1. /\ UNCHANGED <<fcbVars, evt_q, next_ev, ev>>
        /\ pc'[WorkQ] \in UnreservedPcs \cup WritingPcs => pc'[WorkQ] = pc[WorkQ]
    BY <1>0, <1>2 DEF Write, WriteNotReady, WriteSubmit, WriteFull,
       WriteFullLoad, WriteFullStore, vars, UnreservedPcs, WritingPcs
  <2> QED BY <2>1, OrderQuiet
<1>3. CASE FlushStart \/ FlushEmpty \/ AppendLock \/ FcbAppendNoSpace
           \/ AppendUnlock \/ AppendUnlockError \/ LiveNotify \/ Report \/ Reset
           \/ \E from \in {"append", "rotate", "retry", "write", "finish"} :
                AppendError(from)
  <2>1. /\ UNCHANGED <<fcbVars, evt_q, next_ev>>
        /\ ev' \in {0, ev}
        /\ pc'[WorkQ] \notin WritingPcs
        /\ pc'[WorkQ] \in UnreservedPcs =>
             pc[WorkQ] \in UnreservedPcs /\ ev' = ev
    BY <1>0, <1>3 DEF FlushStart, FlushEmpty, AppendLock, FcbAppendNoSpace,
       AppendUnlock, AppendUnlockError, LiveNotify, Report, Reset,
       AppendError, UnreservedPcs, WritingPcs
  <2> QED BY <2>1, OrderQuiet
<1>4. ASSUME NEW t \in Clearers, Clear(t), ~ClearRotate(t)
      PROVE  OrderIInv'
  <2>1. /\ UNCHANGED <<fcbVars, evt_q, next_ev, ev>>
        /\ pc'[WorkQ] \in UnreservedPcs \cup WritingPcs => pc'[WorkQ] = pc[WorkQ]
    BY <1>0, <1>4 DEF Clear, ClearStart, ClearLock, ClearError, ClearDone,
       ClearUnlock, UnreservedPcs, WritingPcs
  <2> QED BY <2>1, OrderQuiet
<1>5. CASE Crash
  <2>1. /\ UNCHANGED <<flash, oldest, active, erased, next_ev>>
        /\ evt_q' = <<>> /\ ev' = 0
        /\ pc'[WorkQ] = "idle"
    BY <1>0, <1>5 DEF Crash, fcbVars
  <2>2. InOrder' /\ QueueInOrder' /\ QueueAfterFlash'
    BY <2>1 DEF OrderIInv, FifoOrder, InOrder, QueueInOrder, QueueAfterFlash,
       LockIInv, TypeOK
  <2>3. HandInOrder' /\ ErasedIsOld'
    BY <2>1 DEF OrderIInv, HandInOrder, ErasedIsOld, UnreservedPcs, WritingPcs
  <2> QED BY <2>2, <2>3 DEF OrderIInv, FifoOrder
<1>6. CASE EventLogInit
  BY <1>6, OrderQuiet DEF EventLogInit
<1> QED
  BY <1>1, <1>2, <1>3, <1>4, <1>5, <1>6, OrderQueueStep, OrderReserve,
     OrderSetLast, OrderRotate DEF Next, Idle, Flush, Write, Clear

\* At first the queue and the flash are empty.
LEMMA OrderInit == Init => OrderIInv
<1> SUFFICES ASSUME Init PROVE OrderIInv
  OBVIOUS
<1>1. /\ oldest = 1 /\ active = 1 /\ flash[1] = <<>> /\ evt_q = <<>>
      /\ ev = 0 /\ next_ev = 1 /\ erased = {} /\ pc[WorkQ] = "idle"
  BY DEF Init
<1>2. \A s \in oldest..active : 1..Len(flash[s]) = {}
  BY <1>1
<1> QED
  BY <1>1, <1>2 DEF OrderIInv, FifoOrder, InOrder, QueueInOrder,
     QueueAfterFlash, HandInOrder, ErasedIsOld, UnreservedPcs

(***************************************************************************)
(* The order of acceptance holds from the queue to the flash and to what   *)
(* has been erased: the inductive form of FifoOrder.                       *)
(***************************************************************************)
THEOREM OrderInvariant == Spec => []OrderIInv
<1>1. LockIInv /\ OrderIInv /\ [Next]_vars => OrderIInv'
  BY OrderStep
<1> QED BY <1>1, OrderInit, LockInvariant, PTL DEF Spec

(***************************************************************************)
(* Records lie on the flash in the order in which event_log_write()        *)
(* accepted them, across rotations, clears, failed appends and power loss, *)
(* and the queue continues that order.                                     *)
(***************************************************************************)
THEOREM FifoOrderSafe == Spec => []FifoOrder
  BY OrderInvariant, PTL DEF OrderIInv

-----------------------------------------------------------------------------
(* The flash journal implements the abstract one.                          *)

\* What a walk finds in some sectors, in terms of their slots.
LEMMA VisibleIn ==
  ASSUME FcbTypeOK, NEW sectors \in SUBSET (oldest..active), NEW n
  PROVE  n \in Visible(sectors) <=>
           \E s \in sectors : \E j \in 1..Len(flash[s]) :
             flash[s][j].fin /\ flash[s][j].n = n
  BY EntryAt DEF Visible

\* Reserving a slot shows nothing: a crash now costs only this record.
LEMMA ReserveKeeps ==
  ASSUME FcbTypeOK, RoomInSector \/ RoomInRing,
         NEW n \in 1..MaxEvents, Reserve(n)
  PROVE  Kept' = Kept /\ erased' = erased
<1> DEFINE At(s, j, k) == flash[s][j].fin /\ flash[s][j].n = k
<1>1. erased' = erased
  BY DEF Reserve
<1>2. ~LastSlot'.fin
  BY ReserveEffect
<1>3. ASSUME NEW k \in 1..MaxEvents
      PROVE  (\E s \in oldest..active : \E j \in 1..Len(flash[s]) : At(s, j, k))
             <=> (\E s \in oldest'..active' : \E j \in 1..Len(flash'[s]) : At(s, j, k)')
  <2>1. ASSUME NEW s \in oldest..active, NEW j \in 1..Len(flash[s]), At(s, j, k)
        PROVE  /\ s \in oldest'..active' /\ j \in 1..Len(flash'[s])
               /\ At(s, j, k)'
    BY <2>1, ReserveEffect
  <2>2. ASSUME NEW s \in oldest'..active', NEW j \in 1..Len(flash'[s]), At(s, j, k)'
        PROVE  s \in oldest..active /\ j \in 1..Len(flash[s]) /\ At(s, j, k)
    <3>1. ~(s = active' /\ j = Len(flash'[s]))
      BY <1>2, <2>2 DEF LastSlot
    <3> QED BY <2>2, <3>1, ReserveEffect
  <2> QED BY <2>1, <2>2
<1>4. Kept' = Kept
  BY <1>3 DEF Kept, Visible
<1> QED BY <1>1, <1>4

\* Writing the last slot adds its number once it is finished.
LEMMA SetLastKeeps ==
  ASSUME FcbTypeOK, flash[active] # <<>>, ~LastSlot.fin,
         NEW e \in Entry, SetLast(e)
  PROVE  /\ Kept' = IF e.fin THEN Kept \cup {e.n} ELSE Kept
         /\ erased' = erased
<1> DEFINE At(s, j, k) == flash[s][j].fin /\ flash[s][j].n = k
           last == Len(flash[active])
<1>1. /\ active \in oldest..active /\ last \in 1..Len(flash[active])
  BY DEF FcbTypeOK
<1>2. /\ oldest' = oldest /\ active' = active /\ erased' = erased
      /\ Len(flash'[active]) = last
      /\ flash'[active][last] = e
      /\ \A s \in oldest..active :
           /\ Len(flash'[s]) = Len(flash[s])
           /\ \A j \in 1..Len(flash[s]) :
                ~(s = active /\ j = last) => flash'[s][j] = flash[s][j]
  BY <1>1, SetLastEffect DEF LastSlot
<1>3. e.n \in 1..MaxEvents
  BY DEF Entry
<1>4. ASSUME NEW k \in 1..MaxEvents
      PROVE  (\E s \in oldest'..active' : \E j \in 1..Len(flash'[s]) : At(s, j, k)')
             <=> \/ \E s \in oldest..active : \E j \in 1..Len(flash[s]) : At(s, j, k)
                 \/ e.fin /\ e.n = k
  <2>1. ASSUME NEW s \in oldest..active, NEW j \in 1..Len(flash[s]), At(s, j, k)
        PROVE  j \in 1..Len(flash'[s]) /\ At(s, j, k)'
    BY <1>2, <2>1 DEF LastSlot
  <2>2. e.fin /\ e.n = k => last \in 1..Len(flash'[active]) /\ At(active, last, k)'
    BY <1>1, <1>2
  <2>3. ASSUME NEW s \in oldest..active, NEW j \in 1..Len(flash'[s]), At(s, j, k)'
        PROVE  (j \in 1..Len(flash[s]) /\ At(s, j, k)) \/ (e.fin /\ e.n = k)
    BY <1>2, <2>3
  <2> QED BY <1>1, <1>2, <2>1, <2>2, <2>3
<1>5. \A k \in 1..MaxEvents : k \in Kept' <=> k \in Kept \/ (e.fin /\ e.n = k)
  BY <1>4 DEF Kept, Visible
<1>6. Kept \subseteq 1..MaxEvents /\ Kept' \subseteq 1..MaxEvents
  BY DEF Kept, Visible
<1>7. Kept' = IF e.fin THEN Kept \cup {e.n} ELSE Kept
  <2>1. CASE e.fin
    BY <1>3, <1>5, <1>6, <2>1
  <2>2. CASE ~e.fin
    BY <1>5, <1>6, <2>2
  <2> QED BY <2>1, <2>2
<1> QED BY <1>2, <1>7

\* A rotation moves the oldest records, all of them and no other.
LEMMA RotateForgets ==
  ASSUME LockIInv, OrderIInv, Rotate
  PROVE  Abstract!Forget(Visible({oldest})) /\ Visible({oldest}) \subseteq Kept
<1> DEFINE old == Visible({oldest})
           At(s, j, k) == flash[s][j].fin /\ flash[s][j].n = k
           Rest(k) == \E s \in oldest..active :
                        s # oldest /\ \E j \in 1..Len(flash[s]) : At(s, j, k)
<1>1. FcbTypeOK /\ oldest \in oldest..active
  BY DEF LockIInv, TypeOK, FcbTypeOK
<1>2. \A a \in old, k \in 1..MaxEvents :
        Rest(k) => a < k
  <2> SUFFICES ASSUME NEW a \in old, NEW k \in 1..MaxEvents,
                      NEW s \in oldest..active, s # oldest,
                      NEW j \in 1..Len(flash[s]), At(s, j, k)
               PROVE  a < k
    OBVIOUS
  <2>1. PICK i \in 1..Len(flash[oldest]) : At(oldest, i, a)
    BY DEF Visible
  <2> QED BY <1>1, <2>1 DEF OrderIInv, FifoOrder, InOrder, FcbTypeOK
<1>3. ASSUME NEW k \in 1..MaxEvents
      PROVE  k \in Kept' <=> Rest(k)
  <2>1. ASSUME NEW s \in oldest..active, s # oldest,
               NEW j \in 1..Len(flash[s]), At(s, j, k)
        PROVE  k \in Kept'
    BY <1>1, <2>1, RotateEffect DEF Kept, Visible
  <2>2. ASSUME k \in Kept'
        PROVE  Rest(k)
    <3>1. PICK s \in oldest'..active' : \E j \in 1..Len(flash'[s]) : At(s, j, k)'
      BY <2>2 DEF Kept, Visible
    <3> QED BY <1>1, <3>1, RotateEffect
  <2> QED BY <2>1, <2>2
<1>4. \A k \in 1..MaxEvents :
        k \in Kept <=> k \in old \/ Rest(k)
  BY <1>1 DEF Kept, Visible
<1>5. /\ old \subseteq 1..MaxEvents /\ Kept \subseteq 1..MaxEvents
      /\ Kept' \subseteq 1..MaxEvents
  BY DEF Kept, Visible
<1> HIDE DEF Rest, old
<1>6. Kept' = Kept \ old
  <2>1. \A k \in 1..MaxEvents : k \in Kept' <=> k \in Kept /\ k \notin old
    BY <1>2, <1>3, <1>4, <1>5
  <2> QED BY <1>5, <2>1
<1>7. \A a \in old, k \in Kept \ old : a < k
  BY <1>2, <1>4, <1>5
<1>8. erased' = erased \cup old
  BY DEF Rotate, old
<1>9. old \subseteq Kept
  BY <1>4, <1>5
<1> QED BY <1>6, <1>7, <1>8, <1>9 DEF Abstract!Forget, old

\* While a slot is written it is the last one, and not finished.
LEMMA OpenSlot ==
  ASSUME LockIInv, pc[WorkQ] \in WritingPcs
  PROVE  /\ FcbTypeOK /\ flash[active] # <<>> /\ LastSlot \in Entry
         /\ LastSlot.n = ev /\ ev \in 1..MaxEvents /\ ~LastSlot.fin
<1>1. FcbTypeOK /\ flash[active] # <<>> /\ LastSlot.n = ev /\ ~LastSlot.fin
  BY DEF LockIInv, TypeOK, OpenSlotIntact
<1>2. LastSlot \in Entry
  BY <1>1 DEF LastSlot, FcbTypeOK
<1> QED BY <1>1, <1>2 DEF Entry

\* Reserving a slot and writing its data show nothing to readers.
LEMMA AppendKeeps ==
  ASSUME LockIInv,
         FlashWrite \/ \E from \in {"append", "retry"} : FcbAppend(from)
  PROVE  Kept' = Kept /\ erased' = erased
<1>1. ASSUME NEW from \in {"append", "retry"}, FcbAppend(from)
      PROVE  Kept' = Kept /\ erased' = erased
  <2>1. /\ ev \in 1..MaxEvents /\ FcbTypeOK /\ Reserve(ev)
        /\ RoomInSector \/ RoomInRing
    BY <1>1 DEF FcbAppend, Goto, LockIInv, TypeOK, HandInv, EventPcs, LockedPcs
  <2> QED BY <2>1, ReserveKeeps
<1>2. CASE FlashWrite
  <2>1. PICK d \in {"good", "bad"} : SetLast([LastSlot EXCEPT !.data = d])
    BY <1>2 DEF FlashWrite
  <2>2. pc[WorkQ] \in WritingPcs
    BY <1>2 DEF FlashWrite, Goto, WritingPcs
  <2>3. /\ [LastSlot EXCEPT !.data = d] \in Entry
        /\ ~[LastSlot EXCEPT !.data = d].fin
    BY <2>2, OpenSlot DEF Entry
  <2> QED BY <2>1, <2>2, <2>3, OpenSlot, SetLastKeeps
<1> QED BY <1>1, <1>2

\* Finishing the entry shows its event.
LEMMA FinishKeeps ==
  ASSUME LockIInv, FcbAppendFinish
  PROVE  Kept' = Kept \cup {ev} /\ erased' = erased
<1>1. SetLast([LastSlot EXCEPT !.fin = TRUE]) /\ pc[WorkQ] \in WritingPcs
  BY DEF FcbAppendFinish, Goto, WritingPcs
<1>2. /\ [LastSlot EXCEPT !.fin = TRUE] \in Entry
      /\ [LastSlot EXCEPT !.fin = TRUE].fin
      /\ [LastSlot EXCEPT !.fin = TRUE].n = ev
  BY <1>1, OpenSlot DEF Entry
<1> QED BY <1>1, <1>2, OpenSlot, SetLastKeeps

\* What is recorded is older than an event whose entry is being written.
LEMMA RecordedIsOld ==
  ASSUME LockIInv, OrderIInv, pc[WorkQ] \in WritingPcs
  PROVE  /\ \A k \in Kept : k < ev
         /\ \A e \in erased : e < ev
<1>1. ASSUME NEW k \in Kept PROVE k < ev
  <2>1. PICK s \in oldest..active : \E j \in 1..Len(flash[s]) :
          flash[s][j].fin /\ flash[s][j].n = k
    BY DEF Kept, Visible
  <2>2. PICK j \in 1..Len(flash[s]) : flash[s][j].fin /\ flash[s][j].n = k
    BY <2>1
  <2>3. active \in oldest..active /\ Len(flash[active]) \in 1..Len(flash[active])
    BY OpenSlot DEF FcbTypeOK
  <2>4. s < active \/ (s = active /\ j < Len(flash[active]))
    BY OpenSlot, <2>2, <2>3 DEF LastSlot
  <2> QED BY OpenSlot, <2>2, <2>3, <2>4
        DEF OrderIInv, FifoOrder, InOrder, LastSlot
<1> QED BY <1>1 DEF OrderIInv, ErasedIsOld

\* Each step is one of the abstract journal, or none.
LEMMA ImplementsStep ==
  ASSUME LockIInv, OrderIInv, [Next]_vars
  PROVE  [Abstract!Next]_(<<Kept, erased>>)
<1> DEFINE Still == Kept' = Kept /\ erased' = erased
<1>1. UNCHANGED fcbVars => Still
  BY DEF fcbVars, Kept, Visible
<1>2. CASE UNCHANGED vars
  BY <1>1, <1>2 DEF vars
<1>3. CASE FlashWrite \/ \E from \in {"append", "retry"} : FcbAppend(from)
  BY <1>3, AppendKeeps
<1>6. CASE FcbAppendFinish
  <2>1. pc[WorkQ] \in WritingPcs
    BY <1>6 DEF FcbAppendFinish, Goto, WritingPcs
  <2>2. Kept' = Kept \cup {ev} /\ erased' = erased
    BY <1>6, FinishKeeps
  <2> QED BY <2>1, <2>2, OpenSlot, RecordedIsOld
        DEF Abstract!Next, Abstract!Record
<1>7. CASE FcbRotate \/ \E t \in Clearers : ClearRotate(t)
  <2>1. Rotate
    BY <1>7 DEF FcbRotate, ClearRotate
  <2> QED BY <2>1, RotateForgets DEF Abstract!Next
<1>8. ASSUME NEW t \in Threads, Write(t) PROVE Still
  BY <1>1, <1>8 DEF Write, WriteNotReady, WritePut, WriteSubmit, WriteFull,
     WriteFullLoad, WriteFullStore, vars
<1>9. CASE FlushStart \/ FlushGet \/ FlushEmpty \/ AppendLock
           \/ FcbAppendNoSpace \/ AppendUnlock \/ AppendUnlockError
           \/ LiveNotify \/ Report \/ Reset
           \/ \E from \in {"append", "rotate", "retry", "write", "finish"} :
                AppendError(from)
  BY <1>1, <1>9 DEF FlushStart, FlushGet, FlushEmpty, AppendLock,
     FcbAppendNoSpace, AppendUnlock, AppendUnlockError, LiveNotify, Report,
     Reset, AppendError
<1>10. ASSUME NEW t \in Clearers, Clear(t), ~ClearRotate(t) PROVE Still
  BY <1>1, <1>10 DEF Clear, ClearStart, ClearLock, ClearError, ClearDone,
     ClearUnlock
<1>11. CASE Crash \/ EventLogInit
  BY <1>1, <1>11 DEF Crash, EventLogInit
<1> QED
  BY <1>2, <1>3, <1>6, <1>7, <1>8, <1>9, <1>10, <1>11 DEF Next, Idle, Flush

\* At first nothing is on the flash.
LEMMA ImplementsInit == Init => Abstract!Init
<1> SUFFICES ASSUME Init PROVE Kept = {} /\ erased = {}
  BY DEF Abstract!Init
<1>1. oldest = 1 /\ active = 1 /\ flash[1] = <<>> /\ erased = {}
  BY DEF Init
<1>2. \A s \in oldest..active : 1..Len(flash[s]) = {}
  BY <1>1
<1> QED BY <1>1, <1>2 DEF Kept, Visible

(***************************************************************************)
(* The journal in flash implements the abstract journal: its readers see   *)
(* records only added as the newest and only forgotten from the oldest     *)
(* end, and power loss changes nothing they see.                           *)
(***************************************************************************)
THEOREM Implementation == Spec => ImplementsJournal
<1>1. LockIInv /\ OrderIInv /\ [Next]_vars => [Abstract!Next]_(<<Kept, erased>>)
  BY ImplementsStep
<1> QED
  BY ImplementsInit, <1>1, LockInvariant, OrderInvariant, PTL
     DEF Spec, ImplementsJournal, Abstract!Spec, Abstract!journalVars

(***************************************************************************)
(* The journal never has a hole: whatever it gave up is older than         *)
(* everything it still holds (event_log.h, lines 9-13).                    *)
(***************************************************************************)
THEOREM NewestKeptSafe == Spec => []Abstract!NewestKept
<1>1. OrderIInv => Abstract!NewestKept
  BY DEF OrderIInv, ErasedIsOld, Abstract!NewestKept, Kept, Visible
<1> QED BY <1>1, OrderInvariant, PTL
-----------------------------------------------------------------------------
(* An event has one fate, and what the handler tells of it is true.        *)

\* What a walk found once, whether or not it is erased by now.
Recorded == Kept \cup erased

\* The event in hand is recorded as soon as its entry is finished, and not
\* before.
HandRecorded ==
  /\ pc[WorkQ] \in {"unlock", "live"} => ev \in Recorded
  /\ pc[WorkQ] \in UnreservedPcs \cup WritingPcs \cup {"unlock_err"} =>
       ev \notin Recorded

\* Events are done with in the order of acceptance.
DoneIsOld ==
  \A n \in live \cup failed :
    /\ n < next_ev
    /\ \A i \in 1..Len(evt_q) : n < evt_q[i]
    /\ ev # 0 => n < ev

\* Every event accepted since the last power loss is somewhere.
Accounted ==
  \A n \in (cutoff + 1)..(next_ev - 1) :
    \/ \E i \in 1..Len(evt_q) : evt_q[i] = n
    \/ n \in {ev} \cup live \cup failed

FateIInv == ToldTruth /\ HandRecorded /\ DoneIsOld /\ Accounted

\* A step that takes no event and shows none.
LEMMA FateQuiet ==
  ASSUME FateIInv, Recorded' = Recorded,
         UNCHANGED <<evt_q, next_ev, ev, fateVars>>,
         pc'[WorkQ] \in {"unlock", "live"} => pc[WorkQ] \in {"unlock", "live"},
         pc'[WorkQ] \in UnreservedPcs \cup WritingPcs \cup {"unlock_err"} =>
           pc[WorkQ] \in UnreservedPcs \cup WritingPcs \cup {"unlock_err"}
  PROVE  FateIInv'
<1> USE DEF FateIInv, fateVars
<1>1. ToldTruth'
  BY DEF ToldTruth, Recorded
<1>2. HandRecorded'
  BY DEF HandRecorded
<1>3. DoneIsOld' /\ Accounted'
  BY DEF DoneIsOld, Accounted
<1> QED BY <1>1, <1>2, <1>3

\* What is recorded is older than the queue.
LEMMA RecordedBeforeQueue ==
  ASSUME LockIInv, OrderIInv
  PROVE  /\ Recorded \subseteq 1..MaxEvents
         /\ \A n \in Recorded : n < next_ev /\ \A i \in 1..Len(evt_q) : n < evt_q[i]
<1>1. Kept \subseteq 1..MaxEvents /\ erased \subseteq 1..MaxEvents
  BY DEF Kept, Visible, LockIInv, TypeOK
<1>2. ASSUME NEW n \in Kept
      PROVE  n < next_ev /\ \A i \in 1..Len(evt_q) : n < evt_q[i]
  BY DEF Kept, Visible, OrderIInv, FifoOrder, QueueAfterFlash
<1> QED BY <1>1, <1>2 DEF Recorded, OrderIInv, ErasedIsOld

\* An event is accepted.
LEMMA FatePut ==
  ASSUME LockIInv, OrderIInv, FateIInv, NEW t \in Threads, WritePut(t)
  PROVE  FateIInv'
<1>1. /\ evt_q' = Append(evt_q, next_ev) /\ next_ev' = next_ev + 1
      /\ UNCHANGED <<ev, flash, oldest, active, erased, live, failed, cutoff>>
  BY DEF WritePut, fcbVars, fateVars
<1>2. /\ evt_q \in Seq(1..MaxEvents) /\ next_ev \in Nat
      /\ cutoff \in Nat /\ live \cup failed \subseteq 1..MaxEvents
  BY DEF LockIInv, TypeOK
<1>3. /\ Len(evt_q') = Len(evt_q) + 1
      /\ \A i \in 1..Len(evt_q) : evt_q'[i] = evt_q[i]
      /\ evt_q'[Len(evt_q) + 1] = next_ev
  BY <1>1, <1>2
<1>4. Kept' = Kept /\ Recorded' = Recorded
  BY <1>1 DEF Kept, Visible, Recorded
<1>5. pc'[WorkQ] \in EventPcs => pc'[WorkQ] = pc[WorkQ]
  BY DEF WritePut, Goto, EventPcs, LockedPcs, WritingPcs, LockIInv, TypeOK
<1>6. ToldTruth' /\ HandRecorded'
  BY <1>1, <1>4, <1>5 DEF FateIInv, ToldTruth, HandRecorded, Recorded,
     EventPcs, LockedPcs, UnreservedPcs, WritingPcs
<1>7. DoneIsOld'
  BY <1>1, <1>2, <1>3 DEF FateIInv, DoneIsOld
<1>8. Accounted'
  <2> SUFFICES ASSUME NEW n \in (cutoff + 1)..next_ev
               PROVE  \/ \E i \in 1..Len(evt_q') : evt_q'[i] = n
                      \/ n \in {ev} \cup live \cup failed
    BY <1>1, <1>2 DEF Accounted
  <2>1. CASE n = next_ev
    BY <1>2, <1>3, <2>1
  <2>2. CASE n \in (cutoff + 1)..(next_ev - 1)
    BY <1>2, <1>3, <2>2 DEF FateIInv, Accounted
  <2> QED BY <1>2, <2>1, <2>2
<1> QED BY <1>6, <1>7, <1>8 DEF FateIInv

\* The handler takes an event.
LEMMA FateGet ==
  ASSUME LockIInv, OrderIInv, FateIInv, FlushGet
  PROVE  FateIInv'
<1>1. /\ evt_q # <<>> /\ ev' = Head(evt_q) /\ evt_q' = Tail(evt_q)
      /\ pc[WorkQ] = "get" /\ pc'[WorkQ] = "lock"
      /\ UNCHANGED <<next_ev, flash, oldest, active, erased, live, failed, cutoff>>
  BY DEF FlushGet, fcbVars, fateVars, Goto, LockIInv, TypeOK
<1>2. /\ evt_q \in Seq(1..MaxEvents) /\ next_ev \in Nat /\ ev \in Nat
      /\ cutoff \in Nat /\ live \cup failed \subseteq 1..MaxEvents
  BY DEF LockIInv, TypeOK
<1>3. /\ ev' = evt_q[1] /\ 1 \in 1..Len(evt_q)
      /\ Len(evt_q') = Len(evt_q) - 1
      /\ \A i \in 1..Len(evt_q') : /\ i + 1 \in 1..Len(evt_q)
                                   /\ evt_q'[i] = evt_q[i + 1]
      /\ \A i \in 1..Len(evt_q) : i = 1 \/ (i - 1 \in 1..Len(evt_q')
                                            /\ evt_q'[i - 1] = evt_q[i])
  BY <1>1, <1>2
<1>4. ev = 0
  BY <1>1 DEF LockIInv, HandInv, EventPcs, LockedPcs, WritingPcs
<1>5. Kept' = Kept /\ Recorded' = Recorded
  BY <1>1 DEF Kept, Visible, Recorded
<1>6. ev' \notin Recorded
  BY <1>2, <1>3, RecordedBeforeQueue
<1>7. ToldTruth' /\ HandRecorded'
  BY <1>1, <1>5, <1>6 DEF FateIInv, ToldTruth, HandRecorded, Recorded
<1>8. DoneIsOld'
  BY <1>1, <1>2, <1>3 DEF FateIInv, DoneIsOld
<1>9. Accounted'
  <2> SUFFICES ASSUME NEW n \in (cutoff + 1)..(next_ev - 1)
               PROVE  \/ \E i \in 1..Len(evt_q') : evt_q'[i] = n
                      \/ n \in {ev'} \cup live \cup failed
    BY <1>1 DEF Accounted
  <2>1. CASE \E i \in 1..Len(evt_q) : evt_q[i] = n
    BY <1>3, <2>1
  <2>2. CASE n \in {ev} \cup live \cup failed
    BY <1>2, <1>4, <2>2
  <2> QED BY <2>1, <2>2 DEF FateIInv, Accounted
<1> QED BY <1>7, <1>8, <1>9 DEF FateIInv

\* The entry is finished.
LEMMA FateFinish ==
  ASSUME LockIInv, OrderIInv, FateIInv, FcbAppendFinish
  PROVE  FateIInv'
<1>1. /\ pc[WorkQ] = "finish" /\ pc'[WorkQ] = "unlock"
      /\ UNCHANGED <<ev, evt_q, next_ev, live, failed, cutoff>>
  BY DEF FcbAppendFinish, Goto, queueVars, fateVars, LockIInv, TypeOK
<1>2. Kept' = Kept \cup {ev} /\ erased' = erased
  BY FinishKeeps
<1>3. ev \in Nat /\ ev # 0 /\ failed \subseteq Nat
  BY <1>1 DEF LockIInv, TypeOK, HandInv, EventPcs, LockedPcs, WritingPcs
<1>4. ev \notin failed
  BY <1>3 DEF FateIInv, DoneIsOld
<1>5. ToldTruth'
  BY <1>1, <1>2, <1>4 DEF FateIInv, ToldTruth
<1>6. HandRecorded'
  BY <1>1, <1>2 DEF HandRecorded, Recorded, UnreservedPcs, WritingPcs
<1>7. DoneIsOld' /\ Accounted'
  BY <1>1 DEF FateIInv, DoneIsOld, Accounted
<1> QED BY <1>5, <1>6, <1>7 DEF FateIInv

\* The handler is done with an event: it tells the live tail or logs an error.
LEMMA FateDone ==
  ASSUME LockIInv, OrderIInv, FateIInv, AppendUnlockError \/ LiveNotify
  PROVE  FateIInv'
<1>1. /\ ev' = 0 /\ pc'[WorkQ] = "get"
      /\ UNCHANGED <<evt_q, next_ev, flash, oldest, active, erased, cutoff>>
      /\ live' \cup failed' = live \cup failed \cup {ev}
      /\ \/ live' = live
         \/ live' = live \cup {ev} /\ pc[WorkQ] = "live"
      /\ \/ failed' = failed
         \/ failed' = failed \cup {ev} /\ pc[WorkQ] = "unlock_err"
  BY DEF AppendUnlockError, LiveNotify, Goto, queueVars, fcbVars, LockIInv, TypeOK
<1>2. ev \in Nat /\ next_ev \in Nat /\ evt_q \in Seq(1..MaxEvents)
  BY DEF LockIInv, TypeOK
<1>3. Kept' = Kept /\ Recorded' = Recorded
  BY <1>1 DEF Kept, Visible, Recorded
<1>4. ToldTruth'
  BY <1>1, <1>3 DEF FateIInv, ToldTruth, HandRecorded, Recorded
<1>5. HandRecorded'
  BY <1>1 DEF HandRecorded, UnreservedPcs, WritingPcs
<1>6. DoneIsOld'
  BY <1>1, <1>2 DEF FateIInv, DoneIsOld, OrderIInv, FifoOrder, QueueInOrder
<1>7. Accounted'
  BY <1>1 DEF FateIInv, Accounted
<1> QED BY <1>4, <1>5, <1>6, <1>7 DEF FateIInv

\* A power loss: what was in RAM is before the new cutoff.
LEMMA FateCrash ==
  ASSUME LockIInv, FateIInv, Crash
  PROVE  FateIInv'
<1>1. /\ evt_q' = <<>> /\ ev' = 0 /\ pc'[WorkQ] = "idle" /\ cutoff' = next_ev - 1
      /\ UNCHANGED <<next_ev, flash, oldest, active, erased, live, failed>>
  BY DEF Crash, fcbVars
<1>2. Kept' = Kept /\ next_ev \in Nat
  BY <1>1 DEF Kept, Visible, LockIInv, TypeOK
<1>3. ToldTruth' /\ HandRecorded'
  BY <1>1, <1>2 DEF FateIInv, ToldTruth, HandRecorded, UnreservedPcs, WritingPcs
<1>4. DoneIsOld' /\ Accounted'
  BY <1>1, <1>2 DEF FateIInv, DoneIsOld, Accounted
<1> QED BY <1>3, <1>4 DEF FateIInv

\* All steps together.
LEMMA FateStep ==
  ASSUME LockIInv, OrderIInv, FateIInv, [Next]_vars
  PROVE  FateIInv'
<1> DEFINE Busy == UnreservedPcs \cup WritingPcs \cup {"unlock_err"}
           Quiet == /\ UNCHANGED <<evt_q, next_ev, ev, fateVars>>
                    /\ pc'[WorkQ] \in {"unlock", "live"} =>
                         pc[WorkQ] \in {"unlock", "live"}
                    /\ pc'[WorkQ] \in Busy => pc[WorkQ] \in Busy
<1>0. /\ WorkQ \in Threads
      /\ pc \in [Threads -> {"idle", "submit", "drop", "clear_lock"}
                             \cup ClearPcs \cup WorkQPcs]
  BY DEF LockIInv, TypeOK
<1>1. UNCHANGED fcbVars => Recorded' = Recorded
  BY DEF fcbVars, Kept, Visible, Recorded
<1> USE DEF Goto, queueVars, UnreservedPcs, WritingPcs
<1>2. CASE UNCHANGED vars
  <2>1. Quiet
    BY <1>2 DEF vars
  <2> QED BY <1>1, <1>2, <2>1, FateQuiet DEF vars
<1>3. ASSUME NEW t \in Threads, Write(t), ~WritePut(t)
      PROVE  FateIInv'
  <2>1. Quiet /\ UNCHANGED fcbVars
    BY <1>0, <1>3 DEF Write, WriteNotReady, WriteSubmit, WriteFull,
       WriteFullLoad, WriteFullStore, vars
  <2> QED BY <1>1, <2>1, FateQuiet
<1>4. CASE FlushStart \/ FlushEmpty \/ AppendLock \/ FcbAppendNoSpace
           \/ AppendUnlock \/ Report \/ Reset
           \/ \E from \in {"append", "rotate", "retry", "write", "finish"} :
                AppendError(from)
  <2>1. Quiet /\ UNCHANGED fcbVars
    BY <1>0, <1>4 DEF FlushStart, FlushEmpty, AppendLock, FcbAppendNoSpace,
       AppendUnlock, Report, Reset, AppendError
  <2> QED BY <1>1, <2>1, FateQuiet
<1>5. CASE FlashWrite \/ \E from \in {"append", "retry"} : FcbAppend(from)
  <2>1. Quiet
    BY <1>0, <1>5 DEF FlashWrite, FcbAppend
  <2>2. Recorded' = Recorded
    BY <1>5, AppendKeeps DEF Recorded
  <2> QED BY <2>1, <2>2, FateQuiet
<1>6. CASE FcbRotate \/ \E t \in Clearers : ClearRotate(t)
  <2>1. Quiet /\ Rotate
    BY <1>0, <1>6 DEF FcbRotate, ClearRotate
  <2>2. Recorded' = Recorded
    BY <2>1, RotateForgets DEF Recorded, Abstract!Forget
  <2> QED BY <2>1, <2>2, FateQuiet
<1>7. ASSUME NEW t \in Clearers, Clear(t), ~ClearRotate(t)
      PROVE  FateIInv'
  <2>1. Quiet /\ UNCHANGED fcbVars
    BY <1>0, <1>7 DEF Clear, ClearStart, ClearLock, ClearError, ClearDone,
       ClearUnlock
  <2> QED BY <1>1, <2>1, FateQuiet
<1>8. CASE EventLogInit
  <2>1. Quiet /\ UNCHANGED fcbVars
    BY <1>8 DEF EventLogInit
  <2> QED BY <1>1, <2>1, FateQuiet
<1> QED
  BY <1>2, <1>3, <1>4, <1>5, <1>6, <1>7, <1>8, FatePut, FateGet, FateFinish,
     FateDone, FateCrash DEF Next, Idle, Flush, Write, Clear

\* At first no event has been accepted.
LEMMA FateInit == Init => FateIInv
<1> SUFFICES ASSUME Init PROVE FateIInv
  OBVIOUS
<1>1. /\ evt_q = <<>> /\ ev = 0 /\ next_ev = 1 /\ cutoff = 0 /\ erased = {}
      /\ live = {} /\ failed = {} /\ pc[WorkQ] = "idle"
  BY DEF Init
<1> QED
  BY <1>1 DEF FateIInv, ToldTruth, HandRecorded, DoneIsOld, Accounted,
     UnreservedPcs, WritingPcs

(***************************************************************************)
(* What the handler tells and where each event is: the inductive form of   *)
(* ToldTruth and OneFate.                                                  *)
(***************************************************************************)
THEOREM FateInvariant == Spec => []FateIInv
<1>1. LockIInv /\ OrderIInv /\ FateIInv /\ [Next]_vars => FateIInv'
  BY FateStep
<1> QED BY <1>1, FateInit, LockInvariant, OrderInvariant, PTL DEF Spec

(***************************************************************************)
(* What the live tail was told is on the flash or was erased in its turn,  *)
(* and what was logged as an error never appears there, whatever faults    *)
(* and power losses come in between (event_log.c, lines 168-199).          *)
(***************************************************************************)
THEOREM ToldTruthSafe == Spec => []ToldTruth
  BY FateInvariant, PTL DEF FateIInv

\* A record of places with a single TRUE, as OneFate writes it.
LEMMA OnlyPlace ==
  ASSUME NEW a \in BOOLEAN, NEW b \in BOOLEAN, NEW c \in BOOLEAN,
         NEW d \in BOOLEAN, NEW p \in {"queue", "hand", "live", "failed"},
         a = (p = "queue"), b = (p = "hand"), c = (p = "live"),
         d = (p = "failed"),
         NEW r, r = [queue |-> a, hand |-> b, live |-> c, failed |-> d]
  PROVE  r = [q \in {"queue", "hand", "live", "failed"} |-> q = p]
<1>1. DOMAIN r = {"queue", "hand", "live", "failed"}
  OBVIOUS
<1>2. r["queue"] = a /\ r["hand"] = b /\ r["live"] = c /\ r["failed"] = d
  OBVIOUS
<1>3. r = [q \in DOMAIN r |-> r[q]]
  OBVIOUS
<1>4. \A q \in {"queue", "hand", "live", "failed"} : r[q] = (q = p)
  BY <1>2, Zenon
<1> QED BY <1>1, <1>3, <1>4, Zenon

(***************************************************************************)
(* An accepted event is in exactly one place: the queue, the handler's     *)
(* hands, the live tail's past, or the log of errors.                      *)
(***************************************************************************)
THEOREM OneFateSafe == Spec => []OneFate
<1>1. LockIInv /\ OrderIInv /\ FateIInv => OneFate
  <2> SUFFICES ASSUME LockIInv, OrderIInv, FateIInv,
                      NEW n \in (cutoff + 1)..(next_ev - 1)
               PROVE  \E p \in {"queue", "hand", "live", "failed"} :
                        Places(n) =
                          [q \in {"queue", "hand", "live", "failed"} |-> q = p]
    BY DEF OneFate
  <2>1. /\ n \in Nat /\ n # 0 /\ ev \in Nat
        /\ live \subseteq Nat /\ failed \subseteq Nat
        /\ evt_q \in Seq(1..MaxEvents)
    BY DEF LockIInv, TypeOK
  <2> DEFINE inq == \E i \in 1..Len(evt_q) : evt_q[i] = n
  <2>2. inq \/ ev = n \/ n \in live \/ n \in failed
    BY DEF FateIInv, Accounted
  <2>3. inq => ev # n
    BY <2>1 DEF OrderIInv, FifoOrder, QueueInOrder
  <2>4. n \in live \cup failed => ~inq /\ ev # n
    BY <2>1 DEF FateIInv, DoneIsOld
  <2>5. ~(n \in live /\ n \in failed)
    BY DEF FateIInv, ToldTruth
  <2> DEFINE inh == ev = n
             inl == n \in live
             inf == n \in failed
  <2>6. Places(n) = [queue |-> inq, hand |-> inh, live |-> inl, failed |-> inf]
    BY DEF Places
  <2>7. /\ inq \in BOOLEAN /\ inh \in BOOLEAN /\ inl \in BOOLEAN
        /\ inf \in BOOLEAN
    OBVIOUS
  <2>8. PICK p \in {"queue", "hand", "live", "failed"} :
          /\ inq = (p = "queue") /\ inh = (p = "hand")
          /\ inl = (p = "live") /\ inf = (p = "failed")
    <3>1. inq \/ inh \/ inl \/ inf
      BY <2>2
    <3>2. /\ inq => ~inh /\ ~inl /\ ~inf
          /\ inh => ~inl /\ ~inf
          /\ inl => ~inf
      BY <2>3, <2>4, <2>5
    <3> HIDE DEF inq, inh, inl, inf
    <3> QED BY <2>7, <3>1, <3>2, Zenon
  <2> HIDE DEF inq, inh, inl, inf
  <2> QED BY <2>6, <2>7, <2>8, OnlyPlace
<1> QED BY <1>1, LockInvariant, OrderInvariant, FateInvariant, PTL

-----------------------------------------------------------------------------
(* Nothing is erased without need.                                         *)

\* The handler rotates a ring that is full, and nobody makes room meanwhile.
RotatesFull == pc[WorkQ] = "rotate" => ~RoomInSector /\ ~RoomInRing

\* Each step of the flush that erases finds the ring full.
LEMMA RotatesFullStep ==
  ASSUME LockIInv, RotatesFull, [Next]_vars
  PROVE  RotatesFull'
<1>0. /\ WorkQ \in Threads
      /\ pc \in [Threads -> {"idle", "submit", "drop", "clear_lock"}
                             \cup ClearPcs \cup WorkQPcs]
  BY DEF LockIInv, TypeOK
<1> SUFFICES ASSUME pc'[WorkQ] = "rotate"
             PROVE  (~RoomInSector /\ ~RoomInRing)'
  BY DEF RotatesFull
<1>1. CASE FcbAppendNoSpace
  BY <1>1 DEF FcbAppendNoSpace, RoomInSector, RoomInRing, fcbVars
<1>2. ASSUME ~FcbAppendNoSpace
      PROVE  pc[WorkQ] = "rotate" /\ UNCHANGED fcbVars
  <2> USE DEF Goto
  <2>1. CASE UNCHANGED vars
    BY <2>1 DEF vars
  <2>2. ASSUME NEW t \in Threads, Write(t)
        PROVE  pc[WorkQ] = "rotate" /\ UNCHANGED fcbVars
    BY <1>0, <2>2 DEF Write, WriteNotReady, WritePut, WriteSubmit, WriteFull,
       WriteFullLoad, WriteFullStore, vars
  <2>3. ~Flush
    BY <1>0, <1>2 DEF Flush, FlushStart, FlushGet, FlushEmpty, AppendLock,
       FcbAppend, FcbRotate, FlashWrite, FcbAppendFinish, AppendError,
       AppendUnlock, AppendUnlockError, LiveNotify, Report, Reset
  <2>4. ASSUME NEW t \in Clearers, Clear(t)
        PROVE  pc[WorkQ] = "rotate" /\ UNCHANGED fcbVars
    <3>1. pc[WorkQ] = "rotate"
      BY <1>0, <2>4 DEF Clear, ClearStart, ClearLock, ClearRotate, ClearError,
         ClearDone, ClearUnlock
    <3>2. pc[t] # "clear"
      BY <3>1 DEF LockIInv, LockInv, ClearPcs, LockedPcs
    <3> QED BY <2>4, <3>1, <3>2 DEF Clear, ClearStart, ClearLock, ClearRotate,
           ClearError, ClearDone, ClearUnlock
  <2>5. CASE Crash \/ EventLogInit
    BY <1>0, <2>5 DEF Crash, EventLogInit
  <2> QED BY <2>1, <2>2, <2>3, <2>4, <2>5 DEF Next, Idle
<1>3. CASE ~FcbAppendNoSpace
  BY <1>2, <1>3 DEF RotatesFull, RoomInSector, RoomInRing, fcbVars
<1> QED BY <1>1, <1>3

(***************************************************************************)
(* Old records are erased only by a clear that holds the lock or to make   *)
(* room in a full ring: no error of the flash costs one (event_log.c,      *)
(* lines 144-154).                                                         *)
(***************************************************************************)
THEOREM ErasesOnlyWhenFull == Spec => EraseOnlyWhenFull
<1> DEFINE Allowed == \/ \E t \in journal_lock : pc[t] = "clear"
                      \/ /\ active - oldest + 1 = NumSectors
                         /\ Len(flash[active]) = SlotsPerSector
<1>1. Init => RotatesFull
  BY DEF Init, RotatesFull
<1>2. LockIInv /\ RotatesFull /\ [Next]_vars => RotatesFull'
  BY RotatesFullStep
<1>3. LockIInv /\ RotatesFull /\ [Next]_vars => [erased' # erased => Allowed]_vars
  <2> SUFFICES ASSUME LockIInv, RotatesFull, [Next]_vars, erased' # erased
               PROVE  Allowed
    OBVIOUS
  <2>1. CASE FcbRotate
    <3>1. ~RoomInSector /\ ~RoomInRing /\ FcbTypeOK
      BY <2>1 DEF FcbRotate, Goto, RotatesFull, LockIInv, TypeOK
    <3> QED BY <3>1 DEF RoomInSector, RoomInRing, FcbTypeOK
  <2>2. ASSUME NEW t \in Clearers, ClearRotate(t)
        PROVE  Allowed
    BY <2>2 DEF ClearRotate, LockIInv, LockInv, ClearPcs
  <2>3. FcbRotate \/ \E t \in Clearers : ClearRotate(t)
    BY DEF Next, Idle, vars, fcbVars, Write, WriteNotReady, WritePut,
       WriteSubmit, WriteFull, WriteFullLoad, WriteFullStore, Flush,
       FlushStart, FlushGet, FlushEmpty, AppendLock, FcbAppend, Reserve,
       FcbAppendNoSpace, FlashWrite, SetLast, FcbAppendFinish, AppendError,
       AppendUnlock, AppendUnlockError, LiveNotify, Report, Reset, Clear,
       ClearStart, ClearLock, ClearError, ClearDone, ClearUnlock, Crash,
       EventLogInit
  <2> QED BY <2>1, <2>2, <2>3
<1> QED BY <1>1, <1>2, <1>3, LockInvariant, PTL DEF Spec, EraseOnlyWhenFull
=============================================================================

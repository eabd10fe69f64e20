--------------------------- MODULE JournalShellProofs ---------------------------
(***************************************************************************)
(* What "journal dump [N]" prints, for every ring, set of threads, N and   *)
(* number of dumps: in the order of recording without a repetition,        *)
(* whatever runs beside it, and the newest N when nothing does.            *)
(***************************************************************************)
EXTENDS JournalShell, EventLogProofs, FiniteSetTheorems, TLAPS

USE EventLogAssumption, JournalShellAssumption
    DEF EventLogAssumption, JournalShellAssumption

-----------------------------------------------------------------------------
(* Sectors and their places in the ring.                                   *)

\* A number is a multiple of c and its remainder.
LEMMA Remainder ==
  ASSUME NEW c \in Nat \ {0}, NEW x \in Int
  PROVE  /\ x % c \in 0..(c - 1)
         /\ \E q \in Int : x = c * q + (x % c)
<1>1. x % c \in 0..(c - 1)
  OBVIOUS
<1>2. x = c * (x \div c) + (x % c) /\ x \div c \in Int
  OBVIOUS
<1> QED BY <1>1, <1>2

\* There is one such remainder.
LEMMA RemainderUnique ==
  ASSUME NEW c \in Nat \ {0}, NEW q \in Int, NEW p \in Int,
         NEW r \in 0..(c - 1), NEW s \in 0..(c - 1),
         c * q + r = c * p + s
  PROVE  r = s
<1>1. c * q \in Int /\ c * p \in Int
  OBVIOUS
<1>2. CASE q < p
  <2>1. c * (q + 1) <= c * p /\ c * (q + 1) = c * q + c
    BY <1>2
  <2> QED BY <1>1, <2>1
<1>3. CASE p < q
  <2>1. c * (p + 1) <= c * q /\ c * (p + 1) = c * p + c
    BY <1>3
  <2> QED BY <1>1, <2>1
<1>4. CASE q = p
  BY <1>1, <1>4
<1> QED BY <1>2, <1>3, <1>4

\* Adding a multiple leaves the remainder.
LEMMA SameRemainder ==
  ASSUME NEW c \in Nat \ {0}, NEW q \in Int, NEW r \in 0..(c - 1)
  PROVE  (c * q + r) % c = r
<1>1. c * q \in Int
  OBVIOUS
<1>2. PICK x \in Int : x = c * q + r
  BY <1>1
<1>3. PICK p \in Int : x = c * p + (x % c)
  BY Remainder
<1>4. x % c \in 0..(c - 1)
  BY Remainder
<1>5. c * q + r = c * p + (x % c)
  BY <1>2, <1>3
<1> QED BY <1>2, <1>4, <1>5, RemainderUnique

\* The sector number up to a that a physical sector has: the last one.
LogicalOf(a, p, c) == a - ((a - p) % c)

\* It is that of the last c numbers up to a with this remainder.
LEMMA LogicalIs ==
  ASSUME NEW c \in Nat \ {0}, NEW a \in Int, NEW p \in 0..(c - 1)
  PROVE  /\ LogicalOf(a, p, c) \in Int
         /\ a - c < LogicalOf(a, p, c) /\ LogicalOf(a, p, c) <= a
         /\ LogicalOf(a, p, c) % c = p
         /\ \A v \in Int : a - c < v /\ v <= a /\ v % c = p
                             => v = LogicalOf(a, p, c)
<1>1. PICK r \in 0..(c - 1) :
        r = (a - p) % c /\ \E q \in Int : a - p = c * q + r
  <2>1. PICK x \in Int : x = a - p
    OBVIOUS
  <2>2. x % c \in 0..(c - 1) /\ \E q \in Int : x = c * q + (x % c)
    BY Remainder
  <2>3. (a - p) % c = x % c /\ \A q \in Int : x = c * q + (x % c) => a - p = c * q + (x % c)
    BY <2>1
  <2> QED BY <2>2, <2>3, Zenon
<1>2. PICK q \in Int : a - p = c * q + r
  BY <1>1
<1>3. c * q \in Int
  OBVIOUS
<1>4. LogicalOf(a, p, c) = a - r /\ a - r = c * q + p
  BY <1>1, <1>2, <1>3 DEF LogicalOf
<1>5. (a - r) % c = p
  BY <1>4, SameRemainder
<1>6. ASSUME NEW v \in Int, a - c < v, v <= a, v % c = p
      PROVE  v = a - r
  <2>1. PICK t \in Int : v = c * t + p
    BY <1>6, Remainder
  <2>2. c * t \in Int /\ a - v \in 0..(c - 1)
    BY <1>6
  <2>3. a - p = c * t + (a - v)
    BY <2>1, <2>2
  <2>4. r = a - v
    BY <1>2, <2>2, <2>3, RemainderUnique
  <2> QED BY <2>4
<1> QED BY <1>4, <1>5, <1>6

\* d sectors further in the ring is d sector numbers further.
LEMMA LogicalFurther ==
  ASSUME NEW c \in Nat \ {0}, NEW a \in Int, NEW p \in 0..(c - 1),
         NEW d \in Nat, LogicalOf(a, p, c) + d <= a
  PROVE  /\ (p + d) % c \in 0..(c - 1)
         /\ LogicalOf(a, (p + d) % c, c) = LogicalOf(a, p, c) + d
<1>1. PICK w \in Int : w = LogicalOf(a, p, c)
  BY LogicalIs
<1>2. a - c < w /\ w + d <= a /\ w % c = p
  BY <1>1, LogicalIs
<1>3. PICK q \in Int : w = c * q + p
  BY <1>2, Remainder
<1>4. PICK x \in Int : x = p + d
  OBVIOUS
<1>5. PICK r \in 0..(c - 1) : r = x % c
  BY Remainder
<1>6. PICK t \in Int : x = c * t + r
  BY <1>5, Remainder
<1>7. PICK v \in Int : v = w + d
  OBVIOUS
<1>8. v % c = r
  <2>1. PICK y \in Int : y = q + t
    OBVIOUS
  <2>2. c * y = c * q + c * t /\ c * q \in Int /\ c * t \in Int
    BY <2>1
  <2>3. v = c * y + r
    BY <1>3, <1>4, <1>6, <1>7, <2>2
  <2> QED BY <2>3, SameRemainder
<1>9. a - c < v /\ v <= a
  BY <1>2, <1>7
<1>10. v = LogicalOf(a, r, c)
  BY <1>8, <1>9, LogicalIs
<1> QED BY <1>1, <1>4, <1>5, <1>7, <1>10

\* When the active sector moves on, a physical sector keeps its number, or
\* is the new active one.
LEMMA LogicalMoves ==
  ASSUME NEW c \in Nat \ {0}, NEW a \in Int, NEW p \in 0..(c - 1)
  PROVE  \/ LogicalOf(a + 1, p, c) = LogicalOf(a, p, c)
         \/ LogicalOf(a + 1, p, c) = a + 1 /\ LogicalOf(a, p, c) = a + 1 - c
<1>1. PICK w \in Int : w = LogicalOf(a, p, c)
  BY LogicalIs
<1>2. PICK b \in Int : b = a + 1
  OBVIOUS
<1>3. PICK v \in Int : v = LogicalOf(b, p, c)
  BY LogicalIs
<1>4. /\ a - c < w /\ w <= a /\ w % c = p
      /\ b - c < v /\ v <= b /\ v % c = p
  BY <1>1, <1>3, LogicalIs
<1>5. a - c < v /\ v <= a => v = w
  BY <1>1, <1>4, LogicalIs
<1>6. b - c < w /\ w <= b => w = v
  BY <1>3, <1>4, LogicalIs
<1>7. v = w \/ (v = b /\ w = b - c)
  BY <1>2, <1>4, <1>5, <1>6
<1> QED BY <1>1, <1>2, <1>3, <1>7

-----------------------------------------------------------------------------
(* The journal beneath the walk.                                           *)

\* The part of Next that the walk runs beside, and what a failed read does.
LEMMA Beneath ==
  ASSUME LockIInv, OrderIInv, [DumpNext]_allVars
  PROVE  LockIInv' /\ OrderIInv'
<1>1. CASE [Next]_vars
  BY <1>1, LockStep, OrderStep
<1>2. CASE DumpReadError
  <2>1. /\ UNCHANGED <<journal_ready, queueVars, dropVars, pc, journal_lock,
                       ev, fcbVars, fateVars, crashes>>
        /\ faults' = faults + 1
    BY <1>2 DEF DumpReadError, Fault
  <2>2. LockIInv'
    BY <2>1 DEF queueVars, dropVars, fcbVars, fateVars, LockIInv, TypeOK,
       FcbTypeOK, LockInv, HandInv, OpenSlotIntact, LastSlot
  <2>3. OrderIInv'
    BY <2>1, OrderQuiet DEF queueVars
  <2> QED BY <2>2, <2>3
<1>3. [Next]_vars \/ DumpReadError
  BY DEF DumpNext, JournalStep, DumpStart, DumpWalk, WalkNext, DumpRecord,
     DumpCorrupt, DumpEmpty, SecondPass, DumpDone, DumpReturn, allVars
<1> QED BY <1>1, <1>2, <1>3

(***************************************************************************)
(* Beside dumps the journal keeps its types, its lock and its order.       *)
(***************************************************************************)
THEOREM DumpJournal == DumpSpec => [](LockIInv /\ OrderIInv)
<1>1. DumpInit => LockIInv /\ OrderIInv
  BY LockInit, OrderInit DEF DumpInit
<1>2. LockIInv /\ OrderIInv /\ [DumpNext]_allVars => LockIInv' /\ OrderIInv'
  BY Beneath
<1> QED BY <1>1, <1>2, PTL DEF DumpSpec

\* Where the walk is, in the numbers of the sectors.
At == LogicalOf(active, From, NumSectors)

\* The walk is past an entry, and has read it.
Behind(s, j) == s < At \/ (s = At /\ (j < loc.slot \/ (j = loc.slot /\ ~loc.unread)))

\* A walk is in the last NumSectors sectors, and begins in the oldest.
LEMMA FromIs ==
  ASSUME FcbTypeOK, loc.sector \in {Null} \cup 0..(NumSectors - 1)
  PROVE  /\ From \in 0..(NumSectors - 1)
         /\ At \in Int /\ active - NumSectors < At /\ At <= active
         /\ At % NumSectors = From
         /\ loc.sector = Null => At = oldest
<1>1. active \in Int /\ oldest \in Int /\ active - NumSectors < oldest
      /\ oldest <= active
  BY DEF FcbTypeOK
<1>2. oldest % NumSectors \in 0..(NumSectors - 1)
  BY <1>1, Remainder
<1>3. From \in 0..(NumSectors - 1)
  BY <1>2 DEF From, Physical, Null
<1>4. loc.sector = Null => oldest % NumSectors = From
  BY DEF From, Physical
<1>5. PICK p \in 0..(NumSectors - 1) : p = From
  BY <1>3
<1>6. PICK a \in Int : a = active
  BY <1>1
<1>7. PICK o \in Int : o = oldest
  BY <1>1
<1>8. /\ LogicalOf(a, p, NumSectors) \in Int
      /\ a - NumSectors < LogicalOf(a, p, NumSectors)
      /\ LogicalOf(a, p, NumSectors) <= a
      /\ LogicalOf(a, p, NumSectors) % NumSectors = p
      /\ a - NumSectors < o /\ o <= a /\ o % NumSectors = p
           => o = LogicalOf(a, p, NumSectors)
  BY LogicalIs
<1> QED BY <1>1, <1>3, <1>4, <1>5, <1>6, <1>7, <1>8 DEF At

\* What a physical sector holds is what its last number does, if that is in
\* the ring still.
LEMMA SlotsAre ==
  ASSUME FcbTypeOK, NEW p \in 0..(NumSectors - 1)
  PROVE  Slots(p) = IF LogicalOf(active, p, NumSectors) >= oldest
                    THEN flash[LogicalOf(active, p, NumSectors)] ELSE <<>>
<1>1. active \in Int /\ oldest \in Int /\ active - NumSectors < oldest
      /\ oldest <= active
  BY DEF FcbTypeOK
<1>2. PICK a \in Int : a = active
  BY <1>1
<1>3. PICK w \in Int : w = LogicalOf(a, p, NumSectors)
  BY LogicalIs
<1>4. w <= a /\ w % NumSectors = p
      /\ \A v \in Int : a - NumSectors < v /\ v <= a /\ v % NumSectors = p
            => v = w
  BY <1>3, LogicalIs
<1>5. \A s \in oldest..active : Physical(s) = p => s = w
  <2>1. ASSUME NEW s \in oldest..active, s % NumSectors = p
        PROVE  s = w
    <3>1. s \in Int /\ a - NumSectors < s /\ s <= a
      BY <1>1, <1>2
    <3> QED BY <1>4, <2>1, <3>1
  <2> QED BY <2>1 DEF Physical
<1>6. CASE w >= oldest
  <2>1. w \in oldest..active /\ Physical(w) = p
    BY <1>1, <1>2, <1>4, <1>6 DEF Physical
  <2>2. (CHOOSE s \in oldest..active : Physical(s) = p) = w
    BY <1>5, <2>1
  <2> QED BY <1>2, <1>3, <1>6, <2>1, <2>2 DEF Slots
<1>7. CASE ~(w >= oldest)
  <2>1. ~\E s \in oldest..active : Physical(s) = p
    BY <1>1, <1>5, <1>7
  <2> QED BY <1>2, <1>3, <1>7, <2>1 DEF Slots
<1> QED BY <1>6, <1>7

\* The event n is older than all that will be put on the flash from now on.
Older(n_) ==
  /\ n_ < next_ev
  /\ \A i \in 1..Len(evt_q) : n_ < evt_q[i]
  /\ pc[WorkQ] \in UnreservedPcs => n_ < ev

\* What comes to the queue, to the handler or to the flash is newer.
LEMMA OlderStays ==
  ASSUME LockIInv, Next, crashes' = crashes, NEW k \in Nat, Older(k)
  PROVE  Older(k)'
<1> USE DEF Goto
<1>0. /\ ev \in 0..MaxEvents /\ WorkQ \in Threads
      /\ evt_q \in Seq(1..MaxEvents) /\ next_ev \in Nat /\ crashes \in Nat
      /\ pc \in [Threads -> {"idle", "submit", "drop", "clear_lock"}
                             \cup ClearPcs \cup WorkQPcs]
  BY DEF LockIInv, TypeOK
<1>1. CASE /\ UNCHANGED <<evt_q, next_ev>>
           /\ pc'[WorkQ] \in UnreservedPcs =>
                pc[WorkQ] \in UnreservedPcs /\ ev' = ev
  BY <1>1 DEF Older
<1>2. ASSUME NEW t \in Threads, WritePut(t) PROVE Older(k)'
  <2>1. /\ evt_q' = Append(evt_q, next_ev) /\ next_ev' = next_ev + 1
        /\ ev' = ev
        /\ pc'[WorkQ] \in UnreservedPcs => pc'[WorkQ] = pc[WorkQ]
    BY <1>0, <1>2 DEF WritePut, UnreservedPcs
  <2>2. \A i \in 1..Len(evt_q') : \/ evt_q'[i] = next_ev
          \/ (i \in 1..Len(evt_q) /\ evt_q'[i] = evt_q[i])
    BY <1>0, <2>1
  <2> QED BY <1>0, <2>1, <2>2 DEF Older
<1>3. CASE FlushGet
  <2>1. /\ evt_q' = Tail(evt_q) /\ ev' = Head(evt_q) /\ evt_q # <<>>
        /\ next_ev' = next_ev
    BY <1>3 DEF FlushGet
  <2>2. /\ ev' = evt_q[1] /\ 1 \in 1..Len(evt_q)
        /\ \A i \in 1..Len(evt_q') : i + 1 \in 1..Len(evt_q)
                                     /\ evt_q'[i] = evt_q[i + 1]
    BY <1>0, <2>1
  <2> QED BY <2>1, <2>2 DEF Older
<1>4. ASSUME NEW t \in Threads, Write(t), ~WritePut(t)
      PROVE  Older(k)'
  <2>1. /\ UNCHANGED <<evt_q, next_ev, ev>>
        /\ pc'[WorkQ] \in UnreservedPcs => pc'[WorkQ] = pc[WorkQ]
    BY <1>0, <1>4 DEF Write, WriteNotReady, WriteSubmit, WriteFull,
       WriteFullLoad, WriteFullStore, vars, queueVars, UnreservedPcs
  <2> QED BY <1>1, <2>1
<1>5. ASSUME NEW t \in Clearers, Clear(t)
      PROVE  Older(k)'
  <2>1. /\ UNCHANGED <<evt_q, next_ev, ev>>
        /\ pc'[WorkQ] \in UnreservedPcs => pc'[WorkQ] = pc[WorkQ]
    BY <1>0, <1>5 DEF Clear, ClearStart, ClearLock, ClearRotate, ClearError,
       ClearDone, ClearUnlock, queueVars, UnreservedPcs
  <2> QED BY <1>1, <2>1
<1>6. CASE Flush /\ ~FlushGet
  <2>1. /\ UNCHANGED <<evt_q, next_ev>>
        /\ pc'[WorkQ] \in UnreservedPcs =>
             pc[WorkQ] \in UnreservedPcs /\ ev' = ev
    BY <1>0, <1>6 DEF Flush, FlushStart, FlushEmpty, AppendLock, FcbAppend,
       FcbAppendNoSpace, FcbRotate, FlashWrite, FcbAppendFinish, AppendError,
       AppendUnlock, AppendUnlockError, LiveNotify, Report, Reset, queueVars,
       UnreservedPcs
  <2> QED BY <1>1, <2>1
<1>7. CASE EventLogInit \/ Idle
  BY <1>1, <1>7 DEF EventLogInit, Idle, vars, queueVars
<1>8. ~Crash
  BY <1>0 DEF Crash
<1> QED BY <1>2, <1>3, <1>4, <1>5, <1>6, <1>7, <1>8 DEF Next

\* What a step of the journal does to the flash: a new slot at the end, or
\* nothing but the end of the last one, or the oldest sector is gone.
NewSlot(s, j) ==
  /\ pc[WorkQ] \in UnreservedPcs
  /\ s = active' /\ j = Len(flash'[s])
  /\ flash'[s][j].n = ev /\ ~flash'[s][j].fin

OldSlot(s, j) ==
  /\ s \in oldest..active /\ j \in 1..Len(flash[s])
  /\ flash'[s][j].n = flash[s][j].n
  /\ flash[s][j].fin => flash'[s][j] = flash[s][j]
  /\ flash'[s][j].fin /\ ~flash[s][j].fin =>
       pc[WorkQ] \in WritingPcs /\ flash[s][j].n = ev

FlashMoves ==
  /\ active' \in {active, active + 1}
  /\ oldest' \in {oldest, oldest + 1}
  /\ \A s \in oldest'..active' : \A j \in 1..Len(flash'[s]) :
       NewSlot(s, j) \/ OldSlot(s, j)
  /\ \A s \in oldest..active : s >= oldest' =>
       /\ s \in oldest'..active'
       /\ \A j \in 1..Len(flash[s]) : j \in 1..Len(flash'[s]) /\ OldSlot(s, j)

\* Writing the data or the end of the last slot.
LEMMA SetLastMoves ==
  ASSUME LockIInv, FlashWrite \/ FcbAppendFinish
  PROVE  FlashMoves
<1>1. /\ pc[WorkQ] \in WritingPcs
      /\ FcbTypeOK /\ flash[active] # <<>> /\ LastSlot \in Entry
      /\ LastSlot.n = ev /\ ~LastSlot.fin
  <2>1. pc[WorkQ] \in WritingPcs
    BY DEF FlashWrite, FcbAppendFinish, Goto, WritingPcs
  <2> QED BY <2>1, OpenSlot
<1>2. PICK e \in Entry : SetLast(e) /\ e.n = ev
  <2>1. ASSUME NEW d \in {"good", "bad"}
        PROVE  /\ [LastSlot EXCEPT !.data = d] \in Entry
               /\ [LastSlot EXCEPT !.data = d].n = ev
    BY <1>1 DEF Entry
  <2>2. /\ [LastSlot EXCEPT !.fin = TRUE] \in Entry
        /\ [LastSlot EXCEPT !.fin = TRUE].n = ev
    BY <1>1 DEF Entry
  <2>3. \/ SetLast([LastSlot EXCEPT !.data = "good"])
        \/ SetLast([LastSlot EXCEPT !.data = "bad"])
        \/ SetLast([LastSlot EXCEPT !.fin = TRUE])
    BY DEF FlashWrite, FcbAppendFinish
  <2> QED BY <2>1, <2>2, <2>3
<1>3. /\ oldest' = oldest /\ active' = active
      /\ LastSlot' = e
      /\ \A s \in oldest..active :
           /\ Len(flash'[s]) = Len(flash[s])
           /\ \A j \in 1..Len(flash[s]) :
                ~(s = active /\ j = Len(flash[s])) => flash'[s][j] = flash[s][j]
  BY <1>1, <1>2, SetLastEffect
<1>4. ASSUME NEW s \in oldest..active, NEW j \in 1..Len(flash[s])
      PROVE  OldSlot(s, j)
  <2>1. CASE s = active /\ j = Len(flash[s])
    <3>1. flash[s][j] = LastSlot /\ flash'[s][j] = e
      BY <1>3, <2>1 DEF LastSlot
    <3> QED BY <1>1, <1>2, <3>1 DEF OldSlot
  <2>2. CASE ~(s = active /\ j = Len(flash[s]))
    BY <1>3, <2>2 DEF OldSlot
  <2> QED BY <2>1, <2>2
<1> QED BY <1>3, <1>4 DEF FlashMoves

\* Erasing the oldest sector.
LEMMA RotateMoves ==
  ASSUME LockIInv, Rotate
  PROVE  FlashMoves
<1>1. FcbTypeOK
  BY DEF LockIInv, TypeOK
<1>2. active' \in {active, active + 1} /\ oldest' = oldest + 1
  BY DEF Rotate
<1>3. \A s \in oldest'..active' : \A j \in 1..Len(flash'[s]) : OldSlot(s, j)
  BY <1>1, RotateEffect DEF OldSlot
<1>4. \A s \in oldest..active : s >= oldest' =>
        s \in oldest'..active' /\ flash'[s] = flash[s]
  <2>1. oldest \in Int
    BY <1>1 DEF FcbTypeOK
  <2> QED BY <1>1, <1>2, <2>1, RotateEffect
<1>5. \A s \in oldest..active : s >= oldest' =>
        \A j \in 1..Len(flash[s]) : j \in 1..Len(flash'[s]) /\ OldSlot(s, j)
  BY <1>4 DEF OldSlot
<1> QED BY <1>2, <1>3, <1>4, <1>5 DEF FlashMoves

\* Reserving a slot.
LEMMA ReserveMoves ==
  ASSUME LockIInv, NEW from \in {"append", "retry"}, FcbAppend(from)
  PROVE  FlashMoves
<1>1. /\ FcbTypeOK /\ Reserve(ev) /\ (RoomInSector \/ RoomInRing)
      /\ pc[WorkQ] \in UnreservedPcs /\ ev \in 1..MaxEvents
  BY DEF FcbAppend, Goto, LockIInv, TypeOK, HandInv, EventPcs, LockedPcs,
     UnreservedPcs
<1>2. /\ oldest' = oldest /\ active' \in {active, active + 1}
      /\ LastSlot' = [n |-> ev, data |-> "blank", fin |-> FALSE]
      /\ \A s \in oldest'..active' : \A j \in 1..Len(flash'[s]) :
           \/ s = active' /\ j = Len(flash'[s])
           \/ /\ s \in oldest..active
              /\ j \in 1..Len(flash[s])
              /\ flash'[s][j] = flash[s][j]
      /\ \A s \in oldest..active : \A j \in 1..Len(flash[s]) :
           /\ s \in oldest'..active'
           /\ j \in 1..Len(flash'[s])
           /\ flash'[s][j] = flash[s][j]
  BY <1>1, ReserveEffect
<1>3. ASSUME NEW s \in oldest'..active', NEW j \in 1..Len(flash'[s])
      PROVE  NewSlot(s, j) \/ OldSlot(s, j)
  <2>1. CASE s = active' /\ j = Len(flash'[s])
    <3>1. flash'[s][j] = [n |-> ev, data |-> "blank", fin |-> FALSE]
      BY <1>2, <2>1 DEF LastSlot
    <3> QED BY <1>1, <2>1, <3>1 DEF NewSlot
  <2>2. CASE ~(s = active' /\ j = Len(flash'[s]))
    BY <1>2, <2>2 DEF OldSlot
  <2> QED BY <2>1, <2>2
<1>4. \A s \in oldest..active : s \in oldest'..active'
  <2>1. oldest \in Int /\ active \in Int
    BY <1>1 DEF FcbTypeOK
  <2> QED BY <1>2, <2>1
<1>5. \A s \in oldest..active : \A j \in 1..Len(flash[s]) :
        j \in 1..Len(flash'[s]) /\ OldSlot(s, j)
  BY <1>2 DEF OldSlot
<1> QED BY <1>2, <1>3, <1>4, <1>5 DEF FlashMoves

\* Any step.
LEMMA FlashStep ==
  ASSUME LockIInv, Next
  PROVE  FlashMoves
<1>1. CASE UNCHANGED <<flash, oldest, active>>
  BY <1>1 DEF FlashMoves, OldSlot
<1>2. CASE FcbRotate \/ \E t \in Clearers : ClearRotate(t)
  BY <1>2, RotateMoves DEF FcbRotate, ClearRotate
<1>3. \/ UNCHANGED <<flash, oldest, active>>
      \/ FcbRotate \/ \E t \in Clearers : ClearRotate(t)
      \/ FlashWrite \/ FcbAppendFinish
      \/ \E from \in {"append", "retry"} : FcbAppend(from)
  BY DEF Next, Write, WriteNotReady, WritePut, WriteSubmit, WriteFull,
     WriteFullLoad, WriteFullStore, Flush, FlushStart, FlushGet, FlushEmpty,
     AppendLock, FcbAppendNoSpace, AppendError, AppendUnlock,
     AppendUnlockError, LiveNotify, Report, Reset, Clear, ClearStart,
     ClearLock, ClearError, ClearDone, ClearUnlock, Crash, EventLogInit, Idle,
     vars, fcbVars
<1> QED BY <1>1, <1>2, <1>3, SetLastMoves, RotateMoves, ReserveMoves

-----------------------------------------------------------------------------
(* Types.                                                                  *)

Line == [idx : Nat, ev : 1..MaxEvents]

WalkTypeOK ==
  /\ DumpTypeOK
  /\ loc \in [sector : {Null} \cup 0..(NumSectors - 1),
              slot : 0..SlotsPerSector, unread : BOOLEAN]
  /\ ctx \in [total : Nat, idx : Nat, skip : Nat, corrupt : Nat]
  /\ printed \in Seq(Line)
  /\ n \in Nat
  /\ pass \in {"none", "count"} => printed = <<>>
  /\ loc.sector = Null => printed = <<>> /\ loc.slot = 0 /\ ~loc.unread
  /\ loc.unread => loc.slot >= 1

\* No dump is running.
LEMMA NoDumpTyped ==
  ASSUME NoDump
  PROVE  WalkTypeOK'
<1>1. /\ loc' = NoLoc /\ ctx' = NoCtx /\ pass' = "none" /\ printed' = <<>>
      /\ n' = 0
  BY DEF NoDump
<1>2. NoLoc.sector = Null /\ NoLoc.slot = 0 /\ NoLoc.unread = FALSE
  BY DEF NoLoc
<1>3. NoLoc \in [sector : {Null} \cup 0..(NumSectors - 1),
                 slot : 0..SlotsPerSector, unread : BOOLEAN]
  BY DEF NoLoc
<1>4. /\ NoCtx \in [total : Nat, idx : Nat, skip : Nat, corrupt : Nat]
      /\ NoCtx.idx = NoCtx.total + NoCtx.corrupt
  BY DEF NoCtx
<1> QED BY <1>1, <1>2, <1>3, <1>4 DEF WalkTypeOK, DumpTypeOK

\* The walk goes on to the next entry.
LEMMA WalkStepTyped ==
  ASSUME LockIInv, WalkTypeOK, WalkNext
  PROVE  WalkTypeOK'
<1>1. PICK e \in Ahead :
        loc' = [sector |-> (From + e[1]) % NumSectors, slot |-> e[2],
                unread |-> TRUE]
  BY DEF WalkNext
<1>2. FcbTypeOK /\ From \in 0..(NumSectors - 1)
  BY FromIs DEF LockIInv, TypeOK, WalkTypeOK
<1>3. e[1] \in Nat /\ e[2] \in 1..SlotsPerSector
  <2>1. e \in (0..((active - From) % NumSectors)) \X (1..SlotsPerSector)
    BY DEF Ahead
  <2> QED BY <2>1
<1>4. PICK r \in 0..(NumSectors - 1) : r = (From + e[1]) % NumSectors
  <2>1. PICK x \in Int : x = From + e[1]
    BY <1>2, <1>3
  <2> QED BY <2>1, Remainder
<1>5. loc' = [sector |-> r, slot |-> e[2], unread |-> TRUE]
  BY <1>1, <1>4
<1>6. /\ loc' \in [sector : {Null} \cup 0..(NumSectors - 1),
                   slot : 0..SlotsPerSector, unread : BOOLEAN]
      /\ loc'.sector = r /\ loc'.slot = e[2] /\ r # Null
  BY <1>3, <1>5 DEF Null
<1>7. /\ pass \in {"count", "print"}
      /\ UNCHANGED <<pc, pass, ctx, n, printed>>
  BY DEF WalkNext, vars
<1> QED BY <1>3, <1>6, <1>7 DEF WalkTypeOK, DumpTypeOK

\* What a walk reads well is a slot of the sector it is at.
LEMMA ReadableAt ==
  ASSUME LockIInv, WalkTypeOK, loc.unread, Readable
  PROVE  /\ At \in oldest..active
         /\ Slots(loc.sector) = flash[At]
         /\ loc.slot \in 1..Len(flash[At])
         /\ flash[At][loc.slot] \in Entry /\ flash[At][loc.slot].n \in 1..MaxEvents
<1>1. /\ FcbTypeOK /\ active \in Int /\ oldest \in Int
      /\ loc.sector \in 0..(NumSectors - 1) /\ loc.slot \in Nat /\ loc.slot >= 1
      /\ From = loc.sector
  BY DEF LockIInv, TypeOK, FcbTypeOK, WalkTypeOK, From
<1>2. At \in Int /\ At <= active
  BY <1>1, FromIs DEF WalkTypeOK
<1>3. At = LogicalOf(active, loc.sector, NumSectors)
  BY <1>1 DEF At
<1>4. Slots(loc.sector) = IF At >= oldest THEN flash[At] ELSE <<>>
  BY <1>1, <1>3, SlotsAre
<1>5. loc.slot <= Len(Slots(loc.sector))
  BY DEF Readable
<1>6. At >= oldest
  <2>1. Len(<<>>) = 0
    OBVIOUS
  <2> QED BY <1>1, <1>4, <1>5, <2>1
<1>7. At \in oldest..active
  BY <1>1, <1>2, <1>6
<1>8. loc.slot \in 1..Len(flash[At])
  <2>1. Len(flash[At]) \in Nat
    BY <1>1, <1>7 DEF FcbTypeOK
  <2> QED BY <1>1, <1>4, <1>5, <1>6, <2>1
<1> QED BY <1>1, <1>4, <1>6, <1>7, <1>8, EntryAt

\* The record is counted, and printed in the second pass.
LEMMA DumpRecordTyped ==
  ASSUME LockIInv, WalkTypeOK, DumpRecord
  PROVE  WalkTypeOK'
<1>1. /\ loc' = [loc EXCEPT !.unread = FALSE] /\ loc.unread /\ Readable
      /\ ctx' = [ctx EXCEPT !.total = ctx.total + 1, !.idx = ctx.idx + 1]
      /\ UNCHANGED <<pc, pass, n>>
  BY DEF DumpRecord, Read, vars
<1>2. /\ loc' \in [sector : {Null} \cup 0..(NumSectors - 1),
                   slot : 0..SlotsPerSector, unread : BOOLEAN]
      /\ loc'.sector = loc.sector /\ loc'.slot = loc.slot /\ ~loc'.unread
      /\ loc.sector # Null
  BY <1>1 DEF WalkTypeOK
<1>3. /\ ctx' \in [total : Nat, idx : Nat, skip : Nat, corrupt : Nat]
      /\ ctx'.idx = ctx'.total + ctx'.corrupt
  <2>1. /\ ctx \in [total : Nat, idx : Nat, skip : Nat, corrupt : Nat]
        /\ ctx.idx = ctx.total + ctx.corrupt
    BY DEF WalkTypeOK, DumpTypeOK
  <2>2. /\ ctx.total \in Nat /\ ctx.idx \in Nat /\ ctx.corrupt \in Nat
        /\ ctx.total + 1 \in Nat /\ ctx.idx + 1 \in Nat
        /\ ctx.corrupt + 1 \in Nat
    BY <2>1
  <2>3. ctx' \in [total : Nat, idx : Nat, skip : Nat, corrupt : Nat]
    BY <1>1, <2>1, <2>2
  <2>4. ctx'.total = ctx.total + 1 /\ ctx'.idx = ctx.idx + 1 /\ ctx'.corrupt = ctx.corrupt
    BY <1>1, <2>1
  <2> QED BY <2>1, <2>2, <2>3, <2>4
<1>4. printed' \in Seq(Line) /\ (pass # "print" => printed' = printed)
  <2>1. /\ flash[At][loc.slot].n \in 1..MaxEvents
        /\ Slots(loc.sector) = flash[At]
    BY <1>1, ReadableAt
  <2>2. [idx |-> ctx.idx, ev |-> Slots(loc.sector)[loc.slot].n] \in Line
    BY <2>1 DEF Line, WalkTypeOK
  <2>3. printed \in Seq(Line)
    BY DEF WalkTypeOK
  <2>4. \/ printed' = printed
        \/ pass = "print" /\ printed' = Append(printed,
              [idx |-> ctx.idx, ev |-> Slots(loc.sector)[loc.slot].n])
    BY DEF DumpRecord, Prints
  <2> HIDE DEF Line
  <2> QED BY <2>2, <2>3, <2>4
<1>5. DumpTypeOK'
  BY <1>1, <1>2, <1>3 DEF WalkTypeOK, DumpTypeOK
<1>6. loc.unread => pass \in {"count", "print"}
  BY DEF WalkTypeOK, DumpTypeOK
<1> QED BY <1>1, <1>2, <1>3, <1>4, <1>5, <1>6 DEF WalkTypeOK

\* A record that is not read well is counted as corrupt.
LEMMA DumpCorruptTyped ==
  ASSUME WalkTypeOK, DumpCorrupt \/ DumpReadError
  PROVE  WalkTypeOK'
<1>1. /\ loc' = [loc EXCEPT !.unread = FALSE] /\ loc.unread
      /\ ctx' = [ctx EXCEPT !.corrupt = ctx.corrupt + 1, !.idx = ctx.idx + 1]
      /\ UNCHANGED <<pc, pass, n, printed>>
  BY DEF DumpCorrupt, DumpReadError, Read, Corrupt, vars
<1>2. /\ loc' \in [sector : {Null} \cup 0..(NumSectors - 1),
                   slot : 0..SlotsPerSector, unread : BOOLEAN]
      /\ loc'.sector = loc.sector /\ loc'.slot = loc.slot /\ ~loc'.unread
  BY <1>1 DEF WalkTypeOK
<1>3. /\ ctx' \in [total : Nat, idx : Nat, skip : Nat, corrupt : Nat]
      /\ ctx'.idx = ctx'.total + ctx'.corrupt
  <2>1. /\ ctx \in [total : Nat, idx : Nat, skip : Nat, corrupt : Nat]
        /\ ctx.idx = ctx.total + ctx.corrupt
    BY DEF WalkTypeOK, DumpTypeOK
  <2>2. /\ ctx.total \in Nat /\ ctx.idx \in Nat /\ ctx.corrupt \in Nat
        /\ ctx.total + 1 \in Nat /\ ctx.idx + 1 \in Nat
        /\ ctx.corrupt + 1 \in Nat
    BY <2>1
  <2>3. ctx' \in [total : Nat, idx : Nat, skip : Nat, corrupt : Nat]
    BY <1>1, <2>1, <2>2
  <2>4. ctx'.corrupt = ctx.corrupt + 1 /\ ctx'.idx = ctx.idx + 1 /\ ctx'.total = ctx.total
    BY <1>1, <2>1
  <2> QED BY <2>1, <2>2, <2>3, <2>4
<1> QED BY <1>1, <1>2, <1>3 DEF WalkTypeOK, DumpTypeOK

\* The steps between the walks.
LEMMA PassTyped ==
  ASSUME WalkTypeOK,
         \/ \E k \in Ns : DumpStart(k)
         \/ DumpEmpty \/ SecondPass \/ DumpDone \/ DumpReturn
  PROVE  WalkTypeOK'
<1>0. /\ NoLoc.sector = Null /\ NoLoc.slot = 0 /\ NoLoc.unread = FALSE
      /\ NoLoc \in [sector : {Null} \cup 0..(NumSectors - 1),
                    slot : 0..SlotsPerSector, unread : BOOLEAN]
  BY DEF NoLoc
<1>1. ASSUME NEW k \in Ns, DumpStart(k)
      PROVE  WalkTypeOK'
  <2>1. /\ loc' = NoLoc /\ ctx' = NoCtx /\ pass' = "count" /\ n' = k
        /\ printed' = printed /\ pass = "none" /\ pc' = pc /\ pc[Shell] = "idle"
    BY <1>1 DEF DumpStart, vars
  <2>2. /\ NoCtx \in [total : Nat, idx : Nat, skip : Nat, corrupt : Nat]
        /\ NoCtx.idx = NoCtx.total + NoCtx.corrupt
    BY DEF NoCtx
  <2>3. n' \in Nat /\ printed' \in Seq(Line) /\ printed' = <<>>
    BY <2>1 DEF WalkTypeOK
  <2> QED BY <1>0, <2>1, <2>2, <2>3 DEF WalkTypeOK, DumpTypeOK
<1>2. CASE DumpEmpty \/ DumpDone
  <2>1. /\ UNCHANGED <<loc, ctx, n, printed, pc>> /\ pass' = "done"
        /\ ~loc.unread /\ pass # "none"
    BY <1>2 DEF DumpEmpty, DumpDone, WalkEnds, vars
  <2> QED BY <2>1 DEF WalkTypeOK, DumpTypeOK
<1>3. CASE SecondPass
  <2>1. /\ loc' = NoLoc /\ pass' = "print" /\ pass = "count"
        /\ UNCHANGED <<n, printed, pc>>
        /\ ctx' = [NoCtx EXCEPT !.skip =
                     IF ctx.total > n THEN ctx.total - n ELSE 0]
    BY <1>3 DEF SecondPass, vars
  <2>2. (IF ctx.total > n THEN ctx.total - n ELSE 0) \in Nat
    BY DEF WalkTypeOK
  <2>3. /\ ctx' \in [total : Nat, idx : Nat, skip : Nat, corrupt : Nat]
        /\ ctx'.idx = ctx'.total + ctx'.corrupt
    BY <2>1, <2>2 DEF NoCtx
  <2> QED BY <1>0, <2>1, <2>3 DEF WalkTypeOK, DumpTypeOK
<1>4. CASE DumpReturn
  BY <1>4, NoDumpTyped DEF DumpReturn
<1> QED BY <1>1, <1>2, <1>3, <1>4

\* Beside the walk, and after a power loss.
LEMMA BesideTyped ==
  ASSUME WalkTypeOK, JournalStep \/ UNCHANGED allVars
  PROVE  WalkTypeOK'
<1>1. CASE JournalStep /\ crashes' # crashes
  BY <1>1, NoDumpTyped DEF JournalStep
<1>2. CASE JournalStep /\ crashes' = crashes
  <2>1. UNCHANGED dumpVars /\ (pass # "none" => pc'[Shell] = "idle")
    BY <1>2 DEF JournalStep
  <2> QED BY <2>1 DEF WalkTypeOK, DumpTypeOK, dumpVars
<1>3. CASE UNCHANGED allVars
  BY <1>3 DEF WalkTypeOK, DumpTypeOK, allVars, dumpVars, vars
<1> QED BY <1>1, <1>2, <1>3

\* All steps together.
LEMMA WalkTyped ==
  ASSUME LockIInv, WalkTypeOK, [DumpNext]_allVars
  PROVE  WalkTypeOK'
BY WalkStepTyped, DumpRecordTyped, DumpCorruptTyped, PassTyped, BesideTyped
   DEF DumpNext, DumpWalk

\* Before the first dump.
LEMMA WalkInitTyped == DumpInit => WalkTypeOK
<1> SUFFICES ASSUME DumpInit PROVE WalkTypeOK
  OBVIOUS
<1>1. /\ loc = NoLoc /\ ctx = NoCtx /\ pass = "none" /\ printed = <<>>
      /\ n = 0
  BY DEF DumpInit
<1>2. NoLoc.sector = Null /\ NoLoc.slot = 0 /\ NoLoc.unread = FALSE
  BY DEF NoLoc
<1>3. NoLoc \in [sector : {Null} \cup 0..(NumSectors - 1),
                 slot : 0..SlotsPerSector, unread : BOOLEAN]
  BY DEF NoLoc
<1>4. /\ NoCtx \in [total : Nat, idx : Nat, skip : Nat, corrupt : Nat]
      /\ NoCtx.idx = NoCtx.total + NoCtx.corrupt
  BY DEF NoCtx
<1> QED BY <1>1, <1>2, <1>3, <1>4 DEF WalkTypeOK, DumpTypeOK

(***************************************************************************)
(* The walk stays within the ring and its sectors, the shell does nothing  *)
(* else meanwhile, and every record read is counted once, as good or as    *)
(* corrupt.                                                                *)
(***************************************************************************)
THEOREM DumpTypeCorrect == DumpSpec => []DumpTypeOK
<1>1. LockIInv /\ WalkTypeOK /\ [DumpNext]_allVars => WalkTypeOK'
  BY WalkTyped
<1>2. WalkTypeOK => DumpTypeOK
  BY DEF WalkTypeOK
<1> QED BY WalkInitTyped, <1>1, <1>2, DumpJournal, PTL DEF DumpSpec

-----------------------------------------------------------------------------
(* The order of what is printed.                                           *)

\* The event k is older than all that the walk has still to come to.
Walked(k) ==
  /\ Older(k)
  /\ \A s \in oldest..active : \A j \in 1..Len(flash[s]) :
       ~Behind(s, j) => k < flash[s][j].n

\* The writers, the flush and the clears leave it so: what they put on the
\* flash is newer, and an erased sector is not walked again but as a new one.
LEMMA WalkedBeside ==
  ASSUME LockIInv, WalkTypeOK, Next, crashes' = crashes, UNCHANGED dumpVars,
         loc.sector # Null, NEW k \in Nat, Walked(k)
  PROVE  Walked(k)'
<1>0. /\ FcbTypeOK /\ active \in Int /\ oldest \in Int
      /\ loc.sector \in 0..(NumSectors - 1) /\ loc' = loc
  BY DEF LockIInv, TypeOK, FcbTypeOK, WalkTypeOK, dumpVars
<1>1. FlashMoves
  BY FlashStep
<1>2. Older(k)'
  BY OlderStays DEF Walked
<1>3. PICK p \in 0..(NumSectors - 1) : p = loc.sector
  BY <1>0
<1>4. From = p /\ From' = p
  BY <1>0, <1>3 DEF From
<1>5. PICK a \in Int : a = active
  BY <1>0
<1>6. \/ LogicalOf(a + 1, p, NumSectors) = LogicalOf(a, p, NumSectors)
      \/ LogicalOf(a + 1, p, NumSectors) = a + 1
  BY LogicalMoves
<1>7. At' = At \/ (active' = active + 1 /\ At' = active + 1)
  BY <1>1, <1>4, <1>5, <1>6 DEF At, FlashMoves
<1>8. ASSUME NEW s \in oldest'..active', NEW j \in 1..Len(flash'[s]),
             ~Behind(s, j)'
      PROVE  k < flash'[s][j].n
  <2>1. CASE NewSlot(s, j)
    BY <2>1 DEF NewSlot, Walked, Older
  <2>2. CASE OldSlot(s, j)
    <3>1. /\ s \in oldest..active /\ j \in 1..Len(flash[s])
          /\ flash'[s][j].n = flash[s][j].n
      BY <2>2 DEF OldSlot
    <3>2. ~Behind(s, j)
      <4>1. CASE At' = At
        BY <1>0, <1>8, <4>1 DEF Behind
      <4>2. CASE At' = active + 1
        BY <1>0, <1>8, <3>1, <4>2 DEF Behind
      <4> QED BY <1>7, <4>1, <4>2
    <3> QED BY <3>1, <3>2 DEF Walked
  <2> QED BY <1>1, <2>1, <2>2 DEF FlashMoves
<1> QED BY <1>2, <1>8 DEF Walked

\* Where the walk goes on to.
LEMMA NextAt ==
  ASSUME LockIInv, WalkTypeOK, NEW e \in Ahead,
         loc' = [sector |-> (From + e[1]) % NumSectors, slot |-> e[2],
                 unread |-> TRUE],
         active' = active
  PROVE  /\ e[1] \in Nat /\ e[2] \in 1..SlotsPerSector
         /\ At' = At + e[1] /\ At + e[1] <= active
         /\ From' = (From + e[1]) % NumSectors
         /\ From' \in 0..(NumSectors - 1)
         /\ Slots((From + e[1]) % NumSectors)
              = IF At + e[1] >= oldest THEN flash[At + e[1]] ELSE <<>>
<1>0. /\ FcbTypeOK /\ active \in Int
      /\ loc.sector \in {Null} \cup 0..(NumSectors - 1)
  BY DEF LockIInv, TypeOK, FcbTypeOK, WalkTypeOK
<1>1. From \in 0..(NumSectors - 1) /\ At \in Int
  BY <1>0, FromIs
<1>2. /\ e[1] \in 0..((active - From) % NumSectors)
      /\ e[2] \in 1..SlotsPerSector
  <2>1. e \in (0..((active - From) % NumSectors)) \X (1..SlotsPerSector)
    BY DEF Ahead
  <2> QED BY <2>1
<1>3. PICK p \in 0..(NumSectors - 1) : p = From
  BY <1>1
<1>4. PICK a \in Int : a = active
  BY <1>0
<1>5. PICK m \in Int : m = (a - p) % NumSectors
  <2>1. PICK x \in Int : x = a - p
    OBVIOUS
  <2>2. x % NumSectors \in Int
    BY Remainder
  <2> QED BY <2>1, <2>2
<1>6. PICK d \in Nat : d = e[1]
  BY <1>2
<1>7. d <= m
  BY <1>2, <1>3, <1>4, <1>5, <1>6
<1>8. LogicalOf(a, p, NumSectors) = a - m
  BY <1>5 DEF LogicalOf
<1>9. At = a - m /\ At + d <= a
  BY <1>3, <1>4, <1>7, <1>8 DEF At
<1>10. /\ (p + d) % NumSectors \in 0..(NumSectors - 1)
       /\ LogicalOf(a, (p + d) % NumSectors, NumSectors)
            = LogicalOf(a, p, NumSectors) + d
  <2>1. LogicalOf(a, p, NumSectors) + d <= a
    BY <1>7, <1>8
  <2> QED BY <2>1, LogicalFurther
<1>11. PICK r \in 0..(NumSectors - 1) : r = (p + d) % NumSectors
  BY <1>10
<1>12. loc'.sector = r /\ From' = r
  BY <1>3, <1>6, <1>11 DEF From, Null
<1>13. LogicalOf(a, r, NumSectors) = At + d
  BY <1>8, <1>9, <1>10, <1>11
<1>14. At' = At + d
  BY <1>4, <1>12, <1>13 DEF At
<1>15. Slots(r) = IF At + d >= oldest THEN flash[At + d] ELSE <<>>
  <2>1. Slots(r) = IF LogicalOf(active, r, NumSectors) >= oldest
                   THEN flash[LogicalOf(active, r, NumSectors)] ELSE <<>>
    BY <1>0, SlotsAre
  <2> QED BY <1>4, <1>13, <2>1
<1>16. (From + e[1]) % NumSectors = r
  BY <1>3, <1>6, <1>11
<1> QED BY <1>2, <1>4, <1>6, <1>9, <1>12, <1>14, <1>15, <1>16

\* The walk only goes on.
LEMMA WalkedOn ==
  ASSUME LockIInv, WalkTypeOK, WalkNext, NEW k \in Nat, Walked(k)
  PROVE  Walked(k)'
<1>1. PICK e \in Ahead :
        loc' = [sector |-> (From + e[1]) % NumSectors, slot |-> e[2],
                unread |-> TRUE]
  BY DEF WalkNext
<1>2. UNCHANGED <<flash, oldest, active, evt_q, next_ev, pc, ev>> /\ ~loc.unread
  BY DEF WalkNext, vars, queueVars, fcbVars
<1>3. /\ e[1] \in Nat /\ e[2] \in Nat
      /\ At' = At + e[1] /\ loc'.slot = e[2] /\ loc'.unread
      /\ At \in Int /\ oldest \in Int /\ active \in Int /\ loc.slot \in Nat
  <2>1. e[1] \in Nat /\ e[2] \in 1..SlotsPerSector /\ At' = At + e[1]
    BY <1>1, <1>2, NextAt
  <2>2. /\ FcbTypeOK /\ loc.sector \in {Null} \cup 0..(NumSectors - 1)
        /\ loc.slot \in Nat /\ active \in Int /\ oldest \in Int
    BY DEF LockIInv, TypeOK, FcbTypeOK, WalkTypeOK
  <2> QED BY <1>1, <2>1, <2>2, FromIs
<1>4. e[1] = 0 => e[2] > loc.slot
  BY DEF Ahead
<1>5. ASSUME NEW s \in oldest..active, NEW j \in 1..Len(flash[s]),
             ~Behind(s, j)'
      PROVE  ~Behind(s, j)
  BY <1>2, <1>3, <1>4, <1>5 DEF Behind
<1> QED BY <1>2, <1>5 DEF Walked, Older

\* Reading the record it has come to.
LEMMA WalkedRead ==
  ASSUME WalkTypeOK, loc.unread, Read, NEW k \in Nat, Walked(k),
         UNCHANGED <<flash, oldest, active, evt_q, next_ev, pc, ev>>
  PROVE  Walked(k)'
<1>1. loc'.sector = loc.sector /\ loc'.slot = loc.slot /\ ~loc'.unread
  BY DEF Read, WalkTypeOK
<1>2. At' = At
  BY <1>1 DEF At, From, Physical
<1>3. \A s \in oldest..active : \A j \in 1..Len(flash[s]) :
        ~Behind(s, j)' => ~Behind(s, j)
  BY <1>1, <1>2 DEF Behind
<1> QED BY <1>3 DEF Walked, Older

\* The record read now is newer than those, and older than what comes.
LEMMA RecordWalked ==
  ASSUME LockIInv, OrderIInv, WalkTypeOK, loc.unread, Readable, Read,
         UNCHANGED <<flash, oldest, active, evt_q, next_ev, pc, ev>>,
         NEW k \in Nat, k = Slots(loc.sector)[loc.slot].n
  PROVE  /\ \A m \in Nat : Walked(m) => m < k
         /\ Walked(k)'
<1>0. /\ active \in Int /\ oldest \in Int /\ loc.slot \in Nat
  BY DEF LockIInv, TypeOK, FcbTypeOK, WalkTypeOK
<1>1. /\ At \in oldest..active
      /\ loc.slot \in 1..Len(flash[At])
      /\ Slots(loc.sector)[loc.slot] = flash[At][loc.slot]
      /\ flash[At][loc.slot].n \in 1..MaxEvents
  BY ReadableAt
<1>2. k = flash[At][loc.slot].n
  BY <1>1
<1>3. ~Behind(At, loc.slot)
  BY <1>0, <1>1 DEF Behind
<1>4. \A m \in Nat : Walked(m) => m < k
  BY <1>1, <1>2, <1>3 DEF Walked
<1>5. loc'.sector = loc.sector /\ loc'.slot = loc.slot /\ ~loc'.unread
  BY DEF Read, WalkTypeOK
<1>6. At' = At
  BY <1>5 DEF At, From, Physical
<1>7. Older(k)
  BY <1>1, <1>2 DEF OrderIInv, FifoOrder, QueueAfterFlash, HandInOrder, Older
<1>8. ASSUME NEW s \in oldest..active, NEW j \in 1..Len(flash[s]),
             ~Behind(s, j)'
      PROVE  k < flash[s][j].n
  <2>1. At < s \/ (At = s /\ loc.slot < j)
    BY <1>0, <1>1, <1>5, <1>6, <1>8 DEF Behind
  <2> QED BY <1>1, <1>2, <2>1 DEF OrderIInv, FifoOrder, InOrder
<1>9. Walked(k)'
  BY <1>7, <1>8 DEF Walked, Older
<1> QED BY <1>4, <1>9

PrintedInv ==
  /\ PrintedInOrder
  /\ \A i \in 1..Len(printed) : printed[i].idx < ctx.idx
  /\ \A k \in Nat : k \in Printed => Walked(k)

\* A dump that has printed nothing.
LEMMA NothingPrinted ==
  ASSUME printed' = <<>>
  PROVE  PrintedInv'
<1>1. Len(printed') = 0
  OBVIOUS
<1> QED BY <1>1 DEF PrintedInv, PrintedInOrder, Printed

\* A step that prints nothing.
LEMMA SamePrinted ==
  ASSUME WalkTypeOK, PrintedInv, printed' = printed, ctx'.idx >= ctx.idx,
         ctx'.idx \in Nat,
         \A k \in Nat : Walked(k) => Walked(k)'
  PROVE  PrintedInv'
<1>1. ASSUME NEW i \in 1..Len(printed)
      PROVE  printed[i].idx \in Nat
  <2>1. printed[i] \in Line
    <3> HIDE DEF Line
    <3> QED BY DEF WalkTypeOK
  <2> QED BY <2>1 DEF Line
<1>2. PrintedInOrder' /\ Printed' = Printed
  BY DEF PrintedInv, PrintedInOrder, Printed
<1>3. \A i \in 1..Len(printed) : printed[i].idx < ctx'.idx
  BY <1>1 DEF PrintedInv, WalkTypeOK
<1>4. ASSUME NEW k \in Nat, k \in Printed' PROVE Walked(k)'
  BY <1>2, <1>4 DEF PrintedInv
<1> QED BY <1>2, <1>3, <1>4 DEF PrintedInv

\* A record is read, and printed or not.
LEMMA RecordPrinted ==
  ASSUME LockIInv, OrderIInv, WalkTypeOK, PrintedInv, DumpRecord
  PROVE  PrintedInv'
<1>1. /\ loc.unread /\ Readable /\ Read
      /\ UNCHANGED <<flash, oldest, active, evt_q, next_ev, pc, ev>>
      /\ ctx.idx \in Nat /\ ctx'.idx = ctx.idx + 1
  BY DEF DumpRecord, WalkTypeOK, vars, queueVars, fcbVars
<1>2. PICK k \in Nat : k = Slots(loc.sector)[loc.slot].n
  BY <1>1, ReadableAt
<1>3. (\A m \in Nat : Walked(m) => m < k) /\ Walked(k)'
  BY <1>1, <1>2, RecordWalked
<1>4. \A m \in Nat : Walked(m) => Walked(m)'
  BY <1>1, WalkedRead
<1>5. CASE printed' = printed
  BY <1>1, <1>4, <1>5, SamePrinted
<1>6. CASE printed' = Append(printed, [idx |-> ctx.idx, ev |-> k])
  <2>1. ASSUME NEW i \in 1..Len(printed)
        PROVE  /\ printed[i].ev \in Nat /\ printed[i].idx \in Nat
               /\ printed[i].ev < k
               /\ printed[i].idx < ctx.idx
    <3>1. printed[i] \in Line
      <4> HIDE DEF Line
      <4> QED BY DEF WalkTypeOK
    <3>2. PICK m \in Nat : m = printed[i].ev
      BY <3>1 DEF Line
    <3>3. m \in Printed
      BY <3>2 DEF Printed
    <3> QED BY <1>3, <3>1, <3>2, <3>3 DEF PrintedInv, Line
  <2>2. PICK l : l = [idx |-> ctx.idx, ev |-> k]
    OBVIOUS
  <2>3. l.idx = ctx.idx /\ l.ev = k
    BY <2>2
  <2>4. /\ Len(printed') = Len(printed) + 1 /\ Len(printed) \in Nat
        /\ \A i \in 1..Len(printed) : printed'[i] = printed[i]
        /\ printed'[Len(printed) + 1] = l
    <3>1. printed \in Seq(Line)
      BY DEF WalkTypeOK
    <3> HIDE DEF Line
    <3> QED BY <1>6, <2>2, <3>1
  <2>5. ASSUME NEW i \in 1..Len(printed'), NEW j \in 1..Len(printed'), i < j
        PROVE  printed'[i].ev < printed'[j].ev /\ printed'[i].idx < printed'[j].idx
    <3>1. i \in 1..Len(printed)
      BY <2>4, <2>5
    <3>2. CASE j \in 1..Len(printed)
      BY <2>4, <2>5, <3>1, <3>2 DEF PrintedInv, PrintedInOrder
    <3>3. CASE j = Len(printed) + 1
      BY <2>1, <2>3, <2>4, <3>1, <3>3
    <3> QED BY <2>4, <3>2, <3>3
  <2>6. \A i \in 1..Len(printed') :
          i \in 1..Len(printed) \/ i = Len(printed) + 1
    BY <2>4
  <2>7. \A i \in 1..Len(printed') : printed'[i].idx < ctx'.idx
    BY <1>1, <2>1, <2>3, <2>4, <2>6
  <2>8. ASSUME NEW m \in Nat, m \in Printed'
        PROVE  Walked(m)'
    <3>1. m \in Printed \/ m = k
      BY <2>3, <2>4, <2>6, <2>8 DEF Printed
    <3> QED BY <1>3, <1>4, <3>1 DEF PrintedInv
  <2> QED BY <2>5, <2>7, <2>8 DEF PrintedInv, PrintedInOrder
<1> QED BY <1>2, <1>5, <1>6 DEF DumpRecord

\* All steps together.
LEMMA PrintedStep ==
  ASSUME LockIInv, OrderIInv, WalkTypeOK, PrintedInv, [DumpNext]_allVars
  PROVE  PrintedInv'
<1>0. ctx.idx \in Nat
  BY DEF WalkTypeOK
<1>1. CASE JournalStep
  <2>1. CASE crashes' # crashes
    BY <1>1, <2>1, NothingPrinted DEF JournalStep, NoDump
  <2>2. CASE crashes' = crashes /\ loc.sector = Null
    BY <1>1, <2>2, NothingPrinted DEF JournalStep, WalkTypeOK, dumpVars
  <2>3. CASE crashes' = crashes /\ loc.sector # Null
    <3>1. Next /\ UNCHANGED dumpVars
      BY <1>1, <2>3 DEF JournalStep
    <3>2. \A k \in Nat : Walked(k) => Walked(k)'
      BY <2>3, <3>1, WalkedBeside
    <3> QED BY <1>0, <3>1, <3>2, SamePrinted DEF dumpVars
  <2> QED BY <2>1, <2>2, <2>3
<1>2. CASE WalkNext
  <2>1. \A k \in Nat : Walked(k) => Walked(k)'
    BY <1>2, WalkedOn
  <2> QED BY <1>0, <1>2, <2>1, SamePrinted DEF WalkNext
<1>3. CASE DumpRecord
  BY <1>3, RecordPrinted
<1>4. CASE DumpCorrupt \/ DumpReadError
  <2>1. /\ loc.unread /\ Read /\ printed' = printed /\ ctx'.idx = ctx.idx + 1
        /\ UNCHANGED <<flash, oldest, active, evt_q, next_ev, pc, ev>>
    BY <1>4 DEF DumpCorrupt, DumpReadError, Corrupt, WalkTypeOK, vars,
       queueVars, fcbVars
  <2>2. \A k \in Nat : Walked(k) => Walked(k)'
    BY <2>1, WalkedRead
  <2> QED BY <1>0, <2>1, <2>2, SamePrinted
<1>5. CASE DumpEmpty \/ DumpDone \/ UNCHANGED allVars
  <2>1. UNCHANGED <<vars, loc, ctx, printed>>
    BY <1>5 DEF DumpEmpty, DumpDone, allVars, dumpVars
  <2>2. \A k \in Nat : Walked(k) => Walked(k)'
    BY <2>1 DEF Walked, Older, Behind, At, From, Physical, vars, queueVars,
       fcbVars
  <2> QED BY <1>0, <2>1, <2>2, SamePrinted
<1>6. CASE (\E k \in Ns : DumpStart(k)) \/ SecondPass
  BY <1>6, NothingPrinted DEF DumpStart, SecondPass, WalkTypeOK
<1>7. CASE DumpReturn
  BY <1>7, NothingPrinted DEF DumpReturn, NoDump
<1> QED BY <1>1, <1>2, <1>3, <1>4, <1>5, <1>6, <1>7 DEF DumpNext, DumpWalk

(***************************************************************************)
(* Whatever the writers, the flush, the rotations and the clears do        *)
(* between the looks at the FCB and the reads of the flash, a dump prints  *)
(* records in the order of recording, none twice, under growing indices.   *)
(***************************************************************************)
THEOREM PrintedInOrderSafe == DumpSpec => []PrintedInOrder
<1>1. DumpInit => PrintedInv
  BY DEF DumpInit, PrintedInv, PrintedInOrder, Printed
<1>2. LockIInv /\ WalkTypeOK /\ [DumpNext]_allVars => WalkTypeOK'
  BY WalkTyped
<1>3. LockIInv /\ OrderIInv /\ WalkTypeOK /\ PrintedInv /\ [DumpNext]_allVars
        => PrintedInv'
  BY PrintedStep
<1>4. PrintedInv => PrintedInOrder
  BY DEF PrintedInv
<1> QED BY WalkInitTyped, <1>1, <1>2, <1>3, <1>4, DumpJournal, PTL DEF DumpSpec

-----------------------------------------------------------------------------
(* A dump of a journal that stays as it is.                                *)

\* All that can be read of the journal is right.
AllGood ==
  \A s \in oldest..active : \A j \in 1..Len(flash[s]) :
    flash[s][j].fin => flash[s][j].data = "good"

\* No event is in two slots.
LEMMA OneSlot ==
  ASSUME FcbTypeOK, InOrder,
         NEW s \in oldest..active, NEW i \in 1..Len(flash[s]),
         NEW r \in oldest..active, NEW j \in 1..Len(flash[r]),
         flash[s][i].n = flash[r][j].n
  PROVE  s = r /\ i = j
<1>1. s \in Int /\ r \in Int
  BY DEF FcbTypeOK
<1>2. flash[s][i].n \in 1..MaxEvents
  BY EntryAt
<1> QED BY <1>1, <1>2 DEF InOrder

\* What a walk of the FCB finds is in a finished slot.
LEMMA KeptIs ==
  ASSUME FcbTypeOK, NEW k
  PROVE  k \in Kept <=>
           \E s \in oldest..active : \E j \in 1..Len(flash[s]) :
             flash[s][j].fin /\ flash[s][j].n = k
BY VisibleIn DEF Kept

\* If each event found is readable, so is each finished slot.
LEMMA GoodIs ==
  ASSUME FcbTypeOK, InOrder, \A k \in Kept : Good(k)
  PROVE  AllGood
<1>1. ASSUME NEW s \in oldest..active, NEW j \in 1..Len(flash[s]), flash[s][j].fin
      PROVE  flash[s][j].data = "good"
  <2>1. PICK k \in 1..MaxEvents : k = flash[s][j].n
    BY EntryAt
  <2>2. k \in Kept
    BY <1>1, <2>1, KeptIs
  <2>3. PICK r \in oldest..active : \E i \in 1..Len(flash[r]) :
          flash[r][i].n = k /\ flash[r][i].data = "good"
    BY <2>2 DEF Good
  <2>4. PICK i \in 1..Len(flash[r]) :
          flash[r][i].n = k /\ flash[r][i].data = "good"
    BY <2>3
  <2>5. s = r /\ j = i
    BY <2>1, <2>4, OneSlot
  <2> QED BY <2>4, <2>5
<1> QED BY <1>1 DEF AllGood

\* Nothing that can be read has come or gone.
SameFinished ==
  /\ oldest' = oldest
  /\ \A s \in oldest'..active' : \A j \in 1..Len(flash'[s]) :
       flash'[s][j].fin => /\ s \in oldest..active /\ j \in 1..Len(flash[s])
                           /\ flash[s][j] = flash'[s][j]
  /\ \A s \in oldest..active : \A j \in 1..Len(flash[s]) :
       flash[s][j].fin => /\ s \in oldest'..active' /\ j \in 1..Len(flash'[s])
                          /\ flash'[s][j] = flash[s][j]

\* Without an erase the journal loses nothing.
LEMMA KeptGrows ==
  ASSUME FcbTypeOK, FcbTypeOK', FlashMoves, oldest' = oldest
  PROVE  /\ Kept \subseteq Kept'
         /\ \A s \in oldest..active : \A j \in 1..Len(flash[s]) :
              flash[s][j].fin => /\ s \in oldest'..active' /\ j \in 1..Len(flash'[s])
                                 /\ flash'[s][j] = flash[s][j]
<1>1. ASSUME NEW s \in oldest..active, NEW j \in 1..Len(flash[s]), flash[s][j].fin
      PROVE  /\ s \in oldest'..active' /\ j \in 1..Len(flash'[s])
             /\ flash'[s][j] = flash[s][j]
  <2>1. s >= oldest'
    BY DEF FcbTypeOK
  <2> QED BY <1>1, <2>1 DEF FlashMoves, OldSlot
<1>2. ASSUME NEW k \in Kept PROVE k \in Kept'
  <2>1. PICK s \in oldest..active : \E j \in 1..Len(flash[s]) :
          flash[s][j].fin /\ flash[s][j].n = k
    BY KeptIs
  <2>2. PICK j \in 1..Len(flash[s]) : flash[s][j].fin /\ flash[s][j].n = k
    BY <2>1
  <2>3. k \in 1..MaxEvents
    BY <2>2, EntryAt
  <2>4. \E r \in oldest'..active' : \E i \in 1..Len(flash'[r]) :
          flash'[r][i].fin /\ flash'[r][i].n = k
    BY <1>1, <2>2
  <2> QED BY <2>3, <2>4 DEF Kept, Visible
<1> QED BY <1>1, <1>2

\* With nothing erased and nothing new to be found, all is as it was.
LEMMA FinishedSame ==
  ASSUME FcbTypeOK, FcbTypeOK', InOrder, FlashMoves, oldest' = oldest,
         Kept' = Kept
  PROVE  SameFinished
<1>1. ASSUME NEW s \in oldest'..active', NEW j \in 1..Len(flash'[s]),
             flash'[s][j].fin
      PROVE  /\ s \in oldest..active /\ j \in 1..Len(flash[s])
             /\ flash[s][j] = flash'[s][j]
  <2>1. OldSlot(s, j)
    BY <1>1 DEF FlashMoves, NewSlot
  <2>2. /\ s \in oldest..active /\ j \in 1..Len(flash[s])
        /\ flash'[s][j].n = flash[s][j].n
        /\ flash[s][j].fin => flash'[s][j] = flash[s][j]
    BY <2>1 DEF OldSlot
  <2>3. PICK k \in 1..MaxEvents : k = flash[s][j].n
    BY <2>2, EntryAt
  <2>4. k \in Kept'
    BY <1>1, <2>2, <2>3 DEF Kept, Visible
  <2>5. PICK r \in oldest..active : \E i \in 1..Len(flash[r]) :
          flash[r][i].fin /\ flash[r][i].n = k
    BY <2>4, KeptIs
  <2>6. PICK i \in 1..Len(flash[r]) : flash[r][i].fin /\ flash[r][i].n = k
    BY <2>5
  <2>7. r = s /\ i = j
    BY <2>2, <2>3, <2>6, OneSlot
  <2> QED BY <2>2, <2>6, <2>7
<1> QED BY <1>1, KeptGrows DEF SameFinished

\* The journal has been as it is since the dump began, and all reads
\* succeeded.
Quiet == pass # "none" /\ before = <<oldest, Kept>> /\ ~misread /\ AllGood

BeforeInv ==
  pass # "none" =>
    /\ before = <<before[1], before[2]>>
    /\ before[1] \in Int /\ before[1] <= oldest
    /\ before[1] = oldest => before[2] \subseteq Kept

\* If the journal is now as it was when the dump began, it was so before
\* this step, and the step changed nothing that can be read.
LEMMA BesideSame ==
  ASSUME LockIInv, OrderIInv, LockIInv', BeforeInv, pass # "none", Next,
         UNCHANGED dumpVars
  PROVE  /\ BeforeInv'
         /\ Quiet' => Quiet /\ SameFinished /\ Kept' = Kept
<1>0. /\ FcbTypeOK /\ FcbTypeOK' /\ InOrder /\ FlashMoves
      /\ pass' = pass /\ before' = before /\ misread' = misread
  BY FlashStep DEF LockIInv, TypeOK, OrderIInv, FifoOrder, dumpVars
<1>1. PICK o \in Int : o = before[1] /\ o <= oldest
  BY DEF BeforeInv
<1>2. PICK K : K = before[2] /\ before = <<o, K>>
  BY <1>1 DEF BeforeInv
<1>3. oldest' \in {oldest, oldest + 1} /\ oldest \in Int
  BY <1>0 DEF FlashMoves, FcbTypeOK
<1>4. o = oldest => K \subseteq Kept
  BY <1>1, <1>2 DEF BeforeInv
<1>5. o = oldest' => oldest' = oldest
  BY <1>1, <1>3
<1>6. oldest' = oldest => Kept \subseteq Kept'
  BY <1>0, KeptGrows
<1>7. BeforeInv'
  BY <1>0, <1>1, <1>2, <1>3, <1>4, <1>5, <1>6 DEF BeforeInv
<1>8. ASSUME Quiet'
      PROVE  Quiet /\ SameFinished /\ Kept' = Kept
  <2>1. o = oldest' /\ K = Kept' /\ ~misread /\ AllGood'
    BY <1>0, <1>2, <1>8 DEF Quiet
  <2>2. oldest' = oldest /\ Kept' = Kept
    BY <1>4, <1>5, <1>6, <2>1
  <2>3. SameFinished
    BY <1>0, <2>2, FinishedSame
  <2>4. AllGood
    BY <2>1, <2>3 DEF AllGood, SameFinished
  <2> QED BY <1>2, <2>1, <2>2, <2>3, <2>4 DEF Quiet
<1> QED BY <1>7, <1>8

\* The records the walk has read.
Passed ==
  {k \in Kept : \E s \in oldest..active : \E j \in 1..Len(flash[s]) :
                  flash[s][j].fin /\ flash[s][j].n = k /\ Behind(s, j)}

\* How many are older.
Rank(k) == Cardinality({j \in Kept : j < k})

Skip == IF Cardinality(Kept) > n THEN Cardinality(Kept) - n ELSE 0

\* What the counters and the screen say of a journal that stays as it is.
CountInv ==
  /\ At >= oldest
  /\ loc.unread => /\ At \in oldest..active
                   /\ loc.slot \in 1..Len(flash[At])
                   /\ flash[At][loc.slot].fin
  /\ pass \in {"count", "print"} =>
       ctx.corrupt = 0 /\ ctx.idx = Cardinality(Passed)
  /\ pass = "print" =>
       ctx.skip = Skip /\ Printed = {k \in Passed : Rank(k) >= Skip}
  /\ pass = "done" => Printed = Newest(Kept)

\* There is a number of what is found.
LEMMA KeptFinite ==
  /\ IsFiniteSet(Kept) /\ Kept \subseteq Nat
  /\ IsFiniteSet(Passed)
  /\ \A k : IsFiniteSet({j \in Kept : j < k}) /\ Rank(k) \in Nat
  /\ Skip \in Nat \/ n \notin Nat
<1>1. IsFiniteSet(1..MaxEvents) /\ Kept \in SUBSET (1..MaxEvents)
  BY FS_Interval DEF Kept, Visible
<1>2. IsFiniteSet(Kept)
  BY <1>1, FS_Subset
<1>3. IsFiniteSet(Passed)
  <2>1. Passed \in SUBSET Kept
    BY DEF Passed
  <2> QED BY <1>2, <2>1, FS_Subset
<1>4. ASSUME NEW k PROVE IsFiniteSet({j \in Kept : j < k}) /\ Rank(k) \in Nat
  <2>1. {j \in Kept : j < k} \in SUBSET Kept
    OBVIOUS
  <2>2. IsFiniteSet({j \in Kept : j < k})
    BY <1>2, <2>1, FS_Subset
  <2> QED BY <2>2, FS_CardinalityType DEF Rank
<1>5. Cardinality(Kept) \in Nat
  BY <1>2, FS_CardinalityType
<1>6. Skip \in Nat \/ n \notin Nat
  BY <1>5 DEF Skip
<1> QED BY <1>1, <1>2, <1>3, <1>4, <1>6

\* The newest n of a set are those with enough older ones.
LEMMA NewestIs ==
  ASSUME n \in Nat
  PROVE  Newest(Kept) = {k \in Kept : Rank(k) >= Skip}
<1>1. ASSUME NEW k \in Kept
      PROVE  Cardinality({j \in Kept : j >= k}) <= n <=> Rank(k) >= Skip
  <2>1. IsFiniteSet(Kept) /\ Kept \subseteq Nat
    BY KeptFinite
  <2>2. PICK S : S = {j \in Kept : j < k}
    OBVIOUS
  <2>3. PICK T : T = {j \in Kept : j >= k}
    OBVIOUS
  <2>4. S \in SUBSET Kept /\ T \in SUBSET Kept
    BY <2>2, <2>3
  <2>5. IsFiniteSet(S) /\ IsFiniteSet(T)
    BY <2>1, <2>4, FS_Subset
  <2>6. S \cup T = Kept /\ S \cap T = {}
    <3>1. \A j \in Kept : ~(j < k) <=> j >= k
      BY <2>1
    <3>2. \A j : j \in Kept => (j \in S <=> ~(j \in T))
      BY <2>2, <2>3, <3>1
    <3> QED BY <2>4, <3>2
  <2>7. Cardinality(S \cup T) = Cardinality(S) + Cardinality(T) - Cardinality(S \cap T)
    BY <2>5, FS_Union
  <2>8. Cardinality(S \cap T) = 0
    BY <2>6, FS_EmptySet
  <2>9. Cardinality(S) \in Nat /\ Cardinality(T) \in Nat
    BY <2>5, FS_CardinalityType
  <2>10. Cardinality(Kept) = Cardinality(S) + Cardinality(T)
    <3>1. Cardinality(Kept) = Cardinality(S) + Cardinality(T) - 0
      BY <2>6, <2>7, <2>8
    <3> QED BY <2>9, <3>1
  <2>11. Rank(k) = Cardinality(S)
    BY <2>2 DEF Rank
  <2>12. Cardinality(T) <= n <=> Rank(k) >= Skip
    BY <2>9, <2>10, <2>11 DEF Skip
  <2> QED BY <2>3, <2>12
<1> QED BY <1>1 DEF Newest

\* A finished slot has been read exactly if the walk is past it.
LEMMA PassedIs ==
  ASSUME FcbTypeOK, InOrder,
         NEW s \in oldest..active, NEW j \in 1..Len(flash[s]), flash[s][j].fin
  PROVE  flash[s][j].n \in Kept /\ (flash[s][j].n \in Passed <=> Behind(s, j))
<1>1. flash[s][j].n \in Kept
  BY KeptIs
<1>2. ASSUME flash[s][j].n \in Passed
      PROVE  Behind(s, j)
  <2>1. PICK r \in oldest..active : \E i \in 1..Len(flash[r]) :
          flash[r][i].n = flash[s][j].n /\ Behind(r, i)
    BY <1>2 DEF Passed
  <2>2. PICK i \in 1..Len(flash[r]) :
          flash[r][i].n = flash[s][j].n /\ Behind(r, i)
    BY <2>1
  <2>3. r = s /\ i = j
    BY <2>2, OneSlot
  <2> QED BY <2>2, <2>3
<1> QED BY <1>1, <1>2 DEF Passed

\* A walk begins before all records.
LEMMA NothingPassed ==
  ASSUME FcbTypeOK, loc' = NoLoc, UNCHANGED <<flash, oldest, active>>
  PROVE  /\ At' >= oldest' /\ ~loc'.unread
         /\ Passed' = {} /\ Cardinality(Passed') = 0
<1>0. /\ active \in Int /\ oldest \in Int /\ active - NumSectors < oldest
      /\ oldest <= active
  BY DEF FcbTypeOK
<1>1. loc'.sector = Null /\ loc'.slot = 0 /\ ~loc'.unread
  BY DEF NoLoc
<1>2. PICK o \in Int : o = oldest
  BY <1>0
<1>3. PICK a \in Int : a = active
  BY <1>0
<1>4. PICK p \in 0..(NumSectors - 1) : p = o % NumSectors
  BY Remainder
<1>5. LogicalOf(a, p, NumSectors) = o
  BY <1>0, <1>2, <1>3, <1>4, LogicalIs
<1>6. From' = p
  BY <1>1, <1>2, <1>4 DEF From, Physical
<1>7. At' = oldest
  BY <1>2, <1>3, <1>5, <1>6 DEF At
<1>8. \A s \in oldest..active : \A j \in 1..Len(flash[s]) : ~Behind(s, j)'
  BY <1>0, <1>1, <1>7 DEF Behind
<1>9. Passed' = {}
  BY <1>8 DEF Passed
<1> QED BY <1>0, <1>1, <1>7, <1>9, FS_EmptySet

\* Beside a dump nothing changes for it.
LEMMA SamePassed ==
  ASSUME SameFinished, Kept' = Kept,
         \A s \in oldest..active : \A j \in 1..Len(flash[s]) :
           flash[s][j].fin => (Behind(s, j)' <=> Behind(s, j))
  PROVE  Passed' = Passed
<1>1. ASSUME NEW k \in Kept
      PROVE  (\E s \in oldest'..active' : \E j \in 1..Len(flash'[s]) :
                flash'[s][j].fin /\ flash'[s][j].n = k /\ Behind(s, j)')
             <=> (\E s \in oldest..active : \E j \in 1..Len(flash[s]) :
                flash[s][j].fin /\ flash[s][j].n = k /\ Behind(s, j))
  BY DEF SameFinished
<1> QED BY <1>1 DEF Passed

\* A step beside the dump of a journal that stays as it is.
LEMMA CountBeside ==
  ASSUME LockIInv, LockIInv', WalkTypeOK, Next, UNCHANGED dumpVars,
         SameFinished, Kept' = Kept, CountInv
  PROVE  CountInv'
<1>0. /\ FcbTypeOK /\ FcbTypeOK'
      /\ active \in Int /\ oldest \in Int /\ oldest' = oldest
      /\ active' \in Int /\ oldest > active' - NumSectors
      /\ loc.sector \in {Null} \cup 0..(NumSectors - 1) /\ loc' = loc
      /\ active' \in {active, active + 1}
  <2>1. FcbTypeOK /\ FcbTypeOK'
    BY DEF LockIInv, TypeOK
  <2>2. active' \in {active, active + 1}
    BY FlashStep DEF FlashMoves
  <2>3. oldest' = oldest /\ loc' = loc
    BY DEF SameFinished, dumpVars
  <2>4. active \in Int /\ oldest \in Int
    BY <2>1 DEF FcbTypeOK
  <2>6. active' - oldest' < NumSectors
    BY <2>1 DEF FcbTypeOK
  <2>7. active' \in Int
    BY <2>2, <2>4
  <2>8. oldest > active' - NumSectors
    <3>1. PICK b \in Int : b = active'
      BY <2>7
    <3>2. b - oldest < NumSectors
      BY <2>3, <2>6, <3>1
    <3>3. oldest > b - NumSectors
      BY <2>4, <3>2
    <3> QED BY <3>1, <3>3
  <2>5. loc.sector \in {Null} \cup 0..(NumSectors - 1)
    BY DEF WalkTypeOK
  <2> QED BY <2>1, <2>2, <2>3, <2>4, <2>5, <2>7, <2>8
<1>1. At \in Int /\ From \in 0..(NumSectors - 1)
  BY <1>0, FromIs
<1>2. PICK p \in 0..(NumSectors - 1) : p = From
  BY <1>1
<1>3. PICK a \in Int : a = active
  BY <1>0
<1>4. From' = p
  BY <1>0, <1>2 DEF From, Physical
<1>5. At' = At
  <2>1. CASE active' = a
    BY <1>2, <1>3, <1>4, <2>1 DEF At
  <2>2. CASE active' = a + 1
    <3>1. \/ LogicalOf(a + 1, p, NumSectors) = LogicalOf(a, p, NumSectors)
          \/ LogicalOf(a, p, NumSectors) = a + 1 - NumSectors
      BY LogicalMoves
    <3>2. LogicalOf(a, p, NumSectors) >= oldest
      BY <1>2, <1>3 DEF CountInv, At
    <3>3. LogicalOf(a + 1, p, NumSectors) = LogicalOf(a, p, NumSectors)
      BY <1>0, <2>2, <3>1, <3>2
    <3> QED BY <1>2, <1>3, <1>4, <2>2, <3>3 DEF At
  <2> QED BY <1>0, <1>3, <2>1, <2>2
<1>6. Passed' = Passed
  BY <1>0, <1>5, SamePassed DEF Behind
<1>7. Skip' = Skip /\ Printed' = Printed /\ Newest(Kept)' = Newest(Kept)
      /\ \A k : Rank(k)' = Rank(k)
  BY DEF Skip, Printed, Newest, Rank, dumpVars
<1>8. /\ pass' = pass /\ ctx' = ctx
      /\ loc.unread => /\ At \in oldest'..active'
                       /\ loc.slot \in 1..Len(flash'[At])
                       /\ flash'[At][loc.slot].fin
  BY DEF CountInv, SameFinished, dumpVars
<1> QED BY <1>0, <1>5, <1>6, <1>7, <1>8 DEF CountInv

\* A record the walk has not read is ahead of it.
LEMMA AheadHas ==
  ASSUME LockIInv, WalkTypeOK, CountInv, ~loc.unread,
         NEW s \in oldest..active, NEW j \in 1..Len(flash[s]),
         flash[s][j].fin, ~Behind(s, j)
  PROVE  <<s - At, j>> \in Ahead /\ s - At \in Nat
<1>0. /\ FcbTypeOK /\ active \in Int /\ oldest \in Int /\ s \in Int
      /\ loc.sector \in {Null} \cup 0..(NumSectors - 1)
      /\ At >= oldest /\ s <= active /\ s >= oldest
      /\ Len(flash[s]) <= SlotsPerSector /\ Len(flash[s]) \in Nat
      /\ loc.slot \in Nat
  BY DEF LockIInv, TypeOK, FcbTypeOK, WalkTypeOK, CountInv
<1>1. From \in 0..(NumSectors - 1) /\ At \in Int
  BY <1>0, FromIs
<1>2. PICK p \in 0..(NumSectors - 1) : p = From
  BY <1>1
<1>3. PICK a \in Int : a = active
  BY <1>0
<1>4. PICK m \in Int : m = (a - p) % NumSectors
  <2>1. PICK x \in Int : x = a - p
    OBVIOUS
  <2>2. x % NumSectors \in Int
    BY Remainder
  <2> QED BY <2>1, <2>2
<1>5. LogicalOf(a, p, NumSectors) = a - m /\ At = a - m
  BY <1>2, <1>3, <1>4 DEF LogicalOf, At
<1>6. s >= At
  BY <1>0, <1>1 DEF Behind
<1>7. PICK d \in Nat : d = s - At
  BY <1>0, <1>1, <1>6
<1>8. s = At + d /\ d <= m
  BY <1>0, <1>1, <1>3, <1>5, <1>7
<1>9. LogicalOf(a, p, NumSectors) + d <= a
  BY <1>5, <1>8
<1>10. PICK r \in 0..(NumSectors - 1) :
         /\ r = (p + d) % NumSectors
         /\ LogicalOf(a, r, NumSectors) = LogicalOf(a, p, NumSectors) + d
  BY <1>9, LogicalFurther
<1>11. LogicalOf(active, r, NumSectors) = s
  BY <1>3, <1>5, <1>8, <1>10
<1>12. Slots(r) = flash[s]
  BY <1>0, <1>11, SlotsAre
<1>13. d = 0 => j > loc.slot
  BY <1>0, <1>1, <1>8 DEF Behind
<1>14. PICK e : e = <<d, j>>
  OBVIOUS
<1>15. e[1] = d /\ e[2] = j
  BY <1>14
<1>16. e \in (0..((active - From) % NumSectors)) \X (1..SlotsPerSector)
  <2>1. d \in 0..m /\ j \in 1..SlotsPerSector
    BY <1>0, <1>4, <1>8
  <2>2. m = (active - From) % NumSectors
    BY <1>2, <1>3, <1>4
  <2>3. d \in 0..((active - From) % NumSectors)
    BY <2>1, <2>2
  <2> QED BY <1>14, <2>1, <2>3
<1>17. Slots((From + e[1]) % NumSectors) = flash[s]
  BY <1>2, <1>10, <1>12, <1>15
<1>18. e \in Ahead
  BY <1>0, <1>13, <1>15, <1>16, <1>17 DEF Ahead
<1> QED BY <1>7, <1>14, <1>18

\* A step that leaves the flash alone.
LEMMA StillSame ==
  ASSUME UNCHANGED <<flash, oldest, active>>
  PROVE  SameFinished /\ Kept' = Kept
BY DEF SameFinished, Kept, Visible

\* The walk goes on to the next record: none is passed over.
LEMMA CountNext ==
  ASSUME LockIInv, WalkTypeOK, CountInv, WalkNext
  PROVE  CountInv'
<1>1. PICK e \in Ahead :
        /\ \A f \in Ahead : e[1] < f[1] \/ (e[1] = f[1] /\ e[2] <= f[2])
        /\ loc' = [sector |-> (From + e[1]) % NumSectors, slot |-> e[2],
                   unread |-> TRUE]
  BY DEF WalkNext
<1>2. /\ UNCHANGED <<flash, oldest, active, pass, ctx, n, printed>>
      /\ ~loc.unread /\ pass \in {"count", "print"}
  BY DEF WalkNext, vars, fcbVars
<1>3. /\ e[1] \in Nat /\ e[2] \in 1..SlotsPerSector
      /\ At' = At + e[1] /\ At + e[1] <= active
      /\ Slots((From + e[1]) % NumSectors)
              = IF At + e[1] >= oldest THEN flash[At + e[1]] ELSE <<>>
      /\ loc'.slot = e[2] /\ loc'.unread
  BY <1>1, <1>2, NextAt
<1>4. /\ FcbTypeOK /\ active \in Int /\ oldest \in Int /\ At \in Int
      /\ At >= oldest /\ loc.slot \in Nat
  <2>1. /\ FcbTypeOK /\ loc.sector \in {Null} \cup 0..(NumSectors - 1)
        /\ active \in Int /\ oldest \in Int /\ loc.slot \in Nat
    BY DEF LockIInv, TypeOK, FcbTypeOK, WalkTypeOK
  <2> QED BY <2>1, FromIs DEF CountInv
<1>5. PICK t \in oldest..active : t = At + e[1]
  BY <1>3, <1>4
<1>6. e[2] \in 1..Len(flash[t]) /\ flash[t][e[2]].fin /\ (e[1] = 0 => e[2] > loc.slot)
  <2>1. Slots((From + e[1]) % NumSectors) = flash[t]
    BY <1>3, <1>5
  <2>2. /\ e[2] <= Len(flash[t]) /\ flash[t][e[2]].fin
        /\ (e[1] = 0 => e[2] > loc.slot)
    BY <2>1 DEF Ahead
  <2>3. Len(flash[t]) \in Nat
    BY <1>4 DEF FcbTypeOK
  <2> QED BY <1>3, <2>2, <2>3
<1>7. ASSUME NEW s \in oldest..active, NEW j \in 1..Len(flash[s]), flash[s][j].fin
      PROVE  Behind(s, j)' <=> Behind(s, j)
  <2>1. s \in Int
    BY <1>4
  <2>2. ASSUME Behind(s, j) PROVE Behind(s, j)'
    BY <1>3, <1>4, <1>6, <2>1, <2>2 DEF Behind
  <2>3. ASSUME ~Behind(s, j) PROVE ~Behind(s, j)'
    <3>1. PICK f \in Ahead : f = <<s - At, j>>
      BY <1>2, <1>7, <2>3, AheadHas
    <3>2. f[1] = s - At /\ f[2] = j
      BY <3>1
    <3>3. e[1] < s - At \/ (e[1] = s - At /\ e[2] <= j)
      BY <1>1, <3>1, <3>2
    <3> QED BY <1>3, <1>4, <2>1, <3>3 DEF Behind
  <2> QED BY <2>2, <2>3
<1>8. Kept' = Kept /\ Passed' = Passed
  BY <1>2, <1>7, StillSame, SamePassed
<1>9. Skip' = Skip /\ Printed' = Printed /\ \A k : Rank(k)' = Rank(k)
  BY <1>2, <1>8 DEF Skip, Printed, Rank
<1>10. /\ At' >= oldest' /\ At' \in oldest'..active'
       /\ loc'.slot \in 1..Len(flash'[At']) /\ flash'[At'][loc'.slot].fin
  BY <1>2, <1>3, <1>4, <1>5, <1>6
<1> QED BY <1>2, <1>8, <1>9, <1>10 DEF CountInv

\* Before the record it is at the walk has read all the older ones.
LEMMA PassedBelow ==
  ASSUME LockIInv, OrderIInv, CountInv, loc.unread, WalkTypeOK
  PROVE  /\ flash[At][loc.slot].n \in Kept
         /\ Passed = {j \in Kept : j < flash[At][loc.slot].n}
<1>0. /\ FcbTypeOK /\ InOrder /\ active \in Int /\ oldest \in Int
      /\ At \in oldest..active /\ loc.slot \in 1..Len(flash[At])
      /\ flash[At][loc.slot].fin
  BY DEF LockIInv, TypeOK, FcbTypeOK, OrderIInv, FifoOrder, CountInv
<1>1. PICK k \in 1..MaxEvents : k = flash[At][loc.slot].n
  BY <1>0, EntryAt
<1>2. ASSUME NEW j \in Kept
      PROVE  j \in Passed <=> j < k
  <2>1. PICK s \in oldest..active : \E i \in 1..Len(flash[s]) :
          flash[s][i].fin /\ flash[s][i].n = j
    BY <1>0, KeptIs
  <2>2. PICK i \in 1..Len(flash[s]) : flash[s][i].fin /\ flash[s][i].n = j
    BY <2>1
  <2>3. j \in Passed <=> Behind(s, i)
    BY <1>0, <2>2, PassedIs
  <2>4. s \in Int /\ j \in 1..MaxEvents
    BY <1>0, <2>2, EntryAt
  <2>5. CASE Behind(s, i)
    <3>1. s < At \/ (s = At /\ i < loc.slot)
      BY <2>5 DEF Behind
    <3>2. j < k
      BY <1>0, <1>1, <2>2, <3>1 DEF InOrder
    <3> QED BY <2>3, <2>5, <3>2
  <2>6. CASE ~Behind(s, i)
    <3>1. At < s \/ (s = At /\ loc.slot < i) \/ (s = At /\ loc.slot = i)
      BY <1>0, <2>4, <2>6 DEF Behind
    <3>2. k < j \/ k = j
      BY <1>0, <1>1, <2>2, <3>1 DEF InOrder
    <3> QED BY <1>1, <2>3, <2>4, <2>6, <3>2
  <2> QED BY <2>5, <2>6
<1>3. Passed \subseteq Kept
  BY DEF Passed
<1>4. flash[At][loc.slot].n \in Kept
  BY <1>0, KeptIs
<1> QED BY <1>1, <1>2, <1>3, <1>4

\* It is read well, counted, and printed if it is one of the newest.
LEMMA CountRecord ==
  ASSUME LockIInv, OrderIInv, WalkTypeOK, CountInv, AllGood,
         DumpRecord \/ DumpCorrupt
  PROVE  CountInv'
<1>0. /\ loc.unread /\ Read /\ pass \in {"count", "print"}
      /\ UNCHANGED <<flash, oldest, active, pass, n>>
      /\ FcbTypeOK /\ InOrder /\ active \in Int /\ oldest \in Int
      /\ At \in oldest..active /\ At >= oldest
      /\ loc.slot \in 1..Len(flash[At]) /\ loc.slot \in Nat
      /\ flash[At][loc.slot].fin
      /\ loc.sector \in 0..(NumSectors - 1)
  BY DEF DumpRecord, DumpCorrupt, vars, fcbVars, WalkTypeOK, DumpTypeOK,
     LockIInv, TypeOK, FcbTypeOK, OrderIInv, FifoOrder, CountInv
<1>1. Slots(loc.sector) = flash[At]
  <2>1. At = LogicalOf(active, loc.sector, NumSectors)
    BY <1>0 DEF At, From, Null
  <2>2. Slots(loc.sector) = IF At >= oldest THEN flash[At] ELSE <<>>
    BY <1>0, <2>1, SlotsAre
  <2> QED BY <1>0, <2>2
<1>2. Readable /\ DumpRecord
  <2>1. flash[At][loc.slot].data = "good"
    BY <1>0 DEF AllGood
  <2>2. loc.slot <= Len(flash[At])
    <3>1. Len(flash[At]) \in Nat
      BY <1>0 DEF FcbTypeOK
    <3> QED BY <1>0, <3>1
  <2> QED BY <1>1, <2>1, <2>2 DEF Readable, DumpCorrupt
<1>3. PICK k \in 1..MaxEvents : k = flash[At][loc.slot].n
  BY <1>0, EntryAt
<1>4. k \in Kept /\ Passed = {j \in Kept : j < k}
  BY <1>0, <1>3, PassedBelow
<1>5. k \notin Passed /\ Cardinality(Passed) = Rank(k) /\ Rank(k) \in Nat
  BY <1>4, KeptFinite DEF Rank
<1>6. loc'.sector = loc.sector /\ loc'.slot = loc.slot /\ ~loc'.unread
  BY <1>0 DEF Read, WalkTypeOK
<1>7. At' = At
  BY <1>0, <1>6 DEF At, From, Physical
<1>8. Kept' = Kept
  BY <1>0, StillSame
<1>9. ASSUME NEW s \in oldest..active, NEW i \in 1..Len(flash[s]), flash[s][i].fin
      PROVE  Behind(s, i)' <=> Behind(s, i) \/ flash[s][i].n = k
  <2>1. Behind(s, i)' <=> Behind(s, i) \/ (s = At /\ i = loc.slot)
    BY <1>0, <1>6, <1>7 DEF Behind
  <2>2. flash[s][i].n = k <=> s = At /\ i = loc.slot
    BY <1>0, <1>3, OneSlot
  <2> QED BY <2>1, <2>2
<1>10. Passed' = Passed \cup {k}
  <2>1. ASSUME NEW j \in Kept
        PROVE  j \in Passed' <=> j \in Passed \/ j = k
    <3>1. j \in Passed' <=>
            \E s \in oldest..active : \E i \in 1..Len(flash[s]) :
              flash[s][i].fin /\ flash[s][i].n = j /\ Behind(s, i)'
      BY <1>0, <1>8 DEF Passed
    <3>2. j \in Passed <=>
            \E s \in oldest..active : \E i \in 1..Len(flash[s]) :
              flash[s][i].fin /\ flash[s][i].n = j /\ Behind(s, i)
      BY DEF Passed
    <3>3. \E s \in oldest..active : \E i \in 1..Len(flash[s]) :
              flash[s][i].fin /\ flash[s][i].n = j
      BY <1>0, KeptIs
    <3> QED BY <1>9, <3>1, <3>2, <3>3
  <2>2. Passed \subseteq Kept /\ Passed' \subseteq Kept
    BY <1>8 DEF Passed
  <2> QED BY <1>4, <2>1, <2>2
<1>11. Cardinality(Passed') = Cardinality(Passed) + 1
  <2>1. IsFiniteSet(Passed)
    BY KeptFinite
  <2> QED BY <1>5, <1>10, <2>1, FS_AddElement
<1>12. /\ ctx'.corrupt = ctx.corrupt /\ ctx'.idx = ctx.idx + 1
       /\ ctx'.skip = ctx.skip
  BY <1>2 DEF DumpRecord, WalkTypeOK
<1>13. ctx.corrupt = 0 /\ ctx.idx = Rank(k)
  BY <1>0, <1>5 DEF CountInv
<1>14. Skip' = Skip /\ \A j : Rank(j)' = Rank(j)
  BY <1>0, <1>8 DEF Skip, Rank
<1>15. ASSUME pass = "print"
       PROVE  Printed' = {j \in Passed' : Rank(j)' >= Skip'}
  <2>1. ctx.skip = Skip /\ Printed = {j \in Passed : Rank(j) >= Skip}
    BY <1>15 DEF CountInv
  <2>2. Prints <=> Rank(k) >= Skip
    BY <1>13, <1>15, <2>1 DEF Prints
  <2>3. CASE Rank(k) >= Skip
    <3>1. printed' = Append(printed, [idx |-> ctx.idx, ev |-> k])
      BY <1>1, <1>2, <1>3, <2>2, <2>3 DEF DumpRecord
    <3>2. Printed' = Printed \cup {k}
      <4>1. PICK l : l = [idx |-> ctx.idx, ev |-> k]
        OBVIOUS
      <4>2. l.ev = k
        BY <4>1
      <4>3. /\ Len(printed') = Len(printed) + 1 /\ Len(printed) \in Nat
            /\ \A i \in 1..Len(printed) : printed'[i] = printed[i]
            /\ printed'[Len(printed) + 1] = l
        <5>1. printed \in Seq(Line)
          BY DEF WalkTypeOK
        <5> HIDE DEF Line
        <5> QED BY <3>1, <4>1, <5>1
      <4>4. \A i : i \in 1..Len(printed') <=>
                     i \in 1..Len(printed) \/ i = Len(printed) + 1
        BY <4>3
      <4> QED BY <4>2, <4>3, <4>4 DEF Printed
    <3> QED BY <1>10, <1>14, <2>1, <2>3, <3>2
  <2>4. CASE ~(Rank(k) >= Skip)
    <3>1. printed' = printed
      BY <1>2, <2>2, <2>4 DEF DumpRecord
    <3>2. Printed' = Printed
      BY <3>1 DEF Printed
    <3> QED BY <1>10, <1>14, <2>1, <2>4, <3>2
  <2> QED BY <2>3, <2>4
<1>16. pass = "print" => ctx'.skip = Skip'
  BY <1>12, <1>14 DEF CountInv
<1>17. ctx'.corrupt = 0 /\ ctx'.idx = Cardinality(Passed')
  BY <1>5, <1>11, <1>12, <1>13
<1>18. pass' = pass /\ At' >= oldest' /\ pass # "done"
  BY <1>0, <1>7
<1> QED BY <1>6, <1>15, <1>16, <1>17, <1>18 DEF CountInv

\* At the end of a walk all has been read.
LEMMA AllPassed ==
  ASSUME LockIInv, WalkTypeOK, CountInv, WalkEnds
  PROVE  Passed = Kept
<1>0. FcbTypeOK
  BY DEF LockIInv, TypeOK
<1>1. ASSUME NEW k \in Kept PROVE k \in Passed
  <2>1. PICK s \in oldest..active : \E j \in 1..Len(flash[s]) :
          flash[s][j].fin /\ flash[s][j].n = k
    BY <1>0, KeptIs
  <2>2. PICK j \in 1..Len(flash[s]) : flash[s][j].fin /\ flash[s][j].n = k
    BY <2>1
  <2>3. Behind(s, j)
    BY <2>2, AheadHas DEF WalkEnds
  <2> QED BY <2>2, <2>3 DEF Passed
<1> QED BY <1>1 DEF Passed

\* What stays while the journal does.
LEMMA SameNumbers ==
  ASSUME UNCHANGED <<flash, oldest, active, n>>
  PROVE  /\ Kept' = Kept /\ Skip' = Skip /\ Newest(Kept)' = Newest(Kept)
         /\ \A k : Rank(k)' = Rank(k)
<1>1. Kept' = Kept
  BY StillSame
<1> QED BY <1>1 DEF Skip, Newest, Rank

\* The first walk, the second and their end.
LEMMA CountTurns ==
  ASSUME LockIInv, WalkTypeOK, CountInv, DumpEmpty \/ SecondPass \/ DumpDone
  PROVE  CountInv'
<1>0. /\ UNCHANGED <<flash, oldest, active, n, printed>>
      /\ FcbTypeOK /\ n \in Nat /\ ~loc.unread /\ Passed = Kept
      /\ ctx.corrupt = 0 /\ ctx.idx = Cardinality(Kept)
      /\ ctx.idx = ctx.total + ctx.corrupt /\ ctx.total \in Nat
  <2>1. /\ UNCHANGED <<flash, oldest, active, n, printed>>
        /\ pass \in {"count", "print"} /\ WalkEnds
    BY DEF DumpEmpty, SecondPass, DumpDone, vars, fcbVars
  <2>2. Passed = Kept
    BY <2>1, AllPassed
  <2> QED BY <2>1, <2>2 DEF WalkEnds, LockIInv, TypeOK, WalkTypeOK,
          DumpTypeOK, CountInv
<1>1. Kept' = Kept /\ Skip' = Skip /\ Newest(Kept)' = Newest(Kept)
  BY <1>0, SameNumbers
<1>2. Printed' = Printed
  BY <1>0 DEF Printed
<1>3. CASE DumpEmpty
  <2>1. /\ pass = "count" /\ pass' = "done" /\ ctx.total = 0 /\ loc' = loc
    BY <1>3 DEF DumpEmpty
  <2>2. Cardinality(Kept) = 0
    BY <1>0, <2>1
  <2>3. Kept = {}
    BY <2>2, KeptFinite, FS_EmptySet
  <2>4. Printed = {} /\ Newest(Kept) = {}
    <3>1. printed = <<>>
      BY <2>1 DEF WalkTypeOK
    <3>2. Len(printed) = 0
      BY <3>1
    <3> QED BY <2>3, <3>2 DEF Printed, Newest
  <2>5. At' = At
    BY <1>0, <2>1 DEF At, From, Physical
  <2> QED BY <1>0, <1>1, <1>2, <2>1, <2>4, <2>5 DEF CountInv
<1>4. CASE SecondPass
  <2>1. /\ pass = "count" /\ pass' = "print" /\ loc' = NoLoc
        /\ ctx' = [NoCtx EXCEPT !.skip = IF ctx.total > n THEN ctx.total - n ELSE 0]
    BY <1>4 DEF SecondPass
  <2>2. ctx.total = Cardinality(Kept)
    BY <1>0
  <2>3. ctx'.skip = Skip /\ ctx'.corrupt = 0 /\ ctx'.idx = 0
    BY <2>1, <2>2 DEF NoCtx, Skip
  <2>4. /\ At' >= oldest' /\ ~loc'.unread
        /\ Passed' = {} /\ Cardinality(Passed') = 0
    BY <1>0, <2>1, NothingPassed
  <2>5. Printed = {}
    <3>1. printed = <<>>
      BY <2>1 DEF WalkTypeOK
    <3>2. Len(printed) = 0
      BY <3>1
    <3> QED BY <3>2 DEF Printed
  <2>6. Printed' = {k \in Passed' : Rank(k)' >= Skip'}
    BY <1>2, <2>4, <2>5
  <2> QED BY <1>1, <2>1, <2>3, <2>4, <2>6 DEF CountInv
<1>5. CASE DumpDone
  <2>1. pass = "print" /\ pass' = "done" /\ loc' = loc
    BY <1>5 DEF DumpDone
  <2>2. Printed = {k \in Kept : Rank(k) >= Skip}
    BY <1>0, <2>1 DEF CountInv
  <2>3. Printed = Newest(Kept)
    BY <1>0, <2>2, NewestIs
  <2>4. At' = At
    BY <1>0, <2>1 DEF At, From, Physical
  <2> QED BY <1>0, <1>1, <1>2, <2>1, <2>3, <2>4 DEF CountInv
<1> QED BY <1>3, <1>4, <1>5

\* A dump begins.
LEMMA CountStart ==
  ASSUME FcbTypeOK, WalkTypeOK, NEW k \in Ns, DumpStart(k)
  PROVE  BeforeInv' /\ CountInv'
<1>1. /\ pass' = "count" /\ loc' = NoLoc /\ ctx' = NoCtx
      /\ UNCHANGED <<flash, oldest, active>> /\ before' = <<oldest, Kept>>
  BY DEF DumpStart, vars, fcbVars
<1>2. Kept' = Kept /\ oldest \in Int
  BY <1>1, StillSame DEF FcbTypeOK
<1>3. PICK K : K = Kept
  OBVIOUS
<1>4. BeforeInv'
  <2>1. before'[1] = oldest /\ before'[2] = K /\ before' = <<oldest, K>>
    BY <1>1, <1>3
  <2> QED BY <1>1, <1>2, <1>3, <2>1 DEF BeforeInv
<1>5. /\ At' >= oldest' /\ ~loc'.unread /\ Cardinality(Passed') = 0
  BY <1>1, NothingPassed
<1>6. ctx'.corrupt = 0 /\ ctx'.idx = 0
  BY <1>1 DEF NoCtx
<1> QED BY <1>1, <1>4, <1>5, <1>6 DEF CountInv

QuietInv == BeforeInv /\ (Quiet => CountInv)

\* All steps together.
LEMMA QuietStep ==
  ASSUME LockIInv, OrderIInv, LockIInv', WalkTypeOK, QuietInv,
         [DumpNext]_allVars
  PROVE  QuietInv'
<1>0. FcbTypeOK /\ BeforeInv /\ (Quiet => CountInv)
  BY DEF LockIInv, TypeOK, QuietInv
<1>1. CASE pass' = "none"
  BY <1>1 DEF QuietInv, BeforeInv, Quiet
<1>2. ASSUME NEW k \in Ns, DumpStart(k) PROVE QuietInv'
  BY <1>0, <1>2, CountStart DEF QuietInv
<1>3. CASE JournalStep /\ pass' # "none"
  <2>1. crashes' = crashes
    BY <1>3 DEF JournalStep, NoDump
  <2>2. Next /\ UNCHANGED dumpVars /\ pass # "none"
    BY <1>3, <2>1 DEF JournalStep, dumpVars
  <2>3. /\ BeforeInv'
        /\ Quiet' => Quiet /\ SameFinished /\ Kept' = Kept
    BY <1>0, <2>2, BesideSame
  <2>4. ASSUME Quiet' PROVE CountInv'
    BY <1>0, <2>2, <2>3, <2>4, CountBeside
  <2> QED BY <2>3, <2>4 DEF QuietInv
<1>4. CASE /\ UNCHANGED <<flash, oldest, active, before>> /\ pass # "none"
           /\ misread' = misread
           /\ AllGood /\ Quiet => CountInv'
  <2>1. Kept' = Kept
    BY <1>4, StillSame
  <2>2. BeforeInv'
    BY <1>0, <1>4, <2>1 DEF BeforeInv
  <2>3. Quiet' => Quiet /\ AllGood
    BY <1>4, <2>1 DEF Quiet, AllGood
  <2> QED BY <1>4, <2>2, <2>3 DEF QuietInv
<1>5. CASE DumpReadError
  <2>1. /\ UNCHANGED <<flash, oldest, active, before, pass>> /\ misread'
    BY <1>5 DEF DumpReadError, fcbVars
  <2>2. Kept' = Kept
    BY <2>1, StillSame
  <2> QED BY <1>0, <2>1, <2>2 DEF QuietInv, BeforeInv, Quiet
<1>6. CASE WalkNext \/ DumpRecord \/ DumpCorrupt
  <2>1. /\ UNCHANGED <<flash, oldest, active, before>> /\ misread' = misread
        /\ pass # "none"
    BY <1>6 DEF WalkNext, DumpRecord, DumpCorrupt, vars, fcbVars, WalkTypeOK,
       DumpTypeOK
  <2>2. AllGood /\ Quiet => CountInv'
    BY <1>0, <1>6, CountNext, CountRecord
  <2> QED BY <1>4, <2>1, <2>2
<1>7. CASE DumpEmpty \/ SecondPass \/ DumpDone
  <2>1. /\ UNCHANGED <<flash, oldest, active, before>> /\ misread' = misread
        /\ pass # "none"
    BY <1>7 DEF DumpEmpty, SecondPass, DumpDone, vars, fcbVars
  <2>2. AllGood /\ Quiet => CountInv'
    BY <1>0, <1>7, CountTurns
  <2> QED BY <1>4, <2>1, <2>2
<1>8. CASE DumpReturn
  BY <1>1, <1>8 DEF DumpReturn, NoDump
<1>9. CASE UNCHANGED allVars /\ pass # "none"
  <2>1. UNCHANGED <<flash, oldest, active, before, loc, ctx, n, printed, pass,
                    misread>>
    BY <1>9 DEF allVars, vars, dumpVars, fcbVars
  <2>2. /\ Kept' = Kept /\ Skip' = Skip /\ Newest(Kept)' = Newest(Kept)
        /\ \A k : Rank(k)' = Rank(k)
    BY <2>1, SameNumbers
  <2>3. At' = At
    BY <2>1 DEF At, From, Physical
  <2>4. Passed' = Passed
    BY <2>1, <2>2, <2>3 DEF Passed, Behind
  <2>5. Printed' = Printed
    BY <2>1 DEF Printed
  <2>6. CountInv => CountInv'
    BY <2>1, <2>2, <2>3, <2>4, <2>5 DEF CountInv
  <2> QED BY <1>0, <1>4, <1>9, <2>1, <2>6
<1>10. UNCHANGED allVars => UNCHANGED pass
  BY DEF allVars, dumpVars
<1> QED BY <1>1, <1>2, <1>3, <1>5, <1>6, <1>7, <1>8, <1>9, <1>10
        DEF DumpNext, DumpWalk

(***************************************************************************)
(* If the journal stays as it is and holds no corrupt record, "journal     *)
(* dump N" prints its newest N records and no other.                       *)
(***************************************************************************)
THEOREM DumpIsRightSafe == DumpSpec => []DumpIsRight
<1>1. DumpInit => QuietInv
  BY DEF DumpInit, QuietInv, BeforeInv, Quiet
<1>2. LockIInv /\ WalkTypeOK /\ [DumpNext]_allVars => WalkTypeOK'
  BY WalkTyped
<1>3. LockIInv /\ OrderIInv /\ LockIInv' /\ WalkTypeOK /\ QuietInv
        /\ [DumpNext]_allVars => QuietInv'
  BY QuietStep
<1>4. LockIInv /\ OrderIInv /\ QuietInv => DumpIsRight
  <2> SUFFICES ASSUME LockIInv, OrderIInv, QuietInv, QuietDump,
                      \A k \in Kept : Good(k)
               PROVE  Printed = Newest(Kept)
    BY DEF DumpIsRight
  <2>1. AllGood
    BY GoodIs DEF LockIInv, TypeOK, OrderIInv, FifoOrder
  <2>2. Quiet
    BY <2>1 DEF Quiet, QuietDump
  <2> QED BY <2>2 DEF QuietInv, CountInv, QuietDump
<1> QED BY WalkInitTyped, <1>1, <1>2, <1>3, <1>4, DumpJournal, PTL DEF DumpSpec

(***************************************************************************)
(* Beside any number of dumps the flash is the abstract journal of         *)
(* BoundedJournal: a dump changes nothing that is recorded.                *)
(***************************************************************************)
THEOREM DumpLeavesJournal == DumpSpec => ImplementsJournal
<1>1. DumpInit => Abstract!Init
  <2>1. DumpInit => Init
    BY DEF DumpInit
  <2> QED BY <2>1, ImplementsInit
<1>2. LockIInv /\ OrderIInv /\ [DumpNext]_allVars => [Abstract!Next]_(<<Kept, erased>>)
  <2> SUFFICES ASSUME LockIInv, OrderIInv, [DumpNext]_allVars
               PROVE  [Abstract!Next]_(<<Kept, erased>>)
    OBVIOUS
  <2>1. CASE [Next]_vars
    BY <2>1, ImplementsStep
  <2>2. CASE DumpReadError
    BY <2>2 DEF DumpReadError, fcbVars, Kept, Visible
  <2>3. [Next]_vars \/ DumpReadError
    BY DEF DumpNext, JournalStep, DumpStart, DumpWalk, WalkNext, DumpRecord,
       DumpCorrupt, DumpEmpty, SecondPass, DumpDone, DumpReturn, allVars
  <2> QED BY <2>1, <2>2, <2>3
<1> QED BY <1>1, <1>2, DumpJournal, PTL DEF DumpSpec, ImplementsJournal,
           Abstract!Spec, Abstract!journalVars

=============================================================================

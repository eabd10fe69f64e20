------------------------------ MODULE JournalDump ------------------------------
(***************************************************************************)
(* The journal over BLE: write_journal(), journal_work_handler() and the   *)
(* live tail of gatt_badge.c, event_log_read_chunk() and event_log_clear() *)
(* of event_log.c, and a client that follows the protocol of gatt_badge.c, *)
(* lines 378-389.                                                          *)
(*                                                                         *)
(* The journal itself is BoundedJournal, which EventLog implements: it is  *)
(* changed by Record and Forget only.  flush_work, jr_work,                *)
(* adv_restart_work and debounce_work run one after another on the system  *)
(* workqueue, in the order of their submission; the GATT write and the     *)
(* connection callbacks run on BT RX while a handler waits for the flash   *)
(* or for journal_lock; the shell clears on a thread of its own.  What is  *)
(* done under journal_lock is one step, except that a flush rotates and    *)
(* then appends ("append" is a step that holds the lock).  A record that   *)
(* is written with a wrong CRC is never found by a walk and is not in      *)
(* kept; one that cannot be read is, and is skipped by that walk only.     *)
(*                                                                         *)
(* bt_ready_flag is set (BleLink has the case that it is not), and the     *)
(* client subscribes to BAD6E004 as it connects.                           *)
(***************************************************************************)
EXTENDS FiniteSetsExt, SequencesExt, Integers

CONSTANTS
  NumSectors,         \* sectors of the journal partition (32)
  SlotsPerSector,     \* records that fit in a sector (about 255)
  MtuCount,           \* records in a chunk after the MTU exchange (23)
  QueueDepth,         \* capacity of evt_q (16)
  Recovered,          \* how many records event_log_init() may have found
  MaxRecords,         \* bound: those, and the events put in evt_q
  MaxConns,           \* bound: connections
  MaxClears,          \* bound: clears, from the shell and over BLE
  MaxPresses,         \* bound: presses of the button
  MaxFaults           \* bound: flash operations and notifications that fail

ASSUME JournalDumpAssumption ==
  /\ NumSectors \in Nat \ {0}
  /\ SlotsPerSector \in Nat \ {0}
  /\ MtuCount \in Nat \ {0}
  /\ QueueDepth \in Nat \ {0}
  /\ Recovered \subseteq 0..(NumSectors * SlotsPerSector)
  /\ {MaxRecords, MaxConns, MaxClears, MaxPresses, MaxFaults} \subseteq Nat

VARIABLES
  kept, forgotten,    \* the journal, see BoundedJournal
  slots,              \* events that used up a slot of the ring: kept, or failed
  accepted, taken,    \* events put in evt_q, and got from it
  workq,              \* works submitted to the system workqueue
  pc,                 \* the step of the running handler
  adv, adv_timer,     \* the radio advertises; adv_restart_work is scheduled
  link, conn,         \* there is a connection; its number
  att_mtu_val,        \* ATT MTU, as the number of records that fit a chunk
  jr_req,             \* the last request
  req,                \* the request journal_work_handler() works on
  jr_tx,              \* the answer it has built
  phase,              \* client: idle, dump, done, clear, cleared
  awaiting,           \* client: a request is out
  copy, last_total,   \* client: the dump so far, and its last total
  live,               \* client: records the live tail has brought
  base,               \* the counts when the last chunk taken was read
  disturbed,          \* indices moved, and the number of records did not fall
  missed,             \* a notification of the live tail was not sent
  misread,            \* a chunk of this dump was taken without all records of
                      \* the journal having been read
  woken,              \* a press has started advertising, and adv_restart_work
                      \* not since, with no restart and no request left
  mark,               \* events recorded before the clear the client asked for
  clears, presses, faults

journal   == <<kept, forgotten, slots>>
queueVars == <<accepted, taken>>
linkVars  == <<adv, adv_timer, link, conn, att_mtu_val, woken>>
jrVars    == <<jr_req, req, jr_tx>>
client    == <<phase, awaiting, copy, last_total, live, mark>>
ghosts    == <<base, disturbed, missed, misread>>
bounds    == <<clears, presses, faults>>
vars == <<journal, queueVars, workq, pc, linkVars, jrVars, client, ghosts,
          bounds>>

Journal == INSTANCE BoundedJournal WITH Ids <- 1..MaxRecords

-----------------------------------------------------------------------------
Request(op, arg) == [op |-> op, arg |-> arg, count |-> att_mtu_val, conn |-> conn]
NoRequest == [op |-> "none", arg |-> 0, count |-> 0, conn |-> 0]

\* How many records the journal holds, and how many it has forgotten.
Counts == [held |-> Cardinality(kept), gone |-> Cardinality(forgotten)]
NoCounts == [held |-> 0, gone |-> 0]

\* A chunk; whether all records could be read and the counts are not sent.
Chunk(recs, more, total, whole) ==
  [recs |-> recs, more |-> more, total |-> total, whole |-> whole,
   counts |-> Counts]
EmptyChunk == Chunk(<<>>, FALSE, 0, FALSE)
NoChunk == [EmptyChunk EXCEPT !.counts = NoCounts]

Init ==
  /\ taken \in Recovered
  /\ accepted = taken
  /\ kept = 1..taken /\ slots = kept
  /\ forgotten = {}
  /\ workq = <<>>
  /\ pc = "idle"
  /\ adv = TRUE /\ adv_timer = FALSE
  /\ link = FALSE /\ conn = 0
  /\ att_mtu_val = 1
  /\ jr_req = NoRequest /\ req = NoRequest /\ jr_tx = NoChunk
  /\ phase = "idle" /\ awaiting = FALSE
  /\ copy = <<>> /\ last_total = 0 /\ live = {}
  /\ base = NoCounts
  /\ disturbed = FALSE /\ missed = FALSE /\ misread = FALSE /\ woken = FALSE
  /\ mark = 0
  /\ clears = 0 /\ presses = 0 /\ faults = 0

Goto(from, to) ==
  /\ pc = from
  /\ pc' = to

Fault ==
  /\ faults < MaxFaults
  /\ faults' = faults + 1
  /\ UNCHANGED <<clears, presses>>

\* k_work_submit(): a work that is in the queue is not queued again.
Submitted(work) == IF Contains(workq, work) THEN workq ELSE Append(workq, work)

\* The workqueue takes its first work.
Run(work, step) ==
  /\ Goto("idle", step)
  /\ workq # <<>>
  /\ Head(workq) = work
  /\ workq' = Tail(workq)

-----------------------------------------------------------------------------
(* event_log_write(), journal_flush_handler() and journal_live_cb().       *)

\* From any thread; a full queue refuses the event, and so does the bound.
LogEvent(submitted) ==
  \/ /\ accepted < MaxRecords
     /\ accepted - taken < QueueDepth
     /\ accepted' = accepted + 1
     /\ workq' = IF Contains(submitted, "flush") THEN submitted
                 ELSE Append(submitted, "flush")
  \/ /\ accepted - taken = QueueDepth \/ accepted = MaxRecords
     /\ accepted' = accepted
     /\ workq' = submitted

EventLogWrite ==
  /\ LogEvent(workq)
  /\ UNCHANGED <<journal, taken, pc, linkVars, jrVars, client, ghosts, bounds>>

FlushStart ==
  /\ Run("flush", "flush")
  /\ UNCHANGED <<journal, queueVars, linkVars, jrVars, client, ghosts, bounds>>

FlushGet ==
  /\ Goto("flush", "append")
  /\ taken < accepted
  /\ taken' = taken + 1
  /\ UNCHANGED <<journal, accepted, workq, linkVars, jrVars, client, ghosts,
                 bounds>>

FlushDone ==
  /\ Goto("flush", "idle")
  /\ taken = accepted
  /\ UNCHANGED <<journal, queueVars, workq, linkVars, jrVars, client, ghosts,
                 bounds>>

RingFull == Cardinality(slots) = NumSectors * SlotsPerSector

\* The slots of the n oldest sectors.
OldestSectors(n) ==
  {k \in slots : Cardinality({j \in slots : j <= k}) <= n * SlotsPerSector}

Erase(S) ==
  /\ Journal!Forget(kept \cap S)
  /\ slots' = slots \ S

FcbRotate ==
  /\ pc = "append"
  /\ RingFull
  /\ Erase(OldestSectors(1))
  /\ UNCHANGED <<queueVars, workq, pc, linkVars, jrVars, client, ghosts, bounds>>

FcbAppend ==
  /\ Goto("append", "live")
  /\ ~RingFull
  /\ Journal!Record(taken)
  /\ slots' = slots \cup {taken}
  /\ UNCHANGED <<queueVars, workq, linkVars, jrVars, client, ghosts, bounds>>

\* The slot may have been used up, but holds no record.
AppendError ==
  /\ Goto("append", "flush")
  /\ Fault
  /\ slots' \in {slots} \cup (IF RingFull THEN {} ELSE {slots \cup {taken}})
  /\ UNCHANGED <<kept, forgotten, queueVars, workq, linkVars, jrVars, client,
                 ghosts>>

\* bt_gatt_notify() to the connection there is.
JournalLiveCb ==
  /\ Goto("live", "flush")
  /\ live' = IF link THEN live \cup {taken} ELSE live
  /\ UNCHANGED <<journal, queueVars, workq, linkVars, jrVars, phase, awaiting,
                 copy, last_total, mark, ghosts, bounds>>

\* No buffer: the error is logged.
JournalLiveCbError ==
  /\ Goto("live", "flush")
  /\ link
  /\ Fault
  /\ missed' = TRUE
  /\ UNCHANGED <<journal, queueVars, workq, linkVars, jrVars, client, base,
                 disturbed, misread>>

-----------------------------------------------------------------------------
(* journal_work_handler(), event_log_read_chunk(), event_log_clear().      *)

JrPcs == {"read", "chunk", "clear", "cleared"}

\* jr_req is read before the handler first waits.
JrStart ==
  /\ Run("jr", IF jr_req.op = "clear" THEN "clear" ELSE "read")
  /\ req' = jr_req
  /\ UNCHANGED <<journal, queueVars, linkVars, jr_req, jr_tx, client, ghosts,
                 bounds>>

\* R are the records of the journal that could be read.  The index of one is
\* the number of older ones.
Index(R, k) == Cardinality({j \in R : j < k})

RecordAt(R, i) == CHOOSE k \in R : Index(R, k) = i

\* The records with the indices from a to b.
Slice(R, a, b) ==
  [i \in 1..Cardinality({k \in R : Index(R, k) \in a..b}) |->
     RecordAt(R, a + i - 1)]

\* Mutants: the last record is not said to be there; one record too many; the
\* walk ends where the chunk is full; more although there is nothing more.
Mutant_EndEarly(R) ==
  LET recs == Slice(R, req.arg, req.arg + req.count - 1)
  IN Chunk(recs, req.arg + Len(recs) + 1 < Cardinality(R), Cardinality(R), R = kept)
Mutant_FillOneMore(R) ==
  LET recs == Slice(R, req.arg, req.arg + req.count)
  IN Chunk(recs, req.arg + Len(recs) < Cardinality(R), Cardinality(R), R = kept)
Mutant_EarlyTotal(R) ==
  LET recs == Slice(R, req.arg, req.arg + req.count - 1)
  IN Chunk(recs, req.arg + Len(recs) < Cardinality(R), req.arg + Len(recs), R = kept)
Mutant_MoreAtEnd(R) ==
  LET recs == Slice(R, req.arg, req.arg + req.count - 1)
  IN Chunk(recs, req.arg + Len(recs) <= Cardinality(R), Cardinality(R), R = kept)

\* The walk over all records, which takes those from req.arg on that fit.
ReadChunk(R) ==
  LET recs == Slice(R, req.arg, req.arg + req.count - 1)
  IN Chunk(recs, req.arg + Len(recs) < Cardinality(R), Cardinality(R), R = kept)

JrRead ==
  /\ Goto("read", "chunk")
  /\ jr_tx' = ReadChunk(kept)
  /\ UNCHANGED <<journal, queueVars, workq, linkVars, jr_req, req, client,
                 ghosts, bounds>>

\* flash_area_read() fails for some records: chunk_walk_cb() skips them, they
\* count for no index and not for the total, and rc = 0.
JrReadSkips ==
  /\ Goto("read", "chunk")
  /\ Fault
  /\ \E R \in SUBSET kept :
       /\ R # kept
       /\ jr_tx' = ReadChunk(R)
  /\ UNCHANGED <<journal, queueVars, workq, linkVars, jr_req, req, client,
                 ghosts>>

\* rc # 0, from fcb_walk() itself: an empty chunk of an empty journal is sent.
JrReadError ==
  /\ Goto("read", "chunk")
  /\ Fault
  /\ jr_tx' = EmptyChunk
  /\ UNCHANGED <<journal, queueVars, workq, linkVars, jr_req, req, client,
                 ghosts>>

JrClear ==
  /\ Goto("clear", "cleared")
  /\ Erase(slots)
  /\ UNCHANGED <<queueVars, workq, linkVars, jrVars, client, ghosts, bounds>>

\* Some sectors are erased, then one is not.
SomeErased ==
  \E n \in 0..NumSectors :
    /\ n * SlotsPerSector < Cardinality(slots)
    /\ Erase(OldestSectors(n))

JrClearError ==
  /\ Goto("clear", "cleared")
  /\ SomeErased
  /\ Fault
  /\ UNCHANGED <<queueVars, workq, linkVars, jrVars, client, ghosts>>

\* bt_gatt_notify() sends: there is a client, and the chunk fits.
Sendable == link /\ (pc = "cleared" \/ Len(jr_tx.recs) <= att_mtu_val)

\* The handler returns; what req and jr_tx hold is not used again.
JrDone(from) ==
  /\ Goto(from, "idle")
  /\ req' = NoRequest
  /\ jr_tx' = NoChunk

\* It does not send, or has no buffer; the error is at most logged.
JrNotSent ==
  /\ JrDone("chunk") \/ JrDone("cleared")
  /\ Sendable => Fault
  /\ ~Sendable => UNCHANGED bounds
  /\ UNCHANGED <<journal, queueVars, workq, linkVars, jr_req, client, ghosts>>

\* The client gets an answer it does not wait for.
JrIgnored ==
  /\ Sendable
  /\ \/ JrDone("chunk") /\ (phase # "dump" \/ ~awaiting)
     \/ JrDone("cleared") /\ phase # "clear"
  /\ UNCHANGED <<journal, queueVars, workq, linkVars, jr_req, client, ghosts,
                 bounds>>

\* A smaller total: the indices have moved, the client begins anew.
JrChunkMoved ==
  /\ JrDone("chunk")
  /\ Sendable
  /\ phase = "dump" /\ awaiting
  /\ jr_tx.total < last_total
  /\ awaiting' = FALSE
  /\ copy' = <<>>
  /\ last_total' = 0
  /\ disturbed' = FALSE /\ misread' = FALSE
  /\ UNCHANGED <<journal, queueVars, workq, linkVars, jr_req, phase, live, mark,
                 base, missed, bounds>>

JrChunk ==
  /\ JrDone("chunk")
  /\ Sendable
  /\ phase = "dump" /\ awaiting
  /\ jr_tx.total >= last_total
  /\ awaiting' = FALSE
  /\ copy' = copy \o jr_tx.recs
  /\ last_total' = jr_tx.total
  /\ phase' = IF jr_tx.more THEN "dump" ELSE "done"
  /\ base' = jr_tx.counts
  /\ disturbed' = (disturbed \/ /\ copy # <<>>
                                /\ base.gone # base'.gone
                                /\ base.held <= base'.held)
  /\ misread' = (misread \/ ~jr_tx.whole)
  /\ UNCHANGED <<journal, queueVars, workq, linkVars, jr_req, live, mark,
                 missed, bounds>>

JrCleared ==
  /\ JrDone("cleared")
  /\ Sendable
  /\ phase = "clear"
  /\ phase' = "cleared"
  /\ awaiting' = FALSE
  /\ UNCHANGED <<journal, queueVars, workq, linkVars, jr_req, copy, last_total,
                 live, mark, ghosts, bounds>>

\* "journal clear" on the shell: journal_lock is free.
ShellClear ==
  /\ pc # "append"
  /\ clears < MaxClears
  /\ clears' = clears + 1
  /\ \/ Erase(slots) /\ UNCHANGED faults
     \/ SomeErased /\ faults < MaxFaults /\ faults' = faults + 1
  /\ UNCHANGED <<queueVars, workq, pc, linkVars, jrVars, client, ghosts,
                 presses>>

-----------------------------------------------------------------------------
(* The client, one request at a time.                                      *)

\* write_journal(), on BT RX.
WriteJournal(op, arg) ==
  /\ link
  /\ jr_req' = Request(op, arg)
  /\ workq' = Submitted("jr")
  /\ awaiting' = TRUE
  /\ UNCHANGED <<journal, queueVars, pc, linkVars, req, jr_tx>>

AskDump ==
  /\ phase \in {"idle", "cleared"}
  /\ WriteJournal("dump", 0)
  /\ phase' = "dump"
  /\ copy' = <<>>
  /\ last_total' = 0
  /\ disturbed' = FALSE /\ missed' = FALSE /\ misread' = FALSE
  /\ UNCHANGED <<live, mark, base, bounds>>

AskNext ==
  /\ phase = "dump"
  /\ ~awaiting
  /\ WriteJournal("dump", Len(copy))
  /\ UNCHANGED <<phase, copy, last_total, live, mark, ghosts, bounds>>

AskClear ==
  /\ phase = "done"
  /\ clears < MaxClears
  /\ clears' = clears + 1
  /\ WriteJournal("clear", 0)
  /\ phase' = "clear"
  /\ mark' = Max(kept \cup {0})
  /\ UNCHANGED <<copy, last_total, live, ghosts, presses, faults>>

\* It waits long enough to know that no answer is on its way.
Retry ==
  /\ awaiting
  /\ ~Contains(workq, "jr")
  /\ pc \notin JrPcs
  /\ WriteJournal(jr_req.op, jr_req.arg)
  /\ UNCHANGED <<phase, copy, last_total, live, mark, ghosts, bounds>>

-----------------------------------------------------------------------------
(* The connection, see BleLink.                                            *)

\* connected(); journal_att_mtu_updated() is told of the MTU there is.
Connect ==
  /\ adv
  /\ conn < MaxConns
  /\ adv' = FALSE
  /\ link' = TRUE
  /\ conn' = conn + 1
  /\ att_mtu_val' = 1
  /\ LogEvent(workq)
  /\ UNCHANGED <<journal, taken, pc, adv_timer, woken, jrVars, client, ghosts,
                 bounds>>

JournalAttMtuUpdated ==
  /\ link
  /\ att_mtu_val' = MtuCount
  /\ UNCHANGED <<journal, queueVars, workq, pc, adv, adv_timer, link, conn,
                 woken, jrVars, client, ghosts, bounds>>

ClientLeaves ==
  /\ phase' = "idle"
  /\ awaiting' = FALSE
  /\ copy' = <<>>
  /\ last_total' = 0
  /\ live' = {}
  /\ mark' = 0

\* A mutant: disconnected() starts advertising itself.
Mutant_Disconnected ==
  /\ link
  /\ link' = FALSE
  /\ adv' = TRUE
  /\ LogEvent(workq)
  /\ ClientLeaves
  /\ UNCHANGED <<journal, taken, pc, adv_timer, conn, att_mtu_val, woken,
                 jrVars, ghosts, bounds>>

Disconnected ==
  /\ link
  /\ link' = FALSE
  /\ adv_timer' = TRUE
  /\ LogEvent(workq)
  /\ ClientLeaves
  /\ UNCHANGED <<journal, taken, pc, adv, conn, att_mtu_val, woken, jrVars,
                 ghosts, bounds>>

AdvTimeout ==
  /\ adv_timer
  /\ adv_timer' = FALSE
  /\ workq' = Submitted("adv")
  /\ UNCHANGED <<journal, queueVars, pc, adv, link, conn, att_mtu_val, woken,
                 jrVars, client, ghosts, bounds>>

\* Refused while it advertises.
AdvRestart ==
  /\ Run("adv", "idle")
  /\ adv' = ~link
  /\ woken' = (woken /\ (adv \/ link \/ adv_timer \/ Contains(workq, "jr")))
  /\ UNCHANGED <<journal, queueVars, adv_timer, link, conn, att_mtu_val, jrVars,
                 client, ghosts, bounds>>

\* The debounce is over.
Press ==
  /\ presses < MaxPresses
  /\ presses' = presses + 1
  /\ workq' = Submitted("button")
  /\ UNCHANGED <<journal, queueVars, pc, linkVars, jrVars, client, ghosts,
                 clears, faults>>

\* button_debounce_handler(): EV_BUTTON; and ble_wake() after 10 s of rest.
ButtonDebounce ==
  /\ Goto("idle", "idle")
  /\ workq # <<>>
  /\ Head(workq) = "button"
  /\ LogEvent(Tail(workq))
  /\ \/ UNCHANGED <<adv, woken>>
     \/ /\ ~link /\ ~adv
        /\ adv' = TRUE
        /\ woken' = TRUE
  /\ UNCHANGED <<journal, taken, adv_timer, link, conn, att_mtu_val, jrVars,
                 client, ghosts, bounds>>

-----------------------------------------------------------------------------
Flush ==
  \/ FlushStart
  \/ FlushGet
  \/ FlushDone
  \/ FcbRotate
  \/ FcbAppend
  \/ AppendError
  \/ JournalLiveCb
  \/ JournalLiveCbError

JournalWork ==
  \/ JrStart
  \/ JrRead
  \/ JrReadSkips
  \/ JrReadError
  \/ JrClear
  \/ JrClearError
  \/ JrNotSent
  \/ JrIgnored
  \/ JrChunkMoved
  \/ JrChunk
  \/ JrCleared

WorkQueue == Flush \/ JournalWork \/ AdvRestart \/ ButtonDebounce

\* The workqueue waits for something to do.
Idle ==
  /\ pc = "idle"
  /\ workq = <<>>
  /\ UNCHANGED vars

Next ==
  \/ WorkQueue
  \/ EventLogWrite
  \/ ShellClear
  \/ AskDump
  \/ AskNext
  \/ AskClear
  \/ Retry
  \/ Connect
  \/ JournalAttMtuUpdated
  \/ Disconnected
  \/ AdvTimeout
  \/ Press
  \/ Idle

Spec == Init /\ [][Next]_vars

\* The workqueue runs; a client that dumps goes on.
FairSpec ==
  /\ Spec
  /\ WF_vars(WorkQueue)
  /\ WF_vars(AskNext)
  /\ WF_vars(Retry)

-----------------------------------------------------------------------------
Recorded == kept \cup forgotten

Works == {"flush", "jr", "adv", "button"}

TypeOK ==
  /\ kept \subseteq slots
  /\ slots \subseteq 1..taken
  /\ forgotten \subseteq (1..taken) \ kept
  /\ Cardinality(slots) <= NumSectors * SlotsPerSector
  /\ taken <= accepted
  /\ Range(workq) \subseteq Works
  /\ Len(workq) = Cardinality(Range(workq))
  /\ pc \in {"idle", "flush", "append", "live"} \cup JrPcs
  /\ {adv, adv_timer, link, awaiting, disturbed, missed, misread, woken}
       \subseteq BOOLEAN
  /\ ~(adv /\ link)
  /\ {jr_req.count, req.count, att_mtu_val} \subseteq 0..MtuCount
  /\ pc = "chunk" => Len(jr_tx.recs) <= req.count
  /\ phase \in {"idle", "dump", "done", "clear", "cleared"}
  /\ Range(copy) \cup live \subseteq Recorded
  /\ last_total \in Nat

(***************************************************************************)
(* What a client has put together from the chunks of one dump is a run of  *)
(* the journal: in the order of recording, without a gap and without a     *)
(* repetition, whatever was recorded, rotated away or cleared between the  *)
(* chunks, as long as the total told it that the indices moved             *)
(* (gatt_badge.c, lines 388-389), every record could be read for the       *)
(* chunks it took (event_log.c, lines 296-300, skips one that cannot), and *)
(* no press has started advertising before the end of the answer.          *)
(***************************************************************************)
CopyIsRun ==
  ~disturbed /\ ~misread /\ ~woken =>
    \A i \in 1..(Len(copy) - 1) :
      /\ copy[i] < copy[i + 1]
      /\ \A r \in Recorded : ~(copy[i] < r /\ r < copy[i + 1])

(***************************************************************************)
(* A finished dump and the live tail have everything: no record the        *)
(* journal holds falls between the last chunk and the tail, unless the     *)
(* indices moved unnoticed, a notification of the tail was lost, a record  *)
(* could not be read for a chunk, or a press has started advertising.      *)
(***************************************************************************)
InTheAir == IF pc = "live" THEN {taken} ELSE {}

NothingMissed ==
  phase = "done" /\ ~disturbed /\ ~missed /\ ~misread /\ ~woken =>
    kept \ InTheAir \subseteq Range(copy) \cup live

(***************************************************************************)
(* An answer goes to the client that asked, and has no more records than   *)
(* its MTU allows: notifications name no connection and jr_req keeps only  *)
(* the MTU, but adv_restart_work queues behind jr_work, so that no new     *)
(* client can connect before it is done.  A press that starts advertising  *)
(* is not behind it.                                                       *)
(***************************************************************************)
AnswerGoesToAsker ==
  link /\ ~woken =>
    /\ Contains(workq, "jr") => jr_req.conn = conn
    /\ pc \in JrPcs => req.conn = conn
    /\ pc = "chunk" => Len(jr_tx.recs) <= att_mtu_val

(***************************************************************************)
(* A dump comes to an end, although chunks are lost and the journal grows  *)
(* and rotates meanwhile, or the client leaves.                            *)
(***************************************************************************)
DumpEnds == phase = "dump" ~> phase # "dump"

-----------------------------------------------------------------------------
(***************************************************************************)
(* What the source says of the answer to a clear: "op 0x02: the clear is   *)
(* finished, total = 0" (gatt_badge.c:386).  So a client that has it finds *)
(* none of the records it asked to clear.                                  *)
(***************************************************************************)
ClearedIsTrue == phase = "cleared" => \A k \in kept : k > mark
=============================================================================

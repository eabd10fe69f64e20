------------------------------ MODULE JournalShell ------------------------------
(***************************************************************************)
(* "journal dump [N]" of event_log.c on the shell thread, beside the       *)
(* writers, the flush and the clears of EventLog.                          *)
(*                                                                         *)
(* The command walks the FCB twice, to count and to print, and does not    *)
(* take journal_lock: fcb_walk() holds the mutex of the FCB only while it  *)
(* looks for the next entry, so that appends, rotations and clears come    *)
(* between that and the read of the entry.  A place on the flash is a      *)
(* physical sector and a slot; the sector may hold other records by the    *)
(* time it is read.                                                        *)
(***************************************************************************)
EXTENDS EventLog, FiniteSetsExt, SequencesExt

CONSTANTS
  Shell,              \* the shell's thread
  Ns,                 \* the numbers N asked for
  MaxDumps            \* bound: dumps

ASSUME JournalShellAssumption ==
  /\ Shell \in Preemptible
  /\ Ns \subseteq Nat \ {0}
  /\ MaxDumps \in Nat

VARIABLES
  pass,               \* none, count, print, done
  loc,                \* the walk: physical sector, slot, slot not yet read
  ctx,                \* struct dump_ctx
  n,                  \* N of the command
  printed,            \* the records printed: index and event
  before,             \* oldest and Kept when the dump began
  misread,            \* a read of the flash failed
  dumps

dumpVars == <<pass, loc, ctx, n, printed, before, misread, dumps>>
allVars == <<vars, dumpVars>>

NoCtx == [total |-> 0, idx |-> 0, skip |-> 0, corrupt |-> 0]
\* fe_sector is NULL where a walk begins.
Null == -1
NoLoc == [sector |-> Null, slot |-> 0, unread |-> FALSE]

DumpInit ==
  /\ Init
  /\ pass = "none"
  /\ loc = NoLoc
  /\ ctx = NoCtx
  /\ n = 0
  /\ printed = <<>>
  /\ before = <<>>
  /\ misread = FALSE
  /\ dumps = 0

-----------------------------------------------------------------------------
(* fcb_walk()                                                              *)

Physical(s) == s % NumSectors

\* What a physical sector holds.
Slots(p) ==
  IF \E s \in oldest..active : Physical(s) = p
  THEN flash[CHOOSE s \in oldest..active : Physical(s) = p]
  ELSE <<>>

\* A walk begins in the oldest sector.
From == IF loc.sector = Null THEN Physical(oldest) ELSE loc.sector

\* The finished entries after loc, as (sectors further, slot), up to the
\* active sector.
Ahead ==
  {e \in (0..((active - From) % NumSectors)) \X (1..SlotsPerSector) :
     LET slots == Slots((From + e[1]) % NumSectors) IN
     /\ e[2] <= Len(slots)
     /\ slots[e[2]].fin
     /\ e[1] = 0 => e[2] > loc.slot}

\* fcb_getnext(), under the mutex of the FCB.
WalkNext ==
  /\ pass \in {"count", "print"}
  /\ ~loc.unread
  /\ \E e \in Ahead :
       /\ \A f \in Ahead : e[1] < f[1] \/ (e[1] = f[1] /\ e[2] <= f[2])
       /\ loc' = [sector |-> (From + e[1]) % NumSectors,
                  slot   |-> e[2],
                  unread |-> TRUE]
  /\ UNCHANGED <<vars, pass, ctx, n, printed, before, misread, dumps>>

\* There is no next entry.
WalkEnds ==
  /\ ~loc.unread
  /\ Ahead = {}

-----------------------------------------------------------------------------
(* dump_walk_cb()                                                          *)

\* The CRC of what is read now is right.
Readable == loc.slot <= Len(Slots(loc.sector)) /\ Slots(loc.sector)[loc.slot].data = "good"

Read == loc' = [loc EXCEPT !.unread = FALSE]

Corrupt == ctx' = [ctx EXCEPT !.corrupt = @ + 1, !.idx = @ + 1]

\* Mutants: the count prints too; the first one to print is passed over.
Mutant_PrintInBoth == TRUE
Mutant_OneLess == pass = "print" /\ ctx.idx > ctx.skip

Prints == pass = "print" /\ ctx.idx >= ctx.skip

DumpRecord ==
  /\ loc.unread
  /\ Readable
  /\ Read
  /\ ctx' = [ctx EXCEPT !.total = @ + 1, !.idx = @ + 1]
  /\ printed' = IF Prints
                THEN Append(printed, [idx |-> ctx.idx,
                                      ev  |-> Slots(loc.sector)[loc.slot].n])
                ELSE printed
  /\ UNCHANGED <<vars, pass, n, before, misread, dumps>>

DumpCorrupt ==
  /\ loc.unread
  /\ ~Readable
  /\ Read
  /\ Corrupt
  /\ UNCHANGED <<vars, pass, n, printed, before, misread, dumps>>

\* flash_area_read() fails.
DumpReadError ==
  /\ loc.unread
  /\ Fault
  /\ Read
  /\ Corrupt
  /\ misread' = TRUE
  /\ UNCHANGED <<journal_ready, queueVars, dropVars, pc, journal_lock, ev,
                 fcbVars, fateVars, crashes, pass, n, printed, before, dumps>>

-----------------------------------------------------------------------------
(* cmd_journal_dump()                                                      *)

DumpStart(k) ==
  /\ pass = "none"
  /\ pc[Shell] = "idle"
  /\ journal_ready
  /\ dumps < MaxDumps
  /\ dumps' = dumps + 1
  /\ pass' = "count"
  /\ ctx' = NoCtx
  /\ n' = k
  /\ loc' = NoLoc
  /\ before' = <<oldest, Kept>>
  /\ UNCHANGED <<vars, printed, misread>>

\* A mutant: an empty journal is counted again.
Mutant_DumpEmpty ==
  /\ pass = "count"
  /\ WalkEnds
  /\ ctx.total = 0
  /\ loc' = NoLoc
  /\ ctx' = NoCtx
  /\ UNCHANGED <<vars, pass, n, printed, before, misread, dumps>>

DumpEmpty ==
  /\ pass = "count"
  /\ WalkEnds
  /\ ctx.total = 0
  /\ pass' = "done"
  /\ UNCHANGED <<vars, loc, ctx, n, printed, before, misread, dumps>>

\* A mutant: the counters of the first pass are kept.
Mutant_SecondPass ==
  /\ pass = "count"
  /\ WalkEnds
  /\ ctx.total > 0
  /\ pass' = "print"
  /\ ctx' = [ctx EXCEPT !.idx = 0, !.skip = IF ctx.total > n THEN ctx.total - n ELSE 0]
  /\ loc' = NoLoc
  /\ UNCHANGED <<vars, n, printed, before, misread, dumps>>

SecondPass ==
  /\ pass = "count"
  /\ WalkEnds
  /\ ctx.total > 0
  /\ pass' = "print"
  /\ ctx' = [NoCtx EXCEPT !.skip = IF ctx.total > n THEN ctx.total - n ELSE 0]
  /\ loc' = NoLoc
  /\ UNCHANGED <<vars, n, printed, before, misread, dumps>>

DumpDone ==
  /\ pass = "print"
  /\ WalkEnds
  /\ pass' = "done"
  /\ UNCHANGED <<vars, loc, ctx, n, printed, before, misread, dumps>>

NoDump ==
  /\ pass' = "none"
  /\ loc' = NoLoc
  /\ ctx' = NoCtx
  /\ n' = 0
  /\ printed' = <<>>
  /\ before' = <<>>
  /\ misread' = FALSE

DumpReturn ==
  /\ pass = "done"
  /\ NoDump
  /\ UNCHANGED <<vars, dumps>>

-----------------------------------------------------------------------------
DumpWalk ==
  \/ WalkNext
  \/ DumpRecord
  \/ DumpCorrupt
  \/ DumpReadError
  \/ DumpEmpty
  \/ SecondPass
  \/ DumpDone
  \/ DumpReturn

\* A step of EventLog; the shell does one command at a time, and a power loss
\* ends it.
JournalStep ==
  /\ Next
  /\ pass # "none" => pc'[Shell] = "idle"
  /\ crashes' = crashes => UNCHANGED dumpVars
  /\ crashes' # crashes => NoDump /\ UNCHANGED dumps

DumpNext ==
  \/ JournalStep
  \/ \E k \in Ns : DumpStart(k)
  \/ DumpWalk

DumpSpec == DumpInit /\ [][DumpNext]_allVars

DumpFairSpec == DumpSpec /\ Fairness /\ WF_allVars(DumpWalk)

-----------------------------------------------------------------------------
DumpTypeOK ==
  /\ pass \in {"none", "count", "print", "done"}
  /\ pass # "none" => pc[Shell] = "idle"
  /\ loc.sector \in {Null} \cup 0..(NumSectors - 1)
  /\ loc.slot \in 0..SlotsPerSector
  /\ loc.unread => pass \in {"count", "print"}
  /\ ctx.idx = ctx.total + ctx.corrupt

(***************************************************************************)
(* However appends, rotations and clears run beside the walk, what it      *)
(* prints is in the order of recording and has no record twice, and its    *)
(* indices grow with the records.                                          *)
(***************************************************************************)
PrintedInOrder ==
  \A i, j \in 1..Len(printed) :
    i < j => /\ printed[i].ev < printed[j].ev
             /\ printed[i].idx < printed[j].idx

Good(k) == \E s \in oldest..active : \E i \in 1..Len(flash[s]) :
             flash[s][i].n = k /\ flash[s][i].data = "good"

\* The newest of S, as many as were asked for.
Newest(S) == {k \in S : Cardinality({j \in S : j >= k}) <= n}

Printed == {printed[i].ev : i \in 1..Len(printed)}

\* The dump is over, the journal is as it was when it began, and all reads of
\* the flash succeeded.
QuietDump == pass = "done" /\ before = <<oldest, Kept>> /\ ~misread

(***************************************************************************)
(* If the journal stays as it is and holds no corrupt record, the dump     *)
(* prints its newest N records, all of them if it has fewer.               *)
(***************************************************************************)
DumpIsRight ==
  QuietDump /\ (\A k \in Kept : Good(k)) => Printed = Newest(Kept)

(***************************************************************************)
(* A dump comes to its end, beside writers and clears.                     *)
(***************************************************************************)
DumpEnds == pass = "count" ~> pass = "none"

-----------------------------------------------------------------------------
(***************************************************************************)
(* What the command says of itself: "the last N records (default 20):      *)
(* journal dump [N]" (event_log.c:461), those whose CRC is right: the      *)
(* newest N valid records, corrupt ones beside them or not.                *)
(***************************************************************************)
LastNPrinted ==
  QuietDump => Printed = Newest({k \in Kept : Good(k)})
=============================================================================

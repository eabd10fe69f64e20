------------------------------- MODULE UserData -------------------------------
(***************************************************************************)
(* The encrypted user data of user_data.c: one block as a chain of chunk   *)
(* files /data/u<id>_<seq>.bd in littlefs, and the AES key that the block  *)
(* needs, kept in NVS.  ud_lock makes the operations of the API one at a   *)
(* time, so there is one operation in progress, taken step by step: each   *)
(* fs_unlink, fs_open, fs_close is a change of the flash of its own, and   *)
(* power may be lost after any of them.                                    *)
(*                                                                         *)
(* littlefs is modelled from its use here: fs_open with FS_O_CREATE makes  *)
(* an empty file at once, what fs_write wrote is in the file when fs_close *)
(* commits it, and an existing file is overwritten from its start without  *)
(* being cut.  A file's content is a sequence of units; a unit carries the *)
(* mark of the encryption it came from, so that a content made of two      *)
(* encryptions shows, as the GCM tag does.                                 *)
(***************************************************************************)
EXTENDS Integers, Sequences, FiniteSets

CONSTANTS
  ChunkMax,           \* units in a full chunk (UD_CHUNK_PLAIN_MAX)
  MaxLen,             \* bound: units in one call
  MaxOps,             \* bound: calls that change the block
  MaxKeys,            \* bound: keys generated
  MaxFaults,          \* bound: calls of littlefs, PSA or NVS that fail
  MaxCrashes          \* bound: power losses

ASSUME UserDataAssumption ==
  /\ ChunkMax \in Nat \ {0}
  /\ MaxLen \in Nat
  /\ MaxOps \in Nat
  /\ MaxKeys \in Nat
  /\ MaxFaults \in Nat
  /\ MaxCrashes \in Nat

VARIABLES
  ud_ready,           \* user_data_init() has succeeded
  ud_key_loaded,      \* sec_settings_set() has found a key
  ud_key_raw,         \* the raw key in RAM (keys are numbers; 0: none)
  ud_key,             \* the key behind the PSA handle
  nvs_key,            \* settings sec/aeskey
  files,              \* the content of the chunk files there are, by seq
  pc,                 \* the step of the operation in progress
  op,                 \* that operation, or the last one
  ops,                \* calls made so far
  next_key,           \* the next key the random generator gives
  want,               \* what the calls so far have put into the block
  found,              \* the files as they were when the append began
  miscounted,         \* a failing fs_stat() hid one of them from it
  damaged,            \* an erase was cut short, and its chunk 0 is gone
  torn,               \* a failed fs_close() was ignored, no erase ended since
  key_replaced,       \* a new key was saved over an old one
  faults, crashes     \* how much of the bounds is used

keyVars  == <<ud_ready, ud_key_loaded, ud_key_raw, ud_key, nvs_key, next_key,
              key_replaced>>
dataVars == <<files, want, damaged, torn>>
foundVars == <<found, miscounted>>
opVars   == <<op, ops, foundVars>>
vars == <<keyVars, dataVars, pc, opVars, faults, crashes>>

-----------------------------------------------------------------------------
(* Chunks and chains.                                                      *)

\* The mark of one psa_aead_encrypt(): whose data, which chunk of it, how
\* long, under which key.
Mark == [op : Nat, idx : Nat, len : Nat, key : Nat]

\* A call and how far it is: off units of len are written, seq is the file it
\* is at, base the number of files an append counted.
Call == [kind : {"none", "write", "append", "erase"}, len : 0..MaxLen,
         off : 0..MaxLen, seq : Nat, base : Nat]

NewCall(kind, len) ==
  [kind |-> kind, len |-> len, off |-> 0, seq |-> 0, base |-> 0]

\* What the block should hold, known until a call fails or miscounts.
Want == [known : BOOLEAN, chunks : Seq(Mark)]

\* fs_write() from the start of a file that may hold something already.
Overlay(new, old) ==
  [i \in 1..(IF Len(new) > Len(old) THEN Len(new) ELSE Len(old)) |->
     IF i <= Len(new) THEN new[i] ELSE old[i]]

\* chunk_read() succeeds: the header is there and the tag matches.
Readable(c) ==
  /\ c # <<>>
  /\ c[1].key = ud_key
  /\ Len(c) = c[1].len
  /\ \A i \in 1..Len(c) : c[i] = c[1]

\* The chain a walk from seq 0 finds, up to the first seq without a file.
ChainLen ==
  CHOOSE n \in 0..Cardinality(DOMAIN files) :
    /\ n \notin DOMAIN files
    /\ \A s \in 0..(n - 1) : s \in DOMAIN files

\* user_data_read(): rc = 0, and the chunks it then returns.
ReadOk    == \A s \in 0..(ChainLen - 1) : Readable(files[s])
ReadValue == [i \in 1..ChainLen |-> files[i - 1][1]]

\* A mutant: the last chunk is not shorter.
Mutant_NextLen(o) == ChunkMax

\* The length of the next chunk of a call.
NextLen(o) == IF o.len - o.off < ChunkMax THEN o.len - o.off ELSE ChunkMax

NextMark ==
  [op |-> ops, idx |-> op.off, len |-> NextLen(op), key |-> ud_key]

-----------------------------------------------------------------------------
Init ==
  /\ ud_ready = FALSE
  /\ ud_key_loaded = FALSE
  /\ ud_key_raw = 0
  /\ ud_key = 0
  /\ nvs_key = 0
  /\ files = <<>>
  /\ pc = "load"
  /\ op = NewCall("none", 0)
  /\ ops = 0
  /\ found = <<>>
  /\ miscounted = FALSE
  /\ next_key = 1
  /\ want = [known |-> TRUE, chunks |-> <<>>]
  /\ damaged = FALSE
  /\ torn = FALSE
  /\ key_replaced = FALSE
  /\ faults = 0
  /\ crashes = 0

Fault ==
  /\ faults < MaxFaults
  /\ faults' = faults + 1

\* The steps of user_data_init(), and those of a call, which holds ud_lock.
InitPcs == {"load", "import", "generate", "save"}
CallPcs == {"erase", "count", "chunk", "close"}

Goto(from, to) ==
  /\ pc = from
  /\ pc' = to

-----------------------------------------------------------------------------
(* user_data_init(): from main() at boot, and from udtest when that failed *)

\* settings_load() hands the stored key to sec_settings_set().
InitLoad ==
  /\ Goto("load", IF nvs_key # 0 \/ ud_key_loaded THEN "import" ELSE "generate")
  /\ ud_key_loaded' = (nvs_key # 0 \/ ud_key_loaded)
  /\ ud_key_raw' = IF nvs_key # 0 THEN nvs_key ELSE ud_key_raw
  /\ UNCHANGED <<ud_ready, ud_key, nvs_key, next_key, key_replaced, dataVars,
                 opVars, faults, crashes>>

\* It fails: a warning, and on with what is loaded.
InitLoadError ==
  /\ Goto("load", IF ud_key_loaded THEN "import" ELSE "generate")
  /\ Fault
  /\ UNCHANGED <<keyVars, dataVars, opVars, crashes>>

InitImport ==
  /\ Goto("import", "idle")
  /\ ud_key' = ud_key_raw
  /\ ud_ready' = TRUE
  /\ UNCHANGED <<ud_key_loaded, ud_key_raw, nvs_key, next_key, key_replaced,
                 dataVars, opVars, faults, crashes>>

\* psa_generate_random() and psa_import_key().
InitGenerate ==
  /\ Goto("generate", "save")
  /\ next_key <= MaxKeys
  /\ ud_key_raw' = next_key
  /\ ud_key' = next_key
  /\ next_key' = next_key + 1
  /\ UNCHANGED <<ud_ready, ud_key_loaded, nvs_key, key_replaced, dataVars,
                 opVars, faults, crashes>>

InitSave ==
  /\ Goto("save", "idle")
  /\ nvs_key' = ud_key_raw
  /\ key_replaced' = (key_replaced \/ nvs_key # 0)
  /\ ud_ready' = TRUE
  /\ UNCHANGED <<ud_key_loaded, ud_key_raw, ud_key, next_key, dataVars,
                 opVars, faults, crashes>>

\* A mutant: the rc of settings_save_one() is only logged.
Mutant_InitError ==
  /\ Goto("save", "idle")
  /\ Fault
  /\ ud_ready' = TRUE
  /\ UNCHANGED <<ud_key_loaded, ud_key_raw, ud_key, nvs_key, next_key,
                 key_replaced, dataVars, opVars, crashes>>

\* PSA or NVS fails: user_data_init() returns, the module is not ready.
InitError ==
  /\ \E from \in InitPcs : Goto(from, "idle")
  /\ Fault
  /\ UNCHANGED <<keyVars, dataVars, opVars, crashes>>

\* cmd_udtest() tries again.
InitRetry ==
  /\ Goto("idle", "load")
  /\ ~ud_ready
  /\ UNCHANGED <<keyVars, dataVars, opVars, faults, crashes>>

-----------------------------------------------------------------------------
(* The calls.                                                              *)

Begin(kind, len, to) ==
  /\ Goto("idle", to)
  /\ ud_ready
  /\ ops < MaxOps
  /\ ops' = ops + 1
  /\ op' = NewCall(kind, len)
  /\ miscounted' = FALSE
  /\ found' = IF kind = "append" THEN files ELSE <<>>
  /\ UNCHANGED <<keyVars, dataVars, faults, crashes>>

UserDataWrite(len)  == Begin("write", len, "erase")
UserDataErase       == Begin("erase", 0, "erase")
UserDataAppend(len) == Begin("append", len, "count")

\* user_data_read() changes nothing.
UserDataRead ==
  /\ pc = "idle"
  /\ ud_ready
  /\ UNCHANGED vars

Failed == want' = [want EXCEPT !.known = FALSE]

\* Chunk 0 is gone, and the rest is not.
CutShort == op.seq > 0 /\ op.seq \in DOMAIN files

\* erase_chunks(): from seq 0 up ...
Unlink ==
  /\ pc = "erase"
  /\ op.seq \in DOMAIN files
  /\ files' = [s \in DOMAIN files \ {op.seq} |-> files[s]]
  /\ op' = [op EXCEPT !.seq = @ + 1]
  /\ UNCHANGED <<keyVars, want, damaged, torn, pc, ops, foundVars,
                 faults, crashes>>

\* fs_unlink() fails other than with -ENOENT.
UnlinkError ==
  /\ Goto("erase", "idle")
  /\ Fault
  /\ Failed
  /\ damaged' = (damaged \/ CutShort)
  /\ UNCHANGED <<keyVars, files, torn, opVars, crashes>>

\* A mutant: the chunks of the new content go on from where the erase ended.
Mutant_EraseDone ==
  /\ Goto("erase", "chunk")
  /\ op.seq \notin DOMAIN files
  /\ UNCHANGED <<keyVars, dataVars, opVars, faults, crashes>>

\* ... up to the first that is not there.
EraseDone ==
  /\ Goto("erase", "chunk")
  /\ op.seq \notin DOMAIN files
  /\ op' = [op EXCEPT !.seq = 0]
  /\ torn' = FALSE
  /\ UNCHANGED <<keyVars, files, want, damaged, ops, foundVars,
                 faults, crashes>>

\* chunks_count(): fs_stat from seq 0 up, to the first that fails.
CountMore ==
  /\ pc = "count"
  /\ op.seq \in DOMAIN files
  /\ op' = [op EXCEPT !.seq = @ + 1]
  /\ UNCHANGED <<keyVars, dataVars, pc, ops, foundVars, faults, crashes>>

\* A mutant: the last chunk is taken for the first free one.
Mutant_CountDone ==
  /\ Goto("count", "chunk")
  /\ op.seq \notin DOMAIN files
  /\ op' = [op EXCEPT !.seq = IF @ = 0 THEN 0 ELSE @ - 1, !.base = op.seq]
  /\ UNCHANGED <<keyVars, dataVars, ops, foundVars, faults, crashes>>

\* -ENOENT ...
CountDone ==
  /\ Goto("count", "chunk")
  /\ op.seq \notin DOMAIN files
  /\ op' = [op EXCEPT !.base = op.seq]
  /\ UNCHANGED <<keyVars, dataVars, ops, foundVars, faults, crashes>>

\* ... or any other error: whatever file is there, the chain ends here.
CountError ==
  /\ Goto("count", "chunk")
  /\ Fault
  /\ op' = [op EXCEPT !.base = op.seq]
  /\ miscounted' = (op.seq \in DOMAIN files)
  /\ UNCHANGED <<keyVars, dataVars, ops, found, crashes>>

\* chunk_write(): encrypt and open.
Open ==
  /\ Goto("chunk", "close")
  /\ op.off < op.len
  /\ files' = [s \in DOMAIN files \cup {op.seq} |->
                 IF s \in DOMAIN files THEN files[s] ELSE <<>>]
  /\ UNCHANGED <<keyVars, want, damaged, torn, opVars, faults, crashes>>

\* psa_generate_random(), psa_aead_encrypt() or fs_open() fails.
OpenError ==
  /\ Goto("chunk", "idle")
  /\ op.off < op.len
  /\ Fault
  /\ Failed
  /\ UNCHANGED <<keyVars, files, damaged, torn, opVars, crashes>>

NextChunk == op' = [op EXCEPT !.off = @ + NextLen(op), !.seq = @ + 1]

\* fs_write() twice and fs_close().
Close ==
  /\ Goto("close", "chunk")
  /\ files' = [files EXCEPT ![op.seq] =
                 Overlay([i \in 1..NextLen(op) |-> NextMark], @)]
  /\ NextChunk
  /\ UNCHANGED <<keyVars, want, damaged, torn, ops, foundVars,
                 faults, crashes>>

\* fs_write() fails: nothing is committed, the call returns the error.
WriteError ==
  /\ Goto("close", "idle")
  /\ Fault
  /\ Failed
  /\ UNCHANGED <<keyVars, files, damaged, torn, opVars, crashes>>

\* fs_close() fails to commit: its result is not looked at.
CloseError ==
  /\ Goto("close", "chunk")
  /\ Fault
  /\ torn' = TRUE
  /\ NextChunk
  /\ UNCHANGED <<keyVars, files, want, damaged, ops, foundVars, crashes>>

\* The mark of the i-th chunk of a call.
ChunkMark(o, i) ==
  LET off == (i - 1) * ChunkMax IN
  [op |-> ops, idx |-> off, len |-> NextLen([o EXCEPT !.off = off]),
   key |-> ud_key]

\* The marks that a call with no failure leaves in its chunks.
MarksOf(o) ==
  [i \in 1..((o.len + ChunkMax - 1) \div ChunkMax) |-> ChunkMark(o, i)]

\* The call returns 0.
Return ==
  /\ Goto("chunk", "idle")
  /\ op.off = op.len
  /\ want' = IF op.kind = "append"
             THEN [known  |-> want.known /\ ~miscounted,
                   chunks |-> want.chunks \o MarksOf(op)]
             ELSE [known |-> TRUE, chunks |-> MarksOf(op)]
  /\ UNCHANGED <<keyVars, files, damaged, torn, opVars, faults, crashes>>

-----------------------------------------------------------------------------
\* Power is lost: the flash keeps what was committed; boot runs
\* user_data_init().
Crash ==
  /\ crashes < MaxCrashes
  /\ crashes' = crashes + 1
  /\ pc' = "load"
  /\ ud_ready' = FALSE
  /\ ud_key_loaded' = FALSE
  /\ ud_key_raw' = 0
  /\ ud_key' = 0
  /\ want' = [want EXCEPT !.known = @ /\ pc \notin CallPcs]
  /\ damaged' = (damaged \/ (pc = "erase" /\ CutShort))
  /\ UNCHANGED <<nvs_key, next_key, key_replaced, files, torn, opVars, faults>>

Next ==
  \/ InitLoad
  \/ InitLoadError
  \/ InitImport
  \/ InitGenerate
  \/ InitSave
  \/ InitError
  \/ InitRetry
  \/ \E len \in 0..MaxLen : UserDataWrite(len)
  \/ \E len \in 0..MaxLen : UserDataAppend(len)
  \/ UserDataErase
  \/ UserDataRead
  \/ Unlink
  \/ UnlinkError
  \/ EraseDone
  \/ CountMore
  \/ CountDone
  \/ CountError
  \/ Open
  \/ OpenError
  \/ Close
  \/ WriteError
  \/ CloseError
  \/ Return
  \/ Crash

Spec == Init /\ [][Next]_vars

-----------------------------------------------------------------------------
TypeOK ==
  /\ ud_ready \in BOOLEAN
  /\ ud_key_loaded \in BOOLEAN
  /\ ud_key_raw \in 0..MaxKeys
  /\ ud_key \in 0..MaxKeys
  /\ nvs_key \in 0..MaxKeys
  /\ DOMAIN files \subseteq Nat
  /\ \A s \in DOMAIN files : files[s] \in Seq(Mark)
  /\ pc \in InitPcs \cup CallPcs \cup {"idle"}
  /\ op \in Call
  /\ op.off <= op.len
  /\ ops \in Nat
  /\ next_key \in 1..(MaxKeys + 1)
  /\ want \in Want
  /\ damaged \in BOOLEAN
  /\ torn \in BOOLEAN
  /\ DOMAIN found \subseteq Nat
  /\ miscounted \in BOOLEAN
  /\ key_replaced \in BOOLEAN
  /\ faults \in Nat
  /\ crashes \in Nat

(***************************************************************************)
(* What the calls have put into the block is what user_data_read() returns *)
(* after any mix of writes, appends, erases, failed calls and power losses *)
(* - unless an erase was cut short after chunk 0, an append miscounted (it *)
(* is not known then what the block should hold), or the key was replaced. *)
(* A chunk that an ignored error of fs_close() has lost makes the read     *)
(* fail; a read that succeeds has nothing missing.                         *)
(***************************************************************************)
RoundTrip ==
  (pc = "idle" /\ ud_ready /\ want.known /\ ~damaged /\ ~key_replaced) =>
    /\ ~torn => ReadOk
    /\ ReadOk => ReadValue = want.chunks

(***************************************************************************)
(* Whatever is encrypted on the flash is encrypted under the key in NVS,   *)
(* so the next boot can read it - at every moment, power may be lost at    *)
(* any of them - until a settings_load() that fails makes user_data_init() *)
(* replace the key (user_data.c, lines 422-427).                           *)
(***************************************************************************)
KeyOutlivesData ==
  \/ key_replaced
  \/ \A s \in DOMAIN files : \A i \in 1..Len(files[s]) :
       files[s][i].key = nvs_key

(***************************************************************************)
(* An append, whatever becomes of it, leaves the chunks of the chain that  *)
(* was there when it began as they were (user_data.h, lines 10-11), unless *)
(* a failing fs_stat() of one of them made it take that one for the end of *)
(* the chain (user_data.c, lines 253-259).                                 *)
(***************************************************************************)
AppendKeepsPrefix ==
  [][op.kind = "append" /\ pc \in {"count", "chunk", "close"} /\ ~miscounted =>
       \A s \in DOMAIN found : 0..s \subseteq DOMAIN found =>
         s \in DOMAIN files' /\ files'[s] = found[s]]_vars

-----------------------------------------------------------------------------
(* What makes the last three inductive.                                    *)

\* The key in use is the stored one, at every step that leads to its use.
KeyInv ==
  /\ ud_ready => nvs_key = ud_key /\ nvs_key # 0
  /\ pc \in InitPcs => ~ud_ready
  /\ pc \in CallPcs => ud_ready
  /\ ud_key_loaded => nvs_key = ud_key_raw /\ nvs_key # 0
  /\ pc = "import" => ud_key_loaded
  /\ pc \in {"generate", "save"} => ~ud_key_loaded
  /\ pc = "save" => ud_key = ud_key_raw /\ ud_key # 0
  /\ \A s \in DOMAIN files : \A i \in 1..Len(files[s]) : files[s][i].key # 0

\* An append writes beyond the chain it found, if it counted right.
AppendInv ==
  /\ pc = "erase" => op.kind # "append"
  /\ op.kind = "append" =>
       /\ pc = "count" =>
            /\ files = found /\ ~miscounted
            /\ \A s \in 0..(op.seq - 1) : s \in DOMAIN files
       /\ pc \in {"chunk", "close"} /\ ~miscounted =>
            /\ op.base <= op.seq
            /\ op.base \notin DOMAIN found
            /\ \A s \in 0..(op.base - 1) :
                 s \in DOMAIN files /\ files[s] = found[s]

\* A chunk as one encryption leaves it.
Whole(m) == [i \in 1..m.len |-> m]

\* The file of a chunk: it, or nothing when it was not committed.
HoldsChunk(c, m) == c = Whole(m) \/ (torn /\ c = <<>>)

\* The block is these chunks and nothing after them.
Holds(marks) ==
  /\ DOMAIN files = 0..(Len(marks) - 1)
  /\ \A s \in DOMAIN files : HoldsChunk(files[s], marks[s + 1])

\* A call is at the end of a chunk, the last one being maybe shorter.
AtChunk ==
  /\ op.kind # "append" => op.base = 0
  /\ op.base <= op.seq
  /\ op.off <= (op.seq - op.base) * ChunkMax
  /\ (op.seq - op.base - 1) * ChunkMax < op.off
  /\ op.off < op.len => op.off = (op.seq - op.base) * ChunkMax

\* A call that writes has left the block as it was, or erased it, and put
\* its own chunks behind that.
CallWrote ==
  /\ op.kind = "append" => op.base = Len(want.chunks)
  /\ \A s \in 0..(op.seq - 1) :
       HoldsChunk(files[s], IF s < op.base THEN want.chunks[s + 1]
                            ELSE ChunkMark(op, s - op.base + 1))

\* The files are one chain, from where an erase has come to; a call that
\* writes is at its end, if it counted right.
OneChain ==
  /\ pc = "erase" => \A s \in DOMAIN files : /\ op.seq <= s
                                            /\ op.seq..s \subseteq DOMAIN files
  /\ pc # "erase" => \A s \in DOMAIN files : 0..s \subseteq DOMAIN files
  /\ pc = "chunk" => 0..(op.seq - 1) \subseteq DOMAIN files
  /\ pc = "close" => 0..op.seq \subseteq DOMAIN files
  /\ ~miscounted =>
       /\ pc = "chunk" => DOMAIN files = 0..(op.seq - 1)
       /\ pc = "close" => DOMAIN files = 0..op.seq /\ files[op.seq] = <<>>

DataInv ==
  /\ \A i \in 1..Len(want.chunks) : want.chunks[i].len > 0
  /\ miscounted => op.kind = "append" /\ pc # "count"
  /\ pc = "erase" => op.kind # "append" /\ op.off = 0 /\ op.base = 0
  /\ pc = "count" => op.kind = "append" /\ op.off = 0
  /\ pc \in {"chunk", "close"} => AtChunk
  /\ pc = "close" => op.off < op.len
  /\ ~damaged =>
       /\ OneChain
       /\ (/\ pc \in {"chunk", "close"}
           /\ op.kind = "append" => want.known /\ ~miscounted)
            => CallWrote
       /\ pc \notin {"erase", "chunk", "close"} /\ want.known
            => Holds(want.chunks)

-----------------------------------------------------------------------------
(***************************************************************************)
(* "The old content is erased" (user_data.h:45): after a user_data_write() *)
(* that returned 0, a read returns what was written and nothing older.     *)
(***************************************************************************)
WriteReplaces ==
  (pc = "idle" /\ ud_ready /\ want.known /\ op.kind = "write" /\ ~key_replaced)
    => ReadOk /\ ReadValue = want.chunks

(***************************************************************************)
(* "A power failure spoils at most the last chunk" (user_data.h:11): after *)
(* power was lost during an append, a read still returns what the block    *)
(* held before it.                                                         *)
(***************************************************************************)
CrashCostsLastChunk ==
  (/\ pc = "idle" /\ ud_ready /\ op.kind = "append" /\ want.chunks # <<>>
   /\ ~damaged /\ ~torn /\ ~miscounted /\ ~key_replaced)
    => /\ ReadOk
       /\ Len(want.chunks) <= Len(ReadValue)
       /\ \A i \in 1..Len(want.chunks) : ReadValue[i] = want.chunks[i]
=============================================================================

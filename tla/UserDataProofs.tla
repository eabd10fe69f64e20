---------------------------- MODULE UserDataProofs ----------------------------
(***************************************************************************)
(* Theorems about UserData: types; what is on the flash stays readable     *)
(* under the stored key, through power losses at any step; an append never *)
(* touches the chunks that were there before it; a read returns what the   *)
(* calls have put into the block.                                          *)
(***************************************************************************)
EXTENDS UserData, FiniteSetTheorems, TLAPS

USE UserDataAssumption DEF UserDataAssumption

-----------------------------------------------------------------------------
(* The operators.                                                          *)

\* A chunk is never longer than the rest of the call, nor than a full one.
LEMMA NextLenBounds ==
  ASSUME NEW o, o.len \in Nat, o.off \in Nat, o.off <= o.len
  PROVE  /\ NextLen(o) \in Nat
         /\ o.off + NextLen(o) <= o.len
         /\ o.off < o.len => NextLen(o) > 0
BY DEF NextLen

\* Writing over a file leaves a sequence, whose units come from the two.
LEMMA OverlayUnits ==
  ASSUME NEW U, NEW new \in Seq(U), NEW old \in Seq(U)
  PROVE  Overlay(new, old) \in Seq(U)
<1> DEFINE n == IF Len(new) > Len(old) THEN Len(new) ELSE Len(old)
<1>1. n \in Nat
  OBVIOUS
<1>2. \A i \in 1..n : (IF i <= Len(new) THEN new[i] ELSE old[i]) \in U
  OBVIOUS
<1>3. [i \in 1..n |-> IF i <= Len(new) THEN new[i] ELSE old[i]] \in [1..n -> U]
  BY <1>2
<1> QED BY <1>1, <1>3 DEF Overlay

\* The number of full chunks in a call, rounded up, is a number, and the
\* chunks before the last do not reach the end.
LEMMA ChunkCount ==
  ASSUME NEW a \in Nat, NEW c \in Nat \ {0}
  PROVE  /\ (a + c - 1) \div c \in Nat
         /\ \A i \in 1..((a + c - 1) \div c) :
              (i - 1) * c \in Nat /\ (i - 1) * c < a
<1> DEFINE q == (a + c - 1) \div c
<1>1. q \in Nat /\ q * c <= a + c - 1
  OBVIOUS
<1>2. ASSUME NEW i \in 1..q
      PROVE  (i - 1) * c \in Nat /\ (i - 1) * c < a
  <2>1. i * c <= q * c
    BY <1>1
  <2>2. (i - 1) * c = i * c - c
    BY <1>1
  <2>3. i - 1 \in Nat
    BY <1>1
  <2>4. (i - 1) * c \in Nat
    BY <2>3
  <2>5. i * c \in Int /\ q * c \in Int
    BY <1>1
  <2> QED BY <1>1, <2>1, <2>2, <2>4, <2>5
<1> QED BY <1>1, <1>2

\* The fields of a call.
LEMMA CallFields ==
  ASSUME op \in Call
  PROVE  /\ op.len \in 0..MaxLen /\ op.off \in 0..MaxLen
         /\ op.seq \in Nat /\ op.base \in Nat
         /\ op.kind \in {"none", "write", "append", "erase"}
BY DEF Call

\* The marks a call leaves are marks.
LEMMA MarksOfType ==
  ASSUME TypeOK
  PROVE  MarksOf(op) \in Seq(Mark)
<1> DEFINE q == (op.len + ChunkMax - 1) \div ChunkMax
           Off(i) == (i - 1) * ChunkMax
           M(i) == [op |-> ops, idx |-> Off(i),
                    len |-> NextLen([op EXCEPT !.off = Off(i)]),
                    key |-> ud_key]
<1>1. op.len \in Nat /\ ops \in Nat /\ ud_key \in Nat /\ op \in Call
  BY CallFields DEF TypeOK
<1>2. q \in Nat /\ \A i \in 1..q : Off(i) \in Nat /\ Off(i) < op.len
  BY <1>1, ChunkCount
<1>3. ASSUME NEW i \in 1..q
      PROVE  M(i) \in Mark
  <2> DEFINE o == [op EXCEPT !.off = Off(i)]
  <2>1. o.len = op.len /\ o.off = Off(i)
    BY <1>1 DEF Call
  <2>2. Off(i) \in Nat /\ Off(i) <= op.len
    BY <1>1, <1>2
  <2> HIDE DEF Off, o
  <2>3. NextLen(o) \in Nat
    BY <1>1, <2>1, <2>2, NextLenBounds
  <2> QED BY <1>1, <2>2, <2>3 DEF Mark, o
<1>4. MarksOf(op) = [i \in 1..q |-> M(i)]
  BY DEF MarksOf, ChunkMark
<1> HIDE DEF q, M
<1>5. [i \in 1..q |-> M(i)] \in [1..q -> Mark] /\ q \in Nat
  BY <1>2, <1>3
<1>6. [i \in 1..q |-> M(i)] \in Seq(Mark)
  BY <1>5
<1> QED BY <1>4, <1>6

-----------------------------------------------------------------------------
(* Types.                                                                  *)

\* The steps that move a call on.
LEMMA CallUpdates ==
  ASSUME op \in Call
  PROVE  /\ \A s \in Nat : /\ [op EXCEPT !.seq = s] \in Call
                           /\ [op EXCEPT !.seq = s].off = op.off
                           /\ [op EXCEPT !.seq = s].len = op.len
         /\ \A s \in Nat : /\ [op EXCEPT !.base = s] \in Call
                           /\ [op EXCEPT !.base = s].off = op.off
                           /\ [op EXCEPT !.base = s].len = op.len
         /\ \A o \in 0..MaxLen, s \in Nat :
              /\ [op EXCEPT !.off = o, !.seq = s] \in Call
              /\ [op EXCEPT !.off = o, !.seq = s].off = o
              /\ [op EXCEPT !.off = o, !.seq = s].len = op.len
BY DEF Call

\* What the calls are to have put, after an update.
LEMMA WantUpdates ==
  ASSUME want \in Want
  PROVE  /\ \A b \in BOOLEAN : [want EXCEPT !.known = b] \in Want
         /\ \A b \in BOOLEAN, c \in Seq(Mark) :
              [known |-> b, chunks |-> want.chunks \o c] \in Want
         /\ \A c \in Seq(Mark) : [known |-> TRUE, chunks |-> c] \in Want
         /\ want.known \in BOOLEAN
<1>1. want.chunks \in Seq(Mark) /\ want.known \in BOOLEAN
  BY DEF Want
<1>2. \A c \in Seq(Mark) : want.chunks \o c \in Seq(Mark)
  BY <1>1
<1> QED BY <1>1, <1>2 DEF Want

\* At power-up.
LEMMA InitTyped == Init => TypeOK
<1> SUFFICES ASSUME Init PROVE TypeOK
  OBVIOUS
<1>1. op \in Call /\ op.off <= op.len
  BY DEF Init, NewCall, Call
<1>2. <<>> \in Seq(Mark)
  OBVIOUS
<1>3. want \in Want
  BY <1>2 DEF Init, Want
<1>4. /\ DOMAIN files \subseteq Nat /\ DOMAIN found \subseteq Nat
      /\ \A s \in DOMAIN files : files[s] \in Seq(Mark)
  <2>1. files = <<>> /\ found = <<>>
    BY DEF Init
  <2>2. DOMAIN files = {} /\ DOMAIN found = {}
    BY <2>1
  <2> QED BY <2>2
<1>5. pc \in InitPcs \cup CallPcs \cup {"idle"}
  BY DEF Init, InitPcs
<1>6. /\ ud_key_raw \in 0..MaxKeys /\ ud_key \in 0..MaxKeys
      /\ nvs_key \in 0..MaxKeys /\ next_key \in 1..(MaxKeys + 1)
      /\ ops \in Nat /\ faults \in Nat /\ crashes \in Nat
  BY DEF Init
<1>7. /\ ud_ready \in BOOLEAN /\ ud_key_loaded \in BOOLEAN
      /\ damaged \in BOOLEAN /\ torn \in BOOLEAN /\ miscounted \in BOOLEAN
      /\ key_replaced \in BOOLEAN
  BY DEF Init
<1> QED BY <1>1, <1>3, <1>4, <1>5, <1>6, <1>7 DEF TypeOK

\* The steps of user_data_init() and power loss.
LEMMA KeyStepTyped ==
  ASSUME TypeOK,
         \/ InitLoad \/ InitLoadError \/ InitImport \/ InitGenerate
         \/ InitSave \/ InitError \/ InitRetry \/ Crash
  PROVE  TypeOK'
<1> USE DEF TypeOK, InitPcs, CallPcs, Goto, Fault, keyVars, dataVars, opVars,
           foundVars
<1>1. CASE InitLoad
  BY <1>1 DEF InitLoad
<1>2. CASE InitLoadError
  BY <1>2 DEF InitLoadError
<1>3. CASE InitImport
  BY <1>3 DEF InitImport
<1>4. CASE InitGenerate
  BY <1>4 DEF InitGenerate
<1>5. CASE InitSave
  BY <1>5 DEF InitSave
<1>6. CASE InitError
  BY <1>6 DEF InitError
<1>7. CASE InitRetry
  BY <1>7 DEF InitRetry
<1>8. CASE Crash
  <2>1. PICK b \in BOOLEAN : want' = [want EXCEPT !.known = b]
    BY <1>8, WantUpdates DEF Crash
  <2>2. want' \in Want
    BY <2>1, WantUpdates
  <2>3. damaged' \in BOOLEAN
    BY <1>8 DEF Crash
  <2>4. ud_key_raw' = 0 /\ ud_key' = 0 /\ crashes' = crashes + 1 /\ pc' = "load"
    BY <1>8 DEF Crash
  <2>5. ud_ready' \in BOOLEAN /\ ud_key_loaded' \in BOOLEAN
    BY <1>8 DEF Crash
  <2>6. UNCHANGED <<nvs_key, next_key, key_replaced, files, torn, found,
                   miscounted, op, ops, faults>>
    BY <1>8 DEF Crash, opVars, foundVars
  <2>7. /\ (ud_ready \in BOOLEAN /\ ud_key_loaded \in BOOLEAN)'
        /\ (ud_key_raw \in 0..MaxKeys /\ ud_key \in 0..MaxKeys)'
        /\ (nvs_key \in 0..MaxKeys /\ next_key \in 1..(MaxKeys + 1))'
        /\ (DOMAIN files \subseteq Nat)'
    BY <2>4, <2>5, <2>6
  <2>8. /\ (\A s \in DOMAIN files : files[s] \in Seq(Mark))'
        /\ (op \in Call /\ op.off <= op.len)'
    BY <2>6
  <2>9. /\ (pc \in InitPcs \cup CallPcs \cup {"idle"})'
        /\ (ops \in Nat /\ faults \in Nat /\ crashes \in Nat)'
        /\ (key_replaced \in BOOLEAN /\ torn \in BOOLEAN)'
        /\ (miscounted \in BOOLEAN /\ DOMAIN found \subseteq Nat)'
    BY <2>4, <2>6
  <2> QED BY <2>2, <2>3, <2>7, <2>8, <2>9
<1> QED BY <1>1, <1>2, <1>3, <1>4, <1>5, <1>6, <1>7, <1>8

\* The beginning of a call.
LEMMA BeginTyped ==
  ASSUME TypeOK, NEW kind \in {"write", "append", "erase"},
         NEW len \in 0..MaxLen, NEW to \in CallPcs, Begin(kind, len, to)
  PROVE  TypeOK'
<1>1. op' = NewCall(kind, len)
  BY DEF Begin
<1>2. op' \in Call /\ op'.off <= op'.len
  BY <1>1 DEF NewCall, Call
<1>3. /\ ops' = ops + 1 /\ (miscounted' = FALSE) /\ pc' = to
      /\ keyVars' = keyVars /\ dataVars' = dataVars
      /\ faults' = faults /\ crashes' = crashes
  <2>1. ops' = ops + 1 /\ pc' = to
    BY DEF Begin, Goto
  <2>2. miscounted' = FALSE
    BY DEF Begin
  <2>3. keyVars' = keyVars /\ dataVars' = dataVars
    BY DEF Begin
  <2>4. faults' = faults /\ crashes' = crashes
    BY DEF Begin
  <2> QED BY <2>1, <2>2, <2>3, <2>4
<1>4. ops' \in Nat /\ miscounted' \in BOOLEAN /\ pc' \in CallPcs
  <2>1. ops' \in Nat /\ pc' \in CallPcs
    BY <1>3 DEF TypeOK
  <2>2. miscounted' \in BOOLEAN
    BY <1>3
  <2> QED BY <2>1, <2>2
<1>5. /\ DOMAIN files' \subseteq Nat
      /\ \A s \in DOMAIN files' : files'[s] \in Seq(Mark)
  BY <1>3 DEF TypeOK, dataVars
<1>6. DOMAIN found' \subseteq Nat
  <2>1. found' = files \/ found' = <<>>
    BY DEF Begin
  <2>2. DOMAIN <<>> = {}
    OBVIOUS
  <2> QED BY <2>1, <2>2 DEF TypeOK
<1> QED BY <1>2, <1>3, <1>4, <1>5, <1>6 DEF TypeOK, keyVars, dataVars

\* The steps of a call that leave the files alone or remove one.
LEMMA WalkStepTyped ==
  ASSUME TypeOK,
         \/ Unlink \/ UnlinkError \/ EraseDone
         \/ CountMore \/ CountDone \/ CountError
         \/ OpenError \/ WriteError \/ Return
  PROVE  TypeOK'
<1> USE DEF TypeOK, InitPcs, CallPcs, Goto, Fault, keyVars, dataVars, opVars,
           foundVars
<1>0. op.seq \in Nat /\ op.seq + 1 \in Nat
  BY CallFields
<1>a. ASSUME Failed
      PROVE  want' \in Want
  BY <1>a, WantUpdates DEF Failed
<1>1. CASE Unlink
  <2>1. op' \in Call /\ op'.off <= op'.len
    BY <1>0, <1>1, CallUpdates DEF Unlink
  <2>2. /\ DOMAIN files' \subseteq Nat
        /\ \A s \in DOMAIN files' : files'[s] \in Seq(Mark)
    BY <1>1 DEF Unlink
  <2> QED BY <1>1, <2>1, <2>2 DEF Unlink
<1>2. CASE UnlinkError
  BY <1>2, <1>a DEF UnlinkError
<1>3. CASE EraseDone
  <2>1. op' \in Call /\ op'.off <= op'.len
    BY <1>3, CallUpdates DEF EraseDone
  <2> QED BY <1>3, <2>1 DEF EraseDone
<1>4. CASE CountMore
  <2>1. op' \in Call /\ op'.off <= op'.len
    BY <1>0, <1>4, CallUpdates DEF CountMore
  <2> QED BY <1>4, <2>1 DEF CountMore
<1>5. CASE CountDone
  <2>1. op' \in Call /\ op'.off <= op'.len
    BY <1>0, <1>5, CallUpdates DEF CountDone
  <2> QED BY <1>5, <2>1 DEF CountDone
<1>6. CASE OpenError
  BY <1>6, <1>a DEF OpenError
<1>7. CASE WriteError
  BY <1>7, <1>a DEF WriteError
<1>8. CASE Return
  <2>1. MarksOf(op) \in Seq(Mark)
    BY MarksOfType
  <2>2. (want.known /\ ~miscounted) \in BOOLEAN
    BY ZenonT(10)
  <2>3. want' \in Want
    BY <1>8, <2>1, <2>2, WantUpdates DEF Return
  <2> QED BY <1>8, <2>3 DEF Return
<1>9. CASE CountError
  <2>1. op' \in Call /\ op'.off <= op'.len
    BY <1>0, <1>9, CallUpdates DEF CountError
  <2> QED BY <1>9, <2>1 DEF CountError
<1> QED BY <1>1, <1>2, <1>3, <1>4, <1>5, <1>6, <1>7, <1>8, <1>9

\* The steps of chunk_write().
LEMMA ChunkStepTyped ==
  ASSUME TypeOK, Open \/ Close \/ CloseError
  PROVE  TypeOK'
<1> USE DEF TypeOK, InitPcs, CallPcs, Goto, Fault, keyVars, dataVars, opVars,
           foundVars
<1>0. /\ op.len \in 0..MaxLen /\ op.off \in 0..MaxLen
      /\ op.seq \in Nat /\ op.seq + 1 \in Nat
      /\ NextLen(op) \in Nat
      /\ op.off + NextLen(op) \in 0..MaxLen
      /\ op.off + NextLen(op) <= op.len
  <2>1. op.len \in 0..MaxLen /\ op.off \in 0..MaxLen /\ op.seq \in Nat
    BY CallFields
  <2>2. op.len \in Nat /\ op.off \in Nat /\ op.off <= op.len
    BY <2>1
  <2>3. NextLen(op) \in Nat /\ op.off + NextLen(op) <= op.len
    BY <2>2, NextLenBounds
  <2> QED BY <2>1, <2>2, <2>3
<1>1. CASE Open
  <2>1. <<>> \in Seq(Mark)
    OBVIOUS
  <2>2. /\ DOMAIN files' = DOMAIN files \cup {op.seq}
        /\ \A s \in DOMAIN files' :
             files'[s] = IF s \in DOMAIN files THEN files[s] ELSE <<>>
    BY <1>1 DEF Open
  <2>3. /\ DOMAIN files' \subseteq Nat
        /\ \A s \in DOMAIN files' : files'[s] \in Seq(Mark)
    BY <1>0, <2>1, <2>2
  <2> QED BY <1>1, <2>3 DEF Open
<1>2. ASSUME NextChunk
      PROVE  op' \in Call /\ op'.off <= op'.len
  <2>1. op' = [op EXCEPT !.off = op.off + NextLen(op), !.seq = op.seq + 1]
    BY <1>2 DEF NextChunk
  <2> QED BY <1>0, <2>1, CallUpdates
<1>3. CASE Close
  <2> DEFINE new == [i \in 1..NextLen(op) |-> NextMark]
  <2>1. ops \in Nat /\ ud_key \in Nat /\ op.off \in Nat
    BY <1>0
  <2>2. NextMark \in Mark
    BY <1>0, <2>1 DEF NextMark, Mark
  <2>3. new \in Seq(Mark)
    BY <1>0, <2>2
  <2>4. files' = [files EXCEPT ![op.seq] = Overlay(new, files[op.seq])]
    BY <1>3 DEF Close
  <2> HIDE DEF new
  <2>5. \A s \in DOMAIN files : Overlay(new, files[s]) \in Seq(Mark)
    BY <2>3, OverlayUnits
  <2>6. /\ DOMAIN files' \subseteq Nat
        /\ \A s \in DOMAIN files' : files'[s] \in Seq(Mark)
    BY <2>4, <2>5
  <2>7. op' \in Call /\ op'.off <= op'.len
    BY <1>2, <1>3 DEF Close
  <2> QED BY <1>3, <2>6, <2>7 DEF Close
<1>4. CASE CloseError
  <2>1. op' \in Call /\ op'.off <= op'.len
    BY <1>2, <1>4 DEF CloseError
  <2> QED BY <1>4, <2>1 DEF CloseError
<1> QED BY <1>1, <1>3, <1>4

\* All the steps of a call.
LEMMA CallStepTyped ==
  ASSUME TypeOK,
         \/ \E len \in 0..MaxLen : UserDataWrite(len) \/ UserDataAppend(len)
         \/ UserDataErase \/ Unlink \/ UnlinkError \/ EraseDone
         \/ CountMore \/ CountDone \/ CountError
         \/ Open \/ OpenError \/ Close \/ WriteError \/ CloseError \/ Return
  PROVE  TypeOK'
<1>1. 0 \in 0..MaxLen /\ "erase" \in CallPcs /\ "count" \in CallPcs
  BY DEF CallPcs
<1>2. CASE \E len \in 0..MaxLen : UserDataWrite(len) \/ UserDataAppend(len)
  BY <1>1, <1>2, BeginTyped DEF UserDataWrite, UserDataAppend
<1>3. CASE UserDataErase
  BY <1>1, <1>3, BeginTyped DEF UserDataErase
<1> QED BY <1>2, <1>3, WalkStepTyped, ChunkStepTyped

\* A step that changes nothing.
LEMMA StutterTyped ==
  ASSUME TypeOK, UNCHANGED vars
  PROVE  TypeOK'
BY DEF TypeOK, vars, keyVars, dataVars, opVars, foundVars

\* All steps together.
LEMMA NextTyped ==
  ASSUME TypeOK, [Next]_vars
  PROVE  TypeOK'
<1>1. CASE \/ InitLoad \/ InitLoadError \/ InitImport \/ InitGenerate
           \/ InitSave \/ InitError \/ InitRetry \/ Crash
  BY <1>1, KeyStepTyped
<1>2. CASE \/ \E len \in 0..MaxLen : UserDataWrite(len) \/ UserDataAppend(len)
           \/ UserDataErase \/ Unlink \/ UnlinkError \/ EraseDone
           \/ CountMore \/ CountDone \/ CountError
           \/ Open \/ OpenError \/ Close \/ WriteError \/ CloseError \/ Return
  BY <1>2, CallStepTyped
<1>3. CASE UserDataRead \/ UNCHANGED vars
  BY <1>3, StutterTyped DEF UserDataRead
<1> QED BY <1>1, <1>2, <1>3 DEF Next

(***************************************************************************)
(* Every variable of the user data keeps its type; no call writes past the *)
(* end of its buffer (off <= len).                                         *)
(***************************************************************************)
THEOREM TypeCorrect == Spec => []TypeOK
<1>1. TypeOK /\ [Next]_vars => TypeOK'
  BY NextTyped
<1> QED BY InitTyped, <1>1, PTL DEF Spec

-----------------------------------------------------------------------------
(* The key outlives the data.                                              *)

\* Where the units of a file that was written over come from.
LEMMA OverlayOrigin ==
  ASSUME NEW new \in Seq(Mark), NEW old \in Seq(Mark),
         NEW i \in 1..Len(Overlay(new, old))
  PROVE  \/ i \in 1..Len(new) /\ Overlay(new, old)[i] = new[i]
         \/ i \in 1..Len(old) /\ Overlay(new, old)[i] = old[i]
<1> DEFINE n == IF Len(new) > Len(old) THEN Len(new) ELSE Len(old)
<1>1. n \in Nat /\ Len(new) \in Nat /\ Len(old) \in Nat
  OBVIOUS
<1>2. Overlay(new, old) = [j \in 1..n |-> IF j <= Len(new) THEN new[j] ELSE old[j]]
  BY DEF Overlay
<1>3. Len(Overlay(new, old)) = n
  BY <1>1, <1>2
<1> QED BY <1>1, <1>2, <1>3

\* A unit on the flash was there before the step, or chunk_write() has just
\* put it there, encrypted under ud_key.
LEMMA UnitOrigin ==
  ASSUME TypeOK, [Next]_vars,
         NEW s \in DOMAIN files', NEW i \in 1..Len(files'[s])
  PROVE  \/ /\ s \in DOMAIN files
            /\ i \in 1..Len(files[s])
            /\ files'[s][i] = files[s][i]
         \/ pc = "close" /\ files'[s][i].key = ud_key
<1>1. CASE UNCHANGED files
  BY <1>1
<1>2. CASE Unlink
  <2>1. s \in DOMAIN files /\ files'[s] = files[s]
    BY <1>2 DEF Unlink
  <2> QED BY <2>1
<1>3. CASE Open
  <2>1. files'[s] = IF s \in DOMAIN files THEN files[s] ELSE <<>>
    BY <1>3 DEF Open
  <2>2. CASE s \in DOMAIN files
    BY <2>1, <2>2
  <2>3. CASE s \notin DOMAIN files
    <3>1. Len(files'[s]) = 0
      BY <2>1, <2>3
    <3> QED BY <3>1
  <2> QED BY <2>2, <2>3
<1>4. CASE Close
  <2> DEFINE new == [j \in 1..NextLen(op) |-> NextMark]
  <2>1. /\ op.len \in Nat /\ op.off \in Nat /\ op.off <= op.len
        /\ ops \in Nat /\ ud_key \in Nat
    BY CallFields DEF TypeOK
  <2>2. NextLen(op) \in Nat
    BY <2>1, NextLenBounds
  <2>3. NextMark \in Mark /\ NextMark.key = ud_key
    BY <2>1, <2>2 DEF NextMark, Mark
  <2>4. new \in Seq(Mark) /\ \A j \in 1..Len(new) : new[j].key = ud_key
    BY <2>2, <2>3
  <2>5. /\ files' = [files EXCEPT ![op.seq] = Overlay(new, files[op.seq])]
        /\ pc = "close"
    BY <1>4 DEF Close, Goto
  <2> HIDE DEF new
  <2>6. s \in DOMAIN files /\ files[s] \in Seq(Mark)
    BY <2>5 DEF TypeOK
  <2>7. CASE s # op.seq
    BY <2>5, <2>6, <2>7
  <2>8. CASE s = op.seq
    <3>1. files'[s] = Overlay(new, files[s])
      BY <2>5, <2>6, <2>8
    <3>2. \/ i \in 1..Len(new) /\ files'[s][i] = new[i]
          \/ i \in 1..Len(files[s]) /\ files'[s][i] = files[s][i]
      BY <2>4, <2>6, <3>1, OverlayOrigin
    <3> QED BY <2>4, <2>5, <2>6, <3>2
  <2> QED BY <2>7, <2>8
<1>5. ~Unlink /\ ~Open /\ ~Close => UNCHANGED files
  BY DEF Next, InitLoad, InitLoadError, InitImport, InitGenerate, InitSave,
         InitError, InitRetry, UserDataWrite, UserDataAppend, UserDataErase,
         Begin, UserDataRead, UnlinkError, EraseDone, CountMore, CountDone,
         CountError, OpenError, WriteError, CloseError, Return, Crash, Failed, vars,
         dataVars
<1> QED BY <1>1, <1>2, <1>3, <1>4, <1>5

\* What of KeyInv is about the variables of the key alone.
KeyVarsInv ==
  /\ ud_ready => nvs_key = ud_key /\ nvs_key # 0
  /\ pc \in InitPcs => ~ud_ready
  /\ pc \in CallPcs => ud_ready
  /\ ud_key_loaded => nvs_key = ud_key_raw /\ nvs_key # 0
  /\ pc = "import" => ud_key_loaded
  /\ pc \in {"generate", "save"} => ~ud_key_loaded
  /\ pc = "save" => ud_key = ud_key_raw /\ ud_key # 0

\* A call leaves the key alone and goes from step to step of a call.
LEMMA CallLeavesKey ==
  ASSUME TypeOK, Next,
         ~InitLoad, ~InitLoadError, ~InitImport, ~InitGenerate, ~InitSave,
         ~InitError, ~InitRetry, ~Crash
  PROVE  /\ UNCHANGED keyVars
         /\ \/ pc' = pc
            \/ pc' \in CallPcs /\ ud_ready /\ pc = "idle"
            \/ pc' \in CallPcs \cup {"idle"} /\ pc \in CallPcs
<1> USE DEF CallPcs, Goto
<1>1. CASE \E len \in 0..MaxLen : UserDataWrite(len) \/ UserDataAppend(len)
  BY <1>1 DEF UserDataWrite, UserDataAppend, Begin
<1>2. CASE UserDataErase \/ UserDataRead
  BY <1>2 DEF UserDataErase, UserDataRead, Begin, vars
<1>3. CASE Unlink \/ UnlinkError \/ EraseDone \/ CountMore \/ CountDone \/ CountError
  BY <1>3 DEF Unlink, UnlinkError, EraseDone, CountMore, CountDone, CountError
<1>4. CASE Open \/ OpenError \/ Close \/ WriteError \/ CloseError \/ Return
  BY <1>4 DEF Open, OpenError, Close, WriteError, CloseError, Return
<1> QED BY <1>1, <1>2, <1>3, <1>4 DEF Next

\* Where the key is at each point of user_data_init().
LEMMA KeyVarsStep ==
  ASSUME TypeOK, KeyVarsInv, [Next]_vars
  PROVE  KeyVarsInv'
<1> USE DEF KeyVarsInv, InitPcs, CallPcs, Goto, keyVars
<1>1. CASE InitLoad
  BY <1>1 DEF InitLoad
<1>2. CASE InitLoadError
  BY <1>2 DEF InitLoadError
<1>3. CASE InitImport
  BY <1>3 DEF InitImport
<1>4. CASE InitGenerate
  <2>1. next_key # 0
    BY DEF TypeOK
  <2> QED BY <1>4, <2>1 DEF InitGenerate
<1>5. CASE InitSave
  BY <1>5 DEF InitSave
<1>6. CASE InitError
  BY <1>6 DEF InitError
<1>7. CASE InitRetry
  BY <1>7 DEF InitRetry
<1>8. CASE Crash
  BY <1>8 DEF Crash
<1>9. CASE UNCHANGED vars
  BY <1>9 DEF vars
<1> QED BY <1>1, <1>2, <1>3, <1>4, <1>5, <1>6, <1>7, <1>8, <1>9, CallLeavesKey

\* The stored key changes in one step only, and never over another in silence.
LEMMA StoredKeyStep ==
  ASSUME [Next]_vars
  PROVE  /\ nvs_key' = nvs_key \/ nvs_key = 0 \/ key_replaced'
         /\ key_replaced => key_replaced'
<1>1. CASE InitSave
  BY <1>1 DEF InitSave
<1>2. CASE ~InitSave
  <2>1. UNCHANGED <<nvs_key, key_replaced>>
    BY <1>2 DEF Next, InitLoad, InitLoadError, InitImport, InitGenerate,
       InitError, InitRetry, UserDataWrite, UserDataAppend, UserDataErase,
       Begin, UserDataRead, Unlink, UnlinkError, EraseDone, CountMore,
       CountDone, CountError, Open, OpenError, Close, WriteError, CloseError, Return,
       Crash, vars, keyVars
  <2> QED BY <2>1
<1> QED BY <1>1, <1>2

\* All steps together.
LEMMA KeyStep ==
  ASSUME TypeOK, KeyInv, KeyOutlivesData, [Next]_vars
  PROVE  KeyInv' /\ KeyOutlivesData'
<1>1. KeyVarsInv
  BY DEF KeyInv, KeyVarsInv
<1>2. KeyVarsInv'
  BY <1>1, KeyVarsStep
<1>3. pc = "close" => ud_key = nvs_key /\ ud_key # 0
  BY DEF KeyInv, CallPcs
<1>4. ASSUME NEW s \in DOMAIN files', NEW i \in 1..Len(files'[s])
      PROVE  /\ files'[s][i].key # 0
             /\ key_replaced \/ files'[s][i].key = nvs_key
  BY <1>3, <1>4, UnitOrigin DEF KeyInv, KeyOutlivesData
<1>5. KeyInv'
  BY <1>2, <1>4 DEF KeyInv, KeyVarsInv
<1>6. KeyOutlivesData'
  BY <1>4, StoredKeyStep DEF KeyOutlivesData
<1> QED BY <1>5, <1>6

\* At first there is neither a key nor a file.
LEMMA KeyInit == Init => KeyInv /\ KeyOutlivesData
<1> SUFFICES ASSUME Init PROVE KeyInv /\ KeyOutlivesData
  OBVIOUS
<1>1. DOMAIN files = {}
  <2>1. files = <<>>
    BY DEF Init
  <2> QED BY <2>1
<1>2. KeyOutlivesData
  BY <1>1 DEF KeyOutlivesData
<1>3. KeyVarsInv
  BY DEF Init, KeyVarsInv, InitPcs, CallPcs
<1> QED BY <1>1, <1>2, <1>3 DEF KeyInv, KeyVarsInv

(***************************************************************************)
(* What is encrypted on the flash is encrypted under the key in NVS,       *)
(* through failed and interrupted calls and power loss at any step, until  *)
(* a failed settings_load() has user_data_init() replace that key.         *)
(***************************************************************************)
THEOREM KeyOutlivesDataSafe == Spec => []KeyOutlivesData
<1>1. TypeOK /\ KeyInv /\ KeyOutlivesData /\ [Next]_vars
        => KeyInv' /\ KeyOutlivesData'
  BY KeyStep
<1> QED BY KeyInit, <1>1, TypeCorrect, PTL DEF Spec

-----------------------------------------------------------------------------
(* An append keeps what is there.                                          *)

\* What an append does to the files, it does from seq on.
LEMMA AppendStep ==
  ASSUME TypeOK, AppendInv, [Next]_vars
  PROVE  AppendInv'
<1> USE DEF AppendInv, Goto, keyVars, dataVars, opVars, foundVars
<1>0. op.seq \in Nat /\ op.base \in Nat /\ op \in Call
  BY CallFields DEF TypeOK
<1>1. CASE /\ UNCHANGED <<op, files, foundVars>>
           /\ pc' = pc \/ pc' \notin {"erase", "count", "chunk", "close"}
  BY <1>1
<1>2. ASSUME NEW kind, NEW len, NEW to, Begin(kind, len, to),
             <<kind, to>> \in {<<"write", "erase">>, <<"erase", "erase">>,
                               <<"append", "count">>}
      PROVE  AppendInv'
  <2>1. /\ op'.kind = kind /\ op'.seq = 0 /\ pc' = to
        /\ ~miscounted' /\ files' = files
        /\ kind = "append" => found' = files
    BY <1>2 DEF Begin, NewCall
  <2>2. 0..(op'.seq - 1) = {}
    BY <2>1
  <2> QED BY <1>2, <2>1, <2>2
<1>3. CASE Unlink \/ EraseDone
  <2>1. pc = "erase" /\ pc' \in {"erase", "chunk"} /\ op'.kind = op.kind
    BY <1>0, <1>3 DEF Unlink, EraseDone, Call
  <2> QED BY <2>1
<1>4. CASE CountMore
  <2>1. /\ op' = [op EXCEPT !.seq = op.seq + 1]
        /\ op.seq \in DOMAIN files /\ UNCHANGED <<files, found, miscounted>>
        /\ pc = "count" /\ pc' = "count"
    BY <1>4 DEF CountMore
  <2>2. op'.seq = op.seq + 1 /\ op'.kind = op.kind
    BY <1>0, <2>1 DEF Call
  <2>3. \A s \in 0..(op'.seq - 1) : s = op.seq \/ s \in 0..(op.seq - 1)
    BY <1>0, <2>2
  <2> QED BY <2>1, <2>2, <2>3
<1>5. CASE CountDone \/ CountError
  <2>1. /\ op' = [op EXCEPT !.base = op.seq] /\ UNCHANGED <<files, found>>
        /\ pc = "count" /\ pc' = "chunk"
        /\ ~miscounted' => op.seq \notin DOMAIN files
    BY <1>5 DEF CountDone, CountError
  <2>2. op'.seq = op.seq /\ op'.base = op.seq /\ op'.kind = op.kind
    BY <1>0, <2>1 DEF Call
  <2> QED BY <1>0, <2>1, <2>2
<1>6. CASE Open
  <2>1. /\ DOMAIN files' = DOMAIN files \cup {op.seq} /\ op' = op
        /\ \A s \in DOMAIN files : files'[s] = files[s]
        /\ UNCHANGED <<found, miscounted>> /\ pc = "chunk" /\ pc' = "close"
    BY <1>6 DEF Open
  <2> QED BY <2>1
<1>7. CASE Close \/ CloseError
  <2>1. /\ op' = [op EXCEPT !.off = op.off + NextLen(op), !.seq = op.seq + 1]
        /\ DOMAIN files' = DOMAIN files
        /\ \A s \in DOMAIN files \ {op.seq} : files'[s] = files[s]
        /\ UNCHANGED <<found, miscounted>> /\ pc = "close" /\ pc' = "chunk"
    BY <1>7 DEF Close, CloseError, NextChunk
  <2>2. op'.seq = op.seq + 1 /\ op'.base = op.base /\ op'.kind = op.kind
    BY <1>0, <2>1 DEF Call
  <2>3. op.base <= op.seq => op.seq \notin 0..(op.base - 1)
    BY <1>0
  <2>4. op.base <= op.seq => op'.base <= op'.seq
    BY <1>0, <2>2
  <2> QED BY <2>1, <2>2, <2>3, <2>4
<1>8. \/ UNCHANGED <<op, files, foundVars>>
         /\ (pc' = pc \/ pc' \notin {"erase", "count", "chunk", "close"})
      \/ Unlink \/ EraseDone \/ CountMore \/ CountDone \/ CountError
      \/ Open \/ Close \/ CloseError
      \/ \E len \in 0..MaxLen : UserDataWrite(len) \/ UserDataAppend(len)
      \/ UserDataErase
  BY DEF Next, InitLoad, InitLoadError, InitImport, InitGenerate, InitSave,
         InitError, InitRetry, UserDataRead, UnlinkError, OpenError,
         WriteError, Return, Crash, vars
<1> QED BY <1>1, <1>2, <1>3, <1>4, <1>5, <1>6, <1>7, <1>8
        DEF UserDataWrite, UserDataAppend, UserDataErase

(***************************************************************************)
(* From its beginning on, an append neither changes nor removes a chunk of *)
(* the chain it found, whether it ends well, fails, or is cut short by a   *)
(* power loss - unless a failing fs_stat() hid one of them from its count. *)
(***************************************************************************)
THEOREM AppendKeepsPrefixSafe == Spec => AppendKeepsPrefix
<1>1. Init => AppendInv
  BY DEF Init, AppendInv, NewCall
<1>2. TypeOK /\ AppendInv /\ [Next]_vars => AppendInv'
  BY AppendStep
<1>3. TypeOK /\ AppendInv /\ [Next]_vars =>
        [op.kind = "append" /\ pc \in {"count", "chunk", "close"}
           /\ ~miscounted =>
           \A s \in DOMAIN found : 0..s \subseteq DOMAIN found =>
             s \in DOMAIN files' /\ files'[s] = found[s]]_vars
  <2> SUFFICES ASSUME TypeOK, AppendInv, Next, op.kind = "append",
                      pc \in {"count", "chunk", "close"}, ~miscounted,
                      NEW s \in DOMAIN found, 0..s \subseteq DOMAIN found
               PROVE  s \in DOMAIN files' /\ files'[s] = found[s]
    BY DEF vars, keyVars, dataVars, opVars, foundVars
  <2>1. CASE pc = "count"
    <3>1. UNCHANGED files
      BY <2>1 DEF Next, InitLoad, InitLoadError, InitImport, InitGenerate,
         InitSave, InitError, InitRetry, UserDataWrite, UserDataAppend,
         UserDataErase, Begin, UserDataRead, Unlink, UnlinkError, EraseDone,
         CountMore, CountDone, CountError, Open, OpenError, Close,
         WriteError, CloseError, Return, Crash, Failed, vars, dataVars, Goto
    <3>2. files = found
      BY <2>1 DEF AppendInv
    <3> QED BY <3>1, <3>2
  <2>2. CASE pc \in {"chunk", "close"}
    <3>1. /\ op.base \in Nat /\ op.seq \in Nat /\ op.base <= op.seq
          /\ op.base \notin DOMAIN found
      BY <2>2, CallFields DEF AppendInv, TypeOK
    <3>2. s \in 0..(op.base - 1)
      <4>1. s \in Nat
        BY DEF TypeOK
      <4>2. op.base \notin 0..s
        BY <3>1
      <4> QED BY <3>1, <4>1, <4>2
    <3>3. s \in DOMAIN files /\ files[s] = found[s] /\ s # op.seq
      BY <2>2, <3>1, <3>2 DEF AppendInv
    <3>4. CASE UNCHANGED files
      BY <3>3, <3>4
    <3>5. CASE Open
      BY <3>3, <3>5 DEF Open
    <3>6. CASE Close
      BY <3>3, <3>6 DEF Close
    <3>7. Open \/ Close \/ UNCHANGED files
      BY <2>2 DEF Next, InitLoad, InitLoadError, InitImport, InitGenerate,
         InitSave, InitError, InitRetry, UserDataWrite, UserDataAppend,
         UserDataErase, Begin, UserDataRead, Unlink, UnlinkError, EraseDone,
         CountMore, CountDone, CountError, OpenError, WriteError, CloseError,
         Return, Crash, Failed, vars, dataVars, Goto
    <3> QED BY <3>4, <3>5, <3>6, <3>7
  <2> QED BY <2>1, <2>2
<1> QED BY <1>1, <1>2, <1>3, TypeCorrect, PTL DEF Spec, AppendKeepsPrefix

-----------------------------------------------------------------------------
(* What is read is what was written.                                       *)

\* The number of full chunks, rounded up, is where the last one ends.
LEMMA ChunkCountIs ==
  ASSUME NEW a \in Nat, NEW c \in Nat \ {0}, NEW k \in Nat,
         a <= k * c, (k - 1) * c < a
  PROVE  (a + c - 1) \div c = k
<1> DEFINE q == (a + c - 1) \div c
<1>1. q \in Nat /\ c * q <= a + c - 1 /\ a + c - 1 < c * q + c
  OBVIOUS
<1>2. (k - 1) * c = c * k - c /\ k * c = c * k /\ c * k \in Nat /\ c * q \in Nat
  BY <1>1
<1> HIDE DEF q
<1>3. CASE q < k
  <2>1. c * (q + 1) <= c * k
    BY <1>1, <1>3
  <2>2. c * (q + 1) = c * q + c
    BY <1>1
  <2> QED BY <1>1, <1>2, <2>1, <2>2
<1>4. CASE q > k
  <2>1. c * (k + 1) <= c * q
    BY <1>1, <1>4
  <2>2. c * (k + 1) = c * k + c
    BY <1>1
  <2> QED BY <1>1, <1>2, <2>1, <2>2
<1> QED BY <1>1, <1>3, <1>4 DEF q

\* From the end of a full chunk, the next one ends full or at the end.
LEMMA NextChunkEnd ==
  ASSUME NEW a \in Nat, NEW c \in Nat \ {0}, NEW k \in Nat,
         NEW off \in Nat, off < a, off = k * c,
         NEW d, d = IF a - off < c THEN a - off ELSE c
  PROVE  /\ off + d <= (k + 1) * c
         /\ k * c < off + d
         /\ off + d < a => off + d = (k + 1) * c
<1>1. (k + 1) * c = k * c + c /\ k * c \in Nat
  OBVIOUS
<1> QED BY <1>1

\* A chunk's mark has the call's length, number and key in it, and no more.
MarkOf(len, n, key, i) ==
  [op |-> n, idx |-> (i - 1) * ChunkMax,
   len |-> IF len - (i - 1) * ChunkMax < ChunkMax
           THEN len - (i - 1) * ChunkMax ELSE ChunkMax,
   key |-> key]

\* The mark depends on nothing else of the call.
LEMMA ChunkMarkIs ==
  ASSUME op \in Call, NEW i
  PROVE  ChunkMark(op, i) = MarkOf(op.len, ops, ud_key, i)
<1> DEFINE off == (i - 1) * ChunkMax
           o == [op EXCEPT !.off = off]
<1>1. o.len = op.len /\ o.off = off
  BY DEF Call
<1> HIDE DEF o
<1>2. NextLen(o) = IF op.len - off < ChunkMax THEN op.len - off ELSE ChunkMax
  BY <1>1 DEF NextLen
<1>3. ChunkMark(op, i) = [op |-> ops, idx |-> off, len |-> NextLen(o),
                          key |-> ud_key]
  BY DEF ChunkMark, o
<1> QED BY <1>2, <1>3 DEF MarkOf

\* A step of a call leaves the marks of its chunks as they are.
LEMMA MarksStay ==
  ASSUME op \in Call, op' \in Call, op'.len = op.len, ops' = ops,
         ud_key' = ud_key, NEW i
  PROVE  ChunkMark(op, i)' = ChunkMark(op, i)
<1> DEFINE off == (i - 1) * ChunkMax
           o == [op' EXCEPT !.off = off]
<1>1. o.len = op'.len /\ o.off = off
  BY DEF Call
<1> HIDE DEF o
<1>2. NextLen(o) = IF op.len - off < ChunkMax THEN op.len - off ELSE ChunkMax
  BY <1>1 DEF NextLen
<1>3. ChunkMark(op, i)' = [op |-> ops', idx |-> off, len |-> NextLen(o),
                           key |-> ud_key']
  BY DEF ChunkMark, NextLen, o
<1> QED BY <1>2, <1>3, ChunkMarkIs DEF MarkOf

\* The marks of a call that is done: as many as it wrote chunks, none empty.
LEMMA MarksDone ==
  ASSUME TypeOK, AtChunk, op.off = op.len
  PROVE  /\ Len(MarksOf(op)) = op.seq - op.base
         /\ \A i \in 1..(op.seq - op.base) :
              MarksOf(op)[i] = ChunkMark(op, i) /\ MarksOf(op)[i].len > 0
<1> DEFINE k == op.seq - op.base
<1>1. /\ op \in Call /\ op.len \in Nat /\ op.off \in Nat /\ op.seq \in Nat
      /\ op.base \in Nat
    BY CallFields DEF TypeOK
<1>2. k \in Nat /\ op.len <= k * ChunkMax /\ (k - 1) * ChunkMax < op.len
  BY <1>1 DEF AtChunk
<1> HIDE DEF k
<1>3. (op.len + ChunkMax - 1) \div ChunkMax = k
  BY <1>1, <1>2, ChunkCountIs
<1>4. MarksOf(op) = [i \in 1..k |-> ChunkMark(op, i)]
  BY <1>3 DEF MarksOf
<1>5. Len(MarksOf(op)) = k /\ \A i \in 1..k : MarksOf(op)[i] = ChunkMark(op, i)
  BY <1>2, <1>4
<1>6. ASSUME NEW i \in 1..k
      PROVE  ChunkMark(op, i).len > 0
  <2>1. ChunkMark(op, i) = MarkOf(op.len, ops, ud_key, i)
    BY <1>1, ChunkMarkIs
  <2>2. (i - 1) * ChunkMax < op.len /\ (i - 1) * ChunkMax \in Nat
    BY <1>1, <1>3, ChunkCount
  <2> QED BY <1>1, <2>1, <2>2 DEF MarkOf
<1> QED BY <1>5, <1>6 DEF k

\* The parts of DataInv.
CallInv ==
  /\ miscounted => op.kind = "append" /\ pc # "count"
  /\ pc = "erase" => op.kind # "append" /\ op.off = 0 /\ op.base = 0
  /\ pc = "count" => op.kind = "append" /\ op.off = 0
  /\ pc \in {"chunk", "close"} => AtChunk
  /\ pc = "close" => op.off < op.len

\* A call whose chunks are known to be where they belong.
Placed ==
  /\ pc \in {"chunk", "close"}
  /\ op.kind = "append" => want.known /\ ~miscounted

ContentInv ==
  /\ Placed => CallWrote
  /\ pc \notin {"erase", "chunk", "close"} /\ want.known
       => Holds(want.chunks)

NoEmptyMark == \A i \in 1..Len(want.chunks) : want.chunks[i].len > 0

\* The parts of DataInv.
LEMMA DataParts ==
  DataInv <=> /\ NoEmptyMark /\ CallInv
              /\ ~damaged => OneChain /\ ContentInv
BY DEF DataInv, CallInv, ContentInv, Placed, NoEmptyMark

\* And of it after a step.
LEMMA DataPartsNext ==
  ASSUME NoEmptyMark', CallInv', ~damaged' => OneChain' /\ ContentInv'
  PROVE  DataInv'
BY DEF DataInv, CallInv, ContentInv, Placed, NoEmptyMark

\* The chain an erase that is not cut short has left.
LEMMA NotCutShort ==
  ASSUME TypeOK, OneChain, pc = "erase" => ~CutShort
  PROVE  \A s \in DOMAIN files : 0..s \subseteq DOMAIN files
<1>1. DOMAIN files \subseteq Nat /\ op.seq \in Nat
  BY CallFields DEF TypeOK
<1>2. CASE pc = "erase"
  <2>1. \A s \in DOMAIN files : op.seq <= s /\ op.seq..s \subseteq DOMAIN files
    BY <1>2 DEF OneChain
  <2>2. CASE op.seq = 0
    BY <2>1, <2>2
  <2>3. CASE op.seq \notin DOMAIN files
    <3>1. ASSUME NEW s \in DOMAIN files
          PROVE  FALSE
      <4>1. op.seq \in op.seq..s
        BY <1>1, <2>1
      <4> QED BY <2>1, <2>3, <4>1
    <3> QED BY <3>1
  <2> QED BY <1>1, <1>2, <2>2, <2>3 DEF CutShort
<1>3. CASE pc # "erase"
  BY <1>3 DEF OneChain
<1> QED BY <1>2, <1>3

\* A step that ends a call with an error, or is none of a call.
LEMMA OutsideCall ==
  ASSUME TypeOK, DataInv, UNCHANGED <<files, op, torn, miscounted>>,
         want'.chunks = want.chunks, pc' \notin CallPcs,
         want'.known => want.known /\ pc \notin {"erase", "chunk", "close"},
         ~damaged' => ~damaged /\ (pc = "erase" => ~CutShort)
  PROVE  DataInv'
<1> USE DEF CallPcs
<1>1. NoEmptyMark'
  BY DataParts DEF NoEmptyMark
<1>2. CallInv'
  BY DataParts DEF CallInv
<1>3. ASSUME ~damaged'
      PROVE  OneChain' /\ ContentInv'
  <2>1. OneChain /\ ContentInv
    BY <1>3, DataParts
  <2>2. \A s \in DOMAIN files : 0..s \subseteq DOMAIN files
    BY <1>3, <2>1, NotCutShort
  <2>3. OneChain'
    BY <2>2 DEF OneChain
  <2>4. want'.known => Holds(want.chunks)
    BY <2>1 DEF ContentInv
  <2>5. ContentInv'
    BY <2>4 DEF ContentInv, Placed, Holds, HoldsChunk
  <2> QED BY <2>3, <2>5
<1> QED BY <1>1, <1>2, <1>3, DataPartsNext

\* user_data_init() and a power loss.
LEMMA KeyStepData ==
  ASSUME TypeOK, DataInv,
         \/ InitLoad \/ InitLoadError \/ InitImport \/ InitGenerate
         \/ InitSave \/ InitError \/ InitRetry \/ Crash
  PROVE  DataInv'
<1>1. CASE \/ InitLoad \/ InitLoadError \/ InitImport \/ InitGenerate
           \/ InitSave \/ InitError \/ InitRetry
  <2>1. /\ UNCHANGED <<files, want, damaged, torn, op, miscounted>>
        /\ pc \notin CallPcs /\ pc' \notin CallPcs
    BY <1>1 DEF InitLoad, InitLoadError, InitImport, InitGenerate, InitSave,
       InitError, InitRetry, Goto, CallPcs, InitPcs, dataVars, opVars,
       foundVars
  <2> QED BY <2>1, OutsideCall DEF CallPcs
<1>2. CASE Crash
  <2>1. /\ UNCHANGED <<files, torn, op, miscounted>> /\ pc' \notin CallPcs
        /\ damaged' = (damaged \/ (pc = "erase" /\ CutShort))
    BY <1>2 DEF Crash, CallPcs, opVars, foundVars
  <2>2. /\ want'.known = (want.known /\ pc \notin CallPcs)
        /\ want'.chunks = want.chunks
    BY <1>2 DEF Crash, TypeOK, Want
  <2> QED BY <2>1, <2>2, OutsideCall DEF CallPcs
<1> QED BY <1>1, <1>2

\* A call that fails before it changes a file.
LEMMA ErrorStepData ==
  ASSUME TypeOK, DataInv, UnlinkError \/ OpenError \/ WriteError
  PROVE  DataInv'
<1>1. /\ UNCHANGED <<files, op, torn, miscounted>> /\ pc' \notin CallPcs
      /\ Failed
      /\ ~damaged' => ~damaged /\ (pc = "erase" => ~CutShort)
  BY DEF UnlinkError, OpenError, WriteError, Goto, CallPcs, TypeOK, opVars,
     foundVars
<1>2. want'.chunks = want.chunks /\ ~want'.known
  BY <1>1 DEF Failed, TypeOK, Want
<1> QED BY <1>1, <1>2, OutsideCall

\* A call begins; nothing is done yet.
LEMMA BeginData ==
  ASSUME TypeOK, DataInv, NEW kind, NEW len, NEW to, Begin(kind, len, to),
         <<kind, to>> \in {<<"write", "erase">>, <<"erase", "erase">>,
                           <<"append", "count">>}
  PROVE  DataInv'
<1>1. /\ op' = NewCall(kind, len) /\ ~miscounted'
      /\ pc = "idle" /\ pc' = to /\ UNCHANGED <<files, want, damaged, torn>>
  BY DEF Begin, Goto, dataVars
<1>2. /\ op'.kind = kind /\ op'.off = 0 /\ op'.seq = 0 /\ op'.base = 0
  BY <1>1 DEF NewCall
<1>3. \/ to = "erase" /\ kind # "append"
      \/ to = "count" /\ kind = "append"
  OBVIOUS
<1>4. NoEmptyMark'
  BY <1>1, DataParts DEF NoEmptyMark
<1>5. CallInv'
  BY <1>1, <1>2, <1>3 DEF CallInv
<1>6. ASSUME ~damaged'
      PROVE  OneChain' /\ ContentInv'
  <2>1. OneChain /\ ContentInv /\ DOMAIN files \subseteq Nat
    BY <1>1, <1>6, DataParts DEF TypeOK
  <2>2. \A s \in DOMAIN files : 0..s \subseteq DOMAIN files /\ 0 <= s
    BY <1>1, <2>1 DEF OneChain
  <2>3. OneChain'
    BY <1>1, <1>2, <1>3, <2>2 DEF OneChain
  <2>4. ContentInv'
    BY <1>1, <1>3, <2>1 DEF ContentInv, Placed, Holds, HoldsChunk
  <2> QED BY <2>3, <2>4
<1> QED BY <1>4, <1>5, <1>6, DataPartsNext

\* erase_chunks() goes up the chain.
LEMMA UnlinkData ==
  ASSUME TypeOK, DataInv, Unlink
  PROVE  DataInv'
<1>1. /\ pc = "erase" /\ pc' = "erase"
      /\ UNCHANGED <<want, damaged, miscounted>>
      /\ op.seq \in DOMAIN files
      /\ DOMAIN files' = DOMAIN files \ {op.seq}
      /\ op' = [op EXCEPT !.seq = op.seq + 1]
  BY DEF Unlink, foundVars
<1>2. op \in Call /\ op.seq \in Nat /\ DOMAIN files \subseteq Nat
  BY CallFields DEF TypeOK
<1>3. /\ op'.kind = op.kind /\ op'.off = op.off /\ op'.base = op.base
      /\ op'.seq = op.seq + 1
  BY <1>1, <1>2 DEF Call
<1>4. NoEmptyMark' /\ CallInv'
  BY <1>1, <1>3, DataParts DEF NoEmptyMark, CallInv
<1>5. ASSUME ~damaged'
      PROVE  OneChain' /\ ContentInv'
  <2>1. \A s \in DOMAIN files : op.seq <= s /\ op.seq..s \subseteq DOMAIN files
    BY <1>1, <1>5, DataParts DEF OneChain
  <2>2. \A s \in DOMAIN files' :
          op'.seq <= s /\ op'.seq..s \subseteq DOMAIN files'
    BY <1>1, <1>2, <1>3, <2>1
  <2>3. OneChain'
    BY <1>1, <2>2 DEF OneChain
  <2>4. ContentInv'
    BY <1>1 DEF ContentInv, Placed
  <2> QED BY <2>3, <2>4
<1> QED BY <1>4, <1>5, DataPartsNext

\* The chain is gone.
LEMMA EraseDoneData ==
  ASSUME TypeOK, DataInv, EraseDone
  PROVE  DataInv'
<1>1. /\ pc = "erase" /\ pc' = "chunk"
      /\ UNCHANGED <<files, want, damaged, miscounted>>
      /\ op.seq \notin DOMAIN files
      /\ op' = [op EXCEPT !.seq = 0]
  BY DEF EraseDone, Goto, foundVars
<1>2. op \in Call /\ op.seq \in Nat /\ DOMAIN files \subseteq Nat
      /\ op.len \in Nat
  BY CallFields DEF TypeOK
<1>3. /\ op'.kind = op.kind /\ op'.off = op.off /\ op'.base = op.base
      /\ op'.seq = 0 /\ op'.len = op.len
  BY <1>1, <1>2 DEF Call
<1>4. op.kind # "append" /\ op.off = 0 /\ op.base = 0 /\ ~miscounted
  BY <1>1, DataParts DEF CallInv
<1>5. NoEmptyMark'
  BY <1>1, DataParts DEF NoEmptyMark
<1>6. CallInv'
  <2>1. (op'.seq - op'.base) * ChunkMax = 0
        /\ (op'.seq - op'.base - 1) * ChunkMax < 0
    BY <1>3, <1>4
  <2>2. AtChunk'
    BY <1>3, <1>4, <2>1 DEF AtChunk
  <2> QED BY <1>1, <1>4, <2>2 DEF CallInv
<1>7. ASSUME ~damaged'
      PROVE  OneChain' /\ ContentInv'
  <2>1. \A s \in DOMAIN files : op.seq <= s /\ op.seq..s \subseteq DOMAIN files
    BY <1>1, <1>7, DataParts DEF OneChain
  <2>2. DOMAIN files = {} /\ 0..(op'.seq - 1) = {}
    <3>1. ASSUME NEW s \in DOMAIN files
          PROVE  FALSE
      <4>1. s \in Nat /\ op.seq <= s
        BY <1>2, <2>1
      <4>2. op.seq \in op.seq..s
        BY <1>2, <4>1
      <4> QED BY <1>1, <2>1, <4>2
    <3>2. 0..(op'.seq - 1) = {}
      BY <1>3
    <3> QED BY <3>1, <3>2
  <2>3. OneChain'
    BY <1>1, <2>2 DEF OneChain
  <2>4. CallWrote'
    BY <1>3, <1>4, <2>2 DEF CallWrote
  <2> QED BY <1>1, <2>3, <2>4 DEF ContentInv
<1> QED BY <1>5, <1>6, <1>7, DataPartsNext

\* chunks_count() goes up the chain ...
LEMMA CountMoreData ==
  ASSUME TypeOK, DataInv, CountMore
  PROVE  DataInv'
<1>1. /\ pc = "count" /\ pc' = "count"
      /\ UNCHANGED <<files, want, damaged, torn, miscounted>>
      /\ op' = [op EXCEPT !.seq = op.seq + 1]
  BY DEF CountMore, dataVars, foundVars
<1>2. op \in Call
  BY DEF TypeOK
<1>3. op'.kind = op.kind /\ op'.off = op.off
  BY <1>1, <1>2 DEF Call
<1>4. NoEmptyMark' /\ CallInv'
  BY <1>1, <1>3, DataParts DEF NoEmptyMark, CallInv
<1>5. ASSUME ~damaged'
      PROVE  OneChain' /\ ContentInv'
  <2>1. OneChain /\ ContentInv
    BY <1>1, <1>5, DataParts
  <2>2. OneChain'
    BY <1>1, <2>1 DEF OneChain
  <2>3. ContentInv'
    BY <1>1, <2>1 DEF ContentInv, Placed, Holds, HoldsChunk
  <2> QED BY <2>2, <2>3
<1> QED BY <1>4, <1>5, DataPartsNext

\* ... to its end, or to what it takes for it: the append goes on from there.
LEMMA CountEndData ==
  ASSUME TypeOK, DataInv, AppendInv, CountDone \/ CountError
  PROVE  DataInv'
<1>0. op.kind = "append" /\ op.off = 0 /\ ~miscounted
  BY DataParts DEF CallInv, CountDone, CountError, Goto
<1>1. /\ pc = "count" /\ pc' = "chunk"
      /\ UNCHANGED <<files, want, damaged, torn>>
      /\ ~miscounted' => op.seq \notin DOMAIN files
      /\ op' = [op EXCEPT !.base = op.seq]
  BY DEF CountDone, CountError, Goto, dataVars
<1>2. op \in Call /\ op.seq \in Nat /\ DOMAIN files \subseteq Nat
      /\ op.len \in Nat /\ want.chunks \in Seq(Mark)
  BY CallFields DEF TypeOK, Want
<1>3. /\ op'.kind = op.kind /\ op'.off = op.off /\ op'.base = op.seq
      /\ op'.seq = op.seq /\ op'.len = op.len
  BY <1>1, <1>2 DEF Call
<1>5. NoEmptyMark'
  BY <1>1, DataParts DEF NoEmptyMark
<1>6. CallInv'
  <2>1. (op'.seq - op'.base) * ChunkMax = 0
        /\ (op'.seq - op'.base - 1) * ChunkMax < 0
    BY <1>2, <1>3
  <2>2. AtChunk'
    BY <1>0, <1>2, <1>3, <2>1 DEF AtChunk
  <2> QED BY <1>0, <1>1, <1>3, <2>2 DEF CallInv
<1>7. ASSUME ~damaged'
      PROVE  OneChain' /\ ContentInv'
  <2>1. OneChain /\ ContentInv
    BY <1>1, <1>7, DataParts
  <2>2. /\ \A s \in DOMAIN files : 0..s \subseteq DOMAIN files
        /\ \A s \in 0..(op.seq - 1) : s \in DOMAIN files
    BY <1>0, <1>1, <2>1 DEF OneChain, AppendInv
  <2>3. ASSUME ~miscounted'
        PROVE  DOMAIN files = 0..(op.seq - 1)
    <3>1. ASSUME NEW s \in DOMAIN files
          PROVE  s \in 0..(op.seq - 1)
      <4>1. s \in Nat /\ op.seq \notin 0..s
        BY <1>1, <1>2, <2>2, <2>3
      <4> QED BY <1>2, <4>1
    <3> QED BY <2>2, <3>1
  <2>4. OneChain'
    BY <1>1, <1>3, <2>2, <2>3 DEF OneChain
  <2>5. ASSUME want.known, ~miscounted'
        PROVE  CallWrote'
    <3>1. Holds(want.chunks)
      BY <1>1, <2>1, <2>5 DEF ContentInv
    <3>2. op.seq = Len(want.chunks)
      <4>1. 0..(op.seq - 1) = 0..(Len(want.chunks) - 1) /\ Len(want.chunks) \in Nat
        BY <1>2, <2>3, <2>5, <3>1 DEF Holds
      <4>2. ~(op.seq < Len(want.chunks)) /\ ~(Len(want.chunks) < op.seq)
        <5>1. op.seq \notin 0..(op.seq - 1)
              /\ Len(want.chunks) \notin 0..(Len(want.chunks) - 1)
          BY <1>2
        <5> QED BY <1>2, <4>1, <5>1
      <4> QED BY <1>2, <4>1, <4>2
    <3>3. \A s \in 0..(op.seq - 1) : HoldsChunk(files[s], want.chunks[s + 1])
      BY <2>2, <3>1 DEF Holds
    <3>4. \A s \in 0..(op'.seq - 1) : s < op'.base
      BY <1>2, <1>3
    <3> QED BY <1>1, <1>3, <3>2, <3>3, <3>4 DEF CallWrote, HoldsChunk
  <2>6. ContentInv'
    BY <1>0, <1>1, <1>3, <2>5 DEF ContentInv, Placed
  <2> QED BY <2>4, <2>6
<1> QED BY <1>5, <1>6, <1>7, DataPartsNext

\* A chunk is opened, behind the others if the call counted right.
LEMMA OpenData ==
  ASSUME TypeOK, DataInv, Open
  PROVE  DataInv'
<1>1. /\ pc = "chunk" /\ pc' = "close"
      /\ UNCHANGED <<op, ops, want, damaged, torn, miscounted>>
      /\ ud_key' = ud_key /\ op.off < op.len
      /\ files' = [s \in DOMAIN files \cup {op.seq} |->
                     IF s \in DOMAIN files THEN files[s] ELSE <<>>]
  BY DEF Open, Goto, keyVars, opVars, foundVars
<1>2. op \in Call /\ op.seq \in Nat /\ DOMAIN files \subseteq Nat
  BY CallFields DEF TypeOK
<1>3. NoEmptyMark' /\ CallInv'
  BY <1>1, DataParts DEF NoEmptyMark, CallInv, AtChunk
<1>4. ASSUME ~damaged'
      PROVE  OneChain' /\ ContentInv'
  <2>1. OneChain /\ ContentInv
    BY <1>1, <1>4, DataParts
  <2>2. /\ 0..(op.seq - 1) \subseteq DOMAIN files
        /\ \A s \in DOMAIN files : 0..s \subseteq DOMAIN files
        /\ ~miscounted => DOMAIN files = 0..(op.seq - 1)
    BY <1>1, <2>1 DEF OneChain
  <2>3. /\ DOMAIN files' = DOMAIN files \cup {op.seq}
        /\ \A s \in DOMAIN files : files'[s] = files[s]
        /\ op.seq \notin DOMAIN files => files'[op.seq] = <<>>
    BY <1>1
  <2>4. 0..op.seq = 0..(op.seq - 1) \cup {op.seq}
    BY <1>2
  <2>5. /\ \A s \in DOMAIN files' : 0..s \subseteq DOMAIN files'
        /\ 0..op.seq \subseteq DOMAIN files'
    BY <2>2, <2>3, <2>4
  <2>6. ~miscounted => DOMAIN files' = 0..op.seq /\ files'[op.seq] = <<>>
    <3>1. op.seq \notin 0..(op.seq - 1)
      BY <1>2
    <3> QED BY <2>2, <2>3, <2>4, <3>1
  <2>7. OneChain'
    BY <1>1, <2>5, <2>6 DEF OneChain
  <2>8. ASSUME CallWrote
        PROVE  CallWrote'
    <3>1. \A i : ChunkMark(op, i)' = ChunkMark(op, i)
      BY <1>1, <1>2, MarksStay
    <3>2. \A s \in 0..(op.seq - 1) : files'[s] = files[s]
      BY <2>2, <2>3
    <3> QED BY <1>1, <2>8, <3>1, <3>2 DEF CallWrote, HoldsChunk
  <2>9. ContentInv'
    BY <1>1, <2>1, <2>8 DEF ContentInv, Placed
  <2> QED BY <2>7, <2>9
<1> QED BY <1>3, <1>4, DataPartsNext

\* The call is at the end of the next chunk.
LEMMA NextChunkAt ==
  ASSUME TypeOK, DataInv, pc = "close", NextChunk
  PROVE  /\ AtChunk'
         /\ NextMark = ChunkMark(op, op.seq - op.base + 1)
         /\ NextLen(op) = NextMark.len /\ NextLen(op) \in Nat
         /\ op'.kind = op.kind /\ op'.base = op.base /\ op'.len = op.len
         /\ op'.seq = op.seq + 1
<1> DEFINE k == op.seq - op.base
<1>1. /\ op \in Call /\ op.len \in Nat /\ op.off \in Nat /\ op.seq \in Nat
      /\ op.base \in Nat
  BY CallFields DEF TypeOK
<1>2. /\ op'.kind = op.kind /\ op'.base = op.base /\ op'.len = op.len
      /\ op'.seq = op.seq + 1 /\ op'.off = op.off + NextLen(op)
  BY <1>1 DEF NextChunk, Call
<1>3. AtChunk /\ op.off < op.len
  BY DataParts DEF CallInv
<1>4. k \in Nat /\ op.off = k * ChunkMax
  BY <1>1, <1>3 DEF AtChunk
<1>5. NextLen(op) = IF op.len - op.off < ChunkMax THEN op.len - op.off ELSE ChunkMax
  BY DEF NextLen
<1>6. NextLen(op) \in Nat
  BY <1>1, <1>3, NextLenBounds
<1>7. op'.seq - op'.base = k + 1 /\ op'.seq - op'.base - 1 = k
  BY <1>1, <1>2
<1>8. AtChunk'
  <2> HIDE DEF k
  <2>1. /\ op'.off <= (k + 1) * ChunkMax
        /\ k * ChunkMax < op'.off
        /\ op'.off < op.len => op'.off = (k + 1) * ChunkMax
    BY <1>1, <1>2, <1>3, <1>4, <1>5, NextChunkEnd
  <2>2. op'.base <= op'.seq /\ (op'.kind # "append" => op'.base = 0)
    BY <1>1, <1>2, <1>3 DEF AtChunk
  <2> QED BY <1>2, <1>7, <2>1, <2>2 DEF AtChunk
<1>9. NextMark = ChunkMark(op, k + 1)
  <2>1. ChunkMark(op, k + 1) = MarkOf(op.len, ops, ud_key, k + 1)
    BY <1>1, ChunkMarkIs
  <2>2. (k + 1) - 1 = k
    BY <1>4
  <2> QED BY <1>4, <1>5, <2>1, <2>2 DEF MarkOf, NextMark
<1>10. NextMark.len = NextLen(op)
  BY DEF NextMark
<1> QED BY <1>2, <1>6, <1>8, <1>9, <1>10

\* Over an empty file, the new content is all there is.
LEMMA OverlayEmpty ==
  ASSUME NEW n \in Nat, NEW m
  PROVE  Overlay([i \in 1..n |-> m], <<>>) = [i \in 1..n |-> m]
<1> DEFINE new == [i \in 1..n |-> m]
<1>1. Len(new) = n /\ Len(<<>>) = 0
  OBVIOUS
<1>2. Overlay(new, <<>>) = [i \in 1..n |-> IF i <= n THEN new[i] ELSE <<>>[i]]
  <2>1. (IF Len(new) > Len(<<>>) THEN Len(new) ELSE Len(<<>>)) = n
    BY <1>1
  <2> HIDE DEF new
  <2> QED BY <1>1, <2>1 DEF Overlay
<1>3. \A i \in 1..n : (IF i <= n THEN new[i] ELSE <<>>[i]) = m
  OBVIOUS
<1> QED BY <1>2, <1>3

\* The chunk is committed, whole, or a failing fs_close() has lost it.
LEMMA CloseData ==
  ASSUME TypeOK, DataInv, Close \/ CloseError
  PROVE  DataInv'
<1>1. /\ pc = "close" /\ pc' = "chunk"
      /\ UNCHANGED <<ops, want, damaged, miscounted>>
      /\ ud_key' = ud_key /\ NextChunk
      /\ torn => torn'
  BY DEF Close, CloseError, Goto, keyVars, foundVars
<1>2. /\ op \in Call /\ op.seq \in Nat /\ op' \in Call
      /\ op.base \in Nat
  <2>1. op' \in Call
    BY NextTyped DEF Next, TypeOK
  <2> QED BY <2>1, CallFields DEF TypeOK
<1>3. /\ AtChunk'
      /\ NextMark = ChunkMark(op, op.seq - op.base + 1)
      /\ NextLen(op) = NextMark.len /\ NextLen(op) \in Nat
      /\ op'.kind = op.kind /\ op'.base = op.base /\ op'.len = op.len
      /\ op'.seq = op.seq + 1
  BY <1>1, NextChunkAt
<1>4. NoEmptyMark' /\ CallInv'
  BY <1>1, <1>3, DataParts DEF NoEmptyMark, CallInv
<1>5. Overlay([i \in 1..NextLen(op) |-> NextMark], <<>>) = Whole(NextMark)
  <2>1. PICK m : m = NextMark
    OBVIOUS
  <2>2. PICK n \in Nat : n = NextLen(op) /\ n = m.len
    BY <1>3, <2>1
  <2>3. Overlay([i \in 1..n |-> m], <<>>) = [i \in 1..n |-> m]
    BY OverlayEmpty
  <2> QED BY <2>1, <2>2, <2>3 DEF Whole
<1>6. /\ DOMAIN files' = DOMAIN files
      /\ \A s \in DOMAIN files : s # op.seq => files'[s] = files[s]
      /\ op.seq \in DOMAIN files /\ files[op.seq] = <<>> =>
           \/ files'[op.seq] = Whole(NextMark)
           \/ torn' /\ files'[op.seq] = <<>>
  <2>1. CASE Close
    <3>1. files' = [files EXCEPT ![op.seq] =
                      Overlay([i \in 1..NextLen(op) |-> NextMark], files[op.seq])]
      BY <2>1 DEF Close
    <3> QED BY <1>5, <3>1
  <2>2. CASE CloseError
    BY <2>2 DEF CloseError
  <2> QED BY <2>1, <2>2
<1>7. ASSUME ~damaged'
      PROVE  OneChain' /\ ContentInv'
  <2>1. OneChain /\ ContentInv
    BY <1>1, <1>7, DataParts
  <2>2. /\ 0..op.seq \subseteq DOMAIN files
        /\ \A s \in DOMAIN files : 0..s \subseteq DOMAIN files
        /\ ~miscounted => DOMAIN files = 0..op.seq /\ files[op.seq] = <<>>
    BY <1>1, <2>1 DEF OneChain
  <2>3. op'.seq - 1 = op.seq /\ op.seq \in 0..op.seq
    BY <1>2, <1>3
  <2>4. OneChain'
    BY <1>1, <1>6, <2>2, <2>3 DEF OneChain
  <2>5. ASSUME CallWrote, ~miscounted
        PROVE  CallWrote'
    <3>1. \A i : ChunkMark(op, i)' = ChunkMark(op, i)
      BY <1>1, <1>2, <1>3, MarksStay
    <3>2. op'.kind = "append" => op'.base = Len(want'.chunks)
      BY <1>1, <1>3, <2>5 DEF CallWrote
    <3>3. ASSUME NEW s \in 0..op.seq
          PROVE  LET m == IF s < op.base THEN want.chunks[s + 1]
                          ELSE ChunkMark(op, s - op.base + 1)
                 IN  files'[s] = Whole(m) \/ (torn' /\ files'[s] = <<>>)
      <4>1. CASE s = op.seq
        <5>1. ~(s < op.base)
          BY <1>1, <1>2, <4>1, DataParts DEF CallInv, AtChunk
        <5>2. \/ files'[s] = Whole(NextMark)
              \/ torn' /\ files'[s] = <<>>
          BY <1>6, <2>2, <2>3, <2>5, <4>1
        <5> QED BY <1>3, <4>1, <5>1, <5>2
      <4>2. CASE s # op.seq
        <5>1. s \in 0..(op.seq - 1) /\ s \in DOMAIN files
          BY <1>2, <2>2, <4>2
        <5>2. HoldsChunk(files[s], IF s < op.base THEN want.chunks[s + 1]
                                   ELSE ChunkMark(op, s - op.base + 1))
          BY <2>5, <5>1 DEF CallWrote
        <5>3. files'[s] = files[s]
          BY <1>6, <4>2, <5>1
        <5> QED BY <1>1, <5>2, <5>3 DEF HoldsChunk
      <4> QED BY <4>1, <4>2
    <3> QED BY <1>1, <1>3, <2>3, <3>1, <3>2, <3>3
            DEF CallWrote, HoldsChunk, Whole
  <2>6. Placed => ~miscounted
    BY DataParts DEF Placed, CallInv
  <2>7. ContentInv'
    BY <1>1, <1>3, <2>1, <2>5, <2>6 DEF ContentInv, Placed
  <2> QED BY <2>4, <2>7
<1> QED BY <1>4, <1>7, DataPartsNext

\* An element of two sequences put together.
LEMMA ConcatAt ==
  ASSUME NEW S, NEW a \in Seq(S), NEW b \in Seq(S),
         NEW i \in 1..Len(a \o b)
  PROVE  (a \o b)[i] = IF i <= Len(a) THEN a[i] ELSE b[i - Len(a)]
OBVIOUS

\* The call returns 0: the block is what is wanted.
LEMMA ReturnData ==
  ASSUME TypeOK, DataInv, Return
  PROVE  DataInv'
<1> DEFINE k == op.seq - op.base
           ms == MarksOf(op)
<1>1. /\ pc = "chunk" /\ pc' = "idle" /\ UNCHANGED <<files, damaged>>
      /\ UNCHANGED <<op, torn, miscounted>> /\ op.off = op.len
      /\ want' = IF op.kind = "append"
                 THEN [known  |-> want.known /\ ~miscounted,
                       chunks |-> want.chunks \o ms]
                 ELSE [known |-> TRUE, chunks |-> ms]
  BY DEF Return, Goto, opVars, foundVars
<1>2. /\ op.seq \in Nat /\ op.base \in Nat /\ want \in Want
      /\ want.chunks \in Seq(Mark)
  BY CallFields DEF TypeOK, Want
<1>3. AtChunk
  BY <1>1, DataParts DEF CallInv
<1>4. /\ ms \in Seq(Mark) /\ Len(ms) = k /\ k \in Nat
      /\ \A i \in 1..k : ms[i] = ChunkMark(op, i) /\ ms[i].len > 0
  BY <1>1, <1>2, <1>3, MarksOfType, MarksDone DEF AtChunk
<1> HIDE DEF ms
<1>5. want'.chunks = IF op.kind = "append" THEN want.chunks \o ms ELSE ms
  BY <1>1, <1>2 DEF Want
<1>6. want'.known => (op.kind = "append" => want.known /\ ~miscounted)
  BY <1>1
<1>7. NoEmptyMark'
  <2>1. CASE op.kind = "append"
    <3>1. \A i \in 1..Len(want.chunks \o ms) :
            (want.chunks \o ms)[i] =
               IF i <= Len(want.chunks) THEN want.chunks[i]
               ELSE ms[i - Len(want.chunks)]
      BY <1>2, <1>4
    <3>2. Len(want.chunks \o ms) = Len(want.chunks) + k
      BY <1>2, <1>4
    <3>3. \A i \in 1..Len(want.chunks) : want.chunks[i].len > 0
      BY DataParts DEF NoEmptyMark
    <3>4. ASSUME NEW i \in 1..Len(want.chunks \o ms)
          PROVE  (want.chunks \o ms)[i].len > 0
      <4>1. CASE i <= Len(want.chunks)
        BY <1>2, <3>1, <3>3, <4>1
      <4>2. CASE ~(i <= Len(want.chunks))
        <5>1. i - Len(want.chunks) \in 1..k
          BY <1>2, <1>4, <3>2, <4>2
        <5> QED BY <1>4, <3>1, <4>2, <5>1
      <4> QED BY <4>1, <4>2
    <3> QED BY <1>5, <2>1, <3>4 DEF NoEmptyMark
  <2>2. CASE op.kind # "append"
    BY <1>4, <1>5, <2>2 DEF NoEmptyMark
  <2> QED BY <2>1, <2>2
<1>8. CallInv'
  BY <1>1, DataParts DEF CallInv
<1>9. ASSUME ~damaged'
      PROVE  OneChain' /\ ContentInv'
  <2>1. OneChain /\ ContentInv
    BY <1>1, <1>9, DataParts
  <2>3. OneChain'
    BY <1>1, <2>1 DEF OneChain
  <2>4. ASSUME want'.known
        PROVE  Holds(want.chunks)'
    <3>0. Placed /\ ~miscounted
      BY <1>1, <1>6, <2>4, DataParts DEF Placed, CallInv
    <3>1. CallWrote
      BY <2>1, <3>0 DEF ContentInv
    <3>d. DOMAIN files = 0..(op.seq - 1)
      BY <1>1, <2>1, <3>0 DEF OneChain
    <3>2. CASE op.kind = "append"
      <4>1. Len(want.chunks) = op.base
        BY <3>1, <3>2 DEF CallWrote
      <4>2. Len(want'.chunks) = op.seq
        BY <1>2, <1>4, <1>5, <3>2, <4>1
      <4>3. ASSUME NEW s \in 0..(op.seq - 1)
            PROVE  want'.chunks[s + 1] =
                     IF s < op.base THEN want.chunks[s + 1]
                     ELSE ChunkMark(op, s - op.base + 1)
        <5>1. s + 1 \in 1..Len(want.chunks \o ms)
          BY <1>2, <1>5, <3>2, <4>2
        <5>2. CASE s < op.base
          <6>1. s + 1 <= Len(want.chunks)
            BY <1>2, <4>1, <5>2
          <6>2. (want.chunks \o ms)[s + 1] = want.chunks[s + 1]
            BY <1>2, <1>4, <5>1, <6>1, ConcatAt
          <6> QED BY <1>5, <3>2, <5>2, <6>2
        <5>3. CASE ~(s < op.base)
          <6>1. s - op.base + 1 \in 1..k
            BY <1>2, <5>3
          <6>2. want'.chunks[s + 1] = ms[s + 1 - op.base]
            <7>1. ~(s + 1 <= Len(want.chunks))
              BY <1>2, <4>1, <5>3
            <7>2. (want.chunks \o ms)[s + 1] = ms[s + 1 - Len(want.chunks)]
              <8>1. PICK i \in 1..Len(want.chunks \o ms) : i = s + 1
                BY <5>1
              <8>2. (want.chunks \o ms)[i] = IF i <= Len(want.chunks)
                      THEN want.chunks[i] ELSE ms[i - Len(want.chunks)]
                BY <1>2, <1>4, ConcatAt
              <8> QED BY <7>1, <8>1, <8>2
            <7> QED BY <1>5, <3>2, <4>1, <7>2
          <6>3. s + 1 - op.base = s - op.base + 1
            BY <1>2
          <6> QED BY <1>4, <5>3, <6>1, <6>2, <6>3
        <5> QED BY <5>2, <5>3
      <4> QED BY <1>1, <3>1, <3>d, <4>2, <4>3 DEF Holds, HoldsChunk, CallWrote
    <3>3. CASE op.kind # "append"
      <4>1. op.base = 0 /\ k = op.seq
        BY <1>2, <1>3, <3>3 DEF AtChunk
      <4>2. Len(want'.chunks) = op.seq
        BY <1>4, <1>5, <3>3, <4>1
      <4>3. ASSUME NEW s \in 0..(op.seq - 1)
            PROVE  /\ want'.chunks[s + 1] = ChunkMark(op, s - op.base + 1)
                   /\ ~(s < op.base)
        <5>1. s + 1 \in 1..k /\ s - op.base + 1 = s + 1
          BY <1>2, <4>1
        <5> QED BY <1>4, <1>5, <3>3, <4>1, <5>1
      <4> QED BY <1>1, <3>1, <3>d, <4>2, <4>3 DEF Holds, HoldsChunk, CallWrote
    <3> QED BY <3>2, <3>3
  <2>5. ContentInv'
    BY <1>1, <2>4 DEF ContentInv, Placed
  <2> QED BY <2>3, <2>5
<1> QED BY <1>7, <1>8, <1>9, DataPartsNext

\* All steps together.
LEMMA DataStep ==
  ASSUME TypeOK, DataInv, AppendInv, [Next]_vars
  PROVE  DataInv'
<1>1. CASE UserDataRead \/ UNCHANGED vars
  <2>1. UNCHANGED <<op, ops, pc, files, want, damaged, torn, miscounted,
                    ud_key>>
    BY <1>1 DEF UserDataRead, vars, keyVars, dataVars, opVars, foundVars
  <2> QED BY <2>1 DEF DataInv, AtChunk, OneChain, CallWrote, Holds,
                     HoldsChunk, ChunkMark, NextLen
<1>2. CASE \/ \E len \in 0..MaxLen : UserDataWrite(len) \/ UserDataAppend(len)
           \/ UserDataErase
  BY <1>2, BeginData DEF UserDataWrite, UserDataAppend, UserDataErase
<1> QED BY <1>1, <1>2, KeyStepData, ErrorStepData, UnlinkData, EraseDoneData,
           CountMoreData, CountEndData, OpenData, CloseData, ReturnData DEF Next

\* At first there is no file.
LEMMA DataInit == Init => DataInv
<1> SUFFICES ASSUME Init PROVE DataInv
  OBVIOUS
<1>1. /\ pc = "load" /\ want.chunks = <<>> /\ DOMAIN files = {}
      /\ ~miscounted
  BY DEF Init
<1>2. Len(want.chunks) = 0 /\ 0..(Len(want.chunks) - 1) = {}
  BY <1>1
<1> QED BY <1>1, <1>2 DEF DataInv, OneChain, Holds

\* user_data_read() finds the chain that is there.
LEMMA ChainLenIs ==
  ASSUME NEW n \in Nat, DOMAIN files = 0..(n - 1)
  PROVE  ChainLen = n
<1>1. Cardinality(DOMAIN files) = n
  <2>1. Cardinality(0..(n - 1)) = IF 0 > n - 1 THEN 0 ELSE (n - 1) - 0 + 1
    BY FS_Interval
  <2> QED BY <2>1
<1>2. /\ n \in 0..Cardinality(DOMAIN files) /\ n \notin DOMAIN files
      /\ \A s \in 0..(n - 1) : s \in DOMAIN files
  BY <1>1
<1>3. ASSUME NEW m \in 0..n, m \notin DOMAIN files
      PROVE  m = n
  BY <1>3
<1> QED BY <1>1, <1>2, <1>3 DEF ChainLen

(***************************************************************************)
(* After any number of writes, appends, erases, failures and power losses, *)
(* for every chunk size, user_data_read() returns what the calls have put  *)
(* into the block, and fails only if a chunk was lost to a failed          *)
(* fs_close() - unless an erase was cut short after chunk 0, a failing     *)
(* fs_stat() had an append miscount, or the key was replaced.              *)
(***************************************************************************)
THEOREM RoundTripSafe == Spec => []RoundTrip
<1>1. Init => DataInv /\ AppendInv
  BY DataInit DEF Init, NewCall, AppendInv
<1>2. TypeOK /\ DataInv /\ AppendInv /\ [Next]_vars => DataInv' /\ AppendInv'
  BY DataStep, AppendStep
<1>3. TypeOK /\ TypeOK' /\ KeyInv /\ KeyOutlivesData /\ [Next]_vars
        => KeyInv' /\ KeyOutlivesData'
  BY KeyStep
<1>4. TypeOK /\ DataInv /\ KeyInv /\ KeyOutlivesData => RoundTrip
  <2> SUFFICES ASSUME TypeOK, DataInv, KeyInv, KeyOutlivesData,
                      pc = "idle", ud_ready, want.known, ~damaged,
                      ~key_replaced
               PROVE  /\ ~torn => ReadOk
                      /\ ReadOk => ReadValue = want.chunks
    BY DEF RoundTrip
  <2>1. want.chunks \in Seq(Mark)
    BY DEF TypeOK, Want
  <2>2. Holds(want.chunks) /\ NoEmptyMark
    BY DataParts DEF ContentInv
  <2>3. PICK n \in Nat : n = Len(want.chunks)
    BY <2>1
  <2>4. DOMAIN files = 0..(n - 1)
    BY <2>2, <2>3 DEF Holds
  <2>5. ChainLen = n
    BY <2>4, ChainLenIs
  <2>6. ASSUME NEW s \in 0..(n - 1), ~torn \/ files[s] # <<>>
        PROVE  Readable(files[s]) /\ files[s][1] = want.chunks[s + 1]
    <3>1. s + 1 \in 1..Len(want.chunks) /\ s \in DOMAIN files
      BY <2>3, <2>4
    <3>2. PICK m \in Mark : m = want.chunks[s + 1]
      BY <2>1, <3>1
    <3>a. files[s] = Whole(m)
      BY <2>2, <2>6, <3>1, <3>2 DEF Holds, HoldsChunk
    <3>3. files[s] = [i \in 1..m.len |-> m] /\ m.len \in Nat /\ m.len > 0
      BY <2>2, <3>1, <3>2, <3>a DEF NoEmptyMark, Whole, Mark
    <3>4. /\ Len(files[s]) = m.len /\ 1 \in 1..m.len
          /\ \A i \in 1..m.len : files[s][i] = m
      BY <3>3
    <3>5. files[s] # <<>>
      <4>1. Len(<<>>) = 0
        OBVIOUS
      <4> QED BY <3>3, <3>4, <4>1
    <3>6. m.key = ud_key
      BY <3>1, <3>4 DEF KeyInv, KeyOutlivesData
    <3> QED BY <3>2, <3>4, <3>5, <3>6 DEF Readable
  <2>7. ~torn => ReadOk
    BY <2>5, <2>6 DEF ReadOk
  <2>8. ASSUME ReadOk
        PROVE  ReadValue = want.chunks
    <3>1. ReadValue = [i \in 1..n |-> files[i - 1][1]]
      BY <2>5 DEF ReadValue
    <3>2. \A i \in 1..n : files[i - 1][1] = want.chunks[i]
      <4>1. ASSUME NEW i \in 1..n
            PROVE  files[i - 1][1] = want.chunks[i]
        <5>1. i - 1 \in 0..(n - 1) /\ (i - 1) + 1 = i
          BY <4>1
        <5>2. files[i - 1] # <<>>
          BY <2>5, <2>8, <5>1 DEF ReadOk, Readable
        <5> QED BY <2>6, <5>1, <5>2
      <4> QED BY <4>1
    <3>3. want.chunks = [i \in 1..n |-> want.chunks[i]]
      BY <2>1, <2>3
    <3> QED BY <3>1, <3>2, <3>3
  <2> QED BY <2>7, <2>8
<1> QED BY <1>1, <1>2, <1>3, <1>4, KeyInit, TypeCorrect, PTL DEF Spec
=============================================================================

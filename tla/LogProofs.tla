----------------------------- MODULE LogProofs ------------------------------
(***************************************************************************)
(* What is proved of module Log for any number of processes and blocks: an *)
(* inductive invariant, IInv, and what follows from it: no panic, no lost  *)
(* wakeup, nothing to lose while the log is idle, and that the log         *)
(* implements AtomicDisk: the theorem about crashes.                       *)
(***************************************************************************)
EXTENDS Log, FiniteSetTheorems, TLAPS

Committers == {"writelog", "install", "done"}
Labels == {"idle", "begin", "asleep", "in"} \cup Committers

BlockTypes ==
  /\ disk \in [Blocks -> Vals] /\ logdata \in [1 .. LOGSIZE -> Vals]
  /\ cache \in [Blocks -> Vals \cup {Absent}] /\ pinned \in SUBSET Blocks
  /\ hdr \in Seq(Blocks) /\ lh \in Seq(Blocks)

CallTypes ==
  /\ outstanding \in Nat
  /\ op \in [Procs -> Labels] /\ wrote \in [Procs -> SUBSET Blocks]
  /\ tail \in Nat \ {0} /\ kernel \in {"up", "readhead", "recover"}
  /\ id \in [Procs -> Vals] /\ ops \in Vals /\ crashes \in Nat

Types == BlockTypes /\ CallTypes

InOp == {p \in Procs : op[p] = "in"}

(* commit() is in write_log(), in install_trans(), has returned. *)
Writing == \E p \in Procs : op[p] = "writelog"
Installing == \E p \in Procs : op[p] = "install"
Committed == \E p \in Procs : op[p] = "done"

(* outstanding counts the calls inside the transaction; at most one call   *)
(* commits, and then no call is inside.                                    *)
Counted ==
  /\ outstanding = Cardinality(InOp)
  /\ committing <=> \E p \in Procs : op[p] \in Committers
  /\ committing => outstanding = 0
  /\ \A p, q \in Procs : op[p] \in Committers /\ op[q] \in Committers => p = q

(* What the header on the disk and the log in memory hold at each stage of *)
(* a transaction, of its commit and of recovery.                           *)
Staged ==
  /\ kernel = "up" /\ outstanding = 0 /\ ~committing => lh = <<>>
  /\ Committed => lh = <<>>
  /\ kernel = "up" => hdr = IF Installing THEN lh ELSE <<>>
  /\ kernel # "up" => /\ \A p \in Procs : op[p] = "idle"
                      /\ pinned = {}
  /\ kernel = "readhead" => lh = <<>> /\ tail = 1
  /\ kernel = "recover" => lh = hdr

Distinct(s) == \A i, j \in DOMAIN s : s[i] = s[j] => i = j

(* The log records a block once. *)
Once == Distinct(lh) /\ Distinct(hdr) /\ Len(hdr) < LOGSIZE

(* A buffer that is not pinned holds what the disk holds, and a pinned     *)
(* buffer is never recycled.                                               *)
Clean ==
  /\ \A b \in Blocks \ pinned : cache[b] \in {Absent, disk[b]}
  /\ \A b \in pinned : cache[b] # Absent

(* The pinned buffers are the blocks of the log not yet installed. *)
Pins ==
  kernel = "up" =>
    \A b \in Blocks :
      b \in pinned <=> \E i \in DOMAIN lh : lh[i] = b /\ (Installing => i >= tail)

(* The blocks write_log() has passed are in the log; the ones that         *)
(* install_trans() has passed are at home.                                 *)
Logged ==
  /\ Writing => \A i \in DOMAIN lh : i < tail => logdata[i] = cache[lh[i]]
  /\ Installing => \A i \in DOMAIN lh : i >= tail => logdata[i] = cache[lh[i]]
  /\ Installing \/ kernel = "recover" =>
       \A i \in DOMAIN lh : i < tail => logdata[i] = disk[lh[i]]
  /\ Writing \/ Installing \/ kernel = "recover" => tail <= Len(lh) + 1

(* The log blocks that begin_op() reserved for the calls inside and that   *)
(* they have not used.                                                     *)
Reserved == {r \in InOp \X (1 .. MAXOPBLOCKS) : r[2] > Cardinality(wrote[r[1]])}

(* The log has room for what is reserved; a call that is alone leaves a    *)
(* block to spare, because log_write() checks for space before it looks    *)
(* for the block.                                                          *)
Fits ==
  /\ \A p \in InOp : /\ IsFiniteSet(wrote[p]) /\ Cardinality(wrote[p]) <= OpBlocks
                     /\ wrote[p] \in SUBSET Range(lh)
  /\ Len(lh) + Cardinality(Reserved) <= LOGSIZE
  /\ outstanding <= 1 => Len(lh) + Cardinality(Reserved) < LOGSIZE

IInv ==
  /\ Types /\ NoPanic /\ Counted /\ Staged /\ Once /\ Clean /\ Pins /\ Logged
  /\ Fits /\ SleepersHaveReason
-----------------------------------------------------------------------------
(* What the proofs use of the constants. *)
LEMMA Constants ==
  /\ IsFiniteSet(Procs)
  /\ MAXOPBLOCKS \in Nat /\ LOGSIZE \in Nat /\ OpBlocks \in Nat /\ LogArea \in Nat
  /\ OpBlocks < MAXOPBLOCKS /\ 2 * MAXOPBLOCKS <= LOGSIZE /\ LOGSIZE <= LogArea
  /\ MaxOps \in Nat /\ 0 \in Vals /\ Absent \notin Vals
BY LogConstants, LogRoom DEF Vals, Absent

(* Appending a block to the log in memory. *)
LEMMA AppendFacts ==
  ASSUME NEW S, NEW s \in Seq(S), NEW e \in S
  PROVE  /\ Append(s, e) \in Seq(S)
         /\ Len(Append(s, e)) = Len(s) + 1
         /\ DOMAIN s = 1 .. Len(s) /\ DOMAIN Append(s, e) = 1 .. Len(s) + 1
         /\ \A i \in DOMAIN s : Append(s, e)[i] = s[i]
         /\ Append(s, e)[Len(s) + 1] = e
         /\ Range(Append(s, e)) = Range(s) \cup {e}
         /\ Distinct(s) /\ e \notin Range(s) => Distinct(Append(s, e))
<1>1. /\ Append(s, e) \in Seq(S)
      /\ Len(Append(s, e)) = Len(s) + 1
      /\ Len(s) \in Nat
      /\ DOMAIN s = 1 .. Len(s) /\ DOMAIN Append(s, e) = 1 .. Len(s) + 1
      /\ \A i \in DOMAIN s : Append(s, e)[i] = s[i]
      /\ Append(s, e)[Len(s) + 1] = e
  OBVIOUS
<1>2. Range(Append(s, e)) = Range(s) \cup {e}
  BY <1>1 DEF Range
<1>3. Distinct(s) /\ e \notin Range(s) => Distinct(Append(s, e))
  BY <1>1 DEF Range, Distinct
<1>4. QED
  BY Zenon, <1>1, <1>2, <1>3

LEMMA EmptySeq == <<>> \in Seq(Blocks) /\ Len(<<>>) = 0 /\ DOMAIN <<>> = {} /\ Distinct(<<>>)
BY DEF Distinct

(* wakeup() moves sleepers back to the start of begin_op(). *)
LEMMA WakeAllFacts ==
  ASSUME Types
  PROVE  /\ WakeAll \in [Procs -> Labels]
         /\ \A p \in Procs : WakeAll[p] = IF op[p] = "asleep" THEN "begin" ELSE op[p]
BY Zenon DEF Types, CallTypes, WakeAll, Labels

(* begin_op() adds a call to the transaction and end_op() removes one; no  *)
(* other step of a call changes who is inside.                             *)
LEMMA InOpSteps ==
  ASSUME Types, NEW p \in Procs
  PROVE  /\ Call(p) \/ BeginSleep(p) \/ Commit(p) => InOp' = InOp
         /\ \A b \in Blocks : LogWrite(p, b) => InOp' = InOp /\ p \in InOp
         /\ BeginOp(p) => InOp' = InOp \cup {p} /\ p \notin InOp
         /\ End(p) => InOp' = InOp \ {p} /\ p \in InOp
<1> USE DEF Types, CallTypes, InOp, Running, Goto
<1>1. Call(p) \/ BeginSleep(p) \/ Commit(p) => InOp' = InOp
  BY Zenon DEF Call, BeginSleep, Commit, WriteLog, WriteHead, Install, ClearHead, EndCommit, WakeAll
<1>2. \A b \in Blocks : LogWrite(p, b) => InOp' = InOp /\ p \in InOp
  BY Zenon DEF LogWrite
<1>3. BeginOp(p) => InOp' = InOp \cup {p} /\ p \notin InOp
  BY Zenon DEF BeginOp
<1>4. End(p) => InOp' = InOp \ {p} /\ p \in InOp
  BY Zenon DEF End, EndOp, EndLastOp, WakeAll
<1>5. QED
  BY Zenon, <1>1, <1>2, <1>3, <1>4

(* The sets that are counted are finite. *)
LEMMA Finite ==
  /\ IsFiniteSet(InOp) /\ Cardinality(InOp) \in Nat
  /\ IsFiniteSet(Reserved) /\ Cardinality(Reserved) \in Nat
  /\ Cardinality(Reserved) <= Cardinality(InOp) * MAXOPBLOCKS
<1>1. IsFiniteSet(InOp) /\ Cardinality(InOp) \in Nat
  BY Zenon, Constants, FS_Subset, FS_CardinalityType DEF InOp
<1>2. IsFiniteSet(1 .. MAXOPBLOCKS) /\ Cardinality(1 .. MAXOPBLOCKS) = MAXOPBLOCKS
  BY Constants, FS_Interval
<1>3. /\ IsFiniteSet(InOp \X (1 .. MAXOPBLOCKS))
      /\ Cardinality(InOp \X (1 .. MAXOPBLOCKS)) = Cardinality(InOp) * MAXOPBLOCKS
  BY Zenon, <1>1, <1>2, FS_Product
<1>4. Reserved \in SUBSET (InOp \X (1 .. MAXOPBLOCKS))
  BY Zenon DEF Reserved
<1>5. QED
  BY Zenon, <1>1, <1>3, <1>4, FS_Subset, FS_CardinalityType

(* The block log_write() needs is there: its check does not fail. *)
LEMMA Spare ==
  ASSUME IInv, NEW p \in InOp
  PROVE  Len(lh) + 1 < LOGSIZE
<1>1. <<p, MAXOPBLOCKS>> \in Reserved
  BY Constants, FS_CardinalityType DEF IInv, Fits, Reserved
<1>2. Cardinality(Reserved) >= 1
  BY <1>1, Finite, FS_EmptySet
<1>3. CASE outstanding <= 1
  BY <1>2, <1>3, Finite, Constants DEF IInv, Types, CallTypes, Fits
<1>4. CASE outstanding > 1
  <2>1. PICK q \in InOp : q # p
    <3>1. Cardinality(InOp \ {p}) = Cardinality(InOp) - 1
      BY Zenon, Finite, FS_RemoveElement
    <3>2. Cardinality(InOp) > 1
      BY Zenon, <1>4 DEF IInv, Counted
    <3>3. InOp \ {p} # {}
      BY <3>1, <3>2, Finite, FS_EmptySet
    <3>4. QED
      BY Zenon, <3>3
  <2>2. <<q, MAXOPBLOCKS>> \in Reserved \ {<<p, MAXOPBLOCKS>>}
    BY <2>1, Constants, FS_CardinalityType DEF IInv, Fits, Reserved
  <2>3. /\ IsFiniteSet(Reserved \ {<<p, MAXOPBLOCKS>>})
        /\ Cardinality(Reserved \ {<<p, MAXOPBLOCKS>>}) = Cardinality(Reserved) - 1
    BY Zenon, <1>1, Finite, FS_RemoveElement
  <2>4. Cardinality(Reserved \ {<<p, MAXOPBLOCKS>>}) >= 1
    BY <2>2, <2>3, FS_EmptySet, FS_CardinalityType
  <2>5. QED
    BY <2>3, <2>4, Finite, Constants DEF IInv, Types, CallTypes, Fits
<1>5. QED
  BY <1>3, <1>4 DEF IInv, Types, CallTypes
(* The entries of the log are blocks, and they fit into it. *)
LEMMA Entries ==
  ASSUME IInv
  PROVE  /\ Len(lh) \in Nat /\ DOMAIN lh = 1 .. Len(lh) /\ Len(lh) <= LOGSIZE
         /\ Len(hdr) \in Nat /\ DOMAIN hdr = 1 .. Len(hdr)
         /\ \A i \in DOMAIN lh : lh[i] \in Blocks
         /\ \A i \in DOMAIN hdr : hdr[i] \in Blocks
         /\ lh = <<>> <=> Len(lh) = 0
<1>1. /\ Len(lh) \in Nat /\ DOMAIN lh = 1 .. Len(lh)
      /\ Len(hdr) \in Nat /\ DOMAIN hdr = 1 .. Len(hdr)
      /\ \A i \in DOMAIN lh : lh[i] \in Blocks
      /\ \A i \in DOMAIN hdr : hdr[i] \in Blocks
      /\ lh = <<>> <=> Len(lh) = 0
  BY DEF IInv, Types, BlockTypes
<1>2. Len(lh) <= LOGSIZE
  BY <1>1, Finite, Constants DEF IInv, Fits
<1>3. QED
  BY Zenon, <1>1, <1>2
-----------------------------------------------------------------------------
(* Every step keeps the types. *)
LEMMA BlockTypesStep ==
  ASSUME IInv, Next
  PROVE  BlockTypes'
<1> USE Constants
<1>1. ASSUME NEW p \in Procs, Call(p) \/ BeginSleep(p) \/ BeginOp(p) \/ End(p)
      PROVE  BlockTypes'
  BY Zenon, <1>1 DEF IInv, Types, BlockTypes, Call, BeginSleep, BeginOp, End, EndOp, EndLastOp, disks, bufs, log
<1>2. ASSUME NEW p \in Procs, NEW b \in Blocks, LogWrite(p, b)
      PROVE  BlockTypes'
  <2>1. lh \in Seq(Blocks) /\ Append(lh, b) \in Seq(Blocks)
    BY Zenon, AppendFacts DEF IInv, Types, BlockTypes
  <2>2. QED
    BY Zenon, <1>2, <2>1 DEF IInv, Types, BlockTypes, CallTypes, LogWrite, disks
<1>3. ASSUME NEW p \in Procs, WriteLog(p)
      PROVE  BlockTypes'
  <2>1. Bread(lh[tail]) \in Vals
    BY <1>3, Entries DEF IInv, Types, BlockTypes, CallTypes, WriteLog, Bread
  <2>2. QED
    BY Zenon, <1>3, <2>1 DEF IInv, Types, BlockTypes, WriteLog, log
<1>4. ASSUME NEW p \in Procs, Install(p)
      PROVE  BlockTypes'
  <2>1. logdata[tail] \in Vals
    BY <1>4, Entries DEF IInv, Types, BlockTypes, CallTypes, Install
  <2>2. QED
    BY Zenon, <1>4, <2>1 DEF IInv, Types, BlockTypes, Install, log
<1>5. ASSUME NEW p \in Procs, WriteHead(p) \/ ClearHead(p) \/ EndCommit(p)
      PROVE  BlockTypes'
  BY Zenon, <1>5, EmptySeq DEF IInv, Types, BlockTypes, WriteHead, ClearHead, EndCommit, disks, bufs, log
<1>6. ASSUME NEW b \in Blocks, Evict(b)
      PROVE  BlockTypes'
  BY Zenon, <1>6 DEF IInv, Types, BlockTypes, Evict, disks, log
<1>7. CASE Crash \/ ReadHead \/ RecoverDone
  BY Zenon, <1>7, EmptySeq DEF IInv, Types, BlockTypes, Crash, ReadHead, RecoverDone, disks, bufs
<1>8. CASE Recover
  <2>1. logdata[tail] \in Vals
    BY <1>8, Entries DEF IInv, Types, BlockTypes, CallTypes, Recover
  <2>2. QED
    BY Zenon, <1>8, <2>1 DEF IInv, Types, BlockTypes, Recover, log
<1>9. QED
  BY Zenon, <1>1, <1>2, <1>3, <1>4, <1>5, <1>6, <1>7, <1>8 DEF Next, Commit, Recovery

LEMMA CallTypesStep ==
  ASSUME IInv, Next
  PROVE  CallTypes'
<1>1. ASSUME NEW p \in Procs, Call(p) \/ BeginSleep(p) \/ BeginOp(p)
      PROVE  CallTypes'
  BY <1>1, Constants DEF IInv, Types, CallTypes, Call, BeginSleep, BeginOp, Goto, Labels, Vals, log
<1>2. ASSUME NEW p \in Procs, End(p)
      PROVE  CallTypes'
  BY <1>2, WakeAllFacts DEF IInv, Types, CallTypes, End, EndOp, EndLastOp, Goto, Labels, Committers
<1>3. ASSUME NEW p \in Procs, NEW b \in Blocks, LogWrite(p, b)
      PROVE  CallTypes'
  BY Zenon, <1>3 DEF IInv, Types, CallTypes, LogWrite
<1>4. ASSUME NEW p \in Procs, Commit(p)
      PROVE  CallTypes'
  BY <1>4, WakeAllFacts
     DEF IInv, Types, CallTypes, Commit, WriteLog, WriteHead, Install, ClearHead, EndCommit, Goto, Labels, Committers, log
<1>5. ASSUME NEW b \in Blocks, Evict(b)
      PROVE  CallTypes'
  BY Zenon, <1>5 DEF IInv, Types, CallTypes, Evict, log
<1>6. CASE Crash
  BY <1>6 DEF IInv, Types, CallTypes, Crash, Labels
<1>7. CASE Recovery
  BY <1>7 DEF IInv, Types, CallTypes, Recovery, ReadHead, Recover, RecoverDone, log
<1>8. QED
  BY Zenon, <1>1, <1>2, <1>3, <1>4, <1>5, <1>6, <1>7 DEF Next

(* Neither log_write() nor end_op() panics. *)
LEMMA NoPanicStep ==
  ASSUME IInv, Next
  PROVE  NoPanic'
<1>1. ASSUME NEW p \in Procs, NEW b \in Blocks, LogWrite(p, b)
      PROVE  NoPanic'
  <2>1. p \in InOp /\ outstanding >= 1
    BY <1>1, Finite, InOpSteps, FS_EmptySet DEF IInv, Counted
  <2>2. Len(lh) + 1 < LOGSIZE
    BY Zenon, <2>1, Spare
  <2>3. QED
    BY <1>1, <2>1, <2>2, Constants, Entries DEF IInv, Types, CallTypes, NoPanic, LogWrite
<1>2. ASSUME NEW p \in Procs, End(p)
      PROVE  NoPanic'
  BY <1>2 DEF IInv, Types, CallTypes, Counted, NoPanic, End, EndOp, EndLastOp
<1>3. ASSUME NEW p \in Procs, Call(p) \/ BeginSleep(p) \/ BeginOp(p) \/ Commit(p)
      PROVE  NoPanic'
  BY Zenon, <1>3 DEF IInv, NoPanic, Call, BeginSleep, BeginOp, Commit, WriteLog, WriteHead, Install,
              ClearHead, EndCommit
<1>4. ASSUME NEW b \in Blocks, Evict(b)
      PROVE  NoPanic'
  BY Zenon, <1>4 DEF IInv, NoPanic, Evict
<1>5. CASE Crash \/ Recovery
  BY Zenon, <1>5 DEF IInv, NoPanic, Crash, Recovery, ReadHead, Recover, RecoverDone
<1>6. QED
  BY Zenon, <1>1, <1>2, <1>3, <1>4, <1>5 DEF Next

(* outstanding counts the calls inside, and at most one commits. *)
LEMMA CountedStep ==
  ASSUME IInv, Next
  PROVE  Counted'
<1>1. ASSUME NEW p \in Procs, Call(p) \/ BeginSleep(p)
      PROVE  Counted'
  <2>1. InOp' = InOp
    BY Zenon, <1>1, InOpSteps DEF IInv
  <2>2. QED
    BY <1>1, <2>1 DEF IInv, Types, CallTypes, Counted, Call, BeginSleep, Running, Goto, Committers, log
<1>2. ASSUME NEW p \in Procs, BeginOp(p)
      PROVE  Counted'
  <2>1. Cardinality(InOp') = Cardinality(InOp) + 1
    BY Zenon, <1>2, InOpSteps, Finite, FS_AddElement DEF IInv
  <2>2. QED
    BY Zenon, <1>2, <2>1 DEF IInv, Types, CallTypes, Counted, BeginOp, Running, Goto, Committers
<1>3. ASSUME NEW p \in Procs, End(p)
      PROVE  Counted'
  <2>1. Cardinality(InOp') = Cardinality(InOp) - 1
    BY Zenon, <1>3, InOpSteps, Finite, FS_RemoveElement DEF IInv
  <2>2. CASE EndOp(p)
    BY <2>1, <2>2, WakeAllFacts
       DEF IInv, Types, CallTypes, Counted, EndOp, Running, Committers
  <2>3. CASE EndLastOp(p)
    BY <2>1, <2>3 DEF IInv, Types, CallTypes, Counted, EndLastOp, Running, Goto, Committers
  <2>4. QED
    BY Zenon, <1>3, <2>2, <2>3 DEF End
<1>4. ASSUME NEW p \in Procs, NEW b \in Blocks, LogWrite(p, b)
      PROVE  Counted'
  <2>1. InOp' = InOp
    BY Zenon, <1>4, InOpSteps DEF IInv
  <2>2. QED
    BY Zenon, <1>4, <2>1 DEF IInv, Counted, LogWrite
<1>5. ASSUME NEW p \in Procs, Commit(p)
      PROVE  Counted'
  <2>1. InOp' = InOp
    BY Zenon, <1>5, InOpSteps DEF IInv
  <2>2. CASE WriteLog(p) \/ Install(p)
    BY <2>1, <2>2 DEF IInv, Counted, WriteLog, Install, log
  <2>3. CASE WriteHead(p) \/ ClearHead(p) \/ EndCommit(p)
    BY Zenon, <2>1, <2>3 DEF IInv, Types, CallTypes, Counted, WriteHead, ClearHead, EndCommit, Running, Goto,
                      WakeAll, Committers, log
  <2>4. QED
    BY Zenon, <1>5, <2>2, <2>3 DEF Commit
<1>6. ASSUME NEW b \in Blocks, Evict(b)
      PROVE  Counted'
  BY Zenon, <1>6 DEF IInv, Counted, InOp, Evict, log
<1>7. CASE Crash
  <2>1. InOp' = {}
    BY Zenon, <1>7 DEF Crash, InOp
  <2>2. QED
    BY Zenon, <1>7, <2>1, FS_EmptySet DEF Crash, Counted, Committers
<1>8. CASE Recovery
  <2>1. UNCHANGED <<op, outstanding, committing>> /\ InOp' = InOp
    BY Zenon, <1>8 DEF InOp, Recovery, ReadHead, Recover, RecoverDone, log
  <2>2. QED
    BY Zenon, <2>1 DEF IInv, Counted
<1>9. QED
  BY Zenon, <1>1, <1>2, <1>3, <1>4, <1>5, <1>6, <1>7, <1>8 DEF Next
-----------------------------------------------------------------------------
(* The stage of the commit, before and after each step of the calls. *)
LEMMA Stages ==
  ASSUME IInv, NEW p \in Procs
  PROVE  /\ p \in InOp => ~committing /\ ~Writing /\ ~Installing /\ ~Committed /\ outstanding > 0
         /\ op[p] \in Committers => /\ committing /\ outstanding = 0 /\ InOp = {}
                                    /\ Writing <=> op[p] = "writelog"
                                    /\ Installing <=> op[p] = "install"
                                    /\ Committed <=> op[p] = "done"
<1>1. CASE p \in InOp
  <2>1. outstanding > 0
    BY <1>1, Finite, FS_EmptySet DEF IInv, Counted
  <2>2. QED
    BY <1>1, <2>1 DEF IInv, Counted, InOp, Writing, Installing, Committed, Committers
<1>2. CASE op[p] \in Committers
  <2>1. committing /\ outstanding = 0
    BY Zenon, <1>2 DEF IInv, Counted
  <2>2. InOp = {}
    BY Zenon, <2>1, Finite, FS_EmptySet DEF IInv, Counted
  <2>3. /\ Writing <=> op[p] = "writelog"
        /\ Installing <=> op[p] = "install"
        /\ Committed <=> op[p] = "done"
    BY Zenon, <1>2 DEF IInv, Counted, Writing, Installing, Committed, Committers
  <2>4. QED
    BY Zenon, <1>2, <2>1, <2>2, <2>3
<1>3. QED
  BY Zenon, <1>1, <1>2

LEMMA StageSteps ==
  ASSUME IInv, NEW p \in Procs
  PROVE  /\ Call(p) \/ BeginSleep(p) \/ BeginOp(p) \/ EndOp(p) =>
              (Writing' <=> Writing) /\ (Installing' <=> Installing) /\ (Committed' <=> Committed)
         /\ EndLastOp(p) => /\ Writing' <=> lh # <<>>
                            /\ ~Installing'
                            /\ Committed' <=> lh = <<>>
         /\ WriteHead(p) => ~Writing' /\ Installing' /\ ~Committed'
         /\ ClearHead(p) => ~Writing' /\ ~Installing' /\ Committed'
         /\ EndCommit(p) => ~Writing' /\ ~Installing' /\ ~Committed'
<1> USE DEF IInv, Types, CallTypes, Running, Writing, Installing, Committed
<1>1. Call(p) \/ BeginSleep(p) \/ BeginOp(p) =>
        (Writing' <=> Writing) /\ (Installing' <=> Installing) /\ (Committed' <=> Committed)
  BY Zenon DEF Call, BeginSleep, BeginOp, Goto
<1>2. EndOp(p) =>
        (Writing' <=> Writing) /\ (Installing' <=> Installing) /\ (Committed' <=> Committed)
  BY Zenon, WakeAllFacts DEF EndOp
<1>3. EndLastOp(p) => /\ Writing' <=> lh # <<>>
                      /\ ~Installing'
                      /\ Committed' <=> lh = <<>>
  BY Zenon, Stages DEF EndLastOp, Goto, InOp
<1>4. /\ WriteHead(p) => ~Writing' /\ Installing' /\ ~Committed'
      /\ ClearHead(p) => ~Writing' /\ ~Installing' /\ Committed'
  BY Zenon DEF Counted, Committers, WriteHead, ClearHead, Goto
<1>5. EndCommit(p) => ~Writing' /\ ~Installing' /\ ~Committed'
  BY Zenon, WakeAllFacts DEF Counted, Committers, EndCommit
<1>6. QED
  BY Zenon, <1>1, <1>2, <1>3, <1>4, <1>5
(* The header and the log in memory follow the stages of the commit. *)
LEMMA StagedStep ==
  ASSUME IInv, Next
  PROVE  Staged'
<1>1. ASSUME NEW p \in Procs, Call(p) \/ BeginSleep(p) \/ BeginOp(p) \/ EndOp(p)
      PROVE  Staged'
  <2>1. (Installing' <=> Installing) /\ (Committed' <=> Committed)
    BY Zenon, <1>1, StageSteps
  <2>2. QED
    BY <1>1, <2>1 DEF IInv, Types, CallTypes, Staged, Call, BeginSleep, BeginOp, EndOp, Running,
                      disks, bufs, log
<1>2. ASSUME NEW p \in Procs, EndLastOp(p)
      PROVE  Staged'
  <2>1. p \in InOp
    BY Zenon, <1>2 DEF InOp, EndLastOp, Running
  <2>2. QED
    BY Zenon, <1>2, <2>1, StageSteps, Stages DEF IInv, Staged, EndLastOp, Running, disks, bufs
<1>3. ASSUME NEW p \in Procs, NEW b \in Blocks, LogWrite(p, b)
      PROVE  Staged'
  <2>1. /\ p \in InOp /\ ~Installing /\ ~Committed /\ outstanding > 0
        /\ ~Installing' /\ ~Committed'
    BY Zenon, <1>3, Stages DEF LogWrite, Running, InOp, Installing, Committed
  <2>2. QED
    BY <1>3, <2>1 DEF IInv, Staged, LogWrite, Running, disks
<1>4. ASSUME NEW p \in Procs, WriteLog(p) \/ Install(p)
      PROVE  Staged'
  <2>1. (Installing' <=> Installing) /\ (Committed' <=> Committed)
    BY Zenon, <1>4 DEF WriteLog, Install, Installing, Committed
  <2>2. QED
    BY Zenon, <1>4, <2>1 DEF IInv, Staged, WriteLog, Install, Running, log
<1>5. ASSUME NEW p \in Procs, WriteHead(p) \/ ClearHead(p) \/ EndCommit(p)
      PROVE  Staged'
  <2>1. op[p] \in Committers
    BY Zenon, <1>5 DEF WriteHead, ClearHead, EndCommit, Running, Committers
  <2>2. CASE WriteHead(p)
    BY Zenon, <2>1, <2>2, StageSteps, Stages DEF IInv, Staged, WriteHead, Running, bufs, log
  <2>3. CASE ClearHead(p)
    BY Zenon, <2>1, <2>3, StageSteps, Stages DEF IInv, Staged, ClearHead, Running, bufs
  <2>4. CASE EndCommit(p)
    <3>1. Committed /\ ~Installing
      BY Zenon, <2>1, <2>4, Stages DEF EndCommit, Running
    <3>2. QED
      BY Zenon, <2>4, <3>1, StageSteps DEF IInv, Staged, EndCommit, Running, disks, bufs
  <2>5. QED
    BY Zenon, <1>5, <2>2, <2>3, <2>4
<1>6. ASSUME NEW b \in Blocks, Evict(b)
      PROVE  Staged'
  BY Zenon, <1>6 DEF IInv, Staged, Evict, Installing, Committed, disks, log
<1>7. CASE Crash \/ Recovery
  BY Zenon, <1>7 DEF IInv, Staged, Crash, Recovery, ReadHead, Recover, RecoverDone, Installing, Committed,
              disks, bufs, log
<1>8. QED
  BY Zenon, <1>1, <1>2, <1>3, <1>4, <1>5, <1>6, <1>7 DEF Next, Commit, End

(* A block is recorded once. *)
LEMMA OnceStep ==
  ASSUME IInv, Next
  PROVE  Once'
<1>1. ASSUME NEW p \in Procs, NEW b \in Blocks, LogWrite(p, b)
      PROVE  Once'
  <2>1. Distinct(lh')
    <3>1. lh' = lh \/ (b \notin Range(lh) /\ lh' = Append(lh, b))
      BY <1>1, Zenon DEF LogWrite
    <3>2. Distinct(lh) /\ lh \in Seq(Blocks)
      BY Zenon DEF IInv, Types, BlockTypes, Once
    <3>3. b \notin Range(lh) => Distinct(Append(lh, b))
      BY Zenon, <3>2, AppendFacts
    <3>4. QED
      BY Zenon, <3>1, <3>2, <3>3
  <2>2. QED
    BY Zenon, <1>1, <2>1 DEF IInv, Once, LogWrite, disks
<1>2. ASSUME NEW p \in Procs, WriteHead(p)
      PROVE  Once'
  <2>1. outstanding = 0
    <3>1. op[p] \in Committers
      BY Zenon, <1>2 DEF WriteHead, Running, Committers
    <3>2. QED
      BY Zenon, <3>1, Stages
  <2>2. Len(lh) < LOGSIZE
    BY <2>1, Finite, Entries, Constants DEF IInv, Fits
  <2>3. QED
    BY Zenon, <1>2, <2>2 DEF IInv, Once, WriteHead, log
<1>3. ASSUME NEW p \in Procs, Call(p) \/ BeginSleep(p) \/ BeginOp(p) \/ End(p)
      PROVE  Once'
  BY Zenon, <1>3 DEF IInv, Once, Call, BeginSleep, BeginOp, End, EndOp, EndLastOp, disks, log
<1>4. ASSUME NEW p \in Procs, WriteLog(p) \/ Install(p) \/ EndCommit(p)
      PROVE  Once'
  BY Zenon, <1>4 DEF IInv, Once, WriteLog, Install, EndCommit, disks, log
<1>5. ASSUME NEW p \in Procs, ClearHead(p)
      PROVE  Once'
  <2>1. lh' = <<>> /\ hdr' = <<>>
    BY Zenon, <1>5 DEF ClearHead
  <2>2. QED
    BY <2>1, EmptySeq, Constants DEF Once
<1>6. ASSUME NEW b \in Blocks, Evict(b)
      PROVE  Once'
  BY Zenon, <1>6 DEF IInv, Once, Evict, disks, log
<1>7. CASE Crash \/ ReadHead \/ Recover
  BY Zenon, <1>7, EmptySeq DEF IInv, Once, Crash, ReadHead, Recover, disks, log
<1>8. CASE RecoverDone
  <2>1. lh' = <<>> /\ hdr' = <<>>
    BY Zenon, <1>8 DEF RecoverDone
  <2>2. QED
    BY <2>1, EmptySeq, Constants DEF Once
<1>9. QED
  BY Zenon, <1>1, <1>2, <1>3, <1>4, <1>5, <1>6, <1>7, <1>8 DEF Next, Commit, Recovery

(* While a call sleeps in begin_op(), a call that will wake it is inside   *)
(* or commits.                                                             *)
LEMMA SleepersStep ==
  ASSUME IInv, Next
  PROVE  SleepersHaveReason'
<1> USE DEF SleepersHaveReason
<1>1. ASSUME NEW p \in Procs, BeginSleep(p)
      PROVE  SleepersHaveReason'
  <2>1. \E q \in Procs : op[q] \in {"in", "writelog", "install", "done"}
    <3>1. CASE committing
      BY Zenon, <3>1 DEF IInv, Counted, Committers
    <3>2. CASE ~committing
      <4>1. outstanding # 0
        BY <1>1, <3>2, Entries, Constants DEF IInv, Staged, BeginSleep, NoRoom, Running
      <4>2. InOp # {}
        BY Zenon, <4>1, FS_EmptySet DEF IInv, Counted
      <4>3. QED
        BY Zenon, <4>2 DEF InOp
    <3>3. QED
      BY Zenon, <3>1, <3>2
  <2>2. PICK q \in Procs : op[q] \in {"in", "writelog", "install", "done"}
    BY Zenon, <2>1
  <2>3. op'[q] \in {"in", "writelog", "install", "done"}
    BY Zenon, <1>1, <2>2 DEF IInv, Types, CallTypes, BeginSleep, Running, Goto
  <2>4. QED
    BY Zenon, <2>3
<1>2. ASSUME NEW p \in Procs, Call(p) \/ BeginOp(p) \/ EndLastOp(p) \/ WriteHead(p) \/ ClearHead(p)
      PROVE  SleepersHaveReason'
  BY Zenon, <1>2 DEF IInv, Types, CallTypes, Call, BeginOp, EndLastOp, WriteHead, ClearHead, Running, Goto
<1>3. ASSUME NEW p \in Procs, EndOp(p) \/ EndCommit(p)
      PROVE  SleepersHaveReason'
  BY Zenon, <1>3, WakeAllFacts DEF IInv, EndOp, EndCommit
<1>4. ASSUME UNCHANGED op
      PROVE  SleepersHaveReason'
  BY Zenon, <1>4 DEF IInv
<1>5. CASE Crash
  BY Zenon, <1>5 DEF Crash
<1>6. QED
  BY Zenon, <1>1, <1>2, <1>3, <1>4, <1>5
     DEF Next, End, Commit, WriteLog, Install, LogWrite, Evict, Recovery, ReadHead, Recover, RecoverDone
-----------------------------------------------------------------------------
(* What a step of log_write() that does not panic does. *)
LEMMA LogWriteSteps ==
  ASSUME IInv, NEW p \in Procs, NEW b \in Blocks, LogWrite(p, b)
  PROVE  /\ p \in InOp /\ kernel = "up"
         /\ pinned' = pinned \cup {b}
         /\ lh' = lh \/ (b \notin Range(lh) /\ lh' = Append(lh, b))
         /\ Range(lh') = Range(lh) \cup {b}
         /\ Len(lh') \in {Len(lh), Len(lh) + 1} /\ DOMAIN lh' = 1 .. Len(lh')
         /\ ~Writing /\ ~Installing /\ ~Committed
         /\ ~Writing' /\ ~Installing' /\ ~Committed'
<1>1. p \in InOp /\ kernel = "up" /\ UNCHANGED op
  BY Zenon DEF LogWrite, Running, InOp
<1>2. NoPanic'
  BY Zenon, NoPanicStep DEF Next
<1>3. pinned' = pinned \cup {b} /\ lh' = IF b \in Range(lh) THEN lh ELSE Append(lh, b)
  BY Zenon, <1>2 DEF LogWrite, NoPanic
<1>4. lh \in Seq(Blocks)
  BY Zenon DEF IInv, Types, BlockTypes
<1> DEFINE Grown ==
      /\ lh' = lh \/ (b \notin Range(lh) /\ lh' = Append(lh, b))
      /\ Range(lh') = Range(lh) \cup {b}
      /\ Len(lh') \in {Len(lh), Len(lh) + 1} /\ DOMAIN lh' = 1 .. Len(lh')
<1>5. ASSUME b \in Range(lh) PROVE Grown
  BY Zenon, <1>3, <1>5, Entries
<1>6. ASSUME b \notin Range(lh) PROVE Grown
  <2>1. lh' = Append(lh, b)
    BY Zenon, <1>3, <1>6
  <2>2. /\ Range(Append(lh, b)) = Range(lh) \cup {b}
        /\ Len(Append(lh, b)) = Len(lh) + 1 /\ DOMAIN Append(lh, b) = 1 .. Len(lh) + 1
    BY <1>4, AppendFacts
  <2>3. QED
    BY Zenon, <1>3, <1>6, <2>1, <2>2
<1>7. /\ ~Writing /\ ~Installing /\ ~Committed
      /\ ~Writing' /\ ~Installing' /\ ~Committed'
  BY Zenon, <1>1, Stages DEF Writing, Installing, Committed
<1>8. QED
  BY Zenon, <1>1, <1>3, <1>5, <1>6, <1>7

(* Buffers that are not pinned are clean. *)
LEMMA CleanStep ==
  ASSUME IInv, Next
  PROVE  Clean'
<1> USE Constants DEF IInv, Types, BlockTypes, CallTypes, Clean
<1>1. ASSUME NEW p \in Procs, NEW b \in Blocks, LogWrite(p, b)
      PROVE  Clean'
  <2>1. pinned' = pinned \cup {b} /\ disk' = disk /\ cache' = [cache EXCEPT ![b] = id[p]]
    BY Zenon, <1>1, LogWriteSteps DEF LogWrite, disks
  <2>2. QED
    BY <2>1
<1>2. ASSUME NEW p \in Procs, WriteLog(p)
      PROVE  Clean'
  BY Zenon, <1>2, Entries DEF WriteLog, Bread
<1>3. ASSUME NEW p \in Procs, Install(p)
      PROVE  Clean'
  BY Zenon, <1>3, Entries DEF Install
<1>4. ASSUME NEW b \in Blocks, Evict(b)
      PROVE  Clean'
  BY Zenon, <1>4 DEF Evict, disks
<1>5. CASE Crash
  BY Zenon, <1>5 DEF Crash, disks
<1>6. CASE Recover
  BY Zenon, <1>6, Entries DEF Recover, Staged
<1>7. ASSUME UNCHANGED <<disk, cache, pinned>>
      PROVE  Clean'
  BY Zenon, <1>7
<1> HIDE DEF IInv, Types, BlockTypes, CallTypes, Clean
<1>8. QED
  BY Zenon, <1>1, <1>2, <1>3, <1>4, <1>5, <1>6, <1>7
     DEF Next, Call, BeginSleep, BeginOp, End, EndOp, EndLastOp, Commit, WriteHead, ClearHead,
         EndCommit, Recovery, ReadHead, RecoverDone, disks, bufs

(* The pinned buffers are the blocks still to be installed. *)
LEMMA PinsStep ==
  ASSUME IInv, Next
  PROVE  Pins'
<1>1. ASSUME NEW p \in Procs, Call(p) \/ BeginSleep(p) \/ BeginOp(p) \/ EndOp(p)
      PROVE  Pins'
  <2>1. Installing' <=> Installing
    BY Zenon, <1>1, StageSteps
  <2>2. QED
    BY Zenon, <1>1, <2>1 DEF IInv, Pins, Call, BeginSleep, BeginOp, EndOp, bufs, log
<1>2. ASSUME NEW p \in Procs, EndLastOp(p)
      PROVE  Pins'
  <2>1. ~Installing' /\ ~Installing
    BY Zenon, <1>2, StageSteps, Stages DEF EndLastOp, Running, InOp
  <2>2. QED
    BY Zenon, <1>2, <2>1 DEF IInv, Pins, EndLastOp, bufs
<1>3. ASSUME NEW p \in Procs, NEW b \in Blocks, LogWrite(p, b)
      PROVE  Pins'
  <2>1. \A c \in Blocks : c \in pinned <=> c \in Range(lh)
    BY Zenon, <1>3, LogWriteSteps DEF IInv, Pins, Range
  <2>2. \A c \in Blocks : c \in pinned' <=> c \in Range(lh')
    BY Zenon, <1>3, <2>1, LogWriteSteps
  <2>3. QED
    BY <1>3, <2>2, LogWriteSteps DEF Pins, Range
<1>4. ASSUME NEW p \in Procs, WriteHead(p)
      PROVE  Pins'
  <2>1. Installing' /\ ~Installing
    BY Zenon, <1>4, StageSteps, Stages DEF WriteHead, Running, Committers
  <2>2. QED
    BY <1>4, <2>1, Entries DEF IInv, Pins, WriteHead, Running, bufs, log
<1>5. ASSUME NEW p \in Procs, Install(p)
      PROVE  Pins'
  <2>1. Installing' /\ Installing
    BY Zenon, <1>5 DEF Install, Running, Installing
  <2>2. QED
    BY <1>5, <2>1, Entries DEF IInv, Types, CallTypes, Once, Distinct, Pins, Install, Running, log
<1>6. ASSUME NEW p \in Procs, ClearHead(p)
      PROVE  Pins'
  <2>1. Installing
    BY Zenon, <1>6 DEF ClearHead, Running, Installing
  <2>2. \A b \in Blocks : b \notin pinned
    BY <1>6, <2>1, Entries DEF IInv, Types, CallTypes, Pins, ClearHead, Running
  <2>3. QED
    BY Zenon, <1>6, <2>2, EmptySeq DEF Pins, ClearHead, bufs
<1>7. ASSUME NEW p \in Procs, EndCommit(p)
      PROVE  Pins'
  <2>1. ~Installing' /\ ~Installing
    BY Zenon, <1>7, StageSteps, Stages DEF EndCommit, Running, Committers
  <2>2. QED
    BY Zenon, <1>7, <2>1 DEF IInv, Pins, EndCommit, bufs
<1>8. ASSUME NEW p \in Procs, WriteLog(p)
      PROVE  Pins'
  <2>1. ~Installing' /\ ~Installing
    BY Zenon, <1>8, Stages DEF WriteLog, Running, Committers, Installing
  <2>2. QED
    BY Zenon, <1>8, <2>1 DEF IInv, Pins, WriteLog, log
<1>9. ASSUME NEW b \in Blocks, Evict(b)
      PROVE  Pins'
  BY Zenon, <1>9 DEF IInv, Pins, Evict, Installing, log
<1>10. CASE Crash \/ Recovery
  BY Zenon, <1>10, EmptySeq DEF IInv, Pins, Staged, Installing, Crash, Recovery, ReadHead, Recover, RecoverDone,
                         bufs
<1>11. QED
  BY Zenon, <1>1, <1>2, <1>3, <1>4, <1>5, <1>6, <1>7, <1>8, <1>9, <1>10 DEF Next, End, Commit

(* What write_log() and install_trans() have passed is where it belongs. *)
LEMMA LoggedStep ==
  ASSUME IInv, Next
  PROVE  Logged'
<1>1. ASSUME NEW p \in Procs, Call(p) \/ BeginSleep(p) \/ BeginOp(p) \/ EndOp(p)
      PROVE  Logged'
  <2>1. (Installing' <=> Installing) /\ (Writing' <=> Writing)
    BY Zenon, <1>1, StageSteps
  <2>2. QED
    BY Zenon, <1>1, <2>1 DEF IInv, Logged, Call, BeginSleep, BeginOp, EndOp, disks, bufs, log
<1>2. ASSUME NEW p \in Procs, EndLastOp(p)
      PROVE  Logged'
  <2>1. ~Installing'
    BY Zenon, <1>2, StageSteps
  <2>2. QED
    BY <1>2, <2>1, Entries DEF Logged, EndLastOp, Running
<1>3. ASSUME NEW p \in Procs, NEW b \in Blocks, LogWrite(p, b)
      PROVE  Logged'
  BY Zenon, <1>3, LogWriteSteps DEF Logged, LogWrite
<1>4. ASSUME NEW p \in Procs, WriteLog(p)
      PROVE  Logged'
  <2>1. Writing /\ ~Installing' /\ kernel' = "up"
    BY Zenon, <1>4, Stages DEF WriteLog, Running, Committers, Writing, Installing
  <2>2. tail \in DOMAIN lh /\ tail \in 1 .. LOGSIZE
    BY <1>4, Entries, Constants DEF IInv, Types, CallTypes, WriteLog
  <2>3. QED
    BY <1>4, <2>1, <2>2, Entries DEF IInv, Types, BlockTypes, CallTypes, Logged, Once, Distinct, WriteLog, log
<1>5. ASSUME NEW p \in Procs, WriteHead(p)
      PROVE  Logged'
  <2>1. Writing /\ ~Writing' /\ kernel' = "up"
    BY Zenon, <1>5, StageSteps DEF WriteHead, Running, Writing
  <2>2. QED
    BY <1>5, <2>1, Entries DEF IInv, Types, CallTypes, Logged, WriteHead, bufs, log
<1>6. ASSUME NEW p \in Procs, Install(p)
      PROVE  Logged'
  <2>1. Installing /\ ~Writing' /\ kernel' = "up"
    BY Zenon, <1>6, Stages DEF Install, Running, Committers, Writing, Installing
  <2>2. tail \in DOMAIN lh
    BY <1>6, Entries, Constants DEF IInv, Types, CallTypes, Install
  <2>3. QED
    <3>1. \A i \in DOMAIN lh : i # tail => lh[i] # lh[tail]
      BY Zenon, <2>2 DEF IInv, Once, Distinct
    <3>2. /\ disk'[lh[tail]] = logdata[tail] /\ cache'[lh[tail]] = logdata[tail]
          /\ \A b \in Blocks : b # lh[tail] => disk'[b] = disk[b] /\ cache'[b] = cache[b]
      BY Zenon, <1>6, <2>2, Entries DEF IInv, Types, BlockTypes, Install
    <3>3. tail' = tail + 1 /\ UNCHANGED <<lh, logdata>>
      BY Zenon, <1>6 DEF Install, log
    <3>4. QED
      BY <2>1, <2>2, <3>1, <3>2, <3>3, Entries DEF IInv, Types, CallTypes, Logged
<1>7. ASSUME NEW p \in Procs, ClearHead(p) \/ EndCommit(p)
      PROVE  Logged'
  <2>1. ~Writing' /\ ~Installing' /\ kernel' = "up"
    BY Zenon, <1>7, StageSteps DEF ClearHead, EndCommit, Running
  <2>2. QED
    BY Zenon, <2>1 DEF Logged
<1>8. ASSUME NEW b \in Blocks, Evict(b)
      PROVE  Logged'
  <2>1. \A i \in DOMAIN lh : (Writing /\ i < tail) \/ (Installing /\ i >= tail) => lh[i] \in pinned
    <3>1. Writing => ~Installing
      BY Zenon, Stages DEF Writing, Committers
    <3>2. QED
      BY Zenon, <1>8, <3>1, Entries DEF IInv, Pins, Evict
  <2>2. (Installing' <=> Installing) /\ (Writing' <=> Writing)
    BY Zenon, <1>8 DEF Evict, Installing, Writing
  <2>3. QED
    BY Zenon, <1>8, <2>1, <2>2, Entries DEF IInv, Types, BlockTypes, Logged, Evict, disks, log
<1>9. CASE Crash
  BY Zenon, <1>9 DEF Logged, Crash, Writing, Installing
<1>10. CASE ReadHead \/ RecoverDone
  <2>1. ~Writing' /\ ~Installing'
    BY Zenon, <1>10 DEF IInv, Staged, ReadHead, RecoverDone, Writing, Installing
  <2>2. Len(hdr) \in Nat /\ DOMAIN hdr = 1 .. Len(hdr)
    BY Zenon, Entries
  <2>3. QED
    BY <1>10, <2>1, <2>2 DEF IInv, Staged, Logged, ReadHead, RecoverDone
<1>11. CASE Recover
  <2>1. ~Writing' /\ ~Installing'
    BY Zenon, <1>11 DEF IInv, Staged, Recover, Writing, Installing
  <2>2. tail \in DOMAIN lh
    BY <1>11, Entries DEF IInv, Types, CallTypes, Recover
  <2>3. QED
    <3>1. \A i \in DOMAIN lh : i # tail => lh[i] # lh[tail]
      BY Zenon, <2>2 DEF IInv, Once, Distinct
    <3>2. /\ disk'[lh[tail]] = logdata[tail]
          /\ \A b \in Blocks : b # lh[tail] => disk'[b] = disk[b]
      BY Zenon, <1>11, <2>2, Entries DEF IInv, Types, BlockTypes, Recover
    <3>3. kernel = "recover" /\ tail' = tail + 1 /\ UNCHANGED <<lh, logdata>>
      BY Zenon, <1>11 DEF Recover, log
    <3>4. QED
      BY <2>1, <2>2, <3>1, <3>2, <3>3, Entries DEF IInv, Types, CallTypes, Logged
<1>12. QED
  BY Zenon, <1>1, <1>2, <1>3, <1>4, <1>5, <1>6, <1>7, <1>8, <1>9, <1>10, <1>11 DEF Next, End, Commit, Recovery

(* The space begin_op() reserved is enough. *)
LEMMA FitsStep ==
  ASSUME IInv, Next
  PROVE  Fits'
<1> USE Constants
<1>1. ASSUME UNCHANGED <<lh, wrote, outstanding>>, InOp' = InOp
      PROVE  Fits'
  BY Zenon, <1>1 DEF IInv, Fits, Reserved
<1>2. ASSUME NEW p \in Procs, BeginOp(p)
      PROVE  Fits'
  <2>1. InOp' = InOp \cup {p} /\ p \notin InOp
    BY Zenon, <1>2, InOpSteps DEF IInv
  <2>2. \A q \in InOp' : /\ IsFiniteSet(wrote'[q]) /\ Cardinality(wrote'[q]) <= OpBlocks
                         /\ wrote'[q] \in SUBSET Range(lh')
    BY <1>2, <2>1, FS_EmptySet DEF IInv, Types, CallTypes, Fits, BeginOp, InOp
  <2>3. Cardinality(InOp') = outstanding + 1
    BY Zenon, <2>1, Finite, FS_AddElement DEF IInv, Counted
  <2>4. Cardinality(Reserved') \in Nat /\ Cardinality(Reserved') <= (outstanding + 1) * MAXOPBLOCKS
    <3>1. IsFiniteSet(InOp')
      BY Zenon, <2>1, Finite, FS_AddElement
    <3>2. IsFiniteSet(1 .. MAXOPBLOCKS) /\ Cardinality(1 .. MAXOPBLOCKS) = MAXOPBLOCKS
      BY FS_Interval
    <3>3. /\ IsFiniteSet(InOp' \X (1 .. MAXOPBLOCKS))
          /\ Cardinality(InOp' \X (1 .. MAXOPBLOCKS)) = (outstanding + 1) * MAXOPBLOCKS
      BY <2>3, <3>1, <3>2, FS_Product
    <3>4. Reserved' \in SUBSET (InOp' \X (1 .. MAXOPBLOCKS))
      BY Zenon DEF Reserved
    <3>5. QED
      BY Zenon, <3>3, <3>4, FS_Subset, FS_CardinalityType
  <2>5. Len(lh') + Cardinality(Reserved') <= LOGSIZE
    BY <1>2, <2>4, Entries DEF IInv, Types, CallTypes, BeginOp, NoRoom
  <2>6. outstanding' <= 1 => Len(lh') + Cardinality(Reserved') < LOGSIZE
    <3>1. CASE outstanding = 0
      BY <1>2, <2>4, <3>1, Entries DEF IInv, Types, CallTypes, Staged, BeginOp, Running
    <3>2. CASE outstanding # 0
      BY <1>2, <3>2 DEF IInv, Types, CallTypes, BeginOp
    <3>3. QED
      BY Zenon, <3>1, <3>2
  <2>7. QED
    BY Zenon, <2>2, <2>5, <2>6 DEF Fits
<1>3. ASSUME NEW p \in Procs, NEW b \in Blocks, LogWrite(p, b)
      PROVE  Fits'
  <2>1. /\ p \in InOp /\ InOp' = InOp /\ UNCHANGED outstanding
        /\ Range(lh') = Range(lh) \cup {b}
        /\ Len(lh') \in {Len(lh), Len(lh) + 1} /\ (b \in Range(lh) => lh' = lh)
        /\ wrote' = [wrote EXCEPT ![p] = @ \cup {b}]
        /\ Cardinality(wrote[p] \cup {b}) <= OpBlocks
    BY Zenon, <1>3, LogWriteSteps, InOpSteps DEF IInv, LogWrite
  <2>2. wrote \in [Procs -> SUBSET Blocks] /\ InOp \in SUBSET Procs
    BY Zenon DEF IInv, Types, CallTypes, InOp
  <2>3. /\ IsFiniteSet(wrote[p]) /\ Cardinality(wrote[p]) \in Nat
        /\ IsFiniteSet(wrote[p] \cup {b})
    BY Zenon, <2>1, FS_AddElement, FS_CardinalityType DEF IInv, Fits
  <2>4. \A q \in InOp' : /\ IsFiniteSet(wrote'[q]) /\ Cardinality(wrote'[q]) <= OpBlocks
                         /\ wrote'[q] \in SUBSET Range(lh')
    BY Zenon, <2>1, <2>2, <2>3 DEF IInv, Fits
  <2>5. CASE b \in wrote[p]
    <3>1. wrote' = wrote /\ lh' = lh
      BY Zenon, <2>1, <2>2, <2>5 DEF IInv, Fits
    <3>2. QED
      BY Zenon, <1>1, <2>1, <3>1
  <2>6. CASE b \notin wrote[p]
    <3> DEFINE k == Cardinality(wrote[p]) + 1
    <3>1. Cardinality(wrote'[p]) = k /\ k \in 1 .. MAXOPBLOCKS
      <4>1. Cardinality(wrote[p] \cup {b}) = k
        BY Zenon, <2>3, <2>6, FS_AddElement
      <4>2. wrote'[p] = wrote[p] \cup {b}
        BY Zenon, <2>1, <2>2
      <4>3. k <= OpBlocks
        BY Zenon, <2>1, <4>1
      <4>4. QED
        BY <2>3, <4>1, <4>2, <4>3
    <3>2. Reserved' = Reserved \ {<<p, k>>} /\ <<p, k>> \in Reserved
      <4> HIDE DEF k
      <4>1. \A q \in InOp : q # p => wrote'[q] = wrote[q]
        BY Zenon, <2>1, <2>2
      <4>2. \A n \in 1 .. MAXOPBLOCKS : n > k <=> n > Cardinality(wrote[p]) /\ n # k
        BY <2>3, <3>1 DEF k
      <4>3. k > Cardinality(wrote[p])
        BY <2>3 DEF k
      <4>4. \A r \in InOp \X (1 .. MAXOPBLOCKS) :
              r[2] > Cardinality(wrote'[r[1]]) <=> r[2] > Cardinality(wrote[r[1]]) /\ r # <<p, k>>
        BY <3>1, <4>1, <4>2
      <4>5. <<p, k>> \in Reserved
        BY <2>1, <3>1, <4>3 DEF Reserved
      <4>6. InOp' = InOp
        BY Zenon, <2>1
      <4>7. QED
        BY Zenon, <4>4, <4>5, <4>6 DEF Reserved
    <3>3. Cardinality(Reserved') = Cardinality(Reserved) - 1
      BY Zenon, <3>2, Finite, FS_RemoveElement
    <3>4. QED
      <4>1. UNCHANGED outstanding /\ Len(lh') \in {Len(lh), Len(lh) + 1}
        BY Zenon, <2>1
      <4>2. QED
        BY <2>4, <3>3, <4>1, Finite, Entries DEF IInv, Types, CallTypes, Fits
  <2>7. QED
    BY Zenon, <2>5, <2>6
<1>4. ASSUME NEW p \in Procs, End(p)
      PROVE  Fits'
  <2>1. InOp' = InOp \ {p} /\ p \in InOp /\ UNCHANGED <<lh, wrote>>
    BY Zenon, <1>4, InOpSteps DEF IInv, End, EndOp, EndLastOp
  <2>2. Reserved' \in SUBSET (Reserved \ {<<p, MAXOPBLOCKS>>}) /\ <<p, MAXOPBLOCKS>> \in Reserved
    BY <2>1, FS_CardinalityType DEF IInv, Fits, Reserved
  <2>3. /\ Cardinality(Reserved \ {<<p, MAXOPBLOCKS>>}) = Cardinality(Reserved) - 1
        /\ IsFiniteSet(Reserved \ {<<p, MAXOPBLOCKS>>})
    BY Zenon, <2>2, Finite, FS_RemoveElement
  <2>4. Cardinality(Reserved') \in Nat /\ Cardinality(Reserved') < Cardinality(Reserved)
    BY <2>2, <2>3, Finite, FS_Subset, FS_CardinalityType
  <2>5. QED
    BY <2>1, <2>4, Finite, Entries DEF IInv, Fits
<1>5. ASSUME NEW p \in Procs, ClearHead(p)
      PROVE  Fits'
  <2>1. InOp' = InOp /\ InOp = {}
    BY Zenon, <1>5, InOpSteps, Stages DEF IInv, Commit, ClearHead, Running, Committers
  <2>2. Reserved' = {}
    BY Zenon, <2>1 DEF Reserved
  <2>3. QED
    BY <1>5, <2>1, <2>2, EmptySeq, FS_EmptySet DEF Fits, ClearHead
<1>6. CASE Crash \/ ReadHead \/ RecoverDone
  <2>1. InOp' = {}
    BY Zenon, <1>6 DEF IInv, Staged, InOp, Crash, ReadHead, RecoverDone
  <2>2. Reserved' = {}
    BY Zenon, <2>1 DEF Reserved
  <2>3. Len(lh') \in Nat /\ Len(lh') < LOGSIZE
    BY <1>6, Entries, EmptySeq DEF IInv, Once, Crash, ReadHead, RecoverDone
  <2>4. QED
    BY <2>1, <2>2, <2>3, FS_EmptySet DEF Fits
<1>7. ASSUME NEW p \in Procs, Call(p) \/ BeginSleep(p) \/ WriteLog(p) \/ WriteHead(p) \/ Install(p) \/ EndCommit(p)
      PROVE  Fits'
  BY Zenon, <1>7, <1>1, InOpSteps DEF IInv, Call, BeginSleep, Commit, WriteLog, WriteHead, Install, EndCommit, log
<1>8. ASSUME NEW b \in Blocks, Evict(b)
      PROVE  Fits'
  BY Zenon, <1>8, <1>1 DEF Evict, InOp, log
<1>9. CASE Recover
  BY Zenon, <1>9, <1>1 DEF Recover, InOp, log
<1>10. QED
  BY Zenon, <1>2, <1>3, <1>4, <1>5, <1>6, <1>7, <1>8, <1>9 DEF Next, Commit, Recovery
-----------------------------------------------------------------------------
(* The invariant IInv is inductive: it holds of the disk that mkfs         *)
(* makes and every step of the calls, of commit() and of recovery keeps it.*)
THEOREM LogInductive == Spec => []IInv
<1>1. Init => IInv
  <2> SUFFICES ASSUME Init PROVE IInv
    OBVIOUS
  <2>1. InOp = {} /\ ~Writing /\ ~Installing /\ ~Committed
    BY Zenon DEF Init, InOp, Writing, Installing, Committed
  <2>2. Types /\ NoPanic
    BY Constants, EmptySeq
       DEF Init, Types, BlockTypes, CallTypes, Labels, NoPanic
  <2>3. Counted /\ SleepersHaveReason
    BY Zenon, <2>1, FS_EmptySet DEF Init, Counted, Committers, SleepersHaveReason
  <2>4. Staged /\ Once /\ Clean /\ Pins /\ Logged
    BY <2>1, Constants, EmptySeq DEF Init, Staged, Once, Clean, Pins, Logged
  <2>5. Fits
    <3>1. Reserved = {}
      BY Zenon, <2>1 DEF Reserved
    <3>2. QED
      BY <2>1, <3>1, Constants, EmptySeq, FS_EmptySet DEF Init, Fits
  <2>6. QED
    BY Zenon, <2>2, <2>3, <2>4, <2>5 DEF IInv
<1>2. IInv /\ [Next]_vars => IInv'
  <2> SUFFICES ASSUME IInv, [Next]_vars PROVE IInv'
    OBVIOUS
  <2>1. CASE Next
    BY Zenon, <2>1, BlockTypesStep, CallTypesStep, NoPanicStep, CountedStep, StagedStep, OnceStep, CleanStep,
       PinsStep, LoggedStep, FitsStep, SleepersStep
       DEF IInv, Types
  <2>2. CASE UNCHANGED vars
    <3>1. UNCHANGED <<InOp, Writing, Installing, Committed, Reserved>>
      BY Zenon, <2>2 DEF vars, log, disks, bufs, InOp, Writing, Installing, Committed, Reserved
    <3>2. Types' /\ NoPanic' /\ Counted' /\ SleepersHaveReason'
      BY Zenon, <2>2, <3>1 DEF vars, log, disks, bufs, IInv, Types, BlockTypes, CallTypes, NoPanic, Counted,
                        SleepersHaveReason
    <3>3. Staged' /\ Once' /\ Clean' /\ Pins' /\ Logged' /\ Fits'
      BY Zenon, <2>2, <3>1 DEF vars, log, disks, bufs, IInv, Staged, Once, Clean, Pins, Logged, Fits
    <3>4. QED
      BY Zenon, <3>2, <3>3 DEF IInv
  <2>3. QED
    BY Zenon, <2>1, <2>2
<1>3. QED
  BY <1>1, <1>2, PTL DEF Spec

(* log_write() never finds the log full and end_op() never finds the log   *)
(* committing, whatever the number of processes and the sizes: what        *)
(* begin_op() reserves is enough.                                          *)
THEOREM ReservationSuffices == Spec => []NoPanic
<1>1. IInv => NoPanic
  BY Zenon DEF IInv
<1>2. QED
  BY <1>1, LogInductive, PTL

(* No call sleeps in begin_op() with nobody left to wake it.               *)
THEOREM NoLostWakeup == Spec => []SleepersHaveReason
<1>1. IInv => SleepersHaveReason
  BY Zenon DEF IInv
<1>2. QED
  BY <1>1, LogInductive, PTL
-----------------------------------------------------------------------------
(* The block that recovery takes from the log for a home block. *)
LEMMA Chosen ==
  ASSUME NEW s, NEW b \in Range(s)
  PROVE  /\ (CHOOSE i \in DOMAIN s : s[i] = b) \in DOMAIN s
         /\ s[CHOOSE i \in DOMAIN s : s[i] = b] = b
BY Zenon DEF Range

(* An empty header leaves the disk alone. *)
LEMMA RecoveredEmpty == hdr = <<>> => Recovered = [b \in Blocks |-> disk[b]]
<1>1. Range(<<>>) = {}
  BY Zenon, EmptySeq DEF Range
<1>2. QED
  BY Zenon, <1>1 DEF Recovered

(* What a restart would find does not change while what it depends on      *)
(* does not.                                                               *)
LEMMA RecoveredSame ==
  ASSUME UNCHANGED <<hdr, logdata>>,
         \A b \in Blocks \ Range(hdr) : disk'[b] = disk[b]
  PROVE  Recovered' = Recovered
BY DEF Recovered

(* When everything in the log is at home, it is the disk.                  *)
LEMMA RecoveredHome ==
  ASSUME \A i \in DOMAIN hdr : logdata[i] = disk[hdr[i]]
  PROVE  Recovered = [b \in Blocks |-> disk[b]]
<1>1. \A b \in Range(hdr) : logdata[CHOOSE i \in DOMAIN hdr : hdr[i] = b] = disk[b]
  BY Zenon, Chosen
<1>2. QED
  BY <1>1 DEF Recovered

(* Once end_op() of the last call has returned nothing can be lost: a      *)
(* restart would find what system calls see.                               *)
THEOREM IdleIsSynced == Spec => []SyncedWhenIdle
<1>1. IInv => SyncedWhenIdle
  <2> SUFFICES ASSUME IInv, kernel = "up", outstanding = 0, ~committing
               PROVE  Recovered = Current
    BY Zenon DEF SyncedWhenIdle
  <2>1. lh = <<>> /\ ~Installing /\ hdr = <<>>
    BY Zenon DEF IInv, Staged, Counted, Committers, Installing
  <2>2. \A b \in Blocks : b \notin pinned
    BY Zenon, <2>1, EmptySeq DEF IInv, Pins
  <2>3. \A b \in Blocks : Bread(b) = disk[b]
    BY Zenon, <2>2 DEF IInv, Clean, Bread
  <2>4. QED
    BY Zenon, <2>1, <2>3, RecoveredEmpty DEF Current
<1>2. QED
  BY <1>1, LogInductive, PTL
-----------------------------------------------------------------------------
(* The steps of the log as steps of AtomicDisk.                            *)
absvars == <<Recovered, Current, outstanding>>

(* What the calls read does not change if neither the cached nor the home  *)
(* copy of a block decides differently.                                    *)
LEMMA CurrentSame ==
  ASSUME kernel = "up", kernel' = "up", \A b \in Blocks : Bread(b)' = Bread(b)
  PROVE  Current' = Current
BY Zenon DEF Current

LEMMA CallsRefine ==
  ASSUME IInv, NEW p \in Procs,
         Call(p) \/ BeginSleep(p) \/ BeginOp(p) \/ End(p) \/ EndCommit(p)
  PROVE  Abstract!Next \/ UNCHANGED absvars
<1>1. Recovered' = Recovered
  BY Zenon, RecoveredSame DEF Call, BeginSleep, BeginOp, End, EndOp, EndLastOp, EndCommit, disks
<1>2. Current' = Current
  <2>1. kernel = "up" /\ kernel' = "up" /\ UNCHANGED <<cache, disk>>
    BY Zenon DEF Call, BeginSleep, BeginOp, End, EndOp, EndLastOp, EndCommit, Running, disks, bufs
  <2>2. QED
    BY Zenon, <2>1, CurrentSame DEF Bread
<1>3. CASE Call(p) \/ BeginSleep(p) \/ EndCommit(p)
  BY Zenon, <1>1, <1>2, <1>3 DEF absvars, Call, BeginSleep, EndCommit, log
<1>4. CASE BeginOp(p)
  BY Zenon, <1>1, <1>2, <1>4 DEF Abstract!Next, Abstract!Begin, BeginOp
<1>5. CASE End(p)
  BY <1>1, <1>2, <1>5 DEF IInv, Types, CallTypes, Abstract!Next, Abstract!End, End, EndOp, EndLastOp
<1>6. QED
  BY Zenon, <1>3, <1>4, <1>5

(* log_write() is a Write: it changes one block of what the calls see, and *)
(* nothing a restart would find.                                           *)
LEMMA LogWriteRefines ==
  ASSUME IInv, NEW p \in Procs, NEW b \in Blocks, LogWrite(p, b)
  PROVE  Abstract!Write
<1>1. Recovered' = Recovered
  BY Zenon, RecoveredSame DEF LogWrite, disks
<1>2. p \in InOp /\ outstanding > 0 /\ UNCHANGED outstanding
  BY Zenon, LogWriteSteps, Stages DEF LogWrite
<1>3. id[p] \in Vals /\ id[p] # Absent
  BY Zenon, Constants DEF IInv, Types, CallTypes
<1>4. Current' = [Current EXCEPT ![b] = id[p]]
  <2>1. kernel = "up" /\ kernel' = "up" /\ UNCHANGED disk /\ cache' = [cache EXCEPT ![b] = id[p]]
    BY Zenon DEF LogWrite, Running, disks
  <2>2. cache \in [Blocks -> Vals \cup {Absent}]
    BY Zenon DEF IInv, Types, BlockTypes
  <2>3. QED
    BY Zenon, <1>3, <2>1, <2>2 DEF Current, Bread
<1>5. QED
  BY Zenon, <1>1, <1>2, <1>3, <1>4 DEF Abstract!Write

(* write_head() is the commit: from that block on, a restart finds what    *)
(* the calls see.                                                          *)
LEMMA WriteHeadRefines ==
  ASSUME IInv, NEW p \in Procs, WriteHead(p)
  PROVE  Abstract!Commit
<1>1. /\ Writing /\ ~Installing /\ outstanding = 0 /\ UNCHANGED outstanding
      /\ kernel = "up" /\ kernel' = "up" /\ hdr' = lh /\ UNCHANGED <<disk, logdata, cache>>
  BY Zenon, Stages DEF WriteHead, Running, Committers, Writing, bufs, log
<1>2. Current' = Current
  BY Zenon, <1>1, CurrentSame DEF Bread
<1>3. \A b \in Range(lh) : logdata[CHOOSE i \in DOMAIN lh : lh[i] = b] = Bread(b)
  <2>1. \A i \in DOMAIN lh : logdata[i] = cache[lh[i]] /\ cache[lh[i]] # Absent
    <3>1. \A i \in DOMAIN lh : i < tail /\ lh[i] \in pinned
      BY <1>1, Entries DEF IInv, Types, CallTypes, Pins, WriteHead
    <3>2. QED
      BY Zenon, <1>1, <3>1 DEF IInv, Logged, Clean
  <2>2. QED
    BY <2>1, Chosen DEF Bread
<1>4. \A b \in Blocks \ Range(lh) : disk[b] = Bread(b)
  <2>1. \A b \in Blocks \ Range(lh) : b \notin pinned
    BY Zenon, <1>1 DEF IInv, Pins, Range
  <2>2. QED
    BY Zenon, <2>1 DEF IInv, Clean, Bread
<1>5. Recovered' = Current
  BY <1>1, <1>3, <1>4 DEF Recovered, Current
<1>6. QED
  BY Zenon, <1>1, <1>2, <1>5 DEF Abstract!Commit

(* The other steps of commit() and the recycling of buffers change nothing *)
(* a system call or a restart could see.                                   *)
LEMMA CommitStutters ==
  ASSUME IInv, NEW p \in Procs, WriteLog(p) \/ Install(p) \/ ClearHead(p)
  PROVE  UNCHANGED absvars
<1>1. /\ kernel = "up" /\ kernel' = "up" /\ UNCHANGED outstanding
      /\ op[p] \in {"writelog", "install"}
  BY Zenon DEF WriteLog, Install, ClearHead, Running, log
<1>2. CASE WriteLog(p)
  <2>1. hdr = <<>> /\ UNCHANGED <<hdr, disk>>
    BY Zenon, <1>1, <1>2, Stages DEF IInv, Staged, WriteLog, Running, Committers
  <2>2. Recovered' = Recovered
    <3>1. Range(<<>>) = {}
      BY Zenon, EmptySeq DEF Range
    <3>2. QED
      BY Zenon, <2>1, <3>1 DEF Recovered
  <2>3. \A b \in Blocks : Bread(b)' = Bread(b)
    BY Zenon, <1>2, Entries DEF IInv, Types, BlockTypes, CallTypes, WriteLog, Bread
  <2>4. QED
    BY Zenon, <1>1, <2>2, <2>3, CurrentSame DEF absvars
<1>3. CASE Install(p)
  <2>1. /\ Installing /\ hdr = lh /\ tail \in DOMAIN lh
        /\ UNCHANGED <<hdr, logdata>>
    BY <1>1, <1>3, Entries DEF IInv, Types, CallTypes, Staged, Install, Running, Installing
  <2>2. \A b \in Blocks \ Range(hdr) : disk'[b] = disk[b]
    BY Zenon, <1>3, <2>1 DEF IInv, Types, BlockTypes, Install, Range
  <2>3. Recovered' = Recovered
    BY Zenon, <2>1, <2>2, RecoveredSame
  <2>4. logdata[tail] = cache[lh[tail]] /\ cache[lh[tail]] # Absent
    BY <1>1, <2>1, Entries DEF IInv, Types, CallTypes, Logged, Pins, Clean
  <2>5. \A b \in Blocks : Bread(b)' = Bread(b)
    BY Zenon, <1>3, <2>1, <2>4, Entries DEF IInv, Types, BlockTypes, Install, Bread
  <2>6. QED
    BY Zenon, <1>1, <2>3, <2>5, CurrentSame DEF absvars
<1>4. CASE ClearHead(p)
  <2>1. Installing /\ hdr = lh /\ hdr' = <<>> /\ UNCHANGED <<disk, cache>>
    BY Zenon, <1>1, <1>4 DEF IInv, Staged, ClearHead, Running, Installing, bufs
  <2>2. \A i \in DOMAIN hdr : logdata[i] = disk[hdr[i]]
    BY <1>4, <2>1, Entries DEF IInv, Types, CallTypes, Logged, ClearHead
  <2>3. Recovered = [b \in Blocks |-> disk[b]]
    BY Zenon, <2>2, RecoveredHome
  <2>4. Recovered' = [b \in Blocks |-> disk'[b]]
    <3>1. Range(<<>>) = {}
      BY Zenon, EmptySeq DEF Range
    <3>2. QED
      BY Zenon, <2>1, <3>1 DEF Recovered
  <2>5. QED
    BY Zenon, <1>1, <2>1, <2>3, <2>4, CurrentSame DEF absvars, Bread
<1>5. QED
  BY Zenon, <1>2, <1>3, <1>4

LEMMA EvictStutters ==
  ASSUME IInv, NEW b \in Blocks, Evict(b)
  PROVE  UNCHANGED absvars
<1>1. Recovered' = Recovered
  BY Zenon, RecoveredSame DEF Evict, disks
<1>2. \A c \in Blocks : Bread(c)' = Bread(c)
  BY Zenon DEF IInv, Types, BlockTypes, Clean, Evict, Bread, disks
<1>3. QED
  BY Zenon, <1>1, <1>2, CurrentSame DEF Evict, absvars, log

(* A crash takes the calls back to what a restart finds, and recovery,     *)
(* itself interrupted or not, does not change that.                        *)
LEMMA CrashRefines ==
  ASSUME IInv, Crash
  PROVE  Abstract!Crash
<1>1. Recovered' = Recovered
  BY Zenon, RecoveredSame DEF Crash, disks
<1>2. QED
  BY Zenon, <1>1 DEF Crash, Abstract!Crash, Current

LEMMA RecoveryStutters ==
  ASSUME IInv, Recovery
  PROVE  UNCHANGED absvars
<1>1. CASE ReadHead
  <2>1. Recovered' = Recovered
    BY Zenon, <1>1, RecoveredSame DEF ReadHead, disks
  <2>2. QED
    BY Zenon, <1>1, <2>1 DEF ReadHead, Current, absvars
<1>2. CASE Recover
  <2>1. hdr = lh /\ tail \in DOMAIN lh /\ UNCHANGED <<hdr, logdata>>
    BY <1>2, Entries DEF IInv, Types, CallTypes, Staged, Recover
  <2>2. \A b \in Blocks \ Range(hdr) : disk'[b] = disk[b]
    BY Zenon, <1>2, <2>1 DEF IInv, Types, BlockTypes, Recover, Range
  <2>3. Recovered' = Recovered
    BY Zenon, <2>1, <2>2, RecoveredSame
  <2>4. QED
    BY Zenon, <1>2, <2>3 DEF Recover, Current, absvars, log
<1>3. CASE RecoverDone
  <2>1. /\ hdr = lh /\ hdr' = <<>> /\ UNCHANGED <<disk, cache, pinned, outstanding>>
        /\ kernel = "recover" /\ kernel' = "up" /\ pinned = {}
    BY Zenon, <1>3 DEF IInv, Staged, RecoverDone, bufs
  <2>2. \A i \in DOMAIN hdr : logdata[i] = disk[hdr[i]]
    BY <1>3, <2>1, Entries DEF IInv, Types, CallTypes, Logged, RecoverDone
  <2>3. Recovered = [b \in Blocks |-> disk[b]]
    BY Zenon, <2>2, RecoveredHome
  <2>4. Recovered' = [b \in Blocks |-> disk'[b]]
    <3>1. Range(<<>>) = {}
      BY Zenon, EmptySeq DEF Range
    <3>2. QED
      BY Zenon, <2>1, <3>1 DEF Recovered
  <2>5. \A b \in Blocks : Bread(b)' = disk[b]
    BY Zenon, <2>1 DEF IInv, Clean, Bread
  <2>6. QED
    BY Zenon, <2>1, <2>3, <2>4, <2>5 DEF Current, absvars
<1>4. QED
  BY Zenon, <1>1, <1>2, <1>3 DEF Recovery

(* Crash atomicity: whatever the processes, blocks and sizes, wherever the *)
(* power fails, in commit() or in recovery, a restart finds the disk as it *)
(* was at the last commit point, all of a transaction or nothing of it.    *)
THEOREM CrashAtomicity == Spec => ImplementsAtomicDisk
<1>1. Init => Abstract!Init
  <2> SUFFICES ASSUME Init PROVE Abstract!Init
    OBVIOUS
  <2>1. Recovered = [b \in Blocks |-> 0]
    BY Zenon, RecoveredEmpty DEF Init
  <2>2. Current = [b \in Blocks |-> 0]
    BY Zenon DEF Init, Current, Bread
  <2>3. QED
    BY Zenon, <2>1, <2>2, Constants DEF Init, Abstract!Init
<1>2. IInv /\ [Next]_vars => [Abstract!Next]_absvars
  <2> SUFFICES ASSUME IInv, [Next]_vars PROVE Abstract!Next \/ UNCHANGED absvars
    OBVIOUS
  <2>1. CASE Next
    BY Zenon, <2>1, CallsRefine, LogWriteRefines, WriteHeadRefines, CommitStutters, EvictStutters, CrashRefines,
       RecoveryStutters
       DEF Next, Commit, Abstract!Next
  <2>2. CASE UNCHANGED vars
    BY <2>2 DEF vars, log, disks, bufs, absvars, Recovered, Current, Bread
  <2>3. QED
    BY Zenon, <2>1, <2>2
<1>3. QED
  BY <1>1, <1>2, LogInductive, PTL DEF Spec, ImplementsAtomicDisk, Abstract!Spec, absvars
=============================================================================

------------------------------- MODULE Inode --------------------------------
(***************************************************************************)
(* The contents of files: the block bitmap, direct and indirect blocks,    *)
(* readi() and writei() of kernel/fs.c and their callers fileread(),       *)
(* filewrite() and sys_open() with O_TRUNC.  The lock of an inode protects *)
(* its blocks; writers of different inodes meet in the bitmap.  Logging is *)
(* in module Log, the inodes' names and references are in module Fs.       *)
(***************************************************************************)
EXTENDS Integers, Sequences, FiniteSets, FiniteSetsExt, SequencesExt

CONSTANTS
  Procs, Inodes,
  Opens,                   \* the open files
  Ip,                      \* the inode of each
  Users,                   \* the processes that have it, by dup() and fork()
  NBLOCKS,                 \* blocks of the data area
  BSIZE, NDIRECT, NINDIRECT,
  MaxChunk,                \* bytes that filewrite() writes in one transaction
  Faulty,                  \* processes that pass bad buffers
  WriteLengths, ReadLengths,   \* an int as a uint
  UintRange                \* 2^32 in the code

ASSUME InodeConstants == {NBLOCKS, BSIZE, NDIRECT, NINDIRECT, MaxChunk, UintRange} \subseteq Nat \ {0}

VARIABLES
  bitmap,    \* the blocks in use
  blk,       \* data of each block: bytes, or the block numbers of an indirect block
  addrs,     \* NDIRECT direct blocks and the indirect block of each inode
  size,
  lock,      \* the holder of each inode's lock, and the content it found
  off,       \* of each open file
  call,      \* what each process is doing in filewrite()
  panicked

vars == <<bitmap, blk, addrs, size, lock, off, call, panicked>>
Blocks == 1 .. NBLOCKS
MAXFILE == NDIRECT + NINDIRECT
Idle == [f |-> "none", n |-> 0, i |-> 0, tot |-> 0, n1 |-> 0]
Unlocked == <<"nobody", <<>>>>
Zero == [bytes |-> [k \in 1 .. BSIZE |-> <<>>], a |-> [k \in 1 .. NINDIRECT |-> 0]]

Init ==
  /\ bitmap = {}
  /\ blk = [b \in Blocks |-> Zero]
  /\ addrs = [i \in Inodes |-> [k \in 1 .. NDIRECT + 1 |-> 0]]
  /\ size = [i \in Inodes |-> 0]
  /\ lock = [i \in Inodes |-> Unlocked]
  /\ off = [f \in Opens |-> 0]
  /\ call = [p \in Procs |-> Idle]
  /\ panicked = "no"
-----------------------------------------------------------------------------
(* Disk and inode i as bmap() sees and leaves them. *)
Disk(i) == [bitmap |-> bitmap, blk |-> blk, addrs |-> addrs[i], addr |-> 0, panic |-> "no"]

(* balloc(): the first free block, zeroed by bzero(). *)
balloc(d) ==
  LET free == Blocks \ d.bitmap
      b == Min(free)
  IN IF free = {} THEN [d EXCEPT !.panic = "balloc: out of blocks"]
     ELSE [d EXCEPT !.bitmap = @ \cup {b}, !.blk[b] = Zero, !.addr = b]

(* bmap(): the block of index bn, allocated if necessary, in addr. *)
bmap(d, bn) ==
  LET direct == d.addrs[bn + 1]
      d1 == balloc(d)
      ind == IF d.addrs[NDIRECT + 1] # 0 THEN [d EXCEPT !.addr = d.addrs[NDIRECT + 1]]
             ELSE [balloc(d) EXCEPT !.addrs[NDIRECT + 1] = balloc(d).addr]
      k == bn - NDIRECT + 1
      d2 == balloc(ind)
  IN CASE bn < NDIRECT ->
            IF direct # 0 THEN [d EXCEPT !.addr = direct] ELSE [d1 EXCEPT !.addrs[bn + 1] = d1.addr]
       [] bn >= MAXFILE -> [d EXCEPT !.panic = "bmap: out of range"]
       [] OTHER ->
            IF ind.panic # "no" THEN ind
            ELSE IF ind.blk[ind.addr].a[k] # 0 THEN [ind EXCEPT !.addr = ind.blk[ind.addr].a[k]]
            ELSE IF d2.panic # "no" THEN d2 ELSE [d2 EXCEPT !.blk[ind.addr].a[k] = d2.addr]

(* bfree(): clears the bits of blocks that must be in use. *)
bfree(S) ==
  IF S \subseteq bitmap THEN bitmap' = bitmap \ S /\ UNCHANGED panicked
  ELSE panicked' = "freeing free block" /\ UNCHANGED bitmap

(* Mutant: itrunc() forgets the blocks that the indirect block lists. *)
itruncDirectOnly(i) == {addrs[i][k] : k \in 1 .. NDIRECT + 1} \ {0}

(* The blocks itrunc() frees. *)
itrunc(i) ==
  LET ind == addrs[i][NDIRECT + 1] IN
  ({addrs[i][k] : k \in 1 .. NDIRECT + 1} \cup IF ind = 0 THEN {} ELSE {blk[ind].a[k] : k \in 1 .. NINDIRECT}) \ {0}

(* The block of index bn, without allocating, and the bytes below size. *)
BlockOf(i, bn) ==
  IF bn < NDIRECT THEN addrs[i][bn + 1]
  ELSE IF addrs[i][NDIRECT + 1] = 0 THEN 0 ELSE blk[addrs[i][NDIRECT + 1]].a[bn - NDIRECT + 1]
Content(i) == [a \in 1 .. size[i] |-> blk[BlockOf(i, (a - 1) \div BSIZE)].bytes[((a - 1) % BSIZE) + 1]]
-----------------------------------------------------------------------------
Running(p) == panicked = "no" /\ p \in Procs
Panic(message) == panicked' = message /\ UNCHANGED <<bitmap, blk, addrs, size, lock, off, call>>

(* filewrite(): an int that is negative writes nothing. *)
WriteBegin(p, f, n) ==
  /\ Running(p) /\ call[p] = Idle /\ p \in Users[f] /\ n < UintRange \div 2
  /\ call' = [call EXCEPT ![p] = [Idle EXCEPT !.f = f, !.n = n]]
  /\ UNCHANGED <<bitmap, blk, addrs, size, lock, off, panicked>>

(* Mutant: the test of off against the size is missing. *)
writeiPastEnd(i, o, n) == o + n > MAXFILE * BSIZE

(* The tests of writei(); o + n does not wrap for a chunk. *)
writeiRefuses(i, o, n) == o > size[i] \/ o + n > MAXFILE * BSIZE

(* One chunk: begin_op(), ilock() and the tests of writei(). *)
WriteLock(p) ==
  /\ Running(p) /\ call[p].f # "none" /\ call[p].n1 = 0
  /\ LET f == call[p].f
         i == Ip[f]
         n1 == Min({call[p].n - call[p].i, MaxChunk})
     IN /\ lock[i] = Unlocked
        /\ IF writeiRefuses(i, off[f], n1)
           THEN call' = [call EXCEPT ![p] = Idle] /\ UNCHANGED lock
           ELSE call' = [call EXCEPT ![p].n1 = n1] /\ lock' = [lock EXCEPT ![i] = <<p, Content(i)>>]
  /\ UNCHANGED <<bitmap, blk, addrs, size, off, panicked>>

(* Mutant: f->off stays where it was if writei() fell short. *)
WriteEndKeepsOff(p, tot, short) ==
  LET f == call[p].f
      i == call[p].i + tot
  IN /\ size' = [size EXCEPT ![Ip[f]] = Max({@, off[f] + tot})]
     /\ off' = [off EXCEPT ![f] = IF short THEN @ ELSE @ + tot]
     /\ lock' = [lock EXCEPT ![Ip[f]] = Unlocked]
     /\ call' = [call EXCEPT ![p] = IF short \/ i = call[p].n THEN Idle ELSE [@ EXCEPT !.i = i, !.tot = 0, !.n1 = 0]]

(* The end of writei(), filewrite() moves f->off, iunlock() and end_op();  *)
(* the loop of filewrite() goes on unless writei() fell short.             *)
WriteEnd(p, tot, short) ==
  LET f == call[p].f
      i == call[p].i + tot
  IN /\ size' = [size EXCEPT ![Ip[f]] = Max({@, off[f] + tot})]
     /\ off' = [off EXCEPT ![f] = @ + tot]
     /\ lock' = [lock EXCEPT ![Ip[f]] = Unlocked]
     /\ call' = [call EXCEPT ![p] = IF short \/ i = call[p].n THEN Idle
                                     ELSE [@ EXCEPT !.i = i, !.tot = 0, !.n1 = 0]]

(* One block of writei(): bmap(), then either_copyin() of m bytes, which   *)
(* can fail after some of them are in the buffer.                          *)
WriteBlock(p) ==
  /\ Running(p) /\ call[p].n1 # 0
  /\ LET c == call[p]
         i == Ip[c.f]
         pos == off[c.f] + c.tot
         d == bmap(Disk(i), pos \div BSIZE)
         o == pos % BSIZE
         m == Min({c.n1 - c.tot, BSIZE - o})
         copied(n) == [d.blk EXCEPT ![d.addr].bytes = [k \in 1 .. BSIZE |->
                         IF k \in o + 1 .. o + n THEN <<p, c.i + c.tot + k - o>> ELSE @[k]]]
     IN IF d.panic # "no" THEN Panic(d.panic)
        ELSE /\ bitmap' = d.bitmap /\ addrs' = [addrs EXCEPT ![i] = d.addrs] /\ UNCHANGED panicked
             /\ \/ /\ blk' = copied(m)
                   /\ IF c.tot + m = c.n1 THEN WriteEnd(p, c.n1, FALSE)
                      ELSE call' = [call EXCEPT ![p].tot = c.tot + m] /\ UNCHANGED <<size, lock, off>>
                \/ \E n \in 0 .. m - 1 : p \in Faulty /\ blk' = copied(n) /\ WriteEnd(p, c.tot, TRUE)

(* How many bytes readi() finds. *)
readi(i, o, n) ==
  IF o > size[i] \/ (o + n) % UintRange < o THEN 0 ELSE Min({n, size[i] - o})

(* fileread(): readi() is not in a transaction, so bmap() must not         *)
(* allocate; either_copyout() can fail.                                    *)
FileRead(p, f, n) ==
  /\ Running(p) /\ call[p] = Idle /\ p \in Users[f] /\ lock[Ip[f]] = Unlocked
  /\ LET i == Ip[f]
         tot == readi(i, off[f], n)
         holes == \E bn \in 0 .. MAXFILE - 1 :
                    bn * BSIZE < off[f] + tot /\ off[f] < (bn + 1) * BSIZE /\ BlockOf(i, bn) = 0
     IN IF tot > 0 /\ holes THEN Panic("log_write outside of trans")
        ELSE /\ \/ off' = [off EXCEPT ![f] = @ + tot]
                \/ p \in Faulty /\ UNCHANGED off
             /\ UNCHANGED <<bitmap, blk, addrs, size, lock, call, panicked>>

(* sys_open() of the file's name again, once its users have closed it.  As *)
(* balloc() zeroes a block, what a free block holds is immaterial.         *)
Open(f, trunc) ==
  /\ panicked = "no" /\ lock[Ip[f]] = Unlocked /\ \A p \in Users[f] : call[p].f # f
  /\ LET i == Ip[f] IN
     /\ off' = [off EXCEPT ![f] = 0]
     /\ bfree(IF trunc THEN itrunc(i) ELSE {})
     /\ addrs' = IF trunc THEN [addrs EXCEPT ![i] = [k \in 1 .. NDIRECT + 1 |-> 0]] ELSE addrs
     /\ size' = IF trunc THEN [size EXCEPT ![i] = 0] ELSE size
     /\ blk' = [b \in Blocks |-> IF b \in bitmap' THEN blk[b] ELSE Zero]
     /\ UNCHANGED <<lock, call>>

Halted == panicked # "no" /\ UNCHANGED vars

Next ==
  \/ \E p \in Procs :
       \/ WriteLock(p) \/ WriteBlock(p)
       \/ \E f \in Opens : (\E n \in WriteLengths : WriteBegin(p, f, n)) \/ \E n \in ReadLengths : FileRead(p, f, n)
  \/ \E f \in Opens, trunc \in BOOLEAN : Open(f, trunc)
  \/ Halted

Spec == Init /\ [][Next]_vars
-----------------------------------------------------------------------------
(* The places that refer to block b. *)
Uses(b) ==
  {<<i, k>> \in Inodes \X (1 .. NDIRECT + 1) : addrs[i][k] = b}
    \cup {<<i, k>> \in Inodes \X (NDIRECT + 2 .. MAXFILE + 1) :
            addrs[i][NDIRECT + 1] # 0 /\ blk[addrs[i][NDIRECT + 1]].a[k - NDIRECT - 1] = b}

(* A block is marked in the bitmap exactly if one inode uses it, and in    *)
(* one place: truncation and failed writes neither lose blocks nor leave a *)
(* freed one in use, and no panic but "out of blocks" is reached.          *)
BlocksExact ==
  /\ panicked \in {"no", "balloc: out of blocks"}
  /\ \A b \in Blocks : Cardinality(Uses(b)) = IF b \in bitmap THEN 1 ELSE 0

(* All blocks below ip->size exist, also after a write that failed half    *)
(* way.  fileread() relies on it: its readi() would allocate them outside  *)
(* a transaction.                                                          *)
NoHoles == \A i \in Inodes : \A bn \in 0 .. MAXFILE - 1 : bn * BSIZE < size[i] => BlockOf(i, bn) # 0

(* Seen when its lock is free, a file is the sequence of bytes of module   *)
(* ByteFiles: chunks of concurrent write()s go to consecutive offsets in   *)
(* the order of their buffers, whatever blocks they meet.                  *)
Abstract == INSTANCE ByteFiles WITH
  Piece <- MaxChunk,
  content <- [i \in Inodes |-> IF lock[i] = Unlocked THEN Content(i) ELSE lock[i][2]],
  offset <- off,
  done <- [p \in Procs |-> IF call[p] = Idle THEN <<>> ELSE <<call[p].f, call[p].i>>]
ImplementsByteFiles == Abstract!Spec
=============================================================================

------------------------------- MODULE Files --------------------------------
(***************************************************************************)
(* The file table of kernel/file.c and the descriptors of the processes:   *)
(* pipe, dup, close, read and write of kernel/sysfile.c, and what fork()   *)
(* and exit() do to descriptors, over the pipe of module Pipe.  The files  *)
(* are ends of pipes.  A section under ftable.lock is one step.            *)
(***************************************************************************)
EXTENDS Pipe, FiniteSets, FiniteSetsExt

CONSTANTS
  NFILE,   \* size of ftable.file
  NOFILE,  \* descriptors of a process
  MaxN     \* bound: bytes asked for in one read or write

ASSUME FilesConstants ==
  /\ NFILE \in Nat /\ NOFILE \in Nat /\ MaxN \in Nat
  /\ IsFiniteSet(Procs) /\ NULL \notin Procs

VARIABLES
  ref,     \* f->ref
  ftype,   \* f->type and f->writable: "none", or the end "r" or "w" of the pipe
  ofile,   \* p->ofile, 0 for none
  rf, wf,  \* locals of sys_pipe(), and rf of sys_dup(): files, 0 for none
  todo,    \* files that p has still to pass to fileclose()
  ff,      \* fileclose(): its copy of the type of the file
  after,   \* where p goes when all of todo is closed
  np,      \* fork(): the child
  panicked

table == <<ref, ftype>>
locals == <<rf, wf, todo, ff, after, np>>
vars == <<pc, killed, pipe, table, ofile, locals, panicked>>

FileSlots == 1 .. NFILE
Fds == 0 .. NOFILE - 1
NoFiles == [fd \in Fds |-> 0]
initproc == 0

(* init runs, without an open file. *)
Init ==
  /\ PipeInit
  /\ pc = [p \in Procs |-> IF p = initproc THEN "user" ELSE "dead"]
  /\ killed = [p \in Procs |-> FALSE]
  /\ ref = [f \in FileSlots |-> 0]
  /\ ftype = [f \in FileSlots |-> "none"]
  /\ ofile = [p \in Procs |-> NoFiles]
  /\ rf = [p \in Procs |-> 0] /\ wf = [p \in Procs |-> 0]
  /\ todo = [p \in Procs |-> <<>>]
  /\ ff = [p \in Procs |-> "none"]
  /\ after = [p \in Procs |-> "user"]
  /\ np = [p \in Procs |-> NULL]
  /\ panicked = FALSE

(* p is in user mode; usertrap() lets a killed process only exit. *)
User(p) == pc[p] = "user" /\ ~killed[p]
Open(p) == {fd \in Fds : ofile[p][fd] # 0}
FreeFds(p) == Fds \ Open(p)
FreeFiles == {f \in FileSlots : ref[f] = 0}
SetFile(p, fd, f) == ofile' = [ofile EXCEPT ![p][fd] = f]
(* p calls fileclose() for the files of s, and then goes on at l. *)
CloseAll(p, s, l) ==
  /\ todo' = [todo EXCEPT ![p] = s]
  /\ after' = [after EXCEPT ![p] = l]
  /\ Goto(p, "close")
-----------------------------------------------------------------------------
(* filealloc() for the read end, and for the write end, in pipealloc().    *)
FileAllocRead(p) ==
  /\ User(p)
  /\ IF FreeFiles = {}
     THEN UNCHANGED <<pc, ref, rf>>
     ELSE LET f == Min(FreeFiles) IN
          /\ ref' = [ref EXCEPT ![f] = 1]
          /\ rf' = [rf EXCEPT ![p] = f]
          /\ Goto(p, "alloc")
  /\ UNCHANGED <<killed, pipe, ftype, ofile, wf, todo, ff, after, np, panicked>>

(* Mutant: pipealloc() without room for the second file keeps the first. *)
FileAllocWriteLeaks(p) ==
  /\ pc[p] = "alloc"
  /\ IF FreeFiles = {}
     THEN /\ CloseAll(p, <<>>, "user")
          /\ rf' = [rf EXCEPT ![p] = 0]
          /\ UNCHANGED <<ref, wf>>
     ELSE LET f == Min(FreeFiles) IN
          /\ ref' = [ref EXCEPT ![f] = 1]
          /\ wf' = [wf EXCEPT ![p] = f]
          /\ Goto(p, "kalloc")
          /\ UNCHANGED <<rf, todo, after>>
  /\ UNCHANGED <<killed, pipe, ftype, ofile, ff, np, panicked>>

FileAllocWrite(p) ==
  /\ pc[p] = "alloc"
  /\ IF FreeFiles = {}
     THEN /\ CloseAll(p, <<rf[p]>>, "user")
          /\ rf' = [rf EXCEPT ![p] = 0]
          /\ UNCHANGED <<ref, wf>>
     ELSE LET f == Min(FreeFiles) IN
          /\ ref' = [ref EXCEPT ![f] = 1]
          /\ wf' = [wf EXCEPT ![p] = f]
          /\ Goto(p, "kalloc")
          /\ UNCHANGED <<rf, todo, after>>
  /\ UNCHANGED <<killed, pipe, ftype, ofile, ff, np, panicked>>

(* pipealloc(): kalloc() fails and both files are closed. *)
PipeNoMemory(p) ==
  /\ pc[p] = "kalloc" /\ inuse
  /\ CloseAll(p, <<rf[p], wf[p]>>, "user")
  /\ rf' = [rf EXCEPT ![p] = 0] /\ wf' = [wf EXCEPT ![p] = 0]
  /\ UNCHANGED <<killed, pipe, table, ofile, ff, np, panicked>>

(* pipealloc() succeeds; sys_pipe() installs two descriptors, or takes     *)
(* them back and closes both files if one is missing or copyout() fails.   *)
PipeAlloc(p) ==
  /\ pc[p] = "kalloc" /\ ~inuse
  /\ PipeNew
  /\ ftype' = [ftype EXCEPT ![rf[p]] = "r", ![wf[p]] = "w"]
  /\ \/ /\ Cardinality(FreeFds(p)) >= 2
        /\ LET fd0 == Min(FreeFds(p))
               fd1 == Min(FreeFds(p) \ {fd0})
           IN ofile' = [ofile EXCEPT ![p][fd0] = rf[p], ![p][fd1] = wf[p]]
        /\ Goto(p, "user")
        /\ UNCHANGED <<todo, after>>
     \/ CloseAll(p, <<rf[p], wf[p]>>, "user") /\ UNCHANGED ofile
  /\ rf' = [rf EXCEPT ![p] = 0] /\ wf' = [wf EXCEPT ![p] = 0]
  /\ UNCHANGED <<killed, ref, ff, np, panicked>>
-----------------------------------------------------------------------------
(* filedup(f). *)
FileDup(f) ==
  /\ panicked' = (panicked \/ ref[f] < 1)
  /\ ref' = [ref EXCEPT ![f] = @ + 1]

(* sys_dup(): fdalloc(), before filedup(). *)
SysDup(p, fd) ==
  /\ User(p) /\ fd \in Open(p) /\ FreeFds(p) # {}
  /\ SetFile(p, Min(FreeFds(p)), ofile[p][fd])
  /\ rf' = [rf EXCEPT ![p] = ofile[p][fd]]
  /\ Goto(p, "dup")
  /\ UNCHANGED <<killed, pipe, table, wf, todo, ff, after, np, panicked>>
DupRef(p) ==
  /\ pc[p] = "dup"
  /\ FileDup(rf[p])
  /\ rf' = [rf EXCEPT ![p] = 0]
  /\ Goto(p, "user")
  /\ UNCHANGED <<killed, pipe, ftype, ofile, wf, todo, ff, after, np>>

(* sys_close(). *)
SysClose(p, fd) ==
  /\ User(p) /\ fd \in Open(p)
  /\ SetFile(p, fd, 0)
  /\ CloseAll(p, <<ofile[p][fd]>>, "user")
  /\ UNCHANGED <<killed, pipe, table, rf, wf, ff, np, panicked>>

(* exit(): one descriptor after the other is closed, and cleared, which    *)
(* nobody else looks at.                                                   *)
Exit(p) ==
  /\ pc[p] = "user" /\ p # initproc
  /\ Goto(p, "exit")
  /\ UNCHANGED <<killed, pipe, table, ofile, locals, panicked>>
ExitClose(p) ==
  /\ pc[p] = "exit"
  /\ IF Open(p) # {}
     THEN LET fd == Min(Open(p)) IN
          /\ SetFile(p, fd, 0)
          /\ CloseAll(p, <<ofile[p][fd]>>, "exit")
          /\ UNCHANGED killed
     ELSE /\ Goto(p, "dead")
          /\ killed' = [killed EXCEPT ![p] = FALSE]
          /\ UNCHANGED <<ofile, todo, after>>
  /\ UNCHANGED <<pipe, table, rf, wf, ff, np, panicked>>

(* fork(): a child, then one filedup() per descriptor, then it may run.    *)
Fork(p, c) ==
  /\ User(p) /\ pc[c] = "dead"
  /\ np' = [np EXCEPT ![p] = c]
  /\ pc' = [pc EXCEPT ![p] = "fork", ![c] = "used"]
  /\ UNCHANGED <<killed, pipe, table, ofile, rf, wf, todo, ff, after, panicked>>
ForkDup(p) ==
  /\ pc[p] = "fork"
  /\ LET rest == Open(p) \ Open(np[p]) IN
     IF rest # {}
     THEN LET fd == Min(rest) IN
          /\ FileDup(ofile[p][fd])
          /\ SetFile(np[p], fd, ofile[p][fd])
          /\ UNCHANGED <<pc, np>>
     ELSE /\ pc' = [pc EXCEPT ![p] = "user", ![np[p]] = "user"]
          /\ np' = [np EXCEPT ![p] = NULL]
          /\ UNCHANGED <<ref, ofile, panicked>>
  /\ UNCHANGED <<killed, pipe, ftype, rf, wf, todo, ff, after>>
-----------------------------------------------------------------------------
(* Mutant: fileclose() looks at f->type after it was set to FD_NONE. *)
FileCloseNoCopy(p) ==
  /\ pc[p] = "close" /\ todo[p] # <<>>
  /\ LET f == Head(todo[p]) IN
     /\ panicked' = (panicked \/ ref[f] < 1)
     /\ ref' = [ref EXCEPT ![f] = @ - 1]
     /\ ftype' = IF ref[f] = 1 THEN [ftype EXCEPT ![f] = "none"] ELSE ftype
     /\ UNCHANGED <<pc, ff>>
  /\ todo' = [todo EXCEPT ![p] = Tail(@)]
  /\ UNCHANGED <<killed, pipe, ofile, rf, wf, after, np>>

(* fileclose(): the last reference gives the entry back before the pipe is *)
(* closed, of which fileclose() keeps the copy ff.                         *)
FileClose(p) ==
  /\ pc[p] = "close" /\ todo[p] # <<>>
  /\ LET f == Head(todo[p]) IN
     /\ panicked' = (panicked \/ ref[f] < 1)
     /\ ref' = [ref EXCEPT ![f] = @ - 1]
     /\ IF ref[f] = 1 /\ ftype[f] # "none"
        THEN /\ ff' = [ff EXCEPT ![p] = ftype[f]]
             /\ ftype' = [ftype EXCEPT ![f] = "none"]
             /\ Goto(p, "pipeclose")
        ELSE UNCHANGED <<pc, ff, ftype>>
  /\ todo' = [todo EXCEPT ![p] = Tail(@)]
  /\ UNCHANGED <<killed, pipe, ofile, rf, wf, after, np>>

(* fileclose(): pipeclose(ff.pipe, ff.writable). *)
ClosePipe(p) ==
  /\ pc[p] = "pipeclose"
  /\ PipeClose(p, ff[p])
  /\ ff' = [ff EXCEPT ![p] = "none"]
  /\ UNCHANGED <<killed, table, ofile, rf, wf, todo, after, np, panicked>>

(* All is closed: return to user mode, or on to the next descriptor. *)
CloseDone(p) ==
  /\ pc[p] = "close" /\ todo[p] = <<>>
  /\ Goto(p, after[p])
  /\ after' = [after EXCEPT ![p] = "user"]
  /\ UNCHANGED <<killed, pipe, table, ofile, rf, wf, todo, ff, np, panicked>>

(* fileread() and filewrite() of a readable, or writable, end. *)
FileRw(p, fd, n) ==
  /\ User(p) /\ fd \in Open(p)
  /\ left' = [left EXCEPT ![p] = n]
  /\ Goto(p, IF ftype[ofile[p][fd]] = "r" THEN "read" ELSE "write")
  /\ UNCHANGED <<killed, ends, ring, plock, unwoken, table, ofile, locals, panicked>>

(* kill() sets p->killed and wakes p. *)
Kill(p) ==
  /\ p # initproc /\ pc[p] # "dead" /\ ~killed[p]
  /\ killed' = [killed EXCEPT ![p] = TRUE]
  /\ Goto(p, CASE pc[p] = "rsleep" -> "read" [] pc[p] = "wsleep" -> "write" [] OTHER -> pc[p])
  /\ UNCHANGED <<pipe, table, ofile, locals, panicked>>

Next ==
  \E p \in Procs :
    \/ FileAllocRead(p) \/ FileAllocWrite(p) \/ PipeNoMemory(p) \/ PipeAlloc(p)
    \/ DupRef(p) \/ Exit(p) \/ ExitClose(p) \/ ForkDup(p)
    \/ FileClose(p) \/ ClosePipe(p) \/ CloseDone(p)
    \/ \E fd \in Fds : SysDup(p, fd) \/ SysClose(p, fd) \/ \E n \in 1 .. MaxN : FileRw(p, fd, n)
    \/ \E c \in Procs : Fork(p, c)
    \/ Kill(p)
    \/ PipeStep(p) /\ UNCHANGED <<table, ofile, locals, panicked>>

Spec == Init /\ [][Next]_vars
-----------------------------------------------------------------------------
(* f->ref counts the descriptors that refer to f, the files a pipe() or a  *)
(* close in progress still owes a fileclose(), less the dup() that has its *)
(* descriptor and not yet its reference; and filedup() and fileclose()     *)
(* never panic.                                                            *)
RefsExact ==
  /\ ~panicked
  /\ \A f \in FileSlots :
       ref[f] = Cardinality({d \in Procs \X Fds : ofile[d[1]][d[2]] = f})
                + Cardinality({p \in Procs : f \in Range(todo[p])})
                + Cardinality({p \in Procs : pc[p] \in {"alloc", "kalloc"} /\ f \in {rf[p], wf[p]}})
                - Cardinality({p \in Procs : pc[p] = "dup" /\ rf[p] = f})

(* An end of the pipe is open exactly as long as one file, or the last     *)
(* fileclose() of that file before its pipeclose(), stands for it; the     *)
(* page is allocated exactly as long as an end is open, so nobody reads or *)
(* writes a freed pipe.                                                    *)
EndsExact ==
  LET holders(e) == Cardinality({f \in FileSlots : ftype[f] = e})
                    + Cardinality({p \in Procs : ff[p] = e})
  IN
  /\ holders("r") = (IF readopen THEN 1 ELSE 0)
  /\ holders("w") = (IF writeopen THEN 1 ELSE 0)
  /\ inuse = (readopen \/ writeopen)
  /\ \A p \in Procs : /\ pc[p] \in {"read", "rsleep"} => readopen
                      /\ pc[p] \in {"write", "whold", "wsleep"} => writeopen

(* No wakeup is lost: while nobody holds pi->lock, a reader sleeps on an   *)
(* empty pipe that a writer may still fill, and a writer on a full pipe    *)
(* with an open read end, also when the counters have wrapped.  The        *)
(* exception is a writer killed in the middle of pipewrite(), which        *)
(* returns without waking the readers of the bytes it wrote.               *)
SleepersHaveReason ==
  /\ plock = NULL /\ (\E p \in Procs : pc[p] = "rsleep") =>
       writeopen /\ (nread = nwrite \/ unwoken)
  /\ (\E p \in Procs : pc[p] = "wsleep") => readopen /\ Full

(* The ring with its wrapping counters is a FIFO queue of bytes. *)
Channel == INSTANCE Fifo WITH
  Bytes <- 0 .. UintRange - 1,
  Capacity <- PIPESIZE,
  queue <- [i \in 1 .. Count |-> data[Slot(nread + i - 1)]]
ImplementsFifo == Channel!Spec
=============================================================================

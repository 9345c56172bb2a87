# Verification of the xv6 kernel with the PBS scheduler

TLA+ models, model-checking runs and TLAPS proofs for the kernel in `src/`:
xv6 for RISC-V with a priority based scheduler (PBS), per-process times and
`waitx`, `setpriority`, `strace` and memory limits.

## The system

| part | source | modules | status |
|------|--------|---------|--------|
| process table: fork, exit, wait, waitx, kill, sleep, wakeup | `kernel/proc.c`, `kernel/sysproc.c` | `Proc`, `ProcStates`, `ProcProofs` | modelled, proved |
| PBS scheduler, context switch, setpriority | `kernel/proc.c` | `Scheduler`, `Pbs`, `SchedulerProofs` | modelled, proved |
| clock interrupt, times, sys_sleep | `kernel/trap.c`, `kernel/proc.c`, `kernel/sysproc.c` | `Scheduler`, `SchedulerProofs` | modelled, proved |
| page allocator, page tables, memory limits, exec | `kernel/kalloc.c`, `kernel/vm.c`, `kernel/proc.c`, `kernel/exec.c` | `Vm`, `Memory`, `AddressSpaces` | modelled |
| write-ahead log | `kernel/log.c` | `Log`, `AtomicDisk`, `LogProofs` | modelled, proved |
| buffer cache, sleep locks | `kernel/bio.c`, `kernel/sleeplock.c` | `Bcache`, part of `Log`, `BcacheProofs` | modelled, proved |
| virtio disk driver | `kernel/virtio_disk.c` | `VirtioDisk`, `Disk`, `VirtioInvariant`, `DiskProofs` | modelled, proved |
| inodes, directories, calls on path names | `kernel/fs.c`, `kernel/sysfile.c` | `Fs` | modelled |
| blocks and contents of files, read and write | `kernel/fs.c`, `kernel/file.c` | `Inode`, `ByteFiles` | modelled |
| open files, descriptors, pipes | `kernel/file.c`, `kernel/sysfile.c`, `kernel/pipe.c` | `Files`, `Pipe`, `Fifo`, `FilesProofs` | modelled, proved |
| console, uart, spin locks with interrupt nesting | `kernel/console.c`, `kernel/uart.c`, `kernel/spinlock.c` | `Console`, `ConsoleTerminal`, `Terminal`, `ConsoleProofs` | modelled, proved |
| traps, interrupt controller, printf, image builder, argument fetching | `kernel/trap.c`, `kernel/plic.c`, `kernel/printf.c`, `mkfs/mkfs.c`, `kernel/syscall.c` | parts of the above | partly |
| boot, RAM disk, user library and programs, user heap, tests | see `PROJECT.json` | | not modelled |

How the parts interact.  Every hart runs `scheduler()`, which picks a process
and switches to its kernel thread; the thread runs system calls and gives the
hart back through `sched()`.  Threads meet in the process table (`p->lock`,
`wait_lock`), sleep on channels and are woken by other threads or by
interrupts.  File system calls run between `begin_op()` and `end_op()`; they
take references and locks on inodes, change blocks through the buffer cache,
and the log makes what they change atomic on the disk, to which the virtio
driver moves it.  Descriptors lead to pipes, inodes or the console.

## Modules and their correspondence to the code

`PROJECT.json` maps every definition to its source lines.

**`Proc`** is the process table.  A slot of `proc[]` has the fields `state`,
`chan`, `killed`, `pid`, `parent`; the kernel thread of the slot has a label
`pc` and its locals (`idx`, `w`, `np`, `arg`).  A step is one section under one
`p->lock`, from `acquire` to `release` or to the `swtch` that hands the lock to
the scheduler.  No thread holds a `p->lock` while it waits for something, so
these locks are not variables; `wait_lock` is one.  The loops over `proc[]` in
`allocproc`, `reparent`, `wakeup`, `wait` and `kill` advance one slot per step,
so that other harts come in between.  `wait()` and `waitx()` have the same loop
and share its actions; they differ in what they copy out, and in that
`sys_waitx()` copies the times after the child was freed (`WaitxTimesFail`).
The timer preempts a thread anywhere but where it spins for `wait_lock`
(`Acquiring`), since `acquire()` turns interrupts off first.  `asked`, the pids
that `kill()` was called with or that faulted, is a history variable.  Which process a hart
takes is left open.

**`ProcStates`** is what the table promises: a slot moves only along
UNUSED, USED, RUNNABLE, RUNNING, SLEEPING, ZOMBIE, one slot at a time, with at
most NCPU running.  `Proc` and `Scheduler` both implement it.

**`Pbs`** is the arithmetic of `scheduler()`: nice, dp, the conversion of the
`uint64` expression to `int`, and the order of candidates.

**`Scheduler`** is the harts.  Here `p->lock` is a variable, because
`scheduler()` keeps the lock of its best candidate while it takes the locks of
the later slots, and because `sched()` passes the lock through `swtch`.  Each
slot of the scan, of `update_time()` and of `wakeup(&ticks)` is a step.  The
clock interrupt runs on hart 0 when that hart holds no spin lock.  `seen`, the
ranks of one scan, is a history variable; `rtime` and `wtime` are what `waitx()`
would report of a ZOMBIE.  Kill and failing forks are in `Proc` only.

**`Vm`** is the page allocator and the page tables, as functions from a memory
to a memory with every error path: three levels of tables of NPTE entries, page
contents as a word for who wrote them last, the free list as a bag, in which a page
freed twice is twice, and `left`, the number of calls of `kalloc()` that will still
succeed.  Other harts allocate and free at any time,
so every operation chooses `left` anew and may fail at any call.  **`Memory`**
makes the system calls of it: `fork`, `exit` with `freeproc`, `sbrk` through
`growproc()` and its `max_mem` test in `unsigned int`, copies to user memory,
and `exec` with segments of any shape.  A page table is only used by the hart
that runs its process, or by the parent that builds or frees it, so a call is one
step.  `max_mem` is a constant: `allocproc()` tests the priority it has just set
to 60, and `sys_setmemlimit()` (`kernel/syscall.c:231`) is in no system call
table.  **`AddressSpaces`** is the promise: a process has its own sequence of
pages, which only its own calls change, and a failed call changes nothing.

**`Log`** is `kernel/log.c` over a disk with home blocks, log blocks and a
header.  A step ends at the release of `log.lock` and at every block written.
The buffer cache is reduced to the contents of a cached block, the set of
pinned blocks and `Evict` (`bget()` recycling an unused buffer).  A system call
writes its own number, so two calls never write the same value; `BlocksOf` says
which blocks the calls of a process may write.  `Crash` keeps only the disk;
recovery is `read_head`, `install_trans` and `write_head`, and may crash too.  A
block write is atomic.  **`AtomicDisk`** is what the log promises: `durable`,
what a restart finds, jumps only between states in which no system call is in
progress.

**`VirtioDisk`** is the disk driver.  A section under `vdisk_lock` is a step,
except that `virtio_disk_intr()` keeps the lock over its loop (`intr`), during
which the device goes on answering.  `chain` stands for the `next` fields of the
descriptors, `req` for `ops[]` and `info[]`; `avail` is the set of heads that the
device has not answered, `used` the sequence of those the driver has not looked at.  The device (external) moves the data when
it answers, in any order, and reports no errors, so the panic of
`virtio_disk_intr()` for a status other than 0 is left out.  `alloc3_desc()` that gets one or
two descriptors gives them back, and thereby wakes the other waiters (`RwNoDesc`).
`Disk` runs the driver with more requests than it has descriptors for.

**`Bcache`** composes the driver with `kernel/bio.c` and the sleep locks.  The
list is a sequence from the most to the least recently used buffer; `brelse()` is
two steps, as it drops the sleep lock before it takes `bcache.lock`.  Callers do
what the file system does with a buffer: read it, change and log it (`Bpin`, at
most MaxPins blocks), change and write it, write a
logged block home and unpin it.  A process has one buffer at a time; the kernel
also nests them.

**`Fs`** is the inode table and the calls on names: `open`, `create`, `mkdir`,
`mknod`, `link`, `unlink`, `chdir` and `close`, each as the list `todo` of steps
that remain, from one place where the process can wait to the next.  `iput()` is
three steps, since it drops `itable.lock` to free the inode and takes it again to
drop the reference.  A directory maps names to inodes, an entry of the table is
named by its inode, and a call's changes are durable step by step (the log only
makes the intermediate states rarer, so `LinksCovered` asks for more than a crash
shows).  `astray`, that the path of a call has just left the tree by `..` of a removed
directory, is a history variable.  That the inode table is full, and that a directory has no room for an
entry, are left out.

**`Inode`** is the contents of files: the bitmap, direct and indirect blocks,
`readi()`, `writei()`, `itrunc()`, and `filewrite()` in pieces of MaxChunk bytes,
each in a transaction of its own under the inode's lock, a block per step.  A byte
is the process that wrote it and its position in the buffer.  Copies from user memory
may fail for the processes in Faulty.  **`ByteFiles`** is the promise: a sequence
of bytes and offsets in it.

**`Pipe`** is the ring of `kernel/pipe.c` with counters modulo UintRange, and
**`Files`** the file table and descriptors that lead to it.  `pipewrite()` is a
step per byte with `pi->lock` held, since `p->killed` may change in between;
`piperead()` is one step.  Bytes are numbered, as the code never looks at them.
`fileclose()` is two steps: the entry is given back, then the pipe is closed.
`exit()` closes one descriptor after the other.
**`Fifo`** is what a pipe promises.

**`Console`** is the console and the UART under interrupts.  A hart has a stack of
frames, the running one first: an interrupt above a system call or the idle loop, or
only one of them.  It has the `noff` and `intena` of `push_off()`; `acquire()` is
`push_off()` and then the swap, so that a hart is seen to spin.  The
transmitter and the interrupt controller are external and modelled as the driver
uses them.  **`Terminal`** is the promise: line editing before a line is ready,
input and output in order, nothing lost; **`ConsoleTerminal`** maps the rings and the
frames to it.

**`ProcProofs`**, **`SchedulerProofs`**, **`LogProofs`**, **`VirtioInvariant`** with
**`DiskProofs`** and **`BcacheProofs`** (the driver, and its two clients),
**`FilesProofs`** (of `Files` and `Pipe`) and **`ConsoleProofs`** hold the inductive
invariants and the proofs.  **`CardFacts`** lists what the last five use of the
library's theorems on finite sets and natural numbers.  **`MCScheduler`, `MCLog`,
`MCMemory`, `MCFs`, `MCInode`, `MCConsole`** choose the instances for TLC.

## Runs

| run | question | result |
|-----|----------|--------|
| `proc_life` | is the table consistent, without deadlock; is no exit missed; does `killed` stay with its process; does the table implement `ProcStates`; is every orphan reaped; does a killed process stop | holds |
| `proc_kill0` | is a process killed only if it was asked for, with `kill(0)` | violated |
| `scheduler_harts` | is a stack used by one hart only; do harts never spin on each other; does `scheduler()` end with the best candidate of its scan; does `sys_sleep()` lose no wakeup; how wrong can the times be; do the harts implement `ProcStates` | holds |
| `log_crash` | crash atomicity and durability; is the reserved space enough; is every sleeper in `begin_op()` woken | holds |
| `bcache_disk` | is a block cached once, with exact reference counts; does `bget()` panic only when every buffer is taken; does a holder see the last contents; are no descriptor and wakeup lost | holds |
| `disk_order` | is a transfer complete when `virtio_disk_rw()` returns, whatever the order of answers; does it end | holds |
| `memory_pages` | is no page lost, freed twice or used twice on any error path; do `p->sz` and the page table agree; are address spaces separate | holds |
| `fs_names` | are inode references exact; does the lock in `iput()` never block; is no deadlock reached, and no consistency panic but the one at `..` of a removed directory; are link counts large enough after every step | holds |
| `fs_orphan` | does `iput()` free every inode without links and references | violated |
| `inode_blocks` | does the bitmap hold exactly the blocks in use; have files no holes; do they implement `ByteFiles` | holds |
| `console_uart` | does no interrupt handler deadlock with the code it interrupts; is no wakeup or interrupt lost; does the console implement `Terminal` | holds |
| `files_pipe` | are references and ends exact; is no freed pipe used; is no wakeup lost; is the ring a FIFO queue | holds |

### Disagreements the runs show

* `proc_kill0`: `kill(0)` matches free slots, whose pid is 0.  The flag stays
  and kills the next process of the slot.  The theorem `KilledOnlyIfAsked`
  shows that this is the only way to be killed without being asked for.
* `fs_orphan`: between the `releasesleep()` and the second
  `acquire(&itable.lock)` of `iput()` the inode is free on disk but still
  referenced.  Another process can allocate, unlink and put it; it finds two
  references and leaves the inode, and the late `ref--` frees nothing.

Met while modelling, without a run of their own:

* `waitx()` returns `run_time`, which every dispatch resets, not
  `total_run_time` (`kernel/proc.c:836`).  `ChargedAtMostOneExtra` bounds it from
  above only.  A child that lives within one tick can get a wait time of -1.
* A failing `copyout()` in `sys_waitx()` comes after the child was freed
  (`kernel/sysproc.c:151`), where `wait()` keeps the child.
* `user/user.h` declares `waitx` with the wait time before the run time, and the
  kernel writes them in the other order.
* `kill(1)` makes init exit and the kernel panic; the liveness properties of
  `proc_life` have that panic as an alternative.
* `kill()` between the test of `p->killed` in `wait()` and its `sleep()` wakes
  nobody (`kernel/proc.c:456`); `piperead()`, `pipewrite()`, `consoleread()` and
  `sys_sleep()` have the same window.  `KilledStops` excludes it.
* `begin_op()` counts with LOGSIZE blocks, `log_write()` with `log.size - 1`, and
  `mkfs` makes `log.size` LOGSIZE.  The kernel's own calls write fewer blocks than
  MAXOPBLOCKS, so it does not happen today; `log_crash` is for calls like these.
* NBUF equals LOGSIZE: a log full of pinned blocks would leave no buffer for the
  blocks of the log itself, and `bget()` would panic.  `RefcntExact` says that it
  panics only when processes and pins really have all the buffers; that the calls of
  this kernel never pin so many blocks is not checked.
* `pipewrite()` of a process killed between two bytes returns without waking the
  readers of what it wrote, the one exception in `SleepersHaveReason` of `Files`.
* Creating a file in a removed directory that is still a working directory leaves
  a file with one link and no path, which `fs_names` reaches.  If the parent of such a
  directory was removed too, its `..` is a freed inode, and looking it up ends in
  `panic("ilock: no type")` (`kernel/fs.c:311`).  `fs_names` reaches this as well;
  `NoPanic` names it as the one exception, for a process that is `astray`.
* `exec()` ignores `max_mem`, which `kernel/proc.h:122` calls the memory limit
  allowed, and `setpriority()` does not change it, although `allocproc()` derives
  it from the priority.
* A `writei()` that stops at a bad buffer may have changed bytes of the cached
  block without logging them.

### Bounds, and why they are enough

* `proc_life`: three slots are init, a parent and a child, and let each of them be
  freed and allocated again; MaxPid allows two forks besides init.  There is a
  hart for every slot and a thread can be preempted at every step.  KillArgs is
  init and one more pid.  That the exiting process hands its children to init and
  not to its own parent makes a difference to the wakeup in `reparent()` only from
  four slots on; the proof covers every NPROC.
* `scheduler_harts`: three slots are needed for a scan that replaces its best
  candidate and goes on; two harts for every race on a lock.  MaxRuns bounds how
  often a process gives up the CPU, MaxTicks the clock, and `Bound` (a constraint)
  keeps the dimensions apart: the clock with `sys_sleep()`, a changed priority and
  I/O are not in play together, the clock runs with two processes, none of which
  calls `sys_sleep()` after the last tick, and one process at a time, in use, has a
  priority other than the default.  So a race of the clock
  with three processes, or with changed priorities, is not covered.  The priority
  is -1: better than the default, so that `setpriority()` yields, and out of the
  range of dp, so that dp is limited.
  IntBits is 12 so that TLC can compute with it; the code has 32.
* `log_crash`: three processes, five blocks of which two calls share one; LOGSIZE
  is two calls' worth, so that the third call must wait; three calls in all and two
  crashes, so that recovery crashes too.
* `bcache_disk`: four blocks in three buffers, so that valid buffers are recycled;
  two pinned blocks and one process use all of them, so that `bget()` panics for the
  other process; five descriptors, so that the
  second request must wait; two changes and one early wakeup by `kill()`.
* `disk_order`: three processes, seven descriptors: two requests are in flight and
  are answered in either order, the third waits.
* `memory_pages`: tables of three entries, so that a process needs several of each
  level; pages of two bytes, so that sizes fall inside a page; 20 pages for two
  processes, and `left` makes memory run out at every call whatever remains.  The
  programs have overlapping, unaligned and decreasing segments.
* `fs_names`: three inodes are a root, a directory and a directory or file in it, so that inodes are freed and allocated again and a
  working directory is removed with its parent; one process adds and removes names,
  the other one uses them.
* `inode_blocks`: one direct and two indirect blocks of two bytes, four blocks for
  two files, so that files reach their last block and the disk fills up.
* `console_uart`: an input buffer of two characters, a transmit buffer of one, and
  indexes that wrap within a few steps (FirstIndex); one hart has programs, the
  other is idle and takes interrupts.
* `files_pipe`: a ring of two bytes with counters modulo four, so that both wrap; two
  processes with two descriptors each and two files, so that files, descriptors
  and memory run out.

Views and symmetry.  Three runs give TLC a VIEW, under which states are merged
that no later step can tell apart.  `MCMemory` forgets the numbers of pages:
`kalloc()` may return any free page.  Tables are never freed before their process,
and lower addresses are mapped first, so their number says which there are; the view
also has whether the invariants hold.  In
`MCConsole` only differences of indexes and indexes modulo the size of a ring are
ever looked at.  In `MCLog` a clean unpinned buffer reads like the block it copies, and
neither log blocks that the header or a running `write_log()` does not refer to nor
what a finished call wrote are read again.  `bcache_disk` has symmetric processes and blocks and no temporal
property.

Deadlock is checked except in `scheduler_harts` and `log_crash`, where the bounds
stop the programs (MaxRuns, MaxTicks, MaxOps), in `files_pipe`, where a program may
read a pipe that only it can write, and in `proc_kill0`.  A kernel that has
panicked stays as it is (`Halt`, `Halted`).

### Fairness

`Proc`: weak fairness of `Dispatch(p)` (with a hart for every slot an idle hart's
endless scan finds a RUNNABLE process; PBS may starve one when harts are short)
and strong fairness of the kernel's own steps: the timer may preempt a thread over
and over, but a slice is long enough for a step, and a thread that spins for
`wait_lock` has interrupts off and gets the lock some time.  User programs owe
nothing, except that `user/init.c` calls `wait()` in an endless loop (strong, as the
kernel may keep it busy in between).  `Disk`: the device answers every request,
its interrupt is handled, and strong fairness of the processes in the driver.  That a
spinning hart gets its lock is what the test-and-set of `acquire()` makes
overwhelmingly likely and does not guarantee.  The other modules state what
liveness needs as safety: whoever sleeps has a reason to, and somebody who will wake it.

## Proofs

Every theorem holds for all values of the constants that meet the assumptions named
with it.  None of the invariants is inductive as it stands; each module defines an
inductive `IInv`, shows with lemmas for each part of it, or for each action, that
every action keeps it, and derives the rest.

**Process table** (`ProcConstants`).  `Inductive`; `TypeCorrect`, `ParentsAlive`,
`NoZombieMissed`, `PidsUnique` for `TypeOK`, `ParentAlive`, `NoMissedZombie`,
`PidsDistinct`; `LifecycleRefinement`: `Proc` implements `ProcStates`;
`KilledOnlyIfAsked`: `KilledWasAsked`, if `0 \notin KillArgs`.  `NoMissedZombie`
speaks of states in which `wait_lock` is free, but an exit establishes it while it
holds the lock over many steps.  So `IInv` says what each holder of `wait_lock` has
done so far: `LockOwner` (who holds it, by label), `Orphaned` (the slots that
`reparent()` has passed are not children any more), `WakeupStarts` and `ParentAwake`
(a parent that `wakeup()` has passed is not asleep), `Scanned` and `Missed` (what a
scanning `wait()` knows about the slots behind its cursor).  `ForkOwns` gives the
slot a `fork()` fills to that `fork()` alone, and `FreePid` ties pid 0 to free slots.

**Scheduler** (`SchedulerConstants`, `IntBitsAssumption`).  `SchedulerInductive`;
`OneHartPerStack`, `SchedulerPicksMinimum`, `NobodyOversleeps`, `TimeAccounting`,
`LockOrder` for `OneStack`, `BestIsMin`, `NoOversleep`, `ChargedAtMostOneExtra`,
`NoSpinCycle`; `HartsRefineProcStates`: `Scheduler` implements `ProcStates`.  `Held`
says exactly which hart holds which `p->lock` between two steps, and `OneHart` that a
process is RUNNING exactly while one hart executes it; from these follow that nobody
changes the rank of a candidate (`Scan`) and that locks are waited for in the order
of the slots (`LockOrder`).  `Sleepers` and `Charged` say what the wakeup and the
accounting loop of the current tick have still to do behind their cursor.

**Log** (`LogConstants`; `LogRoom`: a call writes fewer than MAXOPBLOCKS blocks, the
log has room for two calls).  `LogInductive`; `ReservationSuffices`, `NoLostWakeup`,
`IdleIsSynced` for `NoPanic`, `SleepersHaveReason`, `SyncedWhenIdle`;
`CrashAtomicity`: `Log` implements `AtomicDisk`, with a crash between any two writes
and in recovery.  `Staged` relates the header on disk to the log in memory at each
stage of a commit and of recovery, `Logged` says which blocks are in the log and at
home so far, `Clean` and `Pins` that only blocks of the log differ from the disk, and
`Fits` counts what `begin_op()` has reserved and the calls have not used.

**Buffer cache and driver** (`VirtioConstants`, `BcacheConstants`).
`CacheInductive`; `LatestContents`, `DescriptorsExact`, `NoLostWakeup` for
`HolderSeesLatest`, `RequestsExact`, `SleepersHaveReason`; `ReferencesExact` for
`RefcntExact`, with a cache of any size (the kernel's has fewer buffers, 30, than there
are processes).  Its last conjunct is an induction of its own (`PanicMeansFull`): when
`bget()` finds no unused buffer, each buffer has a pinned block or a process of its own
(`BuffersTaken`), and `free_desc()` never panics as no descriptor is freed twice.  The proof has two layers.
`VirtioInvariant` shows that the driver, the device and the interrupt keep
`DriverInv` (descriptors are divided among the chains, each request has one process
and is in one ring, what was answered was transferred) for every client whose
concurrent requests are for different buffers and blocks (`Exclusive`);
`BcacheProofs` shows that the sleep locks make the cache such a client, and where the
latest contents of a block are (`InBuffer`, `OnDisk`).

**Disk driver under load** (`VirtioConstants`, `DiskConstants`).  `DiskInductive`;
`TransfersExact` for `TransferDone`.  `DiskProofs` is the second client of
`VirtioInvariant`: every process transfers a block of its own (`Own`), so requests are
exclusive, and `Done` says that a process outside of the driver has in its buffer what
is on the disk.

**Files and pipe** (`FilesConstants`; `PipeConstants`: the range of a `uint` is a
multiple of PIPESIZE).  `FilesInductive`; `ReferencesExact`, `PipeEndsExact`,
`NoLostWakeup` for `RefsExact`, `EndsExact`, `SleepersHaveReason`; `RingIsFifo`:
`ImplementsFifo`.  `TableInv` and `RefsCounted` are inductive by themselves: where a
process is says which files it has besides its descriptors (`Locals`), a `dup()`
without its reference has two descriptors for the file, and so the last reference is
only dropped when no descriptor is left.  On these rests `EndsInv`: an end of the pipe
has one file or one `fileclose()` about to close it, and who reads or writes has a
descriptor for that end (`Using`), so that nobody is in a closed pipe.  `PipeInv` is
about the ring.  Its slots follow the wrapping counters because UintRange is a
multiple of PIPESIZE: `Wrap` and `SlotStep` show that going on by one byte is going on
by one slot, also over the wrap.

**Console and spin locks** (`ConsoleConstants`: the counters wrap at multiples of the
sizes of their rings, and the FIFO of the device has room for one byte of every hart).  `HartsInductive`, `ConsoleInductive`; `SpinlocksNeverPanic` for
`NoPanic`, `NoWakeupLost` for `NothingStuck`, with any number of harts.  The first
invariant, `HartInv`, is inductive by itself.  `Needs` and `Depth` say for each
place in the code which locks it needs and how many calls of `push_off()` are open
there; `HartOK` says that a hart is idle, sleeps, runs a system call or an interrupt, with
the `struct cpu` that this depth gives (`Cpu`), and that what lies under an interrupt
has interrupts enabled or sleeps (`Below`), and so holds no lock.  Hence a lock is held by
a hart exactly when its running frame is past the `acquire()` (`Has`), and no handler
can ask for a lock of its own hart.  The second, `DataInv`, rests on it.  `SleepInv` is
the condition a sleeper waits for, also between the test in `consoleread()` and
`sleep()` (`AtSleep`): whoever could change it there needs `cons.lock`.  `PumpInv`: while
`uart_tx_buf` is not empty an interrupt is pending, the transmitter has something to
send and will ask for one, or some frame is on its way to `uartstart()`.  `InputInv`: r, w
and e are at most INPUT_BUF apart in this order, and a full buffer is ready; `Near` has
the arithmetic of the wrapping indexes.

The lemmas that count take `CardFacts`, facts on finite sets and cardinalities, as a
hypothesis, and each module proves what it uses of them from the library before its theorems;
with the library in the context of every step the proofs would take many times as
long.

Only model-checked:

* Liveness, as fairness and ENABLED are out of the prover's reach (`OrphansReaped`,
  `KilledStops`, `TransfersEnd`).
* `ImplementsTerminal`: `Terminal` sees the output without the echo, filtered by
  `SelectSeq`, which is defined by recursion with an operator as its argument.
* `Memory`: its calls are folds over the pages of an address range (`uvmalloc`,
  `uvmcopy`, `uvmunmap`, `loadseg`), and what a fold computes for every length takes
  an induction over data that the prover cannot do.
* `Fs`: `RefExact` sums over the processes with a fold, the panics that `NoPanic` excludes
  rest on it, and `LinksCovered` is about the paths of any length of a tree.
* `Inode`: `ImplementsByteFiles` is about byte sequences of any length.  `BlocksExact` and
  `NoHoles` are not out of reach in principle; they have no proof here.

## Not modelled

* Boot (`main.c`, `start.c`, `entry.S`): runs once before any concurrency; its
  result is `Init`.  The kernel's own page table is built there.
* Registers and the assembly of traps and `swtch.S`: one step each.
* The system call table, `strace`, formatting and strings: lookup and printing
  without state that other parts depend on.
* `ramdisk.c` and `kernel/memtest.c` are in no build, `sys_setmemlimit()` in no
  table.
* The user heap, library, shell and other programs: sequential clients.  The
  modules let programs make any calls within the bounds.
* The file system is checked in layers (`Fs`, `Inode`, `Log`, `Bcache`,
  `VirtioDisk`), each over what the one below promises; the layers are composed only
  in `Bcache` over `VirtioDisk` and `Files` over `Pipe`.  Processes that hold
  several buffers, and the order of waiting for buffers, inodes and log space
  together, are not covered.

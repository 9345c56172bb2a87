--------------------------------- MODULE Fs ---------------------------------
(***************************************************************************)
(* Inodes and path names: the inode table of kernel/fs.c and the calls of  *)
(* kernel/sysfile.c on names.  A step runs from one point where a process  *)
(* can wait (ilock(), itable.lock) to the next.  What a process still has  *)
(* to do is the list todo of its steps: <<"ilock", i>>, <<"iput", i>> or a *)
(* place in its call.  An entry of the table is named by the inode it      *)
(* caches, since iget() returns the same one while ref > 0.  Contents of   *)
(* files are in module Inode; a directory maps its names to inodes.  The   *)
(* table is taken to be large enough (panic "iget: no inodes").            *)
(***************************************************************************)
EXTENDS Integers, Sequences, FiniteSets, FiniteSetsExt, SequencesExt

CONSTANTS
  Procs,
  NINODES,      \* inodes on disk: 1 .. NINODES
  Names,        \* names of entries, "." and ".." included
  Calls         \* the calls each process makes: [call, path, new]

ASSUME FsConstants == NINODES \in Nat \ {0, 1} /\ {".", ".."} \subseteq Names

VARIABLES
  dinode,    \* type and nlink of each inode on disk
  dir,       \* the entries of each directory, 0 for none
  inode,     \* the inode table: ref, valid, the holder of the lock, and copies of type and nlink
  proc,      \* cwd, the open file, the call and its locals, with the history astray, see NameNext
  panicked   \* the message of panic()

vars == <<dinode, dir, inode, proc, panicked>>
Inums == 1 .. NINODES
ROOTINO == 1
Nobody == "nobody"
FREE == [type |-> "free", nlink |-> 0]
NoEntries == [n \in Names |-> 0]
Unused == [ref |-> 0, valid |-> FALSE, lock |-> Nobody, type |-> "free", nlink |-> 0]
Idle(cwd, file) == [cwd |-> cwd, file |-> file, call |-> "none", path |-> <<>>, new |-> <<>>,
                    name |-> "", parent |-> FALSE, astray |-> FALSE, ip |-> 0, dp |-> 0, old |-> 0, todo |-> <<>>]

(* mkfs: the root, which is its own parent, with one file. *)
Init ==
  /\ dinode = [i \in Inums |-> CASE i = ROOTINO -> [type |-> "dir", nlink |-> 1]
                                 [] i = 2 -> [type |-> "file", nlink |-> 1]
                                 [] OTHER -> FREE]
  /\ dir = [i \in Inums |-> IF i = ROOTINO THEN [NoEntries EXCEPT !["."] = 1, ![".."] = 1, !["f"] = 2]
                            ELSE NoEntries]
  /\ inode = [i \in Inums |-> IF i = ROOTINO THEN [Unused EXCEPT !.ref = Cardinality(Procs)] ELSE Unused]
  /\ proc = [p \in Procs |-> Idle(ROOTINO, 0)]
  /\ panicked = "no"
-----------------------------------------------------------------------------
At(p, step) == panicked = "no" /\ proc[p].todo # <<>> /\ Head(proc[p].todo)[1] = step
(* A path has been looked up: the call goes on with the inode locked, or   *)
(* fails; sys_link() then has a link to take back.                         *)
Bad(l) == <<<<"ilock", l.old>>, <<"link_bad", 0>>>>
LookedUp(l, step) ==
  IF l.ip = 0 THEN IF step = "dirlink" THEN Bad(l) ELSE <<>>
  ELSE <<<<"ilock", l.ip>>, <<step, 1>>>>
(* The locals become l, and steps come before what was left to do. *)
Do(p, l, steps) ==
  LET todo == steps \o (IF proc[p].todo = <<>> THEN <<>> ELSE Tail(proc[p].todo))
      looked == todo # <<>> /\ Head(todo) \in {<<s, 0>> : s \in {"opened", "create", "link", "unlink", "chdir", "dirlink"}}
      rest == IF looked THEN LookedUp(l, Head(todo)[1]) \o Tail(todo) ELSE todo
      here == IF ~looked THEN l
              ELSE [l EXCEPT !.path = <<>>, !.parent = FALSE,
                             !.dp = IF l.parent THEN l.ip ELSE @, !.ip = IF l.parent THEN 0 ELSE @]
  IN proc' = [proc EXCEPT ![p] = IF rest = <<>> THEN Idle(l.cwd, l.file) ELSE [here EXCEPT !.todo = rest]]
(* The type create() is called with. *)
CreateType(call) == CASE call = "mkdir" -> "dir" [] call = "mknod" -> "device" [] OTHER -> "file"
Panic(message) == panicked' = message /\ UNCHANGED <<dinode, dir, inode, proc>>

(* iget() and idup(); an entry that was free is not valid. *)
iget(t, i) == [t EXCEPT ![i] = IF @.ref = 0 THEN [Unused EXCEPT !.ref = 1] ELSE [@ EXCEPT !.ref = @ + 1]]
(* iunlock() of i in the table t by p, which must hold it: see Unlocks. *)
iunlock(t, i) == [t EXCEPT ![i].lock = Nobody]
Unlocks(p, i) == panicked' = IF inode[i].lock = p /\ inode[i].ref >= 1 THEN panicked ELSE "iunlock"
(* iupdate() of the inodes S from the table t. *)
iupdate(t, S) ==
  dinode' = [i \in Inums |-> IF i \in S THEN [type |-> t[i].type, nlink |-> t[i].nlink] ELSE dinode[i]]

ilock(p) ==
  /\ At(p, "ilock")
  /\ LET i == Head(proc[p].todo)[2]
         e == inode[i]
         new == IF e.valid THEN [e EXCEPT !.lock = p]
                ELSE [ref |-> e.ref, valid |-> TRUE, lock |-> p, type |-> dinode[i].type, nlink |-> dinode[i].nlink]
     IN IF e.ref < 1 THEN Panic("ilock")
        ELSE /\ e.lock = Nobody
             /\ IF new.type = "free" /\ ~e.valid THEN Panic("ilock: no type")
                ELSE /\ inode' = [inode EXCEPT ![i] = new]
                     /\ Do(p, proc[p], <<>>)
                     /\ UNCHANGED <<dinode, dir, panicked>>

(* iunlockput() of an inode that stays locked over other steps. *)
iunlockput(p) ==
  /\ At(p, "iunlockput")
  /\ inode' = iunlock(inode, Head(proc[p].todo)[2])
  /\ Do(p, proc[p], <<<<"iput", Head(proc[p].todo)[2]>>>>)
  /\ Unlocks(p, Head(proc[p].todo)[2])
  /\ UNCHANGED <<dinode, dir>>

Unref(i) == [inode EXCEPT ![i] = IF @.ref = 1 THEN Unused ELSE [@ EXCEPT !.ref = @ - 1]]
(* Mutant: the inode is freed although others refer to it. *)
LastPutAnyRef(i) == inode[i].valid /\ inode[i].nlink = 0
LastPut(i) == inode[i].ref = 1 /\ inode[i].valid /\ inode[i].nlink = 0

(* iput(): under itable.lock, either the last reference to an inode        *)
(* without links takes its lock, or the reference is dropped.              *)
iput(p) ==
  /\ At(p, "iput")
  /\ LET i == Head(proc[p].todo)[2] IN
     IF LastPut(i)
     THEN /\ inode[i].lock = Nobody
          /\ inode' = [inode EXCEPT ![i].lock = p]
          /\ Do(p, proc[p], <<<<"ifree", i>>>>)
     ELSE inode' = Unref(i) /\ Do(p, proc[p], <<>>)
  /\ UNCHANGED <<dinode, dir, panicked>>

(* The middle of iput(), without itable.lock: itrunc(), type 0, iupdate(). *)
iputFree(p) ==
  /\ At(p, "ifree")
  /\ LET i == Head(proc[p].todo)[2] IN
     /\ dir' = [dir EXCEPT ![i] = NoEntries]
     /\ dinode' = [dinode EXCEPT ![i] = FREE]
     /\ inode' = [inode EXCEPT ![i].type = "free", ![i].valid = FALSE, ![i].lock = Nobody]
     /\ Do(p, proc[p], <<<<"iref", i>>>>)
  /\ UNCHANGED panicked

iputDrop(p) ==
  /\ At(p, "iref")
  /\ inode' = Unref(Head(proc[p].todo)[2])
  /\ Do(p, proc[p], <<>>)
  /\ UNCHANGED <<dinode, dir, panicked>>
-----------------------------------------------------------------------------
(* The entry of a name, 0 for none; a new entry. *)
dirlookup(dp, name) == dir[dp][name]
dirlink(d, dp, name, i) == [d EXCEPT ![dp][name] = i]

(* The start of namex(), with locals l: iget() of the root or idup() of    *)
(* cwd.  "/" in front of the elements makes a path absolute.  What is      *)
(* found is left in ip, 0 for nothing, and step comes next.                *)
namex(p, t, l, parent, step) ==
  LET root == l.path # <<>> /\ Head(l.path) = "/"
      i == IF root THEN ROOTINO ELSE l.cwd
      elems == IF root THEN Tail(l.path) ELSE l.path
      found == [l EXCEPT !.ip = i, !.path = elems, !.parent = parent, !.astray = FALSE]
      then == <<<<step, 0>>>>
  IN /\ inode' = iget(t, i)
     /\ CASE elems # <<>> -> Do(p, found, <<<<"ilock", i>>, <<"elem", 0>>>> \o then)
          [] elems = <<>> /\ parent -> Do(p, [found EXCEPT !.ip = 0], <<<<"iput", i>>>> \o then)
          [] OTHER -> Do(p, found, then)

(* The inodes that a path from the root leads to. *)
Tree ==
  LET reach[n \in 0 .. NINODES] ==
        IF n = 0 THEN {ROOTINO} ELSE reach[n - 1] \cup ({dir[d][x] : d \in reach[n - 1], x \in Names} \ {0})
  IN reach[NINODES]

(* The three ends of a round of namex(): no such name, the parent is       *)
(* found, on to the next element.  A process is astray that goes to ".."   *)
(* of a directory which no path leads to any more.                         *)
NameMissing(p, i) == inode' = iunlock(inode, i) /\ Do(p, [proc[p] EXCEPT !.ip = 0], <<<<"iput", i>>>>)
NameParent(p, i) == inode' = iunlock(inode, i) /\ Do(p, [proc[p] EXCEPT !.name = Head(proc[p].path)], <<>>)
NameNext(p, i, next) ==
  LET rest == Tail(proc[p].path) IN
  /\ inode' = iunlock(iget(inode, next), i)
  /\ Do(p, [proc[p] EXCEPT !.ip = next, !.path = rest, !.astray = Head(proc[p].path) = ".." /\ i \notin Tree],
        <<<<"iput", i>>>> \o (IF rest = <<>> THEN <<>> ELSE <<<<"ilock", next>>, <<"elem", 0>>>>))

(* One round of the loop of namex(), with ip locked. *)
namexElem(p) ==
  /\ At(p, "elem")
  /\ LET i == proc[p].ip
         next == dirlookup(i, Head(proc[p].path))
         last == proc[p].parent /\ Len(proc[p].path) = 1
     IN CASE inode[i].type # "dir" \/ (~last /\ next = 0) -> NameMissing(p, i)
          [] inode[i].type = "dir" /\ last -> NameParent(p, i)
          [] OTHER -> NameNext(p, i, next)
  /\ Unlocks(p, proc[p].ip)
  /\ UNCHANGED <<dinode, dir>>
-----------------------------------------------------------------------------
(* What ialloc() may return: the first free inode, or a later one if its   *)
(* scan passed the first before it was freed.                              *)
ialloc == {i \in Inums : dinode[i].type = "free"}

(* Mutant: dp is not kept locked while ialloc() runs. *)
createLookupUnlocks(p) ==
  /\ At(p, "create")
  /\ LET dp == proc[p].dp
         ip == dirlookup(dp, proc[p].name)
     IN IF ip # 0
        THEN /\ inode' = iunlock(iget(inode, ip), dp)
             /\ Do(p, [proc[p] EXCEPT !.ip = ip, !.dp = 0], <<<<"iput", dp>>, <<"ilock", ip>>, <<"opened", 1>>>>)
             /\ UNCHANGED dinode
        ELSE \E i \in ialloc :
               /\ dinode' = [dinode EXCEPT ![i].type = CreateType(proc[p].call)]
               /\ inode' = iunlock(iget(inode, i), dp)
               /\ Do(p, [proc[p] EXCEPT !.ip = i], <<<<"ilock", i>>, <<"create_new", 0>>>>)
  /\ UNCHANGED <<dir, panicked>>

(* create() with dp locked: the name exists, or ialloc() takes an inode. *)
createLookup(p) ==
  /\ At(p, "create")
  /\ LET dp == proc[p].dp
         ip == dirlookup(dp, proc[p].name)
     IN CASE inode[dp].type # "dir" -> Panic("dirlookup not DIR")
          [] inode[dp].type = "dir" /\ ip # 0 ->
               /\ inode' = iunlock(iget(inode, ip), dp)
               /\ Do(p, [proc[p] EXCEPT !.ip = ip, !.dp = 0], <<<<"iput", dp>>, <<"ilock", ip>>, <<"opened", 1>>>>)
               /\ Unlocks(p, dp)
               /\ UNCHANGED <<dinode, dir>>
          [] inode[dp].type = "dir" /\ ip = 0 /\ ialloc = {} -> Panic("ialloc: no inodes")
          [] OTHER ->
               \E i \in ialloc :
                 /\ dinode' = [dinode EXCEPT ![i].type = CreateType(proc[p].call)]
                 /\ inode' = iget(inode, i)
                 /\ Do(p, [proc[p] EXCEPT !.ip = i], <<<<"ilock", i>>, <<"create_new", 0>>>>)
                 /\ UNCHANGED <<dir, panicked>>

(* Mutant: no link is counted for "..". *)
createNewNoDotDot(p) ==
  /\ At(p, "create_new")
  /\ LET dp == proc[p].dp
         ip == proc[p].ip
         t == [inode EXCEPT ![ip].nlink = 1]
     IN /\ iupdate(t, {ip})
        /\ dir' = [dirlink(dir, dp, proc[p].name, ip) EXCEPT
                              ![ip] = IF t[ip].type = "dir" THEN [@ EXCEPT !["."] = ip, ![".."] = dp] ELSE @]
        /\ inode' = iunlock(t, dp)
        /\ Do(p, [proc[p] EXCEPT !.dp = 0], <<<<"iput", dp>>, <<"opened", 1>>>>)
  /\ UNCHANGED panicked

(* The new inode and dp are locked: nlink, the dots, and the entry. *)
createNew(p) ==
  /\ At(p, "create_new")
  /\ LET dp == proc[p].dp
         ip == proc[p].ip
         isdir == inode[ip].type = "dir"
         t == [inode EXCEPT ![ip].nlink = 1, ![dp].nlink = IF isdir THEN @ + 1 ELSE @]
     IN IF dirlookup(dp, proc[p].name) # 0 THEN Panic("create: dirlink")
        ELSE /\ iupdate(t, IF isdir THEN {ip, dp} ELSE {ip})
             /\ dir' = [dirlink(dir, dp, proc[p].name, ip) EXCEPT
                                   ![ip] = IF isdir THEN [@ EXCEPT !["."] = ip, ![".."] = dp] ELSE @]
             /\ inode' = iunlock(t, dp)
             /\ Do(p, [proc[p] EXCEPT !.dp = 0], <<<<"iput", dp>>, <<"opened", 1>>>>)
             /\ Unlocks(p, dp)

(* The rest of sys_open(), sys_mkdir() and sys_mknod() with ip locked,     *)
(* where create() refuses what exists unless an open() finds no directory. *)
(* open() fails for a directory that is to be written, a device with a bad *)
(* major number, and without a free descriptor.                            *)
opened(p) ==
  /\ At(p, "opened")
  /\ \E majorok \in BOOLEAN :
       LET ip == proc[p].ip
           ok == /\ proc[p].call \in {"open", "openrw", "create"} /\ proc[p].file = 0
                 /\ inode[ip].type = "dir" => proc[p].call = "open"
                 /\ inode[ip].type = "device" => majorok
       IN /\ inode' = iunlock(inode, ip)
          /\ Do(p, [proc[p] EXCEPT !.file = IF ok THEN ip ELSE @, !.ip = 0], IF ok THEN <<>> ELSE <<<<"iput", ip>>>>)
  /\ Unlocks(p, proc[p].ip)
  /\ UNCHANGED <<dinode, dir>>

(* sys_chdir(): the old cwd is put, the new one keeps its reference. *)
chdir(p) ==
  /\ At(p, "chdir")
  /\ LET ip == proc[p].ip
         ok == inode[ip].type = "dir"
     IN /\ inode' = iunlock(inode, ip)
        /\ Do(p, [proc[p] EXCEPT !.cwd = IF ok THEN ip ELSE @, !.ip = 0],
              IF ok THEN <<<<"iput", proc[p].cwd>>>> ELSE <<<<"iput", ip>>>>)
  /\ Unlocks(p, proc[p].ip)
  /\ UNCHANGED <<dinode, dir>>
-----------------------------------------------------------------------------
(* sys_link(): one link more before the entry is there. *)
linkInc(p) ==
  /\ At(p, "link")
  /\ LET ip == proc[p].ip
         t == [inode EXCEPT ![ip].nlink = @ + 1]
     IN IF inode[ip].type = "dir"
        THEN /\ inode' = iunlock(inode, ip)
             /\ Do(p, [proc[p] EXCEPT !.ip = 0], <<<<"iput", ip>>>>)
             /\ UNCHANGED dinode
        ELSE /\ iupdate(t, {ip})
             /\ namex(p, iunlock(t, ip), [proc[p] EXCEPT !.ip = 0, !.old = ip, !.path = proc[p].new, !.new = <<>>], TRUE, "dirlink")
  /\ Unlocks(p, proc[p].ip)
  /\ UNCHANGED dir

(* Mutant: dirlink() forgets the reference that dirlookup() returned. *)
linkEntryKeepsRef(p) ==
  /\ At(p, "dirlink")
  /\ LET dp == proc[p].dp
         ip == dirlookup(dp, proc[p].name)
         l == [proc[p] EXCEPT !.dp = 0]
     IN IF ip # 0
        THEN inode' = iget(inode, ip) /\ Do(p, l, <<<<"iunlockput", dp>>>> \o Bad(l)) /\ UNCHANGED dir
        ELSE /\ dir' = dirlink(dir, dp, proc[p].name, proc[p].old)
             /\ inode' = iunlock(inode, dp)
             /\ Do(p, [l EXCEPT !.old = 0], <<<<"iput", dp>>, <<"iput", proc[p].old>>>>)
  /\ UNCHANGED <<dinode, panicked>>

(* dirlink() of the new name, with dp locked. *)
linkEntry(p) ==
  /\ At(p, "dirlink")
  /\ LET dp == proc[p].dp
         ip == dirlookup(dp, proc[p].name)
         l == [proc[p] EXCEPT !.dp = 0]
     IN CASE inode[dp].type # "dir" -> Panic("dirlookup not DIR")
          [] inode[dp].type = "dir" /\ ip # 0 ->
               /\ inode' = iget(inode, ip)
               /\ Do(p, l, <<<<"iput", ip>>, <<"iunlockput", dp>>>> \o Bad(l))
               /\ UNCHANGED <<dinode, dir, panicked>>
          [] OTHER ->
               /\ dir' = dirlink(dir, dp, proc[p].name, proc[p].old)
               /\ inode' = iunlock(inode, dp)
               /\ Do(p, [l EXCEPT !.old = 0], <<<<"iput", dp>>, <<"iput", proc[p].old>>>>)
               /\ Unlocks(p, dp)
               /\ UNCHANGED dinode

(* The exit "bad" of sys_link(): the link is taken back. *)
linkBad(p) ==
  /\ At(p, "link_bad")
  /\ LET ip == proc[p].old
         t == [inode EXCEPT ![ip].nlink = @ - 1]
     IN /\ iupdate(t, {ip})
        /\ inode' = iunlock(t, ip)
        /\ Do(p, [proc[p] EXCEPT !.old = 0], <<<<"iput", ip>>>>)
  /\ Unlocks(p, proc[p].old)
  /\ UNCHANGED dir
-----------------------------------------------------------------------------
(* sys_unlink() with the parent locked. *)
unlinkLookup(p) ==
  /\ At(p, "unlink")
  /\ LET dp == proc[p].dp
         ip == dirlookup(dp, proc[p].name)
     IN CASE inode[dp].type # "dir" -> Panic("dirlookup not DIR")
          [] inode[dp].type = "dir" /\ (proc[p].name \in {".", ".."} \/ ip = 0) ->
               /\ inode' = iunlock(inode, dp)
               /\ Do(p, [proc[p] EXCEPT !.dp = 0], <<<<"iput", dp>>>>)
               /\ Unlocks(p, dp)
               /\ UNCHANGED <<dinode, dir>>
          [] OTHER ->
               /\ inode' = iget(inode, ip)
               /\ Do(p, [proc[p] EXCEPT !.ip = ip], <<<<"ilock", ip>>, <<"unlink_both", 0>>>>)
               /\ UNCHANGED <<dinode, dir, panicked>>

isdirempty(i) == \A n \in Names \ {".", ".."} : dir[i][n] = 0

(* Both locked: the entry goes, then the parent's link, then dp is put. *)
unlinkBoth(p) ==
  /\ At(p, "unlink_both")
  /\ LET dp == proc[p].dp
         ip == proc[p].ip
         isdir == inode[ip].type = "dir"
         t == [inode EXCEPT ![dp].nlink = IF isdir THEN @ - 1 ELSE @]
     IN CASE inode[ip].nlink < 1 -> Panic("unlink: nlink < 1")
          [] inode[ip].nlink >= 1 /\ isdir /\ ~isdirempty(ip) ->
               /\ inode' = iunlock(inode, ip)
               /\ Do(p, [proc[p] EXCEPT !.ip = 0, !.dp = 0], <<<<"iput", ip>>, <<"iunlockput", dp>>>>)
               /\ Unlocks(p, ip)
               /\ UNCHANGED <<dinode, dir>>
          [] OTHER ->
               /\ dir' = [dir EXCEPT ![dp][proc[p].name] = 0]
               /\ iupdate(t, {dp})
               /\ inode' = iunlock(t, dp)
               /\ Do(p, [proc[p] EXCEPT !.dp = 0], <<<<"iput", dp>>, <<"unlink_dec", 0>>>>)
               /\ Unlocks(p, dp)

unlinkDec(p) ==
  /\ At(p, "unlink_dec")
  /\ LET ip == proc[p].ip
         t == [inode EXCEPT ![ip].nlink = @ - 1]
     IN /\ iupdate(t, {ip})
        /\ inode' = iunlock(t, ip)
        /\ Do(p, [proc[p] EXCEPT !.ip = 0], <<<<"iput", ip>>>>)
  /\ Unlocks(p, proc[p].ip)
  /\ UNCHANGED dir
-----------------------------------------------------------------------------
(* What a call does with the path after begin_op(), and the step it goes   *)
(* on with.                                                                *)
Step(call) ==
  CASE call \in {"open", "openrw"} -> "opened"
    [] call \in {"create", "mkdir", "mknod"} -> "create"
    [] OTHER -> call

Call(p) ==
  /\ panicked = "no" /\ proc[p].todo = <<>>
  /\ \E c \in Calls[p] :
       namex(p, inode, [proc[p] EXCEPT !.call = c.call, !.path = c.path, !.new = c.new],
             Step(c.call) \in {"create", "unlink"}, Step(c.call))
  /\ UNCHANGED <<dinode, dir, panicked>>

(* sys_close(): the last fileclose() puts the inode. *)
Close(p) ==
  /\ panicked = "no" /\ proc[p].todo = <<>> /\ proc[p].file # 0
  /\ proc' = [proc EXCEPT ![p].file = 0, ![p].todo = <<<<"iput", proc[p].file>>>>]
  /\ UNCHANGED <<dinode, dir, inode, panicked>>

(* The for(;;) of panic(). *)
Halted == panicked # "no" /\ UNCHANGED vars

Next ==
  \/ \E p \in Procs :
       \/ Call(p) \/ Close(p) \/ ilock(p) \/ iunlockput(p) \/ iput(p) \/ iputFree(p) \/ iputDrop(p)
       \/ namexElem(p) \/ createLookup(p) \/ createNew(p) \/ opened(p) \/ chdir(p)
       \/ linkInc(p) \/ linkEntry(p) \/ linkBad(p)
       \/ unlinkLookup(p) \/ unlinkBoth(p) \/ unlinkDec(p)
  \/ Halted

Spec == Init /\ [][Next]_vars
-----------------------------------------------------------------------------
(* The pointers to inode i: cwd, the open file, locals, and references     *)
(* that are about to be put.                                               *)
Pointers(i) ==
  LET count(p) == Cardinality({f \in {"cwd", "file", "ip", "dp", "old"} : proc[p][f] = i})
                  + Cardinality({k \in DOMAIN proc[p].todo :
                                   proc[p].todo[k] \in {<<"iput", i>>, <<"iunlockput", i>>, <<"ifree", i>>, <<"iref", i>>}})
  IN MapThenSumSet(count, Procs)

(* ip->ref is exactly the number of pointers that processes hold, so no    *)
(* entry is reused under a pointer and none is held for ever.              *)
RefExact == \A i \in Inums : inode[i].ref = Pointers(i)

(* iput()'s comment: "ip->ref == 1 means no other process can have ip      *)
(* locked, so this acquiresleep() won't block".                            *)
IputWontBlock ==
  \A p \in Procs : At(p, "iput") => LET i == Head(proc[p].todo)[2] IN LastPut(i) => inode[i].lock = Nobody

(* Of the panics that guard the consistency of the file system one is      *)
(* reached: a removed directory keeps its "..", whose inode may be free,   *)
(* and ilock() finds no type when a process goes there.  Every other path  *)
(* leads to an inode with a type, whatever is removed on the way.  The     *)
(* disk may run out of inodes.                                             *)
NoPanic ==
  \/ panicked \in {"no", "ialloc: no inodes"}
  \/ panicked = "ilock: no type" /\ \E p \in Procs : proc[p].astray /\ proc[p].todo[1] = <<"ilock", proc[p].ip>>

(* The entries that name i in directories a path leads to, without ".". *)
Links(i) == {<<d, n>> \in Tree \X (Names \ {"."}) : dir[d][n] = i}

(* After every step, and so after a crash at any commit, a path leads to   *)
(* an allocated inode whose nlink is no smaller than the number of its     *)
(* links: the inode cannot be freed while a name leads to it.              *)
LinksCovered == \A i \in Tree : dinode[i].type # "free" /\ dinode[i].nlink >= Cardinality(Links(i))

(* An allocated inode has a link or a pointer: unlink() racing with open() *)
(* or close() never leaves an inode behind that iput() will not free.      *)
NoOrphans == \A i \in Inums : dinode[i].type # "free" => dinode[i].nlink > 0 \/ inode[i].ref > 0
=============================================================================

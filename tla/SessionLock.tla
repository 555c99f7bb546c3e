------------------------------- MODULE SessionLock -------------------------------
(***************************************************************************)
(* The lock file of a session: session.c, sess_lock_*. Several arqan       *)
(* processes share one lock directory. A lock file is a name that links an *)
(* inode; flock belongs to the descriptor a process opened on that inode,  *)
(* so a process can hold the lock of a file that has no name any more. One *)
(* action here is one system call on the directory or on the descriptor.   *)
(*                                                                         *)
(* Left out: a file system without flock (SESS_LOCK_UNSUPPORTED, where the *)
(* code goes on without a lock), and errors of open other than ENOENT.     *)
(***************************************************************************)
EXTENDS Naturals, FiniteSets

CONSTANTS
    Insts,      \* processes started in one directory; one that died may come back
    Paths,      \* transcripts
    Inodes,     \* inodes of the lock file system: a freed one may be given out again
    NoInode,
    NoInst,
    MaxTries    \* SESS_LOCK_TRIES

ASSUME InodeAssumption == NoInode \notin Inodes
ASSUME InstAssumption  == NoInst \notin Insts
ASSUME TriesAssumption == MaxTries \in Nat \ {0}

VARIABLES
    link,       \* the lock directory: the inode each lock file's name links
    lease,      \* Session.lock_fd, and the lock of the old session a fork still holds
    pc,         \* where an instance is in a sess_lock_* routine
    at,         \* the transcript the routine works on
    fd,         \* the descriptor the routine has open
    got,        \* whether flock succeeded on it
    tries,      \* of sess_lock_take
    seen        \* history: the transcript was live when this take was told HELD

vars == <<link, lease, pc, at, fd, got, tries, seen>>

Taking  == {"take_open", "take_flock", "take_stat", "held_close", "retry_close"}
Pruning == {"prune_flock", "prune_stat", "prune_unlink"}
PCs     == {"idle", "refused", "probe_flock", "close", "drop_close"} \cup Taking \cup Pruning

--------------------------------------------------------------------------------
\* An inode's lock is taken while a descriptor that locked it is open.
Locked(i) == \/ \E n \in Insts : got[n] /\ fd[n] = i
             \/ \E n \in Insts, p \in Paths : lease[n][p] = i

Used(i) == \/ \E p \in Paths : link[p] = i
           \/ \E n \in Insts : fd[n] = i \/ \E p \in Paths : lease[n][p] = i

\* sess_lock_current: the path still names the inode of the descriptor.
Current(n) == link[at[n]] = fd[n]

\* n may append to p: it has the lock and is not letting go of it.
Owns(n, p) == lease[n][p] # NoInode /\ ~(pc[n] = "drop_close" /\ at[n] = p)

\* p is live in n, or becomes so with n's next step.
Live(n, p) == Owns(n, p) \/ (pc[n] = "take_stat" /\ at[n] = p /\ got[n] /\ Current(n))

Goto(n, l) == pc' = [pc EXCEPT ![n] = l]

Opened(n, i) == fd' = [fd EXCEPT ![n] = i] /\ got' = [got EXCEPT ![n] = FALSE]
Closed(n)    == Opened(n, NoInode)

Init ==
    /\ link = [p \in Paths |-> NoInode]
    /\ lease = [n \in Insts |-> [p \in Paths |-> NoInode]]
    /\ pc = [n \in Insts |-> "idle"]
    /\ at \in [Insts -> Paths]
    /\ fd = [n \in Insts |-> NoInode]
    /\ got = [n \in Insts |-> FALSE]
    /\ tries = [n \in Insts |-> 0]
    /\ seen = [n \in Insts |-> FALSE]

Begin(n, p, l) ==
    /\ pc[n] \in {"idle", "refused"} /\ Goto(n, l)
    /\ at' = [at EXCEPT ![n] = p]
    /\ tries' = [tries EXCEPT ![n] = 0] /\ seen' = [seen EXCEPT ![n] = FALSE]

--------------------------------------------------------------------------------
(* sess_lock_take: the first append of a session, a resume, a delete *)

Take(n, p) == Begin(n, p, "take_open") /\ UNCHANGED <<link, lease, fd, got>>

\* A try is over without an answer: the loop goes round or gives up.
Retry(n) ==
    /\ tries' = [tries EXCEPT ![n] = @ + 1]
    /\ Goto(n, IF tries[n] + 1 < MaxTries THEN "take_open" ELSE "refused")

\* open(O_CREAT): the file the name links, or a new one.
TakeOpen(n) ==
    /\ pc[n] = "take_open" /\ Goto(n, "take_flock")
    /\ \E i \in Inodes :
         /\ IF link[at[n]] = NoInode THEN ~Used(i) ELSE i = link[at[n]]
         /\ link' = [link EXCEPT ![at[n]] = i]
         /\ Opened(n, i)
    /\ UNCHANGED <<lease, at, tries, seen>>

\* ENOENT: another instance removed the empty directory after paths_ensure_dir.
TakeNoDir(n) ==
    /\ pc[n] = "take_open" /\ \A p \in Paths : link[p] = NoInode
    /\ Retry(n) /\ UNCHANGED <<link, lease, at, fd, got, seen>>

\* sess_lock_try
Flock(n) ==
    /\ pc[n] \in {"take_flock", "probe_flock", "prune_flock"}
    /\ got' = [got EXCEPT ![n] = ~Locked(fd[n])]
    /\ seen' = [seen EXCEPT ![n] = @ \/ \E m \in Insts : Live(m, at[n])]
    /\ Goto(n, CASE pc[n] = "take_flock"  -> "take_stat"
                 [] pc[n] = "probe_flock" -> "close"
                 [] pc[n] = "prune_flock" -> IF Locked(fd[n]) THEN "close" ELSE "prune_stat")
    /\ UNCHANGED <<link, lease, at, fd, tries>>

\* The lock counts when the path still names the locked inode.
Granted_AnyInode(n) == got[n]
Granted(n) == got[n] /\ Current(n)

\* fstat and lstat. TAKEN and current: the descriptor lives on as lock_fd. HELD and current:
\* that is the answer. A file that lost its name says nothing.
TakeStat(n) ==
    /\ pc[n] = "take_stat"
    /\ \/ /\ Granted(n) /\ Goto(n, "idle")
          /\ lease' = [lease EXCEPT ![n][at[n]] = fd[n]] /\ Closed(n)
       \/ /\ ~Granted(n) /\ Goto(n, IF ~got[n] /\ Current(n) THEN "held_close" ELSE "retry_close")
          /\ UNCHANGED <<lease, fd, got>>
    /\ UNCHANGED <<link, at, tries, seen>>

HeldClose(n) ==
    /\ pc[n] = "held_close" /\ Closed(n) /\ Goto(n, "refused")
    /\ UNCHANGED <<link, lease, at, tries, seen>>

RetryClose(n) ==
    /\ pc[n] = "retry_close" /\ Closed(n) /\ Retry(n)
    /\ UNCHANGED <<link, lease, at, seen>>

--------------------------------------------------------------------------------
(* sess_lock_held, sess_lock_prune, sess_lock_drop, and the end of a process *)

\* A listing asks of each transcript whether it is live: open, flock, close.
Probe(n, p) ==
    /\ link[p] # NoInode /\ Begin(n, p, "probe_flock")
    /\ Opened(n, link[p]) /\ UNCHANGED <<link, lease>>

\* A listing or an instance that ends looks at every lock file it finds.
Prune(n, p) ==
    /\ link[p] # NoInode /\ Begin(n, p, "prune_flock")
    /\ Opened(n, link[p]) /\ UNCHANGED <<link, lease>>

Stale_NotChecked(n) == TRUE
Stale(n) == Current(n)

PruneStat(n) ==
    /\ pc[n] = "prune_stat" /\ Goto(n, IF Stale(n) THEN "prune_unlink" ELSE "close")
    /\ UNCHANGED <<link, lease, at, fd, got, tries, seen>>

PruneUnlink(n) ==
    /\ pc[n] = "prune_unlink" /\ Goto(n, "close")
    /\ link' = [link EXCEPT ![at[n]] = NoInode]
    /\ UNCHANGED <<lease, at, fd, got, tries, seen>>

Close(n) ==
    /\ pc[n] = "close" /\ Closed(n) /\ Goto(n, "idle")
    /\ UNCHANGED <<link, lease, at, tries, seen>>

\* sess_lock_drop: unlink while the lock is still held, then close.
Drop(n, p) ==
    /\ lease[n][p] # NoInode /\ Begin(n, p, "drop_close")
    /\ link' = [link EXCEPT ![p] = NoInode]
    /\ UNCHANGED <<lease, fd, got>>

DropClose(n) ==
    /\ pc[n] = "drop_close" /\ Goto(n, "idle")
    /\ lease' = [lease EXCEPT ![n][at[n]] = NoInode]
    /\ UNCHANGED <<link, at, fd, got, tries, seen>>

\* Killed: the kernel closes its descriptors, and its lock files keep their names.
Killed(n) ==
    /\ lease' = [lease EXCEPT ![n] = [p \in Paths |-> NoInode]]
    /\ Closed(n) /\ Goto(n, "idle")
    /\ tries' = [tries EXCEPT ![n] = 0] /\ seen' = [seen EXCEPT ![n] = FALSE]
    /\ UNCHANGED <<link, at>>

Step(n) == \/ TakeOpen(n) \/ TakeNoDir(n) \/ Flock(n) \/ TakeStat(n) \/ HeldClose(n)
           \/ RetryClose(n) \/ PruneStat(n) \/ PruneUnlink(n) \/ Close(n) \/ DropClose(n)

Next == \E n \in Insts :
           \/ Step(n) \/ Killed(n)
           \/ \E p \in Paths : Take(n, p) \/ Probe(n, p) \/ Prune(n, p) \/ Drop(n, p)

Spec == Init /\ [][Next]_vars

--------------------------------------------------------------------------------
(* Properties *)

\* Every variable keeps its type: the registers of each routine and the lock directory.
TypeOK ==
    /\ link \in [Paths -> Inodes \cup {NoInode}]
    /\ lease \in [Insts -> [Paths -> Inodes \cup {NoInode}]]
    /\ pc \in [Insts -> PCs] /\ at \in [Insts -> Paths]
    /\ fd \in [Insts -> Inodes \cup {NoInode}]
    /\ got \in [Insts -> BOOLEAN] /\ seen \in [Insts -> BOOLEAN]
    /\ tries \in [Insts -> 0..MaxTries]

\* "One instance appends to a session at a time" (session.c:26): two instances never both
\* have the lock of one transcript, however opens, flocks, stats and unlinks interleave.
OneAppender ==
    \A p \in Paths : \A m, n \in Insts : Owns(m, p) /\ Owns(n, p) => m = n

\* The path of a live session names the inode its instance locked (session.c:36-37): with
\* it lost, a third process locks a new file at that path.
LockNamed == \A n \in Insts, p \in Paths : Owns(n, p) => link[p] = lease[n][p]

UnlinkByHolder ==
    \A p \in Paths : link[p] # NoInode /\ link'[p] # link[p] =>
        \E n \in Insts : /\ pc'[n] # pc[n]
                         /\ (got[n] /\ fd[n] = link[p]) \/ lease[n][p] = link[p]

\* "a lock file is unlinked only by a process that holds its flock" (session.c:36): a name
\* goes away only in a step of an instance whose own descriptor has that inode locked.
UnlinkedByHolder == [][UnlinkByHolder]_vars

\* The abstract lease: an owner is whoever has the lock and is not dropping it.
Owner == [p \in Paths |-> IF \E n \in Insts : Owns(n, p)
                          THEN CHOOSE n \in Insts : Owns(n, p) ELSE NoInst]

Lease == INSTANCE SessionLease WITH owner <- Owner

\* Each system call is a grant, a release, a death or nothing to the sessions themselves.
ImplementsLease == Lease!LeaseSpec

\* What a refused instance tells its user, "this session is live in another arqan"
\* (session.c:723): some instance had it live when flock said HELD.
RefusedWhileLive == \A n \in Insts : pc[n] = "refused" => seen[n]
================================================================================

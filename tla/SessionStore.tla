------------------------------ MODULE SessionStore ------------------------------
(***************************************************************************)
(* Transcripts and the instances that append to them: session.c over the   *)
(* lease that SessionLock implements, with the callers of main.c that      *)
(* start, resume, rewind, fork, delete and leave a session.                *)
(*                                                                         *)
(* A message is a number, and a transcript is the lines a replay of it     *)
(* reads, and whether one that was cut short is the last. Titles, media,   *)
(* elide marks, touched paths and tool updates are lines this module       *)
(* leaves out.                                                             *)
(* An error of the file system may strike every append; a process may be   *)
(* killed anywhere, with the bytes it had written in the file.             *)
(***************************************************************************)
EXTENDS Naturals, Sequences

CONSTANTS
    Insts,      \* processes started in one directory
    Paths,      \* timestamps a transcript may be named after
    NoInst,
    NoPath,
    MaxMsgs,    \* bound on the messages said in all sessions together, and on the length
                \* of a conversation that is forked
    MaxFaults,  \* bound on the appends that stop half way
    MaxOps      \* bound on the sessions begun, forked, rewound, resumed and deleted

ASSUME NoPathAssumption  == NoPath \notin Paths
ASSUME NoInstAssumption  == NoInst \notin Insts
ASSUME BoundsAssumption  == {MaxMsgs, MaxFaults, MaxOps} \subseteq Nat

VARIABLES
    owner,      \* the lease: who has the lock of each transcript
    exists,     \* the transcripts in the session directory
    file,       \* each transcript: the lines of it, and whether a torn one ends it
    s,          \* each instance's Session
    old,        \* the copy a session_fork keeps of the Session it came from
    job,        \* what the running save is part of: save, fork or rewind
    conv,       \* each instance's conversation, in memory
    pc,         \* where an instance is inside a session operation
    at,         \* the transcript a resume or a delete works on
    src,        \* what session_read returned to a resume
    said,       \* the number of messages said so far
    faults,     \* the number of appends that stopped half way
    ops         \* the number of session operations so far

vars == <<owner, exists, file, s, old, job, conv, pc, at, src, said, faults, ops>>

L == INSTANCE SessionLease

Msgs == 1..MaxMsgs

\* json_parse skips a line cut short, so a replay gives the rows.
NoLines == [rows |-> <<>>, torn |-> FALSE]

\* A session as session_begin leaves it. The last three fields are history: the lines and
\* the part of the conversation that were there when the lock was granted, and the
\* transcript whose append could not be rolled back.
Fresh(p) == [path |-> p, lock |-> FALSE, written |-> 0, resumed |-> FALSE, ro |-> FALSE,
             blocked |-> FALSE, base |-> <<>>, start |-> 0, bad |-> NoPath]
NoSession == Fresh(NoPath)

\* session_begin takes a timestamp no transcript is named after: any, as clocks go.
Names == Paths \ exists
SomeName == IF Names = {} THEN {NoPath} ELSE Names

Set(f, n, v) == [f EXCEPT ![n] = v]

\* sess_lock_release of a session's lock, if it has it.
Unlock(n, r) == IF r.lock THEN L!Release(n, r.path) ELSE UNCHANGED owner

\* HELD is also what a take says when another instance only looks at the lock
\* (SessionLock, RefusedWhileLive).
Refused(n, p) == owner[p] # NoInst \/ Insts # {n}

\* The lock is granted: from here on the transcript is this session's.
Locked(n) == [s[n] EXCEPT !.lock = TRUE, !.base = file[s[n].path].rows,
                          !.start = s[n].written]
ReadOnly(r) == [r EXCEPT !.ro = TRUE]

\* A session operation begins.
Start(n) == pc[n] = "idle" /\ ops < MaxOps /\ ops' = ops + 1

--------------------------------------------------------------------------------
Init ==
    /\ L!OwnerInit
    /\ exists = {} /\ file = [p \in Paths |-> NoLines]
    /\ s = [n \in Insts |-> NoSession] /\ old = [n \in Insts |-> NoSession]
    /\ job = [n \in Insts |-> "save"] /\ pc = [n \in Insts |-> "idle"]
    /\ at = [n \in Insts |-> NoPath]
    /\ conv = [n \in Insts |-> <<>>] /\ src = [n \in Insts |-> <<>>]
    /\ said = 0 /\ faults = 0 /\ ops = 0

\* A process that starts, /clear, a compaction, an approved plan: session_begin.
Begin(n) ==
    /\ Start(n) /\ Unlock(n, s[n])
    /\ \E p \in SomeName : s' = Set(s, n, Fresh(p))
    /\ conv' = Set(conv, n, <<>>)
    /\ UNCHANGED <<exists, file, old, job, pc, at, src, said, faults>>

\* The conversation grows, in a process that has started. A session resumed read-only takes no
\* message (read_only_blocked); a turn that began before its session turned read-only goes on.
Say(n) ==
    /\ pc[n] = "idle" /\ said < MaxMsgs /\ s[n].path # NoPath
    /\ s[n].ro => ~s[n].resumed
    /\ said' = said + 1 /\ conv' = Set(conv, n, Append(conv[n], said + 1))
    /\ UNCHANGED <<owner, exists, file, s, old, job, pc, at, src, faults, ops>>

--------------------------------------------------------------------------------
(* session_save, on its own or as the last part of a fork *)

Save(n) ==
    /\ pc[n] = "idle" /\ ~s[n].ro /\ ~s[n].blocked
    /\ s[n].written < Len(conv[n]) /\ s[n].path # NoPath
    /\ job' = Set(job, n, "save")
    /\ pc' = Set(pc, n, IF s[n].lock THEN "write" ELSE "take")
    /\ UNCHANGED <<owner, exists, file, s, old, conv, at, src, said, faults, ops>>

\* What a save that fails leaves, r being its Session by then. A failed fork goes back to
\* the Session it came from; a rewind whose fork failed begins a session and saves again.
Failed(n, r) ==
    \/ /\ job[n] = "save" /\ s' = Set(s, n, r)
       /\ pc' = Set(pc, n, "idle") /\ UNCHANGED <<owner, old, job>>
    \/ /\ job[n] = "fork" /\ s' = Set(s, n, old[n]) /\ Unlock(n, r)
       /\ old' = Set(old, n, NoSession)
       /\ job' = Set(job, n, "save") /\ pc' = Set(pc, n, "idle")
    \/ /\ job[n] = "rewind" /\ old' = Set(old, n, NoSession)
       /\ owner' = [p \in Paths |-> IF owner[p] = n THEN NoInst ELSE owner[p]]
       /\ \E p \in SomeName :
            /\ s' = Set(s, n, Fresh(p))
            /\ pc' = Set(pc, n, IF p = NoPath THEN "idle" ELSE "take")
       /\ job' = Set(job, n, "save")

\* The first append takes the lock. A path another instance has live is exchanged for
\* a new one, once; a resumed session turns read-only instead.
SaveTake(n) ==
    /\ pc[n] = "take"
    /\ \/ /\ L!Grant(n, s[n].path) /\ s' = Set(s, n, Locked(n))
          /\ pc' = Set(pc, n, "write") /\ UNCHANGED <<old, job>>
       \/ /\ Refused(n, s[n].path) /\ s[n].resumed /\ Failed(n, ReadOnly(s[n]))
       \/ /\ Refused(n, s[n].path) /\ ~s[n].resumed
          /\ \E p \in Names : s' = Set(s, n, Fresh(p))
          /\ pc' = Set(pc, n, "retake") /\ UNCHANGED <<owner, old, job>>
       \/ /\ Refused(n, s[n].path) /\ ~s[n].resumed
          /\ Names = {} /\ Failed(n, ReadOnly(NoSession))
    /\ UNCHANGED <<exists, file, conv, at, src, said, faults, ops>>

SaveRetake(n) ==
    /\ pc[n] = "retake"
    /\ \/ /\ L!Grant(n, s[n].path) /\ s' = Set(s, n, Locked(n))
          /\ pc' = Set(pc, n, "write") /\ UNCHANGED <<old, job>>
       \/ Refused(n, s[n].path) /\ Failed(n, ReadOnly(s[n]))
    /\ UNCHANGED <<exists, file, conv, at, src, said, faults, ops>>

\* A line cut short is ended before the first new one, and stays unread.
Appended_Glued(f, r) ==
    [r EXCEPT !.rows = f.rows \o SubSeq(@, IF f.torn THEN 2 ELSE 1, Len(@))]
Appended(f, r) == [r EXCEPT !.rows = f.rows \o @]

Rest(n) == SubSeq(conv[n], s[n].written + 1, Len(conv[n]))
Whole(n) == [rows |-> Rest(n), torn |-> FALSE]

\* What an append that stops half way has put in the file: some lines, perhaps part of one.
Partial(n) == {[rows |-> SubSeq(Rest(n), 1, k), torn |-> FALSE] : k \in 1..Len(Rest(n))}
         \cup {[rows |-> SubSeq(Rest(n), 1, k), torn |-> TRUE] : k \in 0..(Len(Rest(n)) - 1)}

\* The copy is saved: the session a fork came from is let go.
OriginalGone_Locked(n) == UNCHANGED owner /\ old' = Set(old, n, NoSession)
OriginalGone(n) == Unlock(n, old[n]) /\ old' = Set(old, n, NoSession)

SaveWrite(n) ==
    /\ pc[n] = "write"
    /\ exists' = exists \cup {s[n].path}
    /\ file' = Set(file, s[n].path, Appended(file[s[n].path], Whole(n)))
    /\ s' = Set(s, n, [s[n] EXCEPT !.written = Len(conv[n])])
    /\ pc' = Set(pc, n, "idle")
    /\ OriginalGone(n) /\ job' = Set(job, n, "save")
    /\ UNCHANGED <<conv, at, src, said, faults, ops>>

\* The append fails and ftruncate takes it back; a transcript it created is unlinked.
SaveFail(n) ==
    /\ pc[n] = "write" /\ Failed(n, s[n])
    /\ UNCHANGED <<exists, file, conv, at, src, said, faults, ops>>

\* It fails and cannot be taken back: this session refuses further appends.
SaveStuck(n) ==
    /\ pc[n] = "write" /\ faults < MaxFaults /\ faults' = faults + 1
    /\ \E r \in Partial(n) : file' = Set(file, s[n].path, Appended(file[s[n].path], r))
    /\ exists' = exists \cup {s[n].path}
    /\ Failed(n, [s[n] EXCEPT !.blocked = TRUE, !.bad = s[n].path])
    /\ UNCHANGED <<conv, at, src, said, ops>>

--------------------------------------------------------------------------------
(* session_fork and session_rewind *)

Copied_Released(n, p) == Unlock(n, s[n]) /\ s' = Set(s, n, Fresh(p))
Copied(n, p) == UNCHANGED owner /\ s' = Set(s, n, Fresh(p))

\* The old lock is kept until the copy is saved. An empty copy has nothing to save.
ForkTo(n, p, c, j) ==
    IF c = <<>>
    THEN /\ s' = Set(s, n, Fresh(p)) /\ Unlock(n, s[n])
         /\ UNCHANGED <<old, job, pc>>
    ELSE /\ Copied(n, p) /\ job' = Set(job, n, j)
         /\ old' = Set(old, n, s[n]) /\ pc' = Set(pc, n, "take")

Fork(n) ==
    /\ Start(n) /\ Len(conv[n]) \in 1..MaxMsgs
    /\ \E p \in Names : ForkTo(n, p, conv[n], "fork")
    /\ UNCHANGED <<exists, file, conv, at, src, said, faults>>

Rewound(r, k) == [r EXCEPT !.written = k, !.base = <<>>, !.start = 0]

\* Rewritten in place by file_write_atomic: the new lines are all there or the old ones.
RewindInPlace(n) ==
    /\ Start(n) /\ s[n].lock /\ ~s[n].ro /\ ~s[n].blocked
    /\ \E k \in 1..(Len(conv[n]) - 1) :
         LET kept == SubSeq(conv[n], 1, k)
         IN  /\ conv' = Set(conv, n, kept) /\ file' = Set(file, s[n].path, [rows |-> kept, torn |-> FALSE])
             /\ s' = Set(s, n, Rewound(s[n], k))
    /\ exists' = exists \cup {s[n].path}
    /\ UNCHANGED <<owner, old, job, pc, at, src, said, faults>>

\* What cannot be rewritten in place is forked, and with no path left begun anew.
RewindFork(n) ==
    /\ Start(n) /\ Len(conv[n]) \in 1..MaxMsgs
    /\ \E k \in 0..(Len(conv[n]) - 1) :
         LET kept == SubSeq(conv[n], 1, k)
         IN  /\ conv' = Set(conv, n, kept)
             /\ \/ \E p \in Names : ForkTo(n, p, kept, "rewind")
                \/ /\ Names = {} /\ Unlock(n, s[n]) /\ s' = Set(s, n, NoSession)
                   /\ UNCHANGED <<old, job, pc>>
    /\ UNCHANGED <<exists, file, at, src, said, faults>>

--------------------------------------------------------------------------------
(* Resuming, deleting, leaving *)

\* The transcript is read before its lock is asked for.
ResumeRead(n, p) ==
    /\ Start(n) /\ p \in exists /\ file[p] # NoLines
    /\ src' = Set(src, n, file[p].rows) /\ at' = Set(at, n, p)
    /\ pc' = Set(pc, n, "release")
    /\ UNCHANGED <<owner, exists, file, s, old, job, conv, said, faults>>

\* session_apply lets the current session go; save_blocked stays what it was.
ResumeRelease(n) ==
    /\ pc[n] = "release" /\ Unlock(n, s[n])
    /\ s' = Set(s, n, [s[n] EXCEPT !.path = at[n], !.lock = FALSE, !.ro = FALSE,
                                   !.resumed = TRUE, !.base = <<>>, !.start = 0])
    /\ pc' = Set(pc, n, "apply")
    /\ UNCHANGED <<exists, file, old, job, conv, at, src, said, faults, ops>>

ResumeApply(n) ==
    /\ pc[n] = "apply"
    /\ LET r == [s[n] EXCEPT !.written = Len(src[n])]
       IN  \/ /\ L!Grant(n, at[n])
              /\ s' = Set(s, n, [r EXCEPT !.lock = TRUE, !.base = file[at[n]].rows,
                                          !.start = Len(src[n])])
           \/ Refused(n, at[n]) /\ UNCHANGED owner /\ s' = Set(s, n, ReadOnly(r))
    /\ conv' = Set(conv, n, src[n]) /\ src' = Set(src, n, <<>>)
    /\ at' = Set(at, n, NoPath) /\ pc' = Set(pc, n, "idle")
    /\ UNCHANGED <<exists, file, old, job, said, faults, ops>>

\* Refused while another instance has it live, and never one's own.
DeleteTake_Unasked(n, p) == IF owner[p] = NoInst THEN L!Grant(n, p) ELSE UNCHANGED owner
DeleteTake(n, p) == L!Grant(n, p)

Delete(n, p) ==
    /\ Start(n) /\ p \in exists /\ p # s[n].path
    /\ DeleteTake(n, p)
    /\ at' = Set(at, n, p) /\ pc' = Set(pc, n, "delete")
    /\ UNCHANGED <<exists, file, s, old, job, conv, src, said, faults>>

DeleteUnlink(n) ==
    /\ pc[n] = "delete"
    /\ exists' = exists \ {at[n]} /\ file' = Set(file, at[n], NoLines)
    /\ IF owner[at[n]] = n THEN L!Release(n, at[n]) ELSE UNCHANGED owner
    /\ at' = Set(at, n, NoPath) /\ pc' = Set(pc, n, "idle")
    /\ UNCHANGED <<s, old, job, conv, src, said, faults, ops>>

\* The process exits (session_end) or is killed, in the middle of an append perhaps.
Leave(n) ==
    /\ L!Die(n)
    /\ s' = Set(s, n, NoSession) /\ old' = Set(old, n, NoSession)
    /\ conv' = Set(conv, n, <<>>) /\ src' = Set(src, n, <<>>)
    /\ at' = Set(at, n, NoPath) /\ pc' = Set(pc, n, "idle") /\ job' = Set(job, n, "save")
    /\ \/ UNCHANGED <<exists, file, faults>>
       \/ /\ pc[n] = "write" /\ faults < MaxFaults /\ faults' = faults + 1
          /\ exists' = exists \cup {s[n].path}
          /\ \E r \in Partial(n) :
               file' = Set(file, s[n].path, Appended(file[s[n].path], r))
    /\ UNCHANGED <<said, ops>>

Next == \E n \in Insts :
    \/ Begin(n) \/ Say(n) \/ Save(n) \/ SaveTake(n) \/ SaveRetake(n) \/ SaveWrite(n)
    \/ SaveFail(n) \/ SaveStuck(n) \/ Fork(n) \/ RewindInPlace(n) \/ RewindFork(n)
    \/ ResumeRelease(n) \/ ResumeApply(n) \/ DeleteUnlink(n) \/ Leave(n)
    \/ \E p \in Paths : ResumeRead(n, p) \/ Delete(n, p)

Spec == Init /\ [][Next]_vars

--------------------------------------------------------------------------------
(* Properties *)

SessionRec == [path: Paths \cup {NoPath}, lock: BOOLEAN, written: Nat,
               resumed: BOOLEAN, ro: BOOLEAN, blocked: BOOLEAN, base: Seq(Msgs),
               start: Nat, bad: Paths \cup {NoPath}]

\* Every variable keeps its type.
TypeOK ==
    /\ L!OwnerTypeOK /\ exists \subseteq Paths
    /\ file \in [Paths -> [rows: Seq(Msgs), torn: BOOLEAN]]
    /\ s \in [Insts -> SessionRec] /\ old \in [Insts -> SessionRec]
    /\ job \in [Insts -> {"save", "fork", "rewind"}]
    /\ pc \in [Insts -> {"idle", "take", "retake", "write", "release", "apply", "delete"}]
    /\ at \in [Insts -> Paths \cup {NoPath}]
    /\ conv \in [Insts -> Seq(Msgs)] /\ src \in [Insts -> Seq(Msgs)]
    /\ said \in 0..MaxMsgs /\ faults \in 0..MaxFaults /\ ops \in 0..MaxOps

\* While a session is live, its transcript replays to what was there when the lock was
\* granted and then exactly what this session has saved since, in order: nobody else's
\* lines, nothing twice, nothing lost to a torn line, a rollback, a retry or a deletion.
LeasedTranscript ==
    \A n \in Insts : s[n].lock /\ ~s[n].blocked =>
        file[s[n].path].rows = s[n].base \o SubSeq(conv[n], s[n].start + 1, s[n].written)

\* The lock an instance believes in is the lock it has, through forks that fail and rewinds
\* that end in a new session, and it has no other: a lock left behind would refuse that
\* transcript to everyone for as long as the process runs.
LeaseTracked ==
    \A n \in Insts, p \in Paths :
        owner[p] = n <=> \/ s[n].lock /\ s[n].path = p
                         \/ old[n].lock /\ old[n].path = p
                         \/ pc[n] = "delete" /\ at[n] = p

Records(f) == {f.rows[i] : i \in DOMAIN f.rows}

KeepRecords ==
    \A p \in Paths : Records(file[p]) \subseteq Records(file'[p])
                     \/ \E n \in Insts : /\ owner[p] = n
                                        /\ \/ pc[n] = "delete"
                                           \/ s[n].path = p /\ conv'[n] # conv[n]

\* A line once in a transcript can be read from it for good, unless the instance that has
\* its lock deletes the transcript or rewinds its own conversation.
RecordsKept == [][KeepRecords]_vars

ForkKeeps == \A n \in Insts : old[n].lock => file'[old[n].path] = file[old[n].path]

\* "this copy continues, the original is unchanged" (main.c:2957): from the first step of a
\* fork until its copy is saved, the transcript it came from does not change.
ForkKeepsOriginal == [][ForkKeeps]_vars

\* "a previous failed append could not be rolled back" (session.c:727): a session that
\* refuses to save on these grounds refuses for its own transcript.
BlockedByOwn == \A n \in Insts : s[n].lock /\ pc[n] = "idle" /\ s[n].blocked => s[n].bad = s[n].path
================================================================================

-------------------------------- MODULE Ledger --------------------------------
(* What the harness itself knows of the work: the step list, derived from the
   conversation by todo_sync (todo.c), the run ledger with its notes (progress.c),
   and the sections of a checkpoint that the model does not write.

   A conversation is its slots after the system prompt. A text is known by what it
   says and by its address, as todo_sync knows it: texts are carved from one arena,
   which a resumed or cleared session starts again from its mark. *)
EXTENDS Naturals, Sequences, FiniteSets, SequencesExt

CONSTANTS
    Req,          \* what the user asks
    Bytes,        \* their sizes as quoted
    ReqBytes,     \* AGENT_CHECKPOINT_REQUESTS_BYTES
    TodoList,     \* lists a todo call may send: [name, n, done]
    LedgerCmd,    \* shell commands
    FailSlots,    \* AGENT_PROGRESS_FAIL_SLOTS
    RepeatFails,  \* AGENT_PROGRESS_REPEAT_FAILS
    ProgressCalls, StaleCalls, ColdCalls,   \* AGENT_PROGRESS_CALLS, AGENT_TODO_STALE_CALLS, _COLD_CALLS
    Saved,        \* sessions another process left: sequences of slots without addresses
    LedgerOps     \* bound: operations

ASSUME LedgerAssumption == FailSlots \in Nat \ {0} /\ RepeatFails \in Nat \ {0} /\ Bytes \in [Req -> Nat \ {0}]

VARIABLES
    talk,      \* Conv: the slots
    top,       \* persist->off, above the mark of the session
    todo,      \* g_todo
    run,       \* g_progress
    left,      \* calls of the round that were not run yet
    inTurn,    \* agent_turn runs
    real,      \* of the model: failures of each command since the user's message
    lastNote,      \* of the model: the command the last note named, and how often it said that one failed
    life,      \* of the model: how often the arena was started again from the mark
    lops

ledgerVars == <<talk, top, todo, run, left, inTurn, real, lastNote, life, lops>>

--------------------------------------------------------------------------------
NoList == [name |-> "none", n |-> 0, done |-> 0]
Refused == [name |-> "refused", n |-> 0, done |-> 0]
NoCmd == "no command"
LeftOut == "a request left out"

User(r) == [kind |-> "user", req |-> r]
Todo(l) == [kind |-> "todo", list |-> l]
Reply == [kind |-> "reply"]
Other(tool) == [kind |-> "call", tool |-> tool]
TodoCalls == {Todo(l) : l \in TodoList \cup {Refused, NoList}}

At(s, a) == [what |-> s, at |-> a, life |-> life]
Placed(s, base) == [i \in DOMAIN s |-> At(s[i], base + i)]
Reloaded(s) == [i \in DOMAIN s |-> [what |-> s[i], at |-> i, life |-> life + 1]]

NoRun == [calls |-> 0, due |-> FALSE, named |-> 0, fail |-> [i \in 1 .. FailSlots |-> [cmd |-> NoCmd, n |-> 0]]]

LedgerInit ==
    /\ talk = <<>> /\ top = 0 /\ left = <<>> /\ inTurn = FALSE /\ run = NoRun
    /\ todo = [list |-> NoList, slot |-> 0, src |-> 0, life |-> 0, called |-> FALSE, stale |-> 0,
               turn |-> 0, changed |-> FALSE, asked |-> FALSE]
    /\ real = [c \in LedgerCmd |-> 0] /\ lastNote = [cmd |-> NoCmd, n |-> 0]
    /\ life = 0 /\ lops = 0

LedgerOp == lops < LedgerOps /\ lops' = lops + 1

--------------------------------------------------------------------------------
(* The step list. *)

\* todo_source: the last todo call, unless a checkpoint comes after it.
Sources(c) == {i \in DOMAIN c : c[i].what.kind \in {"todo", "check"}}
Source(c) == IF Sources(c) = {} THEN 0 ELSE Max(Sources(c))
\* todo_parse, and todo_parse_md, for which a checkpoint without a list has none.
Told(slot) == slot.what.list
ListOf(c) == IF Source(c) = 0 \/ Told(c[Source(c)]) = Refused THEN NoList ELSE Told(c[Source(c)])

ListCleared(t) == [t EXCEPT !.list = NoList, !.slot = 0, !.src = 0, !.stale = 0]
\* The call last read is still the last one. The bug form looks at its slot only.
Current_SlotOnly(t, c) == Source(c) = t.slot
Current(t, c) == Source(c) = t.slot /\ c[Source(c)].at = t.src
\* todo_sync.
Synced(t, c) ==
    IF Source(c) = 0 THEN ListCleared(t)
    ELSE IF Current(t, c) THEN t
    ELSE IF ListOf(c) = NoList THEN ListCleared(t)
    ELSE [t EXCEPT !.list = ListOf(c), !.slot = Source(c), !.src = c[Source(c)].at, !.life = c[Source(c)].life]

\* todo_run: a call that is refused changes nothing.
TodoRun(t, l) ==
    IF l = Refused THEN t
    ELSE [t EXCEPT !.list = l, !.called = TRUE, !.stale = 0, !.src = 0, !.slot = 0]

\* todo_cold_due, todo_stale_due and todo_note_stale.
ColdOpen(t) == ~t.asked /\ ~t.called /\ t.list.n = 0
ColdDue(t, tool) == ColdOpen(t) /\ t.turn + 1 >= ColdCalls /\ (t.changed \/ tool = "write")
ColdCounted(t, tool) ==
    IF ColdOpen(t)
    THEN [t EXCEPT !.turn = @ + 1, !.changed = @ \/ tool = "write", !.asked = ColdDue(t, tool)]
    ELSE t
StaleCounted(t, tool) ==
    IF tool = "todo" THEN [t EXCEPT !.stale = 0]
    ELSE IF t.list.n = t.list.done THEN t
    ELSE [t EXCEPT !.stale = IF @ + 1 >= StaleCalls THEN 0 ELSE @ + 1]
NoteStale(t, tool) == IF ColdDue(t, tool) THEN ColdCounted(t, tool) ELSE StaleCounted(ColdCounted(t, tool), tool)

--------------------------------------------------------------------------------
(* The run ledger. *)

\* progress_fail_slot: the command's own slot, or the first of those that failed the least, emptied.
Own(f, c) == {i \in DOMAIN f : f[i].n > 0 /\ f[i].cmd = c}
Lowest(f) == Min({i \in DOMAIN f : \A j \in DOMAIN f : f[i].n <= f[j].n})
FailSlot(f, c) == IF Own(f, c) # {} THEN Min(Own(f, c)) ELSE Lowest(f)
\* progress_fail_command. The bug form keeps the count of the command that was in the slot.
Failures_Inherited(f, c) == [f EXCEPT ![FailSlot(f, c)] = [cmd |-> c, n |-> @.n + 1]]
Failures(f, c) == [f EXCEPT ![FailSlot(f, c)] = [cmd |-> c, n |-> IF Own(f, c) = {} THEN 1 ELSE @.n + 1]]

\* progress_record.
Recorded(r, tool, cmd, ok) ==
    LET counted == [r EXCEPT !.calls = @ + 1, !.due = @ \/ (r.calls + 1) % ProgressCalls = 0]
        f == Failures(r.fail, cmd)
        i == FailSlot(r.fail, cmd)
    IN  IF ok \/ tool # "bash" THEN counted
        ELSE IF f[i].n % RepeatFails = 0 THEN [counted EXCEPT !.fail = f, !.named = i, !.due = TRUE]
        ELSE [counted EXCEPT !.fail = f]

\* progress_worst and progress_note.
Worst(r) ==
    LET worst == Min({i \in DOMAIN r.fail : \A j \in DOMAIN r.fail : r.fail[i].n >= r.fail[j].n})
    IN  IF r.named # 0 THEN r.named ELSE IF r.fail[worst].n >= RepeatFails THEN worst ELSE 0
Noted(r) == IF r.due THEN [r EXCEPT !.due = FALSE, !.named = 0] ELSE r
Says(r, old) == IF ~r.due THEN old
                ELSE IF Worst(r) = 0 THEN [cmd |-> NoCmd, n |-> 0] ELSE r.fail[Worst(r)]

--------------------------------------------------------------------------------
(* A turn. *)

\* agent_turn: the user's message, todo_turn_begin, progress_run_begin.
LedgerTurn(r) ==
    /\ LedgerOp /\ ~inTurn /\ inTurn' = TRUE
    /\ talk' = Append(talk, At(User(r), top + 1)) /\ top' = top + 1
    /\ todo' = [todo EXCEPT !.turn = 0, !.changed = FALSE]
    /\ run' = NoRun /\ real' = [c \in LedgerCmd |-> 0] /\ lastNote' = [cmd |-> NoCmd, n |-> 0]
    /\ UNCHANGED <<left, life>>

\* The reply is stored with its calls before the first of them runs.
LedgerReply(cs) ==
    /\ LedgerOp /\ inTurn /\ left = <<>> /\ left' = cs
    /\ talk' = talk \o Placed(<<Reply>> \o cs, top) /\ top' = top + 1 + Len(cs)
    /\ UNCHANGED <<todo, run, inTurn, real, lastNote, life>>

\* run_regular_tool, after the tool; the last call of the round is followed by todo_sync in agent_turn.
Ran(t) == todo' = IF Len(left) > 1 THEN t ELSE Synced(t, talk)
Counted(tool, cmd, ok) ==
    LET rec == Recorded(run, tool, cmd, ok) IN run' = Noted(rec) /\ lastNote' = Says(rec, lastNote)
Next_(kind) == inTurn /\ left # <<>> /\ Head(left).kind = kind /\ left' = Tail(left)
RunTodo ==
    /\ Next_("todo") /\ Ran(NoteStale(TodoRun(todo, Head(left).list), "todo"))
    /\ Counted("todo", NoCmd, Head(left).list # Refused)
    /\ UNCHANGED <<talk, top, inTurn, real, life, lops>>
RunOther(cmd, ok) ==
    /\ Next_("call") /\ Ran(NoteStale(todo, Head(left).tool)) /\ Counted(Head(left).tool, cmd, ok)
    /\ real' = IF Head(left).tool = "bash" /\ ~ok THEN [real EXCEPT ![cmd] = @ + 1] ELSE real
    /\ UNCHANGED <<talk, top, inTurn, life, lops>>

\* The turn ends, before or after its calls were run, and main reads the list for the prompt.
Prompted(c) == todo' = Synced(todo, c)
LedgerTurnEnd ==
    /\ inTurn /\ inTurn' = FALSE /\ left' = <<>> /\ Prompted(talk)
    /\ UNCHANGED <<talk, top, run, real, lastNote, life, lops>>

--------------------------------------------------------------------------------
(* Checkpoints. *)

\* progress_checkpoint: one that is too large stands in few words, and the newest that fit are kept.
Quoted(q) == IF q # LeftOut /\ Bytes[q] > ReqBytes THEN LeftOut ELSE q
Weight(q) == IF Quoted(q) = LeftOut THEN 1 ELSE Bytes[q]
LastOf(s, k) == SubSeq(s, Len(s) - k + 1, Len(s))
Fits(s) == {k \in 0 .. Len(s) : FoldSeq(LAMBDA q, n : n + Weight(q), 0, LastOf(s, k)) <= ReqBytes}
NoPrior == [quoted |-> <<>>, dropped |-> 0, number |-> 0, all |-> <<>>]
\* progress_prior_compactions: the place of a checkpoint in its chain.
Number(prior) == prior.number + 1
\* The bug form forgets what the checkpoint before it had left out.
Sections_Anew(prior, fresh) ==
    LET total == prior.quoted \o fresh
        kept == Max(Fits(total))
    IN  [quoted |-> [i \in 1 .. kept |-> Quoted(LastOf(total, kept)[i])], dropped |-> Len(total) - kept,
         number |-> Number(prior), all |-> prior.all \o fresh]
Sections(prior, fresh) ==
    LET total == prior.quoted \o fresh
        kept == Max(Fits(total))
    IN  [quoted |-> [i \in 1 .. kept |-> Quoted(LastOf(total, kept)[i])],
         dropped |-> prior.dropped + Len(total) - kept, number |-> Number(prior),
         all |-> prior.all \o fresh]   \* of the model: every request before this point

\* compact_summarize, when it comes to a summary of the slots up to `upto`.
Head_(upto) == SubSeq(talk, 1, upto)
Priors(upto) == SelectSeq(Head_(upto), LAMBDA s : s.what.kind = "check")
FreshList(upto) == LET asked == SelectSeq(Head_(upto), LAMBDA s : s.what.kind = "user")
               IN  [i \in DOMAIN asked |-> asked[i].what.req]
Checkpoint(upto) ==
    LET prior == IF Priors(upto) = <<>> THEN NoPrior ELSE Last(Priors(upto)).what.cp
    IN  [kind |-> "check", cp |-> Sections(prior, FreshList(upto)), list |-> todo.list]

\* ctx_compact_split: the tail begins with a message or a reply, after the first reply.
RoundStarts == {i \in 2 .. Len(talk) : /\ talk[i].what.kind \in {"user", "reply"}
                                       /\ \E j \in 1 .. i - 1 : talk[j].what.kind = "reply"}
HeadCompacted == run' = [run EXCEPT !.due = TRUE]

\* compact_auto, between two requests of a turn.
LedgerCompactAuto ==
    /\ LedgerOp /\ inTurn /\ left = <<>> /\ talk # <<>>
    /\ \E upto \in {i - 1 : i \in RoundStarts} \cup {Len(talk)} :
          talk' = <<At(Checkpoint(upto), top + 1)>> \o SubSeq(talk, upto + 1, Len(talk))
    /\ top' = top + 1 /\ HeadCompacted /\ UNCHANGED <<todo, left, inTurn, real, lastNote, life>>

\* compact_session, by the command; without a tail the arena is started again.
LedgerCompact ==
    /\ LedgerOp /\ ~inTurn /\ talk # <<>> /\ HeadCompacted
    /\ \/ talk' = Reloaded(<<Checkpoint(Len(talk))>>) /\ top' = 1 /\ life' = life + 1
       \/ /\ \E i \in RoundStarts : talk' = <<At(Checkpoint(i - 1), top + 1)>> \o SubSeq(talk, i, Len(talk))
          /\ top' = top + 1 /\ UNCHANGED life
    /\ Prompted(talk') /\ UNCHANGED <<left, inTurn, real, lastNote>>

--------------------------------------------------------------------------------
(* Between turns. *)

\* clear_conversation, and agent_handoff, which goes on with the plan as the user's message.
LedgerClear ==
    /\ LedgerOp /\ ~inTurn /\ talk' = <<>> /\ top' = 0 /\ life' = life + 1 /\ Prompted(<<>>)
    /\ UNCHANGED <<run, left, inTurn, real, lastNote>>
LedgerHandoff(r) ==
    /\ LedgerOp /\ inTurn /\ talk' = Reloaded(<<User(r)>>) /\ top' = 1 /\ life' = life + 1 /\ left' = <<>>
    /\ todo' = [todo EXCEPT !.turn = 0, !.changed = FALSE]
    /\ run' = NoRun /\ real' = [c \in LedgerCmd |-> 0] /\ lastNote' = [cmd |-> NoCmd, n |-> 0]
    /\ UNCHANGED inTurn

\* rewind_conversation: back to before a message.
LedgerRewind ==
    /\ LedgerOp /\ ~inTurn
    /\ \E i \in {j \in DOMAIN talk : talk[j].what.kind \in {"user", "check"}} : talk' = SubSeq(talk, 1, i - 1)
    /\ Prompted(talk') /\ UNCHANGED <<top, run, left, inTurn, real, lastNote, life>>

\* resume_session and session_apply: another session at the place of this one.
LedgerResume(s) ==
    /\ LedgerOp /\ ~inTurn /\ talk' = Reloaded(s) /\ top' = Len(s) /\ life' = life + 1 /\ Prompted(talk')
    /\ UNCHANGED <<run, left, inTurn, real, lastNote>>

\* Work on the list and the conversation, and work with commands.
ListNext ==
    \/ \E r \in Req : LedgerTurn(r) \/ LedgerHandoff(r)
    \/ \E c \in TodoCalls : LedgerReply(<<c>>) \/ LedgerReply(<<c, Todo(Refused)>>)
    \/ RunTodo \/ LedgerTurnEnd \/ LedgerCompactAuto \/ LedgerCompact \/ LedgerClear \/ LedgerRewind
    \/ \E s \in Saved : LedgerResume(s)
WorkNext ==
    \/ \E r \in Req : LedgerTurn(r)
    \/ \E c \in {Other("bash"), Other("write")} \cup TodoCalls : LedgerReply(<<Other("bash"), c>>)
    \/ \E cmd \in LedgerCmd, ok \in BOOLEAN : RunOther(cmd, ok)
    \/ RunTodo \/ LedgerTurnEnd
LedgerNext == ListNext \/ WorkNext

LedgerSpec == LedgerInit /\ [][LedgerNext]_ledgerVars

--------------------------------------------------------------------------------
\* Every variable has its type.
LedgerTypeOK ==
    /\ todo.list \in TodoList \cup {NoList} /\ todo.slot \in Nat
    /\ todo.stale \in 0 .. StaleCalls - 1 /\ run.named \in 0 .. FailSlots /\ lops \in 0 .. LedgerOps
    /\ \A i \in DOMAIN run.fail : run.fail[i].cmd \in LedgerCmd \cup {NoCmd}

Misread == Source(talk) # 0 /\ Current(todo, talk) /\ todo.life # talk[Source(talk)].life

\* At the prompt the step list is that of the last todo call in the conversation, or of the checkpoint
\* it was compacted into, through rewinds, compactions, /clear and resumed sessions; except that a call
\* at the same slot and address as one read before the arena was started again is taken for that one.
ListOfConv == ~inTurn /\ ~Misread => todo.list = ListOf(talk)

\* A checkpoint accounts for every request of the conversation: the newest are quoted, in order,
\* and the number it says was left out is right, however many checkpoints came before.
RequestsAccounted ==
    \A i \in DOMAIN talk : talk[i].what.kind = "check" =>
        LET cp == talk[i].what.cp
        IN  /\ Len(cp.all) = cp.dropped + Len(cp.quoted)
            /\ \A k \in DOMAIN cp.quoted : cp.quoted[k] = Quoted(LastOf(cp.all, Len(cp.quoted))[k])

\* A note never says that a command failed more often than it did since the user's message, and while
\* the failing commands fit the table it says exactly how often.
FailuresCounted ==
    /\ lastNote.cmd # NoCmd => lastNote.n <= real[lastNote.cmd]
    /\ \A i \in DOMAIN run.fail : run.fail[i].n > 0 => run.fail[i].n <= real[run.fail[i].cmd]
    /\ Cardinality({c \in LedgerCmd : real[c] > 0}) <= FailSlots =>
          \A c \in LedgerCmd : real[c] > 0 => \E i \in DOMAIN run.fail : run.fail[i] = [cmd |-> c, n |-> real[c]]

\* What the harness tells the model about the work is true: the list, the requests and the failures.
LedgerTrue == ListOfConv /\ RequestsAccounted /\ FailuresCounted
===============================================================================

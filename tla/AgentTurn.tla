------------------------------- MODULE AgentTurn -------------------------------
(***************************************************************************)
(* The agent's turn: the loop of agent_turn in main.c that sends the       *)
(* conversation to the provider, stores the reply, runs the calls of the   *)
(* round one by one or in a batch, and answers each with a result, together *)
(* with what it saves on the way, the interrupts that may arrive anywhere  *)
(* in it, the compaction and the plan handoff inside it, and the commands  *)
(* between turns that change the conversation.                             *)
(*                                                                         *)
(* A slot of the conversation is its role, the number of the call it       *)
(* carries or answers, and what the properties tell apart. The system      *)
(* prompt, slot 0 of the code, is left out: slot i here is slot i of Conv. *)
(* A provider names every call differently, so a call's number is its id.  *)
(***************************************************************************)
EXTENDS Naturals, Sequences

CONSTANTS
    Cap,        \* conv->cap less the system prompt: the slots of a conversation
    Round,      \* AGENT_MAX_TOOL_CALLS: the calls one reply may carry
    Steps,      \* the steps of a batch
    AutoTitle,  \* auto_title is on and a small model is there to name the session
    MaxCalls,   \* bound on the calls made
    MaxFaults,  \* bound on the writes to the transcript that fail
    MaxCrashes  \* bound on the deaths of the process

ASSUME SizesAssumption == /\ {Cap, Round, Steps} \subseteq Nat \ {0}
                          /\ {MaxCalls, MaxFaults, MaxCrashes} \subseteq Nat
                          /\ AutoTitle \in BOOLEAN

VARIABLES
    conv,       \* the conversation in memory
    file,       \* the conversation a replay of the session's transcript gives
    written,    \* sess->written: the slots of conv the transcript has
    failed,     \* ag->session_save_failed
    missed,     \* history: the calls whose result in the transcript is older than in conv
    pc,         \* where the program is
    keep,       \* the first slot a compaction keeps
    rc,         \* what provider_run stored
    at,         \* the call of the round that is being answered
    pending,    \* the TurnAction the round will return
    blocked,    \* ag->permission_blocked_one_shot
    handoff,    \* ag->handoff holds a plan
    asked,      \* asked_for_reply
    seen,       \* ag->compact_seen
    title,      \* the session has no title, was tried, or has one
    sigint,     \* g_got_sigint
    oneShot,    \* g_turn.one_shot: a run with -p
    did,        \* history: the steps of each call that were executed, or denied in a batch
    left,       \* history: the calls a turn that was cut short left without a result
    lapsed,     \* history: the calls that were missed when the process died
    calls,      \* the number of calls made
    faults,     \* the number of failed writes
    crashes     \* the number of deaths

store == <<file, written, failed, missed, faults>>
turn  == <<keep, rc, at, pending, blocked, asked, seen>>
past  == <<did, left, lapsed, calls, crashes>>
vars  == <<conv, store, pc, turn, handoff, title, sigint, oneShot, past>>

Call == 1..MaxCalls
Slot(role, call, what, rows) == [role |-> role, call |-> call, what |-> what, rows |-> rows]
User      == Slot("user", 0, "text", 0)
Note      == Slot("note", 0, "text", 0)
Reply(w)  == Slot("reply", 0, w, 0)
Asks      == Slot("head", 0, "text", 0)
Calls(c)  == Slot("call", c, "text", 0)
Told(c)   == Slot("result", c, "told", 0)
Lost(c)   == Slot("result", c, "lost", 0)
Batch(c)  == Slot("result", c, "running", 0)

IsCall(c, i)   == i \in DOMAIN c /\ c[i].role = "call"
IsResult(c, i) == i \in DOMAIN c /\ c[i].role = "result"
RoundStart(c, i) == i \in DOMAIN c /\ ~IsCall(c, i) /\ ~IsResult(c, i)

\* The unanswered calls of a conversation, as sess_answer_pending looks for them.
Unanswered(c) == {c[i].call : i \in {j \in DOMAIN c :
                      /\ IsCall(c, j)
                      /\ \A k \in j + 1..Len(c) : ~(IsResult(c, k) /\ c[k].call = c[j].call)}}

Room(n) == Len(conv) + n <= Cap

--------------------------------------------------------------------------------
\* Saving. session_save appends what is pending of c, and with nothing pending says it
\* is saved; save_session_result keeps whether the last save failed.
Fault == faults < MaxFaults /\ faults' = faults + 1 /\ failed' = TRUE

Save(c) == \/ /\ file' = file \o SubSeq(c, written + 1, Len(c))
              /\ written' = Len(c)
              /\ failed' = FALSE
              /\ UNCHANGED <<missed, faults>>
           \/ /\ written < Len(c) /\ Fault
              /\ UNCHANGED <<file, written, missed>>

\* session_update_tool appends a tool_update line, which a replay puts over the result.
Update(c, i) == \/ /\ file' = [file EXCEPT ![i] = c[i]]
                   /\ missed' = missed \ {c[i].call}
                   /\ failed' = FALSE
                   /\ UNCHANGED <<written, faults>>
                \/ /\ missed' = missed \cup {c[i].call} /\ Fault
                   /\ UNCHANGED <<file, written>>

SaveProgress(c, i) == IF written < i THEN Save(c) ELSE Update(c, i)

\* A bug: the save follows, but no session was begun.
SaveAfresh_NoBegin(c) == Save(c)

\* session_begin and the save that follows it: a transcript of its own for c.
SaveAfresh(c) == /\ missed' = {}
                 /\ \/ file' = c /\ written' = Len(c) /\ failed' = FALSE /\ UNCHANGED faults
                    \/ c # <<>> /\ file' = <<>> /\ written' = 0 /\ Fault

\* The title goes over to a session that was saved, and session_set_title may fail.
TitleKept == IF title = "set" THEN {"set", "none"} ELSE {"none"}

Init == /\ conv = <<>> /\ file = <<>> /\ written = 0 /\ failed = FALSE /\ missed = {}
        /\ pc = "prompt" /\ keep = 0 /\ rc = "none" /\ at = 0 /\ pending = "continue"
        /\ blocked = FALSE /\ handoff = FALSE /\ asked = FALSE /\ seen = FALSE
        /\ title = "none" /\ sigint = FALSE /\ oneShot \in BOOLEAN
        /\ did = [c \in Call |-> 0] /\ left = {} /\ lapsed = {} /\ calls = 0 /\ faults = 0 /\ crashes = 0

--------------------------------------------------------------------------------
\* The head of agent_turn: the message is added and saved, and the MCP servers looked at.
Say(c) == /\ conv' = Append(c, User)
          /\ asked' = FALSE /\ seen' = FALSE
          /\ pc' = "begin"
          /\ UNCHANGED <<keep, rc, at, pending, blocked, sigint, oneShot, past>>

Submit == /\ pc = "prompt" /\ Room(1)
          /\ Say(conv) /\ Save(conv')
          /\ UNCHANGED <<handoff, title>>

\* The flag is cleared only now: an interrupt during the save or mcp_refresh is gone.
TurnBegin == /\ pc = "begin"
             /\ sigint' = FALSE /\ pc' = "top"
             /\ UNCHANGED <<conv, store, turn, handoff, title, oneShot, past>>

Sigint == /\ pc \notin {"prompt", "exit"} /\ ~sigint
          /\ sigint' = TRUE
          /\ UNCHANGED <<conv, store, pc, turn, handoff, title, oneShot, past>>

\* announce_interrupt: the turn ends, and calls the last reply made stay as they are.
Interrupted == /\ sigint /\ sigint' = FALSE
               /\ left' = left \cup Unanswered(conv)
               /\ pc' = "end"
               /\ UNCHANGED <<conv, store, turn, handoff, oneShot, did, lapsed, calls, crashes>>

TopInterrupted == pc = "top" /\ Interrupted /\ UNCHANGED title

--------------------------------------------------------------------------------
\* A bug: the split falls anywhere after the first reply.
Splits_Anywhere(c) == {i \in DOMAIN c : \E j \in 1..i - 1 : c[j].role \in {"reply", "head", "call"}}

\* Compaction. ctx_compact_split: a round start after the first reply; which one, and
\* whether the context is over its mark, depends on tokens.
Splits(c) == {i \in DOMAIN c : /\ RoundStart(c, i)
                               /\ \E j \in 1..i - 1 : c[j].role \in {"reply", "head", "call"}}

\* conv_compact_head: the summary of the older part, then the part that is kept.
Compacted == <<User>> \o SubSeq(conv, keep, Len(conv))

\* compact_if_needed starts with compact_summarize, which clears the flag.
CompactStart == /\ pc = "top" /\ ~sigint /\ ~seen
                /\ keep' \in Splits(conv)
                /\ seen' = TRUE /\ pc' = "compact"
                /\ UNCHANGED <<conv, store, rc, at, pending, blocked, asked, handoff, title, sigint, oneShot, past>>

\* It does not compact: the context is not over its mark, or it has tried before.
RequestStart == /\ pc = "top" /\ ~sigint
                /\ seen' \in {seen, FALSE} /\ pc' = "request"
                /\ UNCHANGED <<conv, store, keep, rc, at, pending, blocked, asked, handoff, title, sigint, oneShot, past>>

\* The command /compact, which summarises everything when there is no split.
CompactCommand == /\ pc = "prompt" /\ ~oneShot /\ conv # <<>>
                  /\ keep' \in IF Splits(conv) = {} THEN {Len(conv) + 1} ELSE Splits(conv)
                  /\ sigint' = FALSE /\ pc' = "compacting"
                  /\ UNCHANGED <<conv, store, rc, at, pending, blocked, asked, seen, handoff, title, oneShot, past>>

After == IF pc = "compact" THEN "request" ELSE "prompt"

CompactFail == /\ pc \in {"compact", "compacting"} /\ ~sigint
               /\ keep' = 0 /\ pc' = After
               /\ UNCHANGED <<conv, store, rc, at, pending, blocked, asked, seen, handoff, title, sigint, oneShot, past>>

CompactInterrupted == \/ pc = "compact" /\ Interrupted /\ UNCHANGED title
                      \/ /\ pc = "compacting" /\ sigint
                         /\ sigint' = FALSE /\ keep' = 0 /\ pc' = "prompt"
                         /\ UNCHANGED <<conv, store, rc, at, pending, blocked, asked, seen, handoff, title, oneShot, past>>

CompactDone == /\ pc \in {"compact", "compacting"} /\ ~sigint
               /\ conv' = Compacted /\ SaveAfresh(conv')
               /\ title' \in IF failed' THEN {"none"} ELSE TitleKept
               /\ seen' = FALSE /\ keep' = 0 /\ pc' = After
               /\ UNCHANGED <<rc, at, pending, blocked, asked, handoff, sigint, oneShot, past>>

--------------------------------------------------------------------------------
\* provider_run stores a whole reply or nothing, and agent_turn saves.
Stored(new, r) == /\ conv' = conv \o new /\ Save(conv')
                  /\ rc' = r /\ pc' = "stored"
                  /\ UNCHANGED <<keep, at, pending, blocked, asked, seen, handoff, title, sigint, oneShot, did, left, lapsed, crashes>>

ReplyNone == pc = "request" /\ Stored(<<>>, "error") /\ UNCHANGED calls

ReplyText == /\ pc = "request" /\ Room(1)
             /\ \/ Stored(<<Reply("text")>>, "text")
                \/ Stored(<<Reply("blank")>>, "blank")
                \/ Stored(<<Reply("text")>>, "stopped")
             /\ UNCHANGED calls

ReplyCalls == /\ pc = "request"
              /\ \E n \in 1..Round :
                    /\ Room(n + 1) /\ calls + n <= MaxCalls
                    /\ calls' = calls + n
                    /\ \E r \in {"calls", "cut"} : Stored(<<Asks>> \o [i \in 1..n |-> Calls(calls + i)], r)

StoredInterrupted == pc = "stored" /\ Interrupted /\ UNCHANGED title

StoredError == /\ pc = "stored" /\ ~sigint /\ rc = "error"
               /\ pc' = "end"
               /\ UNCHANGED <<conv, store, turn, handoff, title, sigint, oneShot, past>>

\* name_session_now: before the calls are looked at.
NamingDue == AutoTitle /\ ~oneShot /\ title = "none"

StoredOk == /\ pc = "stored" /\ ~sigint /\ rc # "error"
            /\ IF NamingDue THEN title' = "tried" /\ pc' = "naming" ELSE pc' = "judge" /\ UNCHANGED title
            /\ UNCHANGED <<conv, store, turn, handoff, sigint, oneShot, past>>

NamingInterrupted == pc = "naming" /\ Interrupted /\ UNCHANGED title

NamingDone == /\ pc = "naming" /\ ~sigint
              /\ title' \in {"tried", "set"} /\ pc' = "judge"
              /\ UNCHANGED <<conv, store, turn, handoff, sigint, oneShot, past>>

\* The reply ends the turn, unless it has no text and was not asked for before.
JudgeText == /\ pc = "judge" /\ rc \in {"text", "blank", "stopped"}
             /\ IF rc = "blank" /\ ~asked /\ Room(1)
                THEN conv' = Append(conv, Note) /\ Save(conv') /\ asked' = TRUE /\ pc' = "top"
                ELSE pc' = "end" /\ UNCHANGED <<conv, store, asked>>
             /\ rc' = "none"
             /\ UNCHANGED <<keep, at, pending, blocked, seen, handoff, title, sigint, oneShot, past>>

\* The calls follow the last head.
JudgeCalls == /\ pc = "judge" /\ rc \in {"calls", "cut"}
              /\ at' = 1 + CHOOSE i \in DOMAIN conv : /\ conv[i].role = "head"
                                                      /\ \A j \in i + 1..Len(conv) : IsCall(conv, j)
              /\ pending' = "continue" /\ blocked' = FALSE /\ pc' = "calls"
              /\ UNCHANGED <<conv, store, keep, rc, asked, seen, handoff, title, sigint, oneShot, past>>

--------------------------------------------------------------------------------
\* run_round_calls. A call is looked at, acted on, and answered; the flag is not looked at
\* in between, as tools that can be interrupted look at it themselves. Which of the actions
\* takes the call lies in its name and arguments, which are any.
AtCall == pc = "calls" /\ IsCall(conv, at)

UnchangedCall == UNCHANGED <<keep, rc, at, asked, seen, title, sigint, oneShot, lapsed, calls, crashes>>

\* Stub arguments, a tool that is not there, a batch that does not parse.
CallRefused == /\ AtCall
               /\ pc' = "answer"
               /\ UNCHANGED <<conv, store, pending, blocked, handoff, did, left>> /\ UnchangedCall

\* A call that needs no approval, or has it.
CallRun == /\ AtCall
           /\ did' = [did EXCEPT ![conv[at].call] = @ + 1] /\ pc' = "answer"
           /\ UNCHANGED <<conv, store, pending, blocked, handoff, left>> /\ UnchangedCall

\* tool_authorization: the user denies a guarded call, or nobody is there to ask.
CallDenied == /\ AtCall
              /\ blocked' = oneShot /\ pc' = "answer"
              /\ UNCHANGED <<conv, store, pending, handoff, did, left>> /\ UnchangedCall

\* submit_plan_answer: carry the plan out here, in a session of its own, or not at all.
CallPlan == /\ AtCall /\ ~oneShot
            /\ \/ UNCHANGED <<pending, handoff>>
               \/ pending' = "handoff" /\ handoff' = TRUE
               \/ pending' = "done" /\ UNCHANGED handoff
            /\ pc' = "answer"
            /\ UNCHANGED <<conv, store, blocked, did, left>> /\ UnchangedCall

\* ask_user_answer: an answer, or the question is dismissed.
CallAsk == /\ AtCall /\ ~oneShot
           /\ pending' \in {pending, "done"} /\ pc' = "answer"
           /\ UNCHANGED <<conv, store, blocked, handoff, did, left>> /\ UnchangedCall

\* The conversation is full: the round is over, with the rest of its calls unanswered.
Full == /\ ~Room(1)
        /\ pending' = "full" /\ left' = left \cup Unanswered(conv) /\ pc' = "round"
        /\ UNCHANGED <<conv, store, blocked, handoff, did>> /\ UnchangedCall

\* A bug: a denial is forgotten once its call is answered.
CallOver_GoesOn(c) == /\ at' = at + 1 /\ pc' = "calls"
                      /\ UNCHANGED <<pending, left, keep, rc, asked, seen, title, sigint, oneShot, lapsed, calls, crashes, blocked, handoff, did>>

\* A run that was denied a call ends with it; otherwise the next call is looked at.
CallOver(c) == /\ IF blocked
                  THEN pending' = "denied" /\ left' = left \cup Unanswered(c) /\ pc' = "round" /\ UNCHANGED at
                  ELSE at' = at + 1 /\ pc' = "calls" /\ UNCHANGED <<pending, left>>
               /\ UNCHANGED <<keep, rc, asked, seen, title, sigint, oneShot, lapsed, calls, crashes, blocked, handoff, did>>

\* add_result
Answer == /\ pc = "answer" /\ Room(1)
          /\ conv' = Append(conv, Told(conv[at].call)) /\ Save(conv')
          /\ CallOver(conv')

CallFull == (pc = "answer" \/ AtCall) /\ Full

--------------------------------------------------------------------------------
\* batch_answer puts the result in its slot first and rewrites it after every step. The
\* slot is the conversation's last for as long as the batch runs.
slot == Len(conv)
Rows == conv[slot].rows

BatchStart == /\ AtCall /\ Room(1)
              /\ conv' = Append(conv, Batch(conv[at].call)) /\ pc' = "batch"
              /\ UNCHANGED <<store, pending, blocked, handoff, did, left>> /\ UnchangedCall

BatchRun == /\ pc = "batch" /\ ~sigint /\ Rows < Steps
            /\ did' = [did EXCEPT ![conv[slot].call] = @ + 1]
            /\ blocked' \in {FALSE, oneShot} /\ pc' = "batch_ran"
            /\ UNCHANGED <<conv, store, pending, handoff, left>> /\ UnchangedCall

\* A bug: a step that failed is not counted.
BatchProgress_OnlyOk == /\ pc = "batch_ran"
                        /\ \/ /\ ~blocked /\ pc' = "batch"
                              /\ conv' = [conv EXCEPT ![slot].rows = @ + 1] /\ SaveProgress(conv', slot)
                           \/ pc' = "batch_end" /\ UNCHANGED <<conv, store>>
                        /\ UNCHANGED <<pending, blocked, handoff, did, left>> /\ UnchangedCall

\* The step's row is published and saved; a step that is not ok is the last.
BatchProgress == /\ pc = "batch_ran"
                 /\ conv' = [conv EXCEPT ![slot].rows = @ + 1] /\ SaveProgress(conv', slot)
                 /\ pc' \in IF blocked THEN {"batch_end"} ELSE {"batch", "batch_end"}
                 /\ UNCHANGED <<pending, blocked, handoff, did, left>> /\ UnchangedCall

\* A row that does not fit: an error that names no step takes the place of the result.
BatchUnstored == /\ \/ pc = "batch" /\ ~sigint /\ Rows < Steps
                    \/ pc = "batch_ran"
                    \/ pc = "batch_end" /\ conv[slot].what = "running"
                 /\ conv' = [conv EXCEPT ![slot].what = "unstored"] /\ pc' = "batch_end"
                 /\ UNCHANGED <<store, pending, blocked, handoff, did, left>> /\ UnchangedCall

BatchOver == /\ pc = "batch" /\ (sigint \/ Rows = Steps)
             /\ pc' = "batch_end"
             /\ UNCHANGED <<conv, store, pending, blocked, handoff, did, left>> /\ UnchangedCall

BatchEnd == /\ pc = "batch_end"
            /\ conv' = [conv EXCEPT ![slot].what = IF @ = "running" THEN "ended" ELSE @]
            /\ SaveProgress(conv', slot)
            /\ CallOver(conv')

--------------------------------------------------------------------------------
RoundCalled == /\ pc = "calls" /\ ~IsCall(conv, at)
               /\ pc' = "round"
               /\ UNCHANGED <<conv, store, pending, blocked, handoff, did, left>> /\ UnchangedCall

\* After the round. The turn also ends here for the cache guard and a queued message.
RoundEnd == /\ pc = "round"
            /\ conv' = IF rc = "cut" /\ Room(1) THEN Append(conv, Note) ELSE conv
            /\ pc' \in IF pending = "continue" THEN {"top", "end"} ELSE {"end"}
            /\ rc' = "none" /\ at' = 0
            /\ UNCHANGED <<store, keep, pending, blocked, asked, seen, handoff, title, sigint, oneShot, past>>

\* A bug: the plan is looked for in what the round returned.
TurnEnd_ByAction == /\ pc = "end"
                    /\ Save(conv)
                    /\ pc' = IF pending = "handoff" THEN "handoff" ELSE IF oneShot THEN "exit" ELSE "prompt"
                    /\ keep' = 0 /\ rc' = "none" /\ at' = 0 /\ pending' = "continue" /\ asked' = FALSE /\ seen' = FALSE
                    /\ UNCHANGED <<conv, blocked, handoff, title, sigint, oneShot, past>>

\* The locals of the turn end with it.
TurnEnd == /\ pc = "end"
           /\ Save(conv)
           /\ pc' = IF handoff THEN "handoff" ELSE IF oneShot THEN "exit" ELSE "prompt"
           /\ keep' = 0 /\ rc' = "none" /\ at' = 0 /\ pending' = "continue" /\ asked' = FALSE /\ seen' = FALSE
           /\ UNCHANGED <<conv, blocked, handoff, title, sigint, oneShot, past>>

\* agent_handoff: a session of its own, under the same title, that starts from the plan.
Handoff == /\ pc = "handoff"
           /\ handoff' = FALSE /\ title' \in TitleKept
           /\ Say(<<>>) /\ SaveAfresh(conv')

--------------------------------------------------------------------------------
\* The commands between turns: /clear, and /rewind to a message, which rewrites the
\* transcript, forks it, or begins another.
Clear == /\ pc = "prompt" /\ ~oneShot
         /\ conv' = <<>> /\ file' = <<>> /\ written' = 0 /\ missed' = {} /\ title' = "none"
         /\ UNCHANGED <<failed, faults, pc, turn, handoff, sigint, oneShot, past>>

Rewind == /\ pc = "prompt" /\ ~oneShot
          /\ \E i \in DOMAIN conv : conv[i] = User /\ conv' = SubSeq(conv, 1, i - 1)
          /\ \/ /\ file' = conv' /\ written' = Len(conv') /\ missed' = {}
                /\ UNCHANGED <<failed, faults, title>>
             \/ SaveAfresh(conv') /\ title' \in IF failed' THEN {"none"} ELSE TitleKept
          /\ UNCHANGED <<pc, turn, handoff, sigint, oneShot, past>>

\* The process dies, or ends, and another resumes the session: what the transcript holds,
\* with an answer for each call nothing answered, in their order.
Listed(ids, S) == /\ {ids[i] : i \in DOMAIN ids} = S
                  /\ \A i, j \in DOMAIN ids : i < j => ids[i] < ids[j]

Recovered(ids) == file \o [i \in 1..IF Len(file) + Len(ids) > Cap THEN Cap - Len(file) ELSE Len(ids) |->
                               Lost(ids[i])]

Resume == /\ crashes < MaxCrashes /\ crashes' = crashes + 1
          /\ \E n \in 0..Len(file) : \E ids \in [1..n -> Unanswered(file)] :
                Listed(ids, Unanswered(file)) /\ conv' = Recovered(ids)
          /\ missed' = {} /\ lapsed' = lapsed \cup missed
          /\ \/ file' = conv' /\ written' = Len(conv') /\ failed' = FALSE /\ UNCHANGED faults
             \/ Len(conv') > Len(file) /\ written' = Len(file) /\ Fault /\ UNCHANGED file
          /\ pc' = "prompt" /\ keep' = 0 /\ rc' = "none" /\ at' = 0 /\ pending' = "continue"
          /\ blocked' = FALSE /\ handoff' = FALSE /\ asked' = FALSE /\ seen' = FALSE
          /\ title' = (IF title = "set" THEN "set" ELSE "none") /\ sigint' = FALSE /\ oneShot' = FALSE
          /\ left' = IF Len(conv') = Cap THEN left \cup Unanswered(conv') ELSE left
          /\ UNCHANGED <<did, calls>>

Between == Submit \/ CompactCommand \/ Clear \/ Rewind
Compact == CompactStart \/ CompactFail \/ CompactInterrupted \/ CompactDone
Request == RequestStart \/ ReplyNone \/ ReplyText \/ ReplyCalls
Judge   == StoredInterrupted \/ StoredError \/ StoredOk \/ NamingInterrupted \/ NamingDone \/ JudgeText \/ JudgeCalls
CallStep  == CallRefused \/ CallRun \/ CallDenied \/ CallPlan \/ CallAsk \/ Answer \/ CallFull \/ RoundCalled
BatchStep == BatchStart \/ BatchRun \/ BatchProgress \/ BatchUnstored \/ BatchOver \/ BatchEnd

Next == \/ Between \/ TurnBegin \/ Sigint \/ TopInterrupted \/ Compact \/ Request \/ Judge
        \/ CallStep \/ BatchStep \/ RoundEnd \/ TurnEnd \/ Handoff \/ Resume

Spec == Init /\ [][Next]_vars

--------------------------------------------------------------------------------
SlotType == [role : {"user", "note", "reply", "head", "call", "result"}, call : 0..MaxCalls,
             what : {"text", "blank", "told", "lost", "running", "ended", "unstored"},
             rows : 0..Steps]

\* A conversation never has more slots than were reserved for it, nor does the transcript
\* of a session replay to more; the rest of the state keeps its ranges.
TypeOK == /\ conv \in Seq(SlotType) /\ Len(conv) <= Cap
          /\ file \in Seq(SlotType) /\ Len(file) <= Cap
          /\ written \in 0..Cap /\ failed \in BOOLEAN /\ missed \subseteq Call /\ faults \in 0..MaxFaults
          /\ pc \in {"prompt", "begin", "top", "compact", "compacting", "request", "stored", "naming", "judge", "calls",
                     "answer", "batch", "batch_ran", "batch_end", "round", "end", "handoff", "exit"}
          /\ keep \in 0..Cap + 1 /\ at \in 0..Cap + 1
          /\ rc \in {"none", "error", "text", "blank", "stopped", "calls", "cut"}
          /\ pending \in {"continue", "done", "handoff", "full", "denied"}
          /\ title \in {"none", "tried", "set"}
          /\ blocked \in BOOLEAN /\ handoff \in BOOLEAN /\ asked \in BOOLEAN /\ seen \in BOOLEAN
          /\ sigint \in BOOLEAN /\ oneShot \in BOOLEAN
          /\ did \in [Call -> 0..Steps] /\ left \subseteq Call /\ lapsed \subseteq Call
          /\ calls \in 0..MaxCalls /\ crashes \in 0..MaxCrashes

\* What a request in flight carries.
Sent == CASE pc = "request" -> conv
          [] pc \in {"compact", "compacting"} -> SubSeq(conv, 1, keep - 1)
          [] OTHER -> <<>>

\* Result k answers call i before the next round starts, as conv_result_slot pairs them.
Answers(c, k, i) == /\ IsCall(c, i) /\ IsResult(c, k) /\ i < k /\ c[i].call = c[k].call
                    /\ \A j \in i + 1..k - 1 : ~RoundStart(c, j)
PairedBut(c, S) == /\ \A i \in DOMAIN c : IsCall(c, i) => c[i].call \in S \/ \E k \in DOMAIN c : Answers(c, k, i)
                   /\ \A k \in DOMAIN c : IsResult(c, k) => c[k].call \in S \/ \E i \in DOMAIN c : Answers(c, k, i)

\* No request carries a call without its result or a result without its call, over
\* batches, compactions, failed saves, handoffs and resumes, except for calls of a turn
\* that was cut short by an interrupt, a denial or a full conversation.
PairedUnlessLeft == PairedBut(Sent, left)

\* The same without an exception: what a provider requires, as the tests of a resume and
\* of an interrupted wait say.
RequestsPaired == PairedBut(Sent, {})

\* The transcript replays to the part of the conversation that counts as written, over
\* every way the conversation changes, but for results whose update was refused.
TranscriptKept == /\ Len(file) = written /\ written <= Len(conv)
                  /\ \A i \in 1..written : \/ file[i] = conv[i]
                                           \/ IsResult(conv, i) /\ conv[i].call \in missed
                                           \/ i = slot /\ pc = "batch_end"

\* The transcript's row of a batch is at most one step behind what was executed, whenever
\* the process dies, and not behind once the batch is over, unless an update was refused.
RowsTrue == \A i \in DOMAIN file :
              LET r == file[i] IN
              /\ r.what = "running" /\ r.call \notin missed \cup lapsed => r.rows <= did[r.call] /\ did[r.call] <= r.rows + 1
              /\ r.what = "ended" => r.rows = did[r.call]

\* After a denial in a run that nobody can answer nothing more is executed and nothing
\* more is sent: not the rest of the batch, not the rest of the round, not a next round.
DenialStops == [][blocked /\ blocked' => did' = did /\ pc' # "request"]_vars

\* A plan approved for a session of its own is carried out there, whatever the rest of
\* the round does: no turn returns to the prompt with it.
HandoffKept == pc \in {"prompt", "exit"} => ~handoff

\* When the user was told that saving recovered, everything is in the transcript that
\* was to be saved.
RecoveredIsSaved == ~failed => missed = {}
================================================================================

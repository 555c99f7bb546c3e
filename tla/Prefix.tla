------------------------------- MODULE Prefix --------------------------------
(* What a request sends of the conversation, and the cache guard that watches it:
   elision, compaction and the image cut rewrite what was sent before, which makes
   the provider write its prompt cache again; whatever does that has to say so
   (CacheGuard in main.c), because a rebuild nobody declared stops the turn.

   A slot keeps what elision looks at: its role, tool, id, size, failure, image. The
   provider is a perfect cache: it reads what the request has in common with the one
   before, so that a miss is a request that does not begin with the earlier one. *)
EXTENDS Naturals, Sequences, SequencesExt, FiniteSets

CONSTANTS
    Uses,         \* tool calls with their results: [name, big, fail, image]
    ElideTurns,   \* AGENT_ELIDE_TURNS
    ElideRounds,  \* AGENT_ELIDE_ROUNDS
    Images,       \* AGENT_MAX_REQUEST_IMAGES
    UserImages,   \* whether a message may bring an image
    RoundCalls,     \* bound: calls in a round
    MaxSlots,     \* bound: slots of the conversation
    MaxSets       \* bound: settings changed, servers connected, compactions, failed runs

VARIABLES
    conv,    \* Conv: slots, elide_start, image_cut
    head,    \* what a request begins with: the mode, the permissions and the tools
    guard,   \* CacheGuard: the cause declared, the request expected to be read back
    phase,   \* whether a turn runs
    unsaid,  \* of the model: rewrites the code makes without naming a cause, not yet seen
    verdict, \* of the model: what the last observation said, and which of those it followed
    sets

prefixVars == <<conv, head, guard, phase, unsaid, verdict, sets>>

--------------------------------------------------------------------------------
(* The conversation: who is a call, a round, and where the boundary may go. *)

System == [role |-> "system", call |-> FALSE, name |-> "", id |-> 0, big |-> FALSE, fail |-> FALSE, image |-> FALSE, n |-> 0]
Said(role, n) == [System EXCEPT !.role = role, !.n = n]

IsCall(c, p)     == p \in DOMAIN c /\ c[p].role = "assistant" /\ c[p].call /\ c[p].name # ""
RoundHead(c, p)  == c[p].role = "assistant" /\ c[p].call /\ ~IsCall(c, p)
RoundStart(c, p) == p \in DOMAIN c /\ c[p].role # "tool" /\ ~IsCall(c, p)

\* Places are counted from 1, so that the boundary is the number of slots below it.
TurnsBack(c) ==
    LET users == {p \in DOMAIN c : c[p].role = "user"}
        nth == {p \in users : Cardinality({q \in users : q >= p}) = ElideTurns}
    IN  IF nth = {} THEN 0 ELSE (CHOOSE p \in nth : TRUE) - 1
RoundsBack(c) ==
    LET heads == {p \in DOMAIN c : RoundHead(c, p)}
        skip == (Cardinality(heads) \div ElideRounds - 1) * ElideRounds
    IN  IF Cardinality(heads) < 2 * ElideRounds THEN 0
        ELSE (CHOOSE p \in heads : Cardinality({q \in heads : q < p}) = skip) - 1
ElideNext(c, start) == Max({TurnsBack(c), RoundsBack(c), start})

--------------------------------------------------------------------------------
(* What elision drops and what it shortens, below the boundary `recent`. *)

CallFailed(c, p) ==
    LET same == {q \in p + 1 .. Len(c) : c[q].role = "tool" /\ c[q].id = c[p].id}
    IN  same # {} /\ c[Min(same)].fail
\* The form that was a bug of 0.20: a call above the boundary retires the list as well.
TodoLive_Anywhere(c, p, recent) == c[p].name = "todo" /\ ~\E q \in p + 1 .. Len(c) : IsCall(c, q) /\ c[q].name = "todo"
TodoLive(c, p, recent) ==
    c[p].name = "todo" /\ ~\E q \in p + 1 .. Min({recent, Len(c)}) : IsCall(c, q) /\ c[q].name = "todo"

RoundEnd(c, p)  == Max({q \in p .. Len(c) : \A r \in p + 1 .. q : c[r].role = "tool" \/ IsCall(c, r)})
RoundOf(c, p)   == Max({q \in 1 .. p : q = 1 \/ (c[q].role # "tool" /\ ~IsCall(c, q))})
CallsOf(c, p)   == {q \in p + 1 .. RoundEnd(c, p) : IsCall(c, q)}
Droppable(c, p) == c[p].name = "read" \/ CallFailed(c, p)
Passed(c, p, recent) == RoundHead(c, p) /\ RoundEnd(c, p) <= recent

\* The bug form: a result goes by the tool alone, and that of a call that failed stays.
AnswerDropped_ByTool(c, p, calls) == \E q \in calls : c[q].id = c[p].id /\ c[q].name = "read"
AnswerDropped(c, p, calls) ==
    LET mine == {q \in calls : c[q].id = c[p].id} IN mine # {} /\ Droppable(c, Min(mine))

SlotDropped(c, p, recent) ==
    /\ p <= recent /\ (c[p].role = "tool" \/ c[p].call)
    /\ LET h == RoundOf(c, p)
       IN  /\ Passed(c, h, recent)
           /\ CASE p = h         -> CallsOf(c, h) # {} /\ \A q \in CallsOf(c, h) : Droppable(c, q)
                [] IsCall(c, p)  -> Droppable(c, p)
                [] OTHER         -> AnswerDropped(c, p, CallsOf(c, h))
ResultElided(c, p, recent) ==
    c[p].role = "tool" /\ p <= recent /\ ~SlotDropped(c, p, recent) /\ (c[p].big \/ c[p].fail)
ArgsElided(c, p, recent) ==
    /\ IsCall(c, p) /\ p <= recent /\ ~SlotDropped(c, p, recent) /\ c[p].name # "patch"
    /\ CallFailed(c, p) \/ (~TodoLive(c, p, recent) /\ c[p].big)

--------------------------------------------------------------------------------
(* The image cut (conv_media_fit): oldest images are left out, in steps of half the limit. *)

ImageSlots(c) == {p \in DOMAIN c : c[p].image}
CutAt(total) ==
    LET over == total - Images
        step == IF Images \div 2 = 0 THEN 1 ELSE Images \div 2
    IN  IF total <= Images THEN 0
        ELSE Min({((over + step - 1) \div step) * step, Max({over, total - 1})})
FitCut(c) ==
    LET all == ImageSlots(c)
        cut == CutAt(Cardinality(all))
    IN  IF cut = 0 THEN 0 ELSE CHOOSE p \in all : Cardinality({q \in all : q < p}) = cut
ImageSent(c, p, recent, cut) == c[p].image /\ p >= cut /\ ~(c[p].role = "tool" /\ p <= recent)

--------------------------------------------------------------------------------
(* conv_write_json: what of a slot goes out; slots that are left out are not there. *)

SlotShown(c, p, recent, cut) ==
    [slot |-> c[p].n,
     form |-> IF ResultElided(c, p, recent) \/ ArgsElided(c, p, recent) THEN "stub" ELSE "whole",
     image |-> ImageSent(c, p, recent, cut)]
Wire(v) ==
    LET sent == SelectSeq([p \in DOMAIN v.slots |-> p], LAMBDA p : ~SlotDropped(v.slots, p, v.elide))
    IN  [k \in DOMAIN sent |-> SlotShown(v.slots, sent[k], v.elide, v.cut)]

NoRequest == <<>>

--------------------------------------------------------------------------------
(* The guard: cache_guard_begin, _cause, _observe. *)

GuardBegun == [cause |-> "none", expect |-> [head |-> 0, wire |-> NoRequest]]
Cause(g, cause) == IF g.cause = "none" THEN [g EXCEPT !.cause = cause] ELSE g

PrefixInit ==
    /\ conv = [slots |-> <<System>>, elide |-> 0, cut |-> 0, next |-> 1]
    /\ head = 0 /\ guard = GuardBegun /\ phase = "idle" /\ unsaid = {}
    /\ verdict = [said |-> "kept", after |-> {}] /\ sets = 0

PutAll(v, new) == [v EXCEPT !.slots = @ \o new, !.next = @ + Len(new)]
Holds(n) == Len(conv.slots) + n <= MaxSlots

\* conv_truncate; every caller but a whole compaction begins the guard anew.
Truncated(v, keep) ==
    [v EXCEPT !.slots = SubSeq(@, 1, keep), !.next = 1 + v.slots[keep].n,
              !.elide = IF keep < 2 THEN 0 ELSE Min({@, keep}),
              !.cut = IF @ > keep THEN 0 ELSE @]

\* agent_turn takes a message; mcp_refresh may add or remove tools, and names no cause.
TakeMessage(image) ==
    /\ phase = "idle" /\ Holds(1) /\ phase' = "turn"
    /\ conv' = PutAll(conv, <<[Said("user", conv.next) EXCEPT !.image = image]>>)
    /\ UNCHANGED <<guard, verdict>>
    /\ \/ UNCHANGED <<head, unsaid, sets>>
       \/ sets < MaxSets /\ sets' = sets + 1 /\ head' = sets' /\ unsaid' = unsaid \cup {"servers"}

\* elide_if_needed: whether the window is full enough, and the gain worth it, is left open.
\* A state of the loop is the conversation, the guard, and what is left of the bound.
ElideIfNeeded(s) ==
    LET next == ElideNext(s.conv.slots, s.conv.elide)
    IN  IF next = s.conv.elide THEN {s}
        ELSE {s, [s EXCEPT !.conv.elide = next, !.guard = Cause(s.guard, "elide")]}

\* ctx_compact_split: what may be kept, from a round after the first reply on.
Splits(c) ==
    LET replies == {p \in 2 .. Len(c) : c[p].role = "assistant"}
    IN  {p \in 3 .. Len(c) : replies # {} /\ p > Min(replies) /\ RoundStart(c, p)}
\* conv_compact_head.
Compacted(v, keep) ==
    [v EXCEPT !.slots = <<v.slots[1], Said("user", v.next)>> \o SubSeq(v.slots, keep, Len(v.slots)),
              !.elide = 0, !.cut = 0, !.next = @ + 1]

\* compact_if_needed and compact_auto.
CompactIfNeeded(s) ==
    {s} \cup {[conv |-> Compacted(s.conv, keep), guard |-> Cause(s.guard, "compact"), sets |-> s.sets + 1] :
                  keep \in {k \in Splits(s.conv.slots) : s.sets < MaxSets}}

\* cache_guard_observe: the request was answered with its usage.
Observed(g, v) ==
    LET first == g.expect.wire = NoRequest
        sent  == [head |-> head, wire |-> Wire(v)]
        kept  == first \/ (g.expect.head = head /\ IsPrefix(g.expect.wire, sent.wire))
    IN  /\ guard' = [cause |-> "none", expect |-> sent]
        /\ unsaid' = {}
        /\ verdict' = [said |-> IF kept THEN "kept" ELSE IF g.cause # "none" THEN "declared" ELSE "undeclared",
                       after |-> IF kept THEN {} ELSE unsaid]

\* A round: the reply with its calls, and their results, which every call has (run_tool_calls).
RoundSlots(uses, n) ==
    LET k == Len(uses)
    IN  <<[Said("assistant", n) EXCEPT !.call = TRUE]>>
        \o [i \in 1 .. k |-> [Said("assistant", n + i) EXCEPT !.call = TRUE, !.name = uses[i].name,
                                                              !.id = i, !.big = uses[i].big]]
        \o [i \in 1 .. k |-> [Said("tool", n + k + i) EXCEPT !.id = i, !.big = uses[i].big,
                                                             !.fail = uses[i].fail, !.image = uses[i].image]]

\* conv_media_fit, at the head of provider_run.
MediaFit(s) ==
    LET cut == FitCut(s.conv.slots)
    IN  [s EXCEPT !.conv.cut = cut, !.guard = IF cut # s.conv.cut THEN Cause(s.guard, "media") ELSE s.guard]

\* agent_turn, once around its loop. A run that fails or is interrupted has moved the cut as well.
Round ==
    \E elided \in ElideIfNeeded([conv |-> conv, guard |-> guard, sets |-> sets]) :
    \E compacted \in CompactIfNeeded(elided) :
        LET s == MediaFit(compacted)
        IN  /\ phase = "turn" /\ UNCHANGED head
            /\ \/ /\ s.sets < MaxSets /\ sets' = s.sets + 1 /\ phase' = "idle"
                  /\ conv' = s.conv /\ guard' = s.guard /\ UNCHANGED <<unsaid, verdict>>
               \/ /\ Holds(1) /\ Observed(s.guard, s.conv) /\ phase' = "idle" /\ sets' = s.sets
                  /\ conv' = PutAll(s.conv, <<Said("assistant", s.conv.next)>>)
               \/ /\ Observed(s.guard, s.conv) /\ phase' \in {"turn", "idle"} /\ sets' = s.sets
                  /\ \E uses \in BoundedSeq(Uses, RoundCalls) :
                        /\ uses # <<>> /\ Holds(1 + 2 * Len(uses))
                        /\ conv' = PutAll(s.conv, RoundSlots(uses, s.conv.next))

--------------------------------------------------------------------------------
(* Between turns. *)

IdleOnly   == phase = "idle" /\ UNCHANGED <<phase, verdict>>
IdleChange == IdleOnly /\ sets < MaxSets /\ sets' = sets + 1
Begins     == guard' = GuardBegun /\ unsaid' = {} /\ UNCHANGED <<head, sets>>

\* agent_set_mode, agent_set_permissions, settings_apply.
ChangeHead == IdleChange /\ head' = sets' /\ guard' = Cause(guard, "setting") /\ UNCHANGED <<conv, unsaid>>
\* /clear, a resume, a handoff: all but the system slot goes.
StartOver   == IdleOnly /\ Begins /\ conv' = Truncated(conv, 1)
ChangeModel == IdleOnly /\ Begins /\ UNCHANGED conv
Rewind ==
    /\ IdleOnly /\ Begins
    /\ \E p \in DOMAIN conv.slots : conv.slots[p].role = "user" /\ conv' = Truncated(conv, p - 1)
\* compact_session: with a tail to keep it slides it up and names no cause; whole, it names one.
CompactTail ==
    /\ IdleChange /\ UNCHANGED <<head, guard>> /\ unsaid' = unsaid \cup {"tail"}
    /\ \E keep \in Splits(conv.slots) : conv' = Compacted(conv, keep)
CompactWhole ==
    /\ IdleChange /\ Len(conv.slots) > 1 /\ Splits(conv.slots) = {} /\ UNCHANGED <<head, unsaid>>
    /\ guard' = Cause(guard, "compact")
    /\ conv' = PutAll([Truncated(conv, 1) EXCEPT !.next = conv.next], <<Said("user", conv.next)>>)

PrefixNext ==
    \/ \E image \in UserImages : TakeMessage(image)
    \/ Round
    \/ ChangeHead \/ StartOver \/ ChangeModel \/ Rewind \/ CompactTail \/ CompactWhole

PrefixSpec == PrefixInit /\ [][PrefixNext]_prefixVars

--------------------------------------------------------------------------------
\* Every variable has its type; the boundary and the cut lie inside the conversation.
PrefixTypeOK ==
    /\ Len(conv.slots) <= MaxSlots + 1 /\ conv.slots[1] = System
    /\ conv.elide \in 0 .. Len(conv.slots) /\ conv.cut \in 0 .. Len(conv.slots)
    /\ guard.cause \in {"none", "elide", "compact", "media", "setting"}
    /\ phase \in {"idle", "turn"}

\* Whatever the rewrites before it, an answered request either begins with the one before it,
\* byte for byte, or follows a rewrite that named its cause; only the two rewrites that name
\* none (a /compact that keeps a tail, tools a server brought) may break it.
PrefixStable == verdict.said = "undeclared" => verdict.after # {}

\* A request never holds a call without its result, nor a result without its call, whatever
\* elision dropped of the round.
PairsSent ==
    LET c == conv.slots
        Sent(p) == ~SlotDropped(c, p, conv.elide)
    IN  \A h \in DOMAIN c : RoundHead(c, h) =>
          \A q \in CallsOf(c, h) :
             /\ Sent(q) => Sent(h)
             /\ \E r \in h .. RoundEnd(c, h) : c[r].role = "tool" /\ c[r].id = c[q].id /\ (Sent(q) <=> Sent(r))

\* A request pairs what it holds, and is the one before it continued unless a rewrite said why:
\* the two a provider and its cache are owed.
RequestsTrue == PrefixStable /\ PairsSent
===============================================================================

----------------------------- MODULE ProviderRun -----------------------------
(* One call of provider_run (provider.c): the request is posted, its stream is
   taken event by event, an attempt that gave nothing is made again, and a
   reply is stored in the conversation with its calls and, for the Anthropic
   API, the thinking blocks around them; then the results of the round are
   added by id.

   Of the text it matters whether there is any, of a call its id and whether it
   has a name, and of a thinking block whether it was signed. What the provider
   really sent is kept in `sent`, to compare the stored reply with. *)
EXTENDS Naturals, Sequences, SequencesExt, FiniteSets

CONSTANTS
    MaxCalls,     \* AGENT_MAX_TOOL_CALLS
    Attempts,     \* retries + 1
    MaxEvents,    \* bound: events of one attempt
    Ids           \* ids a provider gives to calls, "" for none

ASSUME RunAssumption == /\ {MaxCalls, Attempts, MaxEvents} \subseteq Nat \ {0}
                        /\ "" \in Ids

VARIABLES
    api,      \* cfg->api
    at,       \* where provider_run is, and the attempt
    ss,       \* StreamState
    stop,     \* p->stop is something else than END
    sent,     \* the blocks the provider sent in this attempt, in order
    stored,   \* the reply in the conversation, and the results of its calls
    flag      \* *p->interrupt_flag

runVars == <<api, at, ss, stop, sent, stored, flag>>

Call == 1..MaxCalls

--------------------------------------------------------------------------------
NoCall == [used |-> FALSE, id |-> "", named |-> FALSE, mark |-> 0]
NoStream == [text |-> FALSE, reason |-> FALSE, call |-> [k \in Call |-> NoCall], count |-> 0,
             dropped |-> 0, blocks |-> 0, open |-> 0, anth |-> <<>>,
             thinking |-> FALSE, signed |-> FALSE, from |-> 0,
             events |-> 0, bad |-> FALSE, error |-> FALSE]
NoReply == [head |-> <<>>, calls |-> <<>>, results |-> <<>>]

RunInit == /\ api \in {"openai", "anthropic"}
           /\ at = [pc |-> "post", attempt |-> 1, block |-> "none", ran |-> 0]
           /\ ss = NoStream /\ stop = FALSE /\ sent = <<>> /\ stored = NoReply /\ flag = FALSE

Event == [ss EXCEPT !.events = @ + 1]

\* response_empty and output_untouched.
ResponseEmpty == ~ss.text /\ ~ss.reason /\ ss.count = 0

Untouched == ResponseEmpty /\ ss.dropped = 0

\* slot: a call past the cap is counted and given no slot.
Slotted(s, k) == IF k \notin Call THEN [s EXCEPT !.dropped = @ + 1]
                 ELSE [s EXCEPT !.call[k].used = TRUE, !.count = IF k > @ THEN k ELSE @]

--------------------------------------------------------------------------------
Posted == /\ at.pc = "post" /\ at' = [at EXCEPT !.pc = "stream", !.block = "none"]
          /\ sent' = <<>>
          /\ UNCHANGED <<api, ss, stop, stored, flag>>

Streaming == at.pc = "stream" /\ ss.events < MaxEvents

\* Events of the OpenAI API: text, where leading line breaks count for nothing; reasoning; the
\* start of a call with some index, where one past the cap is taken for the first.
OpenText == /\ Streaming /\ api = "openai"
            /\ \/ ss' = [Event EXCEPT !.text = TRUE]
               \/ ss' = [Event EXCEPT !.reason = TRUE]
            /\ UNCHANGED <<api, at, stop, sent, stored, flag>>

OpenCall == /\ Streaming /\ api = "openai"
            /\ \E n \in 1..(MaxCalls + 1), id \in Ids, named \in BOOLEAN :
                  LET k == IF n \in Call THEN n ELSE 1
                      s == Slotted(Event, k)
                  IN  /\ \A b \in 1..Len(sent) : sent[b].n # n
                      /\ ss' = [s EXCEPT !.call[k].id = IF id # "" THEN id ELSE @, !.call[k].named = @ \/ named]
                      /\ sent' = Append(sent, [k |-> "call", n |-> n, signed |-> FALSE])
            /\ UNCHANGED <<api, at, stop, stored, flag>>

--------------------------------------------------------------------------------
\* Events of the Anthropic API. anth_close_thinking drops a block that was not signed.
ThinkingClosed(s) == IF ~s.thinking THEN s
                     ELSE [s EXCEPT !.anth = IF s.signed THEN @ ELSE SubSeq(@, 1, s.from),
                                    !.thinking = FALSE, !.signed = FALSE]

BlockNo == Len(sent) + 1

AnthText == /\ Streaming /\ api = "anthropic" /\ at.block = "none"
            /\ ss' = [Event EXCEPT !.text = TRUE, !.open = 0]
            /\ at' = [at EXCEPT !.block = "text"]
            /\ UNCHANGED <<api, stop, sent, stored, flag>>

AnthTool == /\ Streaming /\ api = "anthropic" /\ at.block = "none"
            /\ \E id \in Ids :
                  LET c == ThinkingClosed(Event)
                      k == c.blocks + 1
                      s == Slotted([c EXCEPT !.blocks = @ + 1], k)
                  IN  ss' = IF k \notin Call THEN [s EXCEPT !.open = 0]
                            ELSE [s EXCEPT !.open = k, !.call[k].mark = Len(s.anth), !.call[k].id = id,
                                           !.call[k].named = TRUE]
            /\ at' = [at EXCEPT !.block = "tool"]
            /\ sent' = Append(sent, [k |-> "call", n |-> ss'.blocks, signed |-> FALSE])
            /\ UNCHANGED <<api, stop, stored, flag>>

AnthThinking ==
    /\ Streaming /\ api = "anthropic" /\ at.block = "none"
    /\ LET c == ThinkingClosed(Event)
       IN  \E said \in BOOLEAN :
              ss' = [c EXCEPT !.from = Len(c.anth), !.anth = Append(@, <<at.attempt, BlockNo>>),
                              !.thinking = TRUE, !.signed = FALSE, !.reason = @ \/ said, !.open = 0]
    /\ at' = [at EXCEPT !.block = "thinking"]
    /\ sent' = Append(sent, [k |-> "thinking", n |-> BlockNo, signed |-> FALSE])
    /\ UNCHANGED <<api, stop, stored, flag>>

AnthRedacted ==
    /\ Streaming /\ api = "anthropic" /\ at.block = "none"
    /\ LET c == ThinkingClosed(Event)
       IN  ss' = [c EXCEPT !.anth = Append(@, <<at.attempt, BlockNo>>), !.open = 0]
    /\ at' = [at EXCEPT !.block = "redacted"]
    /\ sent' = Append(sent, [k |-> "thinking", n |-> BlockNo, signed |-> TRUE])
    /\ UNCHANGED <<api, stop, stored, flag>>

AnthSignature ==
    /\ Streaming /\ api = "anthropic"
    /\ at.block = "thinking" /\ ~ss.signed
    /\ ss' = [Event EXCEPT !.signed = TRUE] /\ sent' = [sent EXCEPT ![Len(sent)].signed = TRUE]
    /\ UNCHANGED <<api, at, stop, stored, flag>>

AnthStop == /\ at.pc = "stream" /\ at.block # "none"
            /\ ss' = [ThinkingClosed(ss) EXCEPT !.open = 0]
            /\ at' = [at EXCEPT !.block = "none"]
            /\ UNCHANGED <<api, stop, sent, stored, flag>>

\* An event that is not JSON, or the reason why the reply stopped.
OddEvent == /\ Streaming
            /\ \/ ss' = [Event EXCEPT !.bad = TRUE] /\ UNCHANGED stop
               \/ api = "anthropic" /\ ss' = Event /\ stop' \in {TRUE, FALSE}
            /\ UNCHANGED <<api, at, sent, stored, flag>>

--------------------------------------------------------------------------------
\* http_post returns: the stream ended, an error event ended it, or it failed with a result that
\* may be tried again or not; 3 is an interrupt.
Returned == /\ at.pc = "stream"
            /\ \E rc \in {"ok", "error event", "again", "never", "interrupted"} :
                  /\ rc = "interrupted" => flag
                  /\ ss' = [ss EXCEPT !.error = rc = "error event"]
                  /\ at' = [at EXCEPT !.pc = "judge", !.block = rc]
            /\ UNCHANGED <<api, stop, sent, stored, flag>>

EmptyReply == at.block = "ok" /\ ResponseEmpty /\ ~stop
Again == (EmptyReply \/ ss.error \/ at.block = "again") /\ at.attempt < Attempts /\ Untouched

Judged == /\ at.pc = "judge"
          /\ at' = IF Again THEN [at EXCEPT !.pc = "backoff"]
                   ELSE IF at.block # "ok" THEN [at EXCEPT !.pc = "failed"]
                   ELSE IF ResponseEmpty THEN [at EXCEPT !.pc = IF ss.bad \/ stop THEN "failed" ELSE "empty"]
                   ELSE [at EXCEPT !.pc = "store"]
          /\ UNCHANGED <<api, ss, stop, sent, stored, flag>>

\* A bug: the blocks of thinking outlive the attempt.
Renewed_KeepsBlocks(s) == [NoStream EXCEPT !.call = s.call, !.count = s.count, !.dropped = s.dropped, !.anth = s.anth]

\* The reset of an attempt; the calls are left alone, because there are none.
Renewed(s) == [NoStream EXCEPT !.call = s.call, !.count = s.count, !.dropped = s.dropped]

\* retry_wait.
BackedOff == /\ at.pc = "backoff"
             /\ IF flag THEN at' = [at EXCEPT !.pc = "failed"] /\ UNCHANGED <<ss, stop>>
                ELSE /\ at' = [at EXCEPT !.pc = "post", !.attempt = @ + 1]
                     /\ ss' = Renewed(ss) /\ stop' = FALSE
             /\ UNCHANGED <<api, sent, stored, flag>>

Interrupt == /\ at.pc \in {"post", "stream", "backoff"} /\ ~flag /\ flag' = TRUE
             /\ UNCHANGED <<api, at, ss, stop, sent, stored>>

--------------------------------------------------------------------------------
\* anth_split_thinking: what came before the first call goes on the head, what came between two
\* calls on the later one.
NamedCalls == SelectSeq([k \in 1..ss.count |-> k], LAMBDA k : ss.call[k].used /\ ss.call[k].named)
Mark(j) == ss.call[NamedCalls[j]].mark

\* A bug: the blocks before a call go on the call before it.
Piece_Earlier(a, j) ==
    IF j = 0 THEN SubSeq(a, 1, IF NamedCalls = <<>> THEN Len(a) ELSE Mark(1))
    ELSE SubSeq(a, Mark(j) + 1, IF j < Len(NamedCalls) THEN Mark(j + 1) ELSE Len(a))

Piece(a, j) ==
    IF j = 0 THEN SubSeq(a, 1, IF NamedCalls = <<>> THEN Len(a) ELSE Mark(1))
    ELSE SubSeq(a, Mark(IF j > 1 THEN j - 1 ELSE 1) + 1, IF j < Len(NamedCalls) THEN Mark(j) ELSE Len(a))

Stored == /\ at.pc = "store"
          /\ LET a == ThinkingClosed(ss).anth
             IN  stored' = [head |-> Piece(a, 0),
                            calls |-> [j \in 1..Len(NamedCalls) |->
                                          [n |-> NamedCalls[j], id |-> ss.call[NamedCalls[j]].id, thinking |-> Piece(a, j)]],
                            results |-> <<>>]
          /\ at' = [at EXCEPT !.pc = "stored"]
          /\ UNCHANGED <<api, ss, stop, sent, flag>>

\* A bug: results are told apart by whether they have an id.
Earlier_AnyId(id) == {r \in 1..Len(stored.results) : stored.results[r].id # ""}

\* conv_add_tool: a result takes the place of one with its id, unless a call with that id came
\* since. The results follow the calls, so a result of this round is found first.
Earlier(id) == {r \in 1..Len(stored.results) : stored.results[r].id = id}

Added(id, j) == IF id # "" /\ Earlier(id) # {}
                THEN [stored.results EXCEPT ![CHOOSE r \in Earlier(id) : \A q \in Earlier(id) : q <= r] = [id |-> id, of |-> j]]
                ELSE Append(stored.results, [id |-> id, of |-> j])

ResultAdded == /\ at.pc = "stored" /\ at.ran < Len(stored.calls)
               /\ stored' = [stored EXCEPT !.results = Added(stored.calls[at.ran + 1].id, at.ran + 1)]
               /\ at' = [at EXCEPT !.ran = @ + 1]
               /\ UNCHANGED <<api, ss, stop, sent, flag>>

\* conv_result_slot: the first result with the call's id, and none when a call repeats it.
ResultOf(j) == LET id == stored.calls[j].id
                   R == {r \in 1..Len(stored.results) : stored.results[r].id = id}
               IN  IF (\E k \in (j + 1)..Len(stored.calls) : stored.calls[k].id = id) \/ R = {} THEN 0
                   ELSE stored.results[CHOOSE r \in R : \A q \in R : r <= q].of

RunNext == \/ Posted \/ OpenText \/ OpenCall \/ AnthText \/ AnthTool \/ AnthThinking \/ AnthRedacted
           \/ AnthSignature \/ AnthStop \/ OddEvent \/ Returned \/ Judged \/ BackedOff \/ Interrupt
           \/ Stored \/ ResultAdded

RunSpec == RunInit /\ [][RunNext]_runVars

--------------------------------------------------------------------------------
RunTypeOK ==
    /\ at.pc \in {"post", "stream", "judge", "backoff", "failed", "empty", "store", "stored"}
    /\ at.attempt \in 1..Attempts /\ ss.events \in 0..MaxEvents
    /\ ss.count \in 0..MaxCalls /\ ss.open \in 0..MaxCalls
    /\ Len(stored.calls) <= MaxCalls

\* The thinking blocks of a stored reply stand where they stood in the reply: before the same
\* calls, in order, those and only those that were signed, and none of an earlier attempt
\* (provider.c:1269, "the API refuses a latest assistant message whose thinking blocks moved").
Blocks   == SelectSeq(sent, LAMBDA b : IF b.k = "call" THEN b.n \in Call ELSE b.signed)
Original == [k \in 1..Len(Blocks) |-> IF Blocks[k].k = "call" THEN <<0, Blocks[k].n>> ELSE <<at.attempt, Blocks[k].n>>]
Replayed == stored.head \o FlattenSeq([j \in 1..Len(stored.calls) |-> stored.calls[j].thinking \o <<<<0, stored.calls[j].n>>>>])
Trailing == \E b \in 1..Len(Blocks) : Blocks[b].k = "thinking" /\ \A c \in (b + 1)..Len(Blocks) : Blocks[c].k # "call"
ThinkingInPlace == at.pc = "stored" /\ api = "anthropic" /\ (stored.calls = <<>> \/ ~Trailing) => Replayed = Original

\* Each call finds its own result by its id, when no two calls of the round share one; a call
\* without an id shares it with every call without one.
Distinct == \A j, k \in 1..Len(stored.calls) : j # k => stored.calls[j].id # stored.calls[k].id
ResultsPaired == at.pc = "stored" /\ Distinct => \A j \in 1..at.ran : ResultOf(j) = j

\* What a round stored is what the provider sent, and what it gave its results for.
RoundTrue == ThinkingInPlace /\ ResultsPaired
=============================================================================

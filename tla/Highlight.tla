----------------------------- MODULE Highlight ------------------------------
(* Syntax highlighting by a helper process (highlight.c, arqan-highlight.c): one
   request at a time over a pair of pipes, with an id, a deadline, a second
   attempt with a new helper, and strikes against a helper or a language that
   does not answer.

   io_all serves the keyboard while it waits, and a key may show another view or
   a diff, which is highlighted as well: a request is then made inside another
   one, on the same pipes. A text is a name, and so is what its colours were
   computed from. *)
EXTENDS Naturals, Sequences, SequencesExt

CONSTANTS
    Text,           \* fenced blocks, in the conversation or in another view
    Tries,          \* YHL_ATTEMPTS
    HelperStrikes,  \* YHL_HELPER_STRIKES
    LangStrikes,    \* YHL_STRIKES; one language
    MaxRequests,    \* bound: exchanges
    MaxSlow         \* bound: deadlines that pass

VARIABLES
    client,     \* disabled, the next id, the strikes (HighlightClient)
    helper,     \* whether it runs, and what it reads next
    toHelper, fromHelper,
    frames,     \* the requests being made, the innermost last
    block,      \* the block being shown (g_md): its source, and the lines its colours go to
    coloured,   \* of the model: <<text, text its colours were computed from>>
    slow

hlVars == <<client, helper, toHelper, fromHelper, frames, block, coloured, slow>>

--------------------------------------------------------------------------------
Diff    == "diff"
NoText  == "none"
Garbage == "garbage"

HlInit ==
    /\ client = [disabled |-> FALSE, id |-> 1, strikes |-> 0, lang |-> 0]
    /\ helper = [runs |-> FALSE, want |-> "header", id |-> 0]
    /\ toHelper = <<>> /\ fromHelper = <<>> /\ frames = <<>>
    /\ block = [source |-> NoText, lines |-> NoText] /\ coloured = {} /\ slow = 0

\* highlight_start and the head of highlight_exchange: a helper that still runs is used.
Frame(md, tries) == [id |-> client.id, at |-> "header", md |-> md, tries |-> tries]
Started == IF helper.runs \/ client.disabled THEN UNCHANGED <<helper, toHelper, fromHelper>>
           ELSE helper' = [runs |-> TRUE, want |-> "header", id |-> 0] /\ toHelper' = <<>> /\ fromHelper' = <<>>

CanAsk == client.id <= MaxRequests /\ Len(frames) < 2
Refuses == client.disabled \/ client.lang >= LangStrikes

\* highlight_request.
Highlights(md) ==
    IF Refuses THEN UNCHANGED <<client, helper, toHelper, fromHelper, frames>>
    ELSE /\ Started /\ client' = [client EXCEPT !.id = @ + 1]
         /\ frames' = Append(frames, Frame(md, 1))

\* md_hl_abandon.
Abandoned(b) == [b EXCEPT !.lines = NoText]

\* The end of a fence (md_hl_finish): at the end of a block, when the view changes in the middle of
\* one, and for the blocks of the view that is shown instead.
BlockEnds(t) ==
    /\ CanAsk /\ block.lines = NoText
    /\ Highlights(TRUE)
    /\ block' = [source |-> t, lines |-> IF Refuses THEN NoText ELSE t] /\ UNCHANGED <<coloured, slow>>
BlockCut ==
    /\ CanAsk /\ frames # <<>> /\ block.lines # NoText
    /\ Highlights(TRUE)
    /\ block' = IF Refuses THEN Abandoned(block) ELSE block
    /\ UNCHANGED <<coloured, slow>>

\* render_diff_syntax, which has its own result.
DiffShown == CanAsk /\ Highlights(FALSE) /\ UNCHANGED <<block, coloured, slow>>

--------------------------------------------------------------------------------
Top == Last(frames)
TopNow(f) == frames' = [frames EXCEPT ![Len(frames)] = f]
Popped(b) == frames' = Front(frames) /\ block' = b

\* What a request writes, in the innermost exchange.
WriteHeader ==
    /\ frames # <<>> /\ Top.at = "header" /\ helper.runs /\ ~client.disabled
    /\ toHelper' = Append(toHelper, [is |-> "header", id |-> Top.id, text |-> NoText])
    /\ TopNow([Top EXCEPT !.at = "source"])
    /\ UNCHANGED <<client, helper, fromHelper, block, coloured, slow>>
WriteSource ==
    /\ frames # <<>> /\ Top.at = "source" /\ helper.runs /\ ~client.disabled
    /\ toHelper' = Append(toHelper, [is |-> "source", id |-> Top.id, text |-> IF Top.md THEN block.source ELSE Diff])
    /\ TopNow([Top EXCEPT !.at = "reply"])
    /\ UNCHANGED <<client, helper, fromHelper, block, coloured, slow>>

\* serve: what is no header ends the helper. The source is read by its length, whatever it is.
HelperReads ==
    /\ helper.runs /\ helper.want # "gone" /\ toHelper # <<>>
    /\ LET m == Head(toHelper)
           text == IF m.is = "source" /\ m.id = helper.id THEN m.text ELSE Garbage
           reply(s) == [is |-> "reply", id |-> helper.id, status |-> s, text |-> text]
       IN  IF helper.want = "header"
           THEN /\ helper' = [helper EXCEPT !.want = IF m.is = "header" THEN "source" ELSE "gone", !.id = m.id]
                /\ UNCHANGED fromHelper
           ELSE /\ helper' = [helper EXCEPT !.want = "header"]
                /\ fromHelper' \in {fromHelper \o <<reply("ok"), [reply("ok") EXCEPT !.is = "run"]>>,
                                    Append(fromHelper, reply("none")), Append(fromHelper, reply("internal"))}
    /\ toHelper' = Tail(toHelper) /\ UNCHANGED <<client, frames, block, coloured, slow>>
HelperDies == /\ helper.runs /\ helper.want # "gone" /\ slow < MaxSlow /\ slow' = slow + 1
              /\ helper' = [helper EXCEPT !.want = "gone"]
              /\ UNCHANGED <<client, toHelper, fromHelper, frames, block, coloured>>

--------------------------------------------------------------------------------
Retired == helper' = [helper EXCEPT !.runs = FALSE] /\ toHelper' = <<>> /\ fromHelper' = <<>>
EndOf(f) == IF f.md THEN Abandoned(block) ELSE block

\* HL_BROKEN.
Broken == /\ Retired /\ client' = [client EXCEPT !.disabled = TRUE] /\ Popped(EndOf(Top))
          /\ UNCHANGED <<coloured, slow>>

\* HL_RETRY: the helper is killed and counted against, and the request is made once more.
Retry ==
    LET c == [client EXCEPT !.strikes = @ + 1, !.disabled = @ \/ client.strikes + 1 >= HelperStrikes,
                            !.lang = IF client.strikes + 1 >= HelperStrikes THEN @ ELSE @ + 1]
        again == ~c.disabled /\ c.lang < LangStrikes /\ Top.tries < Tries
    IN  IF again
        THEN /\ helper' = [runs |-> TRUE, want |-> "header", id |-> 0] /\ toHelper' = <<>> /\ fromHelper' = <<>>
             /\ client' = [c EXCEPT !.id = @ + 1] /\ TopNow(Frame(Top.md, Top.tries + 1)) /\ UNCHANGED block
        ELSE Retired /\ client' = c /\ Popped(EndOf(Top))

\* The pipe is closed, by the helper, or by a request inside this one; or the deadline passed.
Fails == /\ frames # <<>> /\ (~helper.runs \/ client.disabled \/ (helper.want = "gone" /\ fromHelper = <<>>))
         /\ Retry /\ UNCHANGED <<coloured, slow>>
TimesOut == /\ frames # <<>> /\ slow < MaxSlow /\ slow' = slow + 1
            /\ Retry /\ UNCHANGED coloured

\* A bug: an answer is taken for the one that is waited for.
IsReply_AnyId(m, id) == m.is = "reply"

IsReply(m, id) == m.is = "reply" /\ m.id = id

ReadReply ==
    /\ frames # <<>> /\ Top.at = "reply" /\ fromHelper # <<>> /\ helper.runs
    /\ LET m == Head(fromHelper)
       IN  IF ~IsReply(m, Top.id) \/ m.status = "internal" THEN Broken
           ELSE /\ fromHelper' = Tail(fromHelper) /\ UNCHANGED <<helper, toHelper, coloured, slow>>
                /\ IF m.status = "ok" THEN TopNow([Top EXCEPT !.at = "runs"]) /\ UNCHANGED <<client, block>>
                   ELSE client' = [client EXCEPT !.strikes = 0, !.lang = 0] /\ Popped(EndOf(Top))

\* The runs, and where they go: the lines of the block, if they are still known, or the diff.
ReadRuns ==
    /\ frames # <<>> /\ Top.at = "runs" /\ fromHelper # <<>> /\ helper.runs
    /\ LET m == Head(fromHelper)
           shown == IF Top.md THEN block.lines ELSE Diff
       IN  IF m.is # "run" THEN Broken
           ELSE /\ fromHelper' = Tail(fromHelper) /\ UNCHANGED <<helper, toHelper, slow>>
                /\ client' = [client EXCEPT !.strikes = 0, !.lang = 0] /\ Popped(EndOf(Top))
                /\ coloured' = IF shown = NoText THEN coloured ELSE coloured \cup {<<shown, m.text>>}

HlNext == \/ \E t \in Text : BlockEnds(t)
          \/ BlockCut \/ DiffShown \/ WriteHeader \/ WriteSource \/ HelperReads \/ HelperDies
          \/ Fails \/ TimesOut \/ ReadReply \/ ReadRuns

HlSpec == HlInit /\ [][HlNext]_hlVars

--------------------------------------------------------------------------------
HlTypeOK == /\ client.strikes \in 0..HelperStrikes /\ client.lang \in 0..LangStrikes
            /\ \A k \in 1..Len(frames) : frames[k].at \in {"header", "source", "reply", "runs"}

\* What is coloured is coloured by what was computed from it, whatever views and diffs are shown
\* while a request waits, and whatever helpers die or are slow in between (highlight_exchange,
\* md_hl_finish).
ColoursOfText == \A p \in coloured : p[1] = p[2]
=============================================================================

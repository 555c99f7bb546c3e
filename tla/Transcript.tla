----------------------------- MODULE Transcript -----------------------------
(* The transcript of the terminal interface (tui.c): a buffer of text that
   loses its front when it is full, the tables of ranges that say how its text
   is shown and what it belongs to, and the search through it.

   A character carries what it was written as: its style k, its zone z, whether
   it is in a message of the user (u), in the output of a tool (n) or in an image
   (i), and the pins p put in front of it. The program keeps none of that: it
   keeps ranges of offsets, and the properties compare the two. The fields
   pinned, crossed and cut are of the model as well. *)
EXTENDS Integers, Sequences, SequencesExt, FiniteSetsExt

CONSTANTS
    Cap,        \* TUI_TRANSCRIPT_CAP
    MaxRanges,  \* TUI_MAX_SPANS, _USERS, _NESTS, _ZONES, _PINS
    Bodies,     \* what is written at a time: sequences of "a", "b", "tab", "nl"
    Queries,    \* what is searched for
    MaxOps      \* bound: operations

VARIABLES
    tr,     \* the text, its tables and the search box (TuiState)
    ops

transcriptVars == <<tr, ops>>

--------------------------------------------------------------------------------
Far    == 1000    \* SIZE_MAX
Plain  == "plain"

NoFind == [open |-> FALSE, q |-> <<>>, cur |-> Far, count |-> 0, index |-> 0, scanned |-> Far, epoch |-> 0]

\* A new transcript, the search box closed or open on it.
TranscriptInit ==
    /\ tr \in [text : {<<>>}, pend : {0}, trail : {0}, epoch : {0}, keep : {Far},
               f : {NoFind} \cup {[NoFind EXCEPT !.open = TRUE, !.q = q, !.scanned = 0] : q \in Queries},
               spans : {<<>>}, users : {<<>>}, nests : {<<>>}, zones : {<<>>}, images : {<<>>}, pins : {<<>>},
               zopen : {0}, za : {0}, uopen : {FALSE}, ua : {0}, nopen : {FALSE},
               detached : {FALSE}, pinned : {{}}, crossed : {FALSE}, cut : {FALSE}]
    /\ ops = 0

N(t) == Len(t.text)

\* A table that is full forgets its first range.
RangesKept(s)    == IF Len(s) = MaxRanges THEN Tail(s) ELSE s
RangeAdd(s, r) == IF r.a >= r.b THEN s ELSE Append(RangesKept(s), r)

\* span_add joins a range to the one it follows.
SpanAdd(s, r) ==
    IF s # <<>> /\ Last(s).k = r.k /\ Last(s).b = r.a THEN [s EXCEPT ![Len(s)].b = r.b]
    ELSE Append(RangesKept(s), r)

\* A bug: a range that lost its beginning keeps its end.
Clip_KeepsEnd(r, d) == [r EXCEPT !.a = IF r.a > d THEN r.a - d ELSE 0,
                                 !.b = IF r.b = Far \/ r.a < d THEN r.b ELSE r.b - d]

Clip(r, d) == [r EXCEPT !.a = IF r.a > d THEN r.a - d ELSE 0, !.b = IF r.b = Far THEN Far ELSE r.b - d]
RangesShift(s, d) ==
    LET live == SelectSeq(s, LAMBDA r : r.b > d)
    IN  [k \in 1..Len(live) |-> Clip(live[k], d)]

\* spans_shift only looks at the front of its ring.
SpansShift(s, d) ==
    LET n == Max({0} \cup {k \in 1..Len(s) : \A j \in 1..k : s[j].b <= d})
    IN  [k \in 1..(Len(s) - n) |-> Clip(s[n + k], d)]

\* images_shift drops an image that lost its first row; pins_shift.
ImagesShift(s, d) ==
    LET live == SelectSeq(s, LAMBDA r : r.a >= d) IN [k \in 1..Len(live) |-> Clip(live[k], d)]
PinsShift(s, d) ==
    LET live == SelectSeq(s, LAMBDA p : p.off >= d) IN [k \in 1..Len(live) |-> [live[k] EXCEPT !.off = @ - d]]

\* find_shift and find_invalidate.
FindShift(f, d)   == [f EXCEPT !.cur = IF @ # Far /\ @ >= d THEN @ - d ELSE Far, !.scanned = Far]
FindInvalidate(f) == [f EXCEPT !.cur = Far, !.index = 0, !.count = 0, !.scanned = Far]

\* The front of the text, or all of it, goes.
HeadDropped(t, d) ==
    [t EXCEPT !.text = SubSeq(@, d + 1, Len(@)), !.epoch = @ + 1, !.f = FindShift(@, d),
              !.spans = SpansShift(@, d), !.users = RangesShift(@, d), !.nests = RangesShift(@, d),
              !.zones = RangesShift(@, d), !.images = ImagesShift(@, d), !.pins = PinsShift(@, d),
              !.keep = IF @ = Far THEN Far ELSE IF @ > d THEN @ - d ELSE 0]
Emptied(t) ==
    [t EXCEPT !.text = <<>>, !.epoch = @ + 1, !.f = FindInvalidate(@), !.spans = <<>>, !.users = <<>>,
              !.nests = IF t.nopen THEN <<[a |-> 0, b |-> Far]>> ELSE <<>>,
              !.zones = <<>>, !.images = <<>>, !.pins = <<>>, !.keep = Far]

Cells(c) == IF c = "tab" THEN <<" ", " ", " ", " ">> ELSE <<c>>
Written(t, c, k, i) ==
    IF N(t) + 4 >= Cap THEN [t EXCEPT !.cut = TRUE]
    ELSE LET cell(x) == [c |-> x, k |-> k, z |-> t.zopen, u |-> t.uopen, n |-> t.nopen, i |-> i, p |-> t.pinned]
             cs == Cells(c)
         IN  [t EXCEPT !.text = @ \o [j \in 1..Len(cs) |-> [cell(cs[j]) EXCEPT !.p = IF j = 1 THEN @ ELSE {}]],
                       !.pinned = {}, !.trail = IF c = "nl" THEN @ + 1 ELSE 0]

\* transcript_put: at most half of the text stays when it does not fit any more.
TranscriptPut(t, s, k, i) ==
    LET d  == N(t) - Min({N(t), Cap \div 2, Cap - 1 - Len(s)})
        t1 == IF Len(s) >= Cap THEN Emptied(t) ELSE IF N(t) + Len(s) >= Cap THEN HeadDropped(t, d) ELSE t
        s1 == IF Len(s) >= Cap THEN SubSeq(s, Len(s) - Cap + 2, Len(s)) ELSE s
    IN  FoldLeft(LAMBDA x, c : Written(x, c, k, i), t1, s1)

--------------------------------------------------------------------------------
\* nl_commit: at most two of the line ends that were held back.
NlCommit(t, k) ==
    IF t.pend = 0 THEN t
    ELSE TranscriptPut([t EXCEPT !.pend = 0], [j \in 1..Min({t.pend, 2}) |-> "nl"], k, FALSE)

\* tui_block.
Blocked(t) ==
    IF t.detached THEN t
    ELSE LET need == IF N(t) = 0 THEN 1 ELSE IF t.trail < 2 THEN 2 - t.trail ELSE 0
         IN  [t EXCEPT !.pend = Max({@, need})]

\* tui_write: line ends are held back until text follows them.
TuiWrite(t, s, k) ==
    LET flush(x) == IF x.run = <<>> THEN x.t ELSE TranscriptPut(NlCommit(x.t, k), x.run, k, FALSE)
        step(x, c) == IF c # "nl" THEN [x EXCEPT !.run = Append(@, c)]
                      ELSE [t |-> [flush(x) EXCEPT !.pend = @ + 1], run |-> <<>>]
    IN  IF t.detached THEN t ELSE flush(FoldLeft(step, [t |-> t, run |-> <<>>], s))

\* tui_clear_transcript, then what the other conversation shows (tview_show): the transcript
\* of the task is detached from the writes that follow.
Cleared(t) ==
    [Emptied(t) EXCEPT !.pend = 0, !.trail = 0, !.uopen = FALSE, !.nests = <<>>, !.nopen = FALSE,
                       !.zopen = 0, !.pinned = {}, !.crossed = FALSE, !.cut = FALSE]
ViewText == <<"a", "nl", "a">>
Switched(t, task) == [TuiWrite([Cleared(t) EXCEPT !.detached = FALSE], ViewText, Plain) EXCEPT !.detached = task]

\* write_span, after nl_commit gave t1. The write serves the keyboard before it looks whether it
\* is detached, and the view may be another one, t, after that.
WriteSpan(t1, t, s, k) ==
    LET t2 == TuiWrite(t, s, k)
    IN  IF N(t2) > N(t1) THEN [t2 EXCEPT !.spans = SpanAdd(@, [a |-> N(t1), b |-> N(t2), k |-> k])] ELSE t2
Committed1 == NlCommit(tr, Plain)

--------------------------------------------------------------------------------
\* find_next_at and find_prev_before over the whole text.
MatchesAt(t) == LET q == t.f.q IN {m \in 0..(N(t) - Len(q)) : q # <<>> /\ \A j \in 1..Len(q) : t.text[m + j].c = q[j]}

\* find_seek: the last match in view, or else the first.
FindSeek(t, limit) ==
    LET M == MatchesAt(t)
        near == {m \in M : m < limit}
    IN  [t EXCEPT !.f = [@ EXCEPT !.epoch = t.epoch, !.scanned = N(t), !.count = Cardinality(M),
                                  !.cur = IF M = {} THEN Far ELSE IF near = {} THEN Min(M) ELSE Max(near),
                                  !.index = IF M = {} THEN 0 ELSE Max({1, Cardinality(near)})]]

\* A bug: the matches are counted again from where the last count ended.
CountFrom_End(f) == f.scanned

CountFrom(f) == Max({0, f.scanned - (Len(f.q) - 1)})

\* find_refresh: text that was added is counted on, a text that lost its front is surveyed again.
FindRefresh(t, limit) ==
    LET M == MatchesAt(t)
        f == t.f
    IN  IF f.q = <<>> THEN FindSeek(t, limit)
        ELSE IF f.epoch = t.epoch /\ f.scanned = N(t) THEN t
        ELSE IF f.epoch = t.epoch /\ f.scanned < N(t)
        THEN [t EXCEPT !.f.count = @ + Cardinality({m \in M : m >= CountFrom(f)}), !.f.scanned = N(t)]
        ELSE IF f.cur \in M
        THEN [t EXCEPT !.f = [@ EXCEPT !.epoch = t.epoch, !.scanned = N(t), !.count = Cardinality(M),
                                       !.index = Cardinality({m \in M : m < f.cur}) + 1]]
        ELSE FindSeek(t, limit)

\* find_step, round the ends.
FindStep(t0, dir, limit) ==
    LET t == FindRefresh(t0, limit)
        M == MatchesAt(t)
        rest == {m \in M : IF dir < 0 THEN m < t.f.cur ELSE m > t.f.cur}
        ends(S) == IF dir < 0 THEN Max(S) ELSE Min(S)
    IN  IF t.f.count = 0 \/ M = {} THEN t
        ELSE IF t.f.cur = Far THEN FindSeek(t, limit)
        ELSE IF rest = {} THEN [t EXCEPT !.f.cur = ends(M), !.f.index = IF dir < 0 THEN t.f.count ELSE 1]
        ELSE [t EXCEPT !.f.cur = ends(rest), !.f.index = @ + dir]

--------------------------------------------------------------------------------
Op    == ops < MaxOps /\ ops' = ops + 1
To(t) == Op /\ tr' = t

\* tui_write and tui_write_styled; a switch of the view from inside write_span (tui_poll_input,
\* on_busy_command, task_view_toggle) is Crossing.
Printed   == \E s \in Bodies : To(TuiWrite(tr, s, Plain)) \/ To(WriteSpan(Committed1, Committed1, s, "styled"))
Crossing == \E s \in Bodies, task \in BOOLEAN :
               To([WriteSpan(Committed1, Switched(Committed1, task), s, "styled") EXCEPT !.crossed = TRUE])
Switch   == \E task \in BOOLEAN : To(Switched(tr, task))
Clear    == To(Cleared(tr))
Block    == To(Blocked(tr))

\* tui_zone_begin, tui_zone_end.
ZoneBegin == ~tr.detached /\ To([NlCommit(tr, Plain) EXCEPT !.zopen = 1, !.za = N(NlCommit(tr, Plain))])
ZoneEnd   == /\ ~tr.detached /\ tr.zopen # 0
             /\ To([tr EXCEPT !.zones = RangeAdd(@, [a |-> tr.za, b |-> N(tr)]), !.zopen = 0])

\* tui_user_begin, tui_user_end, around one message.
UserBegin == /\ ~tr.detached /\ ~tr.uopen
             /\ LET t == NlCommit(Blocked(tr), Plain)
                IN  To(TuiWrite([t EXCEPT !.ua = N(t), !.uopen = TRUE], <<"nl">>, Plain))
UserEnd   == /\ ~tr.detached /\ tr.uopen
             /\ LET t == NlCommit(TuiWrite(tr, <<"nl", "nl">>, Plain), Plain)
                IN  To([t EXCEPT !.users = RangeAdd(@, [a |-> t.ua, b |-> N(t)]), !.uopen = FALSE, !.pend = 1])

\* tui_tool_nest_begin joins the block it follows; tui_tool_nest_end.
NestBegin == /\ ~tr.detached /\ ~tr.nopen
             /\ To([tr EXCEPT !.nopen = TRUE,
                              !.nests = IF @ # <<>> /\ Last(@).b = N(tr) THEN [@ EXCEPT ![Len(@)].b = Far]
                                        ELSE Append(RangesKept(@), [a |-> N(tr), b |-> Far])])
NestEnd   == /\ tr.nopen
             /\ LET t == IF tr.detached THEN tr ELSE NlCommit(tr, Plain)
                IN  To([t EXCEPT !.nopen = FALSE, !.nests = IF @ = <<>> THEN @ ELSE [@ EXCEPT ![Len(@)].b = N(t)]])

\* tui_pin.
Pin == \E id \in {1} : /\ ~tr.detached
                      /\ To([tr EXCEPT !.pins = Append(RangesKept(@), [off |-> N(tr), id |-> id]), !.pinned = @ \cup {id}])

\* image_rows_put: two rows of one cell, and the range of what is left of them.
Image == /\ ~tr.detached
         /\ LET t0 == NlCommit(IF N(tr) > 0 /\ tr.trail = 0 /\ tr.pend = 0 THEN [tr EXCEPT !.pend = 1] ELSE tr, Plain)
                t  == FoldLeft(LAMBDA x, s : TranscriptPut(x, s, Plain, TRUE), t0, <<<<"cell">>, <<"nl">>, <<"cell">>>>)
            IN  To(IF N(t) < 3 THEN t ELSE [t EXCEPT !.images = RangeAdd(@, [a |-> N(t) - 3, b |-> N(t)])])

\* tui_keep_visible.
KeepVisible == ~tr.detached /\ To([tr EXCEPT !.keep = N(tr)])

\* The search box. What is in view when a seek begins is its end, or all before it is below.
Find == \E limit \in {0, N(tr)} :
           \/ To(FindSeek([tr EXCEPT !.f.open = TRUE], limit))
           \/ tr.f.open /\ \E q \in Queries : To(FindSeek([tr EXCEPT !.f.q = q], limit))
           \/ tr.f.open /\ \E dir \in {-1, 1} : To(FindStep(tr, dir, limit))
           \/ tr.f.open /\ To(FindRefresh(tr, limit))
FindClose == tr.f.open /\ To([tr EXCEPT !.f.open = FALSE, !.f.cur = Far])

TranscriptNext == \/ Printed \/ Crossing \/ Switch \/ Clear \/ Block \/ ZoneBegin \/ ZoneEnd \/ UserBegin
                  \/ UserEnd \/ NestBegin \/ NestEnd \/ Pin \/ Image \/ KeepVisible \/ Find \/ FindClose

TranscriptSpec == TranscriptInit /\ [][TranscriptNext]_transcriptVars

--------------------------------------------------------------------------------
TranscriptTypeOK ==
    /\ N(tr) < Cap /\ tr.pend \in Nat /\ tr.keep \in 0..N(tr) \cup {Far}
    /\ \A s \in {tr.spans, tr.users, tr.nests, tr.zones, tr.images} :
          Len(s) <= MaxRanges /\ (~tr.crossed => \A k \in 1..Len(s) : s[k].a >= 0 /\ (s[k].b <= N(tr) \/ s[k].b = Far))

\* Whatever the text has lost at its front, a range covers only text that was written as what the
\* range says, and, from the first tool output the table still has, all of that. A view that was
\* switched from inside write_span is left aside: there the style of the write covers the end of
\* the other view; and so is an image once the last bytes before the end of the buffer were cut
\* (transcript_put, *_shift, tui_*_begin and _end).
Covers(r, off) == r.a <= off /\ off < r.b
RangesOwnText ==
    ~tr.crossed =>
      \A off \in 0..(N(tr) - 1) :
        LET x == tr.text[off + 1]
            In(s) == \E k \in 1..Len(s) : Covers(s[k], off)
        IN  /\ \A k \in 1..Len(tr.spans) : Covers(tr.spans[k], off) => x.k = tr.spans[k].k
            /\ In(tr.users) => x.u
            /\ In(tr.zones) => x.z # 0
            /\ In(tr.images) /\ ~tr.cut => x.i
            /\ \A k \in 1..Len(tr.pins) : tr.pins[k].off = off => tr.pins[k].id \in x.p
            /\ In(tr.nests) => x.n
            /\ x.n /\ tr.nests # <<>> /\ tr.nests[1].a <= off => In(tr.nests)

\* A search box that has caught up with the text shows how many matches there are, and the match
\* it stands on is one, with its number among them, however the text grew, lost its front or was
\* rebuilt since the last step (find_refresh, find_step, find_shift).
FindTrue ==
    LET f == tr.f
        M == MatchesAt(tr)
    IN  f.open /\ f.epoch = tr.epoch /\ f.scanned = N(tr) =>
          /\ f.count = Cardinality(M)
          /\ f.cur # Far => f.cur \in M /\ f.index = Cardinality({m \in M : m <= f.cur})

\* Styles, images, messages and matches lie over the text they were made for.
OverlaysTrue == RangesOwnText /\ FindTrue
=============================================================================

-------------------------------- MODULE Screen --------------------------------
(* tui.c: how the transcript gets to the screen. Its text is wrapped into rows once, and the
   index of rows (wrap_scan, with a checkpoint every few rows, thinned when there are too many)
   is only continued when text arrives. A frame (repaint) lays the screen out, looks up the first
   row to show and paints the rows whose hash is not that of what stands there. The reader may
   scroll, resize, select and copy, answer a question in a picker, and open a pager over it.

   A glyph is one cell wide. The composer, the status line and the search row are left out:
   `size` is the room above them. A frame may follow an operation at once or after others (a
   batch, or output faster than 15 frames a second), so it is an action of its own. *)
EXTENDS Integers, Sequences, SequencesExt, FiniteSets, FiniteSetsExt

CONSTANTS
    ScreenCap,     \* TUI_TRANSCRIPT_CAP
    Opening,       \* what a transcript begins with
    Pieces,        \* what is written to it
    Sizes,         \* sizes of the screen: [rows, cols]
    CkptStep,      \* the 64 of wrap_invalidate
    CkptCap,       \* TUI_CKPTS
    NestCells,     \* TUI_NEST_CELLS
    PickMin,       \* TUI_PICK_MIN_ROWS
    PickRows,      \* rows of the options of a question
    PagerText,     \* what the pager shows
    ScreenOps      \* bound: operations between which frames are painted

NoOffset == 9999   \* SIZE_MAX

ASSUME ScreenAssumption == CkptStep \in Nat \ {0} /\ CkptCap \in Nat \ {0} /\ ScreenCap < NoOffset

VARIABLES
    text,      \* g_bulk.transcript
    spans,     \* span_a, span_b, span_k of one style: [a, b)
    nests,     \* nest_a, nest_b: rows of a tool in a task, [a, b)
    wrap,      \* wrap_cols, wrap_scanned, wrap_rows, ckpt_off, ckpt_step
    place,     \* scroll_rows, scroll_cols
    size,      \* of the terminal
    over,      \* the notice, the options of a question, keep_off
    pager,     \* g_view
    shown,     \* what stands in each row, and row_hash
    frame,     \* what the last frame noted: frame_valid, painted_rows and _cols, view_first_off ...
    fresh,     \* of the model: nothing happened since the last frame
    sops

screenVars == <<text, spans, nests, wrap, place, size, over, pager, shown, frame, fresh, sops>>

--------------------------------------------------------------------------------
(* Breaking lines. Offsets count from 0. *)

Ch(s, i) == s[i + 1]
\* The line end from i to `to`, or the end.
LineEnd(s, i, to) == Min({j \in i .. Min({to, Len(s) - 1}) : Ch(s, j) = "nl"} \cup {Len(s)})
\* Where the blanks that end at i begin, and where those that begin at i end.
BlanksFrom(s, from, i) == Min({k \in from .. i : \A m \in k .. i : Ch(s, m) = " "})
SkipSpaces(s, i) == Min({k \in i .. Len(s) - 1 : Ch(s, k) # " "} \cup {Len(s)})

\* row_break: a row of `room` cells ends at a line end, between words, or inside a word that is wider.
Soft(e, next) == [end |-> e, next |-> next, hard |-> FALSE]
Hard(s, e) == [end |-> e, next |-> IF e = Len(s) THEN e ELSE e + 1, hard |-> TRUE]
WordStarts(s, from, to) ==
    {j \in from + 1 .. to : /\ Ch(s, j) # " " /\ Ch(s, j - 1) = " "
                            /\ \E k \in from .. j - 1 : Ch(s, k) # " "}
RowBreak(s, from, room) ==
    LET full == from + room
        words == WordStarts(s, from, full - 1)
        line == LineEnd(s, from, full)
    IN  IF line <= full THEN Hard(s, line)
        ELSE IF Ch(s, full) = " "
        THEN Soft(BlanksFrom(s, from, full), SkipSpaces(s, BlanksFrom(s, from, full)))
        ELSE IF words # {} THEN Soft(BlanksFrom(s, from, Max(words) - 1), Max(words))
        ELSE Soft(full, full)
Ends(s, r) == r.hard /\ r.end >= Len(s)

\* nest_at_off: rows of a nested tool stand behind a rule.
Nested(ns, off) == \E i \in DOMAIN ns : ns[i].a <= off /\ off < ns[i].b
RowCells(ns, off, cols) == Max({1, IF Nested(ns, off) THEN cols - NestCells ELSE cols})
RowFrom(t, ns, cols, off) == RowBreak(t, off, RowCells(ns, off, cols))

\* Where rows start, from one on: the whole index, made anew. (A member of a set of one is bound to
\* its value, which TLC would find again at every use of a definition.)
The(S) == CHOOSE v \in S : TRUE
RECURSIVE StartsFrom(_, _, _, _)
StartsFrom(t, ns, cols, off) ==
    The({IF Ends(t, r) THEN <<off>> ELSE <<off>> \o StartsFrom(t, ns, cols, r.next) : r \in {RowFrom(t, ns, cols, off)}})
Starts(t, ns, cols) == StartsFrom(t, ns, cols, 0)
FirstRows(t, ns, cols, off, n) ==
    LET starts == StartsFrom(t, ns, cols, off) IN SubSeq(starts, 1, Min({n, Len(starts)}))

--------------------------------------------------------------------------------
(* The index. *)

NoWrap == [cols |-> 0, scanned |-> 0, rows |-> 0, ck |-> <<>>, step |-> CkptStep]

\* ckpt_record: when the table is full every other checkpoint goes. The bug form records one
\* behind the rows that are in the table.
Slots(w, row) == row % w.step = 0 /\ row \div w.step = Len(w.ck)
Thinned(w) == [w EXCEPT !.ck = [i \in 1 .. (Len(w.ck) + 1) \div 2 |-> w.ck[2 * i - 1]], !.step = 2 * @]
Recorded1_Anywhere(w, row, off) ==
    IF ~Slots(w, row) THEN w
    ELSE LET v == IF Len(w.ck) = CkptCap THEN Thinned(w) ELSE w
         IN  [v EXCEPT !.ck = Append(@, off)]
Recorded1(w, row, off) ==
    IF ~Slots(w, row) THEN w
    ELSE LET v == IF Len(w.ck) = CkptCap THEN Thinned(w) ELSE w
         IN  IF Slots(v, row) THEN [v EXCEPT !.ck = Append(@, off)] ELSE v

\* wrap_scan: from the start of the last row that was found; that row is not over.
RECURSIVE ScanFrom(_, _, _)
ScanFrom(w, t, ns) ==
    The({IF Ends(t, r) THEN w
         ELSE The({ScanFrom(v, t, ns) : v \in {Recorded1([w EXCEPT !.scanned = r.next, !.rows = @ + 1], w.rows + 1, r.next)}})
         : r \in {RowFrom(t, ns, w.cols, w.scanned)}})
WrapScan(w, t, ns, cols) ==
    The({ScanFrom(v, t, ns) : v \in {IF w.cols # cols \/ w.scanned > Len(t)
                                     THEN Recorded1([NoWrap EXCEPT !.cols = cols], 0, 0) ELSE w}})

\* wrap_seek, and the rows between the checkpoint and the one wanted.
RECURSIVE RowsOn(_, _, _, _, _)
RowsOn(t, ns, cols, off, n) == IF n = 0 THEN off ELSE RowsOn(t, ns, cols, RowFrom(t, ns, cols, off).next, n - 1)
WrapSeek(w, t, ns, row) ==
    LET k == Min({row \div w.step, Len(w.ck) - 1})
    IN  RowsOn(t, ns, w.cols, w.ck[k + 1], row - k * w.step)

\* rows_below: rows from the one at `off` to the end, counted in the index, or anew from `off`.
RowOf(starts, off) == Max({i \in DOMAIN starts : starts[i] <= off} \cup {1}) - 1
RowsBelow(w, t, ns, cols, off) ==
    IF off >= Len(t) THEN 0
    ELSE IF w.cols = cols /\ w.scanned <= Len(t)
    THEN Max({1, w.rows + 1 - RowOf(Starts(t, ns, cols), off)})
    ELSE Len(StartsFrom(t, ns, cols, off))

--------------------------------------------------------------------------------
NoRow == [hash |-> <<>>, is |-> [text |-> <<>>, prefix |-> "", style |-> <<>>], off |-> NoOffset]
NoPager == [active |-> FALSE, top |-> 0, cols |-> 0, line |-> 0]

ScreenInit ==
    /\ text \in Opening /\ spans = <<>> /\ nests = <<>> /\ wrap = NoWrap
    /\ size \in Sizes /\ place = [scroll |-> 0, cols |-> size.cols]
    /\ over = [notice |-> FALSE, picking |-> FALSE, keep |-> NoOffset]
    /\ pager = NoPager /\ shown = [r \in 1 .. size.rows |-> NoRow]
    /\ frame = [valid |-> FALSE, size |-> size, first |-> 0, last |-> 0, bar |-> 0, top |-> 0, head |-> <<>>, mark |-> 0]
    /\ fresh = FALSE /\ sops = 0

ScreenOp == sops < ScreenOps /\ sops' = sops + 1 /\ fresh' = FALSE
\* What an operation on the text leaves alone.
StillThere == UNCHANGED <<size, pager, shown>>

--------------------------------------------------------------------------------
(* Text arrives. *)

\* spans_shift and nests_shift: the oldest `d` bytes are gone.
Shifted(rs, d) ==
    LET left == SelectSeq(rs, LAMBDA r : r.b > d)
    IN  [i \in DOMAIN left |-> [a |-> Max({left[i].a, d}) - d, b |-> IF left[i].b = NoOffset THEN NoOffset ELSE left[i].b - d]]
\* transcript_put, before the text is put: how much of the old text has to go.
Half == Min({Len(text), ScreenCap \div 2})
Gone1(s) == IF Len(text) + Len(s) < ScreenCap THEN 0 ELSE Len(text) - Min({Half, ScreenCap - 1 - Len(s)})
\* span_add: a style that goes on makes no second span.
SpanAdded(ss, a, b) ==
    IF ss # <<>> /\ Last(ss).b = a THEN [ss EXCEPT ![Len(ss)].b = b] ELSE Append(ss, [a |-> a, b |-> b])

\* transcript_put: a reader who scrolled up stays where she is. The bug form looks at the bottom.
Follow_Bottom(scroll, before, after) == scroll
Follow(scroll, before, after) == IF scroll > 0 /\ after > before THEN scroll + after - before ELSE scroll

Write(s, styled) ==
    LET d == Gone1(s)
        old == SubSeq(text, d + 1, Len(text))
        ns == Shifted(nests, d)
        w0 == IF d > 0 THEN NoWrap ELSE wrap
        before == WrapScan(w0, old, ns, size.cols)
        after == WrapScan(before, old \o s, ns, size.cols)
    IN  /\ ScreenOp /\ text' = old \o s /\ nests' = ns
        /\ spans' = IF styled THEN SpanAdded(Shifted(spans, d), Len(old), Len(old) + Len(s)) ELSE Shifted(spans, d)
        /\ over' = [over EXCEPT !.notice = FALSE,
                                !.keep = IF @ = NoOffset THEN @ ELSE Max({@, d}) - d]
        /\ wrap' = IF place.scroll > 0 THEN after ELSE w0
        /\ place' = [place EXCEPT !.scroll = Follow(@, before.rows, after.rows)]
        /\ frame' = [frame EXCEPT !.mark = Max({@, d}) - d]   \* of the model
        /\ StillThere

\* tui_tool_nest_begin and tui_tool_nest_end.
NestOpen == nests # <<>> /\ Last(nests).b = NoOffset
RowsNestBegin ==
    /\ ScreenOp /\ ~NestOpen
    /\ nests' = IF nests # <<>> /\ Last(nests).b = Len(text) THEN [nests EXCEPT ![Len(nests)].b = NoOffset]
                ELSE Append(nests, [a |-> Len(text), b |-> NoOffset])
    /\ UNCHANGED <<text, spans, wrap, place, over, frame>> /\ StillThere
RowsNestEnd ==
    /\ ScreenOp /\ NestOpen /\ nests' = [nests EXCEPT ![Len(nests)].b = Len(text)]
    /\ UNCHANGED <<text, spans, wrap, place, over, frame>> /\ StillThere

\* tui_clear_transcript, without the frame.
RowsClear ==
    /\ ScreenOp /\ text' = <<>> /\ spans' = <<>> /\ nests' = <<>> /\ wrap' = NoWrap
    /\ place' = [place EXCEPT !.scroll = 0] /\ over' = [over EXCEPT !.notice = FALSE, !.keep = NoOffset]
    /\ frame' = [frame EXCEPT !.valid = FALSE] /\ StillThere

--------------------------------------------------------------------------------
(* The reader. *)

\* scroll_key: a page or a few rows, to the top, to the bottom; a frame clamps it.
Scroll(to) ==
    /\ ScreenOp /\ ~pager.active /\ place' = [place EXCEPT !.scroll = to]
    /\ UNCHANGED <<text, spans, nests, wrap, over, frame>> /\ StillThere
Scrolls == \E to \in {place.scroll + 1, Max({place.scroll, 1}) - 1, NoOffset, 0} \ {place.scroll} : Scroll(to)

Resize ==
    /\ ScreenOp /\ \E s \in Sizes \ {size} : size' = s /\ shown' = [r \in 1 .. s.rows |-> NoRow]
    /\ UNCHANGED <<text, spans, nests, wrap, place, over, pager, frame>>

\* tui_notice, and the options of a question: tui_keep_visible is told where the question begins.
Notice ==
    /\ ScreenOp /\ ~over.notice /\ over' = [over EXCEPT !.notice = TRUE]
    /\ UNCHANGED <<text, spans, nests, wrap, place, frame>> /\ StillThere
PickOpen ==
    /\ ScreenOp /\ ~over.picking /\ ~pager.active
    /\ \E k \in {0, Len(text) \div 2, NoOffset} : over' = [over EXCEPT !.picking = TRUE, !.keep = k]
    /\ UNCHANGED <<text, spans, nests, wrap, place, frame>> /\ StillThere
PickClose ==
    /\ ScreenOp /\ over.picking /\ over' = [over EXCEPT !.picking = FALSE, !.keep = NoOffset]
    /\ UNCHANGED <<text, spans, nests, wrap, place, frame>> /\ StillThere

--------------------------------------------------------------------------------
(* The pager. *)

PagerIndex == [cols \in {s.cols : s \in Sizes} |-> Starts(PagerText, <<>>, cols)]
PagerStarts(cols) == PagerIndex[cols]
LinesBefore(off) == Cardinality({i \in 0 .. off - 1 : Ch(PagerText, i) = "nl"})
\* view_line_row: the row on which a line begins.
PagerRowOf(line, cols) ==
    Min({i \in DOMAIN PagerStarts(cols) : LinesBefore(PagerStarts(cols)[i]) >= line} \cup {Len(PagerStarts(cols))}) - 1

\* tui_view_open and view_close.
PagerOpen ==
    /\ ScreenOp /\ ~pager.active /\ ~over.picking
    /\ \E l \in {0, LinesBefore(Len(PagerText))} : pager' = [NoPager EXCEPT !.active = TRUE, !.line = l]
    /\ UNCHANGED <<text, spans, nests, wrap, place, size, over, shown, frame>>
PagerClose ==
    /\ ScreenOp /\ pager.active /\ pager' = NoPager /\ frame' = [frame EXCEPT !.valid = FALSE]
    /\ UNCHANGED <<text, spans, nests, wrap, place, size, over, shown>>

\* view_layout: what the pager takes of the transcript's rows. Another width begins at the line
\* it was opened at.
PagerFits(rows) == pager.active /\ rows >= 3
PagerLaid(p, rows, cols) ==
    LET total == Len(PagerStarts(cols))
        body == Min({total + 2, rows}) - 2
        q == IF p.cols = cols THEN p ELSE [p EXCEPT !.cols = cols, !.top = PagerRowOf(p.line, cols)]
    IN  [q EXCEPT !.top = Min({@, Max({total, body}) - body})]
PagerHeight(rows, cols) == Min({Len(PagerStarts(cols)) + 2, rows})

\* view_move and view_end, by the rows of the last frame.
PagerVisible == Max({1, PagerHeight(frame.bar, frame.size.cols) - 2})
PagerLast == Max({Len(PagerStarts(pager.cols)), PagerVisible}) - PagerVisible
PagerMove ==
    /\ ScreenOp /\ PagerFits(frame.bar) /\ pager.cols # 0
    /\ \E to \in {Max({pager.top, 1}) - 1, Min({pager.top + 1, PagerLast}), PagerLast, 0} \ {pager.top} :
          pager' = [pager EXCEPT !.top = to]
    /\ UNCHANGED <<text, spans, nests, wrap, place, size, over, shown, frame>>

--------------------------------------------------------------------------------
(* A frame. *)

\* scroll_rewrap: at another width, the first row shown stays the first.
Rewrapped ==
    IF place.cols = size.cols THEN place.scroll
    ELSE LET below == RowsBelow(wrap, text, nests, size.cols, frame.first)
             view == Max({1, frame.bar})
         IN  IF place.scroll = 0 \/ below = 0 THEN place.scroll ELSE Max({below, view}) - view

\* repaint: the rows of the options give way to a question that is to be seen, down to a few.
OverCap == Max({size.rows, 1}) - 1
PickAsked == Min({IF over.picking THEN PickRows ELSE 0, OverCap})
NoticeRows == IF over.notice THEN Min({1, OverCap - PickAsked}) ELSE 0
Kept == over.keep # NoOffset
\* popup_rows_beside.
PickBeside(need) ==
    LET room == size.rows - NoticeRows
        free == Max({room, PickAsked}) - PickAsked
        floor == Min({PickAsked, PickMin})
    IN  IF need <= free THEN PickAsked ELSE PickAsked - Min({need - free, PickAsked - floor})
PickShown(w) == IF over.picking /\ Kept THEN PickBeside(RowsBelow(w, text, nests, size.cols, over.keep)) ELSE PickAsked
TextRows(w) == size.rows - NoticeRows - PickShown(w)
\* The rows that scrolling is counted by: a picker covers rows, but never those of the question.
ViewRows(w) ==
    LET lift == IF over.picking \/ pager.active THEN 0 ELSE NoticeRows
        all == size.rows - lift
        need == Max({RowsBelow(w, text, nests, size.cols, over.keep), TextRows(w)})
    IN  IF Kept THEN Min({need, all}) ELSE all

\* row_hash and hash_spans: what two rows have in common when one is left standing for the other.
\* A span is known by where it lies in the transcript, the row is not. The bug form forgets styles.
SpansAt(off, n) == SelectSeq(spans, LAMBDA s : s.b > off /\ s.a < off + n)
RowHash_NoSpans(t, prefix, off) == <<t, prefix, <<>>>>
RowHash(t, prefix, off) == <<t, prefix, SpansAt(off, Len(t))>>
Prefix(off) == IF Nested(nests, off) THEN "rule" ELSE ""
StyleAt(off) == \E i \in DOMAIN spans : spans[i].a <= off /\ off < spans[i].b

\* update_text_row: what is painted for the row that starts at `off`.
TextRow(off) ==
    LET t == SubSeq(text, off + 1, RowFrom(text, nests, size.cols, off).end)
    IN  [hash |-> RowHash(t, Prefix(off), off), off |-> off,
         is |-> [text |-> t, prefix |-> Prefix(off), style |-> [i \in DOMAIN t |-> StyleAt(off + i - 1)]]]
Row1(t, of, what) == [hash |-> <<t, of, what>>, off |-> NoOffset, is |-> [text |-> t, prefix |-> of, style |-> <<>>]]
BlankRow == Row1(<<>>, "", <<>>)

\* paint_view: a rule with the lines shown, the rows of the text, a rule.
PagerOff(k, cols) == PagerStarts(cols)[k + 1]
PagerLine(p, r) ==
    IF p.top + r > Len(PagerStarts(p.cols)) THEN <<>>
    ELSE LET off == PagerOff(p.top + r - 1, p.cols)
         IN  SubSeq(PagerText, off + 1, RowBreak(PagerText, off, p.cols).end)
PagerLastRow(p, rows) == Min({p.top + PagerHeight(rows, p.cols) - 2, Len(PagerStarts(p.cols))})
PagerHead(p, rows) ==
    <<LinesBefore(PagerOff(p.top, p.cols)) + 1, LinesBefore(PagerOff(PagerLastRow(p, rows) - 1, p.cols)) + 1>>
PagerRow(p, rows, r) ==
    LET above == rows - PagerHeight(rows, p.cols)
    IN  IF r = above + 1 THEN Row1(<<>>, "head", PagerHead(p, rows))
        ELSE IF r = rows THEN Row1(<<>>, "foot", <<>>)
        ELSE Row1(PagerLine(p, r - above - 1), "pager", <<p.top>>)

\* row_changed: a row is painted when the frame is, or when its hash is another.
Repainted(force, r, want) == IF force \/ shown[r].hash # want.hash THEN want ELSE shown[r]

\* What a row is to show: of the pager, of the transcript (`vis`: where its rows start), of the rest.
Want(r, rows, vis, p) ==
    IF PagerFits(rows) /\ r <= rows /\ r > rows - PagerHeight(rows, p.cols) THEN PagerRow(p, rows, r)
    ELSE IF r <= Len(vis) THEN TextRow(vis[r])
    ELSE IF r <= rows THEN BlankRow
    ELSE IF r <= rows + NoticeRows THEN Row1(<<>>, "notice", <<>>)
    ELSE Row1(<<>>, "option", <<r - rows - NoticeRows>>)

Paint ==
    /\ ~fresh /\ fresh' = TRUE
    /\ \E w \in {WrapScan(wrap, text, nests, size.cols)} :
       \E rows \in {TextRows(w)}, view \in {ViewRows(w)} :
       \E scroll \in {Min({Rewrapped, Max({w.rows + 1, view}) - view})} :
       \E first \in {Max({w.rows + 1, view + scroll}) - (view + scroll)} :
       \E at \in {WrapSeek(w, text, nests, first)} :
       \E vis \in {FirstRows(text, nests, size.cols, at, rows)} :
       \E p \in {IF PagerFits(rows) THEN PagerLaid(pager, rows, size.cols) ELSE pager} :
          /\ wrap' = w /\ place' = [scroll |-> scroll, cols |-> size.cols] /\ pager' = p
          /\ shown' = [r \in 1 .. size.rows |-> Repainted(~frame.valid \/ frame.size # size, r, Want(r, rows, vis, p))]
          /\ frame' = [valid |-> TRUE, size |-> size, first |-> at,
                       last |-> RowFrom(text, nests, size.cols, Last(vis)).next,
                       bar |-> rows, top |-> first, head |-> vis, mark |-> at]
    /\ UNCHANGED <<text, spans, nests, size, over, sops>>

ScreenNext ==
    \/ \E s \in Pieces, styled \in BOOLEAN : Write(s, styled)
    \/ RowsNestBegin \/ RowsNestEnd \/ RowsClear \/ Scrolls \/ Resize \/ Notice \/ PickOpen \/ PickClose
    \/ PagerOpen \/ PagerClose \/ PagerMove \/ Paint

ScreenSpec == ScreenInit /\ [][ScreenNext]_screenVars
--------------------------------------------------------------------------------
\* Every variable has its type.
ScreenTypeOK ==
    /\ Len(text) < ScreenCap /\ \A i \in DOMAIN spans : spans[i].a < spans[i].b /\ spans[i].b <= Len(text)
    /\ wrap.scanned <= Len(text) /\ Len(wrap.ck) <= CkptCap /\ DOMAIN shown = 1 .. size.rows
    /\ size \in Sizes /\ sops \in 0 .. ScreenOps /\ fresh \in BOOLEAN

\* The index of rows, continued as text arrives and thinned as it grows, is that of a transcript
\* wrapped anew at its width, however tools nested, text was dropped and the terminal was resized.
WrapTrue ==
    wrap.cols # 0 =>
        LET starts == Starts(text, nests, wrap.cols)
        IN  /\ wrap.rows < Len(starts) /\ wrap.scanned = starts[wrap.rows + 1]
            /\ Len(wrap.ck) = wrap.rows \div wrap.step + 1
            /\ \A k \in DOMAIN wrap.ck : wrap.ck[k] = starts[(k - 1) * wrap.step + 1]

Uncovered == {r \in DOMAIN frame.head : PagerFits(frame.bar) => r <= frame.bar - PagerHeight(frame.bar, size.cols)}
\* A row that stands for another of the same words and the same spans, one of which ends in one of them.
EdgeIn(off, n) == \E i \in DOMAIN spans : \E e \in {spans[i].a, spans[i].b} : off < e /\ e < off + n
StandsIn(r, want) == /\ shown[r].off # want.off /\ shown[r].hash = want.hash
                     /\ EdgeIn(want.off, Len(want.is.text)) \/ EdgeIn(shown[r].off, Len(want.is.text))

\* After a frame the rows of the transcript are those of a transcript wrapped anew, from the first
\* row on, with their words, their rule and their styles, though most of them were left standing;
\* except for the styles of a row taken for another one.
RowsTrue1 ==
    fresh => LET starts == Starts(text, nests, size.cols)
             IN  \A r \in Uncovered :
                    LET want == TextRow(starts[frame.top + r])
                    IN  /\ shown[r].is.text = want.is.text /\ shown[r].is.prefix = want.is.prefix
                        /\ shown[r].is.style = want.is.style \/ StandsIn(r, want)

\* The question a picker asks is seen whole above its options, as long as a few options leave room.
QuestionShown ==
    LET starts == Starts(text, nests, size.cols)
        asked == RowOf(starts, over.keep)
    IN  fresh /\ over.picking /\ Kept /\ over.keep < Len(text) /\ place.scroll = 0
            /\ Len(starts) - asked <= size.rows - NoticeRows - Min({PickAsked, PickMin})
        => frame.top <= asked /\ frame.top + frame.bar >= Len(starts)

\* sel_extract: the words of two rows that follow each other, joined as the first was broken.
Trimmed(t) == SubSeq(t, 1, Max({i \in DOMAIN t : t[i] # " "} \cup {0}))
Join(off) == LET r == RowFrom(text, nests, size.cols, off)
             IN  IF r.hard THEN <<"nl">> ELSE IF r.next > r.end THEN <<" ">> ELSE <<>>
Extract(a, b) == Trimmed(shown[a].is.text) \o Join(frame.head[a]) \o Trimmed(shown[b].is.text)
\* Words and line ends, whatever blanks are between them.
Letter1(c) == c # " " /\ c # "nl"
Parts1(t, i) == /\ t[i] = " " /\ i < Len(t) /\ Letter1(t[i + 1])
                /\ \E k \in 1 .. i : Letter1(t[k]) /\ \A m \in k + 1 .. i : t[m] = " "
Words(t) == FoldLeftDomain(LAMBDA acc, i : IF t[i] # " " \/ Parts1(t, i) THEN Append(acc, t[i]) ELSE acc, <<>>, t)
\* A word as wide as the line without one cell: the blank behind it stays in its row.
BlankLeft(off) == LET r == RowFrom(text, nests, size.cols, off)
                  IN  ~r.hard /\ r.next = r.end /\ Ch(text, r.end - 1) = " "

\* Text selected on the screen and copied, row after row, has the words and the line ends of the transcript: rows
\* the screen broke join again; except at a blank that was left in its row.
CopyTrue ==
    fresh => \A a \in Uncovered : \A b \in {a + 1} \cap Uncovered :
        ~BlankLeft(frame.head[a]) /\ ~BlankLeft(frame.head[b]) =>
            Words(Extract(a, b)) =
            Words(SubSeq(text, frame.head[a] + 1, RowFrom(text, nests, size.cols, frame.head[b]).end))

\* What is on the screen is what the transcript says.
ScreenTrue == WrapTrue /\ RowsTrue1 /\ QuestionShown /\ CopyTrue

FirstRow(t, ns, scroll) == LET starts == Starts(t, ns, size.cols)
                               below == Min({scroll + frame.bar, Len(starts)})
                           IN  starts[Len(starts) - below + 1]
Arrives == text # text' /\ IsPrefix(text, text')
\* A reader who scrolled up sees the same first row while text arrives, and after a change of width
\* the row with the text that was the first, or one next to it.
ReaderStays ==
    [][/\ Arrives /\ place.scroll > 0 /\ place.cols = size.cols =>
             FirstRow(text', nests', place'.scroll) = FirstRow(text, nests, place.scroll)
       /\ fresh' /\ place.cols # size.cols /\ place.scroll \in 1 .. NoOffset - 1 /\ frame.mark = frame.first
             /\ frame.bar = frame'.bar /\ frame'.bar = size.rows /\ place'.scroll > 0 =>
             frame'.top - RowOf(Starts(text, nests, size.cols), frame.first) \in -1 .. 1]_screenVars
===============================================================================

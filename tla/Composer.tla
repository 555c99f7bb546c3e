------------------------------ MODULE Composer ------------------------------
(* The composer of the terminal interface (tui.c) and the history of what was
   typed (history.c): editing, killing and yanking, recall of earlier lines, the
   popup of commands, the search box, questions, the text view, and the queue
   of one message.

   The same editor runs at the prompt (tui_readline) and wherever output is
   written (tui_poll_input): during a turn, but also while a command prints, or
   while the view is drawn again between two turns. *)
EXTENDS Integers, Sequences, SequencesExt, FiniteSetsExt

CONSTANTS
    Chars,      \* what is typed: "a", " ", "/", "nl"
    Commands,   \* the commands the popup offers, sequences that begin with "/"
    LineCap,    \* AGENT_LINE_BUF
    HistCap,    \* AGENT_MAX_HISTORY
    MaxKeys     \* bound: keys

VARIABLES
    tui,    \* the composer, the queue, and the history with its file
    mode,     \* "prompt", "command", "turn", or "between" two turns
    told,   \* of the model: what was sent, what the turns got, and the user's own text
    keys

composerVars == <<tui, mode, told, keys>>

--------------------------------------------------------------------------------
ComposerInit ==
    /\ tui = [text |-> <<>>, cur |-> 0, kill |-> <<>>, draft |-> <<>>, nav |-> FALSE, dismissed |-> FALSE,
              comp |-> FALSE, armed |-> FALSE, notice |-> FALSE, find |-> FALSE, view |-> FALSE, ask |-> <<>>,
              busy |-> FALSE, queued |-> <<>>, taken |-> <<>>, hist |-> <<>>, h |-> 0, file |-> <<>>]
    /\ mode = "prompt" /\ keys = 0
    /\ told = [sent |-> <<>>, got |-> <<>>, own |-> <<>>, kind |-> "own", early |-> FALSE, mixed |-> FALSE]

\* prev_word, next_word, line_start, ctrl_a_start, line_end: offsets of the cursor.
Blanks == {" "}
PrevWord(t, c) ==
    LET w == Max({0} \cup {k \in 1..c : t[k] \notin Blanks})
    IN  Max({0} \cup {k \in 1..w : t[k] \in Blanks})
NextWord(t, c) ==
    LET w == Min({Len(t)} \cup {k \in c..(Len(t) - 1) : t[k + 1] \notin Blanks})
    IN  Min({Len(t)} \cup {k \in w..(Len(t) - 1) : t[k + 1] \in Blanks})
LineStart(t, c) == Max({0} \cup {k \in 1..c : t[k] = "nl"})
LineStop(t, c)  == Min({Len(t)} \cup {k \in c..(Len(t) - 1) : t[k + 1] = "nl"})
CtrlA(t, c)     == IF c # LineStart(t, c) \/ c = 0 THEN LineStart(t, c) ELSE LineStart(t, c - 1)

\* edit_insert, ed_newline, paste_byte; edit_delete, edit_backspace; kill_range; edit_yank.
Typed(s, c)  == IF Len(s.text) + 1 >= LineCap THEN s
                ELSE [s EXCEPT !.text = InsertAt(@, s.cur + 1, c), !.cur = @ + 1]
LineCut(s, a, b) == [s EXCEPT !.text = SubSeq(@, 1, a) \o SubSeq(@, b + 1, Len(@)), !.cur = a]
KilledText(s, a, b) == IF a >= b THEN s ELSE [LineCut(s, a, b) EXCEPT !.kill = SubSeq(s.text, a + 1, b)]
\* A bug: the byte after the text is forgotten.
Yanked_NoEnd(s) == IF s.kill = <<>> \/ Len(s.text) + Len(s.kill) > LineCap THEN s
                   ELSE [s EXCEPT !.text = SubSeq(@, 1, s.cur) \o s.kill \o SubSeq(@, s.cur + 1, Len(@)),
                                  !.cur = @ + Len(s.kill)]
Yanked(s) == IF s.kill = <<>> \/ Len(s.text) + Len(s.kill) >= LineCap THEN s
             ELSE [s EXCEPT !.text = SubSeq(@, 1, s.cur) \o s.kill \o SubSeq(@, s.cur + 1, Len(@)),
                            !.cur = @ + Len(s.kill)]

\* EDIT_KEYS and EDIT_ESCAPE_KEYS, which the composer and a question share.
Edits(s) ==
    LET t == s.text
        c == s.cur
        n == Len(t)
        stop == LineStop(t, c)
    IN  {[s EXCEPT !.cur = k] : k \in {CtrlA(t, c), stop, LineStart(t, c), PrevWord(t, c), NextWord(t, c),
                                       Max({0, c - 1}), Min({n, c + 1})}}
        \cup {IF c = n THEN s ELSE LineCut(s, c, c + 1), IF c = 0 THEN s ELSE LineCut(s, c - 1, c),
              KilledText(s, c, IF stop = c /\ stop < n THEN stop + 1 ELSE stop), KilledText(s, LineStart(t, c), c),
              KilledText(s, PrevWord(t, c), c), KilledText(s, c, NextWord(t, c)), Yanked(s)}

--------------------------------------------------------------------------------
Trim(t) == LET ink == {k \in 1..Len(t) : t[k] \notin {" ", "nl"}}
           IN  IF ink = {} THEN <<>> ELSE SubSeq(t, Min(ink), Max(ink))

\* hist_push forgets the oldest; history_add.
HistPush(list, t) == IF list # <<>> /\ Last(list) = t THEN list
                     ELSE Append(IF Len(list) = HistCap THEN Tail(list) ELSE list, t)
HistoryAdd(s, line) ==
    LET t == Trim(line)
        dup == s.hist # <<>> /\ Last(s.hist) = t
        list == IF t = <<>> THEN s.hist ELSE HistPush(s.hist, t)
    IN  [s EXCEPT !.hist = list, !.h = Len(list), !.file = IF t = <<>> \/ dup THEN @ ELSE Append(@, t)]
Browsing(s) == s.h < Len(s.hist)

\* A bug: the place in the history is kept.
ComposerClear_KeepsPlace(s) ==
    [s EXCEPT !.text = <<>>, !.cur = 0, !.comp = FALSE, !.dismissed = FALSE, !.draft = <<>>,
              !.nav = FALSE, !.armed = FALSE, !.notice = FALSE]

ComposerClear(s) ==
    [s EXCEPT !.text = <<>>, !.cur = 0, !.comp = FALSE, !.dismissed = FALSE, !.draft = <<>>,
              !.nav = FALSE, !.armed = FALSE, !.notice = FALSE, !.h = Len(s.hist)]

LineLoaded(s, t) == [s EXCEPT !.text = SubSeq(t, 1, Min({Len(t), LineCap - 1})), !.cur = Min({Len(t), LineCap - 1})]

\* completion_refresh over the commands.
Offered(s) == {c \in Commands : s.text # <<>> /\ IsPrefix(s.text, c)}
PopupRefreshed(s) == [s EXCEPT !.comp = ~s.dismissed /\ Offered(s) # {}]

\* tui_set_input.
SetInput(s, t) == PopupRefreshed([LineLoaded(s, t) EXCEPT !.dismissed = FALSE, !.nav = FALSE])

\* completion_take of one of them.
Completed(s, c) == [LineLoaded(s, c) EXCEPT !.comp = FALSE, !.dismissed = TRUE]
TakesCommand(s) == IF s.comp THEN {Completed(s, c) : c \in Offered(s)} ELSE {s}

\* history_recall.
Recalled(s, dir) ==
    IF dir < 0 THEN [LineLoaded(s, s.hist[s.h]) EXCEPT !.h = @ - 1, !.draft = IF Browsing(s) THEN @ ELSE s.text]
    ELSE IF s.h + 1 < Len(s.hist) THEN [LineLoaded(s, s.hist[s.h + 2]) EXCEPT !.h = s.h + 1]
    ELSE [LineLoaded(s, s.draft) EXCEPT !.h = Len(s.hist)]
Recalls(s, dir) == IF dir < 0 THEN s.h > 0 ELSE Browsing(s)

\* composer_move_row: to some column of the row above or below.
RowAt(t, c) == Cardinality({k \in 1..c : t[k] = "nl"})
RowMoves(s, dir) == {c \in 0..Len(s.text) : RowAt(s.text, c) = RowAt(s.text, s.cur) + dir}

--------------------------------------------------------------------------------
\* editor_key: what every key of the composer does before and after its own work.
KeyStarts(s) == [s EXCEPT !.armed = FALSE, !.notice = IF s.armed THEN FALSE ELSE @]
KeyDone(s0, s, recalled, keep) ==
    PopupRefreshed([s EXCEPT !.nav = keep /\ @,
                        !.dismissed = IF recalled THEN TRUE ELSE IF Len(s.text) # Len(s0.text) THEN FALSE ELSE @])

Open(s) == ~s.find /\ ~s.view /\ s.ask = <<>>
Key     == keys < MaxKeys /\ keys' = keys + 1

\* The user's own text, as the key leaves it.
OwnNow(s)       == IF told.kind = "own" THEN [told EXCEPT !.own = s.text] ELSE told
Afresh     == [told EXCEPT !.own = <<>>, !.kind = "own"]
Leaves(s)       == tui' = s /\ told' = OwnNow(s) /\ UNCHANGED mode

\* Typing, also over a text view, which hands what it does not know to the composer; pasting;
\* the edit keys.
TypeKey == /\ tui.ask = <<>> /\ ~tui.find /\ Key
           /\ LET s == [KeyStarts(tui) EXCEPT !.view = FALSE]
              IN  \/ \E c \in Chars \ {"nl"} : Leaves(KeyDone(tui, Typed(s, c), FALSE, FALSE))
                  \/ ~tui.view /\ Leaves(KeyDone(tui, Typed(s, "nl"), FALSE, FALSE))
                  \/ ~tui.view /\ \E c \in Chars : Leaves(Typed(tui, c))
                  \/ ~tui.view /\ \E e \in Edits(s) : Leaves(KeyDone(tui, e, FALSE, FALSE))

\* ed_vertical and composer_vertical.
VerticalKey ==
    /\ Open(tui) /\ Key
    /\ \E dir \in {-1, 1} :
         LET s == KeyStarts(tui)
             rows == IF s.nav THEN {} ELSE RowMoves(s, dir)
             r == Recalled(s, dir)
         IN  IF s.comp THEN Leaves(s)
             ELSE IF rows # {} THEN \E c \in rows : Leaves(KeyDone(tui, [s EXCEPT !.cur = c], FALSE, TRUE))
             ELSE IF Recalls(s, dir)
             THEN /\ tui' = KeyDone(tui, [r EXCEPT !.nav = Browsing(r)], TRUE, TRUE)
                  /\ told' = [told EXCEPT !.kind = IF ~Browsing(r) THEN "own" ELSE IF @ = "own" THEN "recalled" ELSE @,
                                          !.own = IF Browsing(r) THEN @ ELSE r.text]
                  /\ UNCHANGED mode
             ELSE Leaves(KeyDone(tui, [s EXCEPT !.nav = FALSE], FALSE, TRUE))

TabKey == Open(tui) /\ tui.comp /\ Key /\ \E s \in TakesCommand(KeyStarts(tui)) : Leaves(s)

\* composer_interrupt, also from the search box.
InterruptKey ==
    /\ ~tui.view /\ tui.ask = <<>> /\ Key
    /\ IF tui.busy THEN Leaves(IF tui.find THEN tui ELSE KeyStarts(tui))
       ELSE tui' = ComposerClear(tui) /\ told' = Afresh /\ UNCHANGED mode

\* A message that was cancelled counts as not sent.
Unsent(sent, t) == LET K == {k \in 1..Len(sent) : sent[k] = t}
                   IN  IF K = {} THEN sent ELSE RemoveAt(sent, Max(K))

\* ed_escape. Escape twice at the prompt rewinds.
EscapeKey ==
    /\ Open(tui) /\ Key
    /\ LET s == KeyStarts(tui)
           done(x) == KeyDone(tui, x, FALSE, FALSE)
       IN  CASE s.comp      -> Leaves(done([s EXCEPT !.dismissed = TRUE]))
             [] ~s.comp /\ tui.armed -> /\ tui' = done(s) /\ UNCHANGED told
                                        /\ mode' = IF mode = "prompt" THEN "command" ELSE mode
             [] ~s.comp /\ ~tui.armed /\ s.busy /\ s.queued # <<>> ->
                   /\ tui' = done([s EXCEPT !.queued = <<>>, !.notice = TRUE])
                   /\ told' = [told EXCEPT !.sent = Unsent(@, s.queued)] /\ UNCHANGED mode
             [] OTHER -> Leaves(done([s EXCEPT !.notice = ~@ /\ ~s.busy, !.armed = ~s.notice /\ ~s.busy]))

\* The search box: its keys do not touch the composer. The text view closes on its own keys.
FindOpens == Open(tui) /\ Key /\ Leaves([KeyStarts(tui) EXCEPT !.find = TRUE, !.comp = FALSE, !.dismissed = TRUE])
FindCloses == tui.find /\ Key /\ Leaves([tui EXCEPT !.find = FALSE])
ViewOpens  == Open(tui) /\ mode = "turn" /\ Key /\ Leaves([tui EXCEPT !.view = TRUE])
ViewCloses == tui.view /\ Key /\ Leaves([tui EXCEPT !.view = FALSE])

--------------------------------------------------------------------------------
\* ask_impl lends the composer to a question and gives it back.
AskOpens ==
    /\ mode \in {"command", "turn"} /\ tui.ask = <<>> /\ Key
    /\ tui' = [tui EXCEPT !.ask = <<[text |-> tui.text, cur |-> tui.cur, comp |-> tui.comp, notice |-> tui.notice]>>,
                          !.text = <<>>, !.cur = 0, !.comp = FALSE, !.find = FALSE, !.view = FALSE, !.notice = TRUE]
    /\ UNCHANGED <<mode, told>>
AskKey == /\ tui.ask # <<>> /\ Key
          /\ tui' \in Edits(tui) \cup {Typed(tui, c) : c \in Chars \ {"nl"}} /\ UNCHANGED <<mode, told>>
AskEnds ==
    /\ tui.ask # <<>> /\ Key
    /\ LET saved == tui.ask[1]
       IN  tui' = [tui EXCEPT !.ask = <<>>, !.text = saved.text, !.cur = saved.cur, !.comp = saved.comp,
                              !.notice = saved.notice]
    /\ UNCHANGED <<mode, told>>

--------------------------------------------------------------------------------
IsCommand(t) == t[1] = "/"
Gets(m, t)   == [m EXCEPT !.got = Append(@, t)]
Sends(m, t)  == [m EXCEPT !.sent = Append(@, t), !.own = <<>>, !.kind = "own"]

\* Enter at the prompt: a command, or a message and its turn (tui_readline, main).
PromptEnter ==
    /\ Open(tui) /\ mode = "prompt" /\ Key
    /\ \E s \in TakesCommand(KeyStarts(tui)) :
         LET line == s.text
         IN  /\ tui' = [ComposerClear(HistoryAdd(s, line)) EXCEPT !.busy = line # <<>> /\ ~IsCommand(line)]
             /\ CASE line = <<>>     -> told' = Afresh /\ UNCHANGED mode
                  [] line # <<>> /\ IsCommand(line) -> told' = Afresh /\ mode' = "command"
                  [] OTHER -> told' = Gets(Sends(told, line), line) /\ mode' = "turn"

\* What queueing a message writes: its bytes go where a message that was taken and is not copied
\* yet still is (tui_queued_take hands out the buffer).
Overlaid(taken, line) == [k \in 1..Len(taken) |-> IF k <= Len(line) THEN line[k] ELSE taken[k]]

\* A bug: a second message takes the place of the first.
CanQueue_Always(s) == s.busy \/ s.queued = <<>>

CanQueue(s) == s.queued = <<>>

\* Enter while something else runs: busy_submit, whether a turn is busy or not.
BusyEnter ==
    /\ Open(tui) /\ mode # "prompt" /\ Key
    /\ \E s \in TakesCommand(KeyStarts(tui)) :
         LET line == s.text
         IN  IF line = <<>> THEN Leaves(s)
             ELSE IF ~IsCommand(line)
             THEN IF ~CanQueue(s) THEN Leaves([s EXCEPT !.notice = TRUE])
                  ELSE /\ tui' = [ComposerClear(HistoryAdd([s EXCEPT !.queued = line,
                                                                     !.taken = Overlaid(@, line)], line))
                                  EXCEPT !.notice = TRUE]
                       /\ told' = [Sends(told, line) EXCEPT !.early = @ \/ mode = "command",
                                                            !.mixed = @ \/ mode = "between"]
                       /\ UNCHANGED mode
             ELSE \/ /\ tui' = HistoryAdd(ComposerClear(s), line) /\ told' = Afresh /\ UNCHANGED mode
                  \/ /\ tui' = SetInput(ComposerClear(s), line) /\ UNCHANGED mode
                     /\ told' = [told EXCEPT !.own = line, !.kind = "own"]

\* A command ends; /rewind and a few others leave a text in the composer. One that is left there
\* while earlier lines are recalled is not kept by the next recall (history_recall looks only at
\* the place in the history).
CommandEnds ==
    /\ mode = "command" /\ tui.ask = <<>> /\ mode' = "prompt" /\ UNCHANGED keys
    /\ \/ UNCHANGED <<tui, told>>
       \/ \E k \in 1..Len(told.got) : /\ tui' = SetInput(tui, told.got[k])
                                      /\ told' = IF Browsing(tui) THEN [told EXCEPT !.kind = "loaded"]
                                                ELSE [told EXCEPT !.kind = "own", !.own = tui'.text]

\* agent_turn_interactive: a queued message is the next turn, after the view went back to the
\* conversation, if it has to.
TurnEnds ==
    /\ mode = "turn" /\ tui.ask = <<>> /\ UNCHANGED keys
    /\ IF tui.queued = <<>>
       THEN tui' = [tui EXCEPT !.busy = FALSE] /\ mode' = "prompt" /\ UNCHANGED told
       ELSE /\ tui' = [tui EXCEPT !.busy = FALSE, !.taken = tui.queued, !.queued = <<>>, !.notice = FALSE]
            /\ mode' = "between" /\ UNCHANGED told
NextTurn ==
    /\ mode = "between" /\ mode' = "turn" /\ UNCHANGED keys
    /\ tui' = [tui EXCEPT !.busy = TRUE, !.taken = <<>>]
    /\ told' = Gets(told, tui.taken)

\* The program is started again: history_load, and history_rewrite of a list that is full.
Restarts ==
    /\ mode = "prompt" /\ Open(tui) /\ Key
    /\ LET list == FoldLeft(HistPush, <<>>, tui.file)
       IN  tui' = [ComposerClear([tui EXCEPT !.hist = list]) EXCEPT
                     !.kill = <<>>, !.queued = <<>>, !.file = IF Len(list) = HistCap THEN list ELSE @]
    /\ told' = [Afresh EXCEPT !.sent = Unsent(@, tui.queued)] /\ UNCHANGED mode

ComposerNext == \/ TypeKey \/ VerticalKey \/ TabKey \/ InterruptKey \/ EscapeKey \/ FindOpens \/ FindCloses
                \/ ViewOpens \/ ViewCloses \/ AskOpens \/ AskKey \/ AskEnds \/ PromptEnter \/ BusyEnter
                \/ CommandEnds \/ TurnEnds \/ NextTurn \/ Restarts

ComposerSpec == ComposerInit /\ [][ComposerNext]_composerVars

--------------------------------------------------------------------------------
ComposerTypeOK == /\ tui.cur \in 0..Len(tui.text) /\ Len(tui.text) < LineCap /\ Len(tui.hist) <= HistCap
                  /\ tui.h \in 0..Len(tui.hist) /\ (tui.nav => Browsing(tui))

\* Every message that was sent and not cancelled reaches one turn, as it was typed, or waits in the
\* queue, and in the order of Enter. Two windows are left aside: a message sent while a command still
\* prints waits for the turn of a later one, and one sent while the view is drawn between two turns
\* is written over the message that was just taken (busy_submit, agent_turn_interactive).
Times(s, t) == Cardinality({k \in 1..Len(s) : s[k] = t})
MessagesAsTyped ==
    ~told.mixed =>
      LET all == told.got \o (IF mode = "between" THEN <<tui.taken>> ELSE <<>>)
                          \o (IF tui.queued = <<>> THEN <<>> ELSE <<tui.queued>>)
      IN  /\ \A k \in 1..Len(told.sent) : Times(all, told.sent[k]) = Times(told.sent, told.sent[k])
          /\ Len(all) = Len(told.sent) /\ (~told.early => all = told.sent)

\* What the user typed is in the composer, or comes back: a question, the search box and the view
\* leave it as it was, and a recall of earlier lines keeps it as the draft until it is left again
\* (history_recall, composer_clear, ask_impl).
OwnTextKept ==
    /\ told.kind = "own" => (IF tui.ask = <<>> THEN tui.text ELSE tui.ask[1].text) = told.own /\ ~Browsing(tui)
    /\ told.kind = "recalled" => tui.draft = told.own

\* What is typed is neither lost nor sent twice (busy_submit, tui_queued_take, history_recall).
TypedTrue == MessagesAsTyped /\ OwnTextKept
=============================================================================

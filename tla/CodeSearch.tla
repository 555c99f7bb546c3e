----------------------------- MODULE CodeSearch -----------------------------
(* The code_search tool asked for callers (codesearch.c): ast-grep streams its
   matches, a JSON object to a line, files in any order; a line too long to hold
   is followed string by string for what is needed of it. The tool then reads the
   files that name the function, and those ast-grep skipped, sorts what it has,
   gives each call the scope around it, and shows the result page by page.

   A file is a number, in the order of the names. A match has its first line, the
   bytes it spans, and a size: it fits, its own text is over, or only the text of
   its lines is. A string is a key or a value, and whether it is a long one; the
   escapes that tell where a string ends are left out. The other modes send other
   rules and share the reading, the sorting and the pages. *)
EXTENDS Naturals, FiniteSets, Sequences, SequencesExt

CONSTANTS
    Trees,          \* what may be searched: [kind, matches, words]
    MaxRecords,     \* CS_MAX_RECORDS
    PoolRoom,       \* CS_POOL_BYTES, in strings
    PageBytes,      \* what a page holds, in lines
    Limit           \* limits that are asked for

VARIABLES
    tree, stage,    \* scan, files, skipped, pages, failed
    left,           \* of the model: the matches, then the files, still to come
    run,            \* CsRun
    json,           \* of CsRun: what is known of a line too long to hold
    skips,          \* CsMentionScan, CsSkipped
    body, paged,    \* the lines of the result, and what each page showed
    next            \* the offset the last page names, 0 when it was the last

csVars == <<tree, stage, left, run, json, skips, body, paged, next>>

--------------------------------------------------------------------------------
\* ast-grep reads code, and files over CS_MENTION_FILE_MAX of few lines; it skips those of many
\* lines, what is no text and what is empty.
Parsed == {"code", "wide"}
Files(k) == {f \in DOMAIN tree.kind : tree.kind[f] \in k}
AstMatches == {m \in tree.matches : tree.kind[m.file] \in Parsed}
NoName == "none"

NewLine == [closed |-> 0, mid |-> <<<<>>, <<>>>>, idNext |-> FALSE, id |-> NoName]

CsInit ==
    /\ tree \in Trees /\ stage = "scan" /\ left = AstMatches
    /\ run = [rec |-> <<>>, dropped |-> 0, tooLarge |-> 0, pool |-> 0, full |-> FALSE, skipped |-> 0, whole |-> TRUE]
    /\ json = NewLine /\ skips = [read |-> {}, not |-> {}, unlisted |-> {}, notUtf8 |-> 0]
    /\ body = <<>> /\ paged = <<>> /\ next = 0

--------------------------------------------------------------------------------
\* cs_keep and cs_add.
Fits(r) == r.pool < PoolRoom
Keep(r) == IF Fits(r) THEN [r EXCEPT !.pool = @ + 1] ELSE [r EXCEPT !.full = TRUE]
Add(r, x) == IF Len(r.rec) = MaxRecords THEN [r EXCEPT !.dropped = @ + 1] ELSE [r EXCEPT !.rec = Append(@, x)]

\* cs_take_match: a record without its file is none; a call has no name, and a scope no text.
TakeMatch(r, m) ==
    LET k == Keep(r)
        rec == [kind |-> IF m.is \in {"in", "call"} THEN m.is ELSE "def", file |-> m.file, line |-> m.line,
                from |-> m.from, to |-> m.to, name |-> IF Fits(k) THEN m.name ELSE NoName, scope |-> NoName]
    IN  IF ~Fits(r) THEN k
        ELSE IF Len(r.rec) = MaxRecords \/ (m.is = "call" /\ m.size # "fits") THEN Add(k, rec)
        ELSE Keep(Add(k, rec))

\* What a match's line says, in ast-grep's order.
Str(v)       == [v |-> v, long |-> FALSE]
Src(long) == [v |-> "source", long |-> long]
Strings(m) ==
    <<Str("text"), Src(m.size = "over"), Str("range"), Str("file"), Str("lines"), Src(m.size # "fits"),
      Str("N"), Str(m.name), Str("range"), Str("ruleId"), Str(m.is), Str("labels"), Src(m.size = "over")>>

\* cs_track_json and cs_track_rule_id, a string at a time.
Track(j, s) ==
    LET k == j.closed
    IN  [mid |-> IF k \in {1, 2} THEN [j.mid EXCEPT ![k] = Append(@, s.v)] ELSE j.mid,
         closed |-> IF s.long THEN k + 1 ELSE k,
         idNext |-> j.id = NoName /\ ~j.idNext /\ s.v = "ruleId",
         id |-> IF j.id = NoName /\ j.idNext /\ ~s.long THEN s.v ELSE j.id]

\* cs_take_oversized: range and file stand between the first two long strings, the name after them.
Oversized(r, j, m) ==
    IF Contains(j.mid[1], "range") /\ Contains(j.mid[1], "lines") /\ j.id # NoName
    THEN TakeMatch(r, [m EXCEPT !.is = j.id, !.name = IF Contains(j.mid[2], "N") THEN @ ELSE NoName])
    ELSE [r EXCEPT !.tooLarge = @ + 1]

\* A bug: the rule of a line is kept for the next.
LineEnd_KeepsId(j) == [NewLine EXCEPT !.id = j.id]

\* The end of a line in cs_put.
LineEnd(j) == NewLine

Sends(m) ==
    /\ stage = "scan" /\ m \in left /\ left' = left \ {m}
    /\ LET j == FoldLeft(Track, json, Strings(m))
       IN  IF m.size = "fits" THEN run' = TakeMatch(run, m) /\ json' = LineEnd(json)
           ELSE run' = Oversized(run, j, m) /\ json' = LineEnd(j)
    /\ UNCHANGED <<tree, stage, skips, body, paged, next>>

\* cs_exec: ast-grep ends, with everything sent and its summary, or by a failure that is one only
\* when nothing came before it; or it is stopped, by the time limit, the user or a message.
ScanEnds ==
    /\ stage = "scan"
    /\ stage' = IF left # {} /\ run.rec = <<>> THEN "failed" ELSE "files"
    /\ run' = [run EXCEPT !.whole = left = {},
                          !.skipped = IF left = {} THEN Cardinality(DOMAIN tree.kind \ Files(Parsed)) ELSE 0]
    /\ left' = {f \in Files(Parsed) : \E w \in tree.words : w[1] = f}
    /\ UNCHANGED <<tree, json, skips, body, paged, next>>
SearchStops == /\ stage \in {"scan", "files"} /\ stage' = "failed"
         /\ UNCHANGED <<tree, left, run, json, skips, body, paged, next>>

--------------------------------------------------------------------------------
Ascending(S) == [p \in 1..Cardinality(S) |-> CHOOSE x \in S : Cardinality({y \in S : y < x}) = p - 1]

\* cs_mentions: one to a line, until one does not fit.
Mentions(r, f, name) ==
    LET lines == Ascending({w[2] : w \in {x \in tree.words : x[1] = f}})
        mention(l) == [kind |-> "other", file |-> name, line |-> l, from |-> 0, to |-> 0, name |-> NoName, scope |-> NoName]
        step(a, l) == IF a.over THEN a
                      ELSE LET b == Add(a.r, mention(l))
                           IN  IF b.dropped > a.r.dropped THEN [r |-> b, over |-> TRUE]
                               ELSE [r |-> Keep(b), over |-> FALSE]
    IN  FoldLeft(step, [r |-> r, over |-> FALSE], lines).r
NameOf(r, f) == IF Fits(r) THEN f ELSE 0

\* cs_scan_mentions: the files ast-grep names, each read by the tool.
ReadsFile(f) ==
    /\ stage = "files" /\ f \in left /\ left' = left \ {f}
    /\ run' = IF tree.kind[f] = "wide" THEN Keep(run) ELSE Mentions(Keep(run), f, NameOf(run, f))
    /\ skips' = IF tree.kind[f] = "wide" THEN [skips EXCEPT !.unlisted = @ \cup {f}] ELSE skips
    /\ UNCHANGED <<tree, stage, json, body, paged, next>>

\* cs_find_skipped: large files are looked at again, those that can be read for mentions; the rest
\* of what was skipped is taken for files that are not UTF-8.
LooksAtSkipped ==
    /\ stage = "files" /\ left = {} /\ stage' = "skipped"
    /\ LET big == Files({"long", "wide", "vast"})
           rest == Cardinality(Files({"empty"})) + Cardinality(big)
           look(r, f) == IF tree.kind[f] = "long" THEN Mentions(Keep(r), f, NameOf(r, f)) ELSE Keep(r)
       IN  IF run.skipped = 0 THEN UNCHANGED <<run, skips>>
           ELSE /\ run' = FoldLeft(look, run, Ascending(big))
                /\ skips' = [skips EXCEPT !.read = Files({"long"}), !.not = Files({"wide", "vast"}),
                                        !.notUtf8 = IF run.skipped > rest THEN run.skipped - rest ELSE 0]
    /\ UNCHANGED <<tree, left, json, body, paged, next>>

--------------------------------------------------------------------------------
Kinds == <<"def", "match", "in", "call", "other">>
Rank(k) == CHOOSE i \in DOMAIN Kinds : Kinds[i] = k

\* cs_record_cmp.
Precedes(a, b) ==
    \/ a.file < b.file
    \/ a.file = b.file /\ a.line < b.line
    \/ a.file = b.file /\ a.line = b.line /\ Rank(a.kind) < Rank(b.kind)
    \/ a.file = b.file /\ a.line = b.line /\ a.kind = b.kind /\ a.from < b.from
Sorted(s) ==
    LET before(i) == {k \in DOMAIN s : Precedes(s[k], s[i]) \/ (k < i /\ ~Precedes(s[i], s[k]))}
    IN  [p \in DOMAIN s |-> s[CHOOSE i \in DOMAIN s : Cardinality(before(i)) = p - 1]]

\* A bug: a scope that has ended is left only for the next scope.
OpenAt_Ended(open, at) == open

\* The scopes that are left when those that ended before `at` are popped.
OpenAt(open, at) ==
    LET kept == {i \in DOMAIN open : open[i].to > at}
    IN  SubSeq(open, 1, IF kept = {} THEN 0 ELSE CHOOSE i \in kept : \A k \in kept : k <= i)

\* cs_resolve_callers.
Resolve(a, r) ==
    LET b == IF r.file = a.file THEN a ELSE [a EXCEPT !.file = r.file, !.open = <<>>, !.callLine = 0]
        open == OpenAt(b.open, r.from)
    IN  CASE r.kind = "in" -> [b EXCEPT !.open = Append(open, r)]
          [] r.kind = "call" ->
                [b EXCEPT !.open = open, !.callLine = r.line,
                          !.out = Append(@, [r EXCEPT !.scope = IF open = <<>> THEN NoName ELSE Last(open).name])]
          [] r.kind = "other" /\ r.line = b.callLine -> b
          [] OTHER -> [b EXCEPT !.out = Append(@, r)]
Callers(s) == FoldLeft(Resolve, [file |-> 0, open |-> <<>>, callLine |-> 0, out |-> <<>>], s).out

\* cs_body_callers: a line for each file, and one for all of a kind on a line of it. How long a
\* line is is a choice: those of a definition have any length.
Lines(recs, wide) ==
    LET line(a, i) ==
            LET r == recs[i]
                before == IF i = 1 THEN [r EXCEPT !.kind = NoName, !.file = 0] ELSE recs[i - 1]
                head == IF r.file = before.file THEN <<>> ELSE <<[head |-> TRUE, file |-> r.file, size |-> 1]>>
                row == <<[head |-> FALSE, file |-> r.file, size |-> IF i \in wide THEN PageBytes + 1 ELSE 1]>>
            IN  IF r.kind = before.kind /\ r.line = before.line /\ r.file = before.file THEN a ELSE a \o head \o row
    IN  FoldLeft(line, <<>>, [i \in DOMAIN recs |-> i])

Resolves ==
    /\ stage = "skipped" /\ stage' = "pages" /\ next' = 1
    /\ LET recs == Callers(Sorted(run.rec))
       IN  /\ run' = [run EXCEPT !.rec = recs]
           /\ \E wide \in SUBSET DOMAIN recs : body' = Lines(recs, wide)
    /\ UNCHANGED <<tree, left, json, skips, paged>>

--------------------------------------------------------------------------------
Rows(b) == SelectSeq(b, LAMBDA l : ~l.head)

\* Where a page begins: behind the rows of the pages before.
PageStart(b, first) == CHOOSE i \in 1..Len(b) + 1 : Len(Rows(SubSeq(b, 1, i - 1))) = first - 1

\* A bug: the file's line is written where the page meets it only.
HeadDue_Met(b, at) == 0

\* A page that starts inside a file repeats its line.
HeadDue(b, at) == IF at = 1 THEN 0 ELSE b[at - 1].file

\* A bug: the line that did not fit is not read again.
Over_ReadOn(p) == [p EXCEPT !.full = TRUE, !.read = @ + 1]

\* The line that does not fit is left for the next page.
Over(p) == [p EXCEPT !.full = TRUE]

\* One line of cs_page: `due` is the file line to write first, `under` the one last written.
PageLine(p, l) ==
    LET need == l.size + IF p.due = 0 THEN 0 ELSE 1
    IN  CASE p.full \/ Len(p.shown) = p.limit -> p
          [] l.head -> [p EXCEPT !.due = l.file]
          [] ~l.head /\ p.used + need > PageBytes /\ p.shown # <<>> -> Over(p)
          [] OTHER -> LET under == IF p.due = 0 THEN p.under ELSE p.due
                      IN  [p EXCEPT !.shown = Append(@, [row |-> p.read, under |-> under]), !.read = @ + 1,
                                    !.used = @ + need, !.due = 0, !.under = under]

NextPage(limit) ==
    /\ stage = "pages" /\ next # 0
    /\ LET at == PageStart(body, next)
           p == FoldLeft(PageLine, [shown |-> <<>>, used |-> 0, read |-> next, due |-> HeadDue(body, at), under |-> 0,
                                    limit |-> limit, full |-> FALSE], SubSeq(body, at, Len(body)))
       IN  /\ paged' = Append(paged, p.shown)
           /\ next' = IF p.read > Len(Rows(body)) THEN 0 ELSE next + Len(p.shown)
    /\ UNCHANGED <<tree, stage, left, run, json, skips, body>>

CsNext == \/ \E m \in left : Sends(m) \/ ReadsFile(m)
          \/ ScanEnds \/ SearchStops \/ LooksAtSkipped \/ Resolves
          \/ \E limit \in Limit : NextPage(limit)

CsSpec == CsInit /\ [][CsNext]_csVars

--------------------------------------------------------------------------------
CsTypeOK ==
    /\ stage \in {"scan", "files", "skipped", "pages", "failed"}
    /\ Len(run.rec) <= MaxRecords /\ run.pool <= PoolRoom
    /\ json.closed \in 0..3 /\ next \in 0..Len(body) + 1

\* Each match ast-grep sent is a record or is counted as one that is not listed, unless the user is
\* told that the result is full (cs_add, cs_take_oversized, cs_keep).
NothingUnsaid ==
    stage = "scan" /\ ~run.full => Len(run.rec) + run.dropped + run.tooLarge = Cardinality(AstMatches \ left)

\* When nothing is said to be missing, every call is listed once with the innermost scope around it,
\* whatever order the matches came in and however long they are, and every other line of the name is
\* listed as such (cs_resolve_callers, cs_take_oversized). Two cases are excepted. A scope that begins
\* behind a call on its line is taken for the one around it, as scopes go before the calls of a line
\* (codesearch.c:1240 says each call takes the innermost one around it). A function named ruleId whose
\* match is too long to hold is no scope (codesearch.c:696 says no string before the rule's own has
\* that name).
CallersTrue ==
    LET scopes == {m \in AstMatches : m.is = "in"}
        calls == AstMatches \ scopes
        listed(k) == SelectSeq(run.rec, LAMBDA r : r.kind = k)
        around(c) == {s \in scopes : s.file = c.file /\ s.from <= c.from /\ c.from < s.to}
        innermost(c) == IF around(c) = {} THEN NoName
                        ELSE (CHOOSE s \in around(c) : \A o \in around(c) : o.from <= s.from).name
        clear(c) == ~\E s \in scopes : s.file = c.file /\ s.line = c.line /\ s.from > c.from
        others == {w \in tree.words : tree.kind[w[1]] = "code" /\ ~\E c \in calls : <<c.file, c.line>> = w}
    IN  stage = "pages" /\ run.whole /\ ~run.full /\ run.dropped = 0 /\ run.tooLarge = 0
        /\ (\A s \in scopes : s.size = "fits" \/ s.name # "ruleId")
        => /\ Len(listed("call")) = Cardinality(calls)
           /\ \A c \in calls : \E r \in ToSet(listed("call")) :
                 r.file = c.file /\ r.from = c.from /\ (clear(c) => r.scope = innermost(c))
           /\ {<<r.file, r.line>> : r \in ToSet(listed("other"))}
                 = others \cup {w \in tree.words : tree.kind[w[1]] = "long" /\ run.skipped > 0}

\* What was not searched is said: large files by name, with whether they were read for the name, and
\* the number of those that are no text (cs_find_skipped). A file over CS_MENTION_FILE_MAX that
\* ast-grep did read is counted among the skipped, and hides one of the others; it is excepted.
SkipsSaid ==
    stage = "pages" /\ run.whole /\ Files({"wide"}) = {}
        => /\ skips.read = Files({"long"}) /\ skips.not = Files({"vast"})
           /\ skips.notUtf8 = Cardinality(Files({"binary"}))

\* Pages that are followed by what each names show every line once, in order, under its own file, and
\* every one moves on, whatever limits are asked for and however long the lines are (cs_page).
PagesWhole ==
    LET rows == FlattenSeq(paged)
    IN  stage = "pages" =>
        /\ \A i \in DOMAIN paged : paged[i] # <<>> \/ body = <<>>
        /\ \A i \in DOMAIN rows : rows[i].row = i /\ rows[i].under = Rows(body)[i].file
        /\ next = (IF Len(rows) = Len(Rows(body)) /\ paged # <<>> THEN 0 ELSE Len(rows) + 1)

SearchesTrue == NothingUnsaid /\ CallersTrue /\ SkipsSaid /\ PagesWhole
=============================================================================

----------------------------- MODULE MCOutside ------------------------------
(* The parts of arqan that deal with what is outside it: the commands it runs, the servers it
   talks to, the files it writes. They share no state, and stand side by side for one run of
   TLC: `part` says which of them moves, and never changes, so the states of the run are those
   of each part by itself and nothing is multiplied. *)
EXTENDS Jobs, Mcp, Patch, StateFiles, Web, Http, Highlight, Providers, TaskLog,
        CodeSearch

CONSTANTS
    pa, pb,       \* names of providers
    wx,           \* what a line of a patched file says
    PagesClock    \* bound: ticks while pages are fetched, fewer than while engines are asked

VARIABLE part

outsideVars == <<part, jobsVars, mcpVars, patchVars, stateVars, webVars, httpVars, hlVars, provVars,
                 logVars, csVars>>

--------------------------------------------------------------------------------
\* Patch: two lines that differ only in their spacing, with and without a last line end.
X1 == <<wx, 1>>
X2 == <<wx, 2>>
TheDisks == {[f1 |-> File(t), f2 |-> Absent] :
                t \in {<<X1>>, <<X1, NL, X2, NL>>, <<X2, NL, X2>>, <<X1, NL, NL>>}}
HunkText(o, t) == [op |-> o, t |-> t]
TheLines == {HunkText(o, <<X1>>) : o \in {" ", "-", "+"}} \cup {HunkText(o, <<X2>>) : o \in {"-", "+"}}
            \cup {HunkText(" ", <<>>), HunkText("\\", <<>>)}

\* StateFiles: by hand, a key twice, a section between others, a section twice with a key kept elsewhere.
Note == [is |-> "text", name |-> "", value |-> None]
KeyA == Setting(<<"key", "a">>)
TheTexts == {<<>>, <<Header("p"), KeyA, Note, KeyA>>,
             <<Note, Header("p"), Note, Header("q"), KeyA>>,
             <<Header("p"), Setting(<<"source", "store">>), Header("q"), Header("p"), KeyA>>}

\* Web: two engines.
TheChain  == <<"lite", "brave">>
ThePauses == <<1, 2, 3>>

\* Http: fields beside other lines, a carriage return, the last that is said before the end, no
\* line end at the end, a line that does not fit.
Sent1 == <<"d", "x", "nl", "nl", "d", "x", "cr", "nl", "d", "y", "nl", "nl">>
Sent2 == <<"d", "z", "nl", "nl", "d", "x", "nl", "nl">>
Sent3 == <<":", "nl", "x", "nl", "d", "x", "cr">>
Sent4 == <<"x", "x", "x", "x", "x", "nl", "d", "nl">>
TheSent == {Sent1, Sent2, Sent3, Sent4}

\* Providers: a key left behind without a provider; one in use, with its key in the file, in the
\* store, from a command, in a file others can read; a second of the project's file.
ProjectFile == [n \in Name |-> IF n = pb THEN "v" ELSE Unset]
Kept0 == [conf |-> [n \in Name |-> Unset], creds |-> [n \in Name |-> [src |-> "file", key |-> Unset]],
          store |-> [n \in Name |-> Unset], open |-> TRUE, profiles |-> {}, pins |-> {},
          prov |-> Unset, model |-> Unset]
Kept1 == [Kept0 EXCEPT !.conf[pa] = "u", !.creds[pa].key = "k", !.prov = pa, !.model = "m", !.pins = {<<pa, "m">>}]
TheKepts == {[Kept0 EXCEPT !.creds[pa].key = "k"], Kept1, [Kept1 EXCEPT !.open = FALSE],
             [Kept1 EXCEPT !.creds[pa] = [src |-> "store", key |-> Unset], !.store[pa] = "k", !.profiles = {<<pa, "m">>}],
             [Kept1 EXCEPT !.creds[pa].src = "command", !.prov = pb, !.conf[pb] = "u"]}

\* TaskLog: a log that fills before its end, a line longer than any may be, an end as long as one may be.
Event(k, n) == [kind |-> k, n |-> n]
TheScripts == {<<Event("message", 3), Event("call", 2), Event("end", 3)>>,
               <<Event("message", 4), Event("message", 6), Event("end", 4)>>,
               <<Event("message", 2), Event("call", 2), Event("result", 2), Event("end", 5)>>}

\* CodeSearch: nested functions whose matches are too long to hold; two on a line, among files that are
\* skipped; a name like a key; a long line around a short call; more than fits.
Match(is, f, l, a, b, n, z) == [is |-> is, file |-> f, line |-> l, from |-> a, to |-> b, name |-> n, size |-> z]
InScope(f, l, a, b, n, z) == Match("in", f, l, a, b, n, z)
CallAt(f, l, a, z) == Match("call", f, l, a, a + 1, NoName, z)
Nested == [kind |-> <<"code", "code">>, words |-> {<<1, 2>>, <<1, 4>>, <<2, 1>>},
           matches |-> {InScope(1, 1, 0, 9, "a", "over"), InScope(1, 2, 2, 5, "b", "over"),
                        CallAt(1, 2, 3, "fits"), CallAt(1, 3, 6, "fits"), CallAt(2, 1, 0, "over")}]
OnOneLine == [kind |-> <<"code", "long", "binary", "empty", "wide">>, words |-> {<<1, 1>>, <<2, 1>>, <<5, 1>>},
              matches |-> {InScope(1, 1, 0, 3, "a", "fits"), InScope(1, 1, 4, 7, "b", "fits"),
                           CallAt(1, 1, 2, "fits"), CallAt(1, 1, 5, "fits")}]
LikeAKey == [kind |-> <<"code", "vast", "long", "binary">>, words |-> {<<1, 1>>, <<1, 2>>, <<3, 1>>},
             matches |-> {InScope(1, 1, 0, 6, "ruleId", "over"), CallAt(1, 1, 2, "fits"), CallAt(1, 2, 5, "over")}]
LongLine == [LikeAKey EXCEPT !.matches = {CallAt(1, 1, 2, "minified"), CallAt(1, 2, 5, "over")}]
TooMany == [kind |-> [f \in 1..8 |-> IF f < 5 THEN "vast" ELSE "long"], words |-> (5..8) \X (1..3), matches |-> {}]
TheTrees == {Nested, OnOneLine, LikeAKey, LongLine, TooMany}

--------------------------------------------------------------------------------
Stands(name, v) == part = name \/ v

OutsideInit ==
    /\ part \in {"jobs", "mcp", "patch", "state", "pages", "search", "stream", "gets", "highlight", "providers", "log",
                "code"}
    /\ JobsInit
    /\ McpInit
    /\ Stands("mcp", \A s \in Server : ~wire[s].http /\ ~wire[s].project)
    /\ PatchInit
    /\ Stands("patch", disk["f1"] = File(<<X1>>))
    /\ StateInit
    /\ Stands("state", sfile = [lines |-> <<>>, fits |-> TRUE] /\ store = None)
    /\ WebInit
    /\ HttpInit
    /\ Stands("stream", xfer.kind = "whole" /\ xfer.body = Sent4)
    /\ HlInit
    /\ ProvInit
    /\ Stands("providers", kept = Kept1)
    /\ LogInit
    /\ Stands("log", Len(script) = 4)
    /\ CsInit
    /\ Stands("code", tree = LongLine)

\* The parts other than `moved` stand still.
Still(moved) ==
    /\ UNCHANGED part
    /\ IF moved = "jobs" THEN TRUE ELSE UNCHANGED jobsVars
    /\ IF moved = "mcp" THEN TRUE ELSE UNCHANGED mcpVars
    /\ IF moved = "patch" THEN TRUE ELSE UNCHANGED patchVars
    /\ IF moved = "state" THEN TRUE ELSE UNCHANGED stateVars
    /\ IF moved \in {"pages", "search"} THEN TRUE ELSE UNCHANGED webVars
    /\ IF moved \in {"stream", "gets"} THEN TRUE ELSE UNCHANGED httpVars
    /\ IF moved = "highlight" THEN TRUE ELSE UNCHANGED hlVars
    /\ IF moved = "providers" THEN TRUE ELSE UNCHANGED provVars
    /\ IF moved = "log" THEN TRUE ELSE UNCHANGED logVars
    /\ IF moved = "code" THEN TRUE ELSE UNCHANGED csVars

OutsideNext ==
    \/ part = "jobs" /\ JobsNext /\ Still("jobs")
    \/ part = "mcp" /\ McpNext /\ Still("mcp")
    \/ part = "patch" /\ PatchNext /\ Still("patch")
    \/ part = "state" /\ StateNext /\ Still("state")
    \/ part = "pages" /\ ((clock < PagesClock /\ Pass) \/ PagesNext) /\ Still("pages")
    \/ part = "search" /\ (Pass \/ SearchNext) /\ Still("search")
    \/ part = "stream" /\ StreamNext /\ Still("stream")
    \/ part = "gets" /\ GetsNext /\ Still("gets")
    \/ part = "highlight" /\ HlNext /\ Still("highlight")
    \/ part = "providers" /\ ProvNext /\ Still("providers")
    \/ part = "log" /\ LogNext /\ Still("log")
    \/ part = "code" /\ CsNext /\ Still("code")

OutsideSpec == OutsideInit /\ [][OutsideNext]_outsideVars

\* The other parts stand still, so the part that moves tells states apart.
PartView ==
    <<part,
      CASE part = "jobs" -> jobsVars
        [] part = "mcp" -> mcpVars
        [] part = "patch" -> patchVars
        [] part = "state" -> stateVars
        [] part \in {"pages", "search"} -> webVars
        [] part \in {"stream", "gets"} -> httpVars
        [] part = "highlight" -> hlVars
        [] part = "providers" -> provVars
        [] part = "log" -> logVars
        [] part = "code" -> csVars>>

--------------------------------------------------------------------------------
\* The part that moves keeps its types.
OutsideTypeOK ==
    /\ part = "jobs" => JobsTypeOK
    /\ part = "mcp" => McpTypeOK
    /\ part = "patch" => PatchTypeOK
    /\ part = "state" => StateTypeOK
    /\ part \in {"pages", "search"} => WebTypeOK
    /\ part \in {"stream", "gets"} => HttpTypeOK
    /\ part = "highlight" => HlTypeOK
    /\ part = "providers" => ProvTypeOK
    /\ part = "log" => LogTypeOK
    /\ part = "code" => CsTypeOK

\* What a tool answers from what it read: the pages and engines web.c remembers, and the calls and
\* mentions codesearch.c lists page by page.
AnswersTrue == EntriesTrue /\ SearchesTrue
==============================================================================

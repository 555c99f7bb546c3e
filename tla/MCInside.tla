------------------------------- MODULE MCInside -------------------------------
(* The parts of arqan that deal with the conversation: what the model is sent and what of its
   reply is kept, and what the user types and sees. They share no state, and stand side by side
   for one run of TLC: `part` says which of them moves, and never changes. *)
EXTENDS ProviderRun, Prefix, Ledger, Media, Transcript, Composer, Screen, HistoryFile

VARIABLE part

insideVars == <<part, runVars, prefixVars, ledgerVars, mediaVars, transcriptVars, composerVars,
               screenVars, histVars>>

--------------------------------------------------------------------------------
\* Prefix: a list that later lists supersede, a picture that is read, and a call that fails.
TheUses == {[name |-> "todo", big |-> TRUE, fail |-> FALSE, image |-> FALSE],
            [name |-> "read", big |-> FALSE, fail |-> FALSE, image |-> TRUE],
            [name |-> "bash", big |-> FALSE, fail |-> TRUE, image |-> FALSE]}

\* Ledger: one list done with, one not; a request that fits beside another and one that does not.
TheLists == {[name |-> "a", n |-> 2, done |-> 1], [name |-> "b", n |-> 1, done |-> 1]}
TheBytes == [r \in Req |-> IF r = "r2" THEN 2 ELSE 4]
TheSaved == {<<User("r2"), Reply, Todo(l)>> : l \in TheLists}

\* Media: a small and a large image, of which a request carries three or four bytes' worth.
ThePictureBytes == [i \in Picture |-> IF i = "a" THEN 1 ELSE 2]

\* Transcript: a tab is four cells, and one text is as long as the buffer.
TheBodies == {<<"a">>, <<"a", "nl", "a">>, <<"a", "tab", "a", "a", "nl">>, [n \in 1..14 |-> "a"]}
TheQueries == {<<"a", "a">>}

\* Composer: one command begins another.
TheCommands == {<<"/">>, <<"/", "a">>}

\* Screen: words, a blank line, a word wider than the line, a line end at the end.
TheOpening == {<<"a", "a", " ", "a", "nl", "a", "a", " ", "a", "nl", "a", "nl">>}
ThePieces == {<<"nl">>, <<"a", " ", "a", "a">>, <<"a", "a", "a", "a", "a">>}
TheSizes == {[rows |-> 4, cols |-> c] : c \in {3, 5}}
ThePager == <<"a", "a", "a", "a", "nl", "a", "nl", "a">>

\* HistoryFile: two prompts fill the list, a short and the long one the arena; a file too large to read.
Prompt(t, n) == [text |-> t, size |-> n]
ThePrompts == {Prompt("p", 1), Prompt("q", 1), Prompt("r", 2)}
TheOlds == {<<>>, <<Prompt("r", 2), Prompt("q", 1), Prompt("r", 2), Prompt("q", 1)>>}

--------------------------------------------------------------------------------
Stands(p, v) == part = p \/ v

InsideInit ==
    /\ part \in {"run", "prefix", "list", "work", "media", "transcript", "composer", "screen", "history"}
    /\ RunInit
    /\ Stands("run", api = "openai")
    /\ PrefixInit
    /\ LedgerInit
    /\ MediaInit
    /\ Stands("media", fullScreen)
    /\ TranscriptInit
    /\ Stands("transcript", ~tr.f.open)
    /\ ComposerInit
    /\ ScreenInit
    /\ Stands("screen", size.cols = 3)
    /\ HistInit
    /\ Stands("history", inode = <<>>)

\* The parts other than `moved` stand still.
Still(moved) ==
    /\ UNCHANGED part
    /\ IF moved = "run" THEN TRUE ELSE UNCHANGED runVars
    /\ IF moved = "prefix" THEN TRUE ELSE UNCHANGED prefixVars
    /\ IF moved \in {"list", "work"} THEN TRUE ELSE UNCHANGED ledgerVars
    /\ IF moved = "media" THEN TRUE ELSE UNCHANGED mediaVars
    /\ IF moved = "transcript" THEN TRUE ELSE UNCHANGED transcriptVars
    /\ IF moved = "composer" THEN TRUE ELSE UNCHANGED composerVars
    /\ IF moved = "screen" THEN TRUE ELSE UNCHANGED screenVars
    /\ IF moved = "history" THEN TRUE ELSE UNCHANGED histVars

InsideNext ==
    \/ part = "run" /\ RunNext /\ Still("run")
    \/ part = "prefix" /\ PrefixNext /\ Still("prefix")
    \/ part = "list" /\ ListNext /\ Still("list")
    \/ part = "work" /\ WorkNext /\ Still("work")
    \/ part = "media" /\ MediaNext /\ Still("media")
    \/ part = "transcript" /\ TranscriptNext /\ Still("transcript")
    \/ part = "composer" /\ ComposerNext /\ Still("composer")
    \/ part = "screen" /\ ScreenNext /\ Still("screen")
    \/ part = "history" /\ HistNext /\ Still("history")

InsideSpec == InsideInit /\ [][InsideNext]_insideVars

\* The other parts stand still, so the part that moves tells states apart.
PartView ==
    <<part,
      CASE part = "run" -> runVars
        [] part = "prefix" -> prefixVars
        [] part \in {"list", "work"} -> ledgerVars
        [] part = "media" -> mediaVars
        [] part = "transcript" -> transcriptVars
        [] part = "composer" -> composerVars
        [] part = "screen" -> screenVars
        [] part = "history" -> histVars>>

--------------------------------------------------------------------------------
\* The part that moves keeps its types.
InsideTypeOK ==
    /\ part = "run" => RunTypeOK
    /\ part = "prefix" => PrefixTypeOK
    /\ part \in {"list", "work"} => LedgerTypeOK
    /\ part = "media" => MediaTypeOK
    /\ part = "transcript" => TranscriptTypeOK
    /\ part = "composer" => ComposerTypeOK
    /\ part = "screen" => ScreenTypeOK
    /\ part = "history" => HistTypeOK

\* What is typed reaches a turn as it was typed, and what was sent is recalled, by this instance and
\* by the next that reads the file (busy_submit, history_recall, history_add, history_load).
PromptsTrue == TypedTrue /\ HistoryTrue
===============================================================================

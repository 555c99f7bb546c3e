---------------------------- MODULE HistoryFile -----------------------------
(* The file of prompts that the instances of a directory share (history.c): each
   loads it once, writes it anew when its list is full, and appends to it, with no
   lock. A list holds RingCap prompts in an arena of ArenaRoom; what a prompt takes
   there and in the file is its size.

   A line has the number of the prompt it came from, 0 for one that is glued or cut
   and for what was there before. The place in the list is Composer's. *)
EXTENDS Naturals, FiniteSets, Sequences, SequencesExt

CONSTANTS
    Inst,
    Prompts,      \* what may be sent: [text, size]
    Olds,         \* what the file may hold before
    RingCap,      \* AGENT_MAX_HISTORY
    ArenaRoom,    \* AGENT_HISTORY_BYTES
    FileMax,      \* AGENT_MAX_HISTORY_BYTES
    PromptMax,    \* AGENT_MAX_HISTORY_LINE
    MaxPrompts,   \* bound: prompts sent
    MaxLoads,     \* bound: programs that start
    MaxInodes,    \* bound: times the file is written anew
    MaxCuts       \* bound: writes that fail

VARIABLES
    hist,         \* History of each instance, and where it is in its work
    inode, path,  \* the contents of each file, and the one that has the name, 0 when none has
    loads,        \* of the model: programs started
    prompted,     \* of the model: the prompts that were taken, [by, text]
    order, gone   \* of the model: the prompts written, in order; those in a window described below

histVars == <<hist, inode, path, loads, prompted, order, gone>>

--------------------------------------------------------------------------------
Room(c) == FoldLeft(LAMBDA n, l : n + l.size, 0, c)
LineIds(c)  == {c[k].id : k \in DOMAIN c} \ {0}
Line(id, p) == [id |-> id, text |-> p.text, size |-> p.size, cut |-> FALSE]
Off == [at |-> "off", entry |-> <<>>, used |-> 0, fd |-> 0, read |-> {}, refused |-> {}, own |-> <<>>]

HistInit ==
    /\ hist = [i \in Inst |-> Off]
    /\ \E old \in Olds : inode = IF old = <<>> THEN <<>> ELSE <<[k \in DOMAIN old |-> Line(0, old[k])]>>
    /\ path = Len(inode) /\ loads = 0 /\ prompted = <<>> /\ order = <<>> /\ gone = {}

--------------------------------------------------------------------------------
\* hist_store: what is not in the list is given up for a prompt that does not fit otherwise; hist_push.
Packed(h, l)   == IF h.used + l.size <= ArenaRoom THEN h.used ELSE Room(h.entry)
Stores(h, l)   == Packed(h, l) + l.size <= ArenaRoom
Repeats(e, l)  == e # <<>> /\ Last(e).text = l.text

\* A bug: a full list takes nothing more.
PushedOn_Full(e, l) == IF Repeats(e, l) \/ Len(e) = RingCap THEN e ELSE Append(e, l)

PushedOn(e, l) == IF Repeats(e, l) THEN e ELSE Append(IF Len(e) = RingCap THEN Tail(e) ELSE e, l)

Loaded(h, l) ==
    IF l.size > PromptMax THEN h
    ELSE IF Stores(h, l) THEN [h EXCEPT !.used = Packed(h, l) + l.size, !.entry = PushedOn(@, [l EXCEPT !.cut = FALSE])]
    ELSE [h EXCEPT !.used = Packed(h, l), !.refused = @ \cup LineIds(<<l>>)]

\* A bug: the file is written anew whenever it was looked at.
IsFull_Always(h) == TRUE

IsFull(h) == Len(h.entry) = RingCap

Ready(h) == [h EXCEPT !.at = "idle", !.fd = 0, !.read = {}, !.refused = {}]

\* history_load up to the rewrite: a file that is too large is not read.
Load(i) ==
    /\ hist[i].at = "off" /\ loads < MaxLoads /\ loads' = loads + 1
    /\ LET c == IF path = 0 THEN <<>> ELSE inode[path]
           h == IF Room(c) > FileMax THEN Off ELSE FoldLeft(Loaded, Off, c)
       IN  hist' = [hist EXCEPT ![i] = IF IsFull(h) THEN [h EXCEPT !.at = "rewrite", !.read = LineIds(c)] ELSE Ready(h)]
    /\ UNCHANGED <<inode, path, prompted, order, gone>>

\* The end of history_rewrite: the rename, or a failure, which is ignored. A line that came since the
\* file was read is in neither; nor is one the arena had no room for.
Renames(i) ==
    /\ hist[i].at = "rewrite" /\ Len(inode) < MaxInodes
    /\ inode' = Append(inode, hist[i].entry) /\ path' = Len(inode')
    /\ gone' = gone \cup hist[i].refused \cup (IF path = 0 THEN {} ELSE LineIds(inode[path]) \ hist[i].read)
    /\ hist' = [hist EXCEPT ![i] = Ready(@)] /\ UNCHANGED <<loads, prompted, order>>
RenameFails(i) ==
    /\ hist[i].at = "rewrite" /\ hist' = [hist EXCEPT ![i] = Ready(@)]
    /\ UNCHANGED <<inode, path, loads, prompted, order, gone>>

\* history_add up to fopen. Nothing happens to a prompt that is too long or repeats the last; one
\* the arena has no room for is not written either.
Add(i, p) ==
    /\ hist[i].at = "idle" /\ Len(prompted) < MaxPrompts /\ p.size <= PromptMax /\ ~Repeats(hist[i].entry, p)
    /\ LET l == Line(Len(prompted) + 1, p)
           h == hist[i]
           create == path = 0
       IN  IF ~Stores(h, l)
           THEN hist' = [hist EXCEPT ![i].used = Packed(h, l)] /\ UNCHANGED <<inode, path, prompted>>
           ELSE /\ path' = IF create THEN Len(inode) + 1 ELSE path
                /\ inode' = IF create THEN Append(inode, <<>>) ELSE inode
                /\ hist' = [hist EXCEPT ![i] = [h EXCEPT !.used = Packed(h, l) + l.size, !.entry = PushedOn(@, l),
                                                         !.own = Append(@, l.id), !.fd = path', !.at = "append"]]
                /\ prompted' = Append(prompted, [by |-> i, text |-> p.text])
    /\ UNCHANGED <<loads, order, gone>>

\* A bug: the file is opened for writing.
Appended_Anew(c, l) == <<l>>

\* A line behind one that was cut is part of it.
Appended(c, l) ==
    IF c # <<>> /\ Last(c).cut THEN Append(Front(c), [l EXCEPT !.id = 0, !.text = "glued"]) ELSE Append(c, l)

\* hist_write and fclose: into whatever file was opened.
Writes(i) ==
    /\ hist[i].at = "append"
    /\ LET h == hist[i]
           c == Appended(inode[h.fd], Last(h.entry))
       IN  /\ inode' = [inode EXCEPT ![h.fd] = c]
           /\ order' = Append(order, Last(h.own))
           /\ gone' = IF h.fd # path \/ Last(c).text = "glued" THEN gone \cup {Last(h.own)} ELSE gone
    /\ hist' = [hist EXCEPT ![i] = Ready(@)] /\ UNCHANGED <<path, loads, prompted>>
WriteCut(i) ==
    /\ hist[i].at = "append" /\ Cardinality({k \in DOMAIN inode : inode[k] # <<>> /\ Last(inode[k]).cut}) < MaxCuts
    /\ LET h == hist[i]
       IN  inode' = [inode EXCEPT ![h.fd] = Append(@, [Last(h.entry) EXCEPT !.id = 0, !.text = "part", !.cut = TRUE])]
    /\ gone' = gone \cup {Last(hist[i].own)} /\ order' = Append(order, Last(hist[i].own))
    /\ hist' = [hist EXCEPT ![i] = Ready(@)] /\ UNCHANGED <<path, loads, prompted>>

\* The program ends, or is killed at any step.
Exits(i) ==
    /\ hist[i].at # "off" /\ hist' = [hist EXCEPT ![i] = Off]
    /\ gone' = IF hist[i].at = "append" THEN gone \cup {Last(hist[i].own)} ELSE gone
    /\ UNCHANGED <<inode, path, loads, prompted, order>>

HistNext == \E i \in Inst : \/ Load(i) \/ Renames(i) \/ RenameFails(i) \/ Writes(i) \/ WriteCut(i) \/ Exits(i)
                            \/ \E p \in Prompts : Add(i, p)

HistSpec == HistInit /\ [][HistNext]_histVars

--------------------------------------------------------------------------------
HistTypeOK ==
    /\ path \in 0..Len(inode) /\ gone \subseteq DOMAIN prompted
    /\ \A i \in Inst : LET h == hist[i]
                       IN  /\ h.at \in {"off", "rewrite", "idle", "append"} /\ h.fd \in 0..Len(inode)
                           /\ Room(h.entry) <= h.used /\ h.used <= ArenaRoom /\ Len(h.entry) <= RingCap

\* The file has each prompt at most once, those of an instance in the order they were sent, and none
\* is missing that was written, unless RingCap others came after it. Four windows are excepted:
\* another instance read the file before and replaced it after the line was written, or between its
\* opening and its write; the write failed, or came behind one that did; a rewrite of prompts that fill
\* the arena (history.c:60: nothing in the list is given up for a newer prompt, and one that is not
\* kept is not written, where tests/cases/test_history.py:110 says the newest are).
PromptsInFile ==
    LET c == IF path = 0 THEN <<>> ELSE inode[path]
        ids == SelectSeq([k \in DOMAIN c |-> c[k].id], LAMBDA d : d # 0)
    IN  /\ \A j, k \in DOMAIN ids : j < k /\ prompted[ids[j]].by = prompted[ids[k]].by => ids[j] < ids[k]
        /\ \A k \in DOMAIN order : order[k] \in LineIds(c) \cup gone \/ Len(order) - k >= RingCap
                                   \/ \E j \in DOMAIN c : c[j].text = prompted[order[k]].text

\* An instance recalls the last prompts it was sent, whatever the others do and however full the arena is.
OwnRecalled ==
    \A i \in Inst : LET h == hist[i]
                        n == IF Len(h.own) < RingCap THEN Len(h.own) ELSE RingCap
                    IN  /\ Len(h.entry) >= n
                        /\ \A k \in 0..n - 1 : h.entry[Len(h.entry) - k].id = h.own[Len(h.own) - k]

HistoryTrue == PromptsInFile /\ OwnRecalled
=============================================================================

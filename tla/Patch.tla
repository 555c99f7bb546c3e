-------------------------------- MODULE Patch --------------------------------
(* The `patch` tool (tools.c): a unified diff is parsed, every file it names is
   read and built in memory hunk by hunk, and the files are written one after
   the other when every hunk of every file landed.

   A text is a sequence of letters and line ends. A letter stands for what a
   line says together with the spacing inside it: two letters with the same
   word differ only in spacing. A hunk is a sequence of lines, each with its
   prefix. Where a text ends is the position past its last element. *)
EXTENDS Naturals, Sequences, SequencesExt, FiniteSets, FiniteSetsExt

CONSTANTS
    PName,       \* names of files
    Word,        \* what a line says, without its inner spacing
    Disks,       \* what the files may be before the patch
    HunkLine,    \* lines of hunks: a prefix and a text of at most one letter
    MaxLines,    \* bound: lines of a hunk
    MaxHunks,    \* AGENT_MAX_PATCH_HUNKS
    MaxFiles     \* AGENT_MAX_PATCH_FILES

VARIABLES
    disk,    \* the files
    pf,      \* the files of the patch, in its order
    hunk,    \* of each hunk, its file and where its text starts in the built body
    patch,   \* how far the tool is, and the hunks that did not apply
    before,  \* the files as the patch found them
    want,    \* the letters the patch as written asks for, of each file
    wrote    \* the hunk that wrote each element of a built body

patchVars == <<disk, pf, hunk, patch, before, want, wrote>>

--------------------------------------------------------------------------------
NL      == <<>>
Letter  == Word \X {1, 2}
Lost    == 0
Absent  == [there |-> FALSE, text |-> <<>>]
File(t) == [there |-> TRUE, text |-> t]

LettersOf(t) == SelectSeq(t, LAMBDA c : c # NL)
EndsLine(t)  == t # <<>> /\ Last(t) = NL
Cutback(t, n) == SubSeq(t, 1, Len(t) - n)
StartsLine(t, i) == i = 1 \/ t[i - 1] = NL

Hunk == UNION {[1..n -> HunkLine] : n \in 1..MaxLines}

\* hunk_scan: the text of one side of a hunk; a backslash takes the last line end back. With
\* `kept`, the lines of the file stand in for the hunk's own.
LineAt(t, k) ==
    LET ends == {p \in 1..Len(t) : t[p] = NL}
        e == CHOOSE p \in ends : Cardinality({q \in ends : q <= p}) = k
        s == IF k = 1 THEN 1 ELSE (CHOOSE p \in ends : Cardinality({q \in ends : q <= p}) = k - 1) + 1
    IN  SubSeq(t, s, e - 1)
LineCount(t) == Cardinality({p \in 1..Len(t) : t[p] = NL})

HunkScan(h, skip, kept) ==
    LET step(a, l) ==
          IF l.op = "\\" THEN [a EXCEPT !.t = IF a.prev # skip /\ @ # <<>> THEN Cutback(@, 1) ELSE @]
          ELSE LET own == kept = <<>> \/ l.op = "+"
                   keep == own \/ a.k < LineCount(kept)
                   line == IF own THEN l.t ELSE IF keep THEN LineAt(kept, a.k + 1) ELSE <<>>
               IN  [t |-> IF l.op # skip /\ keep THEN a.t \o line \o <<NL>> ELSE a.t,
                    prev |-> l.op, k |-> IF own THEN a.k ELSE a.k + 1]
    IN  FoldLeft(step, [t |-> <<>>, prev |-> " ", k |-> 0], h).t

Old(h) == HunkScan(h, "+", <<>>)
New(h) == HunkScan(h, "-", <<>>)

\* hunk_blank_tail.
Blank1(l)    == l.op = " " /\ l.t = <<>>
BlankTail(h) == Max({n \in 0..Len(h) : \A k \in (Len(h) - n + 1)..Len(h) : Blank1(h[k])})

\* find_matches and patch_loose_match: whole lines of t from `from` on.
Matches(t, o, from) ==
    {i \in from..(Len(t) + 1 - Len(o)) : /\ o # <<>> /\ StartsLine(t, i)
                                         /\ EndsLine(o) \/ i + Len(o) = Len(t) + 1
                                         /\ SubSeq(t, i, i + Len(o) - 1) = o}
Alike(a, b) == a = b \/ (a # NL /\ b # NL /\ a[1] = b[1])
LooseMatches(t, o, from) ==
    {i \in from..(Len(t) + 1 - Len(o)) : StartsLine(t, i) /\ \A k \in 1..Len(o) : Alike(t[i + k - 1], o[k])}

--------------------------------------------------------------------------------
PatchInit == /\ disk \in Disks
             /\ before = disk /\ pf = <<>> /\ hunk = <<>>
             /\ patch = [pc |-> "parse", at |-> 0, bad |-> 0]
             /\ want = [f \in PName |-> LettersOf(disk[f].text)] /\ wrote = <<>>

Parsing == patch.pc = "parse"
Refuse  == /\ patch' = [patch EXCEPT !.pc = "refused"]
           /\ UNCHANGED <<disk, pf, hunk, before, want, wrote>>

\* patch_normalize, a line without a prefix, no header at all: the text may be refused anywhere.
PatchRefused == Parsing /\ Refuse

\* patch_open. A second header of a file goes on with what was built, unless one of the two
\* creates or deletes it.
PatchOpen(f, kind) ==
    /\ Parsing
    /\ LET same == {i \in 1..Len(pf) : pf[i].path = f}
       IN  IF same # {}
           THEN IF kind = "edit" /\ \A i \in same : pf[i].kind = "edit"
                THEN /\ patch' = [patch EXCEPT !.at = CHOOSE i \in same : TRUE]
                     /\ UNCHANGED <<disk, pf, hunk, before, want, wrote>>
                ELSE Refuse
           ELSE IF Len(pf) >= MaxFiles \/ disk[f].there = (kind = "create") THEN Refuse
           ELSE /\ pf' = Append(pf, [path |-> f, kind |-> kind, body |-> disk[f].text])
                /\ wrote' = Append(wrote, [p \in 1..Len(disk[f].text) |-> 0])
                /\ patch' = [patch EXCEPT !.at = Len(pf) + 1]
                /\ UNCHANGED <<disk, hunk, before, want>>

--------------------------------------------------------------------------------
\* patch_hunk: where a hunk of an edit applies, and what it puts there. [at |-> Lost] when its
\* context is not found, or found twice.
Nowhere == [at |-> Lost, old |-> <<>>, new |-> <<>>]
Found(S, o, n) == IF Cardinality(S) = 1 THEN [at |-> CHOOSE i \in S : TRUE, old |-> o, new |-> n] ELSE Nowhere

\* A bug: a match but for spacing puts the hunk's own lines in.
LoosePlace_Rewrites(b, h, o, from) == Found(LooseMatches(b, o, from), o, New(h))

LoosePlace(b, h, o, from) ==
    LET p == Found(LooseMatches(b, o, from), o, <<>>)
    IN  IF p.at = Lost THEN p
        ELSE LET region == SubSeq(b, p.at, p.at + Len(o) - 1)
             IN  [at |-> p.at, old |-> region, new |-> HunkScan(h, "-", region)]

Place(b, h, from) ==
    LET o0 == Old(h)
        n0 == New(h)
        tail == BlankTail(h)
        short == Matches(b, o0, from) = {} /\ tail > 0 /\ Len(o0) > tail
        o == IF short THEN Cutback(o0, tail) ELSE o0
        n == IF short THEN Cutback(n0, tail) ELSE n0
        M == Matches(b, o, from)
        open == EndsLine(o) /\ ~EndsLine(b)
        E == {i \in Matches(b, Cutback(o, 1), from) : i + Len(o) - 1 = Len(b) + 1}
    IN  IF M # {} THEN Found(M, o, n)
        ELSE IF open /\ Cardinality(Matches(b, Cutback(o, 1), from)) = 1 /\ E # {}
             THEN Found(E, Cutback(o, 1), IF EndsLine(n) THEN Cutback(n, 1) ELSE n)
        ELSE IF EndsLine(o) THEN LoosePlace(b, h, o, from) ELSE Nowhere

\* patch_anchor: the line a header names must be there once, and is where the search begins.
Anchored(b, a) == {i \in 1..Len(b) : StartsLine(b, i) /\ b[i] = a /\ (i = Len(b) \/ b[i + 1] = NL)}

\* A bug: the start of an earlier hunk moves by what was put in, not by the difference.
Moved_Grown(s, p) == IF s >= p.at + Len(p.old) THEN s + Len(p.new) ELSE IF s >= p.at THEN Lost ELSE s

Moved(s, p) == IF s >= p.at + Len(p.old) THEN s - Len(p.old) + Len(p.new) ELSE IF s >= p.at THEN Lost ELSE s

Put(t, p, new) == SubSeq(t, 1, p.at - 1) \o new \o SubSeq(t, p.at + Len(p.old), Len(t))

\* What the hunk as written does to the letters from position k on: a kept line stays as it is.
Asked(w, k, h) ==
    LET step(a, l) == IF l.t = <<>> THEN a
                      ELSE CASE l.op = "+" -> [a EXCEPT !.t = @ \o l.t]
                             [] l.op = " " -> [t |-> Append(a.t, w[a.k]), k |-> a.k + 1]
                             [] l.op = "-" -> [a EXCEPT !.k = @ + 1]
        r == FoldLeft(step, [t |-> SubSeq(w, 1, k - 1), k |-> k], h)
    IN  r.t \o SubSeq(w, r.k, Len(w))

HunkEdits(i, h, anchor) ==
    LET b == pf[i].body
        A == Anchored(b, anchor)
        starts == IF anchor = NL THEN {1} ELSE IF Cardinality(A) = 1 THEN A ELSE {}
        f == pf[i].path
    IN  \E p \in IF starts = {} THEN {Nowhere} ELSE {Place(b, h, from) : from \in starts} :
        \/ /\ p.at = Lost
           /\ patch' = [patch EXCEPT !.bad = @ + 1]
           /\ hunk' = Append(hunk, [file |-> i, at |-> Lost, size |-> 0])
           /\ UNCHANGED <<pf, want, wrote>>
        \/ /\ p.at # Lost
           /\ pf' = [pf EXCEPT ![i].body = Put(b, p, p.new)]
           /\ hunk' = Append([k \in 1..Len(hunk) |->
                                  IF hunk[k].file # i \/ hunk[k].at = Lost THEN hunk[k]
                                  ELSE [hunk[k] EXCEPT !.at = Moved(@, p)]],
                             [file |-> i, at |-> p.at, size |-> Len(p.new)])
           /\ wrote' = [wrote EXCEPT ![i] = Put(@, p, [k \in 1..Len(p.new) |-> Len(hunk) + 1])]
           /\ want' = [want EXCEPT ![f] = Asked(@, Len(LettersOf(SubSeq(b, 1, p.at - 1))) + 1, h)]
           /\ UNCHANGED patch

PatchHunk(h, anchor) ==
    /\ Parsing /\ patch.at # 0
    /\ LET i == patch.at
           o == Old(h)
           tail == BlankTail(h)
       IN  CASE Len(hunk) >= MaxHunks -> Refuse
             [] Len(hunk) < MaxHunks /\ pf[i].kind = "delete" ->
                  /\ hunk' = Append(hunk, [file |-> i, at |-> Lost, size |-> 0])
                  /\ UNCHANGED <<disk, pf, patch, before, want, wrote>>
             [] Len(hunk) < MaxHunks /\ pf[i].kind = "create" ->
                  IF o # <<>> /\ Len(o) # tail THEN Refuse
                  ELSE LET n == IF o = <<>> THEN New(h) ELSE Cutback(New(h), tail)
                       IN  /\ pf' = [pf EXCEPT ![i].body = @ \o n]
                           /\ hunk' = Append(hunk, [file |-> i, at |-> Len(pf[i].body) + 1, size |-> Len(n)])
                           /\ wrote' = [wrote EXCEPT ![i] = @ \o [k \in 1..Len(n) |-> Len(hunk) + 1]]
                           /\ want' = [want EXCEPT ![pf[i].path] = @ \o LettersOf(n)]
                           /\ UNCHANGED <<disk, patch, before>>
             [] Len(hunk) < MaxHunks /\ pf[i].kind = "edit" ->
                  IF o = <<>> THEN Refuse ELSE HunkEdits(i, h, anchor) /\ UNCHANGED <<disk, before>>

--------------------------------------------------------------------------------
\* tool_patch: nothing is written when a hunk did not apply.
PatchParsed == /\ Parsing /\ pf # <<>>
               /\ IF patch.bad = 0 THEN patch' = [patch EXCEPT !.pc = "write", !.at = 1]
                  ELSE patch' = [patch EXCEPT !.pc = "refused"]
               /\ UNCHANGED <<disk, pf, hunk, before, want, wrote>>

\* One file is deleted, or written through a temporary file and a rename. Both may fail, and
\* the write fails as well when the rename was done and the directory could not be synced.
PatchWrites ==
    /\ patch.pc = "write" /\ patch.at <= Len(pf)
    /\ LET f == pf[patch.at]
           done == IF f.kind = "delete" THEN Absent ELSE File(f.body)
       IN  \/ disk' = [disk EXCEPT ![f.path] = done] /\ patch' = [patch EXCEPT !.at = @ + 1]
           \/ UNCHANGED disk /\ patch' = [patch EXCEPT !.pc = "failed"]
           \/ /\ f.kind # "delete"
              /\ disk' = [disk EXCEPT ![f.path] = done] /\ patch' = [patch EXCEPT !.pc = "failed"]
    /\ UNCHANGED <<pf, hunk, before, want, wrote>>

\* patch_put_lines: the line each hunk of a file starts at, unless one lost its start.
HunksOf(i)     == {k \in 1..Len(hunk) : hunk[k].file = i}
ReportsLines(i) == HunksOf(i) # {} /\ \A k \in HunksOf(i) : hunk[k].at # Lost
PatchDone == /\ patch.pc = "write" /\ patch.at > Len(pf)
             /\ patch' = [patch EXCEPT !.pc = "done"]
             /\ UNCHANGED <<disk, pf, hunk, before, want, wrote>>

PatchNext == \/ PatchRefused \/ PatchParsed \/ PatchWrites \/ PatchDone
             \/ \E f \in PName, kind \in {"edit", "create", "delete"} : PatchOpen(f, kind)
             \/ \E h \in Hunk, a \in {NL} \cup Letter : PatchHunk(h, a)

PatchSpec == PatchInit /\ [][PatchNext]_patchVars

--------------------------------------------------------------------------------
PatchTypeOK == /\ patch.pc \in {"parse", "refused", "write", "failed", "done"}
               /\ Len(pf) <= MaxFiles /\ Len(hunk) <= MaxHunks /\ patch.at <= Len(pf) + 1
               /\ \A i \in 1..Len(pf) : Len(wrote[i]) = Len(pf[i].body)

\* A file holds what it held, or that with the lines of the patch that are marked, and no
\* other, taken out and put in: a kept line keeps the spacing the file has. A patch that was
\* refused changed nothing, and one that is done changed every file (tools.c:1710; patch_hunk,
\* tool_patch; tests/cases/test_tools.py:1235, "applies and keeps the file text").
OnlyMarkedChanged ==
    /\ patch.pc \in {"parse", "refused"} \/ patch.bad > 0 => disk = before
    /\ patch.pc \in {"write", "failed", "done"} =>
          \A f \in PName :
             LET I == {i \in 1..Len(pf) : pf[i].path = f}
             IN  \/ disk[f] = before[f] /\ (I = {} \/ patch.pc # "done")
                 \/ \E i \in I : IF pf[i].kind = "delete" THEN ~disk[f].there
                                 ELSE disk[f].there /\ LettersOf(disk[f].text) = want[f]

\* The line a result gives for a hunk is the line at which the hunk's own text starts in the
\* file, whatever later hunks put in above it (the invariant of tools.c:2046, patch_put_lines).
HunkLinesTrue ==
    patch.pc = "done" =>
      \A k \in 1..Len(hunk) :
         LET i == hunk[k].file
         IN  ReportsLines(i) /\ hunk[k].size > 0 =>
                hunk[k].at \in DOMAIN wrote[i] /\ wrote[i][hunk[k].at] = k /\ (hunk[k].at > 1 => wrote[i][hunk[k].at - 1] # k)

\* A patch does what it says, and says what it did.
PatchedAsMarked == OnlyMarkedChanged /\ HunkLinesTrue
=============================================================================

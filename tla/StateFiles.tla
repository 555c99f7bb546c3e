----------------------------- MODULE StateFiles -----------------------------
(* The files of settings arqan itself writes (settings.c, core.c), and the keys
   of providers in them or in a key store of the system (endpoints.c,
   secrets.c).

   A file is a sequence of lines: a section header, a setting, or anything
   else. A write reads the file, makes the new text and puts it in place with a
   temporary file and a rename. Several instances share the file and take no
   lock. A setting is removed by setting it to None. *)
EXTENDS Naturals, Sequences, SequencesExt, FiniteSets

CONSTANTS
    Inst,       \* arqan processes
    Texts,      \* what the user may have written by hand
    Secret,     \* keys of a provider
    MaxWrites   \* bound: writes begun

VARIABLES
    sfile,    \* the lines of the file, and whether it can be read whole
    store,    \* the provider's key in the key store
    ins,      \* what each instance is about
    writes

stateVars == <<sfile, store, ins, writes>>

--------------------------------------------------------------------------------
None == "none"
Outside == [pc |-> "idle", sec |-> "", pairs |-> <<>>, drop |-> FALSE, from |-> <<>>, whole |-> FALSE,
            src |-> None, key |-> None, old |-> None, alone |-> TRUE]

StateInit == /\ sfile \in [lines : Texts, fits : BOOLEAN]
             /\ store \in {None} \cup Secret
             /\ ins = [i \in Inst |-> Outside] /\ writes = 0

\* setting_section and setting_kv over the lines: the section each line is in.
SectionAt(t, n) ==
    LET H == {m \in 1..n : t[m].is = "section"}
    IN  IF H = {} THEN "" ELSE t[CHOOSE m \in H : \A k \in H : k <= m].name
IsSetting(t, n, sec, key) == t[n].is = "setting" /\ t[n].name = key /\ SectionAt(t, n) = sec

\* settings_get: the last one counts.
SettingsGet(t, sec, key) ==
    LET S == {n \in 1..Len(t) : IsSetting(t, n, sec, key)}
    IN  IF S = {} THEN None ELSE t[CHOOSE n \in S : \A k \in S : k <= n].value

\* settings_set. The first line of each key is replaced or left out; what had none is put
\* behind the last line of the section, or with a header at the end.
PairOf(pairs, done, key) ==
    LET P == {p \in 1..Len(pairs) : p \notin done /\ pairs[p][1] = key}
    IN  IF P = {} THEN 0 ELSE CHOOSE p \in P : \A q \in P : p <= q
Setting(p) == [is |-> "setting", name |-> p[1], value |-> p[2]]
Header(s)  == [is |-> "section", name |-> s, value |-> None]

\* A bug: what is new goes to the end of the file.
Behind_End(a, mine) == Len(a.out)

Behind(a, mine) == IF mine THEN Len(a.out) ELSE a.tail

Taken1(t, sec, pairs) ==
    LET step(a, n) ==
          LET mine == SectionAt(t, n) = sec
              p == IF mine /\ t[n].is = "setting" THEN PairOf(pairs, a.done, t[n].name) ELSE 0
              put == IF p = 0 THEN <<t[n]>> ELSE IF pairs[p][2] # None THEN <<Setting(pairs[p])>> ELSE <<>>
              b == [a EXCEPT !.out = @ \o put, !.done = @ \cup ({p} \ {0}), !.seen = @ \/ mine]
          IN  [b EXCEPT !.tail = Behind(b, mine)]
    IN  FoldLeft(step, [out |-> <<>>, done |-> {}, seen |-> sec = "", tail |-> 0], [n \in 1..Len(t) |-> n])

SettingsSet(t, sec, pairs) ==
    LET a == Taken1(t, sec, pairs)
        new == SelectSeq([p \in 1..Len(pairs) |-> p], LAMBDA p : p \notin a.done /\ pairs[p][2] # None)
        extra == [k \in 1..Len(new) |-> Setting(pairs[new[k]])]
    IN  IF extra = <<>> THEN a.out
        ELSE IF a.seen THEN SubSeq(a.out, 1, a.tail) \o extra \o SubSeq(a.out, a.tail + 1, Len(a.out))
        ELSE a.out \o <<Header(sec)>> \o extra

\* settings_remove_section.
SettingsLess(t, sec) == SelectSeq([n \in 1..Len(t) |-> n], LAMBDA n : SectionAt(t, n) # sec)
Removed(t, sec) == [k \in 1..Len(SettingsLess(t, sec)) |-> t[SettingsLess(t, sec)[k]]]

--------------------------------------------------------------------------------
\* The file, or the key store, is not any more what another instance saw.
Disturbed(i, n) == [j \in Inst |-> IF j = i THEN n ELSE [ins[j] EXCEPT !.alone = FALSE]]
With(i, n)      == ins' = [ins EXCEPT ![i] = n]
Begun         == writes < MaxWrites /\ writes' = writes + 1

\* settings_src: a file that is too large, or cannot be read, reads as empty.
Read(n, ok) == [n EXCEPT !.pc = "read", !.from = IF ok THEN sfile.lines ELSE <<>>, !.whole = ok]

\* state_set, conf_remember, favorites_toggle, endpoints_save_one, model_profile_save: a set of one
\* or two keys of a section.
SetBegins(i, sec, pairs) ==
    /\ ins[i].pc = "idle" /\ Begun
    /\ \E ok \in {sfile.fits, FALSE} : With(i, Read([Outside EXCEPT !.sec = sec, !.pairs = pairs], ok))
    /\ UNCHANGED <<sfile, store>>

\* endpoints_set_key with a key or none: the key goes into the file or into the store, what the
\* old source holds is erased first, and whether that worked is not asked.
KeyBegins(i, src, key) ==
    /\ ins[i].pc = "idle" /\ Begun
    /\ With(i, [Outside EXCEPT !.pc = "key", !.sec = "p", !.src = src, !.key = key,
                               !.old = IF sfile.fits THEN SettingsGet(sfile.lines, "p", "source") ELSE None])
    /\ UNCHANGED <<sfile, store>>

Erases(n) == n.old = "store" /\ (n.src # "store" \/ n.key = None)
KeyErases(i) ==
    /\ ins[i].pc = "key"
    /\ \/ /\ Erases(ins[i]) /\ store' = None
          /\ ins' = Disturbed(i, [ins[i] EXCEPT !.pc = "erased"])
       \/ /\ With(i, [ins[i] EXCEPT !.pc = "erased"]) /\ UNCHANGED store
    /\ UNCHANGED <<sfile, writes>>

KeyStored(i) ==
    /\ ins[i].pc = "erased"
    /\ LET n == ins[i]
           inStore == n.src = "store"
           m == [n EXCEPT !.pairs = <<<<"key", IF inStore THEN None ELSE n.key>>,
                                      <<"source", IF inStore THEN "store" ELSE None>>>>]
       IN  \E ok \in {sfile.fits, FALSE} :
              IF inStore /\ n.key # None
              THEN \/ store' = n.key /\ ins' = Disturbed(i, Read(m, ok))
                   \/ UNCHANGED store /\ With(i, Outside)
              ELSE UNCHANGED store /\ With(i, Read(m, ok))
    /\ UNCHANGED <<sfile, writes>>

\* endpoints_delete erases the key and removes the section; a file that cannot be read is
\* left alone.
DropBegins(i) ==
    /\ ins[i].pc = "idle" /\ Begun
    /\ \/ /\ sfile.fits /\ SettingsGet(sfile.lines, "p", "source") = "store" /\ store' = None
          /\ ins' = Disturbed(i, Read([Outside EXCEPT !.sec = "p", !.drop = TRUE], TRUE))
       \/ /\ sfile.fits /\ UNCHANGED store
          /\ With(i, Read([Outside EXCEPT !.sec = "p", !.drop = TRUE], TRUE))
       \/ /\ ~sfile.fits /\ UNCHANGED store /\ UNCHANGED ins
    /\ UNCHANGED <<sfile>>

--------------------------------------------------------------------------------
\* file_write_atomic, up to the rename: the temporary file is written and synced, or the write
\* fails and the file is as it was. A section that is not there is not written.
TempWritten(i) ==
    /\ ins[i].pc = "read"
    /\ \/ With(i, [ins[i] EXCEPT !.pc = "temp"])
       \/ With(i, Outside)
    /\ UNCHANGED <<sfile, store, writes>>

Out(n) == IF n.drop THEN Removed(n.from, n.sec) ELSE SettingsSet(n.from, n.sec, n.pairs)

Renames(i) ==
    /\ ins[i].pc = "temp"
    /\ sfile' = [lines |-> Out(ins[i]), fits |-> TRUE]
    /\ ins' = Disturbed(i, Outside)
    /\ UNCHANGED <<store, writes>>

\* The process dies, and the temporary file stays behind.
Dies(i) == /\ ins[i].pc # "idle" /\ With(i, Outside)
           /\ UNCHANGED <<sfile, store, writes>>

Pairs == {<<<<"key", v>>>> : v \in {None} \cup Secret} \cup {<<<<"key", v>>, <<"other", v>>>> : v \in {None} \cup Secret}

\* A key is cleared where it is.
Keyed == ({"file", "store"} \X Secret) \cup
         {<<IF SettingsGet(sfile.lines, "p", "source") = "store" THEN "store" ELSE "file", None>>}

StateNext == \/ \E i \in Inst : \/ \E sec \in {"", "p"}, pairs \in Pairs : SetBegins(i, sec, pairs)
                                \/ \E k \in Keyed : KeyBegins(i, k[1], k[2])
                                \/ KeyErases(i) \/ KeyStored(i) \/ DropBegins(i)
                                \/ TempWritten(i) \/ Renames(i) \/ Dies(i)

StateSpec == StateInit /\ [][StateNext]_stateVars

--------------------------------------------------------------------------------
StateTypeOK == /\ store \in {None} \cup Secret
               /\ \A i \in Inst : ins[i].pc \in {"idle", "key", "erased", "read", "temp"}
               /\ \A n \in 1..Len(sfile.lines) : sfile.lines[n].is \in {"section", "setting", "text"}

\* A write that read the whole file, and that nobody disturbed, changes its own keys and not the
\* file: every other line is where it was, in its order, each key reads back as it was set, unless
\* the file held it twice, and a provider's key that was set is the one that is found, a clear whose
\* erase failed left aside
\* (settings_set, endpoints_set_key; tests/cases/test_settings_files.py:43, "comments and order
\* survive").
OwnOf(t, n, m) == IF m.drop THEN SectionAt(t, n) = m.sec
                  ELSE \E p \in 1..Len(m.pairs) : IsSetting(t, n, m.sec, m.pairs[p][1])
OthersOf(t, m) == LET N == SelectSeq([n \in 1..Len(t) |-> n], LAMBDA n : ~OwnOf(t, n, m))
                  IN  [k \in 1..Len(N) |-> <<t[N[k]], SectionAt(t, N[k])>>]
Once(t, m, p)  == Cardinality({n \in 1..Len(t) : IsSetting(t, n, m.sec, m.pairs[p][1])}) <= 1
KeyFound(t, k) == IF SettingsGet(t, "p", "source") = "store" THEN k ELSE SettingsGet(t, "p", "key")
OwnKeysOnly ==
    [][\A i \in Inst : ins[i].pc = "temp" /\ sfile' # sfile /\ ins[i].whole /\ ins[i].alone /\ ins'[i].pc = "idle" =>
          LET m == ins[i]
              t == sfile.lines
              u == sfile'.lines
          IN  /\ OthersOf(u, m) \in {OthersOf(t, m), OthersOf(t, m) \o <<<<Header(m.sec), m.sec>>>>}
              /\ \A p \in 1..Len(m.pairs) : Once(t, m, p) => SettingsGet(u, m.sec, m.pairs[p][1]) = m.pairs[p][2]
              /\ m.src # None /\ (m.key # None \/ m.src = "file") /\ (\A p \in 1..Len(m.pairs) : Once(t, m, p)) => KeyFound(u, store) = m.key]_stateVars
=============================================================================

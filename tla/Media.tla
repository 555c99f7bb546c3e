--------------------------------- MODULE Media ---------------------------------
(* Images: the one table the messages, the results and the composer share (media.c), how
   `/attach` and the markers of a draft fill it (main.c), what of it a request carries
   (provider.c), and its files beside the session (session.c).

   The table is a stack: an image is known by its place in it, and whoever has no use for
   the images above a place cuts the table there. A marker `[Image #n]` is its number n
   and, of the model, the image its author was shown under it. *)
EXTENDS Naturals, Sequences, FiniteSets, SequencesExt, Functions

CONSTANTS
    Picture,          \* images that media_add takes
    ImageBytes,       \* their sizes once encoded
    MediaCap,         \* AGENT_MAX_MEDIA
    PerMessage,       \* AGENT_MAX_MEDIA_PER_TURN
    ImageBudget,      \* image_budget_mb
    RequestImages,    \* AGENT_MAX_REQUEST_IMAGES
    MediaOps          \* bound: steps

ASSUME MediaAssumption == ImageBytes \in [Picture -> 1 .. ImageBudget] /\ PerMessage \in Nat \ {0} /\ RequestImages \in Nat \ {0}

VARIABLES
    table,         \* g_media
    talked,        \* Conv: the slots that carry images, and the users' messages
    pending,       \* Agent.pending: places of the images to send, and, of the model, the images
    draft,         \* the composer: its markers
    queued,        \* the message typed while a turn runs, as its markers, or none
    call,          \* the tool that runs
    mphase,        \* between turns, in one, or running a tool
    record,        \* the session file: slots, and how many of them session.c has written
    sidecars,      \* media/ beside it
    fullScreen,    \* tui_is_fullscreen
    astray,        \* of the model: images were attached where another's place is taken for theirs
    mops

mediaVars == <<table, talked, pending, draft, queued, call, mphase, record, sidecars, fullScreen, astray, mops>>

--------------------------------------------------------------------------------
NoTool == [batch |-> FALSE, off |-> 0, step |-> 0, gave |-> <<>>]
NoQueue == [on |-> FALSE, tags |-> <<>>]
\* A slot: the images after place `off`; of the model, the images that a result gave.
UserSlot(off, n, tags) == [role |-> "user", off |-> off, n |-> n, tags |-> tags, gave |-> <<>>]
ToolSlot(off, n, gave) == [role |-> "tool", off |-> off, n |-> n, tags |-> <<>>, gave |-> gave]

MediaInit ==
    /\ table = <<>> /\ talked = <<>> /\ pending = <<>> /\ draft = <<>> /\ queued = NoQueue /\ call = NoTool
    /\ mphase = "idle" /\ record = [slots |-> <<>>, upto |-> 0] /\ sidecars = {} /\ fullScreen \in BOOLEAN
    /\ astray = FALSE /\ mops = 0

Upto(s, n) == SubSeq(s, 1, IF n < Len(s) THEN n ELSE Len(s))

--------------------------------------------------------------------------------
(* The table. *)

\* media_push: an image that came new is not encoded yet.
Pushed(m, img, live) == Append(m, [img |-> img, live |-> live, enc |-> "none"])

\* media_keep: the images at `ids` move down to `base`, and the table ends with them.
Keeps(m, base, ids) ==
    /\ ids # <<>> /\ base <= Len(m) /\ Len(ids) <= Len(m) - base + 1
    /\ \A i \in DOMAIN ids : base + i - 1 <= ids[i] /\ ids[i] <= Len(m)
MediaKept(m, base, ids) == IF Keeps(m, base, ids) THEN Upto(m, base - 1) \o [i \in DOMAIN ids |-> m[ids[i]]] ELSE m

EncodedSize(m, id) == IF id \in DOMAIN m /\ m[id].live THEN ImageBytes[m[id].img] ELSE 0
Total(f) == FoldFunction(+, 0, f)

--------------------------------------------------------------------------------
(* The markers. *)

Numbers(tags) == {tags[i].num : i \in DOMAIN tags}
\* What the images named by `named` are called when the others go.
NewNumber(named, i) == Cardinality({j \in named : j <= i})
\* A marker of an image that goes is removed, the others follow their images; a marker of no
\* image is text. The bug form leaves the numbers.
Renumbered_Not(tags, named, n) == SelectSeq(tags, LAMBDA t : t.num > n \/ t.num \in named)
Renumbered(tags, named, n) ==
    [i \in DOMAIN Renumbered_Not(tags, named, n) |->
        LET t == Renumbered_Not(tags, named, n)[i]
        IN  IF t.num > n THEN t ELSE [t EXCEPT !.num = NewNumber(named, t.num)]]

Chosen(named) == SetToSortSeq(named, <)

\* pending_drop_unnamed: `s` is the table, the images to send and the draft.
PendingDropped(s, carried) ==
    LET named == {i \in DOMAIN s.pend : i \in Numbers(s.draft) \cup Numbers(carried)}
        base == s.pend[1].id
        ids == [i \in DOMAIN Chosen(named) |-> s.pend[Chosen(named)[i]].id]
    IN  IF s.pend = <<>> \/ ~fullScreen \/ named = DOMAIN s.pend THEN s
        ELSE [table |-> IF named # {} THEN MediaKept(s.table, base, ids) ELSE Upto(s.table, base - 1),
              pend |-> [i \in DOMAIN ids |-> [s.pend[Chosen(named)[i]] EXCEPT !.id = base + i - 1]],
              draft |-> Renumbered(s.draft, named, Len(s.pend))]

\* composer_restore_pending.
Restored(s) ==
    LET lost == DOMAIN s.pend \ Numbers(s.draft)
        new == [i \in DOMAIN Chosen(lost) |-> [num |-> Chosen(lost)[i], of |-> s.pend[Chosen(lost)[i]].of]]
    IN  IF fullScreen THEN [s EXCEPT !.draft = @ \o new] ELSE s

Here(d) == [table |-> table, pend |-> pending, draft |-> d]
Set3(s) == table' = s.table /\ pending' = s.pend /\ draft' = s.draft

\* pending_fits: what all of them come to once encoded.
PendingFits(s, img) == Total([i \in DOMAIN s.pend |-> EncodedSize(s.table, s.pend[i].id)]) + ImageBytes[img] <= ImageBudget

\* attach_image: after markers that a command followed, or with what the draft holds.
Attached(s, img) ==
    Restored(IF Len(s.pend) >= PerMessage \/ Len(s.table) >= MediaCap \/ ~PendingFits(s, img) THEN s
             ELSE [s EXCEPT !.table = Pushed(@, img, TRUE), !.pend = Append(@, [id |-> Len(s.table) + 1, of |-> img])])

--------------------------------------------------------------------------------
(* What a request carries (conv_media_fit, conv_image_sent). *)

Places(t) == [i \in DOMAIN talked |-> [k \in 1 .. talked[i].n |-> talked[i].off + k]]
LiveOf(t, ids) == SelectSeq(ids, LAMBDA id : id \in DOMAIN t /\ t[id].live)
Flat(t) == LiveOf(t, FlattenSeq(Places(t)))
Bytes1(t, ids) == Total([i \in DOMAIN ids |-> EncodedSize(t, ids[i])])

\* image_cut_at: how much of the oldest goes, in steps of half of what is allowed. The bug form
\* takes only whole steps.
ImageCutAt_WholeSteps(total, limit, newest) ==
    LET over == total - limit
        step == IF limit \div 2 = 0 THEN 1 ELSE limit \div 2
        stepped == (over \div step) * step
    IN  IF total <= limit THEN 0 ELSE stepped
ImageCutAt(total, limit, newest) ==
    LET over == total - limit
        step == IF limit \div 2 = 0 THEN 1 ELSE limit \div 2
        stepped == ((over + step - 1) \div step) * step
        spared == IF newest > over THEN newest ELSE over
    IN  IF total <= limit THEN 0 ELSE IF stepped < spared THEN stepped ELSE spared

\* The live images of the newest slot that has any.
Newest(t) ==
    LET with == {i \in DOMAIN talked : LiveOf(t, Places(t)[i]) # <<>>}
    IN  IF with = {} THEN <<>> ELSE LiveOf(t, Places(t)[CHOOSE m \in with : \A o \in with : o <= m])
Carried(t) ==
    LET all == Flat(t)
        before == Len(all) - Len(Newest(t))
        cutBytes == ImageCutAt(Bytes1(t, all), ImageBudget, Bytes1(t, Upto(all, before)))
        cutCount == ImageCutAt(Len(all), RequestImages, before)
        first == {j \in DOMAIN all : Bytes1(t, Upto(all, j - 1)) >= cutBytes /\ j - 1 >= cutCount}
    IN  IF all = <<>> THEN <<>>
        ELSE SubSeq(all, IF first = {} THEN Len(all) ELSE CHOOSE m \in first : \A o \in first : m <= o, Len(all))

--------------------------------------------------------------------------------
(* The session file: sess_put_media, and sess_apply_media. *)

PutMedia(t, slot) ==
    [role |-> slot.role, tags |-> slot.tags, gave |-> slot.gave,
     imgs |-> [k \in 1 .. slot.n |-> t[slot.off + k].img]]
\* The slots not written yet, if every place they name is in the table; a file is written once.
SaveTo(t, s) ==
    LET new == SubSeq(s, record.upto + 1, Len(s))
        valid == \A i \in DOMAIN new : new[i].off + new[i].n <= Len(t) \/ new[i].n = 0
    IN  \/ UNCHANGED <<record, sidecars>>
        \/ /\ valid
           /\ record' = [slots |-> Upto(record.slots, record.upto) \o [i \in DOMAIN new |-> PutMedia(t, new[i])],
                         upto |-> Len(s)]
           /\ sidecars' = sidecars \cup {t[id].img : id \in {p \in DOMAIN t : t[p].live
                                   /\ \E i \in DOMAIN new : p \in new[i].off + 1 .. new[i].off + new[i].n}}

\* One slot read back: a file that is gone leaves its place taken. The bug form leaves it out.
ReadBack_Skips(t, w) == FoldLeft(LAMBDA m, img : IF img \in sidecars THEN Pushed(m, img, TRUE) ELSE m, t, w.imgs)
ReadBack(t, w) == FoldLeft(LAMBDA m, img : IF Len(m) = MediaCap THEN m ELSE Pushed(m, img, img \in sidecars), t, w.imgs)

--------------------------------------------------------------------------------
\* Bound: where images went astray nothing more is asked of them.
MediaStep == ~astray /\ mops < MediaOps /\ mops' = mops + 1

\* The user deletes a marker.
MediaEdits ==
    /\ MediaStep /\ \E i \in DOMAIN draft : draft' = RemoveAt(draft, i)
    /\ UNCHANGED <<table, talked, pending, queued, call, mphase, record, sidecars, fullScreen, astray>>

\* `/attach`, the clipboard or a picked path, at any time; and typed after the markers of the draft.
MediaAttach ==
    /\ MediaStep /\ (mphase = "idle" \/ fullScreen)
    /\ \E img \in Picture, shed \in {FALSE} \cup {b \in BOOLEAN : mphase = "idle" /\ draft # <<>>} :
          LET carried == IF shed THEN draft ELSE <<>>
              s1 == PendingDropped(Here(IF shed THEN <<>> ELSE draft), carried)
              s2 == Attached(s1, img)
          IN  /\ Set3(IF shed THEN Restored(PendingDropped(s2, carried)) ELSE s2)
              /\ astray' = (astray \/ (mphase = "tool" /\ table # s2.table)
                                    \/ (queued.tags # <<>> /\ s1 # Here(draft)))
    /\ UNCHANGED <<talked, queued, call, mphase, record, sidecars, fullScreen>>

\* Another command typed after the markers.
MediaCommand ==
    /\ MediaStep /\ mphase = "idle" /\ draft # <<>> /\ Set3(Restored(PendingDropped(Here(<<>>), draft)))
    /\ UNCHANGED <<talked, queued, call, mphase, record, sidecars, fullScreen, astray>>

\* turn_bind_images and agent_turn: the message takes the images it names, the others are gone.
Bound(tags) ==
    LET some == {i \in DOMAIN pending : i \in Numbers(tags)}
        named == IF some = {} /\ ~fullScreen THEN DOMAIN pending ELSE some
        ids == [i \in DOMAIN Chosen(named) |-> pending[Chosen(named)[i]].id]
        lost == Chosen(named \ Numbers(tags))
        text == Renumbered(tags, named, Len(pending))
                \o [i \in DOMAIN lost |-> [num |-> NewNumber(named, lost[i]), of |-> pending[lost[i]].of]]
    IN  IF named = {} THEN [table |-> table, slot |-> UserSlot(0, 0, text)]
        ELSE [table |-> MediaKept(table, pending[1].id, ids),
              slot |-> UserSlot(IF Keeps(table, pending[1].id, ids) THEN pending[1].id - 1 ELSE Len(table), Len(ids), text)]
Turns(tags) ==
    LET b == Bound(tags)
    IN  /\ table' = b.table /\ talked' = Append(talked, b.slot) /\ pending' = <<>> /\ mphase' = "turn"
        /\ SaveTo(b.table, Append(talked, b.slot))

MediaSend ==
    /\ MediaStep /\ mphase = "idle" /\ Turns(draft) /\ draft' = <<>>
    /\ UNCHANGED <<queued, call, fullScreen, astray>>

\* Enter while a turn runs.
MediaQueue ==
    /\ MediaStep /\ fullScreen /\ mphase # "idle" /\ ~queued.on
    /\ queued' = [on |-> TRUE, tags |-> draft] /\ draft' = <<>>
    /\ UNCHANGED <<table, talked, pending, call, mphase, record, sidecars, fullScreen, astray>>

\* build_request: an image is encoded once, if the encoding finds room.
MediaRequest ==
    /\ MediaStep /\ mphase = "turn"
    /\ \E room \in BOOLEAN :
          table' = [id \in DOMAIN table |-> IF room /\ id \in Range(Carried(table)) /\ table[id].enc = "none"
                                            THEN [table[id] EXCEPT !.enc = table[id].img] ELSE table[id]]
    /\ UNCHANGED <<talked, pending, draft, queued, call, mphase, record, sidecars, fullScreen, astray>>

--------------------------------------------------------------------------------
(* run_regular_tool and batch_answer. *)

MediaToolBegins ==
    /\ MediaStep /\ mphase = "turn" /\ mphase' = "tool"
    /\ \E b \in BOOLEAN : call' = [batch |-> b, off |-> Len(table), step |-> Len(table), gave |-> <<>>]
    /\ UNCHANGED <<table, talked, pending, draft, queued, record, sidecars, fullScreen, astray>>

\* A file that is read, or a block of what a server answers, is an image.
MediaToolImage ==
    /\ MediaStep /\ mphase = "tool" /\ Len(table) < MediaCap /\ Len(call.gave) < PerMessage
    /\ \E img \in Picture : table' = Pushed(table, img, TRUE) /\ call' = [call EXCEPT !.gave = Append(@, img)]
    /\ astray' = (astray \/ pending # <<>>)
    /\ UNCHANGED <<talked, pending, draft, queued, mphase, record, sidecars, fullScreen>>

\* The call of a server failed after some of its images were taken (mcp_call).
CallLost(t) == Upto(t, call.step)
Since(t) == IF Len(t) > call.off THEN Len(t) - call.off ELSE 0
MediaToolEnds ==
    /\ MediaStep /\ mphase = "tool"
    /\ \E ok \in BOOLEAN :
          LET t == IF ok THEN table ELSE CallLost(table)
              gave == IF ok THEN call.gave ELSE Upto(call.gave, call.step - call.off)
              slot == ToolSlot(call.off, Since(t), gave)
          IN  /\ table' = t
              /\ \/ /\ talked' = Append(talked, slot) /\ mphase' = "turn" /\ call' = NoTool /\ SaveTo(t, Append(talked, slot))
                 \/ /\ call.batch /\ ok /\ call.step < Len(t) /\ call' = [call EXCEPT !.step = Len(t)]
                    /\ UNCHANGED <<talked, mphase, record, sidecars>>
    /\ UNCHANGED <<pending, draft, queued, fullScreen, astray>>

\* The turn is over: a message that was queued is the next.
MediaTurnEnds ==
    /\ MediaStep /\ mphase = "turn"
    /\ \/ /\ ~queued.on /\ mphase' = "idle" /\ SaveTo(table, talked) /\ UNCHANGED <<table, talked, pending, queued, astray>>
       \/ /\ queued.on /\ Turns(queued.tags) /\ queued' = NoQueue
          /\ astray' = (astray \/ (pending # <<>> /\ draft # <<>>))
    /\ UNCHANGED <<draft, call, fullScreen>>

--------------------------------------------------------------------------------
(* Between turns. *)

\* conv_truncate: the table ends with the last image of what is left.
Live0(s) == {0} \cup {s[i].off + s[i].n : i \in {j \in DOMAIN s : s[j].n > 0}}
TruncatedTable(t, s) == Upto(t, CHOOSE m \in Live0(s) : \A o \in Live0(s) : o <= m)

\* rewind_to_message: the images of the message are to send again. The bug form cuts them off.
Rewound_Cut(slot, m) == TruncatedTable(table, m)
Rewound(slot, m) == IF slot.n \in 1 .. PerMessage THEN Upto(table, slot.off + slot.n) ELSE TruncatedTable(table, m)
MediaRewind ==
    /\ MediaStep /\ fullScreen /\ mphase = "idle"
    /\ \E i \in {j \in DOMAIN talked : talked[j].role = "user"} :
          LET m == Upto(talked, i - 1) IN
          /\ talked' = m /\ table' = Rewound(talked[i], m) /\ draft' = talked[i].tags
          /\ pending' = IF talked[i].n > PerMessage THEN <<>>
                        ELSE [k \in 1 .. talked[i].n |-> [id |-> talked[i].off + k,
                                 of |-> (CHOOSE x \in Range(talked[i].tags) : x.num = k).of]]
          /\ record' = [record EXCEPT !.upto = IF @ < i THEN @ ELSE i - 1]
    /\ UNCHANGED <<queued, call, mphase, sidecars, fullScreen, astray>>

\* compact_session with a tail to keep (conv_compact_head): the images of the head stay in the table.
MediaCompact ==
    /\ MediaStep /\ mphase = "idle"
    /\ \E k \in DOMAIN talked :
          /\ talked' = <<UserSlot(0, 0, <<>>)>> \o SubSeq(talked, k + 1, Len(talked))
          /\ record' = [slots |-> <<>>, upto |-> 0]
    /\ UNCHANGED <<table, pending, draft, queued, call, mphase, sidecars, fullScreen, astray>>

\* `/clear`, and another file of `media/` is deleted by hand.
MediaClear ==
    /\ MediaStep /\ mphase = "idle" /\ talked # <<>>
    /\ table' = <<>> /\ talked' = <<>> /\ pending' = <<>> /\ draft' = <<>> /\ record' = [slots |-> <<>>, upto |-> 0]
    /\ UNCHANGED <<queued, call, mphase, sidecars, fullScreen, astray>>
MediaFileLost ==
    /\ MediaStep /\ mphase = "idle" /\ \E img \in sidecars : sidecars' = sidecars \ {img}
    /\ UNCHANGED <<table, talked, pending, draft, queued, call, mphase, record, fullScreen, astray>>

\* session_apply, in this process or in another one.
MediaResume ==
    /\ MediaStep /\ mphase = "idle" /\ record.slots # <<>>
    /\ LET ends == [i \in 0 .. Len(record.slots) |-> FoldLeft(ReadBack, <<>>, Upto(record.slots, i))]
       IN  /\ table' = ends[Len(record.slots)]
           /\ talked' = [i \in DOMAIN record.slots |->
                          LET w == record.slots[i] IN [role |-> w.role, off |-> Len(ends[i - 1]), n |-> Len(ends[i]) - Len(ends[i - 1]),
                                                       tags |-> w.tags, gave |-> w.gave]]
    /\ pending' = <<>> /\ draft' = <<>> /\ record' = [record EXCEPT !.upto = Len(record.slots)]
    /\ UNCHANGED <<queued, call, mphase, sidecars, fullScreen, astray>>

MediaNext ==
    \/ MediaEdits \/ MediaAttach \/ MediaCommand \/ MediaSend \/ MediaQueue \/ MediaRequest
    \/ MediaToolBegins \/ MediaToolImage \/ MediaToolEnds \/ MediaTurnEnds
    \/ MediaRewind \/ MediaCompact \/ MediaClear \/ MediaFileLost \/ MediaResume

--------------------------------------------------------------------------------
\* Every variable has its type.
MediaTypeOK ==
    /\ Len(table) <= MediaCap /\ Len(pending) <= PerMessage /\ mphase \in {"idle", "turn", "tool"}
    /\ \A id \in DOMAIN table : table[id].img \in Picture
    /\ record.upto <= Len(record.slots) /\ sidecars \subseteq Picture

\* Image k of a slot.
ImageOf(slot, k) == table[slot.off + k].img
\* A message shows under every marker the image that was shown there when it was written, and no
\* image without a marker; a result shows the images it gave.
SlotTrue(slot) ==
    /\ slot.n > 0 => slot.off + slot.n <= Len(table)
    /\ \A t \in Range(slot.tags) : t.num \in 1 .. slot.n /\ ImageOf(slot, t.num) = t.of
    /\ slot.role = "user" => Numbers(slot.tags) = 1 .. slot.n
    /\ slot.role = "tool" => [k \in 1 .. slot.n |-> ImageOf(slot, k)] = slot.gave
DraftTrue ==
    /\ \A i \in DOMAIN pending : pending[i].id \in DOMAIN table /\ table[pending[i].id].img = pending[i].of
    /\ \A t \in Range(draft) \cup Range(queued.tags) : t.num \in DOMAIN pending /\ pending[t.num].of = t.of

\* A request carries the newest images, no more than it may, and all of the newest slot that fit.
FitTrue ==
    LET c == Carried(table) IN
    /\ Bytes1(table, c) <= ImageBudget /\ Len(c) <= RequestImages
    /\ LET newest == Newest(table)
       IN  Bytes1(table, newest) <= ImageBudget /\ Len(newest) <= RequestImages => IsSuffix(newest, c)
    /\ \A id \in Range(c) : table[id].enc \in {"none", table[id].img}

\* Whatever is attached, unnamed, sent, rewound, compacted and resumed, an image stays with the
\* marker or the result it was shown under.
ImagesTrue == FitTrue /\ (~astray => DraftTrue /\ \A i \in DOMAIN talked : SlotTrue(talked[i]))
===============================================================================

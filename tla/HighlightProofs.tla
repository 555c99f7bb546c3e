--------------------------- MODULE HighlightProofs ---------------------------
(***************************************************************************)
(* Theorems about the highlighting helper, for any texts, any number of    *)
(* attempts, strikes, requests and slow answers. The inductive invariant   *)
(* is about the innermost request and the two pipes: either they hold      *)
(* exactly what that request wrote or is owed, or the first thing it will  *)
(* read is not the answer to it.                                           *)
(***************************************************************************)
EXTENDS Highlight, SequenceTheorems, TLAPS

Texts     == Text \cup {NoText, Diff, Garbage}
Stages    == {"header", "source", "reply", "runs"}
ClientRec == [disabled : BOOLEAN, id : Nat, strikes : Nat, lang : Nat]
HelperRec == [runs : BOOLEAN, want : {"header", "source", "gone"}, id : Nat]
FrameRec  == [id : Nat, at : Stages, md : BOOLEAN, tries : Nat]
BlockRec  == [source : Texts, lines : Texts]
Request   == [is : {"header", "source"}, id : Nat, text : Texts]
Answer    == [is : {"reply", "run"}, id : Nat, status : {"ok", "none", "internal"}, text : Texts]

TypesOK == /\ client \in ClientRec /\ helper \in HelperRec /\ block \in BlockRec
           /\ toHelper \in Seq(Request) /\ fromHelper \in Seq(Answer)
           /\ frames \in Seq(FrameRec) /\ Len(frames) <= 2

--------------------------------------------------------------------------------
\* Every id was given out.
Issued == /\ helper.id < client.id
          /\ \A k \in DOMAIN frames : frames[k].id < client.id
          /\ \A k \in DOMAIN toHelper : toHelper[k].id < client.id
          /\ \A k \in DOMAIN fromHelper : fromHelper[k].id < client.id

\* The colours of a text go to the lines that have it, if they are still known.
BlockOK == block.lines \in {NoText, block.source}

Right(f, b, x) == IF f.md THEN b.lines \in {NoText, x} ELSE x = Diff

\* The messages of request k with text x.
HeaderOf(k)    == [is |-> "header", id |-> k, text |-> NoText]
SourceOf(k, x) == [is |-> "source", id |-> k, text |-> x]
ReplyOf(k, s, x) == [is |-> "reply", id |-> k, status |-> s, text |-> x]
RunOf(k, x)    == [is |-> "run", id |-> k, status |-> "ok", text |-> x]

\* Nothing is in the pipes, and the helper reads no source.
Quiet(h, to, from) == to = <<>> /\ from = <<>> /\ h.want \in {"header", "gone"}

\* Request f has written its header at most, and nothing else is in the pipes.
Asked(f, h, to, from) ==
    /\ from = <<>>
    /\ \/ f.at = "header" /\ to = <<>> /\ h.want = "header"
       \/ f.at = "source" /\ to = <<HeaderOf(f.id)>> /\ h.want = "header"
       \/ f.at = "source" /\ to = <<>> /\ h.want = "source" /\ h.id = f.id

\* It has written text x, and what it is owed is all there is.
Sent(f, h, to, from, x) ==
    \/ /\ f.at = "reply" /\ from = <<>>
       /\ \/ to = <<HeaderOf(f.id), SourceOf(f.id, x)>> /\ h.want = "header"
          \/ to = <<SourceOf(f.id, x)>> /\ h.want = "source" /\ h.id = f.id
    \/ /\ to = <<>> /\ h.want \in {"header", "gone"}
       /\ \/ f.at = "reply" /\ from = <<ReplyOf(f.id, "ok", x), RunOf(f.id, x)>>
          \/ f.at = "reply" /\ \E s \in {"none", "internal"} : from = <<ReplyOf(f.id, s, x)>>
          \/ f.at = "runs" /\ from = <<RunOf(f.id, x)>>

\* It will read no answer of its own: something else comes first, or nothing.
Lost(f, h, to, from) ==
    \/ from # <<>> /\ f.at # "runs" /\ ~IsReply(Head(from), f.id)
    \/ from = <<>> /\ h.want = "gone"
    \/ from = <<>> /\ h.want = "source" /\ h.id # f.id /\ f.at # "runs"
    \/ from = <<>> /\ h.want = "header" /\ to # <<>> /\ Head(to).is = "source"
    \/ from = <<>> /\ h.want = "header" /\ to # <<>> /\ Head(to).id # f.id /\ f.at # "runs"
    \/ from = <<>> /\ h.want = "header" /\ to = <<>> /\ f.at # "header"

Piped(f, b, h, to, from) ==
    \/ Asked(f, h, to, from)
    \/ \E x \in Texts : Right(f, b, x) /\ Sent(f, h, to, from, x)
    \/ Lost(f, h, to, from)

PipesOK ==
    /\ ~helper.runs => toHelper = <<>> /\ fromHelper = <<>>
    /\ helper.runs /\ frames = <<>> => Quiet(helper, toHelper, fromHelper)
    /\ helper.runs /\ frames # <<>> => Piped(Top, block, helper, toHelper, fromHelper)

IInv == TypesOK /\ Issued /\ BlockOK /\ PipesOK /\ ColoursOfText

--------------------------------------------------------------------------------
LEMMA Empties == /\ <<>> \in Seq(Request) /\ <<>> \in Seq(Answer) /\ <<>> \in Seq(FrameRec) /\ Len(<<>>) = 0
                 /\ DOMAIN <<>> = {}
OBVIOUS

LEMMA FramesAre ==
    ASSUME frames \in Seq(FrameRec), frames # <<>>
    PROVE  /\ Top \in FrameRec /\ Len(frames) \in DOMAIN frames /\ Len(frames) >= 1
           /\ Front(frames) \in Seq(FrameRec) /\ Len(Front(frames)) = Len(frames) - 1
           /\ \A k \in DOMAIN Front(frames) : k \in DOMAIN frames /\ Front(frames)[k] = frames[k]
<1>1. Len(frames) \in 1..Len(frames) /\ frames[Len(frames)] \in FrameRec
  OBVIOUS
<1>2. Front(frames) \in Seq(FrameRec) /\ Len(Front(frames)) = Len(frames) - 1
      /\ \A k \in 1..(Len(frames) - 1) : Front(frames)[k] = frames[k]
  <2> DEFINE n == Len(frames) - 1
  <2>1. n \in Int /\ 1 \in Int /\ n >= 0 /\ \A i \in 1..n : frames[i] \in FrameRec
    OBVIOUS
  <2>2. SubSeq(frames, 1, n) \in Seq(FrameRec) /\ Len(SubSeq(frames, 1, n)) = IF 1 <= n THEN n - 1 + 1 ELSE 0
    <3> HIDE DEF n
    <3> QED
      BY <2>1, SubSeqProperties
  <2>3. Len(SubSeq(frames, 1, n)) = n
    <3> HIDE DEF n
    <3> QED
      BY <2>1, <2>2
  <2>4. \A k \in 1..n : SubSeq(frames, 1, n)[k] = frames[k]
    <3>1. \A k \in 1..(n - 1 + 1) : SubSeq(frames, 1, n)[k] = frames[1 + k - 1]
      <4> HIDE DEF n
      <4> QED
        BY <2>1, SubSeqProperties
    <3> HIDE DEF n
    <3>2. n - 1 + 1 = n /\ \A k \in 1..n : 1 + k - 1 = k
      BY <2>1
    <3> QED
      BY <3>1, <3>2
  <2> QED
    BY <2>2, <2>3, <2>4 DEF Front
<1>3. \A k \in DOMAIN Front(frames) : k \in DOMAIN frames /\ Front(frames)[k] = frames[k]
  <2>1. DOMAIN Front(frames) = 1..(Len(frames) - 1) /\ DOMAIN frames = 1..Len(frames) /\ Len(frames) \in Nat
    BY <1>2
  <2>2. \A k \in 1..(Len(frames) - 1) : k \in 1..Len(frames)
    BY <2>1
  <2> QED
    BY <1>2, <2>1, <2>2
<1> QED
  BY <1>1, <1>2, <1>3 DEF Top, Last

LEMMA PushIs ==
    ASSUME NEW fs \in Seq(FrameRec), NEW f \in FrameRec
    PROVE  /\ Append(fs, f) \in Seq(FrameRec) /\ Append(fs, f) # <<>> /\ Len(Append(fs, f)) = Len(fs) + 1
           /\ Last(Append(fs, f)) = f
<1>1. Append(fs, f) \in Seq(FrameRec) /\ Len(Append(fs, f)) = Len(fs) + 1 /\ Append(fs, f)[Len(fs) + 1] = f
  OBVIOUS
<1> QED
  BY <1>1 DEF Last

LEMMA TopNowIs ==
    ASSUME NEW fs \in Seq(FrameRec), fs # <<>>, NEW f \in FrameRec
    PROVE  LET gs == [fs EXCEPT ![Len(fs)] = f]
           IN  gs \in Seq(FrameRec) /\ gs # <<>> /\ Len(gs) = Len(fs) /\ Last(gs) = f
<1> DEFINE gs == [fs EXCEPT ![Len(fs)] = f]
<1>1. Len(fs) \in 1..Len(fs) /\ gs \in Seq(FrameRec) /\ Len(gs) = Len(fs)
  OBVIOUS
<1>2. gs[Len(fs)] = f
  BY <1>1
<1> QED
  BY <1>1, <1>2 DEF Last

LEMMA OneTwo ==
    ASSUME NEW a, NEW b
    PROVE  /\ Append(<<>>, a) = <<a>> /\ Append(<<a>>, b) = <<a, b>>
           /\ Head(<<a>>) = a /\ Tail(<<a>>) = <<>> /\ Head(<<a, b>>) = a /\ Tail(<<a, b>>) = <<b>>
           /\ <<a>> # <<>> /\ <<a, b>> # <<>>
<1>1. Append(<<>>, a) = <<a>>
  OBVIOUS
<1>2. Append(<<a>>, b) = <<a, b>>
  <2>1. <<a>> \in Seq({a, b}) /\ <<a, b>> \in Seq({a, b}) /\ Len(<<a>>) = 1 /\ Len(<<a, b>>) = 2
    OBVIOUS
  <2>2. Append(<<a>>, b) \in Seq({a, b}) /\ Len(Append(<<a>>, b)) = 2
    BY <2>1
  <2>3. \A i \in 1..2 : Append(<<a>>, b)[i] = <<a, b>>[i]
    BY <2>1
  <2> QED
    BY <2>1, <2>2, <2>3, SeqEqual
<1>3. Head(<<a>>) = a /\ Head(<<a, b>>) = a
  OBVIOUS
<1>4. Tail(<<a>>) = <<>>
  OBVIOUS
<1>5. Tail(<<a, b>>) = <<b>>
  OBVIOUS
<1>6. <<a>> # <<>> /\ <<a, b>> # <<>>
  OBVIOUS
<1> QED
  BY <1>1, <1>2, <1>3, <1>4, <1>5, <1>6

LEMMA AddIs ==
    ASSUME NEW S, NEW q \in Seq(S), NEW m \in S
    PROVE  /\ Append(q, m) \in Seq(S) /\ Append(q, m) # <<>> /\ (q # <<>> => Head(Append(q, m)) = Head(q))
           /\ \A k \in DOMAIN Append(q, m) : Append(q, m)[k] = m \/ (k \in DOMAIN q /\ Append(q, m)[k] = q[k])
<1>1. Append(q, m) \in Seq(S) /\ Len(Append(q, m)) = Len(q) + 1
  OBVIOUS
<1>2. \A k \in 1..(Len(q) + 1) : Append(q, m)[k] = IF k = Len(q) + 1 THEN m ELSE q[k]
  OBVIOUS
<1>3. q # <<>> => Head(Append(q, m)) = Head(q)
  BY <1>1, <1>2
<1>4. Append(q, m) # <<>>
  <2>1. Len(q) \in Nat /\ Len(<<>>) = 0
    OBVIOUS
  <2> QED
    BY <1>1, <2>1
<1>5. DOMAIN Append(q, m) = 1..(Len(q) + 1) /\ DOMAIN q = 1..Len(q) /\ Len(q) \in Nat
  BY <1>1
<1>6. \A k \in DOMAIN Append(q, m) : Append(q, m)[k] = m \/ (k \in DOMAIN q /\ Append(q, m)[k] = q[k])
  <2> HIDE <1>1
  <2> QED
    BY <1>2, <1>5
<1> QED
  BY <1>1, <1>3, <1>4, <1>6

LEMMA TakeIs ==
    ASSUME NEW S, NEW q \in Seq(S), q # <<>>
    PROVE  /\ Head(q) \in S /\ Tail(q) \in Seq(S) /\ 1 \in DOMAIN q /\ Head(q) = q[1]
           /\ \A k \in DOMAIN Tail(q) : k + 1 \in DOMAIN q /\ Tail(q)[k] = q[k + 1]
OBVIOUS

LEMMA Initially == HlInit => IInv
<1> SUFFICES ASSUME HlInit PROVE IInv
  OBVIOUS
<1>1. client \in ClientRec /\ helper \in HelperRec
  BY DEF HlInit, ClientRec, HelperRec
<1>2. block \in BlockRec
  BY DEF HlInit, BlockRec, Texts
<1>3. TypesOK
  BY <1>1, <1>2, Empties DEF HlInit, TypesOK
<1>4. Issued /\ BlockOK
  BY Empties DEF HlInit, Issued, BlockOK
<1>5. PipesOK /\ ColoursOfText
  BY DEF HlInit, PipesOK, ColoursOfText
<1> QED
  BY <1>3, <1>4, <1>5 DEF IInv
--------------------------------------------------------------------------------
\* The colours of a request that waits stay right when the lines of its block are forgotten.
LEMMA ForgottenStays ==
    ASSUME NEW f, NEW b, NEW c, NEW h, NEW to, NEW from, Piped(f, b, h, to, from), c.lines = NoText
    PROVE  Piped(f, c, h, to, from)
<1>1. \A x : Right(f, b, x) => Right(f, c, x)
  BY DEF Right
<1> QED
  BY <1>1 DEF Piped

\* A new request is asked, or what is in the pipes belongs to another: every id was given out.
LEMMA NewIsPiped ==
    ASSUME NEW f, NEW b, NEW h \in HelperRec, NEW to \in Seq(Request), NEW from \in Seq(Answer), f.at = "header",
           h.id < f.id, \A k \in DOMAIN to : to[k].id < f.id, \A k \in DOMAIN from : from[k].id < f.id,
           f.id \in Nat
    PROVE  Piped(f, b, h, to, from)
<1>1. CASE from # <<>>
  <2>1. Head(from) \in Answer /\ Head(from).id < f.id
    BY <1>1, TakeIs
  <2>2. Head(from).id # f.id
    BY <2>1 DEF Answer
  <2> QED
    BY <1>1, <2>2 DEF Piped, Lost, IsReply
<1>2. CASE from = <<>> /\ h.want = "header" /\ to # <<>>
  <2>1. Head(to) \in Request /\ Head(to).id < f.id
    BY <1>2, TakeIs
  <2>2. Head(to).id # f.id
    BY <2>1 DEF Request
  <2> QED
    BY <1>2, <2>2 DEF Piped, Lost
<1>3. CASE from = <<>> /\ h.want = "header" /\ to = <<>>
  BY <1>3 DEF Piped, Asked
<1>4. CASE from = <<>> /\ h.want # "header"
  <2>1. h.want \in {"source", "gone"} /\ h.id # f.id
    BY <1>4 DEF HelperRec
  <2> QED
    BY <1>4, <2>1 DEF Piped, Lost
<1> QED
  BY <1>1, <1>2, <1>3, <1>4

\* With quiet pipes, a request that had only begun goes on, and any other waits for nothing.
LEMMA QuietIsPiped ==
    ASSUME NEW f \in FrameRec, NEW b, NEW h, NEW to, NEW from, Quiet(h, to, from)
    PROVE  Piped(f, b, h, to, from)
BY DEF Quiet, Piped, Asked, Lost

\* Ids are numbers, and what was given out stays given out.
LEMMA IdsAre ==
    /\ \A q \in Seq(FrameRec) : \A k \in DOMAIN q : q[k].id \in Nat
    /\ \A q \in Seq(Request) : \A k \in DOMAIN q : q[k].id \in Nat
    /\ \A q \in Seq(Answer) : \A k \in DOMAIN q : q[k].id \in Nat
<1>1. \A q \in Seq(Request) : \A k \in DOMAIN q : q[k] \in Request
  OBVIOUS
<1>2. \A q \in Seq(Answer) : \A k \in DOMAIN q : q[k] \in Answer
  OBVIOUS
<1>3. \A q \in Seq(FrameRec) : \A k \in DOMAIN q : q[k] \in FrameRec
  OBVIOUS
<1>4. (\A m \in Request : m.id \in Nat) /\ (\A m \in Answer : m.id \in Nat) /\ (\A m \in FrameRec : m.id \in Nat)
  BY DEF Request, Answer, FrameRec
<1> QED
  BY <1>1, <1>2, <1>3, <1>4

LEMMA NextIdIs ==
    ASSUME NEW c \in ClientRec
    PROVE  LET d == [c EXCEPT !.id = @ + 1] IN d \in ClientRec /\ d.id = c.id + 1 /\ d.disabled = c.disabled
<1> DEFINE d == [c EXCEPT !.id = @ + 1]
<1>1. d = [disabled |-> c.disabled, id |-> c.id + 1, strikes |-> c.strikes, lang |-> c.lang]
  BY DEF ClientRec
<1>2. c.disabled \in BOOLEAN
  BY DEF ClientRec
<1>3. c.id + 1 \in Nat /\ c.strikes \in Nat /\ c.lang \in Nat
  BY DEF ClientRec
<1> HIDE DEF d
<1>4. d \in ClientRec
  BY <1>1, <1>2, <1>3, Zenon DEF ClientRec
<1> QED
  BY <1>1, <1>4 DEF d

LEMMA PushKeeps ==
    ASSUME IInv, NEW md \in BOOLEAN, CanAsk, Highlights(md), ~Refuses
    PROVE  /\ client' \in ClientRec /\ helper' \in HelperRec /\ toHelper' \in Seq(Request) /\ fromHelper' \in Seq(Answer)
           /\ frames' \in Seq(FrameRec) /\ Len(frames') <= 2 /\ frames' # <<>> /\ Issued' /\ helper'.runs
           /\ \A b : Piped(Top', b, helper', toHelper', fromHelper')
<1> DEFINE f == Frame(md, 1)
<1>1. client \in ClientRec /\ helper \in HelperRec /\ toHelper \in Seq(Request) /\ fromHelper \in Seq(Answer)
      /\ frames \in Seq(FrameRec)
  BY DEF IInv, TypesOK
<1>2. Started /\ client' = [client EXCEPT !.id = @ + 1] /\ frames' = Append(frames, f) /\ ~client.disabled
  BY DEF Highlights, Refuses
<1>3. f \in FrameRec /\ f.id = client.id /\ f.at = "header" /\ client.id \in Nat
  BY <1>1 DEF Frame, FrameRec, ClientRec, Stages
<1>4. frames' \in Seq(FrameRec) /\ frames' # <<>> /\ Len(frames') = Len(frames) + 1 /\ Top' = f
  <2> HIDE DEF f
  <2> QED
    BY <1>1, <1>2, <1>3, PushIs DEF Top
<1>5. client' \in ClientRec /\ client'.id = client.id + 1
  BY <1>1, <1>2, NextIdIs
<1>6. /\ helper' \in HelperRec /\ toHelper' \in Seq(Request) /\ fromHelper' \in Seq(Answer) /\ helper'.runs
      /\ helper'.id < client.id
      /\ \A k \in DOMAIN toHelper' : toHelper'[k].id < client.id
      /\ \A k \in DOMAIN fromHelper' : fromHelper'[k].id < client.id
  <2>1. CASE helper.runs
    BY <1>1, <1>2, <2>1 DEF Started, IInv, Issued
  <2>2. CASE ~helper.runs
    <3>1. helper' = [runs |-> TRUE, want |-> "header", id |-> 0] /\ toHelper' = <<>> /\ fromHelper' = <<>>
      BY <1>2, <2>2 DEF Started
    <3>2. helper.id < client.id /\ helper.id \in Nat
      BY <1>1 DEF IInv, Issued, HelperRec
    <3>3. helper' \in HelperRec /\ helper'.runs /\ helper'.id = 0
      BY <3>1 DEF HelperRec
    <3>4. helper'.id < client.id
      BY <3>2, <3>3, <1>3
    <3> QED
      BY <3>1, <3>3, <3>4, Empties
  <2> QED
    BY <2>1, <2>2
<1>7. Issued'
  <2>1. helper'.id < client'.id
    BY <1>3, <1>5, <1>6 DEF HelperRec
  <2>2. ASSUME NEW k \in DOMAIN toHelper' PROVE toHelper'[k].id < client'.id
    <3>1. toHelper'[k].id < client.id /\ toHelper'[k].id \in Nat
      BY <1>6, IdsAre
    <3> QED
      BY <3>1, <1>3, <1>5
  <2>3. ASSUME NEW k \in DOMAIN fromHelper' PROVE fromHelper'[k].id < client'.id
    <3>1. fromHelper'[k].id < client.id /\ fromHelper'[k].id \in Nat
      BY <1>6, IdsAre
    <3> QED
      BY <3>1, <1>3, <1>5
  <2>4. ASSUME NEW k \in DOMAIN frames' PROVE frames'[k].id < client'.id
    <3>1. frames'[k] = f \/ (k \in DOMAIN frames /\ frames'[k] = frames[k])
      <4> HIDE DEF f
      <4> QED
        BY <1>1, <1>2, <1>3, AddIs
    <3>2. frames'[k].id <= client.id /\ frames'[k].id \in Nat
      <4>1. CASE frames'[k] = f
        <5> HIDE DEF f
        <5> QED
          BY <4>1, <1>3
      <4>2. CASE k \in DOMAIN frames /\ frames'[k] = frames[k]
        <5>1. frames[k].id < client.id /\ frames[k].id \in Nat
          BY <4>2, <1>1, IdsAre DEF IInv, Issued
        <5> QED
          BY <4>2, <5>1, <1>3
      <4> QED
        BY <3>1, <4>1, <4>2
    <3> QED
      BY <3>2, <1>3, <1>5
  <2> QED
    BY <2>1, <2>2, <2>3, <2>4 DEF Issued
<1>8. ASSUME NEW b PROVE Piped(Top', b, helper', toHelper', fromHelper')
  <2>1. Piped(f, b, helper', toHelper', fromHelper')
    <3> HIDE DEF f
    <3> QED
      BY <1>3, <1>6, NewIsPiped
  <2> QED
    BY <1>4, <2>1
<1>9. Len(frames') <= 2
  BY <1>1, <1>4 DEF CanAsk
<1> QED
  BY <1>4, <1>5, <1>6, <1>7, <1>8, <1>9

--------------------------------------------------------------------------------
\* A request that is refused changes nothing but the block.
LEMMA RefusedKeeps ==
    ASSUME IInv, Refuses, NEW md, Highlights(md), block' \in BlockRec, block'.lines = NoText \/ block' = block,
           UNCHANGED coloured
    PROVE  IInv'
<1>1. UNCHANGED <<client, helper, toHelper, fromHelper, frames>>
  BY DEF Highlights
<1>2. TypesOK'
  BY <1>1 DEF IInv, TypesOK
<1>3. Issued' /\ ColoursOfText'
  BY <1>1 DEF IInv, Issued, ColoursOfText
<1>4. BlockOK'
  BY DEF IInv, BlockOK
<1>5. PipesOK'
  <2>1. Top' = Top
    BY <1>1 DEF Top
  <2>2. (helper'.runs <=> helper.runs) /\ (frames' = frames)
    BY <1>1
  <2>3. (helper.runs /\ frames # <<>>) => Piped(Top', block', helper', toHelper', fromHelper')
    <3>1. (helper.runs /\ frames # <<>>) => Piped(Top, block, helper, toHelper, fromHelper)
      BY DEF IInv, PipesOK
    <3>2. (helper.runs /\ frames # <<>>) => Piped(Top, block', helper, toHelper, fromHelper)
      BY <3>1, ForgottenStays
    <3> QED
      BY <1>1, <2>1, <3>2
  <2>4. (~helper.runs => toHelper = <<>> /\ fromHelper = <<>>)
        /\ (helper.runs /\ frames = <<>> => Quiet(helper, toHelper, fromHelper))
    BY DEF IInv, PipesOK
  <2> QED
    BY <1>1, <2>3, <2>4 DEF PipesOK
<1> QED
  BY <1>2, <1>3, <1>4, <1>5 DEF IInv

LEMMA AskedKeeps ==
    ASSUME IInv, ~Refuses, CanAsk, NEW md \in BOOLEAN, Highlights(md), block' \in BlockRec, BlockOK', UNCHANGED coloured
    PROVE  IInv'
<1>1. /\ client' \in ClientRec /\ helper' \in HelperRec /\ toHelper' \in Seq(Request) /\ fromHelper' \in Seq(Answer)
      /\ frames' \in Seq(FrameRec) /\ Len(frames') <= 2 /\ frames' # <<>> /\ Issued' /\ helper'.runs
      /\ \A b : Piped(Top', b, helper', toHelper', fromHelper')
  BY PushKeeps
<1>2. TypesOK'
  BY <1>1 DEF TypesOK
<1>3. PipesOK'
  BY <1>1 DEF PipesOK
<1>4. ColoursOfText'
  BY DEF IInv, ColoursOfText
<1> QED
  BY <1>1, <1>2, <1>3, <1>4 DEF IInv

LEMMA KeptByBlockEnds == ASSUME IInv, NEW t \in Text, BlockEnds(t) PROVE IInv'
<1>1. CanAsk /\ Highlights(TRUE) /\ UNCHANGED coloured
      /\ block' = [source |-> t, lines |-> IF Refuses THEN NoText ELSE t]
  BY DEF BlockEnds
<1>2. block' \in BlockRec /\ BlockOK'
  BY <1>1 DEF BlockRec, BlockOK, Texts
<1>3. CASE Refuses
  BY <1>1, <1>2, <1>3, RefusedKeeps
<1>4. CASE ~Refuses
  BY <1>1, <1>2, <1>4, AskedKeeps
<1> QED
  BY <1>3, <1>4

LEMMA AbandonedIs ==
    ASSUME NEW b \in BlockRec
    PROVE  Abandoned(b) \in BlockRec /\ Abandoned(b).lines = NoText /\ Abandoned(b).source = b.source
BY DEF Abandoned, BlockRec, Texts

LEMMA KeptByBlockCut == ASSUME IInv, BlockCut PROVE IInv'
<1>1. CanAsk /\ Highlights(TRUE) /\ UNCHANGED coloured /\ block' = IF Refuses THEN Abandoned(block) ELSE block
  BY DEF BlockCut
<1>2. block \in BlockRec /\ BlockOK
  BY DEF IInv, TypesOK
<1>3. CASE Refuses
  <2>1. block' \in BlockRec /\ block'.lines = NoText
    BY <1>1, <1>2, <1>3, AbandonedIs
  <2> QED
    BY <1>1, <1>3, <2>1, RefusedKeeps
<1>4. CASE ~Refuses
  <2>1. block' = block
    BY <1>1, <1>4
  <2>2. block' \in BlockRec /\ BlockOK'
    BY <1>2, <2>1 DEF BlockOK
  <2> QED
    BY <1>1, <1>4, <2>2, AskedKeeps
<1> QED
  BY <1>3, <1>4

LEMMA KeptByDiffShown == ASSUME IInv, DiffShown PROVE IInv'
<1>1. CanAsk /\ Highlights(FALSE) /\ UNCHANGED <<coloured, block>>
  BY DEF DiffShown
<1>2. block' \in BlockRec /\ BlockOK'
  BY <1>1 DEF IInv, TypesOK, BlockOK
<1>3. CASE Refuses
  BY <1>1, <1>2, <1>3, RefusedKeeps
<1>4. CASE ~Refuses
  BY <1>1, <1>2, <1>4, AskedKeeps
<1> QED
  BY <1>3, <1>4

--------------------------------------------------------------------------------
LEMMA StageIs ==
    ASSUME NEW f \in FrameRec, NEW st \in Stages
    PROVE  LET g == [f EXCEPT !.at = st] IN g \in FrameRec /\ g.at = st /\ g.id = f.id /\ g.md = f.md
<1> DEFINE g == [f EXCEPT !.at = st]
<1>1. g = [id |-> f.id, at |-> st, md |-> f.md, tries |-> f.tries]
  BY DEF FrameRec
<1>2. f.md \in BOOLEAN
  BY DEF FrameRec
<1>3. f.id \in Nat /\ f.tries \in Nat
  BY DEF FrameRec
<1> HIDE DEF g
<1>4. g \in FrameRec
  BY <1>1, <1>2, <1>3, Zenon DEF FrameRec
<1> QED
  BY <1>1, <1>4 DEF g

\* The innermost request replaced by one whose id was given out.
LEMMA TopNowKeeps ==
    ASSUME IInv, frames # <<>>, NEW f \in FrameRec, TopNow(f), NEW n \in Nat, client.id <= n, f.id < n
    PROVE  /\ frames' \in Seq(FrameRec) /\ Len(frames') <= 2 /\ frames' # <<>> /\ Top' = f
           /\ \A k \in DOMAIN frames' : frames'[k].id < n
<1>1. frames \in Seq(FrameRec) /\ Len(frames) <= 2 /\ client.id \in Nat /\ \A k \in DOMAIN frames : frames[k].id < client.id
  BY DEF IInv, TypesOK, Issued, ClientRec
<1>2. frames' = [frames EXCEPT ![Len(frames)] = f]
  BY DEF TopNow
<1>3. frames' \in Seq(FrameRec) /\ frames' # <<>> /\ Len(frames') = Len(frames) /\ Last(frames') = f
  BY <1>1, <1>2, TopNowIs
<1>4. ASSUME NEW k \in DOMAIN frames' PROVE frames'[k].id < n
  <2>1. DOMAIN frames' = DOMAIN frames
    BY <1>2
  <2>2. k \in DOMAIN frames /\ frames[k].id < client.id /\ frames[k].id \in Nat
    BY <1>1, <2>1, IdsAre
  <2>3. frames'[k] = f \/ frames'[k] = frames[k]
    BY <1>2, <2>2
  <2> QED
    BY <1>1, <2>2, <2>3
<1> QED
  BY <1>1, <1>3, <1>4 DEF Top

LEMMA HeaderIsPiped ==
    ASSUME NEW f \in FrameRec, NEW b, NEW h \in HelperRec, NEW to \in Seq(Request), NEW from \in Seq(Answer),
           Piped(f, b, h, to, from), f.at = "header", NEW g \in FrameRec, g.at = "source", g.id = f.id
    PROVE  Piped(g, b, h, Append(to, HeaderOf(f.id)), from)
<1> DEFINE m == HeaderOf(f.id)
<1>1. m \in Request
  BY DEF HeaderOf, Request, Texts, FrameRec
<1>2. Append(to, m) # <<>> /\ (to # <<>> => Head(Append(to, m)) = Head(to))
  <2> HIDE DEF m
  <2> QED
    BY <1>1, AddIs
<1>3. CASE Asked(f, h, to, from)
  <2>1. to = <<>> /\ from = <<>> /\ h.want = "header"
    BY <1>3 DEF Asked
  <2>2. Append(to, m) = <<HeaderOf(g.id)>>
    <3>1. m = HeaderOf(g.id)
      OBVIOUS
    <3> QED
      BY <2>1, <3>1, OneTwo
  <2> QED
    BY <2>1, <2>2 DEF Piped, Asked
<1>4. ~\E x : Sent(f, h, to, from, x)
  BY DEF Sent
<1>5. CASE Lost(f, h, to, from)
  <2> HIDE DEF m
  <2>1. Lost(g, h, Append(to, m), from)
    BY <1>2, <1>5 DEF Lost, IsReply
  <2> QED
    BY <2>1 DEF Piped, m
<1> QED
  BY <1>3, <1>4, <1>5 DEF Piped

LEMMA SourceIsPiped ==
    ASSUME NEW f \in FrameRec, NEW b, NEW h \in HelperRec, NEW to \in Seq(Request), NEW from \in Seq(Answer),
           Piped(f, b, h, to, from), f.at = "source", NEW g \in FrameRec, g.at = "reply", g.id = f.id,
           NEW x \in Texts, Right(g, b, x)
    PROVE  Piped(g, b, h, Append(to, SourceOf(f.id, x)), from)
<1> DEFINE m == SourceOf(f.id, x)
<1>1. m \in Request /\ m.is = "source"
  BY DEF SourceOf, Request, FrameRec
<1>2. Append(to, m) # <<>> /\ (to # <<>> => Head(Append(to, m)) = Head(to)) /\ (to = <<>> => Head(Append(to, m)) = m)
  <2> HIDE DEF m
  <2>1. to = <<>> => Append(to, m) = <<m>>
    BY OneTwo
  <2> QED
    BY <1>1, <2>1, AddIs, OneTwo
<1>3. CASE Asked(f, h, to, from)
  <2>1. from = <<>>
    BY <1>3 DEF Asked
  <2>2. CASE to = <<HeaderOf(f.id)>> /\ h.want = "header"
    <3>1. Append(to, m) = <<HeaderOf(g.id), SourceOf(g.id, x)>>
      <4> DEFINE n == HeaderOf(f.id)
      <4>1. to = <<n>> /\ n = HeaderOf(g.id) /\ m = SourceOf(g.id, x)
        BY <2>2
      <4> HIDE DEF m, n
      <4>2. Append(<<n>>, m) = <<n, m>>
        BY OneTwo
      <4> QED
        BY <4>1, <4>2
    <3> QED
      BY <2>1, <2>2, <3>1 DEF Piped, Sent
  <2>3. CASE to = <<>> /\ h.want = "source" /\ h.id = f.id
    <3>1. Append(to, m) = <<SourceOf(g.id, x)>>
      BY <2>3, OneTwo
    <3> QED
      BY <2>1, <2>3, <3>1 DEF Piped, Sent
  <2> QED
    BY <1>3, <2>2, <2>3 DEF Asked
<1>4. ~\E y : Sent(f, h, to, from, y)
  BY DEF Sent
<1>5. CASE Lost(f, h, to, from)
  <2> HIDE DEF m
  <2>1. Lost(g, h, Append(to, m), from)
    BY <1>1, <1>2, <1>5 DEF Lost, IsReply
  <2> QED
    BY <2>1 DEF Piped, m
<1> QED
  BY <1>3, <1>4, <1>5 DEF Piped

\* What a request writes is a message with an id that was given out.
LEMMA WrittenKeeps ==
    ASSUME IInv, frames # <<>>, NEW m \in Request, m.id = Top.id, toHelper' = Append(toHelper, m),
           NEW st \in Stages, TopNow([Top EXCEPT !.at = st]),
           UNCHANGED <<client, helper, fromHelper, block, coloured>>,
           helper.runs, Piped(Top', block, helper, toHelper', fromHelper)
    PROVE  IInv'
<1>1. /\ frames \in Seq(FrameRec) /\ client.id \in Nat /\ toHelper \in Seq(Request)
      /\ \A k \in DOMAIN frames : frames[k].id < client.id
      /\ \A k \in DOMAIN toHelper : toHelper[k].id < client.id
  BY DEF IInv, TypesOK, Issued, ClientRec
<1>2. Top \in FrameRec /\ Top.id < client.id
  BY <1>1, FramesAre DEF Top, Last
<1> DEFINE g == [Top EXCEPT !.at = st]
<1>3. g \in FrameRec /\ g.id = Top.id
  BY <1>2, StageIs
<1>4. /\ frames' \in Seq(FrameRec) /\ Len(frames') <= 2 /\ frames' # <<>> /\ Top' = g
      /\ \A k \in DOMAIN frames' : frames'[k].id < client.id
  <2> HIDE DEF g
  <2>1. TopNow(g)
    BY DEF g
  <2>2. client.id <= client.id
    BY <1>1
  <2>3. g.id < client.id
    BY <1>2, <1>3
  <2> QED
    BY <1>1, <1>3, <2>1, <2>2, <2>3, TopNowKeeps
<1>5. toHelper' \in Seq(Request) /\ \A k \in DOMAIN toHelper' : toHelper'[k].id < client.id
  <2>1. toHelper' \in Seq(Request)
        /\ \A k \in DOMAIN toHelper' : toHelper'[k] = m \/ (k \in DOMAIN toHelper /\ toHelper'[k] = toHelper[k])
    BY <1>1, AddIs
  <2> QED
    BY <1>1, <1>2, <2>1
<1>6. TypesOK'
  BY <1>4, <1>5 DEF IInv, TypesOK
<1>7. Issued'
  BY <1>4, <1>5 DEF IInv, Issued
<1>8. BlockOK' /\ ColoursOfText'
  BY DEF IInv, BlockOK, ColoursOfText
<1>9. PipesOK'
  BY <1>4 DEF PipesOK
<1> QED
  BY <1>6, <1>7, <1>8, <1>9 DEF IInv

LEMMA KeptByWriteHeader == ASSUME IInv, WriteHeader PROVE IInv'
<1> DEFINE m == HeaderOf(Top.id)
           g == [Top EXCEPT !.at = "source"]
<1>1. frames # <<>> /\ Top.at = "header" /\ helper.runs /\ toHelper' = Append(toHelper, m) /\ TopNow(g)
      /\ UNCHANGED <<client, helper, fromHelper, block, coloured>>
  BY DEF WriteHeader, HeaderOf
<1>2. frames \in Seq(FrameRec) /\ helper \in HelperRec /\ toHelper \in Seq(Request) /\ fromHelper \in Seq(Answer)
  BY DEF IInv, TypesOK
<1>3. Top \in FrameRec
  BY <1>1, <1>2, FramesAre
<1>4. m \in Request /\ m.id = Top.id
  BY <1>3 DEF HeaderOf, Request, Texts, FrameRec
<1>5. g \in FrameRec /\ g.id = Top.id /\ g.at = "source"
  BY <1>3, StageIs DEF Stages
<1>6. Piped(g, block, helper, toHelper', fromHelper)
  <2>1. Piped(Top, block, helper, toHelper, fromHelper)
    BY <1>1 DEF IInv, PipesOK
  <2> HIDE DEF g
  <2> QED
    BY <1>1, <1>2, <1>3, <1>5, <2>1, HeaderIsPiped
<1>7. Top' = g
  <2>1. frames' = [frames EXCEPT ![Len(frames)] = g]
    BY <1>1 DEF TopNow
  <2> HIDE DEF g
  <2> QED
    BY <1>1, <1>2, <1>5, <2>1, TopNowIs DEF Top
<1> HIDE DEF m
<1> QED
  BY <1>1, <1>4, <1>6, <1>7, WrittenKeeps DEF Stages

LEMMA KeptByWriteSource == ASSUME IInv, WriteSource PROVE IInv'
<1> DEFINE x == IF Top.md THEN block.source ELSE Diff
           m == SourceOf(Top.id, x)
           g == [Top EXCEPT !.at = "reply"]
<1>1. frames # <<>> /\ Top.at = "source" /\ helper.runs /\ toHelper' = Append(toHelper, m) /\ TopNow(g)
      /\ UNCHANGED <<client, helper, fromHelper, block, coloured>>
  BY DEF WriteSource, SourceOf
<1>2. frames \in Seq(FrameRec) /\ helper \in HelperRec /\ toHelper \in Seq(Request) /\ fromHelper \in Seq(Answer)
      /\ block \in BlockRec /\ BlockOK
  BY DEF IInv, TypesOK
<1>3. Top \in FrameRec
  BY <1>1, <1>2, FramesAre
<1>4. x \in Texts
  BY <1>2 DEF BlockRec, Texts
<1>5. g \in FrameRec /\ g.id = Top.id /\ g.at = "reply" /\ g.md = Top.md
  BY <1>3, StageIs DEF Stages
<1>6. Right(g, block, x)
  <2> HIDE DEF g
  <2> QED
    BY <1>2, <1>5 DEF Right, BlockOK
<1> HIDE DEF x
<1>7. m \in Request /\ m.id = Top.id
  BY <1>3, <1>4 DEF SourceOf, Request, FrameRec
<1>8. Piped(g, block, helper, toHelper', fromHelper)
  <2>1. Piped(Top, block, helper, toHelper, fromHelper)
    BY <1>1 DEF IInv, PipesOK
  <2> HIDE DEF g
  <2> QED
    BY <1>1, <1>2, <1>3, <1>4, <1>5, <1>6, <2>1, SourceIsPiped
<1>9. Top' = g
  <2>1. frames' = [frames EXCEPT ![Len(frames)] = g]
    BY <1>1 DEF TopNow
  <2> HIDE DEF g
  <2> QED
    BY <1>1, <1>2, <1>5, <2>1, TopNowIs DEF Top
<1> HIDE DEF m
<1> QED
  BY <1>1, <1>7, <1>8, <1>9, WrittenKeeps DEF Stages

--------------------------------------------------------------------------------
LEMMA JoinIs ==
    ASSUME NEW S, NEW q \in Seq(S), NEW a \in S, NEW b \in S
    PROVE  /\ q \o <<a, b>> \in Seq(S) /\ q \o <<a, b>> # <<>> /\ (q # <<>> => Head(q \o <<a, b>>) = Head(q))
           /\ (q = <<>> => q \o <<a, b>> = <<a, b>>)
           /\ \A k \in DOMAIN (q \o <<a, b>>) :
                 (q \o <<a, b>>)[k] \in {a, b} \/ (k \in DOMAIN q /\ (q \o <<a, b>>)[k] = q[k])
<1> DEFINE r == <<a, b>>
           p == q \o r
<1>1. r \in Seq(S) /\ Len(r) = 2 /\ r[1] = a /\ r[2] = b
  OBVIOUS
<1> HIDE DEF r
<1>2. p \in Seq(S) /\ Len(p) = Len(q) + 2
      /\ \A k \in 1..(Len(q) + 2) : p[k] = IF k <= Len(q) THEN q[k] ELSE r[k - Len(q)]
  <2>1. /\ p \in Seq(S) /\ Len(p) = Len(q) + Len(r)
        /\ \A k \in 1..(Len(q) + Len(r)) : p[k] = IF k <= Len(q) THEN q[k] ELSE r[k - Len(q)]
    BY <1>1, ConcatProperties
  <2> HIDE DEF p
  <2> QED
    BY <1>1, <2>1
<1>3. q = <<>> => p = r
  BY <1>1, ConcatEmptySeq
<1> HIDE DEF p
<1>4. Len(q) \in Nat /\ DOMAIN q = 1..Len(q) /\ DOMAIN p = 1..(Len(q) + 2)
  BY <1>2
<1>5. p # <<>>
  <2>1. Len(<<>>) = 0
    OBVIOUS
  <2> QED
    BY <1>2, <1>4, <2>1
<1>6. q # <<>> => Head(p) = Head(q)
  BY <1>2, <1>4
<1>7. ASSUME NEW k \in DOMAIN p PROVE p[k] \in {a, b} \/ (k \in DOMAIN q /\ p[k] = q[k])
  <2>1. k \in 1..(Len(q) + 2)
    BY <1>4
  <2>2. CASE k <= Len(q)
    BY <1>2, <1>4, <2>1, <2>2
  <2>3. CASE ~(k <= Len(q))
    <3>1. k - Len(q) = 1 \/ k - Len(q) = 2
      BY <1>4, <2>1, <2>3
    <3>2. p[k] = r[k - Len(q)]
      BY <1>2, <2>1, <2>3
    <3> QED
      BY <1>1, <3>1, <3>2
  <2> QED
    BY <2>2, <2>3
<1> QED
  BY <1>2, <1>3, <1>5, <1>6, <1>7 DEF p, r

\* The helper reads a header, or what it takes for one.
LEMMA HeaderReadIsPiped ==
    ASSUME NEW f \in FrameRec, NEW b, NEW h \in HelperRec, NEW to \in Seq(Request), NEW from \in Seq(Answer),
           Piped(f, b, h, to, from), h.want = "header", to # <<>>, NEW g,
           g.want = IF Head(to).is = "header" THEN "source" ELSE "gone", g.id = Head(to).id
    PROVE  Piped(f, b, g, Tail(to), from)
<1>1. CASE Asked(f, h, to, from)
  <2>1. f.at = "source" /\ to = <<HeaderOf(f.id)>> /\ from = <<>>
    BY <1>1 DEF Asked
  <2>2. Head(to) = HeaderOf(f.id) /\ Tail(to) = <<>>
    <3> DEFINE m == HeaderOf(f.id)
    <3>1. to = <<m>>
      BY <2>1
    <3> HIDE DEF m
    <3>2. Head(to) = m /\ Tail(to) = <<>>
      BY <3>1, OneTwo
    <3> QED
      BY <3>2 DEF m
  <2>3. g.want = "source" /\ g.id = f.id
    BY <2>2 DEF HeaderOf
  <2> QED
    BY <2>1, <2>2, <2>3 DEF Piped, Asked
<1>2. ASSUME NEW x \in Texts, Right(f, b, x), Sent(f, h, to, from, x) PROVE Piped(f, b, g, Tail(to), from)
  <2>1. f.at = "reply" /\ from = <<>> /\ to = <<HeaderOf(f.id), SourceOf(f.id, x)>>
    BY <1>2 DEF Sent
  <2>2. Head(to) = HeaderOf(f.id) /\ Tail(to) = <<SourceOf(f.id, x)>>
    <3> DEFINE m == HeaderOf(f.id)
               n == SourceOf(f.id, x)
    <3>1. to = <<m, n>>
      BY <2>1
    <3> HIDE DEF m, n
    <3>2. Head(to) = m /\ Tail(to) = <<n>>
      BY <3>1, OneTwo
    <3> QED
      BY <3>2 DEF m, n
  <2>3. g.want = "source" /\ g.id = f.id
    BY <2>2 DEF HeaderOf
  <2>4. Sent(f, g, Tail(to), from, x)
    BY <2>1, <2>2, <2>3 DEF Sent
  <2> QED
    BY <1>2, <2>4 DEF Piped
<1>3. CASE Lost(f, h, to, from)
  <2>1. Head(to).is \in {"header", "source"}
    <3>1. Head(to) \in Request
      BY TakeIs
    <3> QED
      BY <3>1 DEF Request
  <2>2. Lost(f, g, Tail(to), from)
    BY <1>3, <2>1 DEF Lost
  <2> QED
    BY <2>2 DEF Piped
<1> QED
  BY <1>1, <1>2, <1>3 DEF Piped

\* The helper reads the source of its request, or what it takes for it, and answers it.
LEMMA SourceReadIsPiped ==
    ASSUME NEW f \in FrameRec, NEW b, NEW h \in HelperRec, NEW to \in Seq(Request), NEW from \in Seq(Answer),
           Piped(f, b, h, to, from), h.want = "source", to # <<>>, NEW g, g.want = "header",
           NEW x \in Texts,
           x = IF Head(to).is = "source" /\ Head(to).id = h.id THEN Head(to).text ELSE Garbage,
           NEW new, new \in {from \o <<ReplyOf(h.id, "ok", x), RunOf(h.id, x)>>,
                             Append(from, ReplyOf(h.id, "none", x)), Append(from, ReplyOf(h.id, "internal", x))}
    PROVE  Piped(f, b, g, Tail(to), new)
<1>1. h.id \in Nat
  BY DEF HelperRec
<1>2. ReplyOf(h.id, "ok", x) \in Answer /\ RunOf(h.id, x) \in Answer
      /\ ReplyOf(h.id, "none", x) \in Answer /\ ReplyOf(h.id, "internal", x) \in Answer
  BY <1>1 DEF ReplyOf, RunOf, Answer
<1>3. /\ new # <<>> /\ (from # <<>> => Head(new) = Head(from))
      /\ from = <<>> => \/ new = <<ReplyOf(h.id, "ok", x), RunOf(h.id, x)>>
                        \/ \E s \in {"none", "internal"} : new = <<ReplyOf(h.id, s, x)>>
  <2>1. CASE new = from \o <<ReplyOf(h.id, "ok", x), RunOf(h.id, x)>>
    <3> DEFINE m == ReplyOf(h.id, "ok", x)
               n == RunOf(h.id, x)
    <3> HIDE DEF m, n
    <3>1. m \in Answer /\ n \in Answer /\ new = from \o <<m, n>>
      BY <1>2, <2>1 DEF m, n
    <3>2. new # <<>> /\ (from # <<>> => Head(new) = Head(from)) /\ (from = <<>> => new = <<m, n>>)
      BY <3>1, JoinIs
    <3> QED
      BY <3>2 DEF m, n
  <2>2. ASSUME NEW s \in {"none", "internal"}, new = Append(from, ReplyOf(h.id, s, x))
        PROVE  /\ new # <<>> /\ (from # <<>> => Head(new) = Head(from))
               /\ (from = <<>> => new = <<ReplyOf(h.id, s, x)>>)
    <3> DEFINE m == ReplyOf(h.id, s, x)
    <3>1. m \in Answer
      BY <1>2
    <3> HIDE DEF m
    <3>2. new = Append(from, m)
      BY <2>2 DEF m
    <3>3. new # <<>> /\ (from # <<>> => Head(new) = Head(from))
      BY <3>1, <3>2, AddIs
    <3>4. from = <<>> => new = <<m>>
      BY <3>2, OneTwo
    <3> QED
      BY <3>3, <3>4 DEF m
  <2> QED
    BY <2>1, <2>2
<1>4. ~Asked(f, h, to, from)
  BY DEF Asked
<1>5. ASSUME NEW y \in Texts, Right(f, b, y), Sent(f, h, to, from, y) PROVE Piped(f, b, g, Tail(to), new)
  <2>1. f.at = "reply" /\ from = <<>> /\ to = <<SourceOf(f.id, y)>> /\ h.id = f.id
    BY <1>5 DEF Sent
  <2>2. Head(to) = SourceOf(f.id, y) /\ Tail(to) = <<>>
    <3> DEFINE m == SourceOf(f.id, y)
    <3>1. to = <<m>>
      BY <2>1
    <3> HIDE DEF m
    <3>2. Head(to) = m /\ Tail(to) = <<>>
      BY <3>1, OneTwo
    <3> QED
      BY <3>2 DEF m
  <2>3. x = y
    BY <2>1, <2>2 DEF SourceOf
  <2>4. Sent(f, g, Tail(to), new, y)
    BY <1>3, <2>1, <2>2, <2>3 DEF Sent
  <2> QED
    BY <1>5, <2>4 DEF Piped
<1>6. CASE Lost(f, h, to, from)
  <2>1. CASE from # <<>>
    <3>1. Lost(f, g, Tail(to), new)
      BY <1>3, <1>6, <2>1 DEF Lost
    <3> QED
      BY <3>1 DEF Piped
  <2>2. CASE from = <<>>
    <3>1. h.id # f.id /\ f.at # "runs"
      BY <1>6, <2>2 DEF Lost
    <3>2. Head(new).id = h.id
      <4>1. CASE new = <<ReplyOf(h.id, "ok", x), RunOf(h.id, x)>>
        <5> DEFINE m == ReplyOf(h.id, "ok", x)
                   n == RunOf(h.id, x)
        <5>1. new = <<m, n>> /\ m.id = h.id
          BY <4>1 DEF ReplyOf
        <5> HIDE DEF m, n
        <5> QED
          BY <5>1, OneTwo
      <4>2. ASSUME NEW s \in {"none", "internal"}, new = <<ReplyOf(h.id, s, x)>> PROVE Head(new).id = h.id
        <5> DEFINE m == ReplyOf(h.id, s, x)
        <5>1. new = <<m>> /\ m.id = h.id
          BY <4>2 DEF ReplyOf
        <5> HIDE DEF m
        <5> QED
          BY <5>1, OneTwo
      <4> QED
        BY <1>3, <2>2, <4>1, <4>2
    <3>3. new # <<>> /\ Head(new).id # f.id
      BY <1>3, <3>1, <3>2
    <3>4. Lost(f, g, Tail(to), new)
      BY <3>1, <3>3 DEF Lost, IsReply
    <3> QED
      BY <3>4 DEF Piped
  <2> QED
    BY <2>1, <2>2
<1> QED
  BY <1>4, <1>5, <1>6 DEF Piped

LEMMA WantIs ==
    ASSUME NEW h \in HelperRec, NEW w \in {"header", "source", "gone"}
    PROVE  LET g == [h EXCEPT !.want = w] IN g \in HelperRec /\ g.want = w /\ g.id = h.id /\ g.runs = h.runs
<1> DEFINE g == [h EXCEPT !.want = w]
<1>1. g = [runs |-> h.runs, want |-> w, id |-> h.id]
  BY DEF HelperRec
<1>2. h.runs \in BOOLEAN
  BY DEF HelperRec
<1>3. h.id \in Nat
  BY DEF HelperRec
<1> HIDE DEF g
<1>4. g \in HelperRec
  BY <1>1, <1>2, <1>3, Zenon DEF HelperRec
<1> QED
  BY <1>1, <1>4 DEF g

LEMMA ReadIs ==
    ASSUME NEW h \in HelperRec, NEW k \in Nat
    PROVE  LET g == [h EXCEPT !.id = k] IN g \in HelperRec /\ g.want = h.want /\ g.id = k /\ g.runs = h.runs
<1> DEFINE g == [h EXCEPT !.id = k]
<1>1. g = [runs |-> h.runs, want |-> h.want, id |-> k]
  BY DEF HelperRec
<1>2. h.runs \in BOOLEAN
  BY DEF HelperRec
<1>3. h.want \in {"header", "source", "gone"}
  BY DEF HelperRec
<1> HIDE DEF g
<1>4. g \in HelperRec
  BY <1>1, <1>2, <1>3, Zenon DEF HelperRec
<1> QED
  BY <1>1, <1>4 DEF g

LEMMA StoppedIs ==
    ASSUME NEW h \in HelperRec, NEW v \in BOOLEAN
    PROVE  LET g == [h EXCEPT !.runs = v] IN g \in HelperRec /\ g.runs = v /\ g.id = h.id
<1> DEFINE g == [h EXCEPT !.runs = v]
<1>1. g = [runs |-> v, want |-> h.want, id |-> h.id]
  BY DEF HelperRec
<1>2. h.id \in Nat /\ h.want \in {"header", "source", "gone"}
  BY DEF HelperRec
<1> HIDE DEF g
<1>3. g \in HelperRec
  BY <1>1, <1>2, Zenon DEF HelperRec
<1> QED
  BY <1>1, <1>3 DEF g

\* The helper takes a message, and what it leaves in the pipes has ids that were given out.
LEMMA KeptByHelperReads == ASSUME IInv, HelperReads PROVE IInv'
<1> DEFINE m == Head(toHelper)
           x == IF m.is = "source" /\ m.id = helper.id THEN m.text ELSE Garbage
<1>1. helper.runs /\ helper.want # "gone" /\ toHelper # <<>> /\ toHelper' = Tail(toHelper)
      /\ UNCHANGED <<client, frames, block, coloured>>
  BY DEF HelperReads
<1>2. /\ client \in ClientRec /\ helper \in HelperRec /\ toHelper \in Seq(Request) /\ fromHelper \in Seq(Answer)
      /\ frames \in Seq(FrameRec)
      /\ helper.id < client.id /\ \A k \in DOMAIN toHelper : toHelper[k].id < client.id
      /\ \A k \in DOMAIN fromHelper : fromHelper[k].id < client.id
  BY DEF IInv, TypesOK, Issued
<1>3. frames # <<>> /\ Piped(Top, block, helper, toHelper, fromHelper)
  BY <1>1 DEF IInv, PipesOK, Quiet
<1>4. Top \in FrameRec /\ Top' = Top
  BY <1>1, <1>2, <1>3, FramesAre DEF Top
<1>5. m \in Request /\ m.id < client.id
  BY <1>1, <1>2, TakeIs
<1>6. toHelper' \in Seq(Request) /\ \A k \in DOMAIN toHelper' : toHelper'[k].id < client.id
  BY <1>1, <1>2, TakeIs
<1>7. m.id \in Nat /\ m.is \in {"header", "source"} /\ x \in Texts /\ helper.id \in Nat
  BY <1>2, <1>5 DEF Request, HelperRec, Texts
<1>8. /\ helper' \in HelperRec /\ helper'.runs /\ helper'.id < client.id
      /\ fromHelper' \in Seq(Answer) /\ \A k \in DOMAIN fromHelper' : fromHelper'[k].id < client.id
      /\ Piped(Top, block, helper', toHelper', fromHelper')
  <2>1. CASE helper.want = "header"
    <3>1. helper' = [helper EXCEPT !.want = IF m.is = "header" THEN "source" ELSE "gone", !.id = m.id]
          /\ fromHelper' = fromHelper
      BY <2>1 DEF HelperReads
    <3>2. helper' \in HelperRec /\ helper'.runs /\ helper'.id = m.id
          /\ helper'.want = IF m.is = "header" THEN "source" ELSE "gone"
      <4> DEFINE w == IF m.is = "header" THEN "source" ELSE "gone"
      <4>1. w \in {"header", "source", "gone"} /\ helper' = [helper EXCEPT !.want = w, !.id = m.id]
        BY <3>1
      <4> HIDE DEF m, w
      <4>2. helper' \in HelperRec /\ helper'.want = w /\ helper'.id = m.id /\ helper'.runs = helper.runs
        <5> DEFINE k == m.id
                   e == [helper EXCEPT !.want = w]
        <5>1. helper \in HelperRec /\ k \in Nat /\ w \in {"header", "source", "gone"}
          BY <1>2, <1>7, <4>1
        <5>2. helper' = [e EXCEPT !.id = k]
          BY <4>1
        <5>3. e \in HelperRec /\ e.want = w /\ e.runs = helper.runs
          BY <5>1, WantIs
        <5> HIDE DEF k, e
        <5>4. helper' \in HelperRec /\ helper'.want = e.want /\ helper'.id = k /\ helper'.runs = e.runs
          BY <5>1, <5>2, <5>3, ReadIs
        <5> QED
          BY <5>3, <5>4 DEF k
      <4> QED
        BY <1>1, <4>2 DEF w
    <3>3. Piped(Top, block, helper', toHelper', fromHelper)
      <4>1. helper'.want = (IF Head(toHelper).is = "header" THEN "source" ELSE "gone") /\ helper'.id = Head(toHelper).id
        BY <3>2
      <4> QED
        BY <1>1, <1>2, <1>3, <1>4, <2>1, <4>1, HeaderReadIsPiped
    <3> QED
      BY <1>2, <1>5, <3>1, <3>2, <3>3
  <2>2. CASE helper.want = "source"
    <3> DEFINE ok == ReplyOf(helper.id, "ok", x)
               run == RunOf(helper.id, x)
    <3>1. helper' = [helper EXCEPT !.want = "header"]
      BY <2>2 DEF HelperReads
    <3>2. fromHelper' \in {fromHelper \o <<ok, run>>, Append(fromHelper, ReplyOf(helper.id, "none", x)),
                           Append(fromHelper, ReplyOf(helper.id, "internal", x))}
      <4>1. [ok EXCEPT !.is = "run"] = run
        BY DEF ReplyOf, RunOf
      <4>2. fromHelper' \in {fromHelper \o <<ok, [ok EXCEPT !.is = "run"]>>, Append(fromHelper, ReplyOf(helper.id, "none", x)),
                             Append(fromHelper, ReplyOf(helper.id, "internal", x))}
        BY <2>2, Zenon DEF HelperReads, ReplyOf
      <4> QED
        BY <4>1, <4>2, Zenon
    <3>3. helper' \in HelperRec /\ helper'.runs /\ helper'.id = helper.id /\ helper'.want = "header"
      BY <1>1, <1>2, <3>1, WantIs
    <3>4. Piped(Top, block, helper', Tail(toHelper), fromHelper')
      <4>1. x = IF Head(toHelper).is = "source" /\ Head(toHelper).id = helper.id THEN Head(toHelper).text ELSE Garbage
        OBVIOUS
      <4> HIDE DEF x, m
      <4> QED
        BY <1>1, <1>2, <1>3, <1>4, <1>7, <2>2, <3>2, <3>3, <4>1, SourceReadIsPiped
    <3>5. /\ ok \in Answer /\ run \in Answer /\ ok.id = helper.id /\ run.id = helper.id
          /\ \A s \in {"none", "internal"} : ReplyOf(helper.id, s, x) \in Answer /\ ReplyOf(helper.id, s, x).id = helper.id
      <4> HIDE DEF x
      <4> QED
        BY <1>7 DEF ReplyOf, RunOf, Answer
    <3>6. fromHelper' \in Seq(Answer) /\ \A k \in DOMAIN fromHelper' : fromHelper'[k].id < client.id
      <4> HIDE DEF x, ok, run
      <4>1. CASE fromHelper' = fromHelper \o <<ok, run>>
        <5>1. fromHelper' \in Seq(Answer)
              /\ \A k \in DOMAIN fromHelper' :
                   fromHelper'[k] \in {ok, run} \/ (k \in DOMAIN fromHelper /\ fromHelper'[k] = fromHelper[k])
          BY <1>2, <3>5, <4>1, JoinIs
        <5> QED
          BY <1>2, <3>5, <5>1
      <4>2. ASSUME NEW s \in {"none", "internal"}, fromHelper' = Append(fromHelper, ReplyOf(helper.id, s, x))
            PROVE  fromHelper' \in Seq(Answer) /\ \A k \in DOMAIN fromHelper' : fromHelper'[k].id < client.id
        <5> DEFINE r == ReplyOf(helper.id, s, x)
        <5>1. r \in Answer /\ r.id = helper.id
          BY <3>5
        <5>2. fromHelper' = Append(fromHelper, r)
          BY <4>2
        <5> HIDE DEF r
        <5>3. fromHelper' \in Seq(Answer)
              /\ \A k \in DOMAIN fromHelper' :
                   fromHelper'[k] = r \/ (k \in DOMAIN fromHelper /\ fromHelper'[k] = fromHelper[k])
          BY <1>2, <5>1, <5>2, AddIs
        <5> QED
          BY <1>2, <5>1, <5>3
      <4> QED
        BY <3>2, <4>1, <4>2
    <3> QED
      BY <1>1, <1>2, <3>3, <3>4, <3>6
  <2> QED
    BY <1>1, <1>2, <2>1, <2>2 DEF HelperRec
<1>9. TypesOK'
  BY <1>1, <1>6, <1>8 DEF IInv, TypesOK
<1>10. Issued'
  BY <1>1, <1>6, <1>8 DEF IInv, Issued
<1>11. BlockOK' /\ ColoursOfText'
  BY <1>1 DEF IInv, BlockOK, ColoursOfText
<1>12. PipesOK'
  BY <1>1, <1>3, <1>4, <1>8 DEF PipesOK
<1> QED
  BY <1>9, <1>10, <1>11, <1>12 DEF IInv

\* Of a helper that is gone only what it answered before can still be read.
LEMMA KeptByHelperDies == ASSUME IInv, HelperDies PROVE IInv'
<1>1. helper.runs /\ helper' = [helper EXCEPT !.want = "gone"]
      /\ UNCHANGED <<client, toHelper, fromHelper, frames, block, coloured>>
  BY DEF HelperDies
<1>2. helper \in HelperRec /\ helper.id \in Nat
  BY DEF IInv, TypesOK, HelperRec
<1>3. helper' \in HelperRec /\ helper'.runs /\ helper'.id = helper.id /\ helper'.want = "gone"
  BY <1>1, <1>2, WantIs
<1>4. TypesOK'
  BY <1>1, <1>3 DEF IInv, TypesOK
<1>5. Issued'
  BY <1>1, <1>3 DEF IInv, Issued
<1>6. BlockOK' /\ ColoursOfText'
  BY <1>1 DEF IInv, BlockOK, ColoursOfText
<1>7. PipesOK'
  <2>1. CASE frames = <<>>
    BY <1>1, <1>3, <2>1 DEF IInv, PipesOK, Quiet
  <2>2. CASE frames # <<>>
    <3>1. Piped(Top, block, helper, toHelper, fromHelper) /\ Top' = Top
      BY <1>1, <2>2 DEF IInv, PipesOK, Top
    <3>2. Piped(Top, block, helper', toHelper, fromHelper)
      <4>1. CASE fromHelper = <<>>
        BY <1>3, <4>1 DEF Piped, Lost
      <4>2. CASE fromHelper # <<>>
        <5>1. ~Asked(Top, helper, toHelper, fromHelper)
          BY <4>2 DEF Asked
        <5>2. \A x \in Texts : Sent(Top, helper, toHelper, fromHelper, x) => Sent(Top, helper', toHelper, fromHelper, x)
          BY <1>3, <4>2 DEF Sent
        <5>3. Lost(Top, helper, toHelper, fromHelper) => Lost(Top, helper', toHelper, fromHelper)
          BY <4>2 DEF Lost
        <5> QED
          BY <3>1, <5>1, <5>2, <5>3, Zenon DEF Piped
      <4> QED
        BY <4>1, <4>2
    <3> QED
      BY <1>1, <1>3, <2>2, <3>1, <3>2 DEF PipesOK
  <2> QED
    BY <2>1, <2>2
<1> QED
  BY <1>4, <1>5, <1>6, <1>7 DEF IInv

--------------------------------------------------------------------------------
\* The end of a request leaves the others, and at most forgets the lines of the block.
LEMMA PoppedKeeps ==
    ASSUME IInv, frames # <<>>, Popped(EndOf(Top)), client' \in ClientRec, client'.id = client.id,
           helper' \in HelperRec, helper'.id = helper.id, toHelper' = toHelper \/ toHelper' = <<>>,
           (fromHelper' = Tail(fromHelper) /\ fromHelper # <<>>) \/ fromHelper' = <<>>
    PROVE  TypesOK' /\ Issued' /\ BlockOK'
<1>1. /\ frames \in Seq(FrameRec) /\ Len(frames) <= 2 /\ toHelper \in Seq(Request) /\ fromHelper \in Seq(Answer)
      /\ block \in BlockRec /\ helper.id < client.id
      /\ \A k \in DOMAIN frames : frames[k].id < client.id
      /\ \A k \in DOMAIN toHelper : toHelper[k].id < client.id
      /\ \A k \in DOMAIN fromHelper : fromHelper[k].id < client.id
      /\ BlockOK
  BY DEF IInv, TypesOK, Issued
<1>2. frames' = Front(frames) /\ block' = EndOf(Top)
  BY DEF Popped
<1>3. block' \in BlockRec /\ BlockOK'
  <2>1. block' = block \/ block' = Abandoned(block)
    BY <1>2 DEF EndOf
  <2> QED
    BY <1>1, <2>1, AbandonedIs DEF BlockOK
<1>4. frames' \in Seq(FrameRec) /\ Len(frames') <= 2 /\ \A k \in DOMAIN frames' : frames'[k].id < client.id
  <2>1. /\ Front(frames) \in Seq(FrameRec) /\ Len(Front(frames)) = Len(frames) - 1
        /\ \A k \in DOMAIN Front(frames) : k \in DOMAIN frames /\ Front(frames)[k] = frames[k]
    BY <1>1, FramesAre
  <2>2. Len(frames) \in Nat
    BY <1>1
  <2>3. Len(Front(frames)) <= 2
    BY <1>1, <2>1, <2>2
  <2> QED
    BY <1>1, <1>2, <2>1, <2>3
<1>5. toHelper' \in Seq(Request) /\ \A k \in DOMAIN toHelper' : toHelper'[k].id < client.id
  BY <1>1, Empties
<1>6. fromHelper' \in Seq(Answer) /\ \A k \in DOMAIN fromHelper' : fromHelper'[k].id < client.id
  <2>1. CASE fromHelper' = <<>>
    BY <2>1, Empties
  <2>2. CASE fromHelper' = Tail(fromHelper) /\ fromHelper # <<>>
    <3>1. /\ Tail(fromHelper) \in Seq(Answer)
          /\ \A k \in DOMAIN Tail(fromHelper) : k + 1 \in DOMAIN fromHelper /\ Tail(fromHelper)[k] = fromHelper[k + 1]
      BY <1>1, <2>2, TakeIs
    <3> QED
      BY <1>1, <2>2, <3>1
  <2> QED
    BY <2>1, <2>2
<1>7. TypesOK'
  BY <1>3, <1>4, <1>5, <1>6 DEF TypesOK
<1>8. Issued'
  BY <1>1, <1>4, <1>5, <1>6 DEF Issued
<1> QED
  BY <1>3, <1>7, <1>8

\* With the helper stopped and the pipes closed.
LEMMA StoppedKeeps ==
    ASSUME IInv, frames # <<>>, Retired, Popped(EndOf(Top)), client' \in ClientRec, client'.id = client.id,
           UNCHANGED coloured
    PROVE  IInv'
<1>1. helper' = [helper EXCEPT !.runs = FALSE] /\ toHelper' = <<>> /\ fromHelper' = <<>>
  BY DEF Retired
<1>2. helper \in HelperRec
  BY DEF IInv, TypesOK
<1>3. helper' \in HelperRec /\ helper'.runs = FALSE /\ helper'.id = helper.id
  BY <1>1, <1>2, StoppedIs
<1>4. TypesOK' /\ Issued' /\ BlockOK'
  BY <1>1, <1>3, PoppedKeeps
<1>5. PipesOK'
  BY <1>1, <1>3 DEF PipesOK
<1>6. ColoursOfText'
  BY DEF IInv, ColoursOfText
<1> QED
  BY <1>4, <1>5, <1>6 DEF IInv

LEMMA DisabledIs ==
    ASSUME NEW c \in ClientRec, NEW v \in BOOLEAN
    PROVE  LET d == [c EXCEPT !.disabled = v] IN d \in ClientRec /\ d.id = c.id
<1> DEFINE d == [c EXCEPT !.disabled = v]
<1>1. d = [disabled |-> v, id |-> c.id, strikes |-> c.strikes, lang |-> c.lang]
  BY DEF ClientRec
<1>2. c.id \in Nat /\ c.strikes \in Nat /\ c.lang \in Nat
  BY DEF ClientRec
<1> HIDE DEF d
<1>3. d \in ClientRec
  BY <1>1, <1>2, Zenon DEF ClientRec
<1> QED
  BY <1>1, <1>3 DEF d

LEMMA StrikesIs ==
    ASSUME NEW c \in ClientRec, NEW m \in Nat
    PROVE  LET d == [c EXCEPT !.strikes = m] IN d \in ClientRec /\ d.id = c.id
<1> DEFINE d == [c EXCEPT !.strikes = m]
<1>1. d = [disabled |-> c.disabled, id |-> c.id, strikes |-> m, lang |-> c.lang]
  BY DEF ClientRec
<1>2. c.disabled \in BOOLEAN
  BY DEF ClientRec
<1>3. c.id \in Nat /\ c.lang \in Nat
  BY DEF ClientRec
<1> HIDE DEF d
<1>4. d \in ClientRec
  BY <1>1, <1>2, <1>3, Zenon DEF ClientRec
<1> QED
  BY <1>1, <1>4 DEF d

LEMMA LangIs ==
    ASSUME NEW c \in ClientRec, NEW m \in Nat
    PROVE  LET d == [c EXCEPT !.lang = m] IN d \in ClientRec /\ d.id = c.id
<1> DEFINE d == [c EXCEPT !.lang = m]
<1>1. d = [disabled |-> c.disabled, id |-> c.id, strikes |-> c.strikes, lang |-> m]
  BY DEF ClientRec
<1>2. c.disabled \in BOOLEAN
  BY DEF ClientRec
<1>3. c.id \in Nat /\ c.strikes \in Nat
  BY DEF ClientRec
<1> HIDE DEF d
<1>4. d \in ClientRec
  BY <1>1, <1>2, <1>3, Zenon DEF ClientRec
<1> QED
  BY <1>1, <1>4 DEF d

LEMMA KeptByBroken == ASSUME IInv, frames # <<>>, Broken PROVE IInv'
<1>1. Retired /\ client' = [client EXCEPT !.disabled = TRUE] /\ Popped(EndOf(Top)) /\ UNCHANGED coloured
  BY DEF Broken
<1>2. client \in ClientRec
  BY DEF IInv, TypesOK
<1>3. client' \in ClientRec /\ client'.id = client.id
  BY <1>1, <1>2, DisabledIs
<1> QED
  BY <1>1, <1>3, StoppedKeeps

\* A request made once more is asked of a fresh helper.
LEMMA KeptByRetry == ASSUME IInv, frames # <<>>, Retry, UNCHANGED coloured PROVE IInv'
<1> DEFINE n == client.strikes + 1
           over == n >= HelperStrikes
           l == IF over THEN client.lang ELSE client.lang + 1
           v == client.disabled \/ over
           c == [client EXCEPT !.strikes = @ + 1, !.disabled = @ \/ client.strikes + 1 >= HelperStrikes,
                               !.lang = IF client.strikes + 1 >= HelperStrikes THEN @ ELSE @ + 1]
<1>1. client \in ClientRec /\ client.id \in Nat /\ client.strikes \in Nat /\ client.lang \in Nat
      /\ frames \in Seq(FrameRec) /\ block \in BlockRec /\ BlockOK
  BY DEF IInv, TypesOK, ClientRec
<1>2. n \in Nat /\ l \in Nat
  BY <1>1
<1>3. c \in ClientRec /\ c.id = client.id
  <2>1. v \in BOOLEAN
    <3>1. client.disabled \in BOOLEAN
      BY <1>1 DEF ClientRec
    <3> QED
      BY <3>1
  <2> DEFINE a == [client EXCEPT !.strikes = n]
             b == [a EXCEPT !.disabled = v]
             d == [b EXCEPT !.lang = l]
  <2>2. c = d
    OBVIOUS
  <2> HIDE DEF c, v, n, l
  <2>3. a \in ClientRec /\ a.id = client.id
    BY <1>1, <1>2, StrikesIs
  <2> HIDE DEF a
  <2>4. b \in ClientRec /\ b.id = a.id
    BY <2>1, <2>3, DisabledIs
  <2> HIDE DEF b
  <2>5. d \in ClientRec /\ d.id = b.id
    BY <1>2, <2>4, LangIs
  <2> QED
    BY <2>2, <2>3, <2>4, <2>5
<1> HIDE DEF n, over, l, v
<1>4. Top \in FrameRec
  BY <1>1, FramesAre
<1> DEFINE f == Frame(Top.md, Top.tries + 1)
<1>5. CASE /\ helper' = [runs |-> TRUE, want |-> "header", id |-> 0] /\ toHelper' = <<>> /\ fromHelper' = <<>>
           /\ client' = [c EXCEPT !.id = @ + 1] /\ TopNow(f) /\ UNCHANGED block
  <2>1. client' \in ClientRec /\ client'.id = client.id + 1
    <3> HIDE DEF c
    <3> QED
      BY <1>3, <1>5, NextIdIs
  <2>2. f \in FrameRec /\ f.id = client.id /\ f.at = "header"
    <3>1. Top.md \in BOOLEAN
      BY <1>4 DEF FrameRec
    <3>2. Top.tries + 1 \in Nat
      BY <1>4 DEF FrameRec
    <3>3. f \in FrameRec
      BY <1>1, <3>1, <3>2, Zenon DEF Frame, FrameRec, Stages
    <3> QED
      BY <3>3 DEF Frame
  <2>3. /\ frames' \in Seq(FrameRec) /\ Len(frames') <= 2 /\ frames' # <<>> /\ Top' = f
        /\ \A k \in DOMAIN frames' : frames'[k].id < client.id + 1
    <3>1. TopNow(f)
      BY <1>5
    <3>2. client.id + 1 \in Nat /\ client.id <= client.id + 1 /\ f.id < client.id + 1
      BY <1>1, <2>2
    <3> HIDE DEF f
    <3> QED
      BY <2>2, <3>1, <3>2, TopNowKeeps
  <2>4. helper' \in HelperRec /\ helper'.id = 0 /\ helper'.want = "header" /\ helper'.runs
    BY <1>5 DEF HelperRec
  <2>5. TypesOK'
    BY <1>1, <1>5, <2>1, <2>3, <2>4, Empties DEF TypesOK
  <2>6. Issued'
    <3>1. helper'.id < client'.id
      BY <1>1, <2>1, <2>4
    <3> QED
      BY <1>5, <2>1, <2>3, <3>1, Empties DEF Issued
  <2>7. BlockOK' /\ ColoursOfText'
    BY <1>1, <1>5 DEF IInv, BlockOK, ColoursOfText
  <2>8. PipesOK'
    <3>1. Asked(f, helper', toHelper', fromHelper')
      <4> HIDE DEF f
      <4> QED
        BY <1>5, <2>2, <2>4 DEF Asked
    <3>2. Piped(Top', block', helper', toHelper', fromHelper')
      BY <2>3, <3>1 DEF Piped
    <3> QED
      BY <2>3, <2>4, <3>2 DEF PipesOK
  <2> QED
    BY <2>5, <2>6, <2>7, <2>8 DEF IInv
<1>6. CASE Retired /\ client' = c /\ Popped(EndOf(Top))
  <2> HIDE DEF c
  <2> QED
    BY <1>3, <1>6, StoppedKeeps
<1> HIDE DEF f
<1> QED
  BY <1>5, <1>6, Zenon DEF Retry, f

LEMMA KeptByFails == ASSUME IInv, Fails PROVE IInv'
BY KeptByRetry DEF Fails

LEMMA KeptByTimesOut == ASSUME IInv, TimesOut PROVE IInv'
BY KeptByRetry DEF TimesOut

--------------------------------------------------------------------------------
LEMMA LastIs ==
    ASSUME NEW fs \in Seq(FrameRec), fs # <<>>
    PROVE  Last(fs) \in FrameRec
<1>1. Len(fs) \in 1..Len(fs) /\ fs[Len(fs)] \in FrameRec
  OBVIOUS
<1> QED
  BY <1>1 DEF Last

\* A request that was answered leaves quiet pipes to the one around it.
LEMMA ServedKeeps ==
    ASSUME IInv, frames # <<>>, helper.runs, fromHelper # <<>>, fromHelper' = Tail(fromHelper),
           Tail(fromHelper) = <<>>, toHelper = <<>>, helper.want \in {"header", "gone"},
           UNCHANGED <<helper, toHelper>>, client' = [client EXCEPT !.strikes = 0, !.lang = 0],
           Popped(EndOf(Top)), ColoursOfText'
    PROVE  IInv'
<1>1. client \in ClientRec /\ helper \in HelperRec
  BY DEF IInv, TypesOK
<1>2. client' \in ClientRec /\ client'.id = client.id
  <2> DEFINE z == 0
             a == [client EXCEPT !.strikes = z]
             d == [a EXCEPT !.lang = z]
  <2>1. client' = d /\ z \in Nat
    OBVIOUS
  <2> HIDE DEF z
  <2>2. a \in ClientRec /\ a.id = client.id
    BY <1>1, <2>1, StrikesIs
  <2> HIDE DEF a
  <2>3. d \in ClientRec /\ d.id = a.id
    BY <2>1, <2>2, LangIs
  <2> QED
    BY <2>1, <2>2, <2>3
<1>3. TypesOK' /\ Issued' /\ BlockOK'
  BY <1>1, <1>2, PoppedKeeps
<1>4. PipesOK'
  <2>1. Quiet(helper', toHelper', fromHelper')
    BY DEF Quiet
  <2>2. frames' # <<>> => Piped(Top', block', helper', toHelper', fromHelper')
    <3>1. frames' # <<>> => Top' \in FrameRec
      BY <1>3, LastIs DEF Top, TypesOK
    <3> QED
      BY <2>1, <3>1, QuietIsPiped
  <2> QED
    BY <2>1, <2>2 DEF PipesOK
<1> QED
  BY <1>3, <1>4 DEF IInv

\* The answer to the innermost request is all that is in the pipes.
LEMMA AnswerIsOwn ==
    ASSUME NEW f \in FrameRec, NEW b, NEW h, NEW to, NEW from, Piped(f, b, h, to, from), from # <<>>,
           f.at = "reply", IsReply(Head(from), f.id)
    PROVE  /\ to = <<>> /\ h.want \in {"header", "gone"}
           /\ \E x \in Texts : /\ Right(f, b, x)
                               /\ \/ from = <<ReplyOf(f.id, "ok", x), RunOf(f.id, x)>>
                                  \/ \E s \in {"none", "internal"} : from = <<ReplyOf(f.id, s, x)>>
<1>1. ~Asked(f, h, to, from) /\ ~Lost(f, h, to, from)
  BY DEF Asked, Lost
<1>2. PICK x \in Texts : Right(f, b, x) /\ Sent(f, h, to, from, x)
  BY <1>1, Zenon DEF Piped
<1>3. /\ to = <<>> /\ h.want \in {"header", "gone"}
      /\ \/ from = <<ReplyOf(f.id, "ok", x), RunOf(f.id, x)>>
         \/ \E s \in {"none", "internal"} : from = <<ReplyOf(f.id, s, x)>>
  BY <1>2 DEF Sent
<1> QED
  BY <1>2, <1>3, Zenon

LEMMA KeptByReadReply == ASSUME IInv, ReadReply PROVE IInv'
<1> DEFINE m == Head(fromHelper)
           g == [Top EXCEPT !.at = "runs"]
<1>1. frames # <<>> /\ Top.at = "reply" /\ fromHelper # <<>> /\ helper.runs
  BY DEF ReadReply
<1>2. CASE ~IsReply(m, Top.id) \/ m.status = "internal"
  <2>1. Broken
    BY <1>2 DEF ReadReply
  <2> QED
    BY <1>1, <2>1, KeptByBroken
<1>3. CASE IsReply(m, Top.id) /\ m.status # "internal"
  <2>1. /\ frames \in Seq(FrameRec) /\ client \in ClientRec /\ client.id \in Nat /\ fromHelper \in Seq(Answer)
        /\ \A k \in DOMAIN frames : frames[k].id < client.id
        /\ Piped(Top, block, helper, toHelper, fromHelper)
    BY <1>1 DEF IInv, TypesOK, Issued, PipesOK, ClientRec
  <2>2. Top \in FrameRec /\ Top.id < client.id
    BY <1>1, <2>1, FramesAre DEF Top, Last
  <2>3. toHelper = <<>> /\ helper.want \in {"header", "gone"}
    BY <1>1, <1>3, <2>1, <2>2, AnswerIsOwn
  <2>4. PICK x \in Texts : /\ Right(Top, block, x)
                           /\ \/ fromHelper = <<ReplyOf(Top.id, "ok", x), RunOf(Top.id, x)>>
                              \/ \E s \in {"none", "internal"} : fromHelper = <<ReplyOf(Top.id, s, x)>>
    BY <1>1, <1>3, <2>1, <2>2, AnswerIsOwn
  <2>5. fromHelper' = Tail(fromHelper) /\ UNCHANGED <<helper, toHelper, coloured, slow>>
    BY <1>3 DEF ReadReply
  <2>6. CASE m.status = "ok"
    <3>1. TopNow(g) /\ UNCHANGED <<client, block>>
      BY <1>3, <2>6 DEF ReadReply
    <3>2. Tail(fromHelper) = <<RunOf(Top.id, x)>>
      <4>1. ASSUME NEW s \in {"none", "internal"}, fromHelper = <<ReplyOf(Top.id, s, x)>> PROVE FALSE
        <5> DEFINE r == ReplyOf(Top.id, s, x)
        <5>1. fromHelper = <<r>> /\ r.status = s
          BY <4>1 DEF ReplyOf
        <5> HIDE DEF r
        <5>2. m = r
          BY <5>1, OneTwo
        <5> QED
          BY <2>6, <5>1, <5>2
      <4>2. fromHelper = <<ReplyOf(Top.id, "ok", x), RunOf(Top.id, x)>>
        BY <2>4, <4>1, Zenon
      <4> DEFINE r == ReplyOf(Top.id, "ok", x)
                 u == RunOf(Top.id, x)
      <4>3. fromHelper = <<r, u>>
        BY <4>2
      <4> HIDE DEF r, u
      <4>4. Tail(fromHelper) = <<u>>
        BY <4>3, OneTwo
      <4> QED
        BY <4>4 DEF u
    <3>3. g \in FrameRec /\ g.at = "runs" /\ g.id = Top.id /\ g.md = Top.md
      BY <2>2, StageIs DEF Stages
    <3>4. /\ frames' \in Seq(FrameRec) /\ Len(frames') <= 2 /\ frames' # <<>> /\ Top' = g
          /\ \A k \in DOMAIN frames' : frames'[k].id < client.id
      <4>1. client.id <= client.id /\ g.id < client.id
        BY <2>1, <2>2, <3>3
      <4> HIDE DEF g
      <4> QED
        BY <1>1, <2>1, <3>1, <3>3, <4>1, TopNowKeeps
    <3>5. fromHelper' \in Seq(Answer) /\ \A k \in DOMAIN fromHelper' : fromHelper'[k].id < client.id
      <4>1. \A k \in DOMAIN fromHelper : fromHelper[k].id < client.id
        BY DEF IInv, Issued
      <4>2. /\ Tail(fromHelper) \in Seq(Answer)
            /\ \A k \in DOMAIN Tail(fromHelper) : k + 1 \in DOMAIN fromHelper /\ Tail(fromHelper)[k] = fromHelper[k + 1]
        BY <1>1, <2>1, TakeIs
      <4> QED
        BY <2>5, <4>1, <4>2
    <3>6. TypesOK'
      BY <2>5, <3>1, <3>4, <3>5 DEF IInv, TypesOK
    <3>7. Issued'
      BY <2>5, <3>1, <3>4, <3>5 DEF IInv, Issued
    <3>8. BlockOK' /\ ColoursOfText'
      BY <2>5, <3>1 DEF IInv, BlockOK, ColoursOfText
    <3>9. PipesOK'
      <4>1. Right(g, block, x)
        <5> HIDE DEF g
        <5> QED
          BY <2>4, <3>3 DEF Right
      <4>2. Sent(g, helper, toHelper, <<RunOf(g.id, x)>>, x)
        <5> HIDE DEF g
        <5> QED
          BY <2>3, <3>3 DEF Sent
      <4>3. Piped(g, block, helper, toHelper, <<RunOf(g.id, x)>>)
        <5> HIDE DEF g
        <5> QED
          BY <4>1, <4>2, Zenon DEF Piped
      <4>4. fromHelper' = <<RunOf(g.id, x)>>
        <5> HIDE DEF g
        <5> QED
          BY <2>5, <3>2, <3>3
      <4> HIDE DEF g
      <4> QED
        BY <1>1, <2>5, <3>1, <3>4, <4>3, <4>4 DEF PipesOK
    <3> QED
      BY <3>6, <3>7, <3>8, <3>9 DEF IInv
  <2>7. CASE m.status # "ok"
    <3>1. client' = [client EXCEPT !.strikes = 0, !.lang = 0] /\ Popped(EndOf(Top))
      BY <1>3, <2>7 DEF ReadReply
    <3>2. Tail(fromHelper) = <<>>
      <4>1. fromHelper # <<ReplyOf(Top.id, "ok", x), RunOf(Top.id, x)>>
        <5> DEFINE r == ReplyOf(Top.id, "ok", x)
                   u == RunOf(Top.id, x)
        <5>1. r.status = "ok"
          BY DEF ReplyOf
        <5> HIDE DEF r, u
        <5>2. fromHelper = <<r, u>> => m = r
          BY OneTwo
        <5> QED
          BY <2>7, <5>1, <5>2 DEF r, u
      <4>2. PICK s \in {"none", "internal"} : fromHelper = <<ReplyOf(Top.id, s, x)>>
        BY <2>4, <4>1, Zenon
      <4> DEFINE r == ReplyOf(Top.id, s, x)
      <4>3. fromHelper = <<r>>
        BY <4>2
      <4> HIDE DEF r
      <4> QED
        BY <4>3, OneTwo
    <3>3. ColoursOfText'
      BY <2>5 DEF IInv, ColoursOfText
    <3> HIDE DEF m
    <3> QED
      BY <1>1, <2>3, <2>5, <3>1, <3>2, <3>3, ServedKeeps
  <2> QED
    BY <2>6, <2>7
<1> QED
  BY <1>2, <1>3

LEMMA KeptByReadRuns == ASSUME IInv, ReadRuns PROVE IInv'
<1> DEFINE m == Head(fromHelper)
           shown == IF Top.md THEN block.lines ELSE Diff
<1>1. frames # <<>> /\ Top.at = "runs" /\ fromHelper # <<>> /\ helper.runs
  BY DEF ReadRuns
<1>2. CASE m.is # "run"
  <2>1. Broken
    BY <1>2 DEF ReadRuns
  <2> QED
    BY <1>1, <2>1, KeptByBroken
<1>3. CASE m.is = "run"
  <2>1. frames \in Seq(FrameRec) /\ Piped(Top, block, helper, toHelper, fromHelper)
    BY <1>1 DEF IInv, TypesOK, PipesOK
  <2>2. Top \in FrameRec
    BY <1>1, <2>1, FramesAre
  <2>3. ~Asked(Top, helper, toHelper, fromHelper) /\ ~Lost(Top, helper, toHelper, fromHelper)
    BY <1>1 DEF Asked, Lost
  <2>4. PICK x \in Texts : Right(Top, block, x) /\ Sent(Top, helper, toHelper, fromHelper, x)
    BY <2>1, <2>3, Zenon DEF Piped
  <2>5. toHelper = <<>> /\ helper.want \in {"header", "gone"} /\ fromHelper = <<RunOf(Top.id, x)>>
    BY <1>1, <2>4 DEF Sent
  <2>6. m.text = x /\ Tail(fromHelper) = <<>>
    <3> DEFINE u == RunOf(Top.id, x)
    <3>1. fromHelper = <<u>> /\ u.text = x
      BY <2>5 DEF RunOf
    <3> HIDE DEF u
    <3>2. m = u /\ Tail(fromHelper) = <<>>
      BY <3>1, OneTwo
    <3> QED
      BY <3>1, <3>2
  <2>7. /\ fromHelper' = Tail(fromHelper) /\ UNCHANGED <<helper, toHelper, slow>>
        /\ client' = [client EXCEPT !.strikes = 0, !.lang = 0] /\ Popped(EndOf(Top))
        /\ coloured' = IF shown = NoText THEN coloured ELSE coloured \cup {<<shown, m.text>>}
    BY <1>3 DEF ReadRuns
  <2>8. shown \in {NoText, x}
    BY <2>4 DEF Right
  <2>9. ColoursOfText'
    <3> HIDE DEF shown, m
    <3>1. coloured' = coloured \/ coloured' = coloured \cup {<<x, x>>}
      BY <2>6, <2>7, <2>8
    <3> QED
      BY <3>1 DEF IInv, ColoursOfText
  <2> HIDE DEF m, shown
  <2> QED
    BY <1>1, <2>5, <2>6, <2>7, <2>9, ServedKeeps
<1> QED
  BY <1>2, <1>3

--------------------------------------------------------------------------------
LEMMA Inductive == IInv /\ [HlNext]_hlVars => IInv'
<1> SUFFICES ASSUME IInv, [HlNext]_hlVars PROVE IInv'
  OBVIOUS
<1>1. CASE UNCHANGED hlVars
  BY <1>1 DEF hlVars, IInv, TypesOK, Issued, BlockOK, PipesOK, Top, ColoursOfText
<1>2. CASE HlNext
  <2>1. CASE \E t \in Text : BlockEnds(t)
    BY <2>1, KeptByBlockEnds
  <2>2. CASE BlockCut
    BY <2>2, KeptByBlockCut
  <2>3. CASE DiffShown
    BY <2>3, KeptByDiffShown
  <2>4. CASE WriteHeader
    BY <2>4, KeptByWriteHeader
  <2>5. CASE WriteSource
    BY <2>5, KeptByWriteSource
  <2>6. CASE HelperReads
    BY <2>6, KeptByHelperReads
  <2>7. CASE HelperDies
    BY <2>7, KeptByHelperDies
  <2>8. CASE Fails
    BY <2>8, KeptByFails
  <2>9. CASE TimesOut
    BY <2>9, KeptByTimesOut
  <2>10. CASE ReadReply
    BY <2>10, KeptByReadReply
  <2>11. CASE ReadRuns
    BY <2>11, KeptByReadRuns
  <2> QED
    BY <1>2, <2>1, <2>2, <2>3, <2>4, <2>5, <2>6, <2>7, <2>8, <2>9, <2>10, <2>11 DEF HlNext
<1> QED
  BY <1>1, <1>2

\* The innermost request and the two pipes belong together: either they hold exactly what it wrote or
\* is owed, or what it reads next is not its answer, which ends the helper (highlight_exchange).
THEOREM PipesTrue == HlSpec => []IInv
<1> QED
  BY Initially, Inductive, PTL DEF HlSpec

\* What is coloured is coloured by what was computed from it, whatever views and diffs are shown while a
\* request waits, and whatever helpers die, are slow or are killed and started again in between
\* (highlight_exchange, md_hl_finish), for any number of strikes and attempts.
THEOREM ColoursTrue == HlSpec => []ColoursOfText
<1>1. IInv => ColoursOfText
  BY DEF IInv
<1> QED
  BY <1>1, PipesTrue, PTL

================================================================================

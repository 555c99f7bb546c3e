---------------------------- MODULE AgentTurnProofs ----------------------------
(***************************************************************************)
(* The inductive invariant of AgentTurn and the theorems that follow from  *)
(* it, for every size of a conversation, of a round and of a batch, and    *)
(* for any number of calls, failed writes and deaths of the process.       *)
(*                                                                         *)
(* Good says what every conversation and every transcript is like: calls   *)
(* and results have numbers of their own, a result stands in the round of  *)
(* its call, and a call without a result is in the last round, unless the  *)
(* turn of that call was cut short. It is stated for a sequence of slots,  *)
(* so that what happens to a conversation (it grows by a slot or a reply,  *)
(* loses its head or its end, is read back) is a lemma of constants.       *)
(***************************************************************************)
EXTENDS AgentTurn, TLAPS

--------------------------------------------------------------------------------
(* Conversations: c a sequence of slots, S the calls of turns cut short, n the number of
   calls made *)

Numbered(c, n) == \A i \in DOMAIN c : IsCall(c, i) \/ IsResult(c, i) => c[i].call \in 1..n

\* No two calls and no two results have the same number, and a result follows its call.
Unique(c) == \A i, j \in DOMAIN c : c[i].call = c[j].call /\ i # j =>
                /\ ~(IsCall(c, i) /\ IsCall(c, j)) /\ ~(IsResult(c, i) /\ IsResult(c, j))
                /\ IsResult(c, i) /\ IsCall(c, j) => j < i

Paired(c, S) == \A k \in DOMAIN c : IsResult(c, k) => c[k].call \in S \/ \E i \in DOMAIN c : Answers(c, k, i)

\* Nothing in c answers the call in slot i.
Waits(c, i) == IsCall(c, i) /\ \A k \in i + 1..Len(c) : ~(IsResult(c, k) /\ c[k].call = c[i].call)

LastRound(c, S) == \A i \in DOMAIN c : Waits(c, i) /\ c[i].call \notin S => \A j \in i + 1..Len(c) : ~RoundStart(c, j)

Good(c, S, n) == Numbered(c, n) /\ Unique(c) /\ Paired(c, S) /\ LastRound(c, S)

\* Every call without a result is one of S.
Settled(c, S) == \A i \in DOMAIN c : Waits(c, i) => c[i].call \in S

\* The transcript f has the slots of c; a result may stand as it was before it ended: the
\* result of a call of M, whose update was refused, and with last the one in the last slot.
Kept(f, c, M, last) ==
    /\ Len(f) <= Len(c)
    /\ \A i \in 1..Len(f) :
          /\ f[i].role = c[i].role /\ f[i].call = c[i].call
          /\ \/ f[i] = c[i]
             \/ /\ IsResult(c, i) /\ f[i].what = "running"
                /\ c[i].call \in M \/ (last /\ i = Len(c) /\ f[i].rows = c[i].rows)

--------------------------------------------------------------------------------
(* The invariant *)

InBatch == {"batch", "batch_ran", "batch_end"}
InRound == {"calls", "answer"} \cup InBatch
Judging == pc \in {"stored", "naming", "judge"} /\ rc \in {"calls", "cut"}

NoResult(c, n) == \A k \in DOMAIN c : IsResult(c, k) => c[k].call # n

ConvOK == Good(conv, left, calls)

SettledOK == pc \notin InRound /\ ~Judging => Settled(conv, left)

\* A reply that is judged ends in its calls, none of them looked at.
JudgedOK ==
    Judging => \E h \in DOMAIN conv :
        /\ conv[h].role = "head"
        /\ \A j \in h + 1..Len(conv) : IsCall(conv, j) /\ did[conv[j].call] = 0
        /\ \A i \in DOMAIN conv : Waits(conv, i) /\ conv[i].call \notin left => i > h

\* The calls from slot a on are those that are left of a round, and then come its results.
RoundFrom(c, a, S, D) ==
    /\ a \in 1..Len(c) + 1
    /\ \A j \in a..Len(c) : ~RoundStart(c, j)
    /\ \A j \in a..Len(c) : IsCall(c, j) => \A m \in a..j : IsCall(c, m)
    /\ \A j \in a..Len(c) : IsCall(c, j) /\ j > a => D[c[j].call] = 0 /\ NoResult(c, c[j].call)
    /\ \A i \in DOMAIN c : Waits(c, i) /\ c[i].call \notin S => i >= a

RoundOK ==
    pc \in InRound =>
        /\ RoundFrom(conv, at, left, did)
        /\ pc = "calls" /\ IsCall(conv, at) => did[conv[at].call] = 0
        /\ pc \in {"calls", "answer"} /\ IsCall(conv, at) => NoResult(conv, conv[at].call)
        /\ pc # "calls" => IsCall(conv, at)

BatchOK ==
    pc \in InBatch =>
        /\ IsResult(conv, slot) /\ conv[slot].call = conv[at].call
        /\ pc = "batch" => conv[slot].what = "running" /\ did[conv[slot].call] = Rows
        /\ pc = "batch_ran" => conv[slot].what = "running" /\ did[conv[slot].call] = Rows + 1
        /\ pc = "batch_end" =>
              \/ conv[slot].what = "running" /\ did[conv[slot].call] = Rows
              \/ conv[slot].what = "unstored" /\ did[conv[slot].call] \in {Rows, Rows + 1}
        /\ written = slot => file[slot].what = "running"

FreshOK == \A c \in Call : c > calls => did[c] = 0

\* A batch's row is right about what its call has done; only a result has one.
RowOK(x, D, L) ==
    /\ x.what \in {"running", "ended", "unstored"} => x.role = "result"
    /\ x.what = "running" /\ x.call \notin L => x.rows <= D[x.call] /\ D[x.call] <= x.rows + 1
    /\ x.what = "ended" => x.rows = D[x.call]

RowsOK == \A i \in DOMAIN conv : RowOK(conv[i], did, lapsed)

FileOK == Len(file) = written /\ Kept(file, conv, missed, pc = "batch_end")

EndOK ==
    /\ pc \in {"prompt", "exit", "compacting"} => ~handoff
    /\ blocked => oneShot /\ pc \in {"answer", "batch_ran", "batch_end", "round", "end", "exit"}
    /\ blocked /\ pc = "round" => pending # "continue"
    /\ handoff => ~oneShot

SplitOK ==
    pc \in {"compact", "compacting"} =>
        keep \in 2..Len(conv) + 1 /\ (keep <= Len(conv) => RoundStart(conv, keep))

IInv == /\ TypeOK /\ ConvOK /\ SettledOK /\ JudgedOK /\ RoundOK /\ BatchOK /\ FreshOK /\ RowsOK
        /\ FileOK /\ EndOK /\ SplitOK

--------------------------------------------------------------------------------
(* What happens to a conversation *)

\* d begins as c does, but for what is in the slots.
Shaped(d, c) == Len(d) <= Len(c) /\ \A i \in 1..Len(d) : d[i].role = c[i].role /\ d[i].call = c[i].call

LEMMA GoodMore ==
    ASSUME NEW c \in Seq(SlotType), NEW S, NEW T, S \subseteq T, NEW n \in Nat, NEW m \in Nat, n <= m,
           Good(c, S, n)
    PROVE  Good(c, T, m)
<1>1. Numbered(c, m)
  BY DEF Good, Numbered
<1>2. Paired(c, T)
  BY DEF Good, Paired
<1>3. LastRound(c, T)
  BY DEF Good, LastRound
<1> QED
  BY <1>1, <1>2, <1>3 DEF Good

LEMMA SettleAll ==
    ASSUME NEW c \in Seq(SlotType), NEW S
    PROVE  Settled(c, S \cup Unanswered(c))
<1> SUFFICES ASSUME NEW i \in DOMAIN c, Waits(c, i) PROVE c[i].call \in Unanswered(c)
  BY DEF Settled
<1> QED
  BY DEF Waits, Unanswered

\* A result that is not of a turn cut short stands in the round of its call.
LEMMA PairedIn ==
    ASSUME NEW c \in Seq(SlotType), NEW S, NEW n, Good(c, S, n),
           NEW i \in DOMAIN c, IsCall(c, i), ~Waits(c, i), c[i].call \notin S
    PROVE  \E k \in DOMAIN c : Answers(c, k, i)
<1>1. PICK k \in i + 1..Len(c) : IsResult(c, k) /\ c[k].call = c[i].call
  BY DEF Waits
<1>2. PICK j \in DOMAIN c : Answers(c, k, j)
  BY <1>1 DEF Good, Paired, IsResult
<1>3. j = i
  BY <1>1, <1>2 DEF Answers, Good, Unique, IsCall
<1> QED
  BY <1>1, <1>2, <1>3 DEF IsResult

LEMMA GoodShaped ==
    ASSUME NEW c \in Seq(SlotType), NEW d \in Seq(SlotType), Shaped(d, c), NEW S, NEW n, Good(c, S, n)
    PROVE  Good(d, S, n)
<1>0. /\ DOMAIN c = 1..Len(c) /\ DOMAIN d = 1..Len(d) /\ Len(c) \in Nat /\ Len(d) \in Nat
      /\ DOMAIN d \subseteq DOMAIN c
  BY DEF Shaped
<1>1. \A i \in DOMAIN d : /\ IsCall(d, i) <=> IsCall(c, i)
                          /\ IsResult(d, i) <=> IsResult(c, i)
                          /\ RoundStart(d, i) <=> RoundStart(c, i)
                          /\ d[i].call = c[i].call
  BY <1>0 DEF Shaped, IsCall, IsResult, RoundStart
<1>2. Numbered(d, n)
  BY <1>0, <1>1 DEF Good, Numbered
<1>3. Unique(d)
  BY <1>0, <1>1 DEF Good, Unique
<1>4. Paired(d, S)
  <2> SUFFICES ASSUME NEW k \in DOMAIN d, IsResult(d, k), d[k].call \notin S
               PROVE  \E i \in DOMAIN d : Answers(d, k, i)
    BY DEF Paired
  <2>1. PICK i \in DOMAIN c : Answers(c, k, i)
    BY <1>0, <1>1 DEF Good, Paired
  <2>2. i \in DOMAIN d /\ i < k
    BY <1>0, <2>1 DEF Answers
  <2> QED
    BY <1>0, <1>1, <2>1, <2>2 DEF Answers
<1>5. LastRound(d, S)
  <2> SUFFICES ASSUME NEW i \in DOMAIN d, Waits(d, i), d[i].call \notin S, NEW j \in i + 1..Len(d)
               PROVE  ~RoundStart(d, j)
    BY DEF LastRound
  <2>0. j \in DOMAIN d /\ IsCall(c, i) /\ c[i].call \notin S /\ i \in DOMAIN c
    BY <1>0, <1>1 DEF Waits
  <2>1. CASE Waits(c, i)
    BY <1>0, <1>1, <2>0, <2>1 DEF Good, LastRound
  <2>2. CASE ~Waits(c, i)
    <3>1. PICK k \in DOMAIN c : Answers(c, k, i)
      BY <2>0, <2>2, PairedIn
    <3>2. k > Len(d)
      BY <1>0, <1>1, <3>1 DEF Waits, Answers
    <3> QED
      BY <1>0, <1>1, <2>0, <3>1, <3>2 DEF Answers
  <2> QED
    BY <2>1, <2>2
<1> QED
  BY <1>2, <1>3, <1>4, <1>5 DEF Good

\* A conversation that is cut where a round starts keeps no call without its result.
LEMMA CutSettled ==
    ASSUME NEW c \in Seq(SlotType), NEW d \in Seq(SlotType), Shaped(d, c), NEW S, NEW n, Good(c, S, n),
           Settled(c, S), Len(d) < Len(c) => RoundStart(c, Len(d) + 1)
    PROVE  Settled(d, S)
<1>0. /\ DOMAIN c = 1..Len(c) /\ DOMAIN d = 1..Len(d) /\ Len(c) \in Nat /\ Len(d) \in Nat
      /\ DOMAIN d \subseteq DOMAIN c
  BY DEF Shaped
<1>1. \A i \in DOMAIN d : /\ IsCall(d, i) <=> IsCall(c, i)
                          /\ IsResult(d, i) <=> IsResult(c, i)
                          /\ d[i].call = c[i].call
  BY <1>0 DEF Shaped, IsCall, IsResult
<1> SUFFICES ASSUME NEW i \in DOMAIN d, Waits(d, i), d[i].call \notin S PROVE FALSE
  BY DEF Settled
<1>2. IsCall(c, i) /\ c[i].call \notin S /\ i \in DOMAIN c
  BY <1>0, <1>1 DEF Waits
<1>3. ~Waits(c, i)
  BY <1>2 DEF Settled
<1>4. PICK k \in DOMAIN c : Answers(c, k, i)
  BY <1>2, <1>3, PairedIn
<1>5. k > Len(d)
  BY <1>0, <1>1, <1>4 DEF Waits, Answers
<1>6. k # Len(d) + 1
  BY <1>0, <1>4, <1>5 DEF Answers, RoundStart
<1> QED
  BY <1>0, <1>4, <1>5, <1>6 DEF Answers

\* What answers a call goes on answering it when the conversation grows.
LEMMA AnswersKept ==
    ASSUME NEW c \in Seq(SlotType), NEW d \in Seq(SlotType), Shaped(c, d), NEW k, NEW i, Answers(c, k, i)
    PROVE  k \in DOMAIN d /\ i \in DOMAIN d /\ Answers(d, k, i)
<1>0. /\ DOMAIN c = 1..Len(c) /\ DOMAIN d = 1..Len(d) /\ Len(c) \in Nat /\ Len(d) \in Nat
      /\ DOMAIN c \subseteq DOMAIN d
  BY DEF Shaped
<1>1. \A j \in DOMAIN c : /\ IsCall(d, j) <=> IsCall(c, j)
                          /\ IsResult(d, j) <=> IsResult(c, j)
                          /\ RoundStart(d, j) <=> RoundStart(c, j)
                          /\ d[j].call = c[j].call
  BY <1>0 DEF Shaped, IsCall, IsResult, RoundStart
<1>2. k \in DOMAIN c /\ i \in DOMAIN c
  BY DEF Answers, IsCall, IsResult
<1>3. \A j \in i + 1..k - 1 : j \in DOMAIN c
  BY <1>0, <1>2
<1> QED
  BY <1>0, <1>1, <1>2, <1>3 DEF Answers

\* A message or a reply without calls is added.
LEMMA GoodStart ==
    ASSUME NEW c \in Seq(SlotType), NEW d \in Seq(SlotType), Shaped(c, d), Len(d) = Len(c) + 1,
           RoundStart(d, Len(d)), NEW S, NEW n, Good(c, S, n), Settled(c, S)
    PROVE  Good(d, S, n) /\ Settled(d, S)
<1>0. /\ DOMAIN c = 1..Len(c) /\ DOMAIN d = 1..Len(d) /\ Len(c) \in Nat /\ Len(d) \in Nat
      /\ DOMAIN c \subseteq DOMAIN d
  BY DEF Shaped
<1>1. \A i \in DOMAIN c : /\ IsCall(d, i) <=> IsCall(c, i)
                          /\ IsResult(d, i) <=> IsResult(c, i)
                          /\ RoundStart(d, i) <=> RoundStart(c, i)
                          /\ d[i].call = c[i].call
  BY <1>0 DEF Shaped, IsCall, IsResult, RoundStart
<1>2. \A i \in DOMAIN d : IsCall(d, i) \/ IsResult(d, i) => i \in DOMAIN c
  BY <1>0 DEF RoundStart
<1>3. Numbered(d, n)
  BY <1>1, <1>2 DEF Good, Numbered
<1>4. Unique(d)
  BY <1>1, <1>2 DEF Good, Unique
<1>5. Paired(d, S)
  <2> SUFFICES ASSUME NEW k \in DOMAIN d, IsResult(d, k), d[k].call \notin S
               PROVE  \E i \in DOMAIN d : Answers(d, k, i)
    BY DEF Paired
  <2>1. PICK i \in DOMAIN c : Answers(c, k, i)
    BY <1>1, <1>2 DEF Good, Paired
  <2> QED
    BY <2>1, AnswersKept
<1>6. Settled(d, S)
  <2> SUFFICES ASSUME NEW i \in DOMAIN d, Waits(d, i) PROVE d[i].call \in S
    BY DEF Settled
  <2>1. i \in DOMAIN c /\ Waits(c, i)
    BY <1>0, <1>1, <1>2 DEF Waits
  <2> QED
    BY <1>1, <2>1 DEF Settled
<1>7. LastRound(d, S)
  BY <1>6 DEF LastRound, Settled
<1> QED
  BY <1>3, <1>4, <1>5, <1>6, <1>7 DEF Good

\* A reply with m calls is added: a head and the calls, with the numbers that come next.
LEMMA GoodCalls ==
    ASSUME NEW c \in Seq(SlotType), NEW d \in Seq(SlotType), Shaped(c, d),
           NEW n \in Nat, NEW m \in Nat, Len(d) = Len(c) + 1 + m, RoundStart(d, Len(c) + 1),
           \A j \in 1..m : IsCall(d, Len(c) + 1 + j) /\ d[Len(c) + 1 + j].call = n + j,
           NEW S, Good(c, S, n), Settled(c, S)
    PROVE  /\ Good(d, S, n + m)
           /\ \A i \in DOMAIN d : Waits(d, i) /\ d[i].call \notin S => i > Len(c) + 1
<1> DEFINE h == Len(c) + 1
<1>0. /\ DOMAIN c = 1..Len(c) /\ DOMAIN d = 1..Len(d) /\ Len(c) \in Nat /\ Len(d) \in Nat
      /\ DOMAIN c \subseteq DOMAIN d
  BY DEF Shaped
<1>1. \A i \in DOMAIN c : /\ IsCall(d, i) <=> IsCall(c, i)
                          /\ IsResult(d, i) <=> IsResult(c, i)
                          /\ RoundStart(d, i) <=> RoundStart(c, i)
                          /\ d[i].call = c[i].call
  BY <1>0 DEF Shaped, IsCall, IsResult, RoundStart
<1>2. \A i \in h + 1..Len(d) : IsCall(d, i) /\ d[i].call = n + (i - h)
  <2> TAKE i \in h + 1..Len(d)
  <2>1. i - h \in 1..m /\ h + (i - h) = i
    BY <1>0
  <2> QED
    BY <2>1
<1>3. ~IsCall(d, h) /\ ~IsResult(d, h)
  BY DEF RoundStart
<1>4. \A i \in DOMAIN d : i \in DOMAIN c \/ i = h \/ i \in h + 1..Len(d)
  BY <1>0
<1>5. \A i \in DOMAIN d : IsResult(d, i) => i \in DOMAIN c
  BY <1>2, <1>3, <1>4 DEF IsCall, IsResult
<1>6. \A i \in DOMAIN c : IsCall(d, i) \/ IsResult(d, i) => d[i].call \in 1..n
  BY <1>1 DEF Good, Numbered
<1> HIDE DEF h
<1>7. Numbered(d, n + m)
  BY <1>0, <1>2, <1>3, <1>4, <1>6 DEF Numbered, h
<1>8. Unique(d)
  <2> SUFFICES ASSUME NEW i \in DOMAIN d, NEW j \in DOMAIN d, d[i].call = d[j].call, i # j
               PROVE  /\ ~(IsCall(d, i) /\ IsCall(d, j)) /\ ~(IsResult(d, i) /\ IsResult(d, j))
                      /\ IsResult(d, i) /\ IsCall(d, j) => j < i
    BY DEF Unique
  <2>1. CASE i \in DOMAIN c /\ j \in DOMAIN c
    BY <1>1, <2>1 DEF Good, Unique
  <2>2. CASE i = h \/ j = h
    BY <1>3, <2>2
  <2>3. CASE i \in h + 1..Len(d) /\ j \in h + 1..Len(d)
    BY <1>0, <1>2, <2>3 DEF h
  <2>4. CASE i \in DOMAIN c /\ j \in h + 1..Len(d)
    BY <1>0, <1>2, <1>6, <2>4 DEF h
  <2>5. CASE j \in DOMAIN c /\ i \in h + 1..Len(d)
    BY <1>0, <1>2, <1>6, <2>5 DEF h
  <2> QED
    BY <1>4, <2>1, <2>2, <2>3, <2>4, <2>5
<1>9. Paired(d, S)
  <2> SUFFICES ASSUME NEW k \in DOMAIN d, IsResult(d, k), d[k].call \notin S
               PROVE  \E i \in DOMAIN d : Answers(d, k, i)
    BY DEF Paired
  <2>1. PICK i \in DOMAIN c : Answers(c, k, i)
    BY <1>1, <1>5 DEF Good, Paired
  <2> QED
    BY <2>1, AnswersKept
<1>10. ASSUME NEW i \in DOMAIN d, Waits(d, i), d[i].call \notin S PROVE i > h
  <2>1. CASE i \in DOMAIN c
    <3>1. Waits(c, i)
      BY <1>0, <1>1, <1>10, <2>1 DEF Waits
    <3> QED
      BY <1>1, <1>10, <2>1, <3>1 DEF Settled
  <2>2. CASE i = h
    BY <1>3, <1>10, <2>2 DEF Waits
  <2>3. CASE i \in h + 1..Len(d)
    BY <1>0, <2>3 DEF h
  <2> QED
    BY <1>4, <2>1, <2>2, <2>3
<1>11. LastRound(d, S)
  <2> SUFFICES ASSUME NEW i \in DOMAIN d, Waits(d, i), d[i].call \notin S, NEW j \in i + 1..Len(d)
               PROVE  ~RoundStart(d, j)
    BY DEF LastRound
  <2>1. j \in h + 1..Len(d)
    BY <1>0, <1>10 DEF h
  <2> QED
    BY <1>2, <2>1 DEF RoundStart
<1> QED
  BY <1>7, <1>8, <1>9, <1>10, <1>11 DEF Good, h

\* The call in slot a, which nothing answers and after which no round starts, is answered.
LEMMA GoodResult ==
    ASSUME NEW c \in Seq(SlotType), NEW d \in Seq(SlotType), Shaped(c, d), Len(d) = Len(c) + 1,
           NEW a \in DOMAIN c, IsCall(c, a), \A j \in a..Len(c) : ~RoundStart(c, j),
           NoResult(c, c[a].call), IsResult(d, Len(d)), d[Len(d)].call = c[a].call,
           NEW S, NEW n, Good(c, S, n)
    PROVE  /\ Good(d, S, n)
           /\ \A i \in DOMAIN d : Waits(d, i) => i \in DOMAIN c /\ Waits(c, i) /\ i # a
<1> DEFINE e == Len(c) + 1
<1>0. /\ DOMAIN c = 1..Len(c) /\ DOMAIN d = 1..Len(d) /\ Len(c) \in Nat /\ Len(d) \in Nat
      /\ DOMAIN c \subseteq DOMAIN d
  BY DEF Shaped
<1>1. \A i \in DOMAIN c : /\ IsCall(d, i) <=> IsCall(c, i)
                          /\ IsResult(d, i) <=> IsResult(c, i)
                          /\ RoundStart(d, i) <=> RoundStart(c, i)
                          /\ d[i].call = c[i].call
  BY <1>0 DEF Shaped, IsCall, IsResult, RoundStart
<1>2. IsResult(d, e) /\ ~IsCall(d, e) /\ ~RoundStart(d, e) /\ d[e].call = c[a].call
  BY DEF IsResult, IsCall, RoundStart
<1>3. \A i \in DOMAIN d : i \in DOMAIN c \/ i = e
  BY <1>0
<1>4. Numbered(d, n)
  BY <1>0, <1>1, <1>2, <1>3 DEF Good, Numbered
<1>5. Unique(d)
  <2> SUFFICES ASSUME NEW i \in DOMAIN d, NEW j \in DOMAIN d, d[i].call = d[j].call, i # j
               PROVE  /\ ~(IsCall(d, i) /\ IsCall(d, j)) /\ ~(IsResult(d, i) /\ IsResult(d, j))
                      /\ IsResult(d, i) /\ IsCall(d, j) => j < i
    BY DEF Unique
  <2>1. CASE i \in DOMAIN c /\ j \in DOMAIN c
    BY <1>1, <2>1 DEF Good, Unique
  <2>2. CASE i = e /\ j \in DOMAIN c
    BY <1>0, <1>1, <1>2, <2>2 DEF NoResult
  <2>3. CASE j = e /\ i \in DOMAIN c
    BY <1>0, <1>1, <1>2, <2>3 DEF NoResult
  <2> QED
    BY <1>3, <2>1, <2>2, <2>3
<1>6. Paired(d, S)
  <2> SUFFICES ASSUME NEW k \in DOMAIN d, IsResult(d, k), d[k].call \notin S
               PROVE  \E i \in DOMAIN d : Answers(d, k, i)
    BY DEF Paired
  <2>1. CASE k \in DOMAIN c
    <3>1. PICK i \in DOMAIN c : Answers(c, k, i)
      BY <1>1, <2>1 DEF Good, Paired
    <3> QED
      BY <3>1, AnswersKept
  <2>2. CASE k = e
    <3>1. \A j \in a + 1..k - 1 : j \in DOMAIN c /\ ~RoundStart(c, j)
      BY <1>0, <2>2
    <3> QED
      BY <1>0, <1>1, <1>2, <2>2, <3>1 DEF Answers
  <2> QED
    BY <1>3, <2>1, <2>2
<1>7. ASSUME NEW i \in DOMAIN d, Waits(d, i) PROVE i \in DOMAIN c /\ Waits(c, i) /\ i # a
  <2>1. i \in DOMAIN c
    BY <1>2, <1>3, <1>7 DEF Waits
  <2>2. Waits(c, i)
    BY <1>0, <1>1, <1>7, <2>1 DEF Waits
  <2>3. i # a
    <3> SUFFICES ASSUME i = a PROVE FALSE
      OBVIOUS
    <3>1. e \in i + 1..Len(d) /\ d[i].call = c[a].call
      BY <1>0, <1>1
    <3> QED
      BY <1>2, <1>7, <3>1 DEF Waits
  <2> QED
    BY <2>1, <2>2, <2>3
<1>8. LastRound(d, S)
  <2> SUFFICES ASSUME NEW i \in DOMAIN d, Waits(d, i), d[i].call \notin S, NEW j \in i + 1..Len(d)
               PROVE  ~RoundStart(d, j)
    BY DEF LastRound
  <2>1. i \in DOMAIN c /\ Waits(c, i) /\ c[i].call \notin S
    BY <1>1, <1>7
  <2> QED
    BY <1>0, <1>1, <1>2, <1>3, <2>1 DEF Good, LastRound
<1> QED
  BY <1>4, <1>5, <1>6, <1>7, <1>8 DEF Good

\* The part from a round's start on, behind a message (a summary of what went before).
LEMMA GoodTail ==
    ASSUME NEW c \in Seq(SlotType), NEW d \in Seq(SlotType), NEW k \in 1..Len(c) + 1,
           k <= Len(c) => RoundStart(c, k), Len(d) = Len(c) + 2 - k, RoundStart(d, 1),
           \A i \in k..Len(c) : d[i - k + 2].role = c[i].role /\ d[i - k + 2].call = c[i].call,
           NEW S, NEW n, Good(c, S, n), Settled(c, S)
    PROVE  Good(d, S, n) /\ Settled(d, S)
<1> DEFINE From(j) == j + k - 2
<1>0. /\ DOMAIN c = 1..Len(c) /\ DOMAIN d = 1..Len(d) /\ Len(c) \in Nat /\ Len(d) \in Nat
      /\ k \in Nat /\ k >= 1
  OBVIOUS
<1>1. \A j \in DOMAIN d : j # 1 => From(j) \in k..Len(c) /\ From(j) \in DOMAIN c /\ From(j) - k + 2 = j
  BY <1>0
<1>2. \A i \in k..Len(c) : i - k + 2 \in DOMAIN d /\ i - k + 2 # 1 /\ From(i - k + 2) = i
  BY <1>0
<1>3. \A j \in DOMAIN d : j # 1 => d[j].role = c[From(j)].role /\ d[j].call = c[From(j)].call
  BY <1>1
<1>4. \A j \in DOMAIN d : j # 1 => /\ IsCall(d, j) <=> IsCall(c, From(j))
                                   /\ IsResult(d, j) <=> IsResult(c, From(j))
                                   /\ RoundStart(d, j) <=> RoundStart(c, From(j))
                                   /\ d[j].call = c[From(j)].call
  BY <1>1, <1>3 DEF IsCall, IsResult, RoundStart
<1>5. \A j \in DOMAIN d : IsCall(d, j) \/ IsResult(d, j) => j # 1
  BY DEF RoundStart
<1>6. \A i, j \in DOMAIN d : i # j <=> From(i) # From(j)
  BY <1>0
<1>7. \A i, j \in DOMAIN d : i < j <=> From(i) < From(j)
  BY <1>0
<1> HIDE DEF From
<1>8. Numbered(d, n)
  BY <1>1, <1>4, <1>5 DEF Good, Numbered
<1>9. Unique(d)
  <2> SUFFICES ASSUME NEW i \in DOMAIN d, NEW j \in DOMAIN d, d[i].call = d[j].call, i # j
               PROVE  /\ ~(IsCall(d, i) /\ IsCall(d, j)) /\ ~(IsResult(d, i) /\ IsResult(d, j))
                      /\ IsResult(d, i) /\ IsCall(d, j) => j < i
    BY DEF Unique
  <2>1. CASE i = 1 \/ j = 1
    BY <1>5, <2>1
  <2>2. CASE i # 1 /\ j # 1
    <3>1. From(i) \in DOMAIN c /\ From(j) \in DOMAIN c /\ From(i) # From(j)
      BY <1>1, <1>6, <2>2
    <3> QED
      BY <1>4, <1>7, <2>2, <3>1 DEF Good, Unique
  <2> QED
    BY <2>1, <2>2
<1>10. Paired(d, S)
  <2> SUFFICES ASSUME NEW j \in DOMAIN d, IsResult(d, j), d[j].call \notin S
               PROVE  \E i \in DOMAIN d : Answers(d, j, i)
    BY DEF Paired
  <2>0. j # 1 /\ From(j) \in k..Len(c) /\ From(j) \in DOMAIN c
    BY <1>1, <1>5
  <2>1. PICK i \in DOMAIN c : Answers(c, From(j), i)
    BY <1>4, <2>0 DEF Good, Paired
  <2>2. i \in k..Len(c)
    <3>1. RoundStart(c, k) /\ ~RoundStart(c, i)
      BY <1>0, <2>0, <2>1 DEF Answers, RoundStart
    <3>2. From(j) # k
      BY <2>1, <3>1 DEF Answers, RoundStart
    <3> QED
      BY <1>0, <2>0, <2>1, <3>1, <3>2 DEF Answers
  <2> DEFINE m == i - k + 2
  <2>3. m \in DOMAIN d /\ m # 1 /\ From(m) = i
    BY <1>2, <2>2
  <2>4. IsCall(d, m) /\ d[m].call = d[j].call /\ m < j
    BY <1>4, <1>7, <2>0, <2>1, <2>3 DEF Answers
  <2>5. \A q \in m + 1..j - 1 : ~RoundStart(d, q)
    <3> TAKE q \in m + 1..j - 1
    <3>1. q \in DOMAIN d /\ q # 1 /\ From(q) \in i + 1..From(j) - 1
      <4>1. i \in Nat /\ i >= k /\ j \in Nat /\ j <= Len(d)
        BY <1>0, <2>2
      <4>2. m \in Nat /\ m >= 1 /\ i = m + k - 2
        BY <1>0, <4>1
      <4> HIDE DEF m
      <4>3. q \in Nat /\ q >= m + 1 /\ q <= j - 1
        BY <4>1, <4>2
      <4> QED
        BY <1>0, <4>1, <4>2, <4>3 DEF From
    <3> QED
      BY <1>4, <2>1, <3>1 DEF Answers
  <2> QED
    BY <2>3, <2>4, <2>5 DEF Answers
<1>11. Settled(d, S)
  <2> SUFFICES ASSUME NEW j \in DOMAIN d, Waits(d, j) PROVE d[j].call \in S
    BY DEF Settled
  <2>0. j # 1 /\ From(j) \in DOMAIN c /\ IsCall(c, From(j)) /\ d[j].call = c[From(j)].call
    BY <1>1, <1>4, <1>5 DEF Waits
  <2>1. Waits(c, From(j))
    <3> SUFFICES ASSUME NEW q \in From(j) + 1..Len(c), IsResult(c, q), c[q].call = c[From(j)].call
                 PROVE  FALSE
      BY <2>0 DEF Waits
    <3> DEFINE m == q - k + 2
    <3>1. q \in k..Len(c)
      BY <1>0, <1>1, <2>0 DEF From
    <3>2. m \in DOMAIN d /\ m # 1 /\ From(m) = q
      BY <1>2, <3>1
    <3>3. m \in j + 1..Len(d)
      BY <1>0, <3>2 DEF From
    <3> QED
      BY <1>4, <2>0, <3>2, <3>3 DEF Waits
  <2> QED
    BY <2>0, <2>1 DEF Settled
<1>12. LastRound(d, S)
  BY <1>11 DEF LastRound, Settled
<1> QED
  BY <1>8, <1>9, <1>10, <1>11, <1>12 DEF Good

\* A resume adds an answer for the first m of the calls that nothing answered.
LEMMA GoodRecovered ==
    ASSUME NEW c \in Seq(SlotType), NEW d \in Seq(SlotType), Shaped(c, d),
           NEW n \in Nat, NEW p \in Nat, NEW ids \in [1..p -> Unanswered(c)], Listed(ids, Unanswered(c)),
           NEW m \in 0..p, Len(d) = Len(c) + m,
           \A k \in Len(c) + 1..Len(d) : IsResult(d, k) /\ d[k].call = ids[k - Len(c)],
           NEW S, Good(c, S, n)
    PROVE  Good(d, S, n) /\ (m = p => Settled(d, S))
<1> DEFINE e == Len(c)
<1>0. /\ DOMAIN c = 1..Len(c) /\ DOMAIN d = 1..Len(d) /\ e \in Nat /\ Len(d) \in Nat
      /\ DOMAIN c \subseteq DOMAIN d /\ Len(d) = e + m /\ m \in Nat
  BY DEF Shaped
<1>1. \A i \in DOMAIN c : /\ IsCall(d, i) <=> IsCall(c, i)
                          /\ IsResult(d, i) <=> IsResult(c, i)
                          /\ RoundStart(d, i) <=> RoundStart(c, i)
                          /\ d[i].call = c[i].call
  BY <1>0 DEF Shaped, IsCall, IsResult, RoundStart
<1>2. \A k \in e + 1..e + m : /\ IsResult(d, k) /\ ~IsCall(d, k) /\ ~RoundStart(d, k)
                              /\ k - e \in 1..m /\ d[k].call = ids[k - e]
  <2> TAKE k \in e + 1..e + m
  <2>1. k - e \in 1..m /\ k \in Len(c) + 1..Len(d)
    BY <1>0
  <2>2. IsResult(d, k) /\ d[k].call = ids[k - e]
    BY <2>1
  <2> QED
    BY <2>1, <2>2 DEF IsResult, IsCall, RoundStart
<1>3. \A u \in Unanswered(c) : \E i \in DOMAIN c : Waits(c, i) /\ c[i].call = u
  BY DEF Unanswered, Waits
<1>4. \A j \in 1..m : ids[j] \in Unanswered(c) /\ ids[j] \in 1..n
  <2> TAKE j \in 1..m
  <2>1. ids[j] \in Unanswered(c)
    BY <1>0
  <2> QED
    BY <1>3, <2>1 DEF Good, Numbered, Waits
<1>5. \A i, j \in 1..m : i # j => ids[i] # ids[j]
  <2> SUFFICES ASSUME NEW i \in 1..m, NEW j \in 1..m, i # j PROVE ids[i] # ids[j]
    OBVIOUS
  <2>1. i \in DOMAIN ids /\ j \in DOMAIN ids /\ (i < j \/ j < i) /\ ids[i] \in Nat /\ ids[j] \in Nat
    BY <1>0, <1>4
  <2> QED
    BY <2>1 DEF Listed
<1>6. \A k \in DOMAIN d : k \in DOMAIN c \/ k \in e + 1..e + m
  BY <1>0
<1> HIDE DEF e
<1>7. Numbered(d, n)
  BY <1>1, <1>2, <1>4, <1>6 DEF Good, Numbered
\* No result of c has the number of a call that waits in it.
<1>8. ASSUME NEW k \in DOMAIN c, IsResult(c, k), NEW u \in Unanswered(c) PROVE c[k].call # u
  <2>1. PICK i \in DOMAIN c : Waits(c, i) /\ c[i].call = u
    BY <1>3
  <2> SUFFICES ASSUME c[k].call = u PROVE FALSE
    OBVIOUS
  <2>2. IsCall(c, i) /\ i # k
    BY <1>8, <2>1 DEF Waits, IsCall, IsResult
  <2>3. i < k
    BY <1>8, <2>1, <2>2 DEF Good, Unique
  <2> QED
    BY <1>0, <1>8, <2>1, <2>3 DEF Waits, e
<1>9. Unique(d)
  <2> SUFFICES ASSUME NEW i \in DOMAIN d, NEW j \in DOMAIN d, d[i].call = d[j].call, i # j
               PROVE  /\ ~(IsCall(d, i) /\ IsCall(d, j)) /\ ~(IsResult(d, i) /\ IsResult(d, j))
                      /\ IsResult(d, i) /\ IsCall(d, j) => j < i
    BY DEF Unique
  <2>1. CASE i \in DOMAIN c /\ j \in DOMAIN c
    BY <1>1, <2>1 DEF Good, Unique
  <2>2. CASE i \in DOMAIN c /\ j \in e + 1..e + m
    <3>1. ~IsCall(d, j) /\ d[j].call \in Unanswered(c)
      BY <1>2, <1>4, <2>2
    <3>2. ~IsResult(d, i)
      BY <1>1, <1>8, <2>2, <3>1
    <3> QED
      BY <3>1, <3>2
  <2>3. CASE j \in DOMAIN c /\ i \in e + 1..e + m
    <3>1. j < i
      BY <1>0, <2>3 DEF e
    <3> QED
      <4>1. ~IsCall(d, i) /\ d[i].call \in Unanswered(c)
        BY <1>2, <1>4, <2>3
      <4>2. ~IsResult(d, j)
        BY <1>1, <1>8, <2>3, <4>1
      <4> QED
        BY <3>1, <4>1, <4>2
  <2>4. CASE i \in e + 1..e + m /\ j \in e + 1..e + m
    <3>1. i - e # j - e
      BY <1>0, <2>4
    <3> QED
      BY <1>2, <1>5, <2>4, <3>1
  <2> QED
    BY <1>6, <2>1, <2>2, <2>3, <2>4
<1>10. Paired(d, S)
  <2> SUFFICES ASSUME NEW k \in DOMAIN d, IsResult(d, k), d[k].call \notin S
               PROVE  \E i \in DOMAIN d : Answers(d, k, i)
    BY DEF Paired
  <2>1. CASE k \in DOMAIN c
    <3>1. PICK i \in DOMAIN c : Answers(c, k, i)
      BY <1>1, <2>1 DEF Good, Paired
    <3> QED
      BY <3>1, AnswersKept
  <2>2. CASE k \in e + 1..e + m
    <3>1. PICK i \in DOMAIN c : Waits(c, i) /\ c[i].call = d[k].call
      BY <1>2, <1>3, <1>4, <2>2
    <3>2. \A j \in i + 1..Len(c) : ~RoundStart(c, j)
      BY <3>1 DEF Good, LastRound
    <3>3. IsCall(d, i) /\ d[i].call = d[k].call /\ i < k
      BY <1>0, <1>1, <2>2, <3>1 DEF Waits, e
    <3>4. \A j \in i + 1..k - 1 : ~RoundStart(d, j)
      <4> TAKE j \in i + 1..k - 1
      <4>1. j \in DOMAIN d /\ (j \in DOMAIN c => j \in i + 1..Len(c))
        BY <1>0, <2>2
      <4> QED
        BY <1>1, <1>2, <1>6, <3>2, <4>1
    <3> QED
      BY <1>0, <3>3, <3>4 DEF Answers
  <2> QED
    BY <1>6, <2>1, <2>2
<1>11. ASSUME NEW i \in DOMAIN d, Waits(d, i)
       PROVE  i \in DOMAIN c /\ Waits(c, i) /\ d[i].call = c[i].call /\ m # p
  <2>1. i \in DOMAIN c
    BY <1>2, <1>6, <1>11 DEF Waits
  <2>2. Waits(c, i)
    <3> SUFFICES ASSUME NEW k \in i + 1..Len(c), IsResult(c, k), c[k].call = c[i].call PROVE FALSE
      BY <1>1, <1>11, <2>1 DEF Waits
    <3>1. k \in DOMAIN c /\ k \in i + 1..Len(d)
      BY <1>0, <2>1 DEF e
    <3> QED
      BY <1>1, <1>11, <2>1, <3>1 DEF Waits
  <2>3. c[i].call \in Unanswered(c)
    BY <2>1, <2>2 DEF Unanswered, Waits
  <2>4. PICK j \in 1..p : ids[j] = c[i].call
    BY <2>3 DEF Listed
  <2>5. m # p
    <3> SUFFICES ASSUME m = p PROVE FALSE
      OBVIOUS
    <3>1. e + j \in e + 1..e + m /\ e + j \in i + 1..Len(d) /\ (e + j) - e = j
      BY <1>0, <2>1 DEF e
    <3>2. IsResult(d, e + j) /\ d[e + j].call = ids[j]
      BY <1>2, <3>1
    <3> QED
      BY <1>1, <1>11, <2>1, <2>4, <3>1, <3>2 DEF Waits
  <2> QED
    BY <1>1, <2>1, <2>2, <2>5
<1>12. LastRound(d, S)
  <2> SUFFICES ASSUME NEW i \in DOMAIN d, Waits(d, i), d[i].call \notin S, NEW j \in i + 1..Len(d)
               PROVE  ~RoundStart(d, j)
    BY DEF LastRound
  <2>1. i \in DOMAIN c /\ Waits(c, i) /\ c[i].call \notin S
    BY <1>11
  <2>2. j \in DOMAIN d /\ (j \in DOMAIN c => j \in i + 1..Len(c))
    BY <1>0, <2>1
  <2> QED
    BY <1>1, <1>2, <1>6, <2>1, <2>2 DEF Good, LastRound
<1>13. m = p => Settled(d, S)
  BY <1>11 DEF Settled
<1> QED
  BY <1>7, <1>9, <1>10, <1>12, <1>13 DEF Good

--------------------------------------------------------------------------------
(* The transcript *)

LEMMA RestOf ==
    ASSUME NEW T, NEW c \in Seq(T), NEW k \in 0..Len(c)
    PROVE  /\ SubSeq(c, k + 1, Len(c)) \in Seq(T)
           /\ Len(SubSeq(c, k + 1, Len(c))) = Len(c) - k
           /\ \A i \in 1..Len(c) - k : SubSeq(c, k + 1, Len(c))[i] = c[i + k]
OBVIOUS

LEMMA FromOn ==
    ASSUME NEW T, NEW c \in Seq(T), NEW k \in 1..Len(c) + 1
    PROVE  /\ SubSeq(c, k, Len(c)) \in Seq(T) /\ Len(SubSeq(c, k, Len(c))) = Len(c) + 1 - k
           /\ \A i \in 1..Len(c) + 1 - k : SubSeq(c, k, Len(c))[i] = c[i + k - 1]
OBVIOUS

LEMMA Joined ==
    ASSUME NEW T, NEW a \in Seq(T), NEW b \in Seq(T)
    PROVE  /\ a \o b \in Seq(T) /\ Len(a \o b) = Len(a) + Len(b)
           /\ \A i \in 1..Len(a) : (a \o b)[i] = a[i]
           /\ \A i \in 1..Len(b) : (a \o b)[Len(a) + i] = b[i]
OBVIOUS

\* What is read back when the pending slots of c are appended to f.
LEMMA Continued ==
    ASSUME NEW T, NEW f \in Seq(T), NEW c \in Seq(T), Len(f) <= Len(c), NEW g,
           g = f \o SubSeq(c, Len(f) + 1, Len(c))
    PROVE  /\ g \in Seq(T) /\ Len(g) = Len(c)
           /\ \A i \in 1..Len(c) : g[i] = IF i <= Len(f) THEN f[i] ELSE c[i]
<1> DEFINE r == SubSeq(c, Len(f) + 1, Len(c))
<1>1. r \in Seq(T) /\ Len(r) = Len(c) - Len(f) /\ \A i \in 1..Len(c) - Len(f) : r[i] = c[i + Len(f)]
  BY RestOf
<1> HIDE DEF r
<1>2. /\ f \o r \in Seq(T) /\ Len(f \o r) = Len(c)
      /\ \A i \in 1..Len(f) : (f \o r)[i] = f[i]
      /\ \A i \in 1..Len(r) : (f \o r)[Len(f) + i] = r[i]
  BY <1>1, Joined
<1>3. ASSUME NEW i \in 1..Len(c), ~(i <= Len(f)) PROVE (f \o r)[i] = c[i]
  <2>1. i - Len(f) \in 1..Len(r) /\ i - Len(f) \in 1..Len(c) - Len(f)
        /\ Len(f) + (i - Len(f)) = i /\ (i - Len(f)) + Len(f) = i
    BY <1>1, <1>3
  <2> QED
    BY <1>1, <1>2, <2>1
<1> QED
  BY <1>2, <1>3 DEF r

ConvType == conv \in Seq(SlotType) /\ Len(conv) <= Cap

StoreType ==
    /\ file \in Seq(SlotType) /\ Len(file) <= Cap
    /\ written \in 0..Cap /\ failed \in BOOLEAN /\ missed \subseteq Call /\ faults \in 0..MaxFaults

FlowType ==
    /\ pc \in {"prompt", "begin", "top", "compact", "compacting", "request", "stored", "naming", "judge", "calls",
               "answer", "batch", "batch_ran", "batch_end", "round", "end", "handoff", "exit"}
    /\ keep \in 0..Cap + 1 /\ at \in 0..Cap + 1
    /\ rc \in {"none", "error", "text", "blank", "stopped", "calls", "cut"}
    /\ pending \in {"continue", "done", "handoff", "full", "denied"}
    /\ title \in {"none", "tried", "set"}

FlagType ==
    /\ blocked \in BOOLEAN /\ handoff \in BOOLEAN /\ asked \in BOOLEAN /\ seen \in BOOLEAN
    /\ sigint \in BOOLEAN /\ oneShot \in BOOLEAN

PastType ==
    /\ did \in [Call -> 0..Steps] /\ left \subseteq Call /\ lapsed \subseteq Call
    /\ calls \in 0..MaxCalls /\ crashes \in 0..MaxCrashes

LEMMA TypeParts == TypeOK <=> ConvType /\ StoreType /\ FlowType /\ FlagType /\ PastType
BY Zenon DEF TypeOK, ConvType, StoreType, FlowType, FlagType, PastType

LEMMA TypePartsNext == TypeOK' <=> ConvType' /\ StoreType' /\ FlowType' /\ FlagType' /\ PastType'
BY Zenon DEF TypeOK, ConvType, StoreType, FlowType, FlagType, PastType

LEMMA Sizes == /\ Cap \in Nat /\ Cap >= 1 /\ Round \in Nat /\ Steps \in Nat /\ Steps >= 1
               /\ MaxCalls \in Nat /\ MaxFaults \in Nat /\ MaxCrashes \in Nat
BY SizesAssumption

LEMMA FaultType == ASSUME TypeOK, Fault PROVE failed' \in BOOLEAN /\ faults' \in 0..MaxFaults
BY Sizes DEF TypeOK, Fault

LEMMA KeptSelf ==
    ASSUME NEW c \in Seq(SlotType), NEW M, NEW e
    PROVE  Kept(c, c, M, e) /\ Kept(<<>>, c, M, e)
BY DEF Kept

\* The conversation changes behind what is saved of it.
LEMMA KeptMore ==
    ASSUME NEW f \in Seq(SlotType), NEW c \in Seq(SlotType), NEW d \in Seq(SlotType), NEW M, NEW e, NEW x,
           Kept(f, c, M, e), Len(c) <= Len(d), \A i \in 1..Len(f) : d[i] = c[i], e => Len(f) < Len(c)
    PROVE  Kept(f, d, M, x)
<1>1. \A i \in 1..Len(f) : /\ i \in DOMAIN c /\ i \in DOMAIN d /\ (e => i # Len(c))
                           /\ IsResult(d, i) <=> IsResult(c, i)
  BY DEF Kept, IsResult
<1> QED
  BY <1>1 DEF Kept

LEMMA KeptSaved ==
    ASSUME NEW f \in Seq(SlotType), NEW c \in Seq(SlotType), NEW M, NEW e,
           Kept(f, c, M, FALSE)
    PROVE  /\ f \o SubSeq(c, Len(f) + 1, Len(c)) \in Seq(SlotType)
           /\ Len(f \o SubSeq(c, Len(f) + 1, Len(c))) = Len(c)
           /\ Kept(f \o SubSeq(c, Len(f) + 1, Len(c)), c, M, e)
<1> DEFINE g == f \o SubSeq(c, Len(f) + 1, Len(c))
<1>1. /\ g \in Seq(SlotType) /\ Len(g) = Len(c)
      /\ \A i \in 1..Len(c) : g[i] = IF i <= Len(f) THEN f[i] ELSE c[i]
  BY Continued DEF Kept
<1> HIDE DEF g
<1>2. Kept(g, c, M, e)
  BY <1>1 DEF Kept
<1> QED
  BY <1>1, <1>2 DEF g

\* The last slot, a result, becomes what it is in d; with its update saved, and refused.
LEMMA KeptUpdate ==
    ASSUME NEW f \in Seq(SlotType), NEW c \in Seq(SlotType), NEW d \in Seq(SlotType), NEW M, NEW e, NEW x,
           Kept(f, c, M, e), Unique(c), Len(d) = Len(c), Len(f) = Len(c),
           IsResult(c, Len(c)), IsResult(d, Len(c)), d[Len(c)].call = c[Len(c)].call,
           \A i \in 1..Len(c) - 1 : d[i] = c[i], f[Len(f)].what = "running"
    PROVE  /\ Kept([f EXCEPT ![Len(c)] = d[Len(c)]], d, M \ {d[Len(c)].call}, x)
           /\ Kept(f, d, M \cup {d[Len(c)].call}, x)
<1> DEFINE l == Len(c)
<1>0. l \in 1..Len(f) /\ l \in DOMAIN c /\ l \in DOMAIN d
  BY DEF IsResult
<1>1. ASSUME NEW i \in 1..Len(f), i # l
      PROVE  /\ f[i].role = d[i].role /\ f[i].call = d[i].call
             /\ \/ f[i] = d[i]
                \/ IsResult(d, i) /\ f[i].what = "running" /\ d[i].call \in M /\ d[i].call # d[l].call
  <2>1. d[i] = c[i] /\ i \in DOMAIN c /\ i \in DOMAIN d
    BY <1>1
  <2>2. IsResult(c, i) => c[i].call # c[l].call
    BY <1>0, <1>1, <2>1 DEF Unique
  <2> QED
    BY <1>1, <2>1, <2>2 DEF Kept, IsResult
<1>2. f[l].role = d[l].role /\ f[l].call = d[l].call /\ f[l].what = "running"
  BY <1>0 DEF Kept, IsResult
<1> DEFINE g == [f EXCEPT ![l] = d[l]]
<1>3. Len(g) = Len(f) /\ g[l] = d[l] /\ \A i \in 1..Len(f) : i # l => g[i] = f[i]
  BY <1>0
<1> HIDE DEF g, l
<1>4. Kept(g, d, M \ {d[l].call}, x)
  BY <1>0, <1>1, <1>2, <1>3 DEF Kept, l
<1>5. Kept(f, d, M \cup {d[l].call}, x)
  BY <1>0, <1>1, <1>2 DEF Kept, l
<1> QED
  BY <1>4, <1>5 DEF g, l

\* A save of a conversation that goes on where the saved one ends.
LEMMA SaveFile ==
    ASSUME TypeOK, FileOK, NEW c \in Seq(SlotType), Len(c) <= Cap, Len(conv) <= Len(c),
           \A i \in 1..written : c[i] = conv[i], pc = "batch_end" => written < Len(conv),
           Save(c), conv' = c
    PROVE  StoreType' /\ FileOK'
<1>1. /\ Kept(file, c, missed, FALSE) /\ Kept(file, c, missed, (pc = "batch_end")')
      /\ Len(file) = written /\ file \in Seq(SlotType)
  BY KeptMore DEF TypeOK, FileOK
<1>2. CASE /\ file' = file \o SubSeq(c, written + 1, Len(c)) /\ written' = Len(c)
           /\ failed' = FALSE /\ UNCHANGED <<missed, faults>>
  <2>1. file' \in Seq(SlotType) /\ Len(file') = Len(c) /\ Kept(file', c, missed, (pc = "batch_end")')
    <3> DEFINE g == file \o SubSeq(c, Len(file) + 1, Len(c))
               e == (pc = "batch_end")'
    <3>1. file' = g
      BY <1>1, <1>2
    <3>2. g \in Seq(SlotType) /\ Len(g) = Len(c) /\ Kept(g, c, missed, e)
      BY <1>1, KeptSaved, Zenon
    <3> QED
      BY <3>1, <3>2
  <2>2. StoreType'
    <3>1. Len(c) \in 0..Cap
      BY Sizes
    <3> QED
      BY <1>2, <2>1, <3>1 DEF StoreType, TypeOK
  <2>3. FileOK'
    BY <1>2, <2>1 DEF FileOK
  <2> QED
    BY <2>2, <2>3
<1>3. CASE Fault /\ UNCHANGED <<file, written, missed>>
  <2>1. StoreType'
    BY <1>3, FaultType DEF StoreType, TypeOK
  <2>2. FileOK'
    BY <1>1, <1>3 DEF FileOK
  <2> QED
    BY <2>1, <2>2
<1> QED
  BY <1>2, <1>3 DEF Save

LEMMA AfreshFile ==
    ASSUME TypeOK, NEW c \in Seq(SlotType), Len(c) <= Cap, SaveAfresh(c), conv' = c
    PROVE  StoreType' /\ FileOK'
<1>1. Len(c) \in 0..Cap /\ <<>> \in Seq(SlotType) /\ Len(<<>>) = 0 /\ 0 \in 0..Cap
  BY Sizes
<1>2. CASE file' = c /\ written' = Len(c) /\ failed' = FALSE /\ UNCHANGED faults /\ missed' = {}
  BY <1>1, <1>2, KeptSelf DEF StoreType, FileOK, TypeOK
<1>3. CASE file' = <<>> /\ written' = 0 /\ Fault /\ missed' = {}
  BY <1>1, <1>3, FaultType, KeptSelf DEF StoreType, FileOK
<1> QED
  BY <1>2, <1>3 DEF SaveAfresh

\* The result in the last slot is saved again.
LEMMA UpdateFile ==
    ASSUME TypeOK, FileOK, Unique(conv), NEW c \in Seq(SlotType), Len(c) = Len(conv), written = slot,
           IsResult(conv, slot), IsResult(c, slot), c[slot].call = conv[slot].call,
           c[slot].call \in Call, \A i \in 1..slot - 1 : c[i] = conv[i],
           file[slot].what = "running", Update(c, slot), conv' = c
    PROVE  StoreType' /\ FileOK'
<1> DEFINE n == Len(conv)
<1>1. /\ Kept([file EXCEPT ![n] = c[n]], c, missed \ {c[n].call}, (pc = "batch_end")')
      /\ Kept(file, c, missed \cup {c[n].call}, (pc = "batch_end")')
  BY KeptUpdate DEF slot, FileOK, TypeOK
<1>2. n \in 1..Len(file) /\ c[n] \in SlotType /\ file \in Seq(SlotType) /\ slot = n
  BY DEF slot, FileOK, TypeOK, IsResult
<1>3. CASE /\ file' = [file EXCEPT ![n] = c[n]] /\ missed' = missed \ {c[n].call}
           /\ failed' = FALSE /\ UNCHANGED <<written, faults>>
  <2>1. file' \in Seq(SlotType) /\ Len(file') = Len(file)
    BY <1>2, <1>3
  <2>2. StoreType'
    BY <1>3, <2>1 DEF StoreType, TypeOK
  <2>3. FileOK'
    BY <1>1, <1>3, <2>1 DEF FileOK
  <2> QED
    BY <2>2, <2>3
<1>4. CASE missed' = missed \cup {c[n].call} /\ Fault /\ UNCHANGED <<file, written>>
  <2>1. StoreType'
    BY <1>2, <1>4, FaultType DEF StoreType, TypeOK
  <2>2. FileOK'
    BY <1>1, <1>4 DEF FileOK
  <2> QED
    BY <2>1, <2>2
<1> QED
  BY <1>2, <1>3, <1>4 DEF Update

--------------------------------------------------------------------------------
(* Steps outside a round *)

LEMMA InitIInv == Init => IInv
<1> SUFFICES ASSUME Init PROVE IInv
  OBVIOUS
<1> USE Sizes DEF Init
<1>0. <<>> \in Seq(SlotType) /\ Len(<<>>) = 0 /\ DOMAIN <<>> = {}
  OBVIOUS
<1>1. TypeOK
  <2>1. ConvType
    BY <1>0 DEF ConvType
  <2>5. StoreType
    <3>1. 0 \in 0..Cap /\ 0 \in 0..MaxFaults /\ Len(file) <= Cap
      BY <1>0
    <3>2. file \in Seq(SlotType) /\ missed \subseteq Call /\ failed \in BOOLEAN
      BY <1>0
    <3> QED
      BY <3>1, <3>2 DEF StoreType
  <2>2. FlowType
    BY DEF FlowType
  <2>3. FlagType
    BY DEF FlagType
  <2>4. PastType
    BY DEF PastType, Call
  <2> QED
    BY <2>1, <2>2, <2>3, <2>4, <2>5, TypeParts
<1>2. ConvOK /\ Settled(conv, left)
  BY <1>0 DEF ConvOK, Good, Numbered, Unique, Paired, LastRound, Settled
<1>3. SettledOK /\ JudgedOK /\ RoundOK /\ BatchOK
  BY <1>2 DEF SettledOK, JudgedOK, RoundOK, BatchOK, Judging, InRound, InBatch
<1>4. FreshOK /\ RowsOK /\ EndOK /\ SplitOK
  BY <1>0 DEF FreshOK, RowsOK, EndOK, SplitOK
<1>5. FileOK
  BY <1>0 DEF FileOK, Kept
<1> QED
  BY <1>1, <1>2, <1>3, <1>4, <1>5 DEF IInv

LEMMA Outside ==
    ASSUME pc' \notin InRound, ~Judging', Settled(conv', left')
    PROVE  SettledOK' /\ JudgedOK' /\ RoundOK' /\ BatchOK'
BY DEF SettledOK, JudgedOK, RoundOK, BatchOK, Judging, InRound, InBatch

LEMMA OpenCalls == ASSUME IInv PROVE Unanswered(conv) \subseteq Call
<1> SUFFICES ASSUME NEW i \in DOMAIN conv, IsCall(conv, i) PROVE conv[i].call \in Call
  BY DEF Unanswered
<1>1. conv[i].call \in 1..calls
  BY DEF IInv, ConvOK, Good, Numbered
<1> QED
  BY <1>1, Sizes DEF IInv, TypeOK, Call

LEMMA SettledMore ==
    ASSUME NEW c, NEW S, NEW T, S \subseteq T, Settled(c, S) PROVE Settled(c, T)
BY DEF Settled

\* A step that leaves the conversation and the transcript alone.
LEMMA Still ==
    ASSUME IInv, UNCHANGED <<conv, store, did, lapsed, calls>>, left \subseteq left',
           pc = "batch_end" => pc' = "batch_end"
    PROVE  ConvOK' /\ FreshOK' /\ RowsOK' /\ FileOK'
<1>1. ConvOK'
  <2>1. Good(conv, left', calls)
    BY GoodMore, Sizes DEF IInv, ConvOK, TypeOK
  <2> QED
    BY <2>1 DEF ConvOK
<1>2. FreshOK' /\ RowsOK'
  BY DEF IInv, FreshOK, RowsOK, RowOK
<1>3. FileOK'
  <2>1. UNCHANGED <<file, written, missed, conv>>
    BY DEF store
  <2> QED
    BY <2>1 DEF IInv, FileOK, Kept
<1> QED
  BY <1>1, <1>2, <1>3

LEMMA StillTypes ==
    ASSUME IInv, UNCHANGED <<conv, store, did, lapsed, calls, crashes>>, left' \subseteq Call,
           FlowType', FlagType'
    PROVE  TypeOK'
<1>1. ConvType' /\ StoreType' /\ PastType'
  BY DEF IInv, TypeOK, ConvType, StoreType, PastType, store
<1> QED
  BY <1>1, TypePartsNext

LEMMA Idle ==
    ASSUME IInv, UNCHANGED <<conv, store, did, lapsed, calls, crashes>>,
           left \subseteq left', left' \subseteq Call,
           Settled(conv, left'), pc # "batch_end", pc' \notin InRound, ~Judging',
           FlowType', FlagType', EndOK', SplitOK'
    PROVE  IInv'
<1>1. ConvOK' /\ FreshOK' /\ RowsOK' /\ FileOK'
  BY Still
<1>2. SettledOK' /\ JudgedOK' /\ RoundOK' /\ BatchOK'
  BY Outside
<1> QED
  BY <1>1, <1>2, StillTypes DEF IInv

LEMMA TurnBeginStep == ASSUME IInv, TurnBegin PROVE IInv'
<1>1. FlowType' /\ FlagType'
  <2>1. FlowType'
    BY DEF IInv, TypeOK, FlowType, TurnBegin, turn
  <2>2. FlagType'
    BY DEF IInv, TypeOK, FlagType, TurnBegin, turn
  <2> QED
    BY <2>1, <2>2
<1>2. EndOK' /\ SplitOK'
  BY DEF IInv, EndOK, SplitOK, TurnBegin, store, turn, past
<1>3. /\ Settled(conv, left) /\ left' \subseteq Call /\ pc' \notin InRound /\ ~Judging'
      /\ UNCHANGED <<conv, store, did, left, lapsed, calls, crashes>>
  BY DEF IInv, TypeOK, SettledOK, TurnBegin, Judging, InRound, InBatch, past
<1> QED
  BY <1>1, <1>2, <1>3, Idle DEF TurnBegin

LEMMA SigintStep == ASSUME IInv, Sigint PROVE IInv'
<1>1. FlowType' /\ FlagType'
  <2>1. FlowType'
    BY DEF IInv, TypeOK, FlowType, Sigint, turn
  <2>2. FlagType'
    BY DEF IInv, TypeOK, FlagType, Sigint, turn
  <2> QED
    BY <2>1, <2>2
<1>2. UNCHANGED <<conv, store, pc, turn, handoff, title, oneShot, past, file, written, missed, rc, at, did,
                  left, lapsed, calls, crashes, keep, blocked, pending>>
  BY DEF Sigint, store, turn, past
<1>3. ConvOK' /\ FreshOK' /\ RowsOK' /\ FileOK'
  BY <1>2, Still
<1>4. SettledOK' /\ EndOK' /\ SplitOK'
  BY <1>2 DEF IInv, TypeOK, SettledOK, EndOK, SplitOK, Judging
<1>5. JudgedOK'
  BY <1>2 DEF IInv, JudgedOK, Judging
<1>6. RoundOK'
  BY <1>2 DEF IInv, RoundOK
<1>7. BatchOK'
  BY <1>2 DEF IInv, BatchOK, slot, Rows
<1>8. TypeOK'
  BY <1>1, <1>2, StillTypes DEF IInv, TypeOK
<1> QED
  BY <1>8, <1>3, <1>4, <1>5, <1>6, <1>7 DEF IInv

LEMMA InterruptedStep ==
    ASSUME IInv, Interrupted, UNCHANGED title \/ title' \in {"none", "tried", "set"},
           pc \in {"top", "compact", "stored", "naming"}
    PROVE  IInv'
<1>1. Settled(conv, left') /\ left \subseteq left' /\ left' \subseteq Call
  BY SettleAll, OpenCalls DEF Interrupted, IInv, TypeOK
<1>2. FlowType' /\ FlagType'
  <2>1. FlowType'
    BY DEF IInv, TypeOK, FlowType, Interrupted, turn
  <2>2. FlagType'
    BY DEF IInv, TypeOK, FlagType, Interrupted, turn
  <2> QED
    BY <2>1, <2>2
<1>3. EndOK' /\ SplitOK'
  BY DEF IInv, EndOK, SplitOK, Interrupted, turn
<1>4. pc' \notin InRound /\ ~Judging' /\ UNCHANGED <<conv, store, did, lapsed, calls, crashes>>
  BY DEF Interrupted, Judging, InRound, InBatch
<1> QED
  BY <1>1, <1>2, <1>3, <1>4, Idle

LEMMA CompactStartStep == ASSUME IInv, CompactStart \/ CompactCommand PROVE IInv'
<1>1. keep' \in 2..Len(conv) + 1 /\ (keep' <= Len(conv) => RoundStart(conv, keep'))
  <2>1. Len(conv) \in Nat
    BY DEF IInv, TypeOK
  <2>2. CASE keep' \in Splits(conv)
    <3>1. RoundStart(conv, keep') /\ \E j \in 1..keep' - 1 : TRUE
      BY <2>2 DEF Splits
    <3> QED
      BY <3>1 DEF IInv, TypeOK, RoundStart
  <2>3. CASE keep' = Len(conv) + 1 /\ conv # <<>>
    <3>1. Len(conv) # 0
      BY <2>3 DEF IInv, TypeOK
    <3> QED
      BY <2>1, <2>3, <3>1
  <2> QED
    BY <2>2, <2>3 DEF CompactStart, CompactCommand
<1>2. FlowType' /\ FlagType'
  <2>1. FlowType'
    BY <1>1, Sizes DEF IInv, TypeOK, FlowType, CompactStart, CompactCommand
  <2>2. FlagType'
    BY <1>1, Sizes DEF IInv, TypeOK, FlagType, CompactStart, CompactCommand
  <2> QED
    BY <2>1, <2>2
<1>3. SplitOK'
  BY <1>1 DEF SplitOK, CompactStart, CompactCommand
<1>4. EndOK'
  BY DEF IInv, EndOK, CompactStart, CompactCommand
<1>5. /\ Settled(conv, left) /\ left' \subseteq Call /\ pc' \notin InRound /\ ~Judging' /\ pc # "batch_end"
      /\ UNCHANGED <<conv, store, did, left, lapsed, calls, crashes>>
  BY DEF IInv, TypeOK, SettledOK, CompactStart, CompactCommand, Judging, InRound, InBatch, past
<1> QED
  BY <1>2, <1>3, <1>4, <1>5, Idle

LEMMA RequestStartStep == ASSUME IInv, RequestStart PROVE IInv'
<1>1. FlowType' /\ FlagType'
  <2>1. FlowType'
    BY DEF IInv, TypeOK, FlowType, RequestStart
  <2>2. FlagType'
    BY DEF IInv, TypeOK, FlagType, RequestStart
  <2> QED
    BY <2>1, <2>2
<1>2. EndOK' /\ SplitOK'
  BY DEF IInv, EndOK, SplitOK, RequestStart
<1>3. /\ Settled(conv, left) /\ left' \subseteq Call /\ pc' \notin InRound /\ ~Judging' /\ pc # "batch_end"
      /\ UNCHANGED <<conv, store, did, left, lapsed, calls, crashes>>
  BY DEF IInv, TypeOK, SettledOK, RequestStart, Judging, InRound, InBatch, past
<1> QED
  BY <1>1, <1>2, <1>3, Idle

LEMMA CompactFailStep ==
    ASSUME IInv, CompactFail \/ (CompactInterrupted /\ pc = "compacting") PROVE IInv'
<1>0. /\ pc \in {"compact", "compacting"} /\ pc' = After /\ keep' = 0 /\ sigint' \in {sigint, FALSE}
      /\ UNCHANGED <<conv, store, rc, at, pending, blocked, asked, seen, handoff, title, oneShot, past>>
  BY DEF CompactFail, CompactInterrupted, After
<1>1. FlowType' /\ FlagType'
  <2>1. FlowType'
    BY <1>0, Sizes DEF IInv, TypeOK, FlowType, After
  <2>2. FlagType'
    BY <1>0, Sizes DEF IInv, TypeOK, FlagType, After
  <2> QED
    BY <2>1, <2>2
<1>2. EndOK' /\ SplitOK'
  BY <1>0 DEF IInv, EndOK, SplitOK, After
<1>3. /\ Settled(conv, left) /\ left' \subseteq Call /\ pc' \notin InRound /\ ~Judging' /\ pc # "batch_end"
      /\ UNCHANGED <<conv, store, did, left, lapsed, calls, crashes>>
  BY <1>0 DEF IInv, TypeOK, SettledOK, After, Judging, InRound, InBatch, past
<1> QED
  BY <1>1, <1>2, <1>3, Idle

LEMMA StoredErrorStep == ASSUME IInv, StoredError PROVE IInv'
<1>1. FlowType' /\ FlagType'
  <2>1. FlowType'
    BY DEF IInv, TypeOK, FlowType, StoredError, turn
  <2>2. FlagType'
    BY DEF IInv, TypeOK, FlagType, StoredError, turn
  <2> QED
    BY <2>1, <2>2
<1>2. EndOK' /\ SplitOK'
  BY DEF IInv, EndOK, SplitOK, StoredError, turn
<1>3. /\ Settled(conv, left) /\ left' \subseteq Call /\ pc' \notin InRound /\ ~Judging' /\ pc # "batch_end"
      /\ UNCHANGED <<conv, store, did, left, lapsed, calls, crashes>>
  BY DEF IInv, TypeOK, SettledOK, StoredError, Judging, InRound, InBatch, turn, past
<1> QED
  BY <1>1, <1>2, <1>3, Idle

\* The reply goes on to be judged.
LEMMA JudgeStep == ASSUME IInv, StoredOk \/ NamingDone PROVE IInv'
<1>0. /\ pc \in {"stored", "naming"} /\ pc' \in {"naming", "judge"} /\ title' \in {"none", "tried", "set"}
      /\ UNCHANGED <<conv, store, turn, handoff, sigint, oneShot, past>>
      /\ UNCHANGED <<rc, did, left, lapsed, calls, keep, at, pending, blocked, asked, seen, crashes>>
  BY DEF IInv, TypeOK, StoredOk, NamingDone, turn, past
<1>1. FlowType' /\ FlagType'
  <2>1. FlowType'
    BY <1>0 DEF IInv, TypeOK, FlowType
  <2>2. FlagType'
    BY <1>0 DEF IInv, TypeOK, FlagType
  <2> QED
    BY <2>1, <2>2
<1>2. EndOK' /\ SplitOK'
  BY <1>0 DEF IInv, EndOK, SplitOK
<1>3. ConvOK' /\ FreshOK' /\ RowsOK' /\ FileOK'
  BY <1>0, Still
<1>4. Judging' <=> Judging
  BY <1>0 DEF Judging
<1>5. SettledOK' /\ JudgedOK'
  BY <1>0, <1>4 DEF IInv, TypeOK, SettledOK, JudgedOK, InRound, InBatch
<1>6. RoundOK' /\ BatchOK'
  BY <1>0 DEF RoundOK, BatchOK, InRound, InBatch
<1>7. TypeOK'
  BY <1>0, <1>1, StillTypes DEF IInv, TypeOK
<1> QED
  BY <1>7, <1>2, <1>3, <1>5, <1>6 DEF IInv

--------------------------------------------------------------------------------
(* Steps that change the conversation outside a round *)

LEMMA AppendSlot ==
    ASSUME NEW c \in Seq(SlotType), NEW x \in SlotType
    PROVE  /\ Append(c, x) \in Seq(SlotType) /\ Len(Append(c, x)) = Len(c) + 1
           /\ Append(c, x)[Len(c) + 1] = x
           /\ \A i \in 1..Len(c) : Append(c, x)[i] = c[i]
           /\ Shaped(c, Append(c, x))
BY DEF Shaped

Rowless == {"text", "blank", "told", "lost"}

LEMMA SlotsTyped ==
    /\ User \in SlotType /\ Note \in SlotType /\ Asks \in SlotType
    /\ \A w \in {"text", "blank"} : Reply(w) \in SlotType
    /\ \A c \in 0..MaxCalls : Calls(c) \in SlotType /\ Told(c) \in SlotType /\ Lost(c) \in SlotType /\ Batch(c) \in SlotType
BY Sizes DEF User, Note, Asks, Reply, Calls, Told, Lost, Batch, Slot, SlotType

\* Each slot was in the conversation before, or has no row.
LEMMA RowsFrom ==
    ASSUME RowsOK, did' = did, lapsed \subseteq lapsed',
           \A i \in DOMAIN conv' : (\E j \in DOMAIN conv : conv'[i] = conv[j]) \/ conv'[i].what \in Rowless
    PROVE  RowsOK'
<1> SUFFICES ASSUME NEW i \in DOMAIN conv' PROVE RowOK(conv'[i], did', lapsed')
  BY DEF RowsOK
<1>1. CASE \E j \in DOMAIN conv : conv'[i] = conv[j]
  BY <1>1 DEF RowsOK, RowOK
<1>2. CASE conv'[i].what \in Rowless
  BY <1>2 DEF Rowless, RowOK
<1> QED
  BY <1>1, <1>2

LEMMA Settles ==
    ASSUME TypeOK', ConvOK', FreshOK', RowsOK', FileOK', EndOK', SplitOK',
           Settled(conv', left'), pc' \notin InRound, ~Judging'
    PROVE  IInv'
BY Outside DEF IInv

\* A message, a note or a reply without calls joins the conversation.
LEMMA GrownBy ==
    ASSUME IInv, Settled(conv, left), Room(1), NEW x \in SlotType,
           x.role \in {"user", "note", "reply"}, x.what \in Rowless,
           conv' = Append(conv, x), UNCHANGED <<did, left, lapsed, calls>>
    PROVE  ConvType' /\ ConvOK' /\ FreshOK' /\ RowsOK' /\ Settled(conv', left')
<1> DEFINE d == Append(conv, x)
<1>0. conv \in Seq(SlotType) /\ Len(conv) \in Nat /\ Len(conv) + 1 <= Cap
  BY DEF IInv, TypeOK, Room
<1>1. /\ d \in Seq(SlotType) /\ Len(d) = Len(conv) + 1 /\ d[Len(conv) + 1] = x
      /\ \A i \in 1..Len(conv) : d[i] = conv[i]
      /\ Shaped(conv, d)
  BY <1>0, AppendSlot
<1> HIDE DEF d
<1>2. RoundStart(d, Len(d))
  BY <1>0, <1>1 DEF RoundStart, IsCall, IsResult
<1>3. Good(d, left, calls) /\ Settled(d, left)
  BY <1>0, <1>1, <1>2, GoodStart DEF IInv, ConvOK
<1>4. conv' = d
  BY DEF d
<1>5. ConvType'
  BY <1>0, <1>1, <1>4 DEF ConvType
<1>6. ConvOK' /\ Settled(conv', left')
  BY <1>3, <1>4 DEF ConvOK
<1>7. RowsOK'
  <2>1. \A i \in DOMAIN d : (\E j \in DOMAIN conv : d[i] = conv[j]) \/ d[i].what \in Rowless
    <3> TAKE i \in DOMAIN d
    <3>1. i \in 1..Len(conv) \/ i = Len(conv) + 1
      BY <1>0, <1>1
    <3>2. i \in 1..Len(conv) => i \in DOMAIN conv
      BY <1>0
    <3> QED
      BY <1>1, <3>1, <3>2
  <2> QED
    BY <1>4, <2>1, RowsFrom DEF IInv
<1>8. FreshOK'
  BY DEF IInv, FreshOK
<1> QED
  BY <1>5, <1>6, <1>7, <1>8

\* A save after the conversation grew.
LEMMA SavedGrown ==
    ASSUME IInv, NEW x \in SlotType, Room(1), conv' = Append(conv, x), Save(conv'), pc # "batch_end"
    PROVE  StoreType' /\ FileOK'
<1> DEFINE d == Append(conv, x)
<1>0. conv \in Seq(SlotType) /\ Len(conv) \in Nat /\ Len(conv) + 1 <= Cap
  BY DEF IInv, TypeOK, Room
<1>1. d \in Seq(SlotType) /\ Len(d) = Len(conv) + 1 /\ \A i \in 1..Len(conv) : d[i] = conv[i]
  BY <1>0, AppendSlot
<1> HIDE DEF d
<1>2. conv' = d /\ Save(d)
  BY DEF d
<1>3. \A i \in 1..written : i \in 1..Len(conv)
  BY <1>0 DEF IInv, FileOK, Kept, TypeOK
<1>4. Len(d) <= Cap /\ Len(conv) <= Len(d) /\ TypeOK /\ FileOK /\ \A i \in 1..written : d[i] = conv[i]
  BY <1>0, <1>1, <1>3 DEF IInv
<1> QED
  BY <1>1, <1>2, <1>4, SaveFile

LEMMA SubmitStep == ASSUME IInv, Submit PROVE IInv'
<1>0. /\ pc = "prompt" /\ pc' = "begin" /\ conv' = Append(conv, User) /\ Room(1)
      /\ asked' = FALSE /\ seen' = FALSE /\ Save(conv')
      /\ UNCHANGED <<keep, rc, at, pending, blocked, sigint, oneShot, handoff, title, did, left, lapsed, calls, crashes>>
  BY DEF Submit, Say, past
<1>1. User \in SlotType /\ User.role = "user" /\ User.what \in Rowless
  BY SlotsTyped DEF User, Slot, Rowless
<1>2. Settled(conv, left)
  BY <1>0 DEF IInv, SettledOK, InRound, InBatch, Judging
<1>3. ConvType' /\ ConvOK' /\ FreshOK' /\ RowsOK' /\ Settled(conv', left')
  BY <1>0, <1>1, <1>2, GrownBy
<1>4. StoreType' /\ FileOK'
  BY <1>0, <1>1, SavedGrown
<1>5. FlowType'
  BY <1>0 DEF IInv, TypeOK, FlowType
<1>6. FlagType' /\ PastType'
  BY <1>0 DEF IInv, TypeOK, FlagType, PastType
<1>7. EndOK' /\ SplitOK'
  BY <1>0 DEF IInv, EndOK, SplitOK
<1>8. pc' \notin InRound /\ ~Judging'
  BY <1>0 DEF InRound, InBatch, Judging
<1> QED
  BY <1>3, <1>4, <1>5, <1>6, <1>7, <1>8, TypePartsNext, Settles

\* Another conversation takes the place of this one: a part of it, behind a message.
LEMMA Replaced ==
    ASSUME IInv, NEW d \in Seq(SlotType), Len(d) <= Cap, conv' = d,
           Good(d, left, calls), Settled(d, left), UNCHANGED <<did, left, lapsed, calls>>,
           \A i \in DOMAIN d : (\E j \in DOMAIN conv : d[i] = conv[j]) \/ d[i].what \in Rowless
    PROVE  ConvType' /\ ConvOK' /\ FreshOK' /\ RowsOK' /\ Settled(conv', left')
<1>1. ConvType' /\ ConvOK' /\ Settled(conv', left')
  BY DEF ConvType, ConvOK
<1>2. RowsOK'
  BY RowsFrom DEF IInv
<1>3. FreshOK'
  BY DEF IInv, FreshOK
<1> QED
  BY <1>1, <1>2, <1>3

LEMMA GoodEmpty == \A S, n : Good(<<>>, S, n) /\ Settled(<<>>, S)
<1>1. DOMAIN <<>> = {}
  OBVIOUS
<1> QED
  BY <1>1 DEF Good, Numbered, Unique, Paired, LastRound, Settled

LEMMA HandoffStep == ASSUME IInv, Handoff PROVE IInv'
<1>0. /\ pc = "handoff" /\ pc' = "begin" /\ conv' = Append(<<>>, User) /\ handoff' = FALSE
      /\ asked' = FALSE /\ seen' = FALSE /\ SaveAfresh(conv') /\ title' \in {"set", "none"}
      /\ UNCHANGED <<keep, rc, at, pending, blocked, sigint, oneShot, did, left, lapsed, calls, crashes>>
  BY DEF Handoff, Say, past, TitleKept
<1> DEFINE d == Append(<<>>, User)
<1>1. User \in SlotType /\ User.role = "user" /\ User.what \in Rowless /\ <<>> \in Seq(SlotType) /\ Len(<<>>) = 0
  BY SlotsTyped DEF User, Slot, Rowless
<1>2. d \in Seq(SlotType) /\ Len(d) = 1 /\ d[1] = User /\ Shaped(<<>>, d) /\ DOMAIN d = 1..1
  <2>1. /\ d \in Seq(SlotType) /\ Len(d) = Len(<<>>) + 1 /\ d[Len(<<>>) + 1] = User /\ Shaped(<<>>, d)
    BY <1>1, AppendSlot
  <2> QED
    BY <1>1, <2>1
<1> HIDE DEF d
<1>3. RoundStart(d, Len(d))
  BY <1>1, <1>2 DEF RoundStart, IsCall, IsResult
<1>4. Good(d, left, calls) /\ Settled(d, left)
  <2>1. Len(d) = Len(<<>>) + 1 /\ Good(<<>>, left, calls) /\ Settled(<<>>, left)
    BY <1>1, <1>2, GoodEmpty
  <2> QED
    BY <1>1, <1>2, <1>3, <2>1, GoodStart, Zenon
<1>5. conv' = d /\ SaveAfresh(d) /\ Len(d) <= Cap
  BY <1>0, <1>2, Sizes DEF d
<1>6. ConvType' /\ ConvOK' /\ FreshOK' /\ RowsOK' /\ Settled(conv', left')
  <2>1. \A i \in DOMAIN d : d[i].what \in Rowless
    BY <1>1, <1>2
  <2> QED
    BY <1>0, <1>2, <1>4, <1>5, <2>1, Replaced
<1>7. StoreType' /\ FileOK'
  BY <1>2, <1>5, AfreshFile DEF IInv
<1>8. FlowType'
  BY <1>0 DEF IInv, TypeOK, FlowType
<1>9. FlagType' /\ PastType'
  BY <1>0 DEF IInv, TypeOK, FlagType, PastType
<1>10. EndOK' /\ SplitOK'
  BY <1>0 DEF IInv, EndOK, SplitOK
<1>11. pc' \notin InRound /\ ~Judging'
  BY <1>0 DEF InRound, InBatch, Judging
<1> QED
  BY <1>6, <1>7, <1>8, <1>9, <1>10, <1>11, TypePartsNext, Settles

\* What conv_compact_head leaves.
LEMMA CompactedGood ==
    ASSUME IInv, pc \in {"compact", "compacting"}
    PROVE  /\ Compacted \in Seq(SlotType) /\ Len(Compacted) <= Cap
           /\ Good(Compacted, left, calls) /\ Settled(Compacted, left)
           /\ \A i \in DOMAIN Compacted : (\E j \in DOMAIN conv : Compacted[i] = conv[j]) \/ Compacted[i].what \in Rowless
<1> DEFINE k == keep
           r == SubSeq(conv, k, Len(conv))
           u == <<User>>
           d == u \o r
<1>0. /\ conv \in Seq(SlotType) /\ Len(conv) \in Nat /\ Len(conv) <= Cap /\ Cap \in Nat
      /\ k \in 2..Len(conv) + 1 /\ (k <= Len(conv) => RoundStart(conv, k)) /\ Settled(conv, left)
      /\ Good(conv, left, calls)
  BY Sizes DEF IInv, TypeOK, SplitOK, SettledOK, ConvOK, InRound, InBatch, Judging
<1>1. User \in SlotType /\ User.role = "user" /\ User.what \in Rowless
  BY SlotsTyped DEF User, Slot, Rowless
<1>2. u \in Seq(SlotType) /\ Len(u) = 1 /\ u[1] = User
  BY <1>1
<1>3. /\ r \in Seq(SlotType) /\ Len(r) = Len(conv) - (k - 1)
      /\ \A i \in 1..Len(conv) - (k - 1) : r[i] = conv[i + (k - 1)]
  <2>1. k \in 1..Len(conv) + 1 /\ Len(conv) + 1 - k = Len(conv) - (k - 1)
        /\ \A i \in 1..Len(conv) - (k - 1) : i + (k - 1) = i + k - 1
    BY <1>0
  <2>2. /\ r \in Seq(SlotType) /\ Len(r) = Len(conv) + 1 - k
        /\ \A i \in 1..Len(conv) + 1 - k : r[i] = conv[i + k - 1]
    <3> HIDE DEF k
    <3> QED
      BY <1>0, <2>1, FromOn
  <2> HIDE DEF r, k
  <2> QED
    BY <2>1, <2>2
<1> HIDE DEF k, r, u
<1>4. /\ d \in Seq(SlotType) /\ Len(d) = 1 + Len(r) /\ d[1] = User
      /\ \A i \in 1..Len(r) : d[1 + i] = r[i]
  <2>1. /\ d \in Seq(SlotType) /\ Len(d) = Len(u) + Len(r)
        /\ \A i \in 1..Len(u) : d[i] = u[i]
        /\ \A i \in 1..Len(r) : d[Len(u) + i] = r[i]
    <3>1. u \in Seq(SlotType) /\ r \in Seq(SlotType)
      BY <1>2, <1>3
    <3> QED
      BY <3>1
  <2> QED
    BY <1>2, <2>1
<1> HIDE DEF d
<1>5. Len(d) = Len(conv) + 2 - k /\ Len(d) <= Cap
  BY <1>0, <1>3, <1>4
<1>6. \A i \in k..Len(conv) : d[i - k + 2] = conv[i]
  <2> TAKE i \in k..Len(conv)
  <2>1. i - k + 1 \in 1..Len(r) /\ 1 + (i - k + 1) = i - k + 2 /\ (i - k + 1) + (k - 1) = i
        /\ i - k + 1 \in 1..Len(conv) - (k - 1)
    BY <1>0, <1>3
  <2>2. d[1 + (i - k + 1)] = r[i - k + 1] /\ r[i - k + 1] = conv[(i - k + 1) + (k - 1)]
    BY <1>3, <1>4, <2>1
  <2> QED
    BY <2>1, <2>2
<1>7. RoundStart(d, 1)
  BY <1>0, <1>1, <1>4, <1>5 DEF RoundStart, IsCall, IsResult
<1>8. Good(d, left, calls) /\ Settled(d, left)
  <2>1. /\ k \in 1..Len(conv) + 1
        /\ \A i \in k..Len(conv) : d[i - k + 2].role = conv[i].role /\ d[i - k + 2].call = conv[i].call
    BY <1>0, <1>6
  <2> QED
    BY <1>0, <1>4, <1>5, <1>7, <2>1, GoodTail
<1>9. \A i \in DOMAIN d : (\E j \in DOMAIN conv : d[i] = conv[j]) \/ d[i].what \in Rowless
  <2> TAKE i \in DOMAIN d
  <2>1. CASE i = 1
    BY <1>1, <1>4, <2>1
  <2>2. CASE i # 1
    <3>1. i - 2 + k \in k..Len(conv) /\ (i - 2 + k) - k + 2 = i
      BY <1>0, <1>4, <1>5, <2>2
    <3>2. i - 2 + k \in DOMAIN conv
      BY <1>0, <3>1
    <3>3. d[(i - 2 + k) - k + 2] = conv[i - 2 + k]
      BY <1>6, <3>1
    <3> QED
      BY <3>1, <3>2, <3>3
  <2> QED
    BY <2>1, <2>2
<1> QED
  BY <1>4, <1>5, <1>8, <1>9 DEF Compacted, d, u, r, k

LEMMA CompactDoneStep == ASSUME IInv, CompactDone PROVE IInv'
<1> DEFINE d == Compacted
<1>0. /\ pc \in {"compact", "compacting"} /\ pc' \in {"request", "prompt"} /\ (pc' = "prompt" => pc = "compacting")
      /\ conv' = d /\ SaveAfresh(d) /\ title' \in {"set", "none"} /\ seen' = FALSE /\ keep' = 0
      /\ UNCHANGED <<rc, at, pending, blocked, asked, handoff, sigint, oneShot, did, left, lapsed, calls, crashes>>
  BY DEF CompactDone, TitleKept, After, past
<1>1. /\ d \in Seq(SlotType) /\ Len(d) <= Cap /\ Good(d, left, calls) /\ Settled(d, left)
      /\ \A i \in DOMAIN d : (\E j \in DOMAIN conv : d[i] = conv[j]) \/ d[i].what \in Rowless
  BY <1>0, CompactedGood
<1> HIDE DEF d
<1>6. ConvType' /\ ConvOK' /\ FreshOK' /\ RowsOK' /\ Settled(conv', left')
  BY <1>0, <1>1, Replaced
<1>7. StoreType' /\ FileOK'
  BY <1>0, <1>1, AfreshFile DEF IInv
<1>8. FlowType'
  BY <1>0, Sizes DEF IInv, TypeOK, FlowType
<1>9. FlagType' /\ PastType'
  BY <1>0 DEF IInv, TypeOK, FlagType, PastType
<1>10. EndOK' /\ SplitOK'
  BY <1>0 DEF IInv, EndOK, SplitOK
<1>11. pc' \notin InRound /\ ~Judging'
  BY <1>0 DEF InRound, InBatch, Judging
<1> QED
  BY <1>6, <1>7, <1>8, <1>9, <1>10, <1>11, TypePartsNext, Settles

LEMMA ClearStep == ASSUME IInv, Clear PROVE IInv'
<1>0. /\ pc = "prompt" /\ pc' = "prompt" /\ conv' = <<>> /\ file' = <<>> /\ written' = 0 /\ missed' = {} /\ title' = "none"
      /\ UNCHANGED <<failed, faults, keep, rc, at, pending, blocked, asked, seen, handoff, sigint, oneShot,
                     did, left, lapsed, calls, crashes>>
  BY DEF Clear, turn, past
<1>1. <<>> \in Seq(SlotType) /\ Len(<<>>) = 0 /\ 0 <= Cap /\ 0 \in 0..Cap /\ DOMAIN <<>> = {}
  BY Sizes
<1>2. Good(<<>>, left, calls) /\ Settled(<<>>, left)
  BY GoodEmpty
<1>6. ConvType' /\ ConvOK' /\ FreshOK' /\ RowsOK' /\ Settled(conv', left')
  <2>1. /\ Len(<<>>) <= Cap
        /\ \A i \in DOMAIN <<>> : (\E j \in DOMAIN conv : <<>>[i] = conv[j]) \/ <<>>[i].what \in Rowless
    BY <1>1
  <2> QED
    BY <1>0, <1>1, <1>2, <2>1, Replaced
<1>7. StoreType'
  <2>1. file' \in Seq(SlotType) /\ Len(file') <= Cap /\ written' \in 0..Cap /\ missed' \subseteq Call
    BY <1>0, <1>1
  <2> QED
    BY <1>0, <2>1 DEF StoreType, IInv, TypeOK
<1>12. FileOK'
  BY <1>0, <1>1 DEF FileOK, Kept
<1>8. FlowType'
  BY <1>0 DEF IInv, TypeOK, FlowType
<1>9. FlagType' /\ PastType'
  BY <1>0 DEF IInv, TypeOK, FlagType, PastType
<1>10. EndOK' /\ SplitOK'
  BY <1>0 DEF IInv, EndOK, SplitOK
<1>11. pc' \notin InRound /\ ~Judging'
  BY <1>0 DEF InRound, InBatch, Judging
<1> QED
  BY <1>6, <1>7, <1>8, <1>9, <1>10, <1>11, <1>12, TypePartsNext, Settles

LEMMA FrontOf ==
    ASSUME NEW T, NEW c \in Seq(T), NEW k \in 1..Len(c)
    PROVE  /\ SubSeq(c, 1, k - 1) \in Seq(T) /\ Len(SubSeq(c, 1, k - 1)) = k - 1
           /\ \A i \in 1..k - 1 : SubSeq(c, 1, k - 1)[i] = c[i]
OBVIOUS

LEMMA RewindStep == ASSUME IInv, Rewind PROVE IInv'
<1>0. /\ pc = "prompt" /\ pc' = "prompt"
      /\ UNCHANGED <<keep, rc, at, pending, blocked, asked, seen, handoff, sigint, oneShot,
                     did, left, lapsed, calls, crashes>>
  BY DEF Rewind, turn, past
<1>1. PICK i \in DOMAIN conv : conv[i] = User /\ conv' = SubSeq(conv, 1, i - 1)
  BY DEF Rewind
<1> DEFINE d == SubSeq(conv, 1, i - 1)
<1>2. /\ conv \in Seq(SlotType) /\ Len(conv) \in Nat /\ Len(conv) <= Cap /\ Cap \in Nat
      /\ Good(conv, left, calls) /\ Settled(conv, left)
  BY <1>0, Sizes DEF IInv, TypeOK, ConvOK, SettledOK, InRound, InBatch, Judging
<1>3. i \in 1..Len(conv)
  BY <1>1, <1>2
<1>4. d \in Seq(SlotType) /\ Len(d) = i - 1 /\ \A j \in 1..i - 1 : d[j] = conv[j]
  BY <1>2, <1>3, FrontOf
<1> HIDE DEF d
<1>5. Shaped(d, conv) /\ RoundStart(conv, Len(d) + 1) /\ Len(d) <= Cap
  BY <1>1, <1>2, <1>3, <1>4 DEF Shaped, RoundStart, IsCall, IsResult, User, Slot
<1>6. Good(d, left, calls) /\ Settled(d, left)
  BY <1>2, <1>4, <1>5, GoodShaped, CutSettled
<1>7. conv' = d
  BY <1>1 DEF d
<1>8. ConvType' /\ ConvOK' /\ FreshOK' /\ RowsOK' /\ Settled(conv', left')
  <2>1. \A j \in DOMAIN d : \E m \in DOMAIN conv : d[j] = conv[m]
    <3> TAKE j \in DOMAIN d
    <3>1. j \in 1..i - 1 /\ j \in DOMAIN conv
      BY <1>2, <1>3, <1>4
    <3> QED
      BY <1>4, <3>1
  <2> QED
    BY <1>0, <1>4, <1>5, <1>6, <1>7, <2>1, Replaced
<1>9. StoreType' /\ FileOK' /\ title' \in {"none", "tried", "set"}
  <2>1. CASE file' = conv' /\ written' = Len(conv') /\ missed' = {} /\ UNCHANGED <<failed, faults, title>>
    <3>1. Len(d) \in 0..Cap /\ file' = d /\ written' = Len(d)
      BY <1>4, <1>5, <1>7, <2>1
    <3>2. StoreType'
      BY <1>4, <2>1, <3>1 DEF StoreType, IInv, TypeOK
    <3>3. FileOK'
      BY <1>4, <1>7, <3>1, KeptSelf DEF FileOK
    <3> QED
      BY <2>1, <3>2, <3>3 DEF IInv, TypeOK
  <2>2. CASE SaveAfresh(conv') /\ title' \in {"set", "none"}
    <3>1. SaveAfresh(d)
      BY <1>7, <2>2
    <3> QED
      BY <1>4, <1>5, <1>7, <2>2, <3>1, AfreshFile DEF IInv
  <2> QED
    BY <2>1, <2>2 DEF Rewind, TitleKept
<1>10. FlowType'
  BY <1>0, <1>9 DEF IInv, TypeOK, FlowType
<1>11. FlagType' /\ PastType'
  BY <1>0 DEF IInv, TypeOK, FlagType, PastType
<1>12. EndOK' /\ SplitOK'
  BY <1>0 DEF IInv, EndOK, SplitOK
<1>13. pc' \notin InRound /\ ~Judging'
  BY <1>0 DEF InRound, InBatch, Judging
<1> QED
  BY <1>8, <1>9, <1>10, <1>11, <1>12, <1>13, TypePartsNext, Settles

--------------------------------------------------------------------------------
(* The reply *)

LEMMA NothingJoined ==
    ASSUME NEW T, NEW c \in Seq(T) PROVE c \o <<>> = c
OBVIOUS

LEMMA OneJoined ==
    ASSUME NEW T, NEW c \in Seq(T), NEW x \in T PROVE c \o <<x>> = Append(c, x)
OBVIOUS

\* What any reply leaves alone.
LEMMA StoredFlow ==
    ASSUME IInv, NEW new, NEW r \in {"error", "text", "blank", "stopped", "calls", "cut"}, pc = "request",
           Stored(new, r)
    PROVE  /\ conv' = conv \o new /\ Save(conv \o new) /\ rc' = r /\ pc' = "stored"
           /\ FlowType' /\ FlagType' /\ EndOK' /\ SplitOK' /\ RoundOK' /\ BatchOK'
           /\ UNCHANGED <<did, left, lapsed>>
           /\ Good(conv, left, calls) /\ Settled(conv, left) /\ conv \in Seq(SlotType)
<1>1. /\ conv' = conv \o new /\ Save(conv \o new) /\ rc' = r /\ pc' = "stored"
      /\ UNCHANGED <<keep, at, pending, blocked, asked, seen, handoff, title, sigint, oneShot, did, left, lapsed, crashes>>
  BY DEF Stored
<1>2. FlowType'
  BY <1>1 DEF IInv, TypeOK, FlowType
<1>3. FlagType'
  BY <1>1 DEF IInv, TypeOK, FlagType
<1>4. EndOK' /\ SplitOK' /\ RoundOK' /\ BatchOK'
  BY <1>1 DEF IInv, EndOK, SplitOK, RoundOK, BatchOK, InRound, InBatch
<1>5. Good(conv, left, calls) /\ Settled(conv, left) /\ conv \in Seq(SlotType)
  BY DEF IInv, TypeOK, ConvOK, SettledOK, InRound, InBatch, Judging
<1> QED
  BY <1>1, <1>2, <1>3, <1>4, <1>5

LEMMA ReplyNoneStep == ASSUME IInv, ReplyNone PROVE IInv'
<1>0. pc = "request" /\ Stored(<<>>, "error") /\ calls' = calls
  BY DEF ReplyNone
<1>1. /\ conv' = conv \o <<>> /\ Save(conv \o <<>>) /\ rc' = "error" /\ pc' = "stored"
      /\ FlowType' /\ FlagType' /\ EndOK' /\ SplitOK' /\ RoundOK' /\ BatchOK'
      /\ UNCHANGED <<did, left, lapsed>>
      /\ Good(conv, left, calls) /\ Settled(conv, left) /\ conv \in Seq(SlotType)
  BY <1>0, StoredFlow, Zenon
<1>2. conv' = conv /\ Save(conv)
  <2>1. conv \o <<>> = conv
    BY <1>1, NothingJoined
  <2> QED
    BY <1>1, <2>1
<1>3. StoreType' /\ FileOK'
  BY <1>0, <1>1, <1>2, SaveFile DEF IInv, TypeOK
<1>4. ConvType' /\ ConvOK' /\ RowsOK' /\ FreshOK' /\ Settled(conv', left')
  BY <1>0, <1>1, <1>2 DEF IInv, TypeOK, ConvType, ConvOK, RowsOK, FreshOK
<1>5. PastType'
  BY <1>0 DEF IInv, TypeOK, PastType, Stored
<1>6. pc' \notin InRound /\ ~Judging'
  BY <1>1 DEF InRound, InBatch, Judging
<1> QED
  BY <1>1, <1>3, <1>4, <1>5, <1>6, TypePartsNext, Settles

LEMMA ReplyTextStep == ASSUME IInv, ReplyText PROVE IInv'
<1>0. pc = "request" /\ Room(1) /\ calls' = calls
  BY DEF ReplyText
<1>1. PICK w \in {"text", "blank"}, r \in {"text", "blank", "stopped"} : Stored(<<Reply(w)>>, r)
  BY DEF ReplyText
<1>2. /\ conv' = conv \o <<Reply(w)>> /\ Save(conv \o <<Reply(w)>>) /\ rc' = r /\ pc' = "stored"
      /\ FlowType' /\ FlagType' /\ EndOK' /\ SplitOK' /\ RoundOK' /\ BatchOK'
      /\ UNCHANGED <<did, left, lapsed>>
      /\ Good(conv, left, calls) /\ Settled(conv, left) /\ conv \in Seq(SlotType)
  <2>1. r \in {"error", "text", "blank", "stopped", "calls", "cut"}
    OBVIOUS
  <2> QED
    BY <1>0, <1>1, <2>1, StoredFlow, Zenon
<1>3. Reply(w) \in SlotType /\ Reply(w).role = "reply" /\ Reply(w).what \in Rowless
  BY SlotsTyped DEF Reply, Slot, Rowless
<1>4. conv' = Append(conv, Reply(w)) /\ Save(conv')
  <2>1. conv \o <<Reply(w)>> = Append(conv, Reply(w))
    BY <1>2, <1>3, OneJoined
  <2> QED
    BY <1>2, <2>1
<1>5. ConvType' /\ ConvOK' /\ FreshOK' /\ RowsOK' /\ Settled(conv', left')
  BY <1>0, <1>2, <1>3, <1>4, GrownBy
<1>6. StoreType' /\ FileOK'
  BY <1>0, <1>3, <1>4, SavedGrown
<1>7. PastType'
  BY <1>0, <1>1 DEF IInv, TypeOK, PastType, Stored
<1>8. pc' \notin InRound /\ ~Judging'
  BY <1>2 DEF InRound, InBatch, Judging
<1> QED
  BY <1>2, <1>5, <1>6, <1>7, <1>8, TypePartsNext, Settles

\* The calls of a reply follow its head, and nothing has been done for them.
LEMMA ReplyCallsStep == ASSUME IInv, ReplyCalls PROVE IInv'
<1>0. pc = "request"
  BY DEF ReplyCalls
<1>1. PICK n \in 1..Round :
         /\ Room(n + 1) /\ calls + n <= MaxCalls
         /\ calls' = calls + n
         /\ \E r \in {"calls", "cut"} : Stored(<<Asks>> \o [i \in 1..n |-> Calls(calls + i)], r)
  BY DEF ReplyCalls
<1> DEFINE b == [i \in 1..n |-> Calls(calls + i)]
           new == <<Asks>> \o b
           d == conv \o new
<1>2. PICK r \in {"calls", "cut"} : Stored(new, r)
  BY <1>1
<1>3. /\ conv' = d /\ Save(d) /\ rc' = r /\ pc' = "stored"
      /\ FlowType' /\ FlagType' /\ EndOK' /\ SplitOK' /\ RoundOK' /\ BatchOK'
      /\ UNCHANGED <<did, left, lapsed>>
      /\ Good(conv, left, calls) /\ Settled(conv, left) /\ conv \in Seq(SlotType)
  <2>1. r \in {"error", "text", "blank", "stopped", "calls", "cut"}
    OBVIOUS
  <2> HIDE DEF b, new
  <2> QED
    BY <1>0, <1>2, <2>1, StoredFlow, Zenon
<1>4. /\ n \in Nat /\ n >= 1 /\ calls \in Nat /\ Len(conv) \in Nat /\ Len(conv) + n + 1 <= Cap
      /\ calls + n <= MaxCalls /\ MaxCalls \in Nat /\ Cap \in Nat
  BY <1>1, Sizes DEF IInv, TypeOK, Room
<1>5. b \in Seq(SlotType) /\ Len(b) = n /\ \A i \in 1..n : b[i] = Calls(calls + i)
  <2>1. \A i \in 1..n : calls + i \in 0..MaxCalls
    BY <1>4
  <2>2. \A i \in 1..n : Calls(calls + i) \in SlotType
    BY <2>1, SlotsTyped
  <2>3. b \in [1..n -> SlotType]
    BY <2>2
  <2> HIDE DEF b
  <2>4. b \in Seq(SlotType) /\ Len(b) = n
    BY <1>4, <2>3
  <2> QED
    BY <2>4 DEF b
<1>6. Asks \in SlotType /\ <<Asks>> \in Seq(SlotType) /\ Len(<<Asks>>) = 1 /\ <<Asks>>[1] = Asks
  BY SlotsTyped
<1> HIDE DEF b
<1>7. new \in Seq(SlotType) /\ Len(new) = 1 + n /\ new[1] = Asks /\ \A i \in 1..n : new[1 + i] = b[i]
  <2> DEFINE a == <<Asks>>
  <2>1. a \in Seq(SlotType) /\ b \in Seq(SlotType) /\ Len(a) = 1 /\ Len(b) = n /\ a[1] = Asks
    BY <1>5, <1>6
  <2> HIDE DEF a
  <2>2. /\ a \o b \in Seq(SlotType) /\ Len(a \o b) = Len(a) + Len(b)
        /\ \A i \in 1..Len(a) : (a \o b)[i] = a[i]
        /\ \A i \in 1..Len(b) : (a \o b)[Len(a) + i] = b[i]
    <3>1. a \in Seq(SlotType) /\ b \in Seq(SlotType)
      BY <2>1
    <3> QED
      BY <3>1
  <2> QED
    BY <1>4, <2>1, <2>2 DEF a
<1> HIDE DEF new
<1>8. /\ d \in Seq(SlotType) /\ Len(d) = Len(conv) + 1 + n
      /\ \A i \in 1..Len(conv) : d[i] = conv[i]
      /\ \A i \in 1..1 + n : d[Len(conv) + i] = new[i]
  <2>1. conv \in Seq(SlotType) /\ new \in Seq(SlotType)
    BY <1>3, <1>7
  <2>2. /\ d \in Seq(SlotType) /\ Len(d) = Len(conv) + Len(new)
        /\ \A i \in 1..Len(conv) : d[i] = conv[i]
        /\ \A i \in 1..Len(new) : d[Len(conv) + i] = new[i]
    BY <2>1
  <2> QED
    BY <1>4, <1>7, <2>2
<1> HIDE DEF d
<1>9. d[Len(conv) + 1] = Asks /\ \A i \in 1..n : d[Len(conv) + 1 + i] = Calls(calls + i)
  <2>1. d[Len(conv) + 1] = new[1]
    BY <1>4, <1>8
  <2>2. \A i \in 1..n : 1 + i \in 1..1 + n /\ Len(conv) + (1 + i) = Len(conv) + 1 + i
    BY <1>4
  <2>3. ASSUME NEW i \in 1..n PROVE d[Len(conv) + 1 + i] = Calls(calls + i)
    <3>1. d[Len(conv) + (1 + i)] = new[1 + i]
      BY <1>8, <2>2
    <3> QED
      BY <1>5, <1>7, <2>2, <3>1
  <2> QED
    BY <1>7, <2>1, <2>3
<1>10. /\ Shaped(conv, d) /\ RoundStart(d, Len(conv) + 1)
       /\ \A j \in 1..n : IsCall(d, Len(conv) + 1 + j) /\ d[Len(conv) + 1 + j].call = calls + j
  <2>1. Len(conv) + 1 \in DOMAIN d /\ \A j \in 1..n : Len(conv) + 1 + j \in DOMAIN d
    BY <1>4, <1>8
  <2>2. Shaped(conv, d)
    BY <1>4, <1>8 DEF Shaped
  <2>3. RoundStart(d, Len(conv) + 1)
    BY <1>9, <2>1 DEF RoundStart, IsCall, IsResult, Asks, Slot
  <2>4. \A j \in 1..n : IsCall(d, Len(conv) + 1 + j) /\ d[Len(conv) + 1 + j].call = calls + j
    <3> TAKE j \in 1..n
    <3>1. d[Len(conv) + 1 + j] = Calls(calls + j) /\ Len(conv) + 1 + j \in DOMAIN d
      BY <1>9, <2>1
    <3> QED
      BY <3>1 DEF IsCall, Calls, Slot
  <2> QED
    BY <2>2, <2>3, <2>4
<1>11. /\ Good(d, left, calls + n)
       /\ \A i \in DOMAIN d : Waits(d, i) /\ d[i].call \notin left => i > Len(conv) + 1
  BY <1>3, <1>4, <1>8, <1>10, GoodCalls
<1>12. ConvType' /\ ConvOK'
  <2>1. Len(d) <= Cap
    BY <1>4, <1>8
  <2> QED
    BY <1>1, <1>3, <1>8, <1>11, <2>1 DEF ConvType, ConvOK
<1>13. RowsOK'
  <2>1. \A i \in DOMAIN d : (\E j \in DOMAIN conv : d[i] = conv[j]) \/ d[i].what \in Rowless
    <3> TAKE i \in DOMAIN d
    <3>1. i \in 1..Len(conv) \/ i = Len(conv) + 1 \/ i - (Len(conv) + 1) \in 1..n
      BY <1>4, <1>8
    <3>2. i \in 1..Len(conv) => i \in DOMAIN conv
      BY <1>3
    <3>3. CASE i \in 1..Len(conv)
      BY <1>8, <3>2, <3>3
    <3>4. CASE i = Len(conv) + 1
      BY <1>9, <3>4 DEF Asks, Slot, Rowless
    <3>5. CASE i - (Len(conv) + 1) \in 1..n
      <4>1. Len(conv) + 1 + (i - (Len(conv) + 1)) = i
        BY <1>4, <1>8
      <4>2. d[i] = Calls(calls + (i - (Len(conv) + 1)))
        BY <1>9, <3>5, <4>1
      <4> QED
        BY <4>2 DEF Calls, Slot, Rowless
    <3> QED
      BY <3>1, <3>3, <3>4, <3>5
  <2> QED
    BY <1>3, <2>1, RowsFrom DEF IInv
<1>14. FreshOK'
  BY <1>1, <1>3, <1>4 DEF IInv, FreshOK, Call
<1>15. StoreType' /\ FileOK'
  <2>1. \A i \in 1..written : i \in 1..Len(conv)
    BY <1>4 DEF IInv, FileOK, Kept, TypeOK
  <2>2. Len(d) <= Cap /\ Len(conv) <= Len(d) /\ TypeOK /\ FileOK /\ \A i \in 1..written : d[i] = conv[i]
    BY <1>4, <1>8, <2>1 DEF IInv
  <2> QED
    BY <1>0, <1>3, <1>8, <2>2, SaveFile
<1>16. PastType'
  BY <1>1, <1>2, <1>4 DEF IInv, TypeOK, PastType, Stored
<1>17. SettledOK'
  BY <1>3 DEF SettledOK, Judging
<1>18. JudgedOK'
  <2>1. Len(conv) + 1 \in DOMAIN d /\ d[Len(conv) + 1].role = "head"
    BY <1>9, <1>10 DEF RoundStart, Asks, Slot
  <2>2. \A j \in Len(conv) + 1 + 1..Len(d) : IsCall(d, j) /\ did[d[j].call] = 0
    <3> TAKE j \in Len(conv) + 1 + 1..Len(d)
    <3> DEFINE m == j - (Len(conv) + 1)
    <3>1. m \in 1..n /\ Len(conv) + 1 + m = j /\ calls + m \in Call /\ calls + m > calls
      BY <1>4, <1>8 DEF Call
    <3>2. IsCall(d, j) /\ d[j].call = calls + m
      BY <1>10, <3>1
    <3> QED
      BY <3>1, <3>2 DEF IInv, FreshOK
  <2> QED
    BY <1>3, <1>11, <2>1, <2>2 DEF JudgedOK
<1>19. TypeOK'
  BY <1>3, <1>12, <1>15, <1>16, TypePartsNext
<1> QED
  BY <1>3, <1>12, <1>13, <1>14, <1>15, <1>17, <1>18, <1>19 DEF IInv

LEMMA JudgeTextStep == ASSUME IInv, JudgeText PROVE IInv'
<1>0. /\ pc = "judge" /\ rc \in {"text", "blank", "stopped"} /\ rc' = "none" /\ pc' \in {"top", "end"} /\ asked' \in BOOLEAN
      /\ UNCHANGED <<keep, at, pending, blocked, seen, handoff, title, sigint, oneShot, did, left, lapsed, calls, crashes>>
  BY DEF JudgeText, past, IInv, TypeOK
<1>1. Settled(conv, left)
  BY <1>0 DEF IInv, SettledOK, InRound, InBatch, Judging
<1>2. FlowType'
  BY <1>0 DEF IInv, TypeOK, FlowType
<1>3. FlagType' /\ PastType'
  BY <1>0 DEF IInv, TypeOK, FlagType, PastType
<1>4. EndOK' /\ SplitOK'
  BY <1>0 DEF IInv, EndOK, SplitOK
<1>5. pc' \notin InRound /\ ~Judging'
  BY <1>0 DEF InRound, InBatch, Judging
<1>6. CASE Room(1) /\ conv' = Append(conv, Note) /\ Save(conv')
  <2>1. Note \in SlotType /\ Note.role = "note" /\ Note.what \in Rowless
    BY SlotsTyped DEF Note, Slot, Rowless
  <2>2. ConvType' /\ ConvOK' /\ FreshOK' /\ RowsOK' /\ Settled(conv', left')
    BY <1>0, <1>1, <1>6, <2>1, GrownBy
  <2>3. StoreType' /\ FileOK'
    BY <1>0, <1>6, <2>1, SavedGrown
  <2> QED
    BY <1>2, <1>3, <1>4, <1>5, <2>2, <2>3, TypePartsNext, Settles
<1>7. CASE UNCHANGED <<conv, store, asked>>
  BY <1>0, <1>1, <1>2, <1>3, <1>4, <1>5, <1>7, Idle DEF IInv, TypeOK
<1> QED
  BY <1>6, <1>7 DEF JudgeText

\* The slot of the head is the one the code finds.
LEMMA JudgeCallsStep == ASSUME IInv, JudgeCalls PROVE IInv'
<1>0. /\ pc = "judge" /\ rc \in {"calls", "cut"} /\ pending' = "continue" /\ blocked' = FALSE /\ pc' = "calls"
      /\ UNCHANGED <<conv, store, keep, rc, asked, seen, handoff, title, sigint, oneShot, did, left, lapsed, calls, crashes>>
  BY DEF JudgeCalls, past
<1>1. /\ conv \in Seq(SlotType) /\ Len(conv) \in Nat /\ Len(conv) <= Cap /\ Cap \in Nat
      /\ Unique(conv) /\ \A i \in DOMAIN conv : i \in 1..Len(conv)
  BY Sizes DEF IInv, TypeOK, ConvOK, Good
<1>2. PICK h \in DOMAIN conv :
        /\ conv[h].role = "head"
        /\ \A j \in h + 1..Len(conv) : IsCall(conv, j) /\ did[conv[j].call] = 0
        /\ \A i \in DOMAIN conv : Waits(conv, i) /\ conv[i].call \notin left => i > h
  BY <1>0 DEF IInv, JudgedOK, Judging
<1> DEFINE P(i) == conv[i].role = "head" /\ \A j \in i + 1..Len(conv) : IsCall(conv, j)
<1>3. at' = 1 + h
  <2>1. at' = 1 + CHOOSE i \in DOMAIN conv : P(i)
    BY DEF JudgeCalls
  <2>2. P(h)
    BY <1>2
  <2>3. ASSUME NEW i \in DOMAIN conv, P(i) PROVE i = h
    <3>1. ~(i \in h + 1..Len(conv)) /\ ~(h \in i + 1..Len(conv))
      BY <1>2, <2>3 DEF IsCall
    <3> QED
      BY <1>1, <3>1
  <2> HIDE DEF P
  <2>4. (CHOOSE i \in DOMAIN conv : P(i)) = h
    BY <2>2, <2>3
  <2> QED
    BY <2>1, <2>4
<1>4. h \in 1..Len(conv) /\ at' \in 1..Len(conv) + 1 /\ at' \in 0..Cap + 1 /\ at' \in Nat
  BY <1>1, <1>2, <1>3
<1>5. FlowType'
  BY <1>0, <1>4 DEF IInv, TypeOK, FlowType
<1>6. FlagType'
  BY <1>0 DEF IInv, TypeOK, FlagType
<1>7. EndOK' /\ SplitOK' /\ SettledOK' /\ JudgedOK' /\ BatchOK'
  BY <1>0 DEF IInv, EndOK, SplitOK, SettledOK, JudgedOK, Judging, InRound, InBatch, BatchOK
<1>8. ConvOK' /\ FreshOK' /\ RowsOK' /\ FileOK'
  BY <1>0, Still
<1>9. TypeOK'
  BY <1>0, <1>5, <1>6, StillTypes DEF IInv, TypeOK
<1>10. RoundOK'
  <2>1. \A j \in at'..Len(conv) : /\ j \in h + 1..Len(conv) /\ IsCall(conv, j) /\ did[conv[j].call] = 0
                                  /\ j \in DOMAIN conv
    BY <1>1, <1>2, <1>3, <1>4
  <2>2. \A j \in at'..Len(conv) : ~RoundStart(conv, j) /\ ~IsResult(conv, j)
    BY <2>1 DEF RoundStart, IsCall, IsResult
  <2>3. \A j \in at'..Len(conv) : \A m \in at'..j : IsCall(conv, m)
    BY <1>1, <1>4, <2>1
  <2>4. ASSUME NEW j \in at'..Len(conv) PROVE NoResult(conv, conv[j].call)
    <3> SUFFICES ASSUME NEW k \in DOMAIN conv, IsResult(conv, k), conv[k].call = conv[j].call PROVE FALSE
      BY DEF NoResult
    <3>1. j < k
      BY <1>1, <2>1, <2>2 DEF Unique
    <3>2. k \in at'..Len(conv)
      BY <1>1, <1>4, <3>1
    <3> QED
      BY <2>2, <3>2
  <2>5. \A i \in DOMAIN conv : Waits(conv, i) /\ conv[i].call \notin left => i >= at'
    BY <1>1, <1>2, <1>3, <1>4
  <2>6. /\ at' \in 1..Len(conv) + 1
        /\ \A j \in at'..Len(conv) : ~RoundStart(conv, j)
        /\ \A j \in at'..Len(conv) : IsCall(conv, j) => \A m \in at'..j : IsCall(conv, m)
        /\ \A j \in at'..Len(conv) : did[conv[j].call] = 0 /\ NoResult(conv, conv[j].call)
    BY <1>4, <2>1, <2>2, <2>3, <2>4
  <2>7. RoundFrom(conv, at', left, did)
    BY <2>5, <2>6 DEF RoundFrom
  <2>8. IsCall(conv, at') => at' \in at'..Len(conv)
    BY <1>1, <1>4 DEF IsCall
  <2> QED
    BY <1>0, <2>6, <2>7, <2>8 DEF RoundOK
<1> QED
  BY <1>7, <1>8, <1>9, <1>10 DEF IInv

--------------------------------------------------------------------------------
(* The calls of a round *)

\* A call is looked at, and the conversation and the transcript stay as they are.
LEMMA CallStill ==
    ASSUME IInv, AtCall, pc' = "answer", UNCHANGED <<conv, store, did, left>>, UnchangedCall,
           pending' \in {"continue", "done", "handoff", "full", "denied"},
           blocked' \in BOOLEAN, handoff' \in BOOLEAN, blocked' => oneShot, handoff' => ~oneShot
    PROVE  IInv'
<1>0. /\ pc = "calls" /\ IsCall(conv, at)
      /\ UNCHANGED <<keep, rc, at, asked, seen, title, sigint, oneShot, lapsed, calls, crashes>>
  BY DEF AtCall, UnchangedCall
<1>1. FlowType'
  BY <1>0 DEF IInv, TypeOK, FlowType
<1>2. FlagType'
  BY <1>0 DEF IInv, TypeOK, FlagType
<1>3. TypeOK'
  BY <1>0, <1>1, <1>2, StillTypes DEF IInv, TypeOK
<1>4. ConvOK' /\ FreshOK' /\ RowsOK' /\ FileOK'
  BY <1>0, Still
<1>5. EndOK' /\ SplitOK' /\ SettledOK' /\ JudgedOK' /\ BatchOK'
  BY <1>0 DEF EndOK, SplitOK, SettledOK, JudgedOK, BatchOK, InRound, InBatch, Judging
<1>6. RoundOK'
  <2>1. RoundFrom(conv, at, left, did) /\ NoResult(conv, conv[at].call)
    BY <1>0 DEF IInv, RoundOK, InRound
  <2> QED
    BY <1>0, <2>1 DEF RoundOK
<1> QED
  BY <1>3, <1>4, <1>5, <1>6 DEF IInv

LEMMA CallStep1 == ASSUME IInv, CallRefused \/ CallDenied \/ CallPlan \/ CallAsk PROVE IInv'
<1>0. pc = "calls" => ~blocked
  BY DEF IInv, EndOK
<1>1. AtCall /\ pc' = "answer" /\ UNCHANGED <<conv, store, did, left>> /\ UnchangedCall
  BY DEF CallRefused, CallDenied, CallPlan, CallAsk
<1>2. /\ pending' \in {"continue", "done", "handoff", "full", "denied"}
      /\ blocked' \in BOOLEAN /\ handoff' \in BOOLEAN /\ (blocked' => oneShot) /\ (handoff' => ~oneShot)
  <2>1. CASE CallRefused
    BY <2>1 DEF CallRefused, IInv, TypeOK, EndOK
  <2>2. CASE CallDenied
    BY <2>2 DEF CallDenied, IInv, TypeOK, EndOK
  <2>3. CASE CallPlan
    BY <2>3 DEF CallPlan, IInv, TypeOK, EndOK
  <2>4. CASE CallAsk
    BY <2>4 DEF CallAsk, IInv, TypeOK, EndOK
  <2> QED
    BY <2>1, <2>2, <2>3, <2>4
<1> QED
  BY <1>1, <1>2, CallStill

\* A call is numbered like no other, and no number is above the last one.
LEMMA CallNumber ==
    ASSUME IInv, NEW i \in DOMAIN conv, IsCall(conv, i) \/ IsResult(conv, i)
    PROVE  conv[i].call \in Call /\ conv[i].call \in 1..calls /\ calls \in Nat /\ calls <= MaxCalls
<1>1. conv[i].call \in 1..calls
  BY DEF IInv, ConvOK, Good, Numbered
<1> QED
  BY <1>1, Sizes DEF IInv, TypeOK, Call

\* What is executed for the call at at changes nothing for those behind it.
LEMMA RoundDid ==
    ASSUME IInv, IsCall(conv, at), RoundFrom(conv, at, left, did),
           NEW v, did' = [did EXCEPT ![conv[at].call] = v]
    PROVE  RoundFrom(conv, at, left, did')
<1> DEFINE n == conv[at].call
<1>1. n \in Call /\ did \in [Call -> 0..Steps]
  BY CallNumber DEF IInv, TypeOK, IsCall
<1>2. conv \in Seq(SlotType) /\ Len(conv) \in Nat /\ at \in 1..Len(conv)
  BY DEF IInv, TypeOK, IsCall
<1>3. ASSUME NEW j \in at..Len(conv), IsCall(conv, j), j > at PROVE did'[conv[j].call] = did[conv[j].call]
  <2>1. j \in DOMAIN conv /\ at \in DOMAIN conv /\ j # at
    BY <1>2, <1>3
  <2>2. conv[j].call # n
    BY <1>3, <2>1 DEF IInv, ConvOK, Good, Unique
  <2>3. conv[j].call \in Call
    BY <1>3, <2>1, CallNumber
  <2> HIDE DEF n
  <2> QED
    BY <1>1, <2>2, <2>3 DEF n
<1> QED
  BY <1>3 DEF RoundFrom

LEMMA CallRunStep == ASSUME IInv, CallRun PROVE IInv'
<1> DEFINE n == conv[at].call
<1>0. /\ pc = "calls" /\ pc' = "answer" /\ IsCall(conv, at) /\ did' = [did EXCEPT ![n] = @ + 1]
      /\ UNCHANGED <<conv, store, pending, blocked, handoff, left>>
      /\ UNCHANGED <<keep, rc, at, asked, seen, title, sigint, oneShot, lapsed, calls, crashes>>
  BY DEF CallRun, AtCall, UnchangedCall
<1>1. RoundFrom(conv, at, left, did) /\ NoResult(conv, n) /\ did[n] = 0
  BY <1>0 DEF IInv, RoundOK, InRound
<1>2. n \in Call /\ n \in 1..calls /\ did \in [Call -> 0..Steps] /\ calls \in Nat
  BY <1>0, CallNumber DEF IInv, TypeOK, IsCall
<1> HIDE DEF n
<1>3. \A c \in Call : did'[c] = IF c = n THEN 1 ELSE did[c]
  BY <1>0, <1>1, <1>2
<1>4. PastType'
  <2>1. did' \in [Call -> 0..Steps]
    BY <1>0, <1>1, <1>2, Sizes
  <2> QED
    BY <1>0, <2>1 DEF IInv, TypeOK, PastType
<1>5. FlowType'
  BY <1>0 DEF IInv, TypeOK, FlowType
<1>6. FlagType'
  BY <1>0 DEF IInv, TypeOK, FlagType
<1>7. ConvType' /\ StoreType' /\ FileOK'
  BY <1>0 DEF IInv, TypeOK, ConvType, StoreType, FileOK, Kept, store
<1>8. ConvOK'
  BY <1>0 DEF IInv, ConvOK
<1>9. EndOK' /\ SplitOK' /\ SettledOK' /\ JudgedOK' /\ BatchOK'
  BY <1>0 DEF IInv, EndOK, SplitOK, SettledOK, JudgedOK, BatchOK, InRound, InBatch, Judging
<1>10. RoundOK'
  <2>1. RoundFrom(conv, at, left, did')
    BY <1>0, <1>1, RoundDid DEF n
  <2> QED
    BY <1>0, <1>1, <2>1 DEF RoundOK, n
<1>11. FreshOK'
  BY <1>0, <1>2, <1>3 DEF IInv, FreshOK
<1>12. RowsOK'
  <2> SUFFICES ASSUME NEW i \in DOMAIN conv PROVE RowOK(conv[i], did', lapsed)
    BY <1>0 DEF RowsOK
  <2>1. RowOK(conv[i], did, lapsed)
    BY DEF IInv, RowsOK
  <2>2. CASE conv[i].role = "result"
    <3>1. IsResult(conv, i)
      BY <2>2 DEF IsResult
    <3>2. conv[i].call # n /\ conv[i].call \in Call
      BY <1>1, <3>1, CallNumber DEF NoResult
    <3> QED
      BY <1>3, <2>1, <3>2 DEF RowOK
  <2>3. CASE conv[i].role # "result"
    BY <2>1, <2>3 DEF RowOK
  <2> QED
    BY <2>2, <2>3
<1>13. TypeOK'
  BY <1>4, <1>5, <1>6, <1>7, TypePartsNext
<1> QED
  BY <1>7, <1>8, <1>9, <1>10, <1>11, <1>12, <1>13 DEF IInv

LEMMA CallFullStep == ASSUME IInv, CallFull PROVE IInv'
<1>0. /\ pc \in {"calls", "answer"} /\ pc' = "round" /\ pending' = "full" /\ left' = left \cup Unanswered(conv)
      /\ UNCHANGED <<conv, store, blocked, handoff, did>>
      /\ UNCHANGED <<keep, rc, at, asked, seen, title, sigint, oneShot, lapsed, calls, crashes>>
  BY DEF CallFull, Full, AtCall, UnchangedCall
<1>1. Settled(conv, left') /\ left \subseteq left' /\ left' \subseteq Call
  BY <1>0, SettleAll, OpenCalls DEF IInv, TypeOK
<1>2. FlowType'
  BY <1>0 DEF IInv, TypeOK, FlowType
<1>3. FlagType'
  BY <1>0 DEF IInv, TypeOK, FlagType
<1>4. EndOK' /\ SplitOK' /\ pc' \notin InRound /\ ~Judging'
  BY <1>0 DEF IInv, EndOK, SplitOK, InRound, InBatch, Judging
<1> QED
  BY <1>0, <1>1, <1>2, <1>3, <1>4, Idle

\* The calls of the round are answered.
LEMMA RoundCalledStep == ASSUME IInv, RoundCalled PROVE IInv'
<1>0. /\ pc = "calls" /\ pc' = "round" /\ ~IsCall(conv, at) /\ UNCHANGED <<conv, store, pending, blocked, handoff, did, left>>
      /\ UNCHANGED <<keep, rc, at, asked, seen, title, sigint, oneShot, lapsed, calls, crashes>>
  BY DEF RoundCalled, UnchangedCall
<1>1. Settled(conv, left)
  <2> SUFFICES ASSUME NEW i \in DOMAIN conv, Waits(conv, i), conv[i].call \notin left PROVE FALSE
    BY DEF Settled
  <2>1. RoundFrom(conv, at, left, did) /\ conv \in Seq(SlotType)
    BY <1>0 DEF IInv, RoundOK, InRound, TypeOK
  <2>2. i \in at..Len(conv) /\ at \in at..i /\ IsCall(conv, i)
    BY <2>1 DEF RoundFrom, Waits
  <2>3. IsCall(conv, at)
    BY <2>1, <2>2 DEF RoundFrom
  <2> QED
    BY <1>0, <2>3
<1>2. FlowType'
  BY <1>0 DEF IInv, TypeOK, FlowType
<1>3. FlagType'
  BY <1>0 DEF IInv, TypeOK, FlagType
<1>4. EndOK' /\ SplitOK' /\ pc' \notin InRound /\ ~Judging' /\ left \subseteq left' /\ left' \subseteq Call
  BY <1>0 DEF IInv, TypeOK, EndOK, SplitOK, InRound, InBatch, Judging
<1> QED
  BY <1>0, <1>1, <1>2, <1>3, <1>4, Idle

\* The call at at gets its result, the conversation's new last slot.
LEMMA AnsweredBy ==
    ASSUME IInv, pc \in {"calls", "answer"}, IsCall(conv, at), Room(1),
           NEW x \in SlotType, x.role = "result", x.call = conv[at].call,
           NEW d, d = Append(conv, x)
    PROVE  /\ conv \in Seq(SlotType) /\ d \in Seq(SlotType) /\ Len(d) = Len(conv) + 1 /\ Len(d) <= Cap
           /\ d[Len(d)] = x /\ \A i \in 1..Len(conv) : d[i] = conv[i]
           /\ Good(d, left, calls) /\ RoundFrom(d, at, left, did)
           /\ IsCall(d, at) /\ IsResult(d, Len(d)) /\ ~Waits(d, at)
<1>1. /\ conv \in Seq(SlotType) /\ Len(conv) \in Nat /\ Len(conv) + 1 <= Cap /\ at \in 1..Len(conv) /\ at \in DOMAIN conv
      /\ Good(conv, left, calls) /\ RoundFrom(conv, at, left, did) /\ NoResult(conv, conv[at].call)
  BY DEF IInv, TypeOK, Room, IsCall, RoundOK, InRound, ConvOK
<1>2. /\ d \in Seq(SlotType) /\ Len(d) = Len(conv) + 1 /\ d[Len(conv) + 1] = x
      /\ \A i \in 1..Len(conv) : d[i] = conv[i]
      /\ Shaped(conv, d)
  BY <1>1, AppendSlot
<1>3. IsResult(d, Len(d)) /\ d[Len(d)] = x /\ d[Len(d)].call = conv[at].call
  BY <1>1, <1>2 DEF IsResult
<1>4. /\ Good(d, left, calls)
      /\ \A i \in DOMAIN d : Waits(d, i) => i \in DOMAIN conv /\ Waits(conv, i) /\ i # at
  <2>1. \A j \in at..Len(conv) : ~RoundStart(conv, j)
    BY <1>1 DEF RoundFrom
  <2> QED
    BY <1>1, <1>2, <1>3, <2>1, GoodResult
<1>5. \A i \in 1..Len(conv) : /\ i \in DOMAIN conv /\ i \in DOMAIN d
                              /\ IsCall(d, i) <=> IsCall(conv, i)
                              /\ IsResult(d, i) <=> IsResult(conv, i)
                              /\ RoundStart(d, i) <=> RoundStart(conv, i)
                              /\ d[i].call = conv[i].call
  BY <1>1, <1>2 DEF IsCall, IsResult, RoundStart
<1>6. IsCall(d, at) /\ ~Waits(d, at)
  BY <1>1, <1>4, <1>5
<1>7. ~IsCall(d, Len(d)) /\ ~RoundStart(d, Len(d))
  BY <1>3 DEF IsCall, IsResult, RoundStart
<1>8. \A j \in at..Len(d) : j \in at..Len(conv) \/ j = Len(d)
  BY <1>1, <1>2
<1>9. \A j \in at..Len(conv) : j \in 1..Len(conv)
  BY <1>1
<1>10. RoundFrom(d, at, left, did)
  <2>1. at \in 1..Len(d) + 1 /\ \A j \in at..Len(d) : ~RoundStart(d, j)
    BY <1>1, <1>2, <1>5, <1>7, <1>8, <1>9 DEF RoundFrom
  <2>2. ASSUME NEW j \in at..Len(d), IsCall(d, j), NEW m \in at..j PROVE IsCall(d, m)
    <3>1. j \in at..Len(conv) /\ IsCall(conv, j) /\ m \in at..Len(conv)
      BY <1>1, <1>5, <1>7, <1>8, <1>9, <2>2
    <3> QED
      BY <1>1, <1>5, <1>9, <3>1 DEF RoundFrom
  <2>3. ASSUME NEW j \in at..Len(d), IsCall(d, j), j > at PROVE did[d[j].call] = 0 /\ NoResult(d, d[j].call)
    <3>1. j \in at..Len(conv) /\ IsCall(conv, j) /\ j \in DOMAIN conv /\ j # at
      BY <1>1, <1>5, <1>7, <1>8, <1>9, <2>3
    <3>2. did[conv[j].call] = 0 /\ NoResult(conv, conv[j].call) /\ d[j].call = conv[j].call
      BY <1>1, <1>5, <1>9, <2>3, <3>1 DEF RoundFrom
    <3>3. conv[j].call # conv[at].call
      BY <1>1, <3>1 DEF Good, Unique
    <3>4. ASSUME NEW k \in DOMAIN d, IsResult(d, k) PROVE d[k].call # d[j].call
      <4>1. k \in 1..Len(conv) \/ k = Len(d)
        BY <1>1, <1>2
      <4> QED
        BY <1>3, <1>5, <3>2, <3>3, <3>4, <4>1 DEF NoResult
    <3> QED
      BY <3>2, <3>4 DEF NoResult
  <2>4. ASSUME NEW i \in DOMAIN d, Waits(d, i), d[i].call \notin left PROVE i >= at
    <3>1. i \in DOMAIN conv /\ Waits(conv, i) /\ i \in 1..Len(conv)
      BY <1>1, <1>4, <2>4
    <3> QED
      BY <1>1, <1>5, <2>4, <3>1 DEF RoundFrom
  <2> QED
    BY <2>1, <2>2, <2>3, <2>4 DEF RoundFrom
<1> QED
  BY <1>1, <1>2, <1>3, <1>4, <1>6, <1>10

\* The next call, once the one at a is answered.
LEMMA NextCall ==
    ASSUME NEW c \in Seq(SlotType), NEW a \in DOMAIN c, NEW S, NEW D, RoundFrom(c, a, S, D), ~Waits(c, a)
    PROVE  /\ RoundFrom(c, a + 1, S, D) /\ a + 1 \in 1..Len(c) + 1
           /\ IsCall(c, a + 1) => D[c[a + 1].call] = 0 /\ NoResult(c, c[a + 1].call)
<1>0. Len(c) \in Nat /\ a \in 1..Len(c) /\ \A i \in DOMAIN c : i \in 1..Len(c)
  OBVIOUS
<1>1. \A j \in a + 1..Len(c) : j \in a..Len(c) /\ j > a
  BY <1>0
<1>2. \A j \in a + 1..Len(c) : ~RoundStart(c, j)
  BY <1>1 DEF RoundFrom
<1>3. \A j \in a + 1..Len(c) : IsCall(c, j) => \A m \in a + 1..j : IsCall(c, m)
  <2> SUFFICES ASSUME NEW j \in a + 1..Len(c), IsCall(c, j), NEW m \in a + 1..j PROVE IsCall(c, m)
    OBVIOUS
  <2>1. j \in a..Len(c) /\ m \in a..j
    BY <1>0
  <2> QED
    BY <2>1 DEF RoundFrom
<1>4. \A j \in a + 1..Len(c) : IsCall(c, j) => D[c[j].call] = 0 /\ NoResult(c, c[j].call)
  BY <1>1 DEF RoundFrom
<1>5. \A i \in DOMAIN c : Waits(c, i) /\ c[i].call \notin S => i >= a + 1
  <2> SUFFICES ASSUME NEW i \in DOMAIN c, Waits(c, i), c[i].call \notin S PROVE i >= a + 1
    OBVIOUS
  <2>1. i >= a /\ i # a
    BY DEF RoundFrom
  <2> QED
    BY <1>0, <2>1
<1>6. a + 1 \in 1..Len(c) + 1
  BY <1>0
<1>7. IsCall(c, a + 1) => a + 1 \in a + 1..Len(c)
  BY <1>0 DEF IsCall
<1> QED
  BY <1>2, <1>3, <1>4, <1>5, <1>6, <1>7 DEF RoundFrom

\* CallOver, when the call at at has been answered: the round goes on, or the turn ends.
LEMMA CallOverRound ==
    ASSUME IInv, NEW c \in Seq(SlotType), Len(c) <= Cap, conv' = c, CallOver(c),
           pc \in {"answer", "batch_end"}, UNCHANGED did,
           Good(c, left, calls), RoundFrom(c, at, left, did), at \in DOMAIN c, ~Waits(c, at),
           RowsOK', StoreType', FileOK'
    PROVE  IInv'
<1>0. /\ UNCHANGED <<keep, rc, asked, seen, title, sigint, oneShot, lapsed, calls, crashes, blocked, handoff, did>>
      /\ did \in [Call -> 0..Steps] /\ left \subseteq Call /\ Cap \in Nat /\ Len(c) \in Nat
      /\ at \in 1..Len(c)
  BY Sizes DEF CallOver, IInv, TypeOK
<1>1. FlagType'
  BY <1>0 DEF IInv, TypeOK, FlagType
<1>2. ConvType' /\ FreshOK'
  BY <1>0 DEF ConvType, IInv, FreshOK
<1>3. CASE blocked /\ pending' = "denied" /\ left' = left \cup Unanswered(c) /\ pc' = "round" /\ UNCHANGED at
  <2>1. Settled(c, left') /\ left \subseteq left'
    BY <1>3, SettleAll
  <2>2. left' \subseteq Call
    <3>1. \A i \in DOMAIN c : IsCall(c, i) => c[i].call \in Call
      <4> TAKE i \in DOMAIN c
      <4>1. IsCall(c, i) => c[i].call \in 1..calls
        BY DEF Good, Numbered
      <4> QED
        BY <4>1, Sizes DEF IInv, TypeOK, Call
    <3> QED
      BY <1>0, <1>3, <3>1 DEF Unanswered
  <2>3. ConvOK'
    <3>1. Good(c, left', calls)
      BY <2>1, GoodMore DEF IInv, TypeOK
    <3> QED
      BY <1>0, <3>1 DEF ConvOK
  <2>4. FlowType'
    BY <1>0, <1>3 DEF IInv, TypeOK, FlowType
  <2>5. PastType'
    BY <1>0, <2>2 DEF IInv, TypeOK, PastType
  <2>6. EndOK' /\ SplitOK' /\ pc' \notin InRound /\ ~Judging'
    BY <1>0, <1>3 DEF IInv, EndOK, SplitOK, InRound, InBatch, Judging
  <2> QED
    BY <1>1, <1>2, <2>1, <2>3, <2>4, <2>5, <2>6, TypePartsNext, Settles
<1>4. CASE ~blocked /\ at' = at + 1 /\ pc' = "calls" /\ UNCHANGED <<pending, left>>
  <2>1. ConvOK'
    BY <1>0, <1>4 DEF ConvOK
  <2>2. FlowType'
    <3>1. at' \in 0..Cap + 1
      BY <1>0, <1>4
    <3> QED
      BY <1>0, <1>4, <3>1 DEF IInv, TypeOK, FlowType
  <2>3. PastType'
    BY <1>0, <1>4 DEF IInv, TypeOK, PastType
  <2>4. EndOK' /\ SplitOK' /\ SettledOK' /\ JudgedOK' /\ BatchOK'
    BY <1>0, <1>4 DEF IInv, EndOK, SplitOK, SettledOK, JudgedOK, BatchOK, InRound, InBatch, Judging
  <2>5. RoundOK'
    <3>1. /\ RoundFrom(c, at + 1, left, did)
          /\ IsCall(c, at + 1) => did[c[at + 1].call] = 0 /\ NoResult(c, c[at + 1].call)
      BY NextCall
    <3> QED
      BY <1>0, <1>4, <3>1 DEF RoundOK
  <2>6. TypeOK'
    BY <1>1, <1>2, <2>2, <2>3, TypePartsNext
  <2> QED
    BY <1>2, <2>1, <2>4, <2>5, <2>6 DEF IInv
<1> QED
  BY <1>3, <1>4 DEF CallOver

LEMMA AnswerStep == ASSUME IInv, Answer PROVE IInv'
<1> DEFINE x == Told(conv[at].call)
           d == Append(conv, x)
<1>0. pc = "answer" /\ Room(1) /\ conv' = d /\ Save(conv') /\ CallOver(conv')
  BY DEF Answer
<1>1. IsCall(conv, at)
  BY <1>0 DEF IInv, RoundOK, InRound
<1>2. x \in SlotType /\ x.role = "result" /\ x.call = conv[at].call /\ x.what \in Rowless
  <2>1. conv[at].call \in 0..MaxCalls
    BY <1>1, CallNumber DEF Call, IsCall
  <2> QED
    BY <2>1, SlotsTyped DEF Told, Slot, Rowless
<1> HIDE DEF x
<1>3. /\ conv \in Seq(SlotType) /\ d \in Seq(SlotType) /\ Len(d) = Len(conv) + 1 /\ Len(d) <= Cap
      /\ d[Len(d)] = x /\ \A i \in 1..Len(conv) : d[i] = conv[i]
      /\ Good(d, left, calls) /\ RoundFrom(d, at, left, did)
      /\ IsCall(d, at) /\ ~Waits(d, at)
  BY <1>0, <1>1, <1>2, AnsweredBy
<1>4. StoreType' /\ FileOK'
  BY <1>0, <1>2, SavedGrown
<1> HIDE DEF d
<1>5. CallOver(d)
  BY <1>0
<1>6. UNCHANGED <<did, lapsed>>
  BY <1>5 DEF CallOver
<1>7. RowsOK'
  <2>1. \A i \in DOMAIN d : (\E j \in DOMAIN conv : d[i] = conv[j]) \/ d[i].what \in Rowless
    <3> TAKE i \in DOMAIN d
    <3>1. i \in 1..Len(conv) \/ i = Len(d)
      BY <1>3
    <3>2. i \in 1..Len(conv) => i \in DOMAIN conv
      BY <1>3
    <3> QED
      BY <1>2, <1>3, <3>1, <3>2
  <2> QED
    BY <1>0, <1>6, <2>1, RowsFrom DEF IInv
<1>8. at \in DOMAIN d
  BY <1>3 DEF IsCall
<1> QED
  BY <1>0, <1>3, <1>4, <1>5, <1>6, <1>7, <1>8, CallOverRound

--------------------------------------------------------------------------------
(* A batch *)

LEMMA BatchStartStep == ASSUME IInv, BatchStart PROVE IInv'
<1> DEFINE n == conv[at].call
           x == Batch(n)
           d == Append(conv, x)
<1>0. /\ pc = "calls" /\ pc' = "batch" /\ IsCall(conv, at) /\ Room(1) /\ conv' = d
      /\ UNCHANGED <<store, pending, blocked, handoff, did, left>>
      /\ UNCHANGED <<keep, rc, at, asked, seen, title, sigint, oneShot, lapsed, calls, crashes>>
  BY DEF BatchStart, AtCall, UnchangedCall
<1>1. n \in Call /\ n \in 0..MaxCalls /\ did[n] = 0
  BY <1>0, CallNumber DEF Call, IsCall, IInv, RoundOK, InRound
<1>2. x \in SlotType /\ x.role = "result" /\ x.call = n /\ x.what = "running" /\ x.rows = 0
  BY <1>1, SlotsTyped DEF Batch, Slot
<1> HIDE DEF x, n
<1>3. /\ conv \in Seq(SlotType) /\ d \in Seq(SlotType) /\ Len(d) = Len(conv) + 1 /\ Len(d) <= Cap
      /\ d[Len(d)] = x /\ \A i \in 1..Len(conv) : d[i] = conv[i]
      /\ Good(d, left, calls) /\ RoundFrom(d, at, left, did)
      /\ IsCall(d, at) /\ IsResult(d, Len(d)) /\ ~Waits(d, at)
  BY <1>0, <1>2, AnsweredBy DEF n
<1> HIDE DEF d
<1>4. ConvType' /\ ConvOK'
  BY <1>0, <1>3 DEF ConvType, ConvOK
<1>5. d[at].call = n
  BY <1>0, <1>3 DEF IsCall, n
<1>6. RowsOK'
  <2> SUFFICES ASSUME NEW i \in DOMAIN d PROVE RowOK(d[i], did, lapsed)
    BY <1>0 DEF RowsOK
  <2>1. i \in 1..Len(conv) \/ i = Len(d)
    BY <1>3
  <2>2. CASE i \in 1..Len(conv)
    <3>1. i \in DOMAIN conv /\ d[i] = conv[i]
      BY <1>3, <2>2
    <3> QED
      BY <3>1 DEF IInv, RowsOK
  <2>3. CASE i = Len(d)
    BY <1>1, <1>2, <1>3, <2>3 DEF RowOK
  <2> QED
    BY <2>1, <2>2, <2>3
<1>7. FreshOK'
  BY <1>0 DEF IInv, FreshOK
<1>8. StoreType' /\ FileOK'
  <2>1. UNCHANGED <<file, written, missed, failed, faults>>
    BY <1>0 DEF store
  <2>2. file \in Seq(SlotType) /\ Len(file) = written /\ Kept(file, conv, missed, FALSE) /\ Len(conv) <= Len(d)
        /\ \A i \in 1..Len(file) : d[i] = conv[i]
    <3>1. file \in Seq(SlotType) /\ Len(file) = written /\ Kept(file, conv, missed, FALSE)
      BY <1>0 DEF IInv, TypeOK, FileOK
    <3>2. \A i \in 1..Len(file) : i \in 1..Len(conv)
      BY <1>3, <3>1 DEF Kept
    <3>3. \A i \in 1..Len(file) : d[i] = conv[i]
      BY <1>3, <3>2
    <3>4. Len(conv) <= Len(d)
      BY <1>3
    <3> QED
      BY <3>1, <3>3, <3>4
  <2>3. Kept(file, d, missed, FALSE)
    BY <1>3, <2>2, KeptMore
  <2> QED
    BY <1>0, <2>1, <2>2, <2>3 DEF IInv, TypeOK, StoreType, FileOK
<1>9. FlowType'
  BY <1>0 DEF IInv, TypeOK, FlowType
<1>10. FlagType' /\ PastType'
  BY <1>0 DEF IInv, TypeOK, FlagType, PastType
<1>11. EndOK' /\ SplitOK' /\ SettledOK' /\ JudgedOK'
  BY <1>0 DEF IInv, EndOK, SplitOK, SettledOK, JudgedOK, InRound, InBatch, Judging
<1>12. RoundOK'
  BY <1>0, <1>3 DEF RoundOK
<1>13. BatchOK'
  <2>1. written # Len(d) /\ written' = written
    BY <1>0, <1>3 DEF IInv, FileOK, Kept, TypeOK, store
  <2> QED
    BY <1>0, <1>1, <1>2, <1>3, <1>5, <2>1 DEF BatchOK, slot, Rows
<1>14. TypeOK'
  BY <1>4, <1>8, <1>9, <1>10, TypePartsNext
<1> QED
  BY <1>4, <1>6, <1>7, <1>8, <1>11, <1>12, <1>13, <1>14 DEF IInv

\* Where a batch is: the call at at, and its result in the last slot.
LEMMA InABatch ==
    ASSUME IInv, pc \in InBatch, NEW n, n = conv[at].call
    PROVE  /\ conv \in Seq(SlotType) /\ Len(conv) \in Nat /\ Len(conv) <= Cap /\ slot = Len(conv) /\ slot \in 1..Len(conv)
           /\ IsCall(conv, at) /\ at \in DOMAIN conv /\ at < slot /\ RoundFrom(conv, at, left, did)
           /\ IsResult(conv, slot) /\ conv[slot].call = n /\ Rows = conv[slot].rows /\ Rows \in 0..Steps
           /\ n \in Call /\ n \in 1..calls /\ did \in [Call -> 0..Steps] /\ calls \in Nat
           /\ Good(conv, left, calls) /\ ~Waits(conv, at)
<1>1. /\ conv \in Seq(SlotType) /\ Len(conv) \in Nat /\ Len(conv) <= Cap /\ slot = Len(conv)
      /\ IsCall(conv, at) /\ at \in DOMAIN conv /\ RoundFrom(conv, at, left, did) /\ Good(conv, left, calls)
      /\ IsResult(conv, slot) /\ conv[slot].call = n /\ Rows = conv[slot].rows
      /\ did \in [Call -> 0..Steps]
  <2>1. RoundFrom(conv, at, left, did) /\ IsCall(conv, at)
    BY DEF IInv, RoundOK, InRound, InBatch
  <2>2. IsResult(conv, slot) /\ conv[slot].call = conv[at].call
    BY DEF IInv, BatchOK
  <2> QED
    BY <2>1, <2>2 DEF IInv, TypeOK, ConvOK, slot, Rows, IsCall
<1>2. slot \in 1..Len(conv) /\ slot \in DOMAIN conv /\ conv[slot] \in SlotType
  BY <1>1 DEF IsResult
<1>3. Rows \in 0..Steps
  BY <1>1, <1>2 DEF SlotType
<1>4. n \in Call /\ n \in 1..calls /\ calls \in Nat
  BY <1>1, CallNumber
<1>5. at # slot
  BY <1>1 DEF IsCall, IsResult
<1>6. at < slot
  BY <1>1, <1>2, <1>5 DEF Good, Unique
<1>7. ~Waits(conv, at)
  BY <1>1, <1>2, <1>6 DEF Waits
<1> QED
  BY <1>1, <1>2, <1>3, <1>4, <1>6, <1>7

LEMMA BatchRunStep == ASSUME IInv, BatchRun PROVE IInv'
<1> DEFINE n == conv[at].call
<1>0. /\ pc = "batch" /\ pc' = "batch_ran" /\ Rows < Steps /\ did' = [did EXCEPT ![conv[slot].call] = @ + 1]
      /\ blocked' \in {FALSE, oneShot}
      /\ UNCHANGED <<conv, store, pending, handoff, left>>
      /\ UNCHANGED <<keep, rc, at, asked, seen, title, sigint, oneShot, lapsed, calls, crashes>>
  BY DEF BatchRun, UnchangedCall
<1>1. /\ conv \in Seq(SlotType) /\ Len(conv) \in Nat /\ slot = Len(conv) /\ slot \in 1..Len(conv)
      /\ IsCall(conv, at) /\ at \in DOMAIN conv /\ RoundFrom(conv, at, left, did)
      /\ IsResult(conv, slot) /\ conv[slot].call = n /\ Rows = conv[slot].rows /\ Rows \in 0..Steps
      /\ n \in Call /\ n \in 1..calls /\ did \in [Call -> 0..Steps] /\ calls \in Nat
      /\ Good(conv, left, calls)
  BY <1>0, InABatch DEF InBatch
<1>2. conv[slot].what = "running" /\ did[n] = Rows /\ (written = slot => file[slot].what = "running")
  BY <1>0, <1>1 DEF IInv, BatchOK, InBatch
<1> HIDE DEF n
<1>3. \A c \in Call : did'[c] = IF c = n THEN Rows + 1 ELSE did[c]
  BY <1>0, <1>1, <1>2
<1>4. PastType'
  <2>1. did' \in [Call -> 0..Steps]
    BY <1>0, <1>1, <1>2, Sizes
  <2> QED
    BY <1>0, <2>1 DEF IInv, TypeOK, PastType
<1>5. FlowType'
  BY <1>0 DEF IInv, TypeOK, FlowType
<1>6. FlagType'
  BY <1>0 DEF IInv, TypeOK, FlagType
<1>7. ConvType' /\ StoreType' /\ FileOK' /\ ConvOK'
  BY <1>0 DEF IInv, TypeOK, ConvType, StoreType, FileOK, Kept, store, ConvOK
<1>8. blocked' => oneShot
  BY <1>0
<1>9. EndOK' /\ SplitOK' /\ SettledOK' /\ JudgedOK'
  <2>1. EndOK'
    BY <1>0, <1>8 DEF IInv, EndOK
  <2> QED
    BY <1>0, <2>1 DEF SplitOK, SettledOK, JudgedOK, InRound, InBatch, Judging
<1>10. RoundOK'
  <2>1. did' = [did EXCEPT ![conv[at].call] = did[conv[slot].call] + 1]
    BY <1>0, <1>1 DEF n
  <2>2. RoundFrom(conv, at, left, did')
    BY <1>1, <2>1, RoundDid
  <2> QED
    BY <1>0, <1>1, <2>2 DEF RoundOK
<1>11. BatchOK'
  <2>1. /\ slot' = slot /\ Rows' = Rows /\ conv' = conv /\ UNCHANGED <<file, written>> /\ did'[n] = Rows + 1
        /\ at' = at
    BY <1>0, <1>1, <1>3 DEF slot, Rows, store
  <2> QED
    BY <1>0, <1>1, <1>2, <2>1 DEF BatchOK, n
<1>12. FreshOK'
  <2> SUFFICES ASSUME NEW c \in Call, c > calls PROVE did'[c] = 0
    BY <1>0 DEF FreshOK
  <2>1. c # n /\ did[c] = 0
    BY <1>1 DEF IInv, FreshOK
  <2> QED
    BY <1>3, <2>1
<1>13. RowsOK'
  <2> SUFFICES ASSUME NEW i \in DOMAIN conv PROVE RowOK(conv[i], did', lapsed)
    BY <1>0 DEF RowsOK
  <2>1. RowOK(conv[i], did, lapsed)
    BY DEF IInv, RowsOK
  <2>2. CASE conv[i].role = "result" /\ i # slot
    <3>1. IsResult(conv, i)
      BY <2>2 DEF IsResult
    <3>2. conv[i].call # n /\ conv[i].call \in Call
      BY <1>1, <2>2, <3>1, CallNumber DEF Good, Unique
    <3> QED
      BY <1>3, <2>1, <3>2 DEF RowOK
  <2>3. CASE conv[i].role # "result"
    BY <2>1, <2>3 DEF RowOK
  <2>4. CASE i = slot
    <3>1. did'[n] = Rows + 1 /\ conv[i].rows = Rows /\ conv[i].what = "running" /\ conv[i].call = n
      BY <1>1, <1>2, <1>3, <2>4
    <3> QED
      BY <1>1, <2>1, <3>1 DEF RowOK
  <2> QED
    BY <2>2, <2>3, <2>4
<1>14. TypeOK'
  BY <1>4, <1>5, <1>6, <1>7, TypePartsNext
<1> QED
  BY <1>7, <1>9, <1>10, <1>11, <1>12, <1>13, <1>14 DEF IInv

\* A conversation in which only what is in the slots changes.
LEMMA SameShape ==
    ASSUME NEW c \in Seq(SlotType), NEW d \in Seq(SlotType), Len(d) = Len(c), Shaped(d, c),
           NEW a, NEW S, NEW D, NEW n, Good(c, S, n), RoundFrom(c, a, S, D), IsCall(c, a), ~Waits(c, a)
    PROVE  Good(d, S, n) /\ RoundFrom(d, a, S, D) /\ IsCall(d, a) /\ ~Waits(d, a)
<1>0. /\ DOMAIN c = 1..Len(c) /\ DOMAIN d = 1..Len(d) /\ Len(c) \in Nat /\ Len(d) \in Nat
      /\ DOMAIN d = DOMAIN c
  OBVIOUS
<1>1. \A i \in DOMAIN c : /\ IsCall(d, i) <=> IsCall(c, i)
                          /\ IsResult(d, i) <=> IsResult(c, i)
                          /\ RoundStart(d, i) <=> RoundStart(c, i)
                          /\ d[i].call = c[i].call
  BY <1>0 DEF Shaped, IsCall, IsResult, RoundStart
<1>2. Good(d, S, n)
  BY GoodShaped
<1>3. \A i \in DOMAIN c : Waits(d, i) <=> Waits(c, i)
  BY <1>0, <1>1 DEF Waits
<1>4. \A m : NoResult(c, m) => NoResult(d, m)
  BY <1>0, <1>1 DEF NoResult
<1>5. a \in DOMAIN c /\ \A j \in a..Len(c) : j \in DOMAIN c /\ \A m \in a..j : m \in DOMAIN c
  BY <1>0 DEF IsCall
<1>6. RoundFrom(d, a, S, D)
  <2>1. a \in 1..Len(d) + 1 /\ \A j \in a..Len(d) : ~RoundStart(d, j)
    BY <1>0, <1>1, <1>5 DEF RoundFrom
  <2>2. \A j \in a..Len(d) : IsCall(d, j) => \A m \in a..j : IsCall(d, m)
    BY <1>0, <1>1, <1>5 DEF RoundFrom
  <2>3. \A j \in a..Len(d) : IsCall(d, j) /\ j > a => D[d[j].call] = 0 /\ NoResult(d, d[j].call)
    BY <1>0, <1>1, <1>4, <1>5 DEF RoundFrom
  <2>4. \A i \in DOMAIN d : Waits(d, i) /\ d[i].call \notin S => i >= a
    BY <1>0, <1>1, <1>3 DEF RoundFrom
  <2> QED
    BY <2>1, <2>2, <2>3, <2>4 DEF RoundFrom
<1> QED
  BY <1>1, <1>2, <1>3, <1>5, <1>6

\* The last slot, the batch's result, becomes x.
LEMMA SlotBecomes ==
    ASSUME IInv, pc \in InBatch, NEW x \in SlotType, x.role = "result", x.call = conv[at].call,
           NEW d, d = [conv EXCEPT ![slot] = x]
    PROVE  /\ d \in Seq(SlotType) /\ Len(d) = slot /\ Len(d) <= Cap /\ d[slot] = x
           /\ \A i \in 1..slot - 1 : d[i] = conv[i]
           /\ Good(d, left, calls) /\ RoundFrom(d, at, left, did) /\ IsCall(d, at) /\ ~Waits(d, at)
           /\ IsResult(d, slot) /\ at \in DOMAIN d /\ d[at].call = x.call
           /\ \A i \in DOMAIN d : i # slot => i \in DOMAIN conv /\ d[i] = conv[i]
<1>1. /\ conv \in Seq(SlotType) /\ Len(conv) \in Nat /\ Len(conv) <= Cap /\ slot = Len(conv) /\ slot \in 1..Len(conv)
      /\ IsCall(conv, at) /\ at \in DOMAIN conv /\ at < slot /\ RoundFrom(conv, at, left, did)
      /\ IsResult(conv, slot) /\ conv[slot].call = conv[at].call
      /\ Good(conv, left, calls) /\ ~Waits(conv, at)
  BY InABatch
<1>2. /\ d \in Seq(SlotType) /\ Len(d) = Len(conv) /\ d[slot] = x
      /\ \A i \in 1..Len(conv) : i # slot => d[i] = conv[i]
  BY <1>1
<1>3. Shaped(d, conv)
  <2> SUFFICES ASSUME NEW i \in 1..Len(conv) PROVE d[i].role = conv[i].role /\ d[i].call = conv[i].call
    BY <1>1, <1>2 DEF Shaped
  <2> QED
    BY <1>1, <1>2 DEF IsResult
<1>4. Good(d, left, calls) /\ RoundFrom(d, at, left, did) /\ IsCall(d, at) /\ ~Waits(d, at)
  BY <1>1, <1>2, <1>3, SameShape
<1>5. IsResult(d, slot) /\ at \in DOMAIN d /\ d[at].call = x.call
  BY <1>1, <1>2 DEF IsResult
<1>6. \A i \in DOMAIN d : i # slot => i \in DOMAIN conv /\ d[i] = conv[i]
  BY <1>1, <1>2
<1>7. \A i \in 1..slot - 1 : d[i] = conv[i]
  BY <1>1, <1>2
<1> QED
  BY <1>1, <1>2, <1>4, <1>5, <1>6, <1>7

\* Each slot but the last is what it was, and the last one is right.
LEMMA RowsBut ==
    ASSUME RowsOK, UNCHANGED <<did, lapsed>>, NEW d, conv' = d, NEW s,
           \A i \in DOMAIN d : i # s => i \in DOMAIN conv /\ d[i] = conv[i], RowOK(d[s], did, lapsed)
    PROVE  RowsOK'
BY DEF RowsOK

\* SaveProgress of the batch's result, changed in memory.
LEMMA SlotSaved ==
    ASSUME IInv, pc \in InBatch, NEW d \in Seq(SlotType), Len(d) = slot, Len(d) <= Cap,
           \A i \in 1..slot - 1 : d[i] = conv[i], IsResult(d, slot), d[slot].call = conv[slot].call,
           conv' = d, SaveProgress(d, slot)
    PROVE  StoreType' /\ FileOK'
<1>1. /\ conv \in Seq(SlotType) /\ Len(conv) \in Nat /\ slot = Len(conv) /\ slot \in 1..Len(conv)
      /\ IsResult(conv, slot) /\ conv[slot].call \in Call /\ Unique(conv)
  BY InABatch DEF Good
<1>2. written \in Nat /\ written <= Len(conv) /\ Len(file) = written
  BY DEF IInv, TypeOK, FileOK, Kept
<1>3. CASE written < slot /\ Save(d)
  <2>1. \A i \in 1..written : d[i] = conv[i]
    BY <1>1, <1>2, <1>3
  <2> QED
    BY <1>1, <1>2, <1>3, <2>1, SaveFile DEF IInv
<1>4. CASE ~(written < slot) /\ Update(d, slot)
  <2>1. written = slot /\ file[slot].what = "running"
    BY <1>1, <1>2, <1>4 DEF IInv, BatchOK
  <2> QED
    BY <1>1, <1>4, <2>1, UpdateFile DEF IInv
<1> QED
  BY <1>3, <1>4 DEF SaveProgress

LEMMA BatchProgressStep == ASSUME IInv, BatchProgress PROVE IInv'
<1> DEFINE n == conv[at].call
           x == [conv[slot] EXCEPT !.rows = @ + 1]
           d == [conv EXCEPT ![slot] = x]
<1>0. /\ pc = "batch_ran" /\ pc' \in {"batch", "batch_end"} /\ (blocked => pc' = "batch_end")
      /\ conv' = d /\ SaveProgress(d, slot)
      /\ UNCHANGED <<pending, blocked, handoff, did, left>>
      /\ UNCHANGED <<keep, rc, at, asked, seen, title, sigint, oneShot, lapsed, calls, crashes>>
  BY DEF BatchProgress, UnchangedCall
<1>1. /\ conv \in Seq(SlotType) /\ Len(conv) \in Nat /\ slot = Len(conv) /\ slot \in 1..Len(conv)
      /\ IsResult(conv, slot) /\ conv[slot].call = n /\ Rows = conv[slot].rows /\ Rows \in 0..Steps
      /\ n \in Call /\ did \in [Call -> 0..Steps]
  BY <1>0, InABatch DEF InBatch
<1>2. conv[slot].what = "running" /\ did[n] = Rows + 1
  BY <1>0, <1>1 DEF IInv, BatchOK, InBatch
<1>3. conv[slot] \in SlotType /\ Rows + 1 \in 0..Steps
  <2>1. did[n] \in 0..Steps
    BY <1>1
  <2> QED
    BY <1>1, <1>2, <2>1
<1>4. x \in SlotType /\ x.role = "result" /\ x.call = n /\ x.what = "running" /\ x.rows = Rows + 1
  BY <1>1, <1>2, <1>3 DEF SlotType, IsResult
<1> HIDE DEF x, n
<1>5. /\ d \in Seq(SlotType) /\ Len(d) = slot /\ Len(d) <= Cap /\ d[slot] = x
      /\ \A i \in 1..slot - 1 : d[i] = conv[i]
      /\ Good(d, left, calls) /\ RoundFrom(d, at, left, did) /\ IsCall(d, at) /\ ~Waits(d, at)
      /\ IsResult(d, slot) /\ at \in DOMAIN d /\ d[at].call = x.call
      /\ \A i \in DOMAIN d : i # slot => i \in DOMAIN conv /\ d[i] = conv[i]
  <2>1. pc \in InBatch
    BY <1>0 DEF InBatch
  <2>2. d = [conv EXCEPT ![slot] = x]
    OBVIOUS
  <2>3. x \in SlotType /\ x.role = "result" /\ x.call = conv[at].call
    BY <1>4 DEF n
  <2> HIDE DEF d
  <2> QED
    BY <2>1, <2>2, <2>3, SlotBecomes, ZenonT(60)
<1> HIDE DEF d
<1>6. StoreType' /\ FileOK'
  BY <1>0, <1>1, <1>4, <1>5, SlotSaved DEF InBatch
<1>7. ConvType' /\ ConvOK'
  BY <1>0, <1>5 DEF ConvType, ConvOK
<1>8. RowsOK'
  <2>1. RowOK(d[slot], did, lapsed)
    BY <1>1, <1>2, <1>4, <1>5 DEF RowOK
  <2> QED
    BY <1>0, <1>5, <2>1, RowsBut DEF IInv
<1>9. FreshOK'
  BY <1>0 DEF IInv, FreshOK
<1>10. FlowType'
  BY <1>0 DEF IInv, TypeOK, FlowType
<1>11. FlagType' /\ PastType'
  BY <1>0 DEF IInv, TypeOK, FlagType, PastType
<1>12. EndOK' /\ SplitOK' /\ SettledOK' /\ JudgedOK'
  BY <1>0 DEF IInv, EndOK, SplitOK, SettledOK, JudgedOK, InRound, InBatch, Judging
<1>13. RoundOK'
  BY <1>0, <1>5 DEF RoundOK
<1>14. BatchOK'
  <2>1. slot' = slot /\ Rows' = Rows + 1 /\ conv'[slot] = x
    BY <1>0, <1>1, <1>4, <1>5 DEF slot, Rows
  <2>2. written' = slot => file'[slot].what = "running"
    BY <1>0, <1>1, <1>4, <1>5, <1>6 DEF FileOK, Kept
  <2> QED
    BY <1>0, <1>2, <1>4, <1>5, <2>1, <2>2 DEF BatchOK
<1>15. TypeOK'
  BY <1>6, <1>7, <1>10, <1>11, TypePartsNext
<1> QED
  BY <1>6, <1>7, <1>8, <1>9, <1>12, <1>13, <1>14, <1>15 DEF IInv

LEMMA BatchUnstoredStep == ASSUME IInv, BatchUnstored PROVE IInv'
<1> DEFINE n == conv[at].call
           x == [conv[slot] EXCEPT !.what = "unstored"]
           d == [conv EXCEPT ![slot] = x]
<1>0. /\ pc \in InBatch /\ (pc = "batch_end" => conv[slot].what = "running") /\ pc' = "batch_end"
      /\ conv' = d
      /\ UNCHANGED <<store, pending, blocked, handoff, did, left>>
      /\ UNCHANGED <<keep, rc, at, asked, seen, title, sigint, oneShot, lapsed, calls, crashes>>
  BY DEF BatchUnstored, UnchangedCall, InBatch
<1>1. /\ conv \in Seq(SlotType) /\ Len(conv) \in Nat /\ slot = Len(conv) /\ slot \in 1..Len(conv)
      /\ IsResult(conv, slot) /\ conv[slot].call = n /\ Rows = conv[slot].rows /\ Rows \in 0..Steps
      /\ n \in Call /\ did \in [Call -> 0..Steps]
  BY <1>0, InABatch
<1>2. conv[slot].what = "running" /\ did[n] \in {Rows, Rows + 1} /\ (written = slot => file[slot].what = "running")
  BY <1>0, <1>1 DEF IInv, BatchOK, InBatch
<1>3. conv[slot] \in SlotType
  BY <1>1
<1>4. x \in SlotType /\ x.role = "result" /\ x.call = n /\ x.what = "unstored" /\ x.rows = Rows
  BY <1>1, <1>3 DEF SlotType, IsResult
<1> HIDE DEF x, n
<1>5. /\ d \in Seq(SlotType) /\ Len(d) = slot /\ Len(d) <= Cap /\ d[slot] = x
      /\ \A i \in 1..slot - 1 : d[i] = conv[i]
      /\ Good(d, left, calls) /\ RoundFrom(d, at, left, did) /\ IsCall(d, at)
      /\ IsResult(d, slot) /\ d[at].call = x.call
      /\ \A i \in DOMAIN d : i # slot => i \in DOMAIN conv /\ d[i] = conv[i]
  BY <1>0, <1>4, SlotBecomes DEF n
<1> HIDE DEF d
<1>6. StoreType' /\ FileOK'
  <2>0. UNCHANGED <<file, written, missed, failed, faults>>
    BY <1>0 DEF store
  <2>1. file \in Seq(SlotType) /\ Len(file) = written /\ Kept(file, conv, missed, pc = "batch_end")
    BY DEF IInv, TypeOK, FileOK
  <2>2. Kept(file, d, missed, TRUE)
    <3>1. Len(file) <= Len(d)
      BY <1>1, <1>5, <2>1 DEF Kept
    <3>2. ASSUME NEW i \in 1..Len(file), i # slot
          PROVE  /\ file[i].role = d[i].role /\ file[i].call = d[i].call
                 /\ file[i] = d[i] \/ (IsResult(d, i) /\ file[i].what = "running" /\ d[i].call \in missed)
      <4>1. d[i] = conv[i] /\ i \in DOMAIN d /\ i \in DOMAIN conv /\ i # Len(conv)
        BY <1>1, <1>5, <2>1, <3>2 DEF Kept
      <4> QED
        BY <2>1, <3>2, <4>1 DEF Kept, IsResult
    <3>3. ASSUME slot \in 1..Len(file)
          PROVE  /\ file[slot].role = d[slot].role /\ file[slot].call = d[slot].call
                 /\ IsResult(d, slot) /\ file[slot].what = "running"
                 /\ d[slot].call \in missed \/ file[slot].rows = d[slot].rows
      <4>1. written = slot
        BY <1>1, <2>1, <3>3 DEF Kept
      <4>2. /\ file[slot].role = conv[slot].role /\ file[slot].call = conv[slot].call
            /\ file[slot] = conv[slot] \/ conv[slot].call \in missed \/ file[slot].rows = conv[slot].rows
        BY <2>1, <3>3 DEF Kept
      <4> QED
        BY <1>1, <1>2, <1>4, <1>5, <4>1, <4>2 DEF IsResult
    <3> QED
      BY <1>5, <3>1, <3>2, <3>3 DEF Kept
  <2> QED
    BY <1>0, <2>0, <2>1, <2>2 DEF IInv, TypeOK, StoreType, FileOK
<1>7. ConvType' /\ ConvOK'
  BY <1>0, <1>5 DEF ConvType, ConvOK
<1>8. RowsOK'
  <2>1. RowOK(d[slot], did, lapsed)
    BY <1>4, <1>5 DEF RowOK
  <2> QED
    BY <1>0, <1>5, <2>1, RowsBut DEF IInv
<1>9. FreshOK'
  BY <1>0 DEF IInv, FreshOK
<1>10. FlowType'
  BY <1>0 DEF IInv, TypeOK, FlowType
<1>11. FlagType' /\ PastType'
  BY <1>0 DEF IInv, TypeOK, FlagType, PastType
<1>12. EndOK' /\ SplitOK' /\ SettledOK' /\ JudgedOK'
  BY <1>0 DEF IInv, EndOK, SplitOK, SettledOK, JudgedOK, InRound, InBatch, Judging
<1>13. RoundOK'
  BY <1>0, <1>5 DEF RoundOK
<1>14. BatchOK'
  <2>1. slot' = slot /\ Rows' = Rows /\ conv'[slot] = x /\ UNCHANGED <<file, written>>
    BY <1>0, <1>1, <1>4, <1>5 DEF slot, Rows, store
  <2> QED
    BY <1>0, <1>2, <1>4, <1>5, <2>1 DEF BatchOK
<1>15. TypeOK'
  BY <1>6, <1>7, <1>10, <1>11, TypePartsNext
<1> QED
  BY <1>6, <1>7, <1>8, <1>9, <1>12, <1>13, <1>14, <1>15 DEF IInv

LEMMA BatchOverStep == ASSUME IInv, BatchOver PROVE IInv'
<1>0. /\ pc = "batch" /\ pc' = "batch_end"
      /\ UNCHANGED <<conv, store, pending, blocked, handoff, did, left>>
      /\ UNCHANGED <<keep, rc, at, asked, seen, title, sigint, oneShot, lapsed, calls, crashes>>
  BY DEF BatchOver, UnchangedCall
<1>1. FlowType'
  BY <1>0 DEF IInv, TypeOK, FlowType
<1>2. FlagType'
  BY <1>0 DEF IInv, TypeOK, FlagType
<1>3. TypeOK'
  BY <1>0, <1>1, <1>2, StillTypes DEF IInv, TypeOK
<1>4. ConvOK' /\ FreshOK' /\ RowsOK' /\ FileOK'
  BY <1>0, Still
<1>5. EndOK' /\ SplitOK' /\ SettledOK' /\ JudgedOK'
  BY <1>0 DEF IInv, EndOK, SplitOK, SettledOK, JudgedOK, InRound, InBatch, Judging
<1>6. RoundOK'
  BY <1>0 DEF IInv, RoundOK, InRound, InBatch
<1>7. BatchOK'
  <2>1. slot' = slot /\ Rows' = Rows /\ UNCHANGED <<file, written>>
    BY <1>0 DEF slot, Rows, store
  <2> QED
    BY <1>0, <2>1 DEF IInv, BatchOK, InBatch
<1> QED
  BY <1>3, <1>4, <1>5, <1>6, <1>7 DEF IInv

LEMMA BatchEndStep == ASSUME IInv, BatchEnd PROVE IInv'
<1> DEFINE n == conv[at].call
           w == IF conv[slot].what = "running" THEN "ended" ELSE conv[slot].what
           x == [conv[slot] EXCEPT !.what = w]
           d == [conv EXCEPT ![slot] = x]
<1>0. pc = "batch_end" /\ conv' = d /\ SaveProgress(d, slot) /\ CallOver(d) /\ pc \in InBatch
  BY DEF BatchEnd, InBatch
<1>1. /\ conv \in Seq(SlotType) /\ Len(conv) \in Nat /\ slot = Len(conv) /\ slot \in 1..Len(conv)
      /\ IsResult(conv, slot) /\ conv[slot].call = n /\ Rows = conv[slot].rows /\ Rows \in 0..Steps
      /\ n \in Call /\ did \in [Call -> 0..Steps]
  BY <1>0, InABatch
<1>2. \/ conv[slot].what = "running" /\ did[n] = Rows /\ w = "ended"
      \/ conv[slot].what = "unstored" /\ w = "unstored"
  BY <1>0, <1>1 DEF IInv, BatchOK
<1>3. conv[slot] \in SlotType /\ w \in {"text", "blank", "told", "lost", "running", "ended", "unstored"}
  BY <1>1, <1>2
<1> HIDE DEF w
<1>4. x \in SlotType /\ x.role = "result" /\ x.call = n /\ x.what = w /\ x.rows = Rows
  BY <1>1, <1>3 DEF SlotType, IsResult
<1> HIDE DEF x, n
<1>5. /\ d \in Seq(SlotType) /\ Len(d) = slot /\ Len(d) <= Cap /\ d[slot] = x
      /\ \A i \in 1..slot - 1 : d[i] = conv[i]
      /\ Good(d, left, calls) /\ RoundFrom(d, at, left, did) /\ IsCall(d, at) /\ ~Waits(d, at)
      /\ IsResult(d, slot) /\ at \in DOMAIN d
      /\ \A i \in DOMAIN d : i # slot => i \in DOMAIN conv /\ d[i] = conv[i]
  <2>1. d = [conv EXCEPT ![slot] = x] /\ x.call = conv[at].call
    BY <1>4 DEF n
  <2> HIDE DEF d
  <2> QED
    BY <1>0, <1>4, <2>1, SlotBecomes, ZenonT(30)
<1> HIDE DEF d
<1>6. StoreType' /\ FileOK'
  BY <1>0, <1>1, <1>4, <1>5, SlotSaved
<1>7. UNCHANGED <<did, lapsed>>
  BY <1>0 DEF CallOver
<1>8. RowsOK'
  <2>1. RowOK(d[slot], did, lapsed)
    BY <1>1, <1>2, <1>4, <1>5 DEF RowOK
  <2> QED
    BY <1>0, <1>5, <1>7, <2>1, RowsBut DEF IInv
<1> QED
  BY <1>0, <1>5, <1>6, <1>7, <1>8, CallOverRound

--------------------------------------------------------------------------------
(* The end of a round and of a turn, and a resume *)

LEMMA RoundEndStep == ASSUME IInv, RoundEnd PROVE IInv'
<1>0. /\ pc = "round" /\ pc' \in {"top", "end"} /\ (pending # "continue" => pc' = "end") /\ rc' = "none" /\ at' = 0
      /\ UNCHANGED <<store, keep, pending, blocked, asked, seen, handoff, title, sigint, oneShot,
                     did, left, lapsed, calls, crashes>>
  BY DEF RoundEnd, past
<1>1. Settled(conv, left)
  BY <1>0 DEF IInv, SettledOK, InRound, InBatch, Judging
<1>2. FlowType'
  BY <1>0, Sizes DEF IInv, TypeOK, FlowType
<1>3. FlagType' /\ PastType'
  BY <1>0 DEF IInv, TypeOK, FlagType, PastType
<1>4. EndOK' /\ SplitOK'
  BY <1>0 DEF IInv, EndOK, SplitOK
<1>5. pc' \notin InRound /\ ~Judging'
  BY <1>0 DEF InRound, InBatch, Judging
<1>6. CASE Room(1) /\ conv' = Append(conv, Note)
  <2> DEFINE d == Append(conv, Note)
  <2>1. Note \in SlotType /\ Note.role = "note" /\ Note.what \in Rowless
    BY SlotsTyped DEF Note, Slot, Rowless
  <2>2. ConvType' /\ ConvOK' /\ FreshOK' /\ RowsOK' /\ Settled(conv', left')
    BY <1>0, <1>1, <1>6, <2>1, GrownBy
  <2>3. conv \in Seq(SlotType) /\ Len(conv) \in Nat
    BY DEF IInv, TypeOK
  <2>4. d \in Seq(SlotType) /\ Len(d) = Len(conv) + 1 /\ \A i \in 1..Len(conv) : d[i] = conv[i]
    BY <2>1, <2>3, AppendSlot
  <2> HIDE DEF d
  <2>5. file \in Seq(SlotType) /\ Len(file) = written /\ Kept(file, conv, missed, FALSE)
    BY <1>0 DEF IInv, TypeOK, FileOK
  <2>6. Kept(file, d, missed, FALSE)
    <3>1. \A i \in 1..Len(file) : i \in 1..Len(conv)
      BY <2>3, <2>5 DEF Kept
    <3>2. \A i \in 1..Len(file) : d[i] = conv[i]
      BY <2>4, <3>1
    <3>3. Len(conv) <= Len(d)
      BY <2>3, <2>4
    <3> QED
      BY <2>3, <2>4, <2>5, <3>2, <3>3, KeptMore
  <2>7. UNCHANGED <<file, written, missed, failed, faults>> /\ conv' = d
    BY <1>0, <1>6 DEF store, d
  <2>8. StoreType' /\ FileOK'
    BY <1>0, <2>5, <2>6, <2>7 DEF IInv, TypeOK, StoreType, FileOK
  <2> QED
    BY <1>2, <1>3, <1>4, <1>5, <2>2, <2>8, TypePartsNext, Settles
<1>7. CASE conv' = conv
  BY <1>0, <1>1, <1>2, <1>3, <1>4, <1>5, <1>7, Idle DEF IInv, TypeOK
<1> QED
  BY <1>6, <1>7 DEF RoundEnd

LEMMA TurnEndStep == ASSUME IInv, TurnEnd PROVE IInv'
<1>0. /\ pc = "end" /\ pc' = IF handoff THEN "handoff" ELSE IF oneShot THEN "exit" ELSE "prompt"
      /\ Save(conv)
      /\ keep' = 0 /\ rc' = "none" /\ at' = 0 /\ pending' = "continue" /\ asked' = FALSE /\ seen' = FALSE
      /\ UNCHANGED <<conv, blocked, handoff, title, sigint, oneShot, did, left, lapsed, calls, crashes>>
  BY DEF TurnEnd, past
<1>1. Settled(conv, left) /\ conv \in Seq(SlotType) /\ Len(conv) <= Cap
  BY <1>0 DEF IInv, TypeOK, SettledOK, InRound, InBatch, Judging
<1>2. FlowType'
  BY <1>0, Sizes DEF IInv, TypeOK, FlowType
<1>3. FlagType' /\ PastType'
  BY <1>0 DEF IInv, TypeOK, FlagType, PastType
<1>4. EndOK' /\ SplitOK'
  BY <1>0 DEF IInv, EndOK, SplitOK
<1>5. pc' \notin InRound /\ ~Judging'
  BY <1>0 DEF InRound, InBatch, Judging
<1>6. StoreType' /\ FileOK'
  BY <1>0, <1>1, SaveFile DEF IInv
<1>7. ConvType' /\ ConvOK' /\ FreshOK' /\ RowsOK' /\ Settled(conv', left')
  BY <1>0, <1>1 DEF IInv, ConvType, ConvOK, FreshOK, RowsOK
<1> QED
  BY <1>2, <1>3, <1>4, <1>5, <1>6, <1>7, TypePartsNext, Settles

\* What the transcript says of a batch is right, but for what was missed.
LEMMA FileRows ==
    ASSUME IInv, NEW i \in 1..Len(file)
    PROVE  RowOK(file[i], did, lapsed \cup missed)
<1>1. /\ Kept(file, conv, missed, pc = "batch_end") /\ conv \in Seq(SlotType) /\ file \in Seq(SlotType)
      /\ did \in [Call -> 0..Steps]
  BY DEF IInv, FileOK, TypeOK
<1>2. i \in DOMAIN conv
  BY <1>1 DEF Kept
<1>3. RowOK(conv[i], did, lapsed)
  BY <1>2 DEF IInv, RowsOK
<1>4. CASE file[i] = conv[i]
  BY <1>3, <1>4 DEF RowOK
<1>5. CASE IsResult(conv, i) /\ file[i].what = "running" /\ conv[i].call \in missed
  BY <1>1, <1>5 DEF RowOK, Kept, IsResult
<1>6. CASE IsResult(conv, i) /\ file[i].what = "running" /\ pc = "batch_end" /\ i = Len(conv) /\ file[i].rows = conv[i].rows
  <2>1. conv[i].call \in Call /\ did[conv[i].call] \in {Rows, Rows + 1} /\ Rows = conv[i].rows /\ Rows \in 0..Steps
    BY <1>6, InABatch DEF IInv, BatchOK, InBatch, slot
  <2>2. file[i].role = "result" /\ file[i].call = conv[i].call
    BY <1>1, <1>6 DEF Kept, IsResult
  <2> QED
    BY <1>6, <2>1, <2>2 DEF RowOK
<1> QED
  BY <1>1, <1>4, <1>5, <1>6 DEF Kept

\* The transcript's calls and results are paired like the conversation's.
LEMMA FileGood ==
    ASSUME IInv
    PROVE  /\ file \in Seq(SlotType) /\ Len(file) \in Nat /\ Len(file) <= Cap /\ Good(file, left, calls)
           /\ Unanswered(file) \subseteq Call
<1>1. /\ file \in Seq(SlotType) /\ conv \in Seq(SlotType) /\ Len(file) \in Nat /\ Len(file) <= Cap
      /\ Kept(file, conv, missed, pc = "batch_end") /\ Good(conv, left, calls)
  BY DEF IInv, TypeOK, FileOK, ConvOK
<1>2. Shaped(file, conv)
  BY <1>1 DEF Kept, Shaped
<1>3. Good(file, left, calls)
  BY <1>1, <1>2, GoodShaped
<1>4. ASSUME NEW i \in DOMAIN file, IsCall(file, i) PROVE file[i].call \in Call
  <2>1. file[i].call \in 1..calls
    BY <1>3, <1>4 DEF Good, Numbered
  <2> QED
    BY <2>1, Sizes DEF IInv, TypeOK, Call
<1> QED
  BY <1>1, <1>3, <1>4 DEF Unanswered

\* What a resume reads and adds, with m of the n answers that are missing.
LEMMA RecoveredGood ==
    ASSUME IInv, NEW n \in Nat, NEW ids \in [1..n -> Unanswered(file)], Listed(ids, Unanswered(file))
    PROVE  LET d == Recovered(ids) IN
           /\ d \in Seq(SlotType) /\ Len(d) <= Cap /\ Len(file) <= Len(d) /\ Good(d, left, calls)
           /\ \A i \in 1..Len(file) : d[i] = file[i]
           /\ \A i \in DOMAIN d : i \in 1..Len(file) \/ d[i].what \in Rowless
           /\ Len(d) = Cap \/ Settled(d, left)
<1> DEFINE d == Recovered(ids)
<1>1. /\ file \in Seq(SlotType) /\ Len(file) \in Nat /\ Len(file) <= Cap /\ Good(file, left, calls)
      /\ Unanswered(file) \subseteq Call /\ Cap \in Nat
  BY FileGood, Sizes
<1>2. Len(ids) = n
  OBVIOUS
<1>0. PICK m : m = IF Len(file) + n > Cap THEN Cap - Len(file) ELSE n
  OBVIOUS
<1> DEFINE t == [i \in 1..m |-> Lost(ids[i])]
<1>3. d = file \o t
  BY <1>0, <1>2 DEF Recovered
<1> HIDE DEF d
<1>4. m \in 0..n /\ m \in Nat /\ Len(file) + m <= Cap /\ (Len(file) + m = Cap \/ m = n)
  BY <1>0, <1>1
<1>5. \A i \in 1..m : i \in 1..n /\ ids[i] \in Call
  <2> TAKE i \in 1..m
  <2>1. i \in 1..n
    BY <1>4
  <2>2. ids[i] \in Unanswered(file)
    BY <2>1
  <2> QED
    BY <1>1, <2>1, <2>2
<1>6. t \in Seq(SlotType) /\ Len(t) = m /\ \A i \in 1..m : t[i] = Lost(ids[i])
  <2>1. \A i \in 1..m : ids[i] \in 0..MaxCalls
    BY <1>5, Sizes DEF Call
  <2>2. \A i \in 1..m : Lost(ids[i]) \in SlotType
    BY <2>1, SlotsTyped
  <2>3. t \in [1..m -> SlotType]
    BY <2>2
  <2> HIDE DEF t
  <2>4. t \in Seq(SlotType) /\ Len(t) = m
    BY <1>4, <2>3
  <2> QED
    BY <2>4 DEF t
<1> HIDE DEF t
<1>7. /\ d \in Seq(SlotType) /\ Len(d) = Len(file) + m
      /\ \A i \in 1..Len(file) : d[i] = file[i]
      /\ \A i \in 1..m : d[Len(file) + i] = t[i]
  <2>1. file \in Seq(SlotType) /\ t \in Seq(SlotType)
    BY <1>1, <1>6
  <2>2. /\ file \o t \in Seq(SlotType) /\ Len(file \o t) = Len(file) + Len(t)
        /\ \A i \in 1..Len(file) : (file \o t)[i] = file[i]
        /\ \A i \in 1..Len(t) : (file \o t)[Len(file) + i] = t[i]
    BY <2>1
  <2> QED
    BY <1>3, <1>6, <2>2
<1>8. Len(d) <= Cap /\ Len(file) <= Len(d) /\ Len(d) \in Nat
  BY <1>1, <1>4, <1>7
<1>9. \A j \in 1..m : Len(file) + j \in DOMAIN d /\ d[Len(file) + j] = Lost(ids[j])
  <2> TAKE j \in 1..m
  <2>1. Len(file) + j \in 1..Len(d)
    BY <1>1, <1>4, <1>7
  <2>2. d[Len(file) + j] = t[j] /\ t[j] = Lost(ids[j])
    BY <1>6, <1>7
  <2> QED
    BY <1>7, <2>1, <2>2
<1>10. \A k \in Len(file) + 1..Len(d) : IsResult(d, k) /\ d[k].call = ids[k - Len(file)]
  <2> TAKE k \in Len(file) + 1..Len(d)
  <2>1. k - Len(file) \in 1..m /\ Len(file) + (k - Len(file)) = k
    BY <1>1, <1>4, <1>7
  <2>2. k \in DOMAIN d /\ d[k] = Lost(ids[k - Len(file)])
    BY <1>9, <2>1
  <2> QED
    BY <2>2 DEF IsResult, Lost, Slot
<1>11. Shaped(file, d)
  BY <1>7, <1>8 DEF Shaped
<1>12. Good(d, left, calls) /\ (m = n => Settled(d, left))
  <2>1. /\ file \in Seq(SlotType) /\ d \in Seq(SlotType) /\ Shaped(file, d) /\ calls \in Nat
        /\ m \in 0..n /\ Len(d) = Len(file) + m /\ Good(file, left, calls)
    BY <1>1, <1>4, <1>7, <1>11 DEF IInv, TypeOK
  <2> QED
    BY <1>10, <2>1, GoodRecovered
<1>13. \A i \in DOMAIN d : i \in 1..Len(file) \/ d[i].what \in Rowless
  <2> TAKE i \in DOMAIN d
  <2>1. i \in 1..Len(file) \/ (i - Len(file) \in 1..m /\ Len(file) + (i - Len(file)) = i)
    BY <1>1, <1>4, <1>7
  <2>2. CASE i - Len(file) \in 1..m /\ Len(file) + (i - Len(file)) = i
    <3>1. d[i] = Lost(ids[i - Len(file)])
      BY <1>9, <2>2
    <3> QED
      BY <3>1 DEF Lost, Slot, Rowless
  <2> QED
    BY <2>1, <2>2
<1>14. Len(d) = Cap \/ Settled(d, left)
  BY <1>4, <1>7, <1>12
<1> QED
  BY <1>7, <1>8, <1>12, <1>13, <1>14 DEF d

LEMMA ResumeStep == ASSUME IInv, Resume PROVE IInv'
<1>0. /\ crashes < MaxCrashes /\ crashes' = crashes + 1 /\ missed' = {} /\ lapsed' = lapsed \cup missed
      /\ pc' = "prompt" /\ keep' = 0 /\ rc' = "none" /\ at' = 0 /\ pending' = "continue"
      /\ blocked' = FALSE /\ handoff' = FALSE /\ asked' = FALSE /\ seen' = FALSE
      /\ title' \in {"set", "none"} /\ sigint' = FALSE /\ oneShot' = FALSE
      /\ left' = (IF Len(conv') = Cap THEN left \cup Unanswered(conv') ELSE left)
      /\ did' = did /\ calls' = calls
  BY DEF Resume
<1>1. PICK n \in 0..Len(file) : \E ids \in [1..n -> Unanswered(file)] :
                Listed(ids, Unanswered(file)) /\ conv' = Recovered(ids)
  BY DEF Resume
<1>2. PICK ids \in [1..n -> Unanswered(file)] : Listed(ids, Unanswered(file)) /\ conv' = Recovered(ids)
  BY <1>1
<1> DEFINE d == Recovered(ids)
<1>3. /\ d \in Seq(SlotType) /\ Len(d) <= Cap /\ Len(file) <= Len(d) /\ Good(d, left, calls)
      /\ \A i \in 1..Len(file) : d[i] = file[i]
      /\ \A i \in DOMAIN d : i \in 1..Len(file) \/ d[i].what \in Rowless
      /\ Len(d) = Cap \/ Settled(d, left)
  <2>1. n \in Nat
    BY FileGood
  <2> QED
    BY <1>2, <2>1, RecoveredGood
<1>4. conv' = d
  BY <1>2
<1> HIDE DEF d
<1>5. file \in Seq(SlotType) /\ Len(file) \in Nat /\ Len(file) <= Cap /\ Cap \in Nat /\ Len(d) \in Nat
  BY <1>3, FileGood, Sizes
<1>6. Settled(d, left') /\ left \subseteq left'
  <2>1. CASE Len(d) = Cap
    BY <1>0, <1>3, <1>4, <2>1, SettleAll
  <2>2. CASE Len(d) # Cap
    BY <1>0, <1>3, <1>4, <2>2
  <2> QED
    BY <2>1, <2>2
<1>7. left' \subseteq Call
  <2>1. \A i \in DOMAIN d : IsCall(d, i) => d[i].call \in Call
    <3> TAKE i \in DOMAIN d
    <3>1. IsCall(d, i) => d[i].call \in 1..calls
      BY <1>3 DEF Good, Numbered
    <3> QED
      BY <3>1, Sizes DEF IInv, TypeOK, Call
  <2>2. Unanswered(d) \subseteq Call
    BY <2>1 DEF Unanswered
  <2> QED
    BY <1>0, <1>4, <2>2 DEF IInv, TypeOK
<1>8. ConvType' /\ ConvOK'
  <2>1. Good(d, left', calls)
    BY <1>3, <1>6, GoodMore DEF IInv, TypeOK
  <2> QED
    BY <1>0, <1>3, <1>4, <2>1 DEF ConvType, ConvOK
<1>9. RowsOK'
  <2> SUFFICES ASSUME NEW i \in DOMAIN d PROVE RowOK(d[i], did, lapsed \cup missed)
    BY <1>0, <1>4 DEF RowsOK
  <2>1. CASE i \in 1..Len(file)
    BY <1>3, <2>1, FileRows
  <2>2. CASE d[i].what \in Rowless
    BY <2>2 DEF RowOK, Rowless
  <2> QED
    BY <1>3, <2>1, <2>2
<1>10. FreshOK'
  BY <1>0 DEF IInv, FreshOK
<1>11. StoreType' /\ FileOK'
  <2>1. CASE file' = d /\ written' = Len(d) /\ failed' = FALSE /\ UNCHANGED faults
    <3>1. Len(d) \in 0..Cap
      BY <1>3, <1>5
    <3>2. StoreType'
      BY <1>0, <1>3, <2>1, <3>1 DEF StoreType, IInv, TypeOK
    <3>3. FileOK'
      BY <1>0, <1>3, <1>4, <2>1, KeptSelf DEF FileOK
    <3> QED
      BY <3>2, <3>3
  <2>2. CASE written' = Len(file) /\ Fault /\ UNCHANGED file
    <3>1. Len(file) \in 0..Cap
      BY <1>5
    <3>2. StoreType'
      <4>1. failed' \in BOOLEAN /\ faults' \in 0..MaxFaults
        BY <2>2, FaultType DEF IInv
      <4> QED
        BY <1>0, <1>5, <2>2, <3>1, <4>1 DEF StoreType
    <3>3. FileOK'
      <4>1. Kept(file, d, {}, FALSE)
        BY <1>3 DEF Kept
      <4> QED
        BY <1>0, <1>4, <2>2, <4>1 DEF FileOK
    <3> QED
      BY <3>2, <3>3
  <2> QED
    BY <1>4, <2>1, <2>2 DEF Resume
<1>12. FlowType'
  BY <1>0, Sizes DEF FlowType
<1>13. FlagType' /\ PastType'
  <2>1. FlagType'
    BY <1>0 DEF FlagType
  <2>2. crashes' \in 0..MaxCrashes /\ lapsed' \subseteq Call
    BY <1>0, Sizes DEF IInv, TypeOK
  <2>3. PastType'
    BY <1>0, <1>7, <2>2 DEF PastType, IInv, TypeOK
  <2> QED
    BY <2>1, <2>3
<1>14. EndOK' /\ SplitOK' /\ pc' \notin InRound /\ ~Judging'
  BY <1>0 DEF EndOK, SplitOK, InRound, InBatch, Judging
<1> QED
  BY <1>4, <1>6, <1>8, <1>9, <1>10, <1>11, <1>12, <1>13, <1>14, TypePartsNext, Settles

--------------------------------------------------------------------------------
(* The theorems *)

LEMMA StutterStep == ASSUME IInv, UNCHANGED vars PROVE IInv'
<1>0. UNCHANGED <<conv, store, pc, turn, handoff, title, sigint, oneShot, past, file, written, missed, failed, faults,
                  rc, at, did, left, lapsed, calls, crashes, keep, blocked, pending, asked, seen>>
  BY DEF vars, store, turn, past
<1>1. FlowType'
  BY <1>0 DEF IInv, TypeOK, FlowType
<1>2. FlagType'
  BY <1>0 DEF IInv, TypeOK, FlagType
<1>3. TypeOK'
  BY <1>0, <1>1, <1>2, StillTypes DEF IInv, TypeOK
<1>4. ConvOK' /\ FreshOK' /\ RowsOK' /\ FileOK'
  BY <1>0, Still
<1>5. SettledOK' /\ EndOK' /\ SplitOK' /\ JudgedOK'
  BY <1>0 DEF IInv, SettledOK, EndOK, SplitOK, JudgedOK, Judging
<1>6. RoundOK'
  BY <1>0 DEF IInv, RoundOK
<1>7. BatchOK'
  BY <1>0 DEF IInv, BatchOK, slot, Rows
<1> QED
  BY <1>3, <1>4, <1>5, <1>6, <1>7 DEF IInv

LEMMA NextIInv == IInv /\ [Next]_vars => IInv'
<1> SUFFICES ASSUME IInv, [Next]_vars PROVE IInv'
  OBVIOUS
<1>1. CASE Between
  BY <1>1, SubmitStep, CompactStartStep, ClearStep, RewindStep DEF Between
<1>2. CASE TurnBegin \/ Sigint
  BY <1>2, TurnBeginStep, SigintStep
<1>3. CASE TopInterrupted
  BY <1>3, InterruptedStep DEF TopInterrupted
<1>4. CASE Compact
  <2>1. CASE CompactInterrupted /\ pc # "compacting"
    BY <2>1, InterruptedStep DEF CompactInterrupted
  <2>2. CASE CompactInterrupted /\ pc = "compacting"
    BY <2>2, CompactFailStep
  <2> QED
    BY <1>4, <2>1, <2>2, CompactStartStep, CompactFailStep, CompactDoneStep DEF Compact
<1>5. CASE Request
  BY <1>5, RequestStartStep, ReplyNoneStep, ReplyTextStep, ReplyCallsStep DEF Request
<1>6. CASE Judge
  <2>1. CASE StoredInterrupted
    BY <2>1, InterruptedStep DEF StoredInterrupted
  <2>2. CASE NamingInterrupted
    BY <2>2, InterruptedStep DEF NamingInterrupted
  <2> QED
    BY <1>6, <2>1, <2>2, StoredErrorStep, JudgeStep, JudgeTextStep, JudgeCallsStep DEF Judge
<1>7. CASE CallStep
  BY <1>7, CallStep1, CallRunStep, AnswerStep, CallFullStep, RoundCalledStep DEF CallStep
<1>8. CASE BatchStep
  BY <1>8, BatchStartStep, BatchRunStep, BatchProgressStep, BatchUnstoredStep, BatchOverStep, BatchEndStep
  DEF BatchStep
<1>9. CASE RoundEnd \/ TurnEnd \/ Handoff \/ Resume
  BY <1>9, RoundEndStep, TurnEndStep, HandoffStep, ResumeStep
<1>10. CASE UNCHANGED vars
  BY <1>10, StutterStep
<1> QED
  BY <1>1, <1>2, <1>3, <1>4, <1>5, <1>6, <1>7, <1>8, <1>9, <1>10 DEF Next

\* What holds of the conversation and the transcript at each place of the program.
THEOREM Invariant == Spec => []IInv
BY InitIInv, NextIInv, PTL DEF Spec

\* Neither a conversation nor the transcript of a session outgrows what the code reserves
\* (conv_reserve, tasks of main.c), and the state of the turn keeps its ranges.
THEOREM TypeCorrect == Spec => []TypeOK
<1>1. IInv => TypeOK
  BY DEF IInv
<1> QED
  BY Invariant, <1>1, PTL

\* A replay of the transcript (sess_replay) gives the part of the conversation that counts
\* as written, except for results whose update was refused.
THEOREM SavedAsHeld == Spec => []TranscriptKept
<1>1. IInv => TranscriptKept
  <2> SUFFICES ASSUME IInv PROVE TranscriptKept
    OBVIOUS
  <2>1. Len(file) = written /\ Kept(file, conv, missed, pc = "batch_end")
    BY DEF IInv, FileOK
  <2> QED
    BY <2>1 DEF TranscriptKept, Kept, slot
<1> QED
  BY Invariant, <1>1, PTL

\* A batch's row in the transcript (batch_answer, session_update_tool) is at most a step
\* behind what was executed, and not behind once the batch is over.
THEOREM RowsNearlySaved == Spec => []RowsTrue
<1>1. IInv => RowsTrue
  <2> SUFFICES ASSUME IInv, NEW i \in DOMAIN file
               PROVE  /\ file[i].what = "running" /\ file[i].call \notin missed \cup lapsed =>
                            file[i].rows <= did[file[i].call] /\ did[file[i].call] <= file[i].rows + 1
                      /\ file[i].what = "ended" => file[i].rows = did[file[i].call]
    BY DEF RowsTrue
  <2>1. i \in 1..Len(file)
    BY FileGood
  <2>2. RowOK(file[i], did, lapsed \cup missed)
    BY <2>1, FileRows
  <2> QED
    BY <2>2 DEF RowOK
<1> QED
  BY Invariant, <1>1, PTL

\* A plan approved for a session of its own (submit_plan_answer) is carried out there: no
\* turn comes back to the prompt with it.
THEOREM PlanCarriedOut == Spec => []HandoffKept
<1>1. IInv => HandoffKept
  BY DEF IInv, EndOK, HandoffKept
<1> QED
  BY Invariant, <1>1, PTL

\* No request of provider_run carries a call without its result, or a result without its
\* call, unless the turn of that call was cut short.
THEOREM RequestsPairedUnlessLeft == Spec => []PairedUnlessLeft
<1>1. ASSUME NEW c \in Seq(SlotType), NEW S, NEW n, Good(c, S, n), Settled(c, S) PROVE PairedBut(c, S)
  <2>1. ASSUME NEW i \in DOMAIN c, IsCall(c, i), c[i].call \notin S PROVE \E k \in DOMAIN c : Answers(c, k, i)
    <3>1. ~Waits(c, i)
      BY <1>1, <2>1 DEF Settled
    <3> QED
      BY <1>1, <2>1, <3>1, PairedIn
  <2>2. Paired(c, S)
    BY <1>1 DEF Good
  <2> QED
    BY <2>1, <2>2 DEF PairedBut, Paired
<1>2. IInv => PairedUnlessLeft
  <2> SUFFICES ASSUME IInv PROVE PairedUnlessLeft
    OBVIOUS
  <2>1. conv \in Seq(SlotType) /\ Len(conv) \in Nat /\ Good(conv, left, calls)
    BY DEF IInv, TypeOK, ConvOK
  <2>2. CASE pc = "request"
    <3>1. Settled(conv, left)
      BY <2>2 DEF IInv, SettledOK, InRound, InBatch, Judging
    <3> QED
      BY <1>1, <2>1, <2>2, <3>1 DEF PairedUnlessLeft, Sent
  <2>3. CASE pc \in {"compact", "compacting"}
    <3> DEFINE d == SubSeq(conv, 1, keep - 1)
    <3>1. Settled(conv, left) /\ keep \in 2..Len(conv) + 1 /\ (keep <= Len(conv) => RoundStart(conv, keep))
      BY <2>3 DEF IInv, SettledOK, SplitOK, InRound, InBatch, Judging
    <3>2. d \in Seq(SlotType) /\ Len(d) = keep - 1 /\ \A i \in 1..keep - 1 : d[i] = conv[i]
      BY <2>1, <3>1
    <3>3. Sent = d
      BY <2>3 DEF Sent
    <3> HIDE DEF d
    <3>4. Shaped(d, conv) /\ (Len(d) < Len(conv) => RoundStart(conv, Len(d) + 1))
      <4>1. Len(d) + 1 = keep /\ Len(d) <= Len(conv)
        BY <2>1, <3>1, <3>2
      <4> QED
        BY <2>1, <3>1, <3>2, <4>1 DEF Shaped
    <3>5. Good(d, left, calls) /\ Settled(d, left)
      BY <2>1, <3>1, <3>2, <3>4, GoodShaped, CutSettled
    <3> QED
      BY <1>1, <3>2, <3>3, <3>5 DEF PairedUnlessLeft
  <2>4. CASE pc \notin {"request", "compact", "compacting"}
    <3>1. Sent = <<>> /\ DOMAIN <<>> = {}
      BY <2>4 DEF Sent
    <3> QED
      BY <3>1 DEF PairedUnlessLeft, PairedBut
  <2> QED
    BY <2>2, <2>3, <2>4
<1> QED
  BY Invariant, <1>2, PTL

\* After a denial in a run with -p (permission_blocked_one_shot) nothing more is executed
\* and nothing more is sent.
THEOREM DenialEndsRun == Spec => DenialStops
<1>1. ASSUME IInv, [Next]_vars PROVE [blocked /\ blocked' => did' = did /\ pc' # "request"]_vars
  <2> SUFFICES ASSUME Next, blocked PROVE did' = did /\ pc' # "request"
    BY <1>1
  <2>0. pc \in {"answer", "batch_ran", "batch_end", "round", "end", "exit"}
    BY <1>1 DEF IInv, EndOK
  <2>1. CASE Between \/ TurnBegin \/ Sigint \/ TopInterrupted
    BY <2>0, <2>1 DEF Between, Submit, CompactCommand, Clear, Rewind, TurnBegin, Sigint, TopInterrupted, past
  <2>2. CASE Compact \/ Request
    BY <2>0, <2>2 DEF Compact, CompactStart, CompactFail, CompactInterrupted, CompactDone,
                      Request, RequestStart, ReplyNone, ReplyText, ReplyCalls, Interrupted
  <2>3. CASE Judge
    BY <2>0, <2>3 DEF Judge, StoredInterrupted, StoredError, StoredOk, NamingInterrupted, NamingDone,
                      JudgeText, JudgeCalls
  <2>4. CASE CallStep
    BY <2>0, <2>4 DEF CallStep, CallRefused, CallRun, CallDenied, CallPlan, CallAsk, AtCall, Answer, CallOver,
                      CallFull, Full, RoundCalled
  <2>5. CASE BatchStep
    BY <2>0, <2>5 DEF BatchStep, BatchStart, AtCall, BatchRun, BatchProgress, BatchUnstored, BatchOver,
                      BatchEnd, CallOver
  <2>6. CASE RoundEnd \/ TurnEnd \/ Handoff \/ Resume
    BY <2>0, <2>6 DEF RoundEnd, TurnEnd, Handoff, Resume, past
  <2> QED
    BY <2>1, <2>2, <2>3, <2>4, <2>5, <2>6 DEF Next
<1> QED
  BY Invariant, <1>1, PTL DEF Spec, DenialStops
================================================================================

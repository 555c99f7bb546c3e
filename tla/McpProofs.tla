------------------------------ MODULE McpProofs ------------------------------
(***************************************************************************)
(* Theorems about the clients of MCP servers, for any servers and any      *)
(* number of processes, ids, edits, commands and pages. The inductive      *)
(* invariant says of each server what its process and its buffer may hold: *)
(* no answer has an id that was not given out yet. A process that was      *)
(* replaced without being stopped leaves its lines in the buffer, and they *)
(* are no answers because the next request has a new id.                   *)
(***************************************************************************)
EXTENDS Mcp, SequenceTheorems, WellFoundedInduction, TLAPS

Status  == {"none", "pending", "unapproved", "rejected", "disabled", "failed", "ready", "removed"}
Methods == {"discover", "initialize", "initialized", "list", "call", "read"}
Places  == {"idle", "refresh", "send", "read", "posted", "quit"}
Purpose == {"none", "refresh", "restart"}
Life    == {"none", "runs", "dead", "gone"}

EntryRec == [print : 0..MaxDeeds, kind : {"on", "off", "bad"}]
SrvRec   == [status : Status, pid : 0..MaxProcs, broken : BOOLEAN, print : 0..MaxDeeds, next : 0..MaxIds,
             tools : BOOLEAN, session : BOOLEAN, buf : Seq(Item), half : 0..MaxProcs]
ProcRec  == [st : Life, torn : BOOLEAN, asked : SUBSET (1..MaxIds), out : Seq(Item), of : Server]
RqRec    == [pc : Places, s : Server, what : Methods \cup {"none"}, id : 0..MaxIds, for : Purpose,
             again : Methods \cup {"none"}, resent : BOOLEAN, page : Nat, did : BOOLEAN, ran : Nat]

FilesOK == /\ conf \in [Server -> EntryRec] /\ known \in [Server -> 0..MaxDeeds] /\ noticed \in BOOLEAN
           /\ edits \in Nat /\ uses \in Nat /\ edits + uses <= MaxDeeds /\ bad \in Nat

StateOK == /\ wire \in [Server -> [http : BOOLEAN, project : BOOLEAN]]
           /\ srv \in [Server -> SrvRec] /\ mproc \in [Pid -> ProcRec] /\ rq \in RqRec /\ mbreak \in BOOLEAN

--------------------------------------------------------------------------------
\* No answer of L has an id above n.
Issued(L, n) == \A k \in DOMAIN L : L[k].k \in {"ok", "error"} => L[k].id <= n

\* A process is of the server that holds it, and answers only what that server asked.
Serves(s, n, q) == /\ q.st # "none" /\ q.of = s
                   /\ \A id \in q.asked : id <= n
                   /\ Issued(q.out, n)

\* A server, over HTTP or not, as v and the processes as pr.
SrvSound(http, s, v, pr) ==
    /\ http => v.pid = 0
    /\ v.pid # 0 => Serves(s, v.next, pr[v.pid])
    /\ Issued(v.buf, v.next)

\* What a process wrote has its name.
Speaks(p, q) == \A k \in DOMAIN q.out : q.out[k].from = p

\* A server that is ready has a process, until the program ends.
Served(http, v, pc) == v.status = "ready" /\ ~http /\ pc # "quit" => v.pid # 0

\* The operation under way with its server, as v.
Asking(r, http, v) ==
    /\ r.pc \in {"send", "read", "posted"} => r.what # "none"
    /\ r.pc \in {"send", "read", "posted"} /\ ~http => v.pid # 0
    /\ r.pc = "read" =>
          /\ ~http /\ r.id = v.next
          /\ \A k \in DOMAIN v.buf : IsAnswer(v.buf[k], r.id) => v.buf[k].from = v.pid

\* A call ran only while its answer is awaited.
Once(r) == /\ r.ran <= 1
           /\ r.ran # 0 => r.what = "call" /\ r.pc \in {"read", "posted"}
           /\ r.pc = "posted" /\ ~r.did => r.ran = 0

ServersOK == /\ \A s \in Server : SrvSound(wire[s].http, s, srv[s], mproc) /\ Served(wire[s].http, srv[s], rq.pc)
             /\ \A p \in Pid : Speaks(p, mproc[p])

IInv == FilesOK /\ StateOK /\ ServersOK /\ Asking(rq, wire[rq.s].http, srv[rq.s]) /\ Once(rq)

LEMMA Sizes == /\ MaxProcs \in Nat /\ MaxIds \in Nat \ {0} /\ MaxDeeds \in Nat \ {0} /\ MaxBad \in Nat /\ MaxPages \in Nat
               /\ Server # {}
BY McpAssumption

LEMMA ItemsAre ==
    ASSUME NEW L \in Seq(Item), NEW k \in DOMAIN L
    PROVE  L[k] \in Item /\ L[k].id \in Nat
<1>1. L[k] \in Item
  OBVIOUS
<1>2. \A i \in Item : i.id \in Nat
  BY Sizes DEF Item
<1> QED
  BY <1>1, <1>2

LEMMA NothingIs == Nothing \in RqRec /\ Nothing.pc = "idle" /\ Nothing.ran = 0 /\ Nothing.what = "none"
                   /\ (CHOOSE s \in Server : TRUE) \in Server
BY Sizes DEF Nothing, RqRec, Places, Methods, Purpose

LEMMA FreshIs == /\ Fresh \in SrvRec /\ Fresh.pid = 0 /\ Fresh.buf = <<>> /\ Fresh.status = "none" /\ Fresh.half = 0
BY Sizes DEF Fresh, SrvRec, Status

LEMMA NoServerIs == /\ NoServer \in ProcRec /\ NoServer.st = "none" /\ NoServer.out = <<>> /\ NoServer.asked = {}
BY Sizes, NothingIs DEF NoServer, ProcRec, Life

LEMMA EmptyIssued == ASSUME NEW n PROVE Issued(<<>>, n)
BY DEF Issued

LEMMA Initially == McpInit => IInv
<1> SUFFICES ASSUME McpInit PROVE IInv
  OBVIOUS
<1>1. FilesOK
  <2>1. [NoEntry EXCEPT !.print = 1] \in EntryRec
    BY Sizes DEF EntryRec, NoEntry
  <2>2. conf \in [Server -> EntryRec]
    BY <2>1, Zenon DEF McpInit
  <2>3. /\ known \in [Server -> 0..MaxDeeds] /\ noticed \in BOOLEAN
        /\ edits \in Nat /\ uses \in Nat /\ edits + uses <= MaxDeeds /\ bad \in Nat
    <3>1. known = [s \in Server |-> 0] /\ noticed = FALSE /\ edits = 1 /\ uses = 0 /\ bad = 0
      BY DEF McpInit
    <3>2. 0 \in 0..MaxDeeds /\ 1 <= MaxDeeds
      BY Sizes
    <3>3. known \in [Server -> 0..MaxDeeds]
      BY <3>1, <3>2
    <3>4. edits \in Nat /\ uses \in Nat /\ edits + uses <= MaxDeeds /\ bad \in Nat
      BY <3>1, <3>2
    <3> QED
      BY <3>1, <3>3, <3>4
  <2> QED
    BY <2>2, <2>3 DEF FilesOK
<1>2. StateOK
  BY NothingIs, FreshIs, NoServerIs DEF McpInit, StateOK
<1>3. ServersOK
  BY FreshIs, NoServerIs, NothingIs, EmptyIssued DEF McpInit, ServersOK, SrvSound, Served, Speaks
<1>4. Asking(rq, wire[rq.s].http, srv[rq.s]) /\ Once(rq)
  BY NothingIs DEF McpInit, Asking, Once
<1> QED
  BY <1>1, <1>2, <1>3, <1>4 DEF IInv
--------------------------------------------------------------------------------
(***************************************************************************)
(* What follows a request, whatever it was.                                *)
(***************************************************************************)
\* The server stays as v, or its process is stopped; a request that follows is to the same one.
Kept(v, pr, w, pr2)       == w.pid = v.pid /\ w.buf = v.buf /\ pr2 = pr
Down(http, v, pr, w, pr2) == ~http /\ w.pid = 0 /\ w.buf = <<>> /\ w.status # "ready" /\ pr2 = LessProcess(pr, v)
Follows(r, r2)            == /\ r2 \in RqRec /\ r2.pc \in {"send", "idle", "refresh"}
                             /\ r2.pc = "send" => r2.s = r.s /\ r2.what # "none"
                             /\ r2.ran # 0 => r.ran # 0 /\ r.what # "call"

Outcome(http, v, pr, w, pr2, r2) ==
    /\ w \in SrvRec /\ w.next = v.next /\ Follows(rq, r2)
    /\ Kept(v, pr, w, pr2) \/ (Down(http, v, pr, w, pr2) /\ r2.pc # "send")

Effect(v, pr) == \E w : srv' = [srv EXCEPT ![rq.s] = w] /\ Outcome(wire[rq.s].http, v, pr, w, mproc', rq')

LEMMA Takes ==
    ASSUME NEW v, NEW pr, NEW w, NEW pr2, NEW r2,
           Next1(w, pr2, r2), Outcome(wire[rq.s].http, v, pr, w, pr2, r2)
    PROVE  Effect(v, pr)
BY DEF Next1, Effect

LEMMA GoFollows ==
    ASSUME rq \in RqRec, NEW m \in Methods, rq.what # "call"
    PROVE  Follows(rq, Go(m))
BY DEF Follows, Go, RqRec, Places, Methods

LEMMA EndFollows == Follows(rq, Nothing) /\ Follows(rq, Connected) /\ Connected.pc # "send" /\ Nothing.pc # "send"
<1>1. Connected \in RqRec /\ Connected.pc \in {"idle", "refresh"} /\ Connected.ran = 0
  BY NothingIs DEF Connected, RqRec, Places, Purpose, Nothing
<1> QED
  BY <1>1, NothingIs DEF Follows

LEMMA StoppedIs ==
    ASSUME NEW s, NEW v \in SrvRec, wire[s].http \in BOOLEAN, wire[s].http => v.pid = 0
    PROVE  /\ Stopped(s, v) \in SrvRec /\ Stopped(s, v).next = v.next
           /\ wire[s].http => Stopped(s, v).buf = v.buf
           /\ Stopped(s, v).pid = 0
           /\ v.pid # 0 => Stopped(s, v).buf = <<>> /\ ~wire[s].http
           /\ v.pid = 0 => Stopped(s, v).buf = v.buf
<1>1. CASE wire[s].http
  BY <1>1 DEF Stopped, SrvRec
<1>2. CASE ~wire[s].http /\ v.pid = 0
  BY <1>2 DEF Stopped
<1>3. CASE ~wire[s].http /\ v.pid # 0
  <2>1. <<>> \in Seq(Item) /\ 0 \in 0..MaxProcs
    BY Sizes
  <2>2. Closed(v) \in SrvRec /\ Closed(v).next = v.next /\ Closed(v).pid = 0 /\ Closed(v).buf = <<>>
    BY <2>1 DEF Closed, SrvRec
  <2> QED
    BY <1>3, <2>2 DEF Stopped
<1> QED
  BY <1>1, <1>2, <1>3

LEMMA Fails ==
    ASSUME StateOK, NEW v \in SrvRec, wire[rq.s].http => v.pid = 0, NEW pr, NEW r2,
           Next1([Stopped(rq.s, v) EXCEPT !.status = "failed"], LessProcess(pr, v), r2),
           Follows(rq, r2), r2.pc # "send"
    PROVE  Effect(v, pr)
<1> DEFINE x == Stopped(rq.s, v)
           w == [x EXCEPT !.status = "failed"]
<1>1. wire[rq.s].http \in BOOLEAN
  BY DEF StateOK, RqRec
<1>2. /\ x \in SrvRec /\ x.next = v.next /\ x.pid = 0
      /\ v.pid # 0 => x.buf = <<>> /\ ~wire[rq.s].http
      /\ v.pid = 0 => x.buf = v.buf
  BY <1>1, StoppedIs
<1> HIDE DEF x
<1>3. w \in SrvRec /\ w.next = v.next /\ w.pid = 0 /\ w.buf = x.buf /\ w.status # "ready"
  BY <1>2 DEF SrvRec, Status
<1>4. v.pid = 0 => LessProcess(pr, v) = pr
  BY DEF LessProcess
<1> HIDE DEF w
<1>5. Outcome(wire[rq.s].http, v, pr, w, LessProcess(pr, v), r2)
  BY <1>2, <1>3, <1>4 DEF Outcome, Kept, Down
<1> QED
  BY <1>5, Takes DEF w, x

LEMMA Stays ==
    ASSUME NEW v \in SrvRec, NEW pr, NEW r2, Next1(v, pr, r2), Follows(rq, r2)
    PROVE  Effect(v, pr)
<1>1. Outcome(wire[rq.s].http, v, pr, v, pr, r2)
  BY DEF Outcome, Kept
<1> QED
  BY <1>1, Takes

LEMMA ConnectFailsEffect ==
    ASSUME StateOK, NEW v \in SrvRec, wire[rq.s].http => v.pid = 0, NEW pr, ConnectFails(v, pr)
    PROVE  Effect(v, pr)
BY Fails, EndFollows DEF ConnectFails

LEMMA AfterDiscoverEffect ==
    ASSUME StateOK, NEW v \in SrvRec, wire[rq.s].http => v.pid = 0, NEW pr, rq.what # "call",
           NEW ok, NEW modern, NEW legacy, AfterDiscover(v, pr, ok, modern, legacy)
    PROVE  Effect(v, pr)
<1>1. rq \in RqRec /\ Follows(rq, Go("list")) /\ Follows(rq, Go("initialize"))
  BY GoFollows DEF StateOK, Methods
<1>2. \/ Next1(v, pr, Go("list")) \/ Next1(v, pr, Go("initialize")) \/ ConnectFails(v, pr)
  BY DEF AfterDiscover
<1> QED
  BY <1>1, <1>2, Stays, ConnectFailsEffect

LEMMA AfterUseEffect ==
    ASSUME StateOK, NEW v \in SrvRec, wire[rq.s].http => v.pid = 0, NEW pr, NEW what, NEW ok, AfterUse(what, v, pr, ok)
    PROVE  Effect(v, pr)
<1>1. \/ Next1([Stopped(rq.s, v) EXCEPT !.status = "failed"], LessProcess(pr, v), Nothing)
      \/ Next1(v, pr, Nothing)
  BY DEF AfterUse
<1> QED
  BY <1>1, Fails, Stays, EndFollows


LEMMA AfterListEffect ==
    ASSUME StateOK, NEW v \in SrvRec, wire[rq.s].http => v.pid = 0, NEW pr, rq.what # "call",
           NEW ok, AfterList(v, pr, ok)
    PROVE  Effect(v, pr)
<1> DEFINE next == [Go("list") EXCEPT !.page = @ + 1, !.resent = FALSE]
           some == [v EXCEPT !.tools = TRUE]
           all  == [v EXCEPT !.tools = TRUE, !.status = "ready"]
           less == [v EXCEPT !.tools = FALSE]
<1>1. Follows(rq, next)
  <2>1. Go("list") \in RqRec /\ Go("list").pc = "send" /\ Go("list").s = rq.s /\ Go("list").what = "list"
        /\ Go("list").ran = rq.ran
    BY DEF StateOK, Go, RqRec, Places, Methods
  <2>2. next \in RqRec /\ next.pc = "send" /\ next.s = rq.s /\ next.what = "list" /\ next.ran = rq.ran
    <3> DEFINE g == Go("list")
               h == g.page + 1
    <3>1. g \in RqRec /\ h \in Nat
      BY <2>1 DEF RqRec
    <3>2. next = [g EXCEPT !.page = h, !.resent = FALSE]
      OBVIOUS
    <3> HIDE DEF g, h, next
    <3>3. next \in RqRec /\ next.pc = g.pc /\ next.s = g.s /\ next.what = g.what /\ next.ran = g.ran
      BY <3>1, <3>2 DEF RqRec
    <3> QED
      BY <2>1, <3>3 DEF g
  <2> QED
    BY <2>2 DEF Follows
<1>2. /\ some \in SrvRec /\ some.pid = v.pid /\ some.buf = v.buf /\ some.next = v.next
      /\ all \in SrvRec /\ all.pid = v.pid /\ all.buf = v.buf /\ all.next = v.next
      /\ less \in SrvRec /\ less.pid = v.pid /\ less.buf = v.buf /\ less.next = v.next
  BY DEF SrvRec, Status
<1>3. \/ Next1(some, pr, next) \/ Next1(all, pr, Connected) \/ ConnectFails(less, pr)
  BY DEF AfterList
<1> HIDE DEF next, some, all, less
<1>4. CASE Next1(some, pr, next)
  <2>1. Outcome(wire[rq.s].http, v, pr, some, pr, next)
    BY <1>1, <1>2 DEF Outcome, Kept
  <2> QED
    BY <1>4, <2>1, Takes
<1>5. CASE Next1(all, pr, Connected)
  <2>1. Outcome(wire[rq.s].http, v, pr, all, pr, Connected)
    BY <1>2, EndFollows DEF Outcome, Kept
  <2> QED
    BY <1>5, <2>1, Takes
<1>6. CASE ConnectFails(less, pr)
  <2>1. Effect(less, pr)
    BY <1>2, <1>6, ConnectFailsEffect
  <2> QED
    BY <1>2, <2>1 DEF Effect, Outcome, Kept, Down, LessProcess
<1> QED
  BY <1>3, <1>4, <1>5, <1>6

LEMMA AfterHelloEffect ==
    ASSUME StateOK, NEW v \in SrvRec, wire[rq.s].http => v.pid = 0, NEW pr, rq.what # "call",
           NEW ok, AfterHello(v, pr, ok)
    PROVE  Effect(v, pr)
<1> DEFINE again == [Go(rq.again) EXCEPT !.again = "none", !.resent = TRUE]
           less  == [v EXCEPT !.tools = FALSE]
<1>1. /\ Follows(rq, Go("list"))
      /\ rq.again # "none" => Follows(rq, again)
  <2>1. rq \in RqRec /\ "list" \in Methods
    BY DEF StateOK, Methods
  <2>2. rq.again # "none" => Follows(rq, again)
    BY <2>1 DEF Follows, Go, RqRec, Places
  <2> QED
    BY <2>1, <2>2, GoFollows
<1>2. less \in SrvRec /\ less.pid = v.pid /\ less.buf = v.buf /\ less.next = v.next
  BY DEF SrvRec
<1>3. \/ Next1(v, pr, Go("list"))
      \/ rq.again # "none" /\ Next1(v, pr, again)
      \/ AfterUse(rq.again, v, pr, FALSE)
      \/ ConnectFails(v, pr) \/ ConnectFails(less, pr)
  BY DEF AfterHello
<1> HIDE DEF again, less
<1>4. ConnectFails(less, pr) => Effect(v, pr)
  <2>1. ConnectFails(less, pr) => Effect(less, pr)
    BY <1>2, ConnectFailsEffect
  <2> QED
    BY <1>2, <2>1 DEF Effect, Outcome, Kept, Down, LessProcess
<1> QED
  BY <1>1, <1>3, <1>4, Stays, AfterUseEffect, ConnectFailsEffect

LEMMA After1Effect ==
    ASSUME StateOK, NEW v \in SrvRec, wire[rq.s].http => v.pid = 0, NEW pr, rq.what # "none",
           NEW ok \in BOOLEAN, NEW modern, NEW legacy, After1(v, pr, ok, modern, legacy)
    PROVE  Effect(v, pr)
<1>1. rq \in RqRec /\ rq.what \in Methods
  BY DEF StateOK, RqRec
<1>2. CASE rq.what = "discover"
  BY <1>2, AfterDiscoverEffect DEF After1
<1>3. CASE rq.what = "initialize"
  <2>1. Next1(v, pr, Go("initialized")) \/ AfterHello(v, pr, FALSE)
    BY <1>3 DEF After1
  <2>2. Follows(rq, Go("initialized"))
    BY <1>1, <1>3, GoFollows DEF Methods
  <2> QED
    BY <1>3, <2>1, <2>2, Stays, AfterHelloEffect
<1>4. CASE rq.what = "initialized"
  BY <1>4, AfterHelloEffect DEF After1
<1>5. CASE rq.what = "list"
  BY <1>5, AfterListEffect DEF After1
<1>6. CASE rq.what \in {"call", "read"}
  BY <1>6, AfterUseEffect DEF After1
<1> QED
  BY <1>1, <1>2, <1>3, <1>4, <1>5, <1>6 DEF Methods

--------------------------------------------------------------------------------
(***************************************************************************)
(* A step of one server and of processes that are no other server's.       *)
(***************************************************************************)
Spared(s, pr) == \A p \in Pid : mproc[p].st # "none" /\ mproc[p].of # s => pr[p] = mproc[p]

LEMMA PidIs == Pid \subseteq Nat /\ \A n \in 0..MaxProcs : n # 0 => n \in Pid
BY Sizes DEF Pid

LEMMA OthersSound ==
    ASSUME StateOK, ServersOK, NEW s \in Server, NEW pr, Spared(s, pr), NEW t \in Server, t # s
    PROVE  SrvSound(wire[t].http, t, srv[t], pr)
<1>1. SrvSound(wire[t].http, t, srv[t], mproc)
  BY DEF ServersOK
<1>2. CASE srv[t].pid = 0
  BY <1>1, <1>2 DEF SrvSound
<1>3. CASE srv[t].pid # 0
  <2>1. srv[t].pid \in Pid
    BY <1>3, PidIs DEF StateOK, SrvRec
  <2>2. mproc[srv[t].pid].st # "none" /\ mproc[srv[t].pid].of = t
    BY <1>1, <1>3 DEF SrvSound, Serves
  <2>3. pr[srv[t].pid] = mproc[srv[t].pid]
    BY <2>1, <2>2 DEF Spared
  <2> QED
    BY <1>1, <2>3 DEF SrvSound
<1> QED
  BY <1>2, <1>3

LEMMA OneServer ==
    ASSUME StateOK, ServersOK, rq.pc # "quit", NEW s \in Server, NEW v \in SrvRec, NEW pr \in [Pid -> ProcRec],
           Spared(s, pr), SrvSound(wire[s].http, s, v, pr), \A p \in Pid : Speaks(p, pr[p]),
           v.status = "ready" /\ ~wire[s].http => v.pid # 0,
           srv' = [srv EXCEPT ![s] = v], mproc' = pr, wire' = wire
    PROVE  ServersOK' /\ srv' \in [Server -> SrvRec] /\ mproc' \in [Pid -> ProcRec]
<1>1. srv \in [Server -> SrvRec]
  BY DEF StateOK
<1>2. srv'[s] = v /\ \A t \in Server : t # s => srv'[t] = srv[t]
  BY <1>1
<1>3. \A t \in Server : SrvSound(wire[t].http, t, srv'[t], pr)
  BY <1>2, OthersSound
<1>4. \A t \in Server : Served(wire[t].http, srv'[t], rq'.pc)
  <2>1. \A t \in Server : Served(wire[t].http, srv[t], rq.pc)
    BY DEF ServersOK
  <2> QED
    BY <1>2, <2>1 DEF Served
<1>5. ServersOK'
  BY <1>3, <1>4 DEF ServersOK
<1>6. srv' \in [Server -> SrvRec]
  BY <1>1
<1> QED
  BY <1>5, <1>6

LEMMA After1Keeps ==
    ASSUME IInv, rq.pc \in {"send", "read", "posted"}, NEW v \in SrvRec, NEW pr \in [Pid -> ProcRec],
           Spared(rq.s, pr), SrvSound(wire[rq.s].http, rq.s, v, pr), \A p \in Pid : Speaks(p, pr[p]),
           ~wire[rq.s].http => v.pid # 0,
           NEW ok \in BOOLEAN, NEW modern, NEW legacy, After1(v, pr, ok, modern, legacy),
           UNCHANGED <<wire, mbreak>>
    PROVE  StateOK' /\ ServersOK' /\ Asking(rq, wire[rq.s].http, srv[rq.s])' /\ Once(rq)'
<1> DEFINE http == wire[rq.s].http
<1>0. StateOK /\ ServersOK /\ rq \in RqRec /\ rq.s \in Server /\ rq.pc # "quit" /\ rq.what # "none"
  BY DEF IInv, StateOK, Asking, RqRec
<1>1. http => v.pid = 0
  BY DEF SrvSound
<1>2. Effect(v, pr)
  BY <1>0, <1>1, After1Effect
<1>3. PICK w : srv' = [srv EXCEPT ![rq.s] = w] /\ Outcome(http, v, pr, w, mproc', rq')
  BY <1>2 DEF Effect
<1>4. w \in SrvRec /\ w.next = v.next /\ Follows(rq, rq')
  BY <1>3 DEF Outcome
<1>5. CASE Kept(v, pr, w, mproc')
  <2>1. mproc' = pr /\ w.pid = v.pid /\ w.buf = v.buf
    BY <1>5 DEF Kept
  <2>2. SrvSound(http, rq.s, w, pr)
    BY <1>4, <2>1 DEF SrvSound
  <2>3. ServersOK' /\ srv' \in [Server -> SrvRec] /\ mproc' \in [Pid -> ProcRec]
    BY <1>0, <1>3, <1>4, <2>1, <2>2, OneServer
  <2>4. rq'.pc = "send" => rq'.s = rq.s /\ rq'.what # "none" /\ srv'[rq.s].pid = v.pid
    BY <1>0, <1>3, <1>4, <2>1 DEF Follows, StateOK
  <2> QED
    BY <1>4, <2>3, <2>4 DEF Asking, Follows, IInv, StateOK, Once
<1>6. CASE Down(http, v, pr, w, mproc') /\ rq'.pc # "send"
  <2>1. /\ ~http /\ v.pid # 0 /\ w.pid = 0 /\ w.buf = <<>> /\ w.status # "ready"
        /\ mproc' = [pr EXCEPT ![v.pid] = Gone(@)]
    BY <1>6 DEF Down, LessProcess
  <2>2. v.pid \in Pid
    BY <2>1, PidIs DEF SrvRec
  <2>3. pr[v.pid].of = rq.s /\ pr[v.pid] \in ProcRec
    BY <2>1, <2>2 DEF SrvSound, Serves
  <2>4. Gone(pr[v.pid]) \in ProcRec /\ Gone(pr[v.pid]).out = <<>>
    BY <2>3, NoServerIs DEF Gone, ProcRec, Life
  <2>5. mproc' \in [Pid -> ProcRec] /\ mproc'[v.pid] = Gone(pr[v.pid]) /\ \A p \in Pid : p # v.pid => mproc'[p] = pr[p]
    BY <2>1, <2>2, <2>4
  <2>6. Spared(rq.s, mproc')
    <3>1. mproc[v.pid].st = "none" \/ mproc[v.pid].of = rq.s
      BY <2>2, <2>3 DEF Spared
    <3> QED
      BY <2>5, <3>1 DEF Spared
  <2>7. \A p \in Pid : Speaks(p, mproc'[p])
    BY <2>4, <2>5 DEF Speaks
  <2>8. SrvSound(http, rq.s, w, mproc')
    BY <2>1, EmptyIssued DEF SrvSound
  <2>9. ServersOK' /\ srv' \in [Server -> SrvRec]
    BY <1>0, <1>3, <1>4, <2>1, <2>5, <2>6, <2>7, <2>8, OneServer
  <2> QED
    BY <1>4, <1>6, <2>5, <2>9 DEF Asking, Follows, IInv, StateOK, Once
<1> QED
  BY <1>3, <1>5, <1>6 DEF Outcome

--------------------------------------------------------------------------------
(***************************************************************************)
(* Requests over a pipe.                                                   *)
(***************************************************************************)
\* Every line of L2 is one of L.
Among(L2, L) == \A k \in DOMAIN L2 : \E j \in DOMAIN L : L2[k] = L[j]

\* A process that got a message, or whose lines were read: it was asked no more than n.
Told(q, q2, n) == /\ q2 \in ProcRec /\ q2.st = q.st /\ q2.of = q.of /\ Among(q2.out, q.out)
                  /\ \A id \in q2.asked : id \in q.asked \/ id = n

LEMMA SameAmong == ASSUME NEW L PROVE Among(L, L)
BY DEF Among

LEMMA PartAmong ==
    ASSUME NEW L \in Seq(Item), NEW a \in 1..(Len(L) + 1), NEW b \in 0..Len(L)
    PROVE  SubSeq(L, a, b) \in Seq(Item) /\ Among(SubSeq(L, a, b), L)
<1>1. SubSeq(L, a, b) \in Seq(Item)
  BY SubSeqProperties
<1>2. \A k \in DOMAIN SubSeq(L, a, b) : a + k - 1 \in DOMAIN L /\ SubSeq(L, a, b)[k] = L[a + k - 1]
  OBVIOUS
<1> QED
  BY <1>1, <1>2 DEF Among

LEMMA TailAmong == ASSUME NEW L \in Seq(Item), L # <<>> PROVE Tail(L) \in Seq(Item) /\ Among(Tail(L), L)
<1>1. \A k \in DOMAIN Tail(L) : k + 1 \in DOMAIN L /\ Tail(L)[k] = L[k + 1]
  OBVIOUS
<1> QED
  BY <1>1 DEF Among

LEMMA AmongIssued == ASSUME NEW L, NEW L2, NEW n, Among(L2, L), Issued(L, n) PROVE Issued(L2, n)
BY DEF Among, Issued

LEMMA WholeIs ==
    ASSUME StateOK, NEW p \in Pid, NEW id \in 0..MaxIds
    PROVE  \A n : id \in {0, n} => Told(mproc[p], Whole(p, id), n)
<1>1. mproc[p] \in ProcRec
  BY DEF StateOK
<1>2. id # 0 => id \in 1..MaxIds
  BY Sizes
<1> QED
  BY <1>1, <1>2, SameAmong DEF Whole, Told, ProcRec

LEMMA CutIs == ASSUME StateOK, NEW p \in Pid, NEW q \in Cut(p) PROVE \A n : Told(mproc[p], q, n)
<1>1. mproc[p] \in ProcRec
  BY DEF StateOK
<1> QED
  BY <1>1, SameAmong DEF Cut, Told, ProcRec

LEMMA SameTold == ASSUME StateOK, NEW p \in Pid PROVE \A n : Told(mproc[p], mproc[p], n)
BY SameAmong DEF StateOK, Told

\* The server as v, later than it was, and its process, which was told something.
LEMMA ToldSound ==
    ASSUME StateOK, ServersOK, NEW s \in Server, ~wire[s].http, srv[s].pid \in Pid,
           NEW v \in SrvRec, v.pid = srv[s].pid, srv[s].next <= v.next, Issued(v.buf, v.next),
           NEW q, Told(mproc[v.pid], q, v.next), NEW pr, pr = [mproc EXCEPT ![v.pid] = q]
    PROVE  /\ pr \in [Pid -> ProcRec] /\ Spared(s, pr) /\ SrvSound(wire[s].http, s, v, pr)
           /\ \A p \in Pid : Speaks(p, pr[p])
<1>1. mproc \in [Pid -> ProcRec] /\ srv[s] \in SrvRec /\ v.pid \in Pid /\ v.pid # 0
  BY DEF StateOK, Pid
<1>2. Serves(s, srv[s].next, mproc[v.pid])
  BY <1>1 DEF ServersOK, SrvSound
<1>3. pr \in [Pid -> ProcRec] /\ pr[v.pid] = q /\ \A p \in Pid : p # v.pid => pr[p] = mproc[p]
  BY <1>1 DEF Told
<1>4. Spared(s, pr)
  BY <1>2, <1>3 DEF Spared, Serves
<1>5. \A p \in Pid : Speaks(p, pr[p])
  <2>1. Speaks(v.pid, mproc[v.pid]) /\ Among(q.out, mproc[v.pid].out)
    BY <1>1 DEF ServersOK, Told
  <2>2. Speaks(v.pid, q)
    BY <2>1 DEF Speaks, Among
  <2> QED
    BY <1>3, <2>2 DEF ServersOK
<1>6. Serves(s, v.next, q)
  <2>1. srv[s].next \in Nat /\ v.next \in Nat
    BY <1>1, Sizes DEF SrvRec
  <2>2. \A id \in q.asked : id <= v.next
    <3> SUFFICES ASSUME NEW id \in q.asked PROVE id <= v.next
      OBVIOUS
    <3>1. id \in 1..MaxIds /\ (id \in mproc[v.pid].asked \/ id = v.next)
      BY DEF Told, ProcRec
    <3>2. id \in mproc[v.pid].asked => id <= srv[s].next
      BY <1>2 DEF Serves
    <3> QED
      BY <2>1, <3>1, <3>2
  <2>3. Issued(q.out, v.next)
    <3>1. Among(q.out, mproc[v.pid].out) /\ q.out \in Seq(Item)
      BY DEF Told, ProcRec
    <3>2. \A k \in DOMAIN q.out : q.out[k].id \in Nat
      BY <3>1, ItemsAre
    <3>3. Issued(q.out, srv[s].next)
      BY <1>2, <3>1, AmongIssued DEF Serves
    <3> QED
      BY <2>1, <3>2, <3>3 DEF Issued
  <2> QED
    BY <1>2, <2>2, <2>3 DEF Serves, Told
<1> QED
  BY <1>3, <1>4, <1>5, <1>6 DEF SrvSound

\* The server and its process while a request goes on.
LEMMA Piped ==
    ASSUME IInv, rq.pc \in {"send", "read"}, ~wire[rq.s].http
    PROVE  /\ StateOK /\ ServersOK /\ rq \in RqRec /\ rq.s \in Server /\ rq.what \in Methods /\ srv[rq.s] \in SrvRec
           /\ srv[rq.s].pid \in Pid /\ srv[rq.s].pid # 0
           /\ srv[rq.s].next \in Nat /\ Issued(srv[rq.s].buf, srv[rq.s].next)
<1>1. StateOK /\ ServersOK /\ rq \in RqRec /\ rq.s \in Server /\ rq.what # "none" /\ srv[rq.s].pid # 0
  BY DEF IInv, StateOK, Asking, RqRec
<1>2. srv[rq.s] \in SrvRec /\ rq.what \in Methods
  BY <1>1 DEF StateOK, RqRec
<1>3. srv[rq.s].pid \in Pid /\ srv[rq.s].next \in Nat
  BY <1>1, <1>2, PidIs, Sizes DEF SrvRec
<1> QED
  BY <1>1, <1>2, <1>3 DEF ServersOK, SrvSound

\* What such a step leaves to show.
Rest == StateOK /\ ServersOK /\ Asking(rq, wire[rq.s].http, srv[rq.s]) /\ Once(rq)

\* The request is over, or goes on with another message.
LEMMA PipedAfter ==
    ASSUME IInv, rq.pc \in {"send", "read"}, ~wire[rq.s].http, UNCHANGED <<wire, mbreak>>,
           NEW v \in SrvRec, v.pid = srv[rq.s].pid, srv[rq.s].next <= v.next, Issued(v.buf, v.next),
           NEW q, Told(mproc[v.pid], q, v.next), NEW ok \in BOOLEAN, NEW modern, NEW legacy,
           After1(v, [mproc EXCEPT ![v.pid] = q], ok, modern, legacy)
    PROVE  Rest'
<1> DEFINE pr == [mproc EXCEPT ![v.pid] = q]
<1>1. /\ StateOK /\ ServersOK /\ rq.s \in Server /\ srv[rq.s].pid \in Pid /\ srv[rq.s].pid # 0
  BY Piped
<1>2. /\ pr \in [Pid -> ProcRec] /\ Spared(rq.s, pr) /\ SrvSound(wire[rq.s].http, rq.s, v, pr)
      /\ \A p \in Pid : Speaks(p, pr[p])
  BY <1>1, ToldSound
<1>3. After1(v, pr, ok, modern, legacy)
  OBVIOUS
<1> HIDE DEF pr
<1> QED
  BY <1>1, <1>2, <1>3, After1Keeps DEF Rest

\* The server when a message was numbered.
LEMMA NumberedIs ==
    ASSUME IInv, rq.pc = "send", ~wire[rq.s].http, srv[rq.s].next < MaxIds
    PROVE  /\ Numbered \in SrvRec /\ Numbered.pid = srv[rq.s].pid /\ Numbered.buf = srv[rq.s].buf
           /\ srv[rq.s].next <= Numbered.next /\ Numbered.next \in 0..MaxIds
           /\ rq.what # "initialized" => Numbered.next = srv[rq.s].next + 1
           /\ Numbered.status = srv[rq.s].status /\ Issued(Numbered.buf, Numbered.next)
<1> DEFINE v == srv[rq.s]
           n == v.next + 1
           w == [v EXCEPT !.next = n]
<1>1. v \in SrvRec /\ v.next \in Nat /\ Issued(v.buf, v.next) /\ v.next < MaxIds /\ rq.what \in Methods
  BY Piped
<1>2. n \in 0..MaxIds /\ v.next <= n
  BY <1>1, Sizes
<1>3. Numbered = IF rq.what = "initialized" THEN v ELSE w
  BY DEF Numbered
<1>4. Issued(v.buf, n)
  <2>1. v.buf \in Seq(Item)
    BY <1>1 DEF SrvRec
  <2>2. \A k \in DOMAIN v.buf : v.buf[k].id \in Nat
    BY <2>1, ItemsAre
  <2>3. n = v.next + 1
    OBVIOUS
  <2> HIDE DEF v, n, w
  <2> QED
    BY <1>1, <2>2, <2>3 DEF Issued
<1>5. n = v.next + 1
  OBVIOUS
<1> HIDE DEF n
<1>6. w \in SrvRec /\ w.pid = v.pid /\ w.buf = v.buf /\ w.next = n /\ w.status = v.status
  BY <1>1, <1>2 DEF SrvRec
<1> HIDE DEF w
<1>7. v.next \in 0..MaxIds
  BY <1>1 DEF SrvRec
<1> HIDE DEF v
<1>8. CASE rq.what = "initialized"
  BY <1>1, <1>3, <1>7, <1>8 DEF v
<1>9. CASE rq.what # "initialized"
  BY <1>1, <1>2, <1>3, <1>4, <1>5, <1>6, <1>9 DEF v
<1> QED
  BY <1>8, <1>9

\* The request is on its way: no line of the buffer has its id.
LEMMA SentKeeps ==
    ASSUME IInv, rq.pc = "send", ~wire[rq.s].http, srv[rq.s].next < MaxIds, rq.what # "initialized",
           NEW q, Told(mproc[srv[rq.s].pid], q, Numbered.next),
           srv' = [srv EXCEPT ![rq.s] = Numbered], mproc' = [mproc EXCEPT ![srv[rq.s].pid] = q],
           NEW n \in {rq.ran, rq.ran + 1}, n # rq.ran => rq.what = "call",
           rq' = [rq EXCEPT !.pc = "read", !.id = Numbered.next, !.ran = n],
           UNCHANGED <<wire, mbreak>>
    PROVE  Rest'
<1>1. /\ StateOK /\ ServersOK /\ rq \in RqRec /\ rq.s \in Server /\ rq.what \in Methods
      /\ srv[rq.s].pid \in Pid /\ srv[rq.s].pid # 0 /\ srv[rq.s].next \in Nat
      /\ Issued(srv[rq.s].buf, srv[rq.s].next) /\ srv[rq.s] \in SrvRec
  BY Piped
<1>2. /\ Numbered \in SrvRec /\ Numbered.pid = srv[rq.s].pid /\ Numbered.buf = srv[rq.s].buf
      /\ srv[rq.s].next <= Numbered.next /\ Numbered.next \in 0..MaxIds
      /\ Numbered.next = srv[rq.s].next + 1 /\ Issued(Numbered.buf, Numbered.next)
  BY NumberedIs
<1>3. /\ mproc' \in [Pid -> ProcRec] /\ Spared(rq.s, mproc') /\ SrvSound(wire[rq.s].http, rq.s, Numbered, mproc')
      /\ \A p \in Pid : Speaks(p, mproc'[p])
  BY <1>1, <1>2, ToldSound
<1>4. ServersOK' /\ srv' \in [Server -> SrvRec]
  BY <1>1, <1>2, <1>3, OneServer
<1>5. rq.ran = 0 /\ n \in {0, 1}
  BY <1>1 DEF IInv, Once, RqRec
<1>6. /\ rq' \in RqRec /\ rq'.pc = "read" /\ rq'.s = rq.s /\ rq'.what = rq.what /\ rq'.id = Numbered.next /\ rq'.ran = n
  <2>1. rq \in RqRec /\ Numbered.next \in 0..MaxIds /\ n \in Nat
    BY <1>1, <1>2, <1>5
  <2> DEFINE i == Numbered.next
             r == rq
             r2 == rq'
  <2>2. r \in RqRec /\ i \in 0..MaxIds /\ r2 = [r EXCEPT !.pc = "read", !.id = i, !.ran = n]
    BY <2>1
  <2> HIDE DEF i, r, r2
  <2>3. r2 \in RqRec /\ r2.pc = "read" /\ r2.s = r.s /\ r2.what = r.what /\ r2.id = i /\ r2.ran = n
    BY <2>1, <2>2 DEF RqRec, Places
  <2> QED
    BY <2>3 DEF i, r, r2
<1>7. Once(rq')
  BY <1>5, <1>6 DEF Once
<1>8. \A k \in DOMAIN Numbered.buf : ~IsAnswer(Numbered.buf[k], Numbered.next)
  <2> SUFFICES ASSUME NEW k \in DOMAIN srv[rq.s].buf, IsAnswer(srv[rq.s].buf[k], Numbered.next) PROVE FALSE
    BY <1>2
  <2>1. srv[rq.s].buf[k].id <= srv[rq.s].next /\ srv[rq.s].buf[k].id = Numbered.next
    BY <1>1 DEF Issued, IsAnswer
  <2> QED
    BY <1>1, <1>2, <2>1
<1>9. srv'[rq.s] = Numbered
  BY <1>1 DEF StateOK
<1>10. Asking(rq', wire[rq.s].http, Numbered)
  BY <1>1, <1>2, <1>6, <1>8, Zenon DEF Asking, Methods
<1>11. Asking(rq', wire'[rq'.s].http, srv'[rq'.s])
  BY <1>6, <1>9, <1>10
<1>12. StateOK'
  BY <1>1, <1>3, <1>4, <1>6 DEF StateOK
<1> QED
  BY <1>4, <1>7, <1>11, <1>12 DEF Rest

LEMMA StdioSendKeeps == ASSUME IInv, StdioSend PROVE Rest'
<1> DEFINE v == Numbered
           p == v.pid
           id == IF rq.what = "initialized" THEN 0 ELSE v.next
<1>1. /\ rq.pc = "send" /\ ~wire[rq.s].http /\ srv[rq.s].next < MaxIds /\ UNCHANGED <<wire, mbreak>>
  BY DEF StdioSend
<1>2. /\ StateOK /\ ServersOK /\ rq \in RqRec /\ rq.s \in Server /\ srv[rq.s].pid \in Pid /\ srv[rq.s].next \in Nat
  BY <1>1, Piped
<1>3. /\ v \in SrvRec /\ p = srv[rq.s].pid /\ srv[rq.s].next <= v.next /\ v.next \in 0..MaxIds
      /\ Issued(v.buf, v.next) /\ p \in Pid /\ id \in 0..MaxIds
  BY <1>1, <1>2, NumberedIs, Sizes
<1>4. \/ /\ id = 0 /\ After1(v, [mproc EXCEPT ![p] = Whole(p, 0)], TRUE, FALSE, FALSE)
      \/ /\ id # 0 /\ srv' = [srv EXCEPT ![rq.s] = v] /\ mproc' = [mproc EXCEPT ![p] = Whole(p, id)]
         /\ rq' = [rq EXCEPT !.pc = "read", !.id = id,
                             !.ran = IF rq.what = "call" /\ ~mproc[p].torn THEN @ + 1 ELSE @]
      \/ \E q \in Cut(p) : After1(v, [mproc EXCEPT ![p] = q], FALSE, FALSE, FALSE)
  BY DEF StdioSend
<1>5. \A i \in {0, id} : Told(mproc[p], Whole(p, i), v.next)
  <2>1. \A i \in {0, id} : i \in 0..MaxIds /\ i \in {0, v.next}
    BY <1>3, Sizes DEF id
  <2> HIDE DEF v, p, id
  <2> QED
    BY <1>2, <1>3, <2>1, WholeIs
<1> HIDE DEF v, p, id
<1>6. CASE id = 0 /\ After1(v, [mproc EXCEPT ![p] = Whole(p, 0)], TRUE, FALSE, FALSE)
  <2>1. Told(mproc[p], Whole(p, 0), v.next)
    BY <1>5
  <2>2. v.pid = p
    BY DEF p
  <2> QED
    BY <1>1, <1>3, <1>6, <2>1, <2>2, PipedAfter
<1>7. CASE /\ id # 0 /\ srv' = [srv EXCEPT ![rq.s] = v] /\ mproc' = [mproc EXCEPT ![p] = Whole(p, id)]
           /\ rq' = [rq EXCEPT !.pc = "read", !.id = id,
                               !.ran = IF rq.what = "call" /\ ~mproc[p].torn THEN @ + 1 ELSE @]
  <2> DEFINE n == IF rq.what = "call" /\ ~mproc[p].torn THEN rq.ran + 1 ELSE rq.ran
  <2>1. rq' = [rq EXCEPT !.pc = "read", !.id = v.next, !.ran = n] /\ rq.what # "initialized" /\ id = v.next
    BY <1>7 DEF id
  <2>2. n \in {rq.ran, rq.ran + 1} /\ (n # rq.ran => rq.what = "call")
    OBVIOUS
  <2> HIDE DEF n
  <2>3. Told(mproc[srv[rq.s].pid], Whole(p, id), Numbered.next)
    BY <1>3, <1>5 DEF v
  <2> QED
    BY <1>1, <1>3, <1>7, <2>1, <2>2, <2>3, SentKeeps DEF v
<1>8. CASE \E q \in Cut(p) : After1(v, [mproc EXCEPT ![p] = q], FALSE, FALSE, FALSE)
  <2>1. PICK q \in Cut(p) : After1(v, [mproc EXCEPT ![p] = q], FALSE, FALSE, FALSE)
    BY <1>8
  <2>2. Told(mproc[p], q, v.next) /\ v.pid = p
    BY <1>2, <1>3, CutIs DEF p
  <2> QED
    BY <1>1, <1>3, <2>1, <2>2, PipedAfter
<1> QED
  BY <1>4, <1>6, <1>7, <1>8

\* The request goes on waiting.
LEMMA WaitKeeps ==
    ASSUME IInv, rq.pc = "read", NEW v \in SrvRec, v.pid = srv[rq.s].pid, v.next = srv[rq.s].next,
           Issued(v.buf, v.next), \A k \in DOMAIN v.buf : IsAnswer(v.buf[k], rq.id) => v.buf[k].from = v.pid,
           NEW q, Told(mproc[v.pid], q, v.next),
           srv' = [srv EXCEPT ![rq.s] = v], mproc' = [mproc EXCEPT ![v.pid] = q],
           UNCHANGED <<rq, wire, mbreak>>
    PROVE  Rest'
<1>1. ~wire[rq.s].http /\ Asking(rq, wire[rq.s].http, srv[rq.s]) /\ Once(rq)
  BY DEF IInv, Asking
<1>2. /\ StateOK /\ ServersOK /\ rq \in RqRec /\ rq.s \in Server
      /\ srv[rq.s].pid \in Pid /\ srv[rq.s].pid # 0 /\ srv[rq.s].next \in Nat
  BY <1>1, Piped
<1>3. /\ mproc' \in [Pid -> ProcRec] /\ Spared(rq.s, mproc') /\ SrvSound(wire[rq.s].http, rq.s, v, mproc')
      /\ \A p \in Pid : Speaks(p, mproc'[p])
  <2>1. srv[rq.s].next <= v.next
    BY <1>2
  <2>2. mproc' = [mproc EXCEPT ![v.pid] = q] /\ Told(mproc[v.pid], q, v.next) /\ Issued(v.buf, v.next)
    OBVIOUS
  <2> QED
    BY <1>1, <1>2, <2>1, <2>2, ToldSound
<1>4. ServersOK' /\ srv' \in [Server -> SrvRec]
  BY <1>2, <1>3, OneServer
<1>5. srv'[rq.s] = v
  BY <1>2 DEF StateOK
<1>6. Asking(rq, wire[rq.s].http, v)
  BY <1>1, <1>2 DEF Asking
<1>7. StateOK'
  BY <1>2, <1>3, <1>4 DEF StateOK
<1> QED
  BY <1>1, <1>4, <1>5, <1>6, <1>7 DEF Rest

LEMMA Reading ==
    ASSUME IInv, rq.pc = "read"
    PROVE  /\ ~wire[rq.s].http /\ rq.id = srv[rq.s].next
           /\ StateOK /\ ServersOK /\ rq \in RqRec /\ rq.s \in Server /\ srv[rq.s] \in SrvRec
           /\ srv[rq.s].pid \in Pid /\ srv[rq.s].pid # 0 /\ mproc[srv[rq.s].pid] \in ProcRec
           /\ srv[rq.s].next \in Nat /\ Issued(srv[rq.s].buf, srv[rq.s].next)
           /\ Issued(mproc[srv[rq.s].pid].out, srv[rq.s].next) /\ Speaks(srv[rq.s].pid, mproc[srv[rq.s].pid])
           /\ \A k \in DOMAIN srv[rq.s].buf : IsAnswer(srv[rq.s].buf[k], rq.id) => srv[rq.s].buf[k].from = srv[rq.s].pid
<1>1. ~wire[rq.s].http /\ Asking(rq, wire[rq.s].http, srv[rq.s])
  BY DEF IInv, Asking
<1>2. /\ StateOK /\ ServersOK /\ rq \in RqRec /\ rq.s \in Server /\ srv[rq.s] \in SrvRec
      /\ srv[rq.s].pid \in Pid /\ srv[rq.s].pid # 0
      /\ srv[rq.s].next \in Nat /\ Issued(srv[rq.s].buf, srv[rq.s].next)
  BY <1>1, Piped
<1>3. mproc[srv[rq.s].pid] \in ProcRec
  BY <1>2 DEF StateOK
<1>4. Speaks(srv[rq.s].pid, mproc[srv[rq.s].pid]) /\ SrvSound(wire[rq.s].http, rq.s, srv[rq.s], mproc)
  BY <1>2 DEF ServersOK
<1> QED
  BY <1>1, <1>2, <1>3, <1>4 DEF Asking, SrvSound, Serves

LEMMA OverKeeps ==
    ASSUME IInv, rq.pc = "read", UNCHANGED <<wire, mbreak>>,
           NEW v \in SrvRec, v.pid = srv[rq.s].pid, v.next = srv[rq.s].next, Issued(v.buf, v.next),
           NEW ok \in BOOLEAN, NEW modern, NEW legacy, After1(v, mproc, ok, modern, legacy)
    PROVE  Rest'
<1>1. ~wire[rq.s].http /\ StateOK /\ v.pid \in Pid /\ srv[rq.s].next \in Nat
  BY Reading
<1>2. mproc = [mproc EXCEPT ![v.pid] = mproc[v.pid]]
  BY <1>1 DEF StateOK
<1>3. Told(mproc[v.pid], mproc[v.pid], v.next)
  BY <1>1, SameTold
<1>4. After1(v, [mproc EXCEPT ![v.pid] = mproc[v.pid]], ok, modern, legacy)
  BY <1>2
<1> QED
  BY <1>1, <1>3, <1>4, PipedAfter

LEMMA StdioGivesUpKeeps == ASSUME IInv, StdioGivesUp PROVE Rest'
<1> DEFINE v == srv[rq.s]
           p == v.pid
           w == [v EXCEPT !.broken = @ \/ ~mbreak \/ v.half # 0]
<1>1. rq.pc = "read" /\ UNCHANGED <<wire, mbreak>>
  BY DEF StdioGivesUp
<1>2. /\ ~wire[rq.s].http /\ StateOK /\ v \in SrvRec /\ p \in Pid /\ v.next \in Nat /\ Issued(v.buf, v.next)
  BY <1>1, Reading
<1>3. w \in SrvRec /\ w.pid = p /\ w.next = v.next /\ w.buf = v.buf
  BY <1>2 DEF SrvRec
<1>4. PICK q \in Cut(p) \cup {mproc[p], Whole(p, 0)} : After1(w, [mproc EXCEPT ![p] = q], FALSE, FALSE, FALSE)
  BY DEF StdioGivesUp
<1>5. Told(mproc[p], q, w.next)
  <2>1. 0 \in 0..MaxIds
    BY Sizes
  <2> HIDE DEF v, p, w
  <2> QED
    BY <1>2, <2>1, CutIs, SameTold, WholeIs
<1>6. w.pid = srv[rq.s].pid /\ srv[rq.s].next <= w.next /\ Issued(w.buf, w.next)
  BY <1>2, <1>3
<1>7. After1(w, [mproc EXCEPT ![w.pid] = q], FALSE, FALSE, FALSE) /\ Told(mproc[w.pid], q, w.next)
  BY <1>3, <1>4, <1>5
<1> HIDE DEF w, v, p
<1> QED
  BY <1>1, <1>2, <1>3, <1>6, <1>7, PipedAfter

LEMMA StdioLineKeeps == ASSUME IInv, StdioLine PROVE Rest'
<1> DEFINE u == srv[rq.s]
           i == Head(u.buf)
           v == [u EXCEPT !.buf = Tail(@)]
           b == [v EXCEPT !.broken = TRUE]
           p == v.pid
<1>1. rq.pc = "read" /\ u.buf # <<>> /\ UNCHANGED <<wire, mbreak>>
  BY DEF StdioLine
<1>2. /\ ~wire[rq.s].http /\ StateOK /\ u \in SrvRec /\ u.pid \in Pid /\ u.next \in Nat /\ Issued(u.buf, u.next)
      /\ \A k \in DOMAIN u.buf : IsAnswer(u.buf[k], rq.id) => u.buf[k].from = u.pid
  BY <1>1, Reading
<1>3. Tail(u.buf) \in Seq(Item) /\ Among(Tail(u.buf), u.buf) /\ Issued(Tail(u.buf), u.next)
  <2>1. u.buf \in Seq(Item)
    BY <1>2 DEF SrvRec
  <2> HIDE DEF u
  <2> QED
    BY <1>1, <1>2, <2>1, TailAmong, AmongIssued
<1>4. /\ v \in SrvRec /\ v.pid = u.pid /\ v.next = u.next /\ v.buf = Tail(u.buf)
      /\ b \in SrvRec /\ b.pid = u.pid /\ b.next = u.next /\ b.buf = Tail(u.buf)
  BY <1>2, <1>3 DEF SrvRec
<1>5. \/ \E m, l \in BOOLEAN : After1(v, mproc, i.k = "ok", m, l)
      \/ After1(b, mproc, FALSE, FALSE, FALSE)
      \/ /\ srv' = [srv EXCEPT ![rq.s] = v] /\ UNCHANGED rq
         /\ \E q \in Cut(p) \cup {mproc[p], Whole(p, 0)} : mproc' = [mproc EXCEPT ![p] = q]
  BY DEF StdioLine
<1>6. p = u.pid
  BY <1>4
<1> HIDE DEF u, i, v, b, p
<1>7. CASE \E m, l \in BOOLEAN : After1(v, mproc, i.k = "ok", m, l)
  BY <1>1, <1>2, <1>3, <1>4, <1>7, OverKeeps DEF u
<1>8. CASE After1(b, mproc, FALSE, FALSE, FALSE)
  BY <1>1, <1>2, <1>3, <1>4, <1>8, OverKeeps DEF u
<1>9. CASE /\ srv' = [srv EXCEPT ![rq.s] = v] /\ UNCHANGED rq
           /\ \E q \in Cut(p) \cup {mproc[p], Whole(p, 0)} : mproc' = [mproc EXCEPT ![p] = q]
  <2>1. PICK q \in Cut(p) \cup {mproc[p], Whole(p, 0)} : mproc' = [mproc EXCEPT ![p] = q]
    BY <1>9
  <2>2. 0 \in 0..MaxIds /\ p \in Pid
    BY <1>2, <1>6, Sizes
  <2>3. Told(mproc[p], q, v.next)
    BY <1>2, <2>2, CutIs, SameTold, WholeIs
  <2>4. \A k \in DOMAIN v.buf : IsAnswer(v.buf[k], rq.id) => v.buf[k].from = v.pid
    BY <1>2, <1>3, <1>4 DEF Among
  <2>5. /\ srv' = [srv EXCEPT ![rq.s] = v] /\ mproc' = [mproc EXCEPT ![v.pid] = q] /\ UNCHANGED <<rq, wire, mbreak>>
        /\ v \in SrvRec /\ v.pid = srv[rq.s].pid /\ v.next = srv[rq.s].next /\ Issued(v.buf, v.next)
        /\ Told(mproc[v.pid], q, v.next)
    BY <1>1, <1>3, <1>4, <1>6, <1>9, <2>1, <2>3 DEF u
  <2> QED
    BY <1>1, <2>4, <2>5, WaitKeeps
<1> QED
  BY <1>5, <1>7, <1>8, <1>9

LEMMA ReadIs ==
    ASSUME NEW v \in SrvRec, NEW L \in Seq(Item), L # <<>>, v.pid \in Pid
    PROVE  /\ Joined(v, L) \in SrvRec /\ Joined(v, L).pid = v.pid /\ Joined(v, L).next = v.next
           /\ \A k \in DOMAIN Joined(v, L).buf :
                 \/ Joined(v, L).buf[k].k = "junk"
                 \/ \E j \in DOMAIN L : Joined(v, L).buf[k] = L[j]
<1> DEFINE junk == [k |-> "junk", id |-> 0, from |-> v.pid]
           joined == <<junk>> \o Tail(L)
           lines == IF v.half \in {0, v.pid} THEN L ELSE joined
<1>1. Joined(v, L) = [v EXCEPT !.buf = lines, !.half = 0]
  BY DEF Joined
<1>2. junk \in Item /\ junk.k = "junk" /\ 0 \in 0..MaxProcs
  BY Sizes DEF Item
<1>3. Tail(L) \in Seq(Item) /\ Among(Tail(L), L)
  BY TailAmong
<1> HIDE DEF junk
<1>4. joined \in Seq(Item) /\ \A k \in DOMAIN joined : joined[k].k = "junk" \/ \E j \in DOMAIN L : joined[k] = L[j]
  <2>1. joined \in Seq(Item) /\ Len(joined) = 1 + Len(Tail(L))
    BY <1>2, <1>3
  <2>2. \A k \in DOMAIN joined : joined[k] = IF k = 1 THEN junk ELSE Tail(L)[k - 1]
    BY <1>2, <1>3
  <2>3. \A k \in DOMAIN joined : k # 1 => k - 1 \in DOMAIN Tail(L)
    BY <1>3, <2>1
  <2> QED
    BY <1>2, <1>3, <2>1, <2>2, <2>3 DEF Among
<1>5. lines \in Seq(Item) /\ \A k \in DOMAIN lines : lines[k].k = "junk" \/ \E j \in DOMAIN L : lines[k] = L[j]
  BY <1>4
<1> HIDE DEF lines
<1>6. Joined(v, L) \in SrvRec /\ Joined(v, L).pid = v.pid /\ Joined(v, L).next = v.next /\ Joined(v, L).buf = lines
  BY <1>1, <1>2, <1>5 DEF SrvRec
<1> QED
  BY <1>5, <1>6

LEMMA StdioReadKeeps == ASSUME IInv, StdioRead PROVE Rest'
<1> DEFINE v == srv[rq.s]
           p == v.pid
           out == mproc[p].out
           half == [v EXCEPT !.half = p]
           ends == [v EXCEPT !.broken = TRUE]
<1>1. rq.pc = "read" /\ v.buf = <<>> /\ UNCHANGED <<wire, mbreak>>
  BY DEF StdioRead
<1>2. /\ ~wire[rq.s].http /\ StateOK /\ v \in SrvRec /\ p \in Pid /\ v.next \in Nat /\ Issued(v.buf, v.next)
      /\ mproc \in [Pid -> ProcRec] /\ mproc[p] \in ProcRec /\ Issued(out, v.next) /\ Speaks(p, mproc[p]) /\ rq.s \in Server
  BY <1>1, Reading DEF StateOK
<1>3. /\ half \in SrvRec /\ half.pid = p /\ half.next = v.next /\ half.buf = v.buf
      /\ ends \in SrvRec /\ ends.pid = p /\ ends.next = v.next /\ ends.buf = v.buf
  BY <1>2, Sizes DEF SrvRec, Pid
<1>4. \/ /\ \E n \in 1..Len(out) :
               /\ srv' = [srv EXCEPT ![rq.s] = Joined(v, SubSeq(out, 1, n))]
               /\ mproc' = [mproc EXCEPT ![p].out = SubSeq(@, n + 1, Len(@))]
         /\ UNCHANGED rq
      \/ srv' = [srv EXCEPT ![rq.s].half = p] /\ UNCHANGED <<mproc, rq>>
      \/ After1(ends, mproc, FALSE, FALSE, FALSE)
  BY DEF StdioRead
<1>5. CASE /\ \E n \in 1..Len(out) :
                 /\ srv' = [srv EXCEPT ![rq.s] = Joined(v, SubSeq(out, 1, n))]
                 /\ mproc' = [mproc EXCEPT ![p].out = SubSeq(@, n + 1, Len(@))]
           /\ UNCHANGED rq
  <2>1. PICK n \in 1..Len(out) : /\ srv' = [srv EXCEPT ![rq.s] = Joined(v, SubSeq(out, 1, n))]
                                 /\ mproc' = [mproc EXCEPT ![p].out = SubSeq(@, n + 1, Len(@))]
    BY <1>5
  <2> DEFINE L == SubSeq(out, 1, n)
             R == SubSeq(out, n + 1, Len(out))
             w == Joined(v, L)
             q == [mproc[p] EXCEPT !.out = R]
  <2>2. out \in Seq(Item)
    BY <1>2 DEF ProcRec
  <2>3. L \in Seq(Item) /\ Among(L, out) /\ L # <<>> /\ R \in Seq(Item) /\ Among(R, out)
    <3> HIDE DEF out
    <3>1. 1 \in 1..(Len(out) + 1) /\ n \in 0..Len(out) /\ n + 1 \in 1..(Len(out) + 1) /\ Len(out) \in 0..Len(out)
      BY <2>2
    <3>2. Len(L) = n
      BY <2>2
    <3> QED
      BY <2>2, <3>1, <3>2, PartAmong
  <2>4. mproc' = [mproc EXCEPT ![p] = q]
    BY <1>2, <2>1
  <2>5. Told(mproc[p], q, v.next)
    BY <1>2, <2>3 DEF Told, ProcRec
  <2> HIDE DEF L, R
  <2>6. /\ w \in SrvRec /\ w.pid = p /\ w.next = v.next
        /\ \A k \in DOMAIN w.buf : w.buf[k].k = "junk" \/ \E j \in DOMAIN L : w.buf[k] = L[j]
    BY <1>2, <2>3, ReadIs
  <2> HIDE DEF w, q
  <2>7. \A k \in DOMAIN w.buf : w.buf[k].k = "junk" \/ \E j \in DOMAIN out : w.buf[k] = out[j]
    BY <2>3, <2>6 DEF Among
  <2>8. Issued(w.buf, w.next)
    BY <1>2, <2>6, <2>7 DEF Issued
  <2>9. \A k \in DOMAIN w.buf : IsAnswer(w.buf[k], rq.id) => w.buf[k].from = w.pid
    BY <1>2, <2>6, <2>7 DEF Speaks, IsAnswer
  <2>10. /\ srv' = [srv EXCEPT ![rq.s] = w] /\ mproc' = [mproc EXCEPT ![w.pid] = q] /\ Told(mproc[w.pid], q, w.next)
         /\ w.pid = srv[rq.s].pid /\ w.next = srv[rq.s].next /\ UNCHANGED <<rq, wire, mbreak>>
    BY <1>1, <1>5, <2>1, <2>4, <2>5, <2>6 DEF L, w
  <2> QED
    BY <1>1, <2>6, <2>8, <2>9, <2>10, WaitKeeps
<1>6. CASE srv' = [srv EXCEPT ![rq.s].half = p] /\ UNCHANGED <<mproc, rq>>
  <2>1. srv' = [srv EXCEPT ![rq.s] = half]
    BY <1>2, <1>6
  <2>2. mproc' = [mproc EXCEPT ![p] = mproc[p]]
    BY <1>2, <1>6
  <2>3. Told(mproc[p], mproc[p], v.next)
    BY <1>2, SameTold
  <2>4. \A k \in DOMAIN half.buf : IsAnswer(half.buf[k], rq.id) => half.buf[k].from = half.pid
    BY <1>1, <1>3
  <2>5. /\ half.pid = srv[rq.s].pid /\ half.next = srv[rq.s].next /\ Issued(half.buf, half.next)
        /\ Told(mproc[half.pid], mproc[p], half.next) /\ mproc' = [mproc EXCEPT ![half.pid] = mproc[p]]
    BY <1>2, <1>3, <2>2, <2>3
  <2> HIDE DEF half
  <2> QED
    BY <1>1, <1>3, <1>6, <2>1, <2>4, <2>5, WaitKeeps
<1>7. CASE After1(ends, mproc, FALSE, FALSE, FALSE)
  <2>1. ends.pid = srv[rq.s].pid /\ ends.next = srv[rq.s].next /\ Issued(ends.buf, ends.next)
    BY <1>2, <1>3
  <2> HIDE DEF ends
  <2> QED
    BY <1>1, <1>3, <1>7, <2>1, OverKeeps
<1> QED
  BY <1>4, <1>5, <1>6, <1>7

--------------------------------------------------------------------------------
(***************************************************************************)
(* Requests over HTTP.                                                     *)
(***************************************************************************)
LEMMA SameServers ==
    ASSUME StateOK, ServersOK, rq.pc # "quit", UNCHANGED <<srv, mproc, wire>>
    PROVE  ServersOK'
<1>1. /\ \A s \in Server : SrvSound(wire[s].http, s, srv[s], mproc) /\ Served(wire[s].http, srv[s], rq.pc)
      /\ \A p \in Pid : Speaks(p, mproc[p])
  BY DEF ServersOK
<1>2. \A s \in Server : Served(wire[s].http, srv[s], rq'.pc)
  BY <1>1 DEF Served
<1> QED
  BY <1>1, <1>2 DEF ServersOK

LEMMA HttpPostKeeps == ASSUME IInv, HttpPost PROVE Rest'
<1>1. /\ rq.pc = "send" /\ wire[rq.s].http /\ UNCHANGED <<srv, mproc, wire, mbreak>>
      /\ StateOK /\ ServersOK /\ rq \in RqRec /\ rq.what # "none" /\ rq.ran = 0
  BY DEF HttpPost, IInv, StateOK, Asking, Once
<1>2. PICK runs \in BOOLEAN :
         rq' = [rq EXCEPT !.pc = "posted", !.did = runs, !.ran = IF rq.what = "call" /\ runs THEN @ + 1 ELSE @]
  BY DEF HttpPost
<1> DEFINE n == IF rq.what = "call" /\ runs THEN 1 ELSE 0
<1>3. rq' = [rq EXCEPT !.pc = "posted", !.did = runs, !.ran = n]
  BY <1>1, <1>2
<1>4. n \in {0, 1} /\ (n = 1 => rq.what = "call" /\ runs)
  OBVIOUS
<1> HIDE DEF n
<1>5. rq' \in RqRec /\ rq'.pc = "posted" /\ rq'.s = rq.s /\ rq'.what = rq.what /\ rq'.did = runs /\ rq'.ran = n
  <2> DEFINE r == rq
             r2 == rq'
  <2>1. r \in RqRec /\ r2 = [r EXCEPT !.pc = "posted", !.did = runs, !.ran = n] /\ n \in Nat /\ runs \in BOOLEAN
    BY <1>1, <1>3, <1>4
  <2> HIDE DEF r, r2
  <2>2. r2 \in RqRec /\ r2.pc = "posted" /\ r2.s = r.s /\ r2.what = r.what /\ r2.did = runs /\ r2.ran = n
    BY <2>1 DEF RqRec, Places
  <2> QED
    BY <2>2 DEF r, r2
<1>6. Once(rq')
  BY <1>4, <1>5 DEF Once
<1>7. ServersOK'
  BY <1>1, SameServers
<1>8. Asking(rq', wire[rq.s].http, srv[rq.s])
  BY <1>1, <1>5 DEF Asking
<1>9. Asking(rq', wire'[rq'.s].http, srv'[rq'.s])
  BY <1>1, <1>5, <1>8
<1>10. StateOK'
  BY <1>1, <1>5 DEF StateOK
<1> QED
  BY <1>6, <1>7, <1>9, <1>10 DEF Rest

LEMMA HttpReplyKeeps == ASSUME IInv, HttpReply PROVE Rest'
<1>1. rq.pc = "posted" /\ UNCHANGED <<wire, mbreak>>
  BY DEF HttpReply
<1>2. /\ StateOK /\ ServersOK /\ rq \in RqRec /\ rq.s \in Server /\ rq.what # "none" /\ srv[rq.s] \in SrvRec
      /\ ~wire[rq.s].http => srv[rq.s].pid # 0
      /\ SrvSound(wire[rq.s].http, rq.s, srv[rq.s], mproc) /\ Served(wire[rq.s].http, srv[rq.s], rq.pc)
      /\ \A p \in Pid : Speaks(p, mproc[p])
      /\ mproc \in [Pid -> ProcRec]
  BY <1>1 DEF IInv, StateOK, ServersOK, Asking, RqRec
<1>3. PICK outcome \in {"ok", "error", "broken", "expired", "interrupted"}, hello \in BOOLEAN :
         LET v == [srv[rq.s] EXCEPT !.broken = @ \/ outcome = "broken",
                                    !.session = (@ /\ outcome # "expired") \/ hello]
         IN  /\ outcome = "interrupted" => mbreak
             /\ outcome = "expired" => srv[rq.s].session /\ ~rq.did
             /\ outcome = "ok" => rq.did
             /\ hello => outcome = "ok" /\ rq.what = "initialize"
             /\ outcome \in {"error", "broken", "expired"} => bad < MaxBad
             /\ bad' = IF outcome \in {"ok", "interrupted"} THEN bad ELSE bad + 1
             /\ IF Retries(outcome) /\ Recovers
                THEN Next1(v, mproc, [rq EXCEPT !.pc = "send", !.what = "initialize", !.again = rq.what])
                ELSE \E m, l \in BOOLEAN :
                        /\ outcome # "error" => ~m /\ ~l
                        /\ After1(v, mproc, outcome = "ok", m, l)
  BY Zenon DEF HttpReply
<1> DEFINE v == [srv[rq.s] EXCEPT !.broken = @ \/ outcome = "broken",
                                  !.session = (@ /\ outcome # "expired") \/ hello]
<1>4. v \in SrvRec /\ v.pid = srv[rq.s].pid /\ v.next = srv[rq.s].next /\ v.buf = srv[rq.s].buf /\ v.status = srv[rq.s].status
  BY <1>2 DEF SrvRec
<1>5. SrvSound(wire[rq.s].http, rq.s, v, mproc)
  BY <1>2, <1>4 DEF SrvSound
<1>6. Spared(rq.s, mproc)
  BY DEF Spared
<1>7. CASE /\ outcome = "expired" /\ ~rq.did
           /\ Next1(v, mproc, [rq EXCEPT !.pc = "send", !.what = "initialize", !.again = rq.what])
  <2>1. srv' = [srv EXCEPT ![rq.s] = v] /\ mproc' = mproc
        /\ rq' = [rq EXCEPT !.pc = "send", !.what = "initialize", !.again = rq.what]
    BY <1>7 DEF Next1
  <2>2. /\ rq' \in RqRec /\ rq'.pc = "send" /\ rq'.s = rq.s /\ rq'.what = "initialize" /\ rq'.ran = rq.ran
    BY <1>2, <2>1 DEF RqRec, Places, Methods
  <2>3. rq.ran = 0
    BY <1>1, <1>7 DEF IInv, Once
  <2> HIDE DEF v
  <2>4. ServersOK' /\ srv' \in [Server -> SrvRec] /\ mproc' \in [Pid -> ProcRec]
    BY <1>1, <1>2, <1>4, <1>5, <1>6, <2>1, OneServer
  <2>5. srv'[rq.s] = v
    BY <1>2, <2>1 DEF StateOK
  <2>6. Asking(rq', wire'[rq'.s].http, srv'[rq'.s])
    BY <1>1, <1>2, <1>4, <2>2, <2>5 DEF Asking
  <2> QED
    BY <1>1, <1>2, <2>2, <2>3, <2>4, <2>6 DEF Rest, StateOK, Once
<1>8. CASE \E m, l \in BOOLEAN : After1(v, mproc, outcome = "ok", m, l)
  <2>1. PICK m, l \in BOOLEAN : After1(v, mproc, outcome = "ok", m, l)
    BY <1>8
  <2>2. (outcome = "ok") \in BOOLEAN
    OBVIOUS
  <2> HIDE DEF v
  <2> QED
    BY <1>1, <1>2, <1>4, <1>5, <1>6, <2>1, <2>2, After1Keeps DEF Rest
<1> QED
  BY <1>3, <1>7, <1>8 DEF Retries

--------------------------------------------------------------------------------
(***************************************************************************)
(* Taking servers down and starting them.                                  *)
(***************************************************************************)
LEMMA GoneIs ==
    ASSUME NEW q \in ProcRec
    PROVE  /\ Gone(q) \in ProcRec
           /\ \A s, n : q.of = s => Serves(s, n, Gone(q))
           /\ \A p : Speaks(p, Gone(q))
<1>1. Gone(q) \in ProcRec /\ Gone(q).st = "gone" /\ Gone(q).of = q.of /\ Gone(q).out = <<>> /\ Gone(q).asked = {}
  BY NoServerIs DEF Gone, ProcRec, Life
<1> QED
  BY <1>1, EmptyIssued DEF Serves, Speaks

LEMMA LessIs ==
    ASSUME StateOK, ServersOK, NEW s \in Server
    PROVE  /\ LessProcess(mproc, srv[s]) \in [Pid -> ProcRec] /\ Spared(s, LessProcess(mproc, srv[s]))
           /\ \A p \in Pid : Speaks(p, LessProcess(mproc, srv[s])[p])
<1> DEFINE n == srv[s].pid
           pr == LessProcess(mproc, srv[s])
<1>1. /\ mproc \in [Pid -> ProcRec] /\ n \in 0..MaxProcs /\ SrvSound(wire[s].http, s, srv[s], mproc)
      /\ \A p \in Pid : Speaks(p, mproc[p])
  BY DEF StateOK, ServersOK, SrvRec
<1>2. CASE n = 0
  BY <1>1, <1>2 DEF LessProcess, Spared
<1>3. CASE n # 0
  <2>1. n \in Pid /\ mproc[n] \in ProcRec /\ mproc[n].of = s
    BY <1>1, <1>3, PidIs DEF SrvSound, Serves
  <2>2. pr = [mproc EXCEPT ![n] = Gone(mproc[n])]
    BY <1>3 DEF LessProcess
  <2>3. Gone(mproc[n]) \in ProcRec /\ Speaks(n, Gone(mproc[n]))
    BY <2>1, GoneIs
  <2> HIDE DEF pr, n
  <2>4. pr \in [Pid -> ProcRec] /\ pr[n] = Gone(mproc[n]) /\ \A p \in Pid : p # n => pr[p] = mproc[p]
    BY <1>1, <2>1, <2>2, <2>3
  <2>5. Spared(s, pr)
    BY <2>1, <2>4 DEF Spared
  <2>6. \A p \in Pid : Speaks(p, pr[p])
    BY <1>1, <2>3, <2>4
  <2> QED
    BY <2>4, <2>5, <2>6 DEF pr
<1> QED
  BY <1>2, <1>3

LEMMA TakenDownIs ==
    ASSUME StateOK, ServersOK, NEW s \in Server
    PROVE  /\ TakenDown(s, srv[s]) \in SrvRec /\ TakenDown(s, srv[s]).pid = 0
           /\ Issued(TakenDown(s, srv[s]).buf, TakenDown(s, srv[s]).next)
<1>1. srv[s] \in SrvRec /\ wire[s].http \in BOOLEAN /\ SrvSound(wire[s].http, s, srv[s], mproc)
  BY DEF StateOK, ServersOK
<1> DEFINE x == Stopped(s, srv[s])
           w == [x EXCEPT !.tools = FALSE, !.broken = FALSE]
<1>2. /\ x \in SrvRec /\ x.next = srv[s].next /\ x.pid = 0
      /\ srv[s].pid # 0 => x.buf = <<>>
      /\ srv[s].pid = 0 => x.buf = srv[s].buf
  BY <1>1, StoppedIs DEF SrvSound
<1> HIDE DEF x
<1>3. w \in SrvRec /\ w.pid = x.pid /\ w.buf = x.buf /\ w.next = x.next
  BY <1>2 DEF SrvRec
<1>4. TakenDown(s, srv[s]) = w
  BY DEF TakenDown, x
<1>5. Issued(x.buf, x.next)
  BY <1>1, <1>2, EmptyIssued DEF SrvSound
<1> QED
  BY <1>2, <1>3, <1>4, <1>5

LEMMA LeastIsIn ==
    ASSUME NEW S \in SUBSET Nat, S # {}
    PROVE  (CHOOSE u \in S : \A q \in S : u <= q) \in S
<1> DEFINE R == {ss \in Nat \X Nat : ss[1] < ss[2]}
<1>1. IsWellFoundedOn(R, Nat)
  BY NatLessThanWellFounded, Zenon DEF OpToRel
<1>2. \A x, y \in Nat : <<x, y>> \in R <=> x < y
  OBVIOUS
<1> HIDE DEF R
<1>3. PICK x \in S : \A y \in S : ~(<<y, x>> \in R)
  BY <1>1, WFMin
<1>4. x \in Nat /\ \A y \in S : y \in Nat /\ ~(y < x)
  BY <1>2, <1>3
<1>5. \A y \in S : x <= y
  BY <1>4
<1> QED
  BY <1>3, <1>5

LEMMA AskIs ==
    ASSUME StateOK, NEW s \in Server, NEW what \in Methods, NEW for \in Purpose
    PROVE  LET r == [Ask(what, for) EXCEPT !.s = s]
           IN  r \in RqRec /\ r.pc = "send" /\ r.s = s /\ r.what = what /\ r.ran = 0
<1>1. Nothing \in RqRec /\ rq \in RqRec /\ Nothing.ran = 0
  BY NothingIs DEF StateOK
<1> DEFINE a == [Nothing EXCEPT !.pc = "send", !.s = rq.s, !.what = what, !.for = for]
<1>2. a \in RqRec /\ a.pc = "send" /\ a.what = what /\ a.ran = 0
  BY <1>1 DEF RqRec, Places
<1>3. Ask(what, for) = a
  BY DEF Ask
<1> HIDE DEF a
<1> QED
  BY <1>2, <1>3 DEF RqRec

LEMMA ConnectKeeps ==
    ASSUME IInv, rq.pc \in {"idle", "refresh"}, NEW s \in Server, NEW for \in Purpose, NEW v \in SrvRec, NEW pr \in [Pid -> ProcRec],
           Spared(s, pr), SrvSound(wire[s].http, s, v, pr), \A p \in Pid : Speaks(p, pr[p]),
           Connect(s, for, v, pr), UNCHANGED <<wire, mbreak>>
    PROVE  Rest'
<1>0. StateOK /\ ServersOK /\ rq.pc # "quit"
  BY DEF IInv
<1>1. CASE /\ srv' = [srv EXCEPT ![s] = [v EXCEPT !.status = "failed"]] /\ mproc' = pr
           /\ rq' = IF for = "refresh" THEN [Nothing EXCEPT !.pc = "refresh", !.for = for] ELSE Nothing
  <2> DEFINE w == [v EXCEPT !.status = "failed"]
  <2>1. w \in SrvRec /\ w.pid = v.pid /\ w.buf = v.buf /\ w.next = v.next /\ w.status # "ready"
    BY DEF SrvRec, Status
  <2>2. SrvSound(wire[s].http, s, w, pr)
    BY <2>1 DEF SrvSound
  <2>3. srv' = [srv EXCEPT ![s] = w]
    BY <1>1
  <2> HIDE DEF w
  <2>4. ServersOK' /\ srv' \in [Server -> SrvRec] /\ mproc' \in [Pid -> ProcRec]
    BY <1>0, <1>1, <2>1, <2>2, <2>3, OneServer
  <2>5. rq' \in RqRec /\ rq'.pc \in {"idle", "refresh"} /\ rq'.ran = 0
    BY <1>1, NothingIs DEF RqRec, Places, Purpose
  <2> QED
    BY <1>0, <2>4, <2>5 DEF Rest, StateOK, Asking, Once
<1>2. CASE /\ wire[s].http \/ Unused # {}
           /\ LET p == CHOOSE u \in Unused : \A q \in Unused : u <= q
              IN  /\ srv' = [srv EXCEPT ![s] = IF wire[s].http THEN [v EXCEPT !.status = "pending", !.session = FALSE]
                                               ELSE [v EXCEPT !.status = "pending", !.pid = p]]
                  /\ mproc' = IF wire[s].http THEN pr ELSE [pr EXCEPT ![p] = [NoServer EXCEPT !.st = "runs", !.of = s]]
           /\ rq' = [Ask("discover", for) EXCEPT !.s = s]
  <2>1. rq' \in RqRec /\ rq'.pc = "send" /\ rq'.s = s /\ rq'.what = "discover" /\ rq'.ran = 0
    BY <1>0, <1>2, AskIs DEF Methods
  <2>2. CASE wire[s].http
    <3> DEFINE w == [v EXCEPT !.status = "pending", !.session = FALSE]
    <3>1. w \in SrvRec /\ w.pid = v.pid /\ w.buf = v.buf /\ w.next = v.next /\ w.status = "pending"
      BY DEF SrvRec, Status
    <3>2. SrvSound(wire[s].http, s, w, pr)
      BY <3>1 DEF SrvSound
    <3>3. srv' = [srv EXCEPT ![s] = w] /\ mproc' = pr
      BY <1>2, <2>2
    <3> HIDE DEF w
    <3>4. ServersOK' /\ srv' \in [Server -> SrvRec] /\ mproc' \in [Pid -> ProcRec]
      BY <1>0, <3>1, <3>2, <3>3, OneServer
    <3> QED
      BY <1>0, <2>1, <2>2, <3>4 DEF Rest, StateOK, Asking, Once
  <2>3. CASE ~wire[s].http
    <3> DEFINE p == CHOOSE u \in Unused : \A q \in Unused : u <= q
               new == [NoServer EXCEPT !.st = "runs", !.of = s]
               w == [v EXCEPT !.status = "pending", !.pid = p]
               pr2 == [pr EXCEPT ![p] = new]
    <3>1. p \in Unused
      <4>1. Unused \in SUBSET Nat /\ Unused # {}
        BY <1>2, <2>3, PidIs DEF Unused
      <4> QED
        BY <4>1, LeastIsIn
    <3>2. srv' = [srv EXCEPT ![s] = w] /\ mproc' = pr2
      BY <1>2, <2>3
    <3> HIDE DEF p
    <3>3. p \in Pid /\ p \in 0..MaxProcs /\ p # 0 /\ mproc[p].st = "none"
      BY <3>1, Sizes DEF Unused, Pid
    <3>4. new \in ProcRec /\ new.st = "runs" /\ new.of = s /\ new.out = <<>> /\ new.asked = {}
      BY NoServerIs DEF ProcRec, Life
    <3>5. w \in SrvRec /\ w.pid = p /\ w.buf = v.buf /\ w.next = v.next /\ w.status = "pending"
      BY <3>3 DEF SrvRec, Status
    <3> HIDE DEF new, w
    <3>6. pr2 \in [Pid -> ProcRec] /\ pr2[p] = new /\ \A q \in Pid : q # p => pr2[q] = pr[q]
      BY <3>3, <3>4
    <3> HIDE DEF pr2
    <3>7. Spared(s, pr2) /\ \A q \in Pid : Speaks(q, pr2[q])
      BY <3>3, <3>4, <3>6 DEF Spared, Speaks
    <3>8. SrvSound(wire[s].http, s, w, pr2)
      BY <2>3, <3>4, <3>5, <3>6, EmptyIssued DEF SrvSound, Serves
    <3>9. ServersOK' /\ srv' \in [Server -> SrvRec] /\ mproc' \in [Pid -> ProcRec]
      BY <1>0, <3>2, <3>3, <3>5, <3>6, <3>7, <3>8, OneServer
    <3>10. srv'[s] = w
      BY <1>0, <3>2 DEF StateOK
    <3>11. Asking(rq', wire[s].http, w)
      BY <2>1, <3>3, <3>5 DEF Asking
    <3> QED
      BY <1>0, <2>1, <3>9, <3>10, <3>11 DEF Rest, StateOK, Once
  <2> QED
    BY <2>2, <2>3
<1> QED
  BY <1>1, <1>2, Zenon DEF Connect

LEMMA McpConnectKeeps == ASSUME IInv, McpConnect PROVE Rest'
<1>1. PICK s \in Server : srv[s].status = "pending" /\ Connect(s, "refresh", srv[s], mproc)
  BY DEF McpConnect
<1>2. /\ rq.pc \in {"idle", "refresh"} /\ UNCHANGED <<wire, mbreak>> /\ "refresh" \in Purpose
      /\ srv[s] \in SrvRec /\ mproc \in [Pid -> ProcRec] /\ SrvSound(wire[s].http, s, srv[s], mproc)
      /\ \A p \in Pid : Speaks(p, mproc[p])
  BY DEF McpConnect, IInv, StateOK, ServersOK, Purpose
<1>3. Spared(s, mproc)
  BY DEF Spared
<1> QED
  BY <1>1, <1>2, <1>3, ConnectKeeps

\* A server of the table is changed between two operations.
LEMMA IdleKeeps ==
    ASSUME IInv, rq.pc = "idle", UNCHANGED <<wire, mbreak, rq>>, ServersOK',
           srv' \in [Server -> SrvRec], mproc' \in [Pid -> ProcRec]
    PROVE  Rest'
BY DEF IInv, Rest, StateOK, Asking, Once

LEMMA ApproveKeeps == ASSUME IInv, NEW s \in Server, Approve(s) PROVE Rest'
<1> DEFINE w == [srv[s] EXCEPT !.status = "pending"]
<1>1. /\ rq.pc = "idle" /\ UNCHANGED <<wire, mproc, rq, mbreak>> /\ srv' = [srv EXCEPT ![s].status = "pending"]
      /\ StateOK /\ ServersOK /\ srv[s] \in SrvRec /\ mproc \in [Pid -> ProcRec]
      /\ SrvSound(wire[s].http, s, srv[s], mproc) /\ \A p \in Pid : Speaks(p, mproc[p])
  BY DEF Approve, Command, IInv, StateOK, ServersOK
<1>2. w \in SrvRec /\ w.pid = srv[s].pid /\ w.buf = srv[s].buf /\ w.next = srv[s].next /\ w.status = "pending"
  BY <1>1 DEF SrvRec, Status
<1>3. srv' = [srv EXCEPT ![s] = w]
  BY <1>1 DEF StateOK
<1> HIDE DEF w
<1>4. SrvSound(wire[s].http, s, w, mproc)
  BY <1>1, <1>2 DEF SrvSound
<1>5. Spared(s, mproc)
  BY DEF Spared
<1>6. ServersOK' /\ srv' \in [Server -> SrvRec] /\ mproc' \in [Pid -> ProcRec]
  BY <1>1, <1>2, <1>3, <1>4, <1>5, OneServer
<1> QED
  BY <1>1, <1>6, IdleKeeps

\* The server is down, with another status.
LEMMA DownKeeps ==
    ASSUME IInv, rq.pc = "idle", NEW s \in Server, NEW st \in Status \ {"ready"},
           srv' = [srv EXCEPT ![s] = [TakenDown(s, @) EXCEPT !.status = st]],
           mproc' = LessProcess(mproc, srv[s]), UNCHANGED <<wire, mbreak, rq>>
    PROVE  Rest'
<1> DEFINE x == TakenDown(s, srv[s])
           w == [x EXCEPT !.status = st]
<1>1. StateOK /\ ServersOK
  BY DEF IInv
<1>2. x \in SrvRec /\ x.pid = 0 /\ Issued(x.buf, x.next)
  BY <1>1, TakenDownIs
<1> HIDE DEF x
<1>3. w \in SrvRec /\ w.pid = 0 /\ w.buf = x.buf /\ w.next = x.next /\ w.status = st
  BY <1>2 DEF SrvRec
<1>4. srv' = [srv EXCEPT ![s] = w]
  BY <1>1 DEF StateOK, x
<1> HIDE DEF w
<1> DEFINE pr == LessProcess(mproc, srv[s])
<1>5. pr \in [Pid -> ProcRec] /\ Spared(s, pr) /\ \A p \in Pid : Speaks(p, pr[p])
  BY <1>1, LessIs
<1>6. mproc' = pr
  OBVIOUS
<1> HIDE DEF pr
<1>7. SrvSound(wire[s].http, s, w, pr)
  BY <1>2, <1>3 DEF SrvSound
<1>8. ServersOK' /\ srv' \in [Server -> SrvRec] /\ mproc' \in [Pid -> ProcRec]
  BY <1>1, <1>3, <1>4, <1>5, <1>6, <1>7, OneServer
<1> QED
  BY <1>8, IdleKeeps

LEMMA RejectKeeps == ASSUME IInv, NEW s \in Server, Reject(s) PROVE Rest'
<1>1. "rejected" \in Status \ {"ready"}
  BY DEF Status
<1> QED
  BY <1>1, DownKeeps DEF Reject, Command

LEMMA DisableKeeps == ASSUME IInv, NEW s \in Server, Disable(s) PROVE Rest'
<1>1. "disabled" \in Status \ {"ready"}
  BY DEF Status
<1> QED
  BY <1>1, DownKeeps DEF Disable, Command

LEMMA RestartKeeps == ASSUME IInv, NEW s \in Server, Restart(s) PROVE Rest'
<1> DEFINE v == TakenDown(s, srv[s])
           pr == LessProcess(mproc, srv[s])
<1>1. /\ StateOK /\ ServersOK /\ rq.pc \in {"idle", "refresh"} /\ UNCHANGED <<wire, mbreak>>
      /\ Connect(s, "restart", v, pr) /\ "restart" \in Purpose
  BY DEF Restart, Command, IInv, Purpose
<1>2. v \in SrvRec /\ v.pid = 0 /\ Issued(v.buf, v.next)
  BY <1>1, TakenDownIs
<1>3. pr \in [Pid -> ProcRec] /\ Spared(s, pr) /\ \A p \in Pid : Speaks(p, pr[p])
  BY <1>1, LessIs
<1> HIDE DEF v, pr
<1>4. SrvSound(wire[s].http, s, v, pr)
  BY <1>2 DEF SrvSound
<1> QED
  BY <1>1, <1>2, <1>3, <1>4, ConnectKeeps

LEMMA McpUseKeeps == ASSUME IInv, McpUse PROVE Rest'
<1>1. PICK s \in Server, what \in {"call", "read"} :
         srv[s].status = "ready" /\ rq' = [Ask(what, "none") EXCEPT !.s = s]
  BY DEF McpUse
<1>2. rq.pc = "idle" /\ UNCHANGED <<srv, mproc, wire, mbreak>> /\ StateOK /\ ServersOK
  BY DEF McpUse, Command, IInv
<1>3. rq' \in RqRec /\ rq'.pc = "send" /\ rq'.s = s /\ rq'.what = what /\ rq'.ran = 0
  <2>1. what \in Methods /\ "none" \in Purpose
    BY DEF Methods, Purpose
  <2> QED
    BY <1>1, <1>2, <2>1, AskIs
<1>4. ServersOK'
  BY <1>2, SameServers
<1>5. ~wire[s].http => srv[s].pid # 0
  BY <1>1, <1>2 DEF ServersOK, Served
<1>6. Asking(rq', wire'[rq'.s].http, srv'[rq'.s])
  BY <1>1, <1>2, <1>3, <1>5 DEF Asking
<1> QED
  BY <1>2, <1>3, <1>4, <1>6 DEF Rest, StateOK, Once

LEMMA RefreshOverKeeps == ASSUME IInv, RefreshOver PROVE Rest'
<1>1. /\ rq.pc = "refresh" /\ rq' = Nothing /\ UNCHANGED <<srv, mproc, wire, mbreak>> /\ StateOK /\ ServersOK
  BY DEF RefreshOver, IInv
<1>2. ServersOK'
  BY <1>1, SameServers
<1> QED
  BY <1>1, <1>2, NothingIs DEF Rest, StateOK, Asking, Once

\* Nothing but the interrupt changes.
LEMMA BreakKeeps ==
    ASSUME IInv, mbreak' \in BOOLEAN, rq.pc # "quit", UNCHANGED <<srv, mproc, wire, rq>>
    PROVE  Rest'
<1>1. ServersOK'
  BY SameServers DEF IInv
<1> QED
  BY <1>1 DEF IInv, Rest, StateOK, Asking, Once

--------------------------------------------------------------------------------
(***************************************************************************)
(* All servers at once, and the processes by themselves.                   *)
(***************************************************************************)
\* Some processes are gone, and each server is as it was, or has none.
LEMMA SomeGone ==
    ASSUME StateOK, ServersOK, mproc' \in [Pid -> ProcRec], wire' = wire,
           \A p \in Pid : mproc'[p] \in {mproc[p], Gone(mproc[p])},
           NEW s \in Server, \/ srv'[s].pid = srv[s].pid /\ srv'[s].next = srv[s].next /\ srv'[s].buf = srv[s].buf
                             \/ srv'[s].pid = 0 /\ srv'[s].next = srv[s].next /\ srv'[s].buf \in {<<>>, srv[s].buf}
                             \/ srv'[s].pid = 0 /\ srv'[s].buf = <<>>
    PROVE  SrvSound(wire'[s].http, s, srv'[s], mproc')
<1>1. SrvSound(wire[s].http, s, srv[s], mproc) /\ srv[s] \in SrvRec
  BY DEF ServersOK, StateOK
<1>2. Issued(srv'[s].buf, srv'[s].next)
  BY <1>1, EmptyIssued DEF SrvSound
<1>3. CASE srv'[s].pid = 0
  BY <1>2, <1>3 DEF SrvSound
<1>4. CASE srv'[s].pid # 0
  <2>1. srv'[s].pid = srv[s].pid /\ srv'[s].next = srv[s].next
    BY <1>4
  <2>2. srv[s].pid \in Pid /\ mproc[srv[s].pid] \in ProcRec
    BY <1>1, <1>4, <2>1, PidIs DEF SrvRec, StateOK
  <2>3. Serves(s, srv[s].next, mproc[srv[s].pid]) /\ mproc[srv[s].pid].of = s
    BY <1>1, <1>4, <2>1 DEF SrvSound, Serves
  <2>4. Serves(s, srv[s].next, Gone(mproc[srv[s].pid]))
    BY <2>2, <2>3, GoneIs
  <2>5. Serves(s, srv[s].next, mproc'[srv[s].pid])
    BY <2>2, <2>3, <2>4
  <2> QED
    BY <1>1, <1>2, <2>1, <2>5 DEF SrvSound
<1> QED
  BY <1>3, <1>4

LEMMA GoneSpeaks ==
    ASSUME StateOK, ServersOK, NEW p \in Pid, mproc'[p] \in {mproc[p], Gone(mproc[p])}
    PROVE  mproc'[p] \in ProcRec /\ Speaks(p, mproc'[p])
<1>1. mproc[p] \in ProcRec /\ Speaks(p, mproc[p])
  BY DEF StateOK, ServersOK
<1> QED
  BY <1>1, GoneIs

LEMMA LoadedIs ==
    ASSUME FilesOK, StateOK, ServersOK, NEW s \in Server
    PROVE  /\ Loaded(s) \in SrvRec
           /\ Loaded(s).status = "ready" => Loaded(s).pid = srv[s].pid /\ srv[s].status = "ready"
           /\ \/ Loaded(s).pid = srv[s].pid /\ Loaded(s).next = srv[s].next /\ Loaded(s).buf = srv[s].buf
              \/ Loaded(s).pid = 0 /\ Loaded(s).next = srv[s].next /\ Loaded(s).buf \in {<<>>, srv[s].buf}
              \/ Loaded(s).pid = 0 /\ Loaded(s).buf = <<>>
<1>1. /\ srv[s] \in SrvRec /\ wire[s].http \in BOOLEAN /\ SrvSound(wire[s].http, s, srv[s], mproc)
      /\ conf[s] \in EntryRec
  BY DEF StateOK, ServersOK, FilesOK
<1> DEFINE x == Stopped(s, srv[s])
           w == [x EXCEPT !.tools = FALSE, !.broken = FALSE, !.status = "removed"]
           st == Entered(s)
           n == conf[s].print
           f == [Fresh EXCEPT !.status = st, !.print = n]
<1>2. /\ x \in SrvRec /\ x.next = srv[s].next /\ x.pid = 0 /\ x.buf \in {<<>>, srv[s].buf}
  BY <1>1, StoppedIs DEF SrvSound
<1> HIDE DEF x
<1>3. w \in SrvRec /\ w.pid = x.pid /\ w.buf = x.buf /\ w.next = x.next /\ w.status = "removed"
  BY <1>2 DEF SrvRec, Status
<1>4. [TakenDown(s, srv[s]) EXCEPT !.status = "removed"] = w
  BY DEF TakenDown, x
<1>5. st \in Status \ {"ready"} /\ n \in 0..MaxDeeds
  BY <1>1 DEF Entered, Status, EntryRec
<1> HIDE DEF w, st, n
<1>6. f \in SrvRec /\ f.pid = 0 /\ f.buf = <<>> /\ f.status = st
  BY <1>5, FreshIs DEF SrvRec
<1> HIDE DEF f
<1>7. Loaded(s) \in {w, srv[s], f}
  BY <1>4 DEF Loaded, f, st, n
<1>8. CASE Loaded(s) = w
  BY <1>2, <1>3, <1>8
<1>9. CASE Loaded(s) = srv[s]
  BY <1>1, <1>9
<1>10. CASE Loaded(s) = f
  BY <1>5, <1>6, <1>10
<1> QED
  BY <1>7, <1>8, <1>9, <1>10

LEMMA McpRefreshKeeps == ASSUME IInv, McpRefresh PROVE Rest'
<1>1. /\ FilesOK /\ StateOK /\ ServersOK /\ rq.pc = "idle" /\ UNCHANGED <<wire, mbreak>>
      /\ rq' = [Nothing EXCEPT !.pc = "refresh", !.for = "refresh"]
  BY DEF McpRefresh, IInv
<1>2. rq' \in RqRec /\ rq'.pc = "refresh" /\ rq'.ran = 0
  BY <1>1, NothingIs DEF RqRec, Places, Purpose
<1>3. ServersOK' /\ srv' \in [Server -> SrvRec] /\ mproc' \in [Pid -> ProcRec]
  <2>1. CASE noticed
    <3>1. UNCHANGED <<srv, mproc>>
      BY <2>1 DEF McpRefresh
    <3>2. ServersOK'
      BY <1>1, <3>1, SameServers
    <3> QED
      BY <1>1, <3>1, <3>2 DEF StateOK
  <2>2. CASE ~noticed
    <3>1. /\ srv' = [s \in Server |-> Loaded(s)]
          /\ mproc' = [p \in Pid |-> IF p \in Dropped THEN Gone(mproc[p]) ELSE mproc[p]]
      BY <2>2 DEF McpRefresh
    <3>2. \A p \in Pid : mproc'[p] \in {mproc[p], Gone(mproc[p])}
      BY <3>1
    <3>3. mproc' \in [Pid -> ProcRec] /\ \A p \in Pid : Speaks(p, mproc'[p])
      <4>1. \A p \in Pid : mproc'[p] \in ProcRec /\ Speaks(p, mproc'[p])
        BY <1>1, <3>2, GoneSpeaks
      <4> QED
        BY <3>1, <4>1
    <3>4. srv' \in [Server -> SrvRec] /\ \A s \in Server : srv'[s] = Loaded(s)
      BY <1>1, <3>1, LoadedIs
    <3>5. \A s \in Server : SrvSound(wire'[s].http, s, srv'[s], mproc')
      <4> SUFFICES ASSUME NEW s \in Server PROVE SrvSound(wire'[s].http, s, srv'[s], mproc')
        OBVIOUS
      <4>1. \/ srv'[s].pid = srv[s].pid /\ srv'[s].next = srv[s].next /\ srv'[s].buf = srv[s].buf
            \/ srv'[s].pid = 0 /\ srv'[s].next = srv[s].next /\ srv'[s].buf \in {<<>>, srv[s].buf}
            \/ srv'[s].pid = 0 /\ srv'[s].buf = <<>>
        BY <1>1, <3>4, LoadedIs
      <4> QED
        BY <1>1, <3>2, <3>3, <4>1, SomeGone
    <3>6. \A s \in Server : Served(wire'[s].http, srv'[s], rq'.pc)
      BY <1>1, <3>4, LoadedIs DEF Served, ServersOK
    <3> QED
      BY <3>3, <3>4, <3>5, <3>6 DEF ServersOK
  <2> QED
    BY <2>1, <2>2
<1> QED
  BY <1>1, <1>2, <1>3 DEF Rest, StateOK, Asking, Once

LEMMA McpShutdownKeeps == ASSUME IInv, McpShutdown PROVE Rest'
<1>1. /\ StateOK /\ ServersOK /\ UNCHANGED <<wire, mbreak>> /\ rq' = [Nothing EXCEPT !.pc = "quit"]
      /\ srv' = [s \in Server |-> Stopped(s, srv[s])]
      /\ mproc' = [p \in Pid |-> IF \E s \in Server : srv[s].pid = p THEN Gone(mproc[p]) ELSE mproc[p]]
  BY DEF McpShutdown, IInv
<1>2. rq' \in RqRec /\ rq'.pc = "quit" /\ rq'.ran = 0
  BY <1>1, NothingIs DEF RqRec, Places
<1>3. \A p \in Pid : mproc'[p] \in {mproc[p], Gone(mproc[p])}
  BY <1>1
<1>4. mproc' \in [Pid -> ProcRec] /\ \A p \in Pid : Speaks(p, mproc'[p])
  <2>1. \A p \in Pid : mproc'[p] \in ProcRec /\ Speaks(p, mproc'[p])
    BY <1>1, <1>3, GoneSpeaks
  <2> QED
    BY <1>1, <2>1
<1>5. \A s \in Server : /\ srv'[s] \in SrvRec /\ srv'[s].pid = 0 /\ srv'[s].next = srv[s].next
                        /\ srv'[s].buf \in {<<>>, srv[s].buf}
  <2> SUFFICES ASSUME NEW s \in Server
               PROVE  /\ srv'[s] \in SrvRec /\ srv'[s].pid = 0 /\ srv'[s].next = srv[s].next
                      /\ srv'[s].buf \in {<<>>, srv[s].buf}
    OBVIOUS
  <2>1. srv[s] \in SrvRec /\ wire[s].http \in BOOLEAN /\ (wire[s].http => srv[s].pid = 0) /\ srv'[s] = Stopped(s, srv[s])
    BY <1>1 DEF StateOK, ServersOK, SrvSound
  <2> QED
    BY <2>1, StoppedIs
<1>6. srv' \in [Server -> SrvRec]
  BY <1>1, <1>5
<1>7. \A s \in Server : SrvSound(wire'[s].http, s, srv'[s], mproc')
  BY <1>1, <1>3, <1>4, <1>5, SomeGone
<1>8. ServersOK'
  BY <1>2, <1>4, <1>7 DEF ServersOK, Served
<1> QED
  BY <1>1, <1>2, <1>4, <1>6, <1>8 DEF Rest, StateOK, Asking, Once

\* A process does something by itself.
LEMMA ProcessKeeps ==
    ASSUME IInv, NEW p \in Pid, NEW q \in ProcRec, mproc' = [mproc EXCEPT ![p] = q], UNCHANGED <<srv, wire, rq, mbreak>>,
           q.st # "none", q.of = mproc[p].of, Speaks(p, q), q.asked \subseteq mproc[p].asked,
           \A n : Serves(q.of, n, mproc[p]) => Issued(q.out, n)
    PROVE  Rest'
<1>1. StateOK /\ ServersOK /\ mproc \in [Pid -> ProcRec]
  BY DEF IInv, StateOK
<1>2. mproc' \in [Pid -> ProcRec] /\ mproc'[p] = q /\ \A r \in Pid : r # p => mproc'[r] = mproc[r]
  BY <1>1
<1>3. \A s \in Server : SrvSound(wire[s].http, s, srv[s], mproc')
  <2> SUFFICES ASSUME NEW s \in Server PROVE SrvSound(wire[s].http, s, srv[s], mproc')
    OBVIOUS
  <2>1. SrvSound(wire[s].http, s, srv[s], mproc) /\ srv[s] \in SrvRec
    BY <1>1 DEF ServersOK, StateOK
  <2>2. srv[s].pid # 0 => srv[s].pid \in Pid
    BY <2>1, PidIs DEF SrvRec
  <2>3. srv[s].pid # 0 => Serves(s, srv[s].next, mproc'[srv[s].pid])
    BY <1>2, <2>1, <2>2 DEF SrvSound, Serves
  <2> QED
    BY <2>1, <2>3 DEF SrvSound
<1>4. \A r \in Pid : Speaks(r, mproc'[r])
  BY <1>1, <1>2 DEF ServersOK
<1>5. ServersOK'
  BY <1>1, <1>3, <1>4 DEF ServersOK
<1> QED
  BY <1>2, <1>5 DEF IInv, Rest, StateOK

LEMMA AppendIs ==
    ASSUME NEW L \in Seq(Item), NEW i \in Item
    PROVE  /\ Append(L, i) \in Seq(Item)
           /\ \A k \in DOMAIN Append(L, i) : Append(L, i)[k] = i \/ (k \in DOMAIN L /\ Append(L, i)[k] = L[k])
<1>1. Append(L, i) \in Seq(Item) /\ Len(Append(L, i)) = Len(L) + 1
  OBVIOUS
<1>2. \A k \in 1..(Len(L) + 1) : Append(L, i)[k] = IF k = Len(L) + 1 THEN i ELSE L[k]
  OBVIOUS
<1> QED
  BY <1>1, <1>2

LEMMA ServerSaysKeeps == ASSUME IInv, NEW p \in Pid, ServerSays(p) PROVE Rest'
<1>1. /\ StateOK /\ ServersOK /\ mproc[p].st = "runs" /\ UNCHANGED <<srv, wire, rq, mbreak>>
      /\ mproc[p] \in ProcRec /\ mproc \in [Pid -> ProcRec] /\ Speaks(p, mproc[p])
  BY DEF IInv, StateOK, ServersOK, ServerSays
<1>2. PICK i : /\ Writes1(p, i) /\ i.from = p /\ i \in Item
               /\ i.k \in {"ok", "error"} => i.id \in mproc[p].asked
  <2>1. mproc[p].asked \subseteq 0..MaxIds /\ 0 \in 0..MaxIds
    BY <1>1, Sizes DEF ProcRec
  <2>2. \A k \in {"ok", "error", "ask", "note", "junk"}, id \in 0..MaxIds :
           LET i == [k |-> k, id |-> id, from |-> p] IN i \in Item /\ i.k = k /\ i.id = id /\ i.from = p
    BY DEF Item
  <2>3. CASE \E id \in mproc[p].asked, k \in {"ok", "error"} : Writes1(p, [k |-> k, id |-> id, from |-> p])
    BY <2>1, <2>2, <2>3
  <2>4. CASE \E id \in {0} \cup mproc[p].asked, k \in {"ask", "note", "junk"} : Writes1(p, [k |-> k, id |-> id, from |-> p])
    BY <2>1, <2>2, <2>4
  <2> QED
    BY <2>3, <2>4 DEF ServerSays
<1> DEFINE out == mproc[p].out
           new == Append(out, i)
           less == mproc[p].asked \ (IF i.k \in {"ok", "error"} THEN {i.id} ELSE {})
           q == [mproc[p] EXCEPT !.out = new, !.asked = less]
<1>3. out \in Seq(Item) /\ less \in SUBSET (1..MaxIds) /\ less \subseteq mproc[p].asked
  BY <1>1 DEF ProcRec
<1>4. mproc' = [mproc EXCEPT ![p] = q]
  BY <1>1, <1>2 DEF Writes1
<1> HIDE DEF less, out
<1>5. new \in Seq(Item) /\ \A k \in DOMAIN new : new[k] = i \/ (k \in DOMAIN out /\ new[k] = out[k])
  BY <1>2, <1>3, AppendIs
<1> HIDE DEF new
<1>6. q \in ProcRec /\ q.st = "runs" /\ q.of = mproc[p].of /\ q.out = new /\ q.asked = less
  BY <1>1, <1>3, <1>5 DEF ProcRec
<1> HIDE DEF q
<1>7. Speaks(p, q)
  BY <1>1, <1>2, <1>5, <1>6 DEF Speaks, out
<1>8. \A n : Serves(q.of, n, mproc[p]) => Issued(q.out, n)
  BY <1>2, <1>5, <1>6 DEF Serves, Issued, out
<1> QED
  BY <1>1, <1>3, <1>4, <1>6, <1>7, <1>8, ProcessKeeps

LEMMA ServerEndsKeeps == ASSUME IInv, NEW p \in Pid, ServerEnds(p) PROVE Rest'
<1> DEFINE out == IF srv[mproc[p].of].half = p THEN <<>> ELSE mproc[p].out
           q == [mproc[p] EXCEPT !.st = "dead", !.asked = {}, !.out = out]
<1>1. /\ StateOK /\ ServersOK /\ UNCHANGED <<srv, wire, rq, mbreak>>
      /\ mproc[p] \in ProcRec /\ mproc \in [Pid -> ProcRec] /\ Speaks(p, mproc[p])
  BY DEF IInv, StateOK, ServersOK, ServerEnds
<1>2. mproc' = [mproc EXCEPT ![p] = q]
  BY <1>1 DEF ServerEnds
<1>3. out \in {<<>>, mproc[p].out} /\ out \in Seq(Item)
  BY <1>1 DEF ProcRec
<1> HIDE DEF out
<1>4. q \in ProcRec /\ q.st = "dead" /\ q.of = mproc[p].of /\ q.out = out /\ q.asked = {}
  BY <1>1, <1>3 DEF ProcRec, Life
<1> HIDE DEF q
<1>5. Speaks(p, q)
  BY <1>1, <1>3, <1>4 DEF Speaks
<1>6. \A n : Serves(q.of, n, mproc[p]) => Issued(q.out, n)
  BY <1>3, <1>4, EmptyIssued DEF Serves
<1> QED
  BY <1>1, <1>2, <1>4, <1>5, <1>6, ProcessKeeps

--------------------------------------------------------------------------------
(***************************************************************************)
(* The invariant, and what it gives.                                       *)
(***************************************************************************)
LEMMA CommandKeeps == ASSUME FilesOK, Command, edits' = edits PROVE uses' \in Nat /\ edits' \in Nat /\ edits' + uses' <= MaxDeeds
BY Sizes DEF FilesOK, Command

LEMMA FilesKeep == ASSUME IInv, McpNext PROVE FilesOK'
<1>1. FilesOK /\ StateOK
  BY DEF IInv
<1>2. bad' \in Nat
  <2>1. bad \in Nat
    BY <1>1 DEF FilesOK
  <2>2. CASE StdioSend \/ HttpReply
    <3>1. bad' \in {bad, bad + 1}
      BY <2>2 DEF StdioSend, HttpReply
    <3> QED
      BY <2>1, <3>1
  <2>3. CASE \E p \in Pid : ServerSays(p)
    <3>1. bad' = bad \/ bad' = bad + 1
      BY <2>3 DEF ServerSays
    <3> QED
      BY <2>1, <3>1
  <2>4. CASE bad' = bad
    BY <2>1, <2>4
  <2>5. \/ StdioSend \/ HttpReply \/ \E p \in Pid : ServerSays(p)
        \/ bad' = bad
    BY DEF McpNext, McpStep, McpRefresh, RefreshOver, McpConnect, StdioRead, StdioGivesUp, StdioLine, HttpPost, McpUse,
           Approve, Reject, Disable, Restart, McpShutdown, Edit, McpBreak, McpTurnOver, ServerEnds
  <2> QED
    BY <2>2, <2>3, <2>4, <2>5
<1>3. CASE UNCHANGED <<conf, known, noticed, edits, uses>>
  BY <1>1, <1>2, <1>3 DEF FilesOK
<1>4. CASE McpRefresh
  BY <1>1, <1>2, <1>4 DEF FilesOK, McpRefresh
<1>5. CASE Edit
  <2>1. PICK s \in Server, e \in [print : {0, edits + 1}, kind : {"on", "off", "bad"}] : conf' = [conf EXCEPT ![s] = e]
    BY <1>5 DEF Edit
  <2>2. edits' = edits + 1 /\ edits + uses < MaxDeeds /\ UNCHANGED <<known, uses>>
    BY <1>5 DEF Edit
  <2>3. noticed' \in BOOLEAN
    BY <1>1, <1>5 DEF Edit, FilesOK
  <2>4. edits' \in Nat /\ edits' + uses <= MaxDeeds /\ edits + 1 \in 0..MaxDeeds
    BY <1>1, <2>2, Sizes DEF FilesOK
  <2>5. e \in EntryRec
    <3>1. {0, edits + 1} \subseteq 0..MaxDeeds
      BY <2>4, Sizes
    <3> QED
      BY <3>1 DEF EntryRec
  <2>6. conf' \in [Server -> EntryRec]
    BY <1>1, <2>1, <2>5 DEF FilesOK
  <2> QED
    BY <1>1, <1>2, <2>2, <2>3, <2>4, <2>6 DEF FilesOK
<1>6. CASE Command /\ UNCHANGED <<conf, noticed, edits>> /\ known' \in [Server -> 0..MaxDeeds]
  BY <1>1, <1>2, <1>6, CommandKeeps DEF FilesOK
<1>7. ASSUME NEW s \in Server, Approve(s) \/ Reject(s) PROVE known' \in [Server -> 0..MaxDeeds]
  <2>1. \E n \in 0..MaxDeeds : known' = [known EXCEPT ![s] = n]
    <3>1. srv[s].print \in 0..MaxDeeds /\ 0 \in 0..MaxDeeds
      BY <1>1, Sizes DEF StateOK, SrvRec
    <3>2. known' = [known EXCEPT ![s] = srv[s].print] \/ known' = [known EXCEPT ![s] = 0]
      BY <1>7 DEF Approve, Reject
    <3> QED
      BY <3>1, <3>2
  <2> QED
    BY <1>1, <2>1 DEF FilesOK
<1>8. CASE McpUse \/ \E s \in Server : Approve(s) \/ Reject(s) \/ Disable(s) \/ Restart(s)
  BY <1>1, <1>6, <1>7, <1>8 DEF FilesOK, McpUse, Approve, Reject, Disable, Restart
<1>9. CASE McpStep \/ McpShutdown \/ McpBreak \/ McpTurnOver \/ \E p \in Pid : ServerSays(p) \/ ServerEnds(p)
  BY <1>3, <1>9 DEF McpStep, RefreshOver, McpConnect, StdioSend, StdioRead, StdioGivesUp, StdioLine, HttpPost, HttpReply,
                    McpShutdown, McpBreak, McpTurnOver, ServerSays, ServerEnds
<1> QED
  BY <1>4, <1>5, <1>8, <1>9 DEF McpNext

LEMMA Inductive == IInv /\ [McpNext]_mcpVars => IInv'
<1> SUFFICES ASSUME IInv, [McpNext]_mcpVars PROVE IInv'
  OBVIOUS
<1>1. CASE McpNext
  <2>1. Rest'
    <3>1. CASE McpStep
      BY <3>1, RefreshOverKeeps, McpConnectKeeps, StdioSendKeeps, StdioReadKeeps, StdioGivesUpKeeps, StdioLineKeeps,
         HttpPostKeeps, HttpReplyKeeps DEF McpStep
    <3>2. CASE McpRefresh \/ McpUse \/ McpShutdown
      BY <3>2, McpRefreshKeeps, McpUseKeeps, McpShutdownKeeps
    <3>3. CASE Edit \/ McpBreak \/ McpTurnOver
      <4>1. rq.pc # "quit" /\ UNCHANGED <<srv, mproc, wire, rq>>
        BY <3>3 DEF Edit, McpBreak, McpTurnOver
      <4>2. mbreak' \in BOOLEAN
        BY <3>3 DEF Edit, McpBreak, McpTurnOver, IInv, StateOK
      <4> QED
        BY <4>1, <4>2, BreakKeeps
    <3>4. CASE \E s \in Server : Approve(s) \/ Reject(s) \/ Disable(s) \/ Restart(s)
      BY <3>4, ApproveKeeps, RejectKeeps, DisableKeeps, RestartKeeps
    <3>5. CASE \E p \in Pid : ServerSays(p) \/ ServerEnds(p)
      BY <3>5, ServerSaysKeeps, ServerEndsKeeps
    <3> QED
      BY <1>1, <3>1, <3>2, <3>3, <3>4, <3>5 DEF McpNext
  <2>2. FilesOK'
    BY <1>1, FilesKeep
  <2> QED
    BY <2>1, <2>2 DEF Rest, IInv
<1>2. CASE UNCHANGED mcpVars
  BY <1>2 DEF mcpVars, IInv, FilesOK, StateOK, ServersOK, SrvSound, Serves, Issued, Served, Speaks, Asking, Once
<1> QED
  BY <1>1, <1>2

\* The inductive invariant holds in every state.
THEOREM Invariance == McpSpec => []IInv
BY Initially, Inductive, PTL DEF McpSpec

\* Every variable keeps its type (the structs of mcp.c).
THEOREM TypeCorrect == McpSpec => []McpTypeOK
<1>1. IInv => McpTypeOK
  <2> SUFFICES ASSUME IInv PROVE McpTypeOK
    OBVIOUS
  <2>1. FilesOK /\ StateOK
    BY DEF IInv
  <2>2. conf \in [Server -> [print : 0..MaxDeeds, kind : {"on", "off", "bad"}]] /\ known \in [Server -> 0..MaxDeeds]
    BY <2>1 DEF FilesOK, EntryRec
  <2>3. edits + uses \in 0..MaxDeeds
    BY <2>1, Sizes DEF FilesOK
  <2>4. noticed \in BOOLEAN
    BY <2>1 DEF FilesOK
  <2>5. ASSUME NEW s \in Server
        PROVE  /\ srv[s].status \in Status /\ srv[s].pid \in 0..MaxProcs /\ srv[s].next \in 0..MaxIds
               /\ srv[s].half \in 0..MaxProcs /\ \A k \in 1..Len(srv[s].buf) : srv[s].buf[k] \in Item
    <3>1. srv[s] \in SrvRec
      BY <2>1 DEF StateOK
    <3>2. srv[s].buf \in Seq(Item)
      BY <3>1 DEF SrvRec
    <3>3. \A k \in 1..Len(srv[s].buf) : srv[s].buf[k] \in Item
      BY <3>2
    <3> QED
      BY <3>1, <3>3 DEF SrvRec
  <2>6. \A p \in Pid : mproc[p].st \in Life /\ mproc[p].asked \subseteq 1..MaxIds
    BY <2>1 DEF StateOK, ProcRec
  <2>7. rq.pc \in Places
    BY <2>1 DEF StateOK, RqRec
  <2> QED
    BY <2>2, <2>3, <2>4, <2>5, <2>6, <2>7 DEF McpTypeOK, Status, Life, Places
<1> QED
  BY <1>1, Invariance, PTL

\* A tool call runs at most once, whatever expires, breaks or is interrupted on its way
\* (mcp_request: only an answer that the session is unknown is followed by one more try).
THEOREM CallsRunOnce == McpSpec => []CallRunsOnce
<1>1. IInv => CallRunsOnce
  BY DEF IInv, Once, CallRunsOnce
<1> QED
  BY <1>1, Invariance, PTL

\* A request is answered by its own server process, to its own id (mcp_stdio_request).
THEOREM AnswersOwn == McpSpec => OwnAnswer
<1> DEFINE i == Head(srv[rq.s].buf)
           Taken == (rq.pc = "read" /\ ~wire[rq.s].http /\ srv[rq.s].buf # <<>> /\ rq' # rq)
                       => (i.k # "junk" => i.from = srv[rq.s].pid /\ i.k \in {"ok", "error"} /\ i.id = rq.id)
<1>1. IInv /\ [McpNext]_mcpVars => [Taken]_mcpVars
  <2> SUFFICES ASSUME IInv, McpNext, rq.pc = "read", srv[rq.s].buf # <<>>, rq' # rq, i.k # "junk"
               PROVE  i.from = srv[rq.s].pid /\ i.k \in {"ok", "error"} /\ i.id = rq.id
    OBVIOUS
  <2>1. StdioLine
    BY DEF McpNext, McpStep, RefreshOver, McpConnect, StdioSend, StdioRead, StdioGivesUp, HttpPost, HttpReply,
           McpRefresh, McpUse, McpShutdown, Edit, McpBreak, McpTurnOver, Command, Approve, Reject, Disable, Restart,
           ServerSays, ServerEnds
  <2>2. IsAnswer(i, rq.id)
    BY <2>1 DEF StdioLine
  <2>3. /\ srv[rq.s] \in SrvRec
        /\ \A k \in DOMAIN srv[rq.s].buf : IsAnswer(srv[rq.s].buf[k], rq.id) => srv[rq.s].buf[k].from = srv[rq.s].pid
    BY Reading
  <2>4. 1 \in DOMAIN srv[rq.s].buf /\ i = srv[rq.s].buf[1]
    <3>1. srv[rq.s].buf \in Seq(Item)
      BY <2>3 DEF SrvRec
    <3> QED
      BY <3>1
  <2> QED
    BY <2>2, <2>3, <2>4 DEF IsAnswer
<1>2. [][Taken]_mcpVars => OwnAnswer
  BY PTL DEF OwnAnswer
<1> QED
  BY <1>1, <1>2, Invariance, PTL DEF McpSpec

================================================================================

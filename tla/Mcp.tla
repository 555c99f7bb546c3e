--------------------------------- MODULE Mcp ---------------------------------
(* The clients of MCP servers (mcp.c): reading mcp.json, approval, starting a
   server, the handshake in either protocol era, requests over a pipe or over
   HTTP, and taking a server down.

   A message is the id it carries and its kind. The two pipes of a server are
   the set of whole requests it got, with a mark for a request cut short, and
   the sequence of lines it wrote. A server answers, asks, chatters and dies as
   it likes. Over HTTP a request is one step with every outcome http_rpc has. *)
EXTENDS Naturals, Sequences, FiniteSets

CONSTANTS
    Server,     \* names of servers
    MaxProcs,   \* bound: processes started
    MaxIds,     \* bound: ids of one server
    MaxDeeds,   \* bound: versions of mcp.json, calls and commands together
    MaxBad,     \* bound: requests not written whole, and lines no request asked for
    MaxPages    \* AGENT_MCP_PAGES

ASSUME McpAssumption == /\ Server # {}
                        /\ {MaxProcs, MaxIds, MaxDeeds, MaxBad, MaxPages} \subseteq Nat \ {0}

VARIABLES
    conf,      \* mcp.json: the entry of each server
    known,     \* the entry the user approved
    noticed,   \* the stamp of the file is the one last read
    wire,      \* transport and origin of each server
    srv,       \* g_mcp.v
    mproc,     \* the processes started
    rq,        \* the operation under way
    mbreak,    \* g_got_sigint
    edits, uses, bad

mcpVars == <<conf, known, noticed, wire, srv, mproc, rq, mbreak, edits, uses, bad>>

Pid  == 1..MaxProcs
Item == [k : {"ok", "error", "ask", "note", "junk"}, id : 0..MaxIds, from : Pid]

--------------------------------------------------------------------------------
NoEntry  == [print |-> 0, kind |-> "on"]
Fresh    == [status |-> "none", pid |-> 0, broken |-> FALSE, print |-> 0, next |-> 0,
             tools |-> FALSE, session |-> FALSE, buf |-> <<>>, half |-> 0]
NoServer == [st |-> "none", torn |-> FALSE, asked |-> {}, out |-> <<>>, of |-> CHOOSE s \in Server : TRUE]
Nothing  == [pc |-> "idle", s |-> CHOOSE s \in Server : TRUE, what |-> "none", id |-> 0, for |-> "none",
             again |-> "none", resent |-> FALSE, page |-> 0, did |-> FALSE, ran |-> 0]

McpInit == /\ conf = [s \in Server |-> [NoEntry EXCEPT !.print = 1]] /\ known = [s \in Server |-> 0] /\ noticed = FALSE
           /\ wire \in [Server -> [http : BOOLEAN, project : BOOLEAN]]
           /\ srv = [s \in Server |-> Fresh] /\ mproc = [p \in Pid |-> NoServer]
           /\ rq = Nothing /\ mbreak = FALSE /\ edits = 1 /\ uses = 0 /\ bad = 0

Present(s) == srv[s].status \notin {"none", "removed"}
Unused     == {p \in Pid : mproc[p].st = "none"}

\* mcp_close: what was read and not taken goes with the pipe.
Closed(v) == [v EXCEPT !.pid = 0, !.buf = <<>>, !.half = 0]

--------------------------------------------------------------------------------
\* mcp_stop: the input is closed, then SIGTERM, then SIGKILL; it returns when the process is
\* waited for. Over HTTP the session is given up.
Stopped(s, v) == IF wire[s].http THEN [v EXCEPT !.session = FALSE]
                 ELSE IF v.pid = 0 THEN v ELSE Closed(v)
Gone(p)       == [NoServer EXCEPT !.st = "gone", !.of = p.of]
LessProcess(pr, v)  == IF v.pid = 0 THEN pr ELSE [pr EXCEPT ![v.pid] = Gone(@)]

\* mcp_take_down.
TakenDown(s, v) == [Stopped(s, v) EXCEPT !.tools = FALSE, !.broken = FALSE]

\* mcp_load, when the stamp of the files changed. An entry that is as before is kept, another
\* one replaces its server, and a server without an entry is removed.
Entered(s) == LET e == conf[s]
              IN  CASE e.kind = "bad" -> "failed" [] e.kind = "off" -> "disabled"
                    [] e.kind = "on" -> IF wire[s].project /\ known[s] # e.print THEN "unapproved" ELSE "pending"
Same(s)    == Present(s) /\ srv[s].print = conf[s].print
Loaded(s)  == IF conf[s].print = 0
              THEN IF Present(s) THEN [TakenDown(s, srv[s]) EXCEPT !.status = "removed"] ELSE srv[s]
              ELSE IF Same(s) THEN srv[s]
              ELSE [Fresh EXCEPT !.status = Entered(s), !.print = conf[s].print]
Dropped    == {srv[s].pid : s \in {t \in Server : ~Same(t)}} \ {0}

McpRefresh == /\ rq.pc = "idle"
              /\ IF noticed THEN UNCHANGED <<srv, mproc>>
                 ELSE /\ srv' = [s \in Server |-> Loaded(s)]
                      /\ mproc' = [p \in Pid |-> IF p \in Dropped THEN Gone(mproc[p]) ELSE mproc[p]]
              /\ noticed' = TRUE
              /\ rq' = [Nothing EXCEPT !.pc = "refresh", !.for = "refresh"]
              /\ UNCHANGED <<conf, known, wire, mbreak, edits, uses, bad>>

RefreshOver == /\ rq.pc = "refresh" /\ \A s \in Server : srv[s].status # "pending"
               /\ rq' = Nothing
               /\ UNCHANGED <<conf, known, noticed, wire, srv, mproc, mbreak, edits, uses, bad>>

\* mcp_connect_once, up to the probe. The key store may give no token and the fork may fail.
Ask(what, for) == [Nothing EXCEPT !.pc = "send", !.s = rq.s, !.what = what, !.for = for]
Connect(s, for, v, pr) ==
    \/ /\ srv' = [srv EXCEPT ![s] = [v EXCEPT !.status = "failed"]] /\ mproc' = pr
       /\ rq' = IF for = "refresh" THEN [Nothing EXCEPT !.pc = "refresh", !.for = for] ELSE Nothing
    \/ /\ wire[s].http \/ Unused # {}
       /\ LET p == CHOOSE u \in Unused : \A q \in Unused : u <= q
          IN  /\ srv' = [srv EXCEPT ![s] = IF wire[s].http THEN [v EXCEPT !.status = "pending", !.session = FALSE]
                                           ELSE [v EXCEPT !.status = "pending", !.pid = p]]
              /\ mproc' = IF wire[s].http THEN pr ELSE [pr EXCEPT ![p] = [NoServer EXCEPT !.st = "runs", !.of = s]]
       /\ rq' = [Ask("discover", for) EXCEPT !.s = s]

McpConnect == /\ rq.pc = "refresh"
              /\ \E s \in Server : srv[s].status = "pending" /\ Connect(s, "refresh", srv[s], mproc)
              /\ UNCHANGED <<conf, known, noticed, wire, mbreak, edits, uses, bad>>

--------------------------------------------------------------------------------
\* What follows a request that was answered (ok) or not, for the server as v and the processes
\* as pr; modern and legacy are what an error said of the versions.
Go(what)     == [rq EXCEPT !.pc = "send", !.what = what]
Connected    == IF rq.for = "refresh" THEN [Nothing EXCEPT !.pc = "refresh", !.for = "refresh"] ELSE Nothing
Next1(v, pr, r) == srv' = [srv EXCEPT ![rq.s] = v] /\ mproc' = pr /\ rq' = r
ConnectFails(v, pr) == Next1([Stopped(rq.s, v) EXCEPT !.status = "failed"], LessProcess(pr, v), Connected)

AfterDiscover(v, pr, ok, modern, legacy) ==
    IF ok THEN \/ Next1(v, pr, Go("list")) \/ Next1(v, pr, Go("initialize")) \/ ConnectFails(v, pr)
    ELSE IF (modern /\ legacy) \/ (~modern /\ ~v.broken) THEN Next1(v, pr, Go("initialize"))
    ELSE ConnectFails(v, pr)

AfterList(v, pr, ok) ==
    \/ /\ ok /\ rq.page + 1 < MaxPages
       /\ Next1([v EXCEPT !.tools = TRUE], pr, [Go("list") EXCEPT !.page = @ + 1, !.resent = FALSE])
    \/ ok /\ Next1([v EXCEPT !.tools = TRUE, !.status = "ready"], pr, Connected)
    \/ ConnectFails([v EXCEPT !.tools = FALSE], pr)

\* mcp_call_tool takes a server with a broken stream down; mcp_read and the prompts do not.
AfterUse(what, v, pr, ok) ==
    IF ~ok /\ v.broken /\ what = "call" THEN Next1([Stopped(rq.s, v) EXCEPT !.status = "failed"], LessProcess(pr, v), Nothing)
    ELSE Next1(v, pr, Nothing)

\* mcp_legacy_hello may be a recovery inside another request, which is then sent once more or
\* fails.
AfterHello(v, pr, ok) ==
    CASE rq.again = "none" -> IF ok THEN Next1(v, pr, Go("list")) ELSE ConnectFails(v, pr)
      [] rq.again # "none" /\ ok -> Next1(v, pr, [Go(rq.again) EXCEPT !.again = "none", !.resent = TRUE])
      [] rq.again \in {"call", "read"} /\ ~ok -> AfterUse(rq.again, v, pr, FALSE)
      [] OTHER -> ConnectFails([v EXCEPT !.tools = FALSE], pr)

After1(v, pr, ok, modern, legacy) ==
    CASE rq.what = "discover"    -> AfterDiscover(v, pr, ok, modern, legacy)
      [] rq.what = "initialize"  -> \/ ok /\ Next1(v, pr, Go("initialized"))
                                    \/ AfterHello(v, pr, FALSE)
      [] rq.what = "initialized" -> AfterHello(v, pr, ok)
      [] rq.what = "list"        -> AfterList(v, pr, ok)
      [] rq.what \in {"call", "read"} -> AfterUse(rq.what, v, pr, ok)

--------------------------------------------------------------------------------
\* mcp_send. A message goes out whole, or the write stops before its first byte or after some:
\* on an interrupt, at the deadline, or because nobody reads. A message written behind one that
\* was cut short is one line with it, and no request to the server.
Whole(p, id) == IF mproc[p].st # "runs" THEN mproc[p]
                ELSE IF mproc[p].torn THEN [mproc[p] EXCEPT !.torn = FALSE]
                ELSE IF id = 0 THEN mproc[p] ELSE [mproc[p] EXCEPT !.asked = @ \cup {id}]
Cut(p)       == IF mproc[p].st = "runs" THEN {mproc[p], [mproc[p] EXCEPT !.torn = TRUE]} ELSE {mproc[p]}

Numbered == IF rq.what = "initialized" THEN srv[rq.s] ELSE [srv[rq.s] EXCEPT !.next = @ + 1]

StdioSend ==
    /\ rq.pc = "send" /\ ~wire[rq.s].http /\ srv[rq.s].next < MaxIds
    /\ LET v == Numbered
           p == v.pid
           id == IF rq.what = "initialized" THEN 0 ELSE v.next
       IN  \/ /\ mproc[p].st = "runs" /\ ~mbreak /\ UNCHANGED bad
              /\ IF id = 0 THEN After1(v, [mproc EXCEPT ![p] = Whole(p, 0)], TRUE, FALSE, FALSE)
                 ELSE /\ srv' = [srv EXCEPT ![rq.s] = v]
                      /\ mproc' = [mproc EXCEPT ![p] = Whole(p, id)]
                      /\ rq' = [rq EXCEPT !.pc = "read", !.id = id,
                                          !.ran = IF rq.what = "call" /\ ~mproc[p].torn THEN @ + 1 ELSE @]
           \/ /\ mbreak \/ mproc[p].st # "runs" \/ bad < MaxBad
              /\ \E q \in Cut(p) :
                    After1(v, [mproc EXCEPT ![p] = q], FALSE, FALSE, FALSE)
              /\ bad' = IF mbreak \/ mproc[p].st # "runs" THEN bad ELSE bad + 1
    /\ UNCHANGED <<conf, known, noticed, wire, mbreak, edits, uses>>

\* mcp_read_line, when no whole line is in the buffer: some lines, a part of one, or the end.
\* `half` is the process that wrote the part: the first line of another one is joined to it.
Joined(v, lines) ==
    [v EXCEPT !.buf = IF v.half \in {0, v.pid} THEN lines
                      ELSE <<[k |-> "junk", id |-> 0, from |-> v.pid]>> \o Tail(lines),
              !.half = 0]

StdioRead ==
    /\ rq.pc = "read" /\ srv[rq.s].buf = <<>> /\ ~mbreak
    /\ LET v == srv[rq.s]
           p == v.pid
       IN  \/ /\ mproc[p].out # <<>>
              /\ \/ \E n \in 1..Len(mproc[p].out) :
                       /\ srv' = [srv EXCEPT ![rq.s] = Joined(v, SubSeq(mproc[p].out, 1, n))]
                       /\ mproc' = [mproc EXCEPT ![p].out = SubSeq(@, n + 1, Len(@))]
                 \/ /\ v.half = 0 /\ srv' = [srv EXCEPT ![rq.s].half = p] /\ UNCHANGED mproc
              /\ UNCHANGED rq
           \/ /\ mproc[p].out = <<>> /\ mproc[p].st # "runs"
              /\ After1([v EXCEPT !.broken = TRUE], mproc, FALSE, FALSE, FALSE)
    /\ UNCHANGED <<conf, known, noticed, wire, mbreak, edits, uses, bad>>

\* The wait ends at the deadline or on an interrupt. The server is told, unless the stream is
\* broken or the request is the handshake's; a part of a line left in the buffer breaks it.
StdioGivesUp ==
    /\ rq.pc = "read" /\ srv[rq.s].buf = <<>>
    /\ mbreak \/ mproc[srv[rq.s].pid].out = <<>> \/ srv[rq.s].half # 0
    /\ LET v == srv[rq.s]
           p == v.pid
           w == [v EXCEPT !.broken = @ \/ ~mbreak \/ v.half # 0]
       IN  \E q \in IF rq.what = "initialize" \/ v.broken THEN {mproc[p]} ELSE Cut(p) \cup {Whole(p, 0)} :
              After1(w, [mproc EXCEPT ![p] = q], FALSE, FALSE, FALSE)
    /\ UNCHANGED <<conf, known, noticed, wire, mbreak, edits, uses, bad>>

\* A line: the answer to this request, or to one nobody waits for any more, a request of the
\* server, which is answered, or no message at all.
\* A bug: a request of the server with the id of ours is taken for the answer.
IsAnswer_ByIdOnly(i, id) == i.k # "junk" /\ i.id = id

IsAnswer(i, id) == i.k \in {"ok", "error"} /\ i.id = id

StdioLine ==
    /\ rq.pc = "read" /\ srv[rq.s].buf # <<>>
    /\ LET i == Head(srv[rq.s].buf)
           v == [srv[rq.s] EXCEPT !.buf = Tail(@)]
           p == v.pid
       IN  CASE IsAnswer(i, rq.id) ->
                    \E m, l \in BOOLEAN : After1(v, mproc, i.k = "ok", m, l)
             [] i.k = "junk" -> After1([v EXCEPT !.broken = TRUE], mproc, FALSE, FALSE, FALSE)
             [] OTHER -> /\ srv' = [srv EXCEPT ![rq.s] = v] /\ UNCHANGED rq
                         /\ \E q \in IF i.k = "ask" THEN Cut(p) \cup {Whole(p, 0)} ELSE {mproc[p]} :
                               mproc' = [mproc EXCEPT ![p] = q]
    /\ UNCHANGED <<conf, known, noticed, wire, mbreak, edits, uses, bad>>

\* mcp_http_send and the recovery of mcp_request: only an answer that the session is unknown,
\* to a request that ran nothing, is followed by a new session and one more try. A reply comes
\* on the connection of its request, so ids are left out.
Recovers == rq.again = "none" /\ ~rq.resent /\ rq.what # "initialized"

\* A bug: a transport that failed is tried again as well.
Retries_Broken(outcome) == outcome \in {"expired", "broken"}

Retries(outcome) == outcome = "expired"

HttpPost ==
    /\ rq.pc = "send" /\ wire[rq.s].http
    /\ \E runs \in BOOLEAN :
          rq' = [rq EXCEPT !.pc = "posted", !.did = runs, !.ran = IF rq.what = "call" /\ runs THEN @ + 1 ELSE @]
    /\ UNCHANGED <<conf, known, noticed, wire, srv, mproc, mbreak, edits, uses, bad>>

HttpReply ==
    /\ rq.pc = "posted"
    /\ \E outcome \in {"ok", "error", "broken", "expired", "interrupted"}, hello \in BOOLEAN :
          LET v == [srv[rq.s] EXCEPT !.broken = @ \/ outcome = "broken",
                                     !.session = (@ /\ outcome # "expired") \/ hello]
          IN  /\ outcome = "interrupted" => mbreak
              /\ outcome = "expired" => srv[rq.s].session /\ ~rq.did
              /\ outcome = "ok" => rq.did
              /\ hello => outcome = "ok" /\ rq.what = "initialize"
              /\ outcome \in {"error", "broken", "expired"} => bad < MaxBad
              /\ bad' = IF outcome \in {"ok", "interrupted"} THEN bad ELSE bad + 1
              /\ IF Retries(outcome) /\ Recovers
                 THEN Next1(v, mproc, [rq EXCEPT !.pc = "send", !.what = "initialize", !.again = rq.what])
                 ELSE \E m, l \in BOOLEAN :
                         /\ outcome # "error" => ~m /\ ~l
                         /\ After1(v, mproc, outcome = "ok", m, l)
    /\ UNCHANGED <<conf, known, noticed, wire, mbreak, edits, uses>>

--------------------------------------------------------------------------------
Command == rq.pc = "idle" /\ edits + uses < MaxDeeds /\ uses' = uses + 1

\* A call of a tool, or a read of resources or prompts.
McpUse == /\ Command
          /\ \E s \in Server, what \in {"call", "read"} :
                srv[s].status = "ready" /\ rq' = [Ask(what, "none") EXCEPT !.s = s]
          /\ UNCHANGED <<conf, known, noticed, wire, srv, mproc, mbreak, edits, bad>>

\* mcp_manage: /mcp approve, reject, disable and restart.
Approve(s) == /\ Command /\ Present(s) /\ wire[s].project
              /\ known' = [known EXCEPT ![s] = srv[s].print]
              /\ srv' = [srv EXCEPT ![s].status = "pending"]
              /\ UNCHANGED <<conf, noticed, wire, mproc, rq, mbreak, edits, bad>>

Reject(s)  == /\ Command /\ Present(s)
              /\ known' = [known EXCEPT ![s] = 0]
              /\ srv' = [srv EXCEPT ![s] = [TakenDown(s, @) EXCEPT !.status = "rejected"]]
              /\ mproc' = LessProcess(mproc, srv[s])
              /\ UNCHANGED <<conf, noticed, wire, rq, mbreak, edits, bad>>

Disable(s) == /\ Command /\ Present(s)
              /\ srv' = [srv EXCEPT ![s] = [TakenDown(s, @) EXCEPT !.status = "disabled"]]
              /\ mproc' = LessProcess(mproc, srv[s])
              /\ UNCHANGED <<conf, known, noticed, wire, rq, mbreak, edits, bad>>

Restart(s) == /\ Command /\ Present(s) /\ srv[s].status \notin {"unapproved", "rejected"}
              /\ Connect(s, "restart", TakenDown(s, srv[s]), LessProcess(mproc, srv[s]))
              /\ UNCHANGED <<conf, known, noticed, wire, mbreak, edits, bad>>

McpShutdown == /\ rq.pc = "idle"
               /\ srv' = [s \in Server |-> Stopped(s, srv[s])]
               /\ mproc' = [p \in Pid |-> IF \E s \in Server : srv[s].pid = p
                                          THEN Gone(mproc[p]) ELSE mproc[p]]
               /\ rq' = [Nothing EXCEPT !.pc = "quit"]
               /\ UNCHANGED <<conf, known, noticed, wire, mbreak, edits, uses, bad>>

--------------------------------------------------------------------------------
\* The user edits mcp.json; the stamp is the second of the edit and the size.
Edit == /\ edits + uses < MaxDeeds /\ rq.pc # "quit"
        /\ \E s \in Server, e \in [print : {0, edits + 1}, kind : {"on", "off", "bad"}] :
              conf[s] # e /\ conf' = [conf EXCEPT ![s] = e]
        /\ noticed' \in {noticed, FALSE} /\ edits' = edits + 1
        /\ UNCHANGED <<known, wire, srv, mproc, rq, mbreak, uses, bad>>

McpBreak == /\ rq.pc \notin {"idle", "quit"} /\ ~mbreak /\ mbreak' = TRUE
            /\ UNCHANGED <<conf, known, noticed, wire, srv, mproc, rq, edits, uses, bad>>

McpTurnOver == /\ rq.pc = "idle" /\ mbreak /\ mbreak' = FALSE
               /\ UNCHANGED <<conf, known, noticed, wire, srv, mproc, rq, edits, uses, bad>>

\* The server process: it answers what it was asked in any order, or late, says something
\* nobody asked for, or ends.
Writes1(p, i) == mproc' = [mproc EXCEPT ![p].out = Append(@, i), ![p].asked = @ \ (IF i.k \in {"ok", "error"} THEN {i.id} ELSE {})]

ServerSays(p) ==
    /\ mproc[p].st = "runs" /\ Len(mproc[p].out) < 2
    /\ \/ \E id \in mproc[p].asked, k \in {"ok", "error"} :
             Writes1(p, [k |-> k, id |-> id, from |-> p]) /\ UNCHANGED bad
       \/ \E id \in {0} \cup mproc[p].asked, k \in {"ask", "note", "junk"} :
             bad < MaxBad /\ Writes1(p, [k |-> k, id |-> id, from |-> p]) /\ bad' = bad + 1
    /\ UNCHANGED <<conf, known, noticed, wire, srv, rq, mbreak, edits, uses>>

ServerEnds(p) == /\ mproc[p].st = "runs"
                 /\ mproc' = [mproc EXCEPT ![p].st = "dead", ![p].asked = {},
                                           ![p].out = IF srv[mproc[p].of].half = p THEN <<>> ELSE @]
                 /\ UNCHANGED <<conf, known, noticed, wire, srv, rq, mbreak, edits, uses, bad>>

McpStep == RefreshOver \/ McpConnect \/ StdioSend \/ StdioRead \/ StdioGivesUp \/ StdioLine \/ HttpPost \/ HttpReply

McpNext == \/ McpStep \/ McpRefresh \/ McpUse \/ McpShutdown \/ Edit \/ McpBreak \/ McpTurnOver
           \/ \E s \in Server : Approve(s) \/ Reject(s) \/ Disable(s) \/ Restart(s)
           \/ \E p \in Pid : ServerSays(p) \/ ServerEnds(p)

McpSpec == McpInit /\ [][McpNext]_mcpVars

--------------------------------------------------------------------------------
McpTypeOK ==
    /\ conf \in [Server -> [print : 0..MaxDeeds, kind : {"on", "off", "bad"}]]
    /\ known \in [Server -> 0..MaxDeeds] /\ edits + uses \in 0..MaxDeeds /\ noticed \in BOOLEAN
    /\ \A s \in Server :
          /\ srv[s].status \in {"none", "pending", "unapproved", "rejected", "disabled", "failed", "ready", "removed"}
          /\ srv[s].pid \in 0..MaxProcs /\ srv[s].next \in 0..MaxIds
          /\ srv[s].half \in 0..MaxProcs /\ \A k \in 1..Len(srv[s].buf) : srv[s].buf[k] \in Item
    /\ \A p \in Pid : mproc[p].st \in {"none", "runs", "dead", "gone"} /\ mproc[p].asked \subseteq 1..MaxIds
    /\ rq.pc \in {"idle", "refresh", "send", "read", "posted", "quit"}

\* A request is answered by its own server process: a late answer to a request that was given
\* up, a request of the server that carries the same id, or a line left of a process that was
\* replaced is never taken for the answer (mcp_stdio_request; tests/cases/test_mcp.py: "a ping
\* that reuses the call's id gets a reply; the real answer wins").
OwnAnswer ==
    [][(rq.pc = "read" /\ ~wire[rq.s].http /\ srv[rq.s].buf # <<>> /\ rq' # rq)
          => LET i == Head(srv[rq.s].buf)
             IN  i.k # "junk" => i.from = srv[rq.s].pid /\ i.k \in {"ok", "error"} /\ i.id = rq.id]_mcpVars

\* A tool call runs at most once, whatever expires, breaks or is interrupted on its way.
CallRunsOnce == rq.ran <= 1
=============================================================================

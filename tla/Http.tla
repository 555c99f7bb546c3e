--------------------------------- MODULE Http ----------------------------------
(* http.c: transfers through libcurl. One request to a provider (http_post: a stream of
   lines, or a reply read whole) or to an MCP server (http_rpc: a stream of events, or a
   reply read whole), whose bytes arrive cut anywhere; and several pages fetched at once
   (http_url_get_many). libcurl may hand over more than one piece before it returns.

   A body is a sequence of bytes, of which "d" stands for the field name "data". Who hears
   a line or an event with "z" in it says that this was the last. *)
EXTENDS Naturals, Sequences, FiniteSets, SequencesExt, Functions

CONSTANTS
    StreamBody,   \* bodies the peer may send
    ErrBytes,     \* AGENT_MAX_ERROR_BODY
    LineRoom,     \* bytes of a line that fit in memory
    RpcBytes,     \* HttpRpc.max_bytes
    QuietLimit,   \* stream_timeout_ms, in ticks
    Get,          \* pages fetched at once
    GetBytes      \* HttpUrlReq.max_bytes, in pieces

ASSUME HttpAssumption == QuietLimit \in Nat /\ ErrBytes \in Nat /\ RpcBytes \in Nat /\ LineRoom \in Nat /\ GetBytes \in Nat

VARIABLES
    xfer,    \* the request: Ctx or RpcCtx, HttpReq or HttpRpc
    fed,     \* what was made of the bytes that came
    gets,    \* UrlXfer, of each page
    many,    \* http_url_get_many: where it is
    hflag    \* interrupt_flag

httpVars == <<xfer, fed, gets, many, hflag>>

--------------------------------------------------------------------------------
Kind == {"lines", "whole", "events", "reply"}
IsRpc == xfer.kind \in {"events", "reply"}
Fed0 == [line |-> <<>>, data |-> <<>>, event |-> FALSE, halt |-> FALSE, full |-> FALSE, heard |-> <<>>, out |-> <<>>,
         err |-> <<>>]
Get0 == [st |-> "none", status |-> 0, size |-> 0, fails |-> FALSE, public |-> TRUE, blocked |-> FALSE, large |-> FALSE,
         met |-> {}, result |-> "none"]

HttpInit ==
    /\ \E k \in Kind, b \in StreamBody :
          xfer = [kind |-> k, body |-> b, at |-> 0, status |-> 0, running |-> TRUE, failed |-> FALSE, stop |-> FALSE,
                  oom |-> FALSE, large |-> FALSE, quiet |-> 0, late |-> FALSE, pc |-> "perform", result |-> "none"]
    /\ fed = Fed0 /\ gets = [g \in Get |-> Get0] /\ many = "begin" /\ hflag = FALSE

Stops(l) == "z" \in Range(l)
Ok(status) == status \in 200 .. 299
UpTo(s, n) == SubSeq(s, 1, IF n < Len(s) THEN n ELSE Len(s))
IsError(status) == status # 0 /\ ~Ok(status)

--------------------------------------------------------------------------------
(* What is made of the bytes. *)

\* A line without the carriage return it may end with.
Stripped(l) == IF l # <<>> /\ Last(l) = "cr" THEN Front(l) ELSE l
Hears(s, what) == [s EXCEPT !.heard = Append(@, what), !.halt = Stops(what)]

\* rpc_event_end and rpc_sse_line.
EventEnd(s) ==
    IF ~s.event THEN s
    ELSE LET t == [s EXCEPT !.event = FALSE, !.data = <<>>]
         IN  IF s.data = <<>> THEN t ELSE Hears(t, s.data)
Field(s, l) ==
    IF l = <<>> THEN EventEnd(s)
    ELSE IF l[1] # "d" THEN s
    ELSE LET data == IF s.data = <<>> THEN Tail(l) ELSE s.data \o <<"nl">> \o Tail(l)
         IN  [s EXCEPT !.data = data, !.event = TRUE, !.full = Len(data) > LineRoom]

\* dispatch_line and rpc_body_cb: a line goes on where the last piece left it. The bug form
\* begins every piece with a new line.
Begun_Anew(s) == [s EXCEPT !.halt = FALSE, !.line = <<>>]
Begun1(s) == [s EXCEPT !.halt = FALSE]
LineOver(s, l) ==
    LET t == [s EXCEPT !.line = <<>>] IN IF xfer.kind = "lines" THEN Hears(t, l) ELSE Field(t, l)
Byte(s, c) ==
    IF s.halt \/ s.full THEN s
    ELSE IF c = "nl" THEN LineOver(s, Stripped(s.line))
    ELSE [s EXCEPT !.line = Append(@, c), !.full = Len(s.line) = LineRoom]
Dispatched(s, piece) == FoldLeft(Byte, Begun1(s), piece)

--------------------------------------------------------------------------------
(* libcurl calls back while curl_multi_perform runs. *)

Performs == xfer.pc = "perform" /\ xfer.running

\* status_header_cb and rpc_header: an interim answer is followed by another.
HttpHeader ==
    /\ Performs /\ xfer.at = 0 /\ xfer.status \in {0, 100}
    /\ \E s \in {100, 200, 302, 404} \ {xfer.status} :
          xfer' = [xfer EXCEPT !.status = s, !.quiet = 0]
    /\ fed' = [fed EXCEPT !.err = <<>>, !.out = IF IsRpc THEN <<>> ELSE @]
    /\ UNCHANGED <<gets, many, hflag>>

\* write_cb, body_cb and rpc_body_cb: the next piece of the body.
HttpPiece ==
    /\ Performs /\ xfer.status \notin {0, 100}
    /\ \E n \in 1 .. Len(xfer.body) - xfer.at :
          LET piece == SubSeq(xfer.body, xfer.at + 1, xfer.at + n)
              x == [xfer EXCEPT !.at = @ + n, !.quiet = 0, !.late = @ \/ xfer.stop]
              large == IsRpc /\ x.at > RpcBytes
              f == CASE large -> fed
                     [] xfer.kind = "lines" /\ IsError(xfer.status) ->
                            [fed EXCEPT !.err = UpTo(@ \o piece, ErrBytes)]
                     [] xfer.kind \in {"whole", "reply"} -> [fed EXCEPT !.out = @ \o piece]
                     [] OTHER -> Dispatched(fed, piece)
              oom == f.full
          IN  /\ fed' = f
              /\ xfer' = [x EXCEPT !.large = large, !.oom = oom, !.stop = @ \/ f.halt,
                                   !.running = ~large /\ ~oom, !.failed = large \/ oom]
    /\ UNCHANGED <<gets, many, hflag>>

\* The peer ends the body, or the connection fails before or after that.
HttpEnds ==
    /\ Performs
    /\ \E failed \in BOOLEAN :
          /\ ~failed => xfer.status \notin {0, 100} /\ xfer.at = Len(xfer.body)
          /\ xfer' = [xfer EXCEPT !.running = FALSE, !.failed = failed]
    /\ UNCHANGED <<fed, gets, many, hflag>>

\* A tick without a byte.
HttpQuiet ==
    /\ Performs /\ xfer.quiet <= QuietLimit /\ xfer' = [xfer EXCEPT !.quiet = @ + 1]
    /\ UNCHANGED <<fed, gets, many, hflag>>

HttpBreak == ~hflag /\ hflag' = TRUE /\ UNCHANGED <<xfer, fed, gets, many>>

--------------------------------------------------------------------------------
(* After curl_multi_perform. *)

Stalls == xfer.kind = "lines" /\ xfer.running /\ xfer.quiet > QuietLimit

\* The last line needs no line end, if the transfer went well. The bug form never looks.
Flushes_Ever(well) == TRUE
Flushes(well) == well
\* Without the carriage return, but for the last line of events.
Flush(s, well) ==
    IF ~Flushes(well) THEN s
    ELSE CASE xfer.kind = "lines" -> IF s.line = <<>> THEN s ELSE Dispatched(s, <<"nl">>)
           [] xfer.kind = "events" -> EventEnd(IF s.line = <<>> THEN s ELSE LineOver(s, s.line))
           [] OTHER -> s

\* What http_post and http_rpc return.
Outcome(struck, stalled) ==
    CASE struck -> "interrupted"
      [] ~struck /\ (xfer.oom \/ xfer.large \/ stalled \/ (xfer.failed /\ ~xfer.stop)) -> "failed"
      [] OTHER -> IF xfer.status = 302 /\ ~IsRpc THEN "redirect"
                  ELSE IF Ok(xfer.status) THEN "ok" ELSE "status"

HttpLook ==
    /\ xfer.pc = "perform" /\ UNCHANGED <<gets, many, hflag>>
    /\ LET struck == ~xfer.stop /\ hflag
           stalled == ~xfer.stop /\ ~hflag /\ Stalls
       IN  /\ xfer.stop \/ struck \/ stalled \/ ~xfer.running
           /\ xfer' = [xfer EXCEPT !.pc = "over", !.running = FALSE, !.failed = @ \/ stalled, !.result = Outcome(struck, stalled)]
           /\ fed' = Flush(fed, ~struck /\ ~stalled /\ ~xfer.stop /\ ~xfer.failed)

--------------------------------------------------------------------------------
(* Pages. *)

\* url_setup: a page that cannot be asked for fails alone.
GetsBegin ==
    /\ many = "begin"
    /\ \E bad \in SUBSET Get, guarded \in SUBSET Get :
          gets' = [g \in Get |-> IF g \in bad THEN [Get0 EXCEPT !.st = "over", !.result = "failed"]
                                 ELSE [Get0 EXCEPT !.st = "live", !.public = g \in guarded]]
    /\ many' = "perform" /\ UNCHANGED <<xfer, fed, hflag>>

Live1(g) == many = "perform" /\ gets[g].st = "live"
GetStep(g, v) == gets' = [gets EXCEPT ![g] = v] /\ UNCHANGED <<xfer, fed, many, hflag>>

\* public_open_cb, for the page and for whatever it redirects to.
GetConnects(g) ==
    /\ Live1(g) /\ gets[g].size = 0
    /\ \E where \in {"public", "private"} \ gets[g].met :
          IF gets[g].public /\ where = "private" THEN GetStep(g, [gets[g] EXCEPT !.blocked = TRUE, !.fails = TRUE, !.st = "done"])
          ELSE GetStep(g, [gets[g] EXCEPT !.met = @ \cup {where}])
GetAnswers(g) ==
    /\ Live1(g) /\ gets[g].met # {} /\ gets[g].status = 0
    /\ \E s \in {200, 404} : GetStep(g, [gets[g] EXCEPT !.status = s])
\* url_body_cb.
GetPiece(g) ==
    /\ Live1(g) /\ gets[g].status # 0
    /\ GetStep(g, IF gets[g].size = GetBytes THEN [gets[g] EXCEPT !.large = TRUE, !.fails = TRUE, !.st = "done"]
                  ELSE [gets[g] EXCEPT !.size = @ + 1])
GetEnds(g) ==
    /\ Live1(g)
    /\ \E fails \in BOOLEAN : (fails \/ gets[g].status # 0) /\ GetStep(g, [gets[g] EXCEPT !.st = "done", !.fails = fails])

\* url_finish. The bug form looks at the interrupt only where nothing was done.
Struck_Undone(v, struck) == struck /\ v.st = "live"
Struck1(v, struck) == struck
Finished(v, struck) ==
    LET fails == v.fails \/ v.st = "live"
    IN  IF v.st = "over" THEN v
        ELSE IF Struck1(v, struck) THEN [v EXCEPT !.st = "over", !.result = "interrupted", !.size = 0]
        ELSE IF fails THEN [v EXCEPT !.st = "over", !.size = 0,
                                     !.result = IF v.large THEN "large" ELSE IF v.blocked THEN "not public" ELSE "failed"]
        ELSE [v EXCEPT !.st = "over", !.result = IF Ok(v.status) THEN "ok" ELSE "status"]

\* Every page is done with, the user broke in, or libcurl gave up.
GetsOver ==
    /\ many = "perform" /\ UNCHANGED <<xfer, fed, hflag>>
    /\ \/ hflag /\ gets' = [g \in Get |-> Finished(gets[g], TRUE)]
       \/ ~hflag /\ gets' = [g \in Get |-> Finished(gets[g], FALSE)]
    /\ many' = "over"

StreamNext == HttpHeader \/ HttpPiece \/ HttpEnds \/ HttpQuiet \/ HttpBreak \/ HttpLook
GetsNext ==
    \/ GetsBegin \/ GetsOver \/ HttpBreak
    \/ \E g \in Get : GetConnects(g) \/ GetAnswers(g) \/ GetPiece(g) \/ GetEnds(g)

--------------------------------------------------------------------------------
\* Every variable has its type.
HttpTypeOK ==
    /\ xfer.kind \in Kind /\ xfer.at \in 0 .. Len(xfer.body) /\ xfer.quiet \in 0 .. QuietLimit + 1
    /\ Len(fed.err) <= ErrBytes /\ \A g \in Get : gets[g].size <= GetBytes
    /\ many \in {"begin", "perform", "over"} /\ hflag \in BOOLEAN

\* The lines of a body read at once, and what follows the last line end.
Ends1(b) == {0} \cup {i \in DOMAIN b : b[i] = "nl"}
LinesOf(b) ==
    LET ends == SetToSortSeq(Ends1(b), <)
    IN  [i \in 1 .. Len(ends) - 1 |-> Stripped(SubSeq(b, ends[i] + 1, ends[i + 1] - 1))]
LastLine(b) == SubSeq(b, (CHOOSE m \in Ends1(b) : \A i \in Ends1(b) : i <= m) + 1, Len(b))

\* The events of these lines: what the fields between two empty lines say.
SaidBy(ls) ==
    FoldLeft(LAMBDA d, l : IF l[1] # "d" THEN d ELSE IF d = <<>> THEN Tail(l) ELSE d \o <<"nl">> \o Tail(l), <<>>, ls)
EventsOf(ls) ==
    LET ends == SetToSortSeq({0} \cup {i \in DOMAIN ls : ls[i] = <<>>}, <)
    IN  SelectSeq([i \in 1 .. Len(ends) - 1 |-> SaidBy(SubSeq(ls, ends[i] + 1, ends[i + 1] - 1))], LAMBDA d : d # <<>>)

Came == SubSeq(xfer.body, 1, xfer.at)
Heard1(ls) == IF xfer.kind = "lines" THEN ls ELSE EventsOf(ls)
\* With the line that ends with the body.
InAll ==
    IF xfer.kind = "lines" THEN LinesOf(Came) \o (IF LastLine(Came) = <<>> THEN <<>> ELSE <<Stripped(LastLine(Came))>>)
    ELSE EventsOf(Append(IF LastLine(Came) = <<>> THEN LinesOf(Came) ELSE Append(LinesOf(Came), LastLine(Came)), <<>>))
Stopped1 == {i \in DOMAIN fed.heard : Stops(fed.heard[i])}

\* However the bytes are cut, each line or event is heard once, whole and in order, until one is
\* the last; what a failed transfer left of a line is never heard, and a reply that counts as
\* received is complete. Of an answer that is an error the beginning is kept instead.
HeardTrue ==
    CASE xfer.kind \in {"whole", "reply"} ->
            fed.heard = <<>> /\ (xfer.result = "ok" => fed.out = xfer.body)
      [] xfer.kind = "lines" /\ IsError(xfer.status) ->
            fed.heard = <<>> /\ fed.err = UpTo(Came, ErrBytes)
      [] OTHER ->
            /\ Stopped1 = {} =>
                  IF xfer.oom \/ xfer.large THEN IsPrefix(fed.heard, Heard1(LinesOf(Came)))
                  ELSE fed.heard = IF xfer.result \in {"ok", "status"} THEN InAll ELSE Heard1(LinesOf(Came))
            /\ Stopped1 # {} =>
                  LET first == CHOOSE i \in Stopped1 : \A j \in Stopped1 : i <= j
                  IN  /\ IsPrefix(SubSeq(fed.heard, 1, first), InAll)
                      /\ xfer.late \/ first = Len(fed.heard)

\* A page is given whole or not at all; one that has to be public never came from elsewhere,
\* wherever it was redirected; and when the user breaks in, every page says so.
PagesTrue ==
    \A g \in Get :
        /\ gets[g].public => gets[g].met \subseteq {"public"}
        /\ many = "over" =>
              /\ gets[g].size > 0 => gets[g].result \in {"ok", "status"} /\ ~gets[g].fails
              /\ gets[g].result \in {"ok", "status"} => gets[g].status # 0 /\ ~\E o \in Get : gets[o].result = "interrupted"

\* What is taken for received is what was sent.
TransfersTrue == HeardTrue /\ PagesTrue
===============================================================================

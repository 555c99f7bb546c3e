--------------------------------- MODULE Web ---------------------------------
(* page_fetch and internet_search (web.c): the pages kept on disk for a while, whose
   files an answer may have named for the model to read, and the chain of search
   engines, each of which is left alone for longer after every refusal in a row.

   Time is a clock of ticks; a copy of a page is known by the tick it was fetched at. *)
EXTENDS Naturals, Sequences, FiniteSets, SequencesExt

CONSTANTS
    Url,          \* pages asked for
    Entries,      \* WEB_CACHE_ENTRIES
    Ttl,          \* AGENT_WEB_CACHE_SECONDS, in ticks
    Chain,        \* g_search.chain: the engines in order
    Interval,     \* AGENT_WEB_SEARCH_INTERVAL_MS
    Pauses,       \* search_pause_ms: the pause after the first, second and any later refusal
    MaxClock,     \* bound: ticks
    MaxFetches    \* bound: pages fetched

ASSUME WebAssumption == Len(Pauses) = 3 /\ Entries \in Nat \ {0} /\ \A i \in 1 .. 2 : Pauses[i] <= Pauses[i + 1]

VARIABLES
    pages,     \* g_page_cache.entry, the least recently used first
    files,     \* spill files that exist, by the address whose hash names them (spill_names)
    named,     \* of the model: files whose present copy an answer gave to the model to read
    gone,      \* of the model: files of which the program removed such a copy
    engine,    \* g_search: paused until, strikes, started, of every engine
    search,    \* internet_search_run: the engine it is at, 0 when none runs
    refused,   \* of the model: refusals in a row, and when the last one came
    asked,     \* of the model: the last request to an engine, and the refusals before it
    clock, fetches

webVars == <<pages, files, named, gone, engine, search, refused, asked, clock, fetches>>
pageVars == <<pages, files, named, gone, fetches>>
searchVars == <<engine, search, refused, asked>>

--------------------------------------------------------------------------------
Engines == ToSet(Chain)
Calm == [count |-> 0, at |-> 0]

WebInit ==
    /\ pages = <<>> /\ files = {} /\ named = {} /\ gone = {} /\ fetches = 0 /\ clock = 1
    /\ engine = [e \in Engines |-> [paused |-> 0, strikes |-> 0, started |-> 0]]
    /\ search = 0
    /\ refused = [e \in Engines |-> Calm]
    /\ asked = [at |-> 0, row |-> Calm]

Pass == clock < MaxClock /\ clock' = clock + 1 /\ UNCHANGED <<pageVars, searchVars>>

--------------------------------------------------------------------------------
(* Pages kept. *)

Expired(e) == clock - e.at >= Ttl
\* web_cache_drop: a file an answer named outlives its entry. The bug form: it goes as well.
Unlinks_Named(es) == {e.url : e \in es}
Unlinks(es) == {e.url : e \in {x \in es : ~x.named}}

\* web_cache_find: entries past their time go, and the page asked for is the first of the others,
\* by the address it was asked under or the one it ended at.
Unexpired == SelectSeq(pages, LAMBDA e : ~Expired(e))
Hit(u) == {i \in DOMAIN Unexpired : Unexpired[i].url = u \/ Unexpired[i].effective = u}
Loads(e) == e.url \in files

DropAll(es) == files' = files \ Unlinks(es) /\ gone' = gone \cup (Unlinks(es) \cap files \cap named)

\* page_answer: an answer that leaves out some of the page names the file; the whole page does not.
Answer(e, leaves) == [e EXCEPT !.named = @ \/ leaves]
Recent(s, i, e) == Append(SelectSeq(s, LAMBDA x : x # s[i]), e)

\* page_fetch_run with a copy that can still be read.
FetchKept(u, leaves) ==
    \E i \in Hit(u) :
        /\ i = Min(Hit(u)) /\ Loads(Unexpired[i])
        /\ pages' = Recent(Unexpired, i, Answer(Unexpired[i], leaves))
        /\ DropAll({e \in ToSet(pages) : Expired(e)})
        /\ named' = IF leaves THEN named \cup {Unexpired[i].url} ELSE named
        /\ UNCHANGED <<fetches, clock, searchVars>>

\* web_cache_store: in the place of this address, in a free one, or in that of the page used the
\* longest ago; the bug form takes a place that is not there. spill_open removes the file of this
\* address, and one that cannot be written leaves the place free.
PlaceFor_OneMore(s, u) ==
    IF \E i \in DOMAIN s : s[i].url = u THEN SelectSeq(s, LAMBDA e : e.url # u)
    ELSE IF Len(s) <= Entries THEN s ELSE Tail(s)
PlaceFor(s, u) ==
    LET mine == {i \in DOMAIN s : s[i].url = u}
    IN  IF mine # {} THEN SelectSeq(s, LAMBDA e : e.url # u)
        ELSE IF Len(s) < Entries THEN s ELSE Tail(s)
PageStored(s, u, to, leaves) ==
    /\ fetches < MaxFetches /\ fetches' = fetches + 1
    /\ LET kept == PlaceFor(s, u)
           lost == ToSet(pages) \ ToSet(kept)
       IN  /\ gone' = gone \cup (Unlinks(lost) \cap files \cap named)
           /\ \/ /\ pages' = Append(kept, [url |-> u, effective |-> to, at |-> clock, named |-> leaves])
                 /\ files' = (files \ Unlinks(lost)) \cup {u}
                 /\ named' = IF leaves THEN named \cup {u} ELSE named \ {u}
              \/ pages' = kept /\ files' = files \ (Unlinks(lost) \cup {u}) /\ named' = named \ {u}

\* page_fetch_run that has to ask the server: it may be sent on to another address, and the request
\* or its extraction may fail.
FetchAnew(u, leaves) ==
    LET unread == {i \in Hit(u) : i = Min(Hit(u))}
        left == SelectSeq(Unexpired, LAMBDA e : \A i \in unread : e # Unexpired[i])
    IN  /\ \A i \in unread : ~Loads(Unexpired[i])
        /\ UNCHANGED <<clock, searchVars>>
        /\ \/ \E to \in Url : PageStored(left, u, to, leaves)
           \/ pages' = left /\ DropAll(ToSet(pages) \ ToSet(left)) /\ UNCHANGED <<named, fetches>>

\* Somebody else empties the temporary directory, and web_cache_clear at the end of the program.
FileLost == \E f \in files : files' = files \ {f} /\ UNCHANGED <<pages, named, gone, fetches, clock, searchVars>>
CacheClear ==
    /\ pages # <<>> /\ pages' = <<>> /\ DropAll(ToSet(pages))
    /\ UNCHANGED <<named, fetches, clock, searchVars>>

--------------------------------------------------------------------------------
(* Searching. *)

SearchStart == search = 0 /\ search' = 1 /\ UNCHANGED <<engine, refused, asked, clock, pageVars>>

Onward == IF search = Len(Chain) THEN 0 ELSE search + 1
Now == Chain[search]
Earliest(e) == IF engine[e].started = 0 THEN 0 ELSE engine[e].started + Interval

\* search_admit: an engine that is paused is passed over; one asked a moment ago is waited for,
\* and an interrupt ends the wait.
PassOver ==
    /\ search # 0 /\ search' = Onward /\ UNCHANGED <<engine, refused, asked, clock, pageVars>>
    /\ engine[Now].paused > clock \/ Earliest(Now) > clock

\* search_pause. The bug form forgets that the pause is for refusals in a row.
Paused_Flat(e) == [e EXCEPT !.paused = Max({@, clock + Pauses[1]})]
Paused(e) == [e EXCEPT !.paused = Max({@, clock + Pauses[e.strikes + 1]}), !.strikes = Min({@ + 1, 2})]

\* search_backend_run: one request. 202, 403, 429 and a challenge pause the engine, any other failure
\* leaves it as it is, and an answer, with results or without, ends its row of refusals.
AskEngine ==
    /\ search # 0 /\ engine[Now].paused <= clock /\ Earliest(Now) <= clock
    /\ asked' = [at |-> clock, row |-> refused[Now]] /\ UNCHANGED <<clock, pageVars>>
    /\ LET begun == [engine[Now] EXCEPT !.started = clock]
       IN  \/ /\ engine' = [engine EXCEPT ![Now] = Paused(begun)] /\ search' = Onward
              /\ refused' = [refused EXCEPT ![Now] = [count |-> Min({@.count + 1, 3}), at |-> clock]]
           \/ /\ engine' = [engine EXCEPT ![Now] = begun] /\ UNCHANGED refused
              /\ search' \in {Onward, 0}   \* SEARCH_UNKNOWN, SEARCH_ERROR
           \/ /\ engine' = [engine EXCEPT ![Now] = [begun EXCEPT !.strikes = 0]]
              /\ refused' = [refused EXCEPT ![Now] = Calm]
              /\ search' \in {Onward, 0}

\* search_read: internet_search reads pages of its results, and names the file of none.
SearchRead(u) == FetchKept(u, FALSE) \/ FetchAnew(u, FALSE)

PagesNext ==
    \/ \E u \in Url, leaves \in BOOLEAN : FetchKept(u, leaves) \/ FetchAnew(u, leaves)
    \/ \E u \in Url : SearchRead(u)
    \/ FileLost \/ CacheClear
SearchNext == SearchStart \/ PassOver \/ AskEngine
WebNext == Pass \/ PagesNext \/ SearchNext

WebSpec == WebInit /\ [][WebNext]_webVars

--------------------------------------------------------------------------------
\* Every variable has its type; the cache holds no more pages than it has places, no two of one address.
WebTypeOK ==
    /\ Len(pages) <= Entries /\ files \subseteq Url /\ named \subseteq Url /\ gone \subseteq Url
    /\ \A i, j \in DOMAIN pages : pages[i].url = pages[j].url => i = j
    /\ \A e \in Engines : engine[e].strikes \in 0 .. 2
    /\ search \in 0 .. Len(Chain) /\ clock \in 1 .. MaxClock

\* The copy that an answer told the model to read is never removed by the program, whether its page
\* expires, gives way to another, or the program ends: only a new fetch of its address replaces it.
NamedStays == gone = {}

\* After n refusals in a row, with whatever other failures in between, an engine is not asked again
\* before the n-th pause is over.
LeftAlone == asked.row.count > 0 => asked.at >= asked.row.at + Pauses[asked.row.count]

\* What the tables of web.c remember of pages and engines is kept to.
EntriesTrue == NamedStays /\ LeftAlone
===============================================================================

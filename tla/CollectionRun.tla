---------------------------- MODULE CollectionRun ----------------------------
(***************************************************************************)
(* One collection of a website source: a breadth-first crawl that stores   *)
(* articles as evidence (server/app/ingestion/discovery.py), then the      *)
(* processing of what is new, item by item                                 *)
(* (server/app/services/collection_service.py).  What a fetched page says  *)
(* is up to the site: its kind, its links and their order are chosen when  *)
(* it is read.  Pages are canonical URLs of the source's own host and      *)
(* port; links to others are dropped before they are queued.               *)
(***************************************************************************)
EXTENDS Integers, Sequences, SequencesExt

CONSTANTS
    Root, FeedPage, MapPage, \* the source's URL, its feed, its sitemap
    Articles,  \* other pages of the site
    Allowed,   \* the pages the configured path filters admit
    Barred,    \* the pages robots.txt bars
    MaxPages,  \* the configured max_pages
    MaxDepth   \* the configured max_depth

Pages == {Root, FeedPage, MapPage} \cup Articles

ASSUME RunAssumption ==
    /\ IsFiniteSet(Articles)
    /\ MaxPages \in Nat \ {0} /\ MaxDepth \in Nat
    /\ Allowed \subseteq Pages /\ Barred \subseteq Pages

VARIABLES
    phase,   \* what the run does
    queue,   \* the entries still to visit
    seen,    \* the URLs visited
    fetched, \* the count of fetched pages
    created, \* the count of new evidence items
    counted, \* counted[k]: the items processed with outcome k
    index    \* the items whose processing was attempted

runVars == <<phase, queue, seen, fetched, created, counted, index>>

Modes == {"PAGE", "RSS", "SITEMAP", "AUTO"}
ItemOutcomes == {"finished", "filtered", "failed", "deferred"}
Entry == [url : Pages, depth : 0 .. MaxDepth, terminal : BOOLEAN]
Queued == {queue[i].url : i \in DOMAIN queue}

RunTypeOK ==
    /\ phase \in {"idle", "crawl", "process", "done", "failed"}
    /\ queue \in Seq(Entry) /\ seen \subseteq Pages
    /\ fetched \in 0 .. MaxPages
    /\ created \in 0 .. MaxPages
    /\ counted \in [ItemOutcomes -> 0 .. MaxPages]
    /\ index \in 0 .. created

RunInit ==
    /\ phase = "idle" /\ queue = <<>> /\ seen = {}
    /\ fetched = 0 /\ created = 0 /\ index = 0
    /\ counted = [k \in ItemOutcomes |-> 0]

-----------------------------------------------------------------------------
(***************************************************************************)
(* The crawl.                                                              *)
(***************************************************************************)
EntriesOf(urls, depth, terminal) ==
    [i \in DOMAIN urls |-> [url |-> urls[i], depth |-> depth, terminal |-> terminal]]

\* A URL that is a seed already is no second one.
Seeded(entries, wanted, url, terminal) ==
    IF wanted /\ \A i \in DOMAIN entries : entries[i].url # url
    THEN entries \o EntriesOf(<<url>>, 0, terminal) ELSE entries

\* The seeds of a mode, with or without a configured feed and sitemap.
Seeds(mode, feed, map) ==
    LET page == Seeded(<<>>, mode \in {"PAGE", "AUTO"}, Root, FALSE)
        feeds == Seeded(page, feed \/ mode = "RSS", IF feed THEN FeedPage ELSE Root, TRUE)
    IN Seeded(feeds, map \/ mode \in {"SITEMAP", "AUTO"},
              IF map \/ mode = "AUTO" THEN MapPage ELSE Root, TRUE)

Begin(mode, feed, map) ==
    /\ phase = "idle"
    /\ phase' = "crawl" /\ queue' = Seeds(mode, feed, map)
    /\ UNCHANGED <<seen, fetched, created, counted, index>>

\* Discovery is not enabled: the source's own page is stored as it is, or the
\* run fails.
ScrapeOnly(new) ==
    /\ phase = "idle"
    /\ \/ phase' = "process" /\ fetched' = 1 /\ created' = new
       \/ phase' = "failed" /\ UNCHANGED <<fetched, created>>
    /\ UNCHANGED <<queue, seen, counted, index>>

\* Mutant of Wanted: a link that is queued already is queued again.
WantedUnlessSeen(found, seed) ==
    {u \in found : u \notin seen \cup {Head(queue).url} /\ (seed \/ u \in Allowed)}

\* enqueue: neither seen nor queued, and admitted by the path filters, which
\* seeds escape.
Wanted(found, seed) ==
    {u \in found : u \notin seen \cup Queued /\ (seed \/ u \in Allowed)}

Open == phase = "crawl" /\ queue # <<>>

\* The head of the queue is visited; more is put behind the rest.
Visit(more, pages) ==
    /\ fetched < MaxPages
    /\ queue' = Tail(queue) \o more
    /\ seen' = seen \cup {Head(queue).url}
    /\ fetched' = fetched + pages
    /\ UNCHANGED <<phase, counted, index>>

\* Barred by robots.txt, unreachable (which is not counted as fetched), an
\* error status, an unreadable feed, or another media type.
VisitInVain ==
    /\ Open
    /\ \E pages \in IF Head(queue).url \in Barred THEN {0} ELSE {0, 1} : Visit(<<>>, pages)
    /\ UNCHANGED created

MayRead == Open /\ Head(queue).url \notin Barred

\* A feed or a sitemap lists articles, a sitemap index lists sitemaps.
ReadList(found, ofSitemaps) ==
    /\ MayRead
    /\ \E urls \in SetToSeqs(Wanted(found, ofSitemaps)) :
          Visit(EntriesOf(urls, 0, ~ofSitemaps), 1)
    /\ UNCHANGED created

\* An HTML page is an article when its entry says so or, below the first
\* level, its markup; a relevant article is stored unless it has no text.
ReadArticle(markup, new) ==
    /\ MayRead
    /\ Head(queue).terminal \/ (Head(queue).depth > 0 /\ markup)
    /\ Visit(<<>>, 1)
    /\ created' = created + new

\* Any other HTML page leads to the feeds it advertises (AUTO) and, above the
\* greatest depth, to its links.
ReadPage(feeds, links) ==
    /\ MayRead /\ ~Head(queue).terminal
    /\ \E first \in SetToSeqs(Wanted(feeds, TRUE)),
          then \in SetToSeqs(Wanted(links, FALSE) \ Wanted(feeds, TRUE)) :
          IF Head(queue).depth < MaxDepth
          THEN Visit(EntriesOf(first, 0, TRUE)
                     \o EntriesOf(then, Head(queue).depth + 1, FALSE), 1)
          ELSE Visit(<<>>, 1)
    /\ UNCHANGED created

\* store_evidence raises: nothing of what was stored is processed.
StoreFails ==
    /\ MayRead
    /\ phase' = "failed"
    /\ UNCHANGED <<queue, seen, fetched, created, counted, index>>

EndCrawl ==
    /\ phase = "crawl" /\ (queue = <<>> \/ fetched = MaxPages)
    /\ phase' = "process"
    /\ UNCHANGED <<queue, seen, fetched, created, counted, index>>

-----------------------------------------------------------------------------
(***************************************************************************)
(* collect_and_process_source after the crawl.                             *)
(***************************************************************************)
\* process_evidence returns nothing, returns a finished signal, or raises.
ProcessItem(outcome) ==
    /\ phase = "process" /\ index < created
    /\ index' = index + 1
    /\ counted' = [counted EXCEPT ![outcome] = @ + 1]
    /\ UNCHANGED <<phase, queue, seen, fetched, created>>

\* Mutant of RateLimited: only the later items are deferred.
RateLimitedAfter ==
    /\ phase = "process" /\ index < created
    /\ index' = index + 1
    /\ counted' = [counted EXCEPT !["deferred"] = @ + (created - index - 1)]
    /\ phase' = "done"
    /\ UNCHANGED <<queue, seen, fetched, created>>

\* A rate limit of the model provider defers this item and all later ones.
RateLimited ==
    /\ phase = "process" /\ index < created
    /\ index' = index + 1
    /\ counted' = [counted EXCEPT !["deferred"] = @ + (created - index)]
    /\ phase' = "done"
    /\ UNCHANGED <<queue, seen, fetched, created>>

EndRun ==
    /\ phase = "process" /\ index = created
    /\ phase' = "done"
    /\ UNCHANGED <<queue, seen, fetched, created, counted, index>>

RunStep ==
    \/ \E mode \in Modes, feed, map \in BOOLEAN : Begin(mode, feed, map)
    \/ \E new \in {0, 1} : ScrapeOnly(new)
    \/ VisitInVain
    \/ \E found \in SUBSET Pages, ofSitemaps \in BOOLEAN : ReadList(found, ofSitemaps)
    \/ \E markup \in BOOLEAN, new \in {0, 1} : ReadArticle(markup, new)
    \/ \E feeds \in SUBSET {FeedPage}, links \in SUBSET Pages : ReadPage(feeds, links)
    \/ StoreFails \/ EndCrawl
    \/ \E outcome \in ItemOutcomes \ {"deferred"} : ProcessItem(outcome)
    \/ RateLimited \/ EndRun

RunSpec == RunInit /\ [][RunStep]_runVars

-----------------------------------------------------------------------------
(***************************************************************************)
(* Properties.                                                             *)
(***************************************************************************)
\* However the pages of a site link to each other, no URL waits twice or is
\* visited twice, so a crawl of a cyclic site ends, and discovered_urls,
\* which adds the visited to the waiting, counts every URL once.  Entries
\* that are followed stay within the depth.
EachUrlOnce ==
    /\ \A i, j \in DOMAIN queue : queue[i].url = queue[j].url => i = j
    /\ Queued \cap seen = {}
    /\ Cardinality(seen) + Len(queue) <= Cardinality(Pages)

\* A run that ends has told what became of every new item, once: also of
\* those it left for later after a rate limit.
RunAccounted ==
    phase = "done" =>
        created = counted["finished"] + counted["filtered"]
                  + counted["failed"] + counted["deferred"]
=============================================================================

--------------------------- MODULE CompanionScrape ---------------------------
(***************************************************************************)
(* The companion app turns web pages into knowledge graphs                 *)
(* (backend/companion_app): requests to /scrape of its server, and the     *)
(* search script, which scrapes the pages of the latest results file one   *)
(* after the other.                                                        *)
(*                                                                         *)
(* The server and the script are two processes with one database and one   *)
(* directory.  In a process only one request runs at a time: it keeps the  *)
(* event loop until its next await, and while it waits for somebody to     *)
(* press Enter.  Crawler, model and pages are external: what they return   *)
(* is a free choice.                                                       *)
(*                                                                         *)
(* Nothing is ever put in content_extractions: both calls of               *)
(* store_extraction name a parameter config that it does not have, and the *)
(* second is not reached, since nothing is added to combined_graph.        *)
(***************************************************************************)
EXTENDS Naturals, Sequences, FiniteSets

CONSTANTS
    Pages,              \* URLs
    Requests,           \* requests to the server, each for the page it names
    PageOf,             \* the page a request names
    MaxChunks,          \* bound: chunks of the content of a page
    MaxSecond           \* bound: seconds

Server == "server"
Script == "script"
Processes == {Server, Script}

(* The script's scrape of a page is told by the page. *)
Jobs == Requests \cup Pages
UrlOf(j) == IF j \in Pages THEN j ELSE PageOf[j]
ProcessOf(j) == IF j \in Pages THEN Script ELSE Server

ASSUME CompanionAssumption ==
    /\ IsFiniteSet(Pages) /\ Requests \cap Pages = {}
    /\ PageOf \in [Requests -> Pages]
    /\ MaxChunks \in Nat \ {0} /\ MaxSecond \in Nat

VARIABLES
    second,             \* the clock, as the names of files have it
    crawledUrls,        \* pages with a row in crawled_urls
    busy,               \* the job that keeps the event loop of a process
    jobAt,              \* where a job is
    rawContent, metadata,   \* whether these are set
    chunk, chunks,      \* the chunk to do, and how many there are
    stored,             \* chunks a job was told are stored
    graphFiles,         \* directory: second and page -> job and chunk
    resultsFile,        \* the pages of the latest results file
    toScrape            \* pages the script has still to do

companionVars == <<second, crawledUrls, busy, jobAt, rawContent, metadata, chunk,
                   chunks, stored, graphFiles, resultsFile, toScrape>>

Idle == "none"
JobPlaces == {"none", "select", "insert", "raw", "json", "enter", "cosine", "prepare",
              "chunk", "returned", "raised"}
JobOver == {"none", "returned", "raised"}

CompanionInit ==
    /\ second = 0 /\ crawledUrls = {} /\ busy = [p \in Processes |-> Idle]
    /\ jobAt = [j \in Jobs |-> "none"]
    /\ rawContent = {} /\ metadata = {}
    /\ chunk = [j \in Jobs |-> 1] /\ chunks = [j \in Jobs |-> 0]
    /\ stored = [j \in Jobs |-> {}]
    /\ graphFiles = {} /\ resultsFile = {} /\ toScrape = {}

SecondPasses ==
    /\ second < MaxSecond /\ second' = second + 1
    /\ UNCHANGED <<crawledUrls, busy, jobAt, rawContent, metadata, chunk, chunks,
                   stored, graphFiles, resultsFile, toScrape>>

-----------------------------------------------------------------------------
Runs(j) == busy[ProcessOf(j)] \in {Idle, j}
Keeps(j) == busy' = [busy EXCEPT ![ProcessOf(j)] = j]
Awaits(j) == busy' = [busy EXCEPT ![ProcessOf(j)] = Idle]

(* A step of j, from one place to another. *)
ComesTo(j, p, q) ==
    /\ jobAt[j] = p /\ Runs(j)
    /\ jobAt' = [jobAt EXCEPT ![j] = q]
    /\ UNCHANGED <<second, resultsFile>>

results == <<stored, graphFiles>>
content == <<rawContent, metadata, chunk, chunks>>

(* POST /scrape *)
ScrapeUrl(j) ==
    /\ j \in Requests
    /\ ComesTo(j, "none", "select") /\ Keeps(j)
    /\ UNCHANGED <<crawledUrls, content, results, toScrape>>

(* get_or_create_url: a row that came from the other process after the SELECT
   makes the INSERT fail, url being unique. *)
SelectUrl(j) ==
    /\ \E q \in {"raw", "insert"} :
        /\ (q = "raw") = (UrlOf(j) \in crawledUrls)
        /\ ComesTo(j, "select", q)
    /\ Keeps(j)
    /\ UNCHANGED <<crawledUrls, content, results, toScrape>>

InsertUrl(j) ==
    /\ \E q \in {"raw", "raised"} :
        /\ (q = "raised") = (UrlOf(j) \in crawledUrls)
        /\ ComesTo(j, "insert", q)
    /\ Awaits(j)
    /\ crawledUrls' = crawledUrls \cup {UrlOf(j)}
    /\ UNCHANGED <<content, results, toScrape>>

(* The raw content, or a warning. *)
FetchRaw(j) ==
    /\ ComesTo(j, "raw", "json") /\ Awaits(j)
    /\ rawContent' \in {rawContent, rawContent \cup {j}}
    /\ UNCHANGED <<crawledUrls, metadata, chunk, chunks, results, toScrape>>

(* Step 1: what the schema finds sets metadata, and somebody must press Enter;
   otherwise, and after an exception, metadata is not bound. *)
JsonCss(j) ==
    \/ /\ ComesTo(j, "json", "enter") /\ Keeps(j)
       /\ metadata' = metadata \cup {j}
       /\ UNCHANGED <<crawledUrls, rawContent, chunk, chunks, results, toScrape>>
    \/ /\ ComesTo(j, "json", "cosine") /\ Awaits(j)
       /\ UNCHANGED <<crawledUrls, content, results, toScrape>>

(* input() returns, or its stream has ended; store_extraction raises. *)
PressEnter(j) ==
    /\ ComesTo(j, "enter", "cosine") /\ Awaits(j)
    /\ UNCHANGED <<crawledUrls, content, results, toScrape>>

(* Steps 2 and 3: the clusters of the page, or else the raw content, cut into
   chunks; without either the job returns. *)
PreprocessWithCosine(j) ==
    /\ ComesTo(j, "cosine", "prepare") /\ Awaits(j)
    /\ rawContent' \in {rawContent, rawContent \cup {j}}
    /\ UNCHANGED <<crawledUrls, metadata, chunk, chunks, results, toScrape>>

PrepareContent(j) ==
    \/ /\ j \in rawContent
       /\ ComesTo(j, "prepare", "chunk")
       /\ chunks' \in {[chunks EXCEPT ![j] = n] : n \in 1 .. MaxChunks}
       /\ Awaits(j)
       /\ UNCHANGED <<crawledUrls, rawContent, metadata, chunk, results, toScrape>>
    \/ /\ j \notin rawContent
       /\ ComesTo(j, "prepare", "returned") /\ Awaits(j)
       /\ UNCHANGED <<crawledUrls, content, results, toScrape>>

-----------------------------------------------------------------------------
(* store_knowledge_graph_as_json: the file is named by second and page. *)
(* Mutant: by the second only. *)
FileName_Second(j) == <<second, "kg">>

FileName(j) == <<second, UrlOf(j)>>

Written(j) ==
    {f \in graphFiles : f.name # FileName(j)} \cup {[name |-> FileName(j), of |-> <<j, chunk[j]>>]}

(* The model answers for a chunk, or not; an answer is stored unless metadata
   is unbound or the answer is no JSON. *)
MetadataBound(j) == j \in metadata

NextChunk(j) == IF chunk[j] < chunks[j] THEN "chunk" ELSE "returned"

StoreChunk(j) ==
    /\ MetadataBound(j)
    /\ ComesTo(j, "chunk", NextChunk(j)) /\ Awaits(j)
    /\ chunk' = [chunk EXCEPT ![j] = @ + 1]
    /\ graphFiles' = Written(j)
    /\ stored' = [stored EXCEPT ![j] = @ \cup {chunk[j]}]
    /\ UNCHANGED <<crawledUrls, rawContent, metadata, chunks, toScrape>>

ChunkFails(j) ==
    /\ ComesTo(j, "chunk", NextChunk(j)) /\ Awaits(j)
    /\ chunk' = [chunk EXCEPT ![j] = @ + 1]
    /\ UNCHANGED <<crawledUrls, rawContent, metadata, chunks, results, toScrape>>

-----------------------------------------------------------------------------
(* Searches: of the script and of /search/dog-health.  The file saved last is
   the latest; what is saved after the script has read it is left out. *)
ScriptStarts == toScrape = {} /\ \A j \in Pages : jobAt[j] = "none"

SaveResults(p) ==
    /\ ScriptStarts /\ busy[p] = Idle
    /\ resultsFile' \in SUBSET Pages
    /\ UNCHANGED <<second, crawledUrls, busy, jobAt, content, results, toScrape>>

(* process_latest_results of the script, once. *)
ProcessLatestResults ==
    /\ ScriptStarts /\ resultsFile # {} /\ toScrape' = resultsFile
    /\ UNCHANGED <<second, crawledUrls, busy, jobAt, content, results, resultsFile>>

(* One page after the other, whatever became of the one before. *)
Proceeds == \A j \in Pages : jobAt[j] \in JobOver

ScrapeNext(j) ==
    /\ j \in toScrape /\ Proceeds
    /\ toScrape' = toScrape \ {j}
    /\ ComesTo(j, "none", "select") /\ Keeps(j)
    /\ UNCHANGED <<crawledUrls, content, results>>

-----------------------------------------------------------------------------
JobStep(j) ==
    \/ SelectUrl(j) \/ InsertUrl(j) \/ FetchRaw(j) \/ JsonCss(j)
    \/ PreprocessWithCosine(j) \/ PrepareContent(j) \/ StoreChunk(j) \/ ChunkFails(j)

CompanionNext ==
    \/ SecondPasses
    \/ \E j \in Jobs : ScrapeUrl(j) \/ ScrapeNext(j) \/ PressEnter(j) \/ JobStep(j)
    \/ \E p \in Processes : SaveResults(p)
    \/ ProcessLatestResults

CompanionSpec == CompanionInit /\ [][CompanionNext]_companionVars

-----------------------------------------------------------------------------
(* Properties *)

(* Types of the jobs and of what the app keeps. *)
CompanionTypeOK ==
    /\ second \in 0 .. MaxSecond /\ crawledUrls \subseteq Pages
    /\ busy \in [Processes -> Jobs \cup {Idle}]
    /\ jobAt \in [Jobs -> JobPlaces]
    /\ rawContent \subseteq Jobs /\ metadata \subseteq Jobs
    /\ chunks \in [Jobs -> 0 .. MaxChunks] /\ chunk \in [Jobs -> 1 .. MaxChunks + 1]
    /\ \A j \in Jobs : chunk[j] <= chunks[j] + 1
    /\ stored \in [Jobs -> SUBSET (1 .. MaxChunks)]
    /\ graphFiles \subseteq [name : (0 .. MaxSecond) \X Pages, of : Jobs \X (1 .. MaxChunks)]
    /\ resultsFile \subseteq Pages /\ toScrape \subseteq Pages

(* The graph of a chunk that was reported as stored is in a file, or in one
   that was overwritten by a graph of the same page: names do not tell chunks,
   requests or processes apart (crawl4ai_client.py:604). *)
StoredIsOfPage ==
    \A j \in Jobs : stored[j] # {} => \E f \in graphFiles : UrlOf(f.of[1]) = UrlOf(j)

(* The last graph written to a name is the one that is there: a job that stored
   its last chunk in this second still has it, unless another job of the page
   wrote since. *)
LatestStays ==
    \A f \in graphFiles : \A j \in Jobs :
        f.of[1] = j => \A n \in stored[j] : n > f.of[2]
                          => \E g \in graphFiles : UrlOf(g.of[1]) = UrlOf(j) /\ g.name[1] > f.name[1]

(* A page in which the schema finds nothing never gets a graph, although its
   request reports success: the metadata that store_knowledge_graph_as_json is
   given (line 494) is bound by the first step only (line 353). *)
GraphNeedsSchema == \A f \in graphFiles : f.of[1] \in metadata

(* The files tell what was stored, whatever else names them. *)
CompanionInv == StoredIsOfPage /\ LatestStays /\ GraphNeedsSchema
=============================================================================

------------------------------- MODULE Recall -------------------------------
(***************************************************************************)
(* One search of an agent's memory: MemoryService.search, the four lanes   *)
(* and the pins of PostgresMemoryIndex.hybrid_search, the boundaries       *)
(* looked up afterwards, and the scan of the files when the database does  *)
(* not answer.  Every statement of the search is a step of its own: the    *)
(* index is rewritten, page by page and statement by statement, while the  *)
(* search reads it.                                                        *)
(*                                                                         *)
(* A page is one chunk.  Its text is Open, or Embargoed when its           *)
(* frontmatter puts now outside its window.  The scores of the lanes, the  *)
(* decay and the novelty that order the rows are abstracted to "any        *)
(* order", so that rows and result are sets and a cut keeps any of them;   *)
(* a lane's limit of at least twenty rows is never reached.                *)
(***************************************************************************)
EXTENDS Naturals, FiniteSets, FiniteSetsExt

CONSTANTS Pages,        \* what can be indexed
          Kind,         \* [Pages -> Kinds]
          MaxResults,   \* _SEARCH_MAX_RESULTS
          MaxTouched    \* bound: pages that change during one search

Kinds == {"durable", "daily", "import", "proposal"}
Unreviewed == {"import", "proposal"}
TextStates == {"open", "embargoed"}

RecallAssumption ==
  /\ IsFiniteSet(Pages)
  /\ Kind \in [Pages -> Kinds]
  /\ MaxResults \in Nat \ {0} /\ MaxTouched \in Nat

VARIABLES
  chunk,     \* [Pages -> sets of at most one row]: memory_chunks
  ledger,    \* [Pages -> TextStates]: memory_files.boundary_metadata
  job,       \* the page being reindexed and the statement that comes next
  pins,      \* memory_pins
  corpus, pc, rows, pinned, result, asked,   \* the search's locals
  touched,   \* history: pages rewritten, pinned or unpinned since it began
  unchecked  \* history: pages whose boundary could not be looked up

index == <<chunk, ledger, job, pins, touched>>
locals == <<corpus, pc, rows, pinned, result, asked, unchecked>>
vars == <<chunk, ledger, job, pins, corpus, pc, rows, pinned,
          result, asked, touched, unchecked>>

Row(p, id, text) == [page |-> p, id |-> id, text |-> text]
NoJob == [page |-> "none", at |-> "idle"]

PagesOf(found) == {r.page : r \in found}

\* Proposals are rows of the index only, without a file or its ledger entry.
OnFile(p) == Kind[p] # "proposal"
-----------------------------------------------------------------------------
(* What each statement of the search may return. *)

AdmitsImports(c, p) == IF c = "any" THEN Kind[p] # "proposal" ELSE Kind[p] = c

\* The filter every lane applies: a search that names no corpus never sees
\* what nobody has reviewed.
Admits(c, p) == IF c = "any" THEN Kind[p] \notin Unreviewed ELSE Kind[p] = c

LaneRows(c, S) == UNION {chunk[p] : p \in {q \in S : Admits(c, q)}}

PinnedRows(c, S) == LaneRows(c, S)

\* RRF keeps the first row seen of each id and drops nothing.
Fused(found) == rows \cup found

\* The first MaxResults rows of some order of them.
Cuts(S) == {T \in SUBSET S : Cardinality(T) = Min({MaxResults, Cardinality(S)})}

\* Pins first, then what else was found, cut to MaxResults.
Combined(first, final) ==
  {T \in Cuts(first \cup final) : first \subseteq T \/ T \subseteq first}

\* The scan of the files, whose texts are what they are by now: imports are
\* left out of the candidates, a page outside its window too, and the corpus
\* is looked at only after the cut.
ScanCandidates(c, S, file) ==
  {p \in S : /\ OnFile(p)
             /\ file[p] = "open"
             /\ Kind[p] = "import" => c = "import"}

Scanned(c, S, file) ==
  LET hits == {Row(p, 0, file[p]) : p \in ScanCandidates(c, S, file)}
  IN  {{r \in T : c = "any" \/ Kind[r.page] = c} : T \in Cuts(hits)}
-----------------------------------------------------------------------------
(* The search. *)

\* Ids are compared within one search only: 0 is the chunk that was there
\* when it began, 1 the one written since.
Start ==
  /\ pc = "idle"
  /\ corpus' \in {"any"} \cup {Kind[p] : p \in Pages}
  /\ pc' = "lexical"
  /\ touched' = {}
  /\ chunk' = [p \in Pages |-> {[r EXCEPT !.id = 0] : r \in chunk[p]}]
  /\ UNCHANGED <<ledger, job, pins, rows, pinned, result, asked,
                 unchecked>>

Next4 == [lexical |-> "path", path |-> "vector", vector |-> "recent",
          recent |-> "pinlist"]

\* The text, path and vector lanes find what the query matches, or nothing
\* (no term is long enough, no provider, the query could not be embedded);
\* the recent lane finds every page that memory_files has.
LexicalLane == pc = "lexical" /\ \E S \in SUBSET Pages :
                 rows' = Fused(LaneRows(corpus, S))
PathLane    == pc = "path" /\ \E S \in {{}, Pages} :
                 rows' = Fused(LaneRows(corpus, S))
VectorLane  == pc = "vector" /\ \E S \in {{}, Pages} :
                 rows' = Fused(LaneRows(corpus, S))
RecentLane  == pc = "recent" /\ rows' = Fused(LaneRows(corpus, {p \in Pages : OnFile(p)}))

Lane ==
  /\ LexicalLane \/ PathLane \/ VectorLane \/ RecentLane
  /\ pc' = Next4[pc]
  /\ UNCHANGED <<index, corpus, pinned, result, asked, unchecked>>

\* pinned_files: the paths, newest pin first.
ReadPins ==
  /\ pc = "pinlist"
  /\ pinned' = pins
  /\ pc' = "pinrows"
  /\ UNCHANGED <<index, corpus, rows, result, asked, unchecked>>

Combine ==
  /\ pc = "pinrows"
  /\ \E final \in Cuts(rows) :
       result' \in Combined(PinnedRows(corpus, pinned), final)
  /\ pc' = "bounds"
  /\ rows' = {}
  /\ UNCHANGED <<index, corpus, pinned, asked, unchecked>>

\* _apply_boundaries: one lookup per page, in the ledger as it is by now; a
\* lookup that fails counts as "no boundary".
LookUp(p) ==
  /\ pc = "bounds"
  /\ p \in PagesOf(result) \ asked
  /\ \/ /\ ledger[p] = "open"
        /\ asked' = asked \cup {p}
        /\ UNCHANGED <<result, unchecked>>
     \/ /\ ledger[p] = "embargoed"
        /\ result' = {r \in result : r.page # p}
        /\ UNCHANGED <<asked, unchecked>>
     \/ /\ asked' = asked \cup {p}
        /\ unchecked' = unchecked \cup {p}
        /\ UNCHANGED result
  /\ UNCHANGED <<index, corpus, pc, rows, pinned>>

Finish ==
  /\ pc = "bounds"
  /\ PagesOf(result) \subseteq asked
  /\ pc' = "found"
  /\ UNCHANGED <<index, corpus, rows, pinned, result, asked,
                 unchecked>>

\* Any statement before the boundaries raises: the files are scanned instead.
FallBack ==
  /\ pc \in {"lexical", "path", "vector", "recent", "pinlist", "pinrows"}
  /\ \E S \in {{}, Pages}, file \in [Pages -> TextStates] :
       result' \in Scanned(corpus, S, file)
  /\ pc' = "scanned"
  /\ rows' = {} /\ pinned' = {}
  /\ UNCHANGED <<index, corpus, asked, unchecked>>

\* The hits are in the prompt or in the tool's answer.
Done ==
  /\ pc \in {"found", "scanned"}
  /\ pc' = "idle"
  /\ rows' = {} /\ pinned' = {} /\ result' = {}
  /\ asked' = {} /\ unchecked' = {}
  /\ corpus' = "any" /\ touched' = {}
  /\ UNCHANGED <<chunk, ledger, job, pins>>
-----------------------------------------------------------------------------
(* What happens to the index meanwhile. *)

\* A file was edited and is read; reindex_file drops its chunks, writes them
\* anew under new ids, and only then records the boundary.  In the time of
\* one search MaxTouched pages are reindexed, pinned or unpinned.
DropChunks(p) ==
  /\ job = NoJob
  /\ p \notin touched /\ Cardinality(touched) < MaxTouched
  /\ OnFile(p)
  /\ \E t \in TextStates :
         job' = [page |-> p, at |-> "insert", text |-> t]
  /\ chunk' = [chunk EXCEPT ![p] = {}]
  /\ touched' = touched \cup {p}
  /\ UNCHANGED <<ledger, pins, locals>>

InsertChunks ==
  /\ job.at = "insert"
  /\ chunk' = [chunk EXCEPT ![job.page] = {Row(job.page, 1, job.text)}]
  /\ job' = [job EXCEPT !.at = "ledger"]
  /\ touched' = touched \cup {job.page}
  /\ UNCHANGED <<ledger, pins, locals>>

WriteBoundary ==
  /\ job.at = "ledger"
  /\ ledger' = [ledger EXCEPT ![job.page] = job.text]
  /\ job' = NoJob
  /\ touched' = touched \cup {job.page}
  /\ UNCHANGED <<chunk, pins, locals>>

\* The reindex stops half way: an error of the database, or its process.
StopReindex ==
  /\ job # NoJob
  /\ job' = NoJob
  /\ UNCHANGED <<chunk, ledger, pins, touched, locals>>

Pin(p) ==
  /\ Kind[p] = "durable"
  /\ p \notin touched /\ Cardinality(touched) < MaxTouched
  /\ pins' = IF p \in pins THEN pins \ {p} ELSE pins \cup {p}
  /\ touched' = touched \cup {p}
  /\ UNCHANGED <<chunk, ledger, job, locals>>
-----------------------------------------------------------------------------
Init ==
  /\ ledger \in [Pages -> TextStates]
  /\ \A p \in Pages : ~OnFile(p) => ledger[p] = "open"
  /\ chunk = [p \in Pages |-> {Row(p, 0, ledger[p])}]
  /\ job = NoJob
  /\ pins \in SUBSET {p \in Pages : Kind[p] = "durable"}
  /\ corpus = "any" /\ pc = "idle"
  /\ rows = {} /\ pinned = {} /\ result = {} /\ asked = {}
  /\ touched = {} /\ unchecked = {}

Search ==
  \/ Start \/ Lane \/ ReadPins \/ Combine \/ Finish \/ FallBack \/ Done
  \/ \E p \in Pages : LookUp(p)

Index ==
  \/ InsertChunks \/ WriteBoundary \/ StopReindex
  \/ \E p \in Pages : DropChunks(p) \/ Pin(p)

Next == Search \/ Index

Spec == Init /\ [][Next]_vars
-----------------------------------------------------------------------------
(* What makes it correct. *)

Shown == IF pc \in {"found", "scanned"} THEN result ELSE {}

\* Pages whose text is newer in the index than their boundary: a reindex
\* under way, or one that stopped half way.
Ahead == {p \in Pages : \E r \in chunk[p] : r.text # ledger[p]}

\* SAFETY.  A search that names no corpus shows nothing nobody has reviewed,
\* whichever lane, pin or scan found it; and it shows no text outside its
\* window, except the text of a page that is being reindexed around the
\* search, or whose boundary could not be read.
ReviewedAndInForce ==
  \A r \in Shown :
    /\ corpus = "any" => Kind[r.page] \notin Unreviewed
    /\ r.text = "embargoed" =>
         /\ pc = "found"
         /\ r.page \in touched \cup unchecked \cup Ahead

\* SAFETY.  Every pin the search may show, and that nobody rewrote or
\* unpinned meanwhile, is in the answer whatever the query matched, unless
\* the pins alone are more than the answer holds.
PinsAreShown ==
  pc = "found" =>
    LET due == {p \in pins \ (touched \cup Ahead) :
                  /\ chunk[p] # {}
                  /\ ledger[p] = "open"
                  /\ Admits(corpus, p)}
    IN  Cardinality(pinned \cup pins) <= MaxResults
          => due \subseteq PagesOf(Shown)
=============================================================================

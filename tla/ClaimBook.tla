------------------------------ MODULE ClaimBook ------------------------------
(***************************************************************************)
(* The claims of one agent: the markers in its pages, the tables derived   *)
(* from them, the digest and the dashboards that read the tables, and      *)
(* forget_source, which takes one source out of every claim that cites it. *)
(* Pages are edited at any time and indexed some time later.               *)
(*                                                                         *)
(* A page is the sequence of its markers.  A marker is flagged when it is  *)
(* stale, unrated or poorly rated, or has no privacy tier: each of these   *)
(* is a dashboard of its own.                                              *)
(***************************************************************************)
EXTENDS Naturals, FiniteSets, FiniteSetsExt, SequencesExt

CONSTANTS Pages, MemoryPage,   \* the topic notes, and MEMORY.md
          Sources,             \* what evidence may name
          Drafts,              \* the markers people and models write
          MaxMarkers,          \* bound: markers on a topic note
          MaxDigest            \* max_chars, in claims

Statuses == {"supported", "contested", "superseded", "unknown"}

AllPages == Pages \cup {MemoryPage}
Ids == {d.id : d \in Drafts}
Markers ==
  [id : Ids, status : Statuses, evidence : SUBSET Sources,
   contradicts : SUBSET UNION {d.contradicts : d \in Drafts}, flagged : BOOLEAN]

ClaimAssumption ==
  /\ MemoryPage \notin Pages
  /\ Drafts \subseteq Markers
  /\ MaxMarkers \in Nat /\ MaxDigest \in Nat \ {0}

NoRow == [status |-> "absent"]
PageTexts(p) == BoundedSeq(Drafts, IF p = MemoryPage THEN 1 ELSE MaxMarkers)

VARIABLES
  file,      \* [AllPages -> Seq of markers]: what is on disk
  claims,    \* [Ids -> NoRow, or the row with its page]: kb_claims and
             \* kb_evidence, kb_relationships
  pc, source, listed, todo, content,   \* forget_source's locals
  disturbed  \* history: pages edited since the claims were listed, or not
             \* indexed as they were when they were listed

vars == <<file, claims, pc, source, listed, todo, content, disturbed>>
-----------------------------------------------------------------------------
(* The pages. *)

\* An editor or the agent writes the page.
Edit(p) ==
  /\ \E t \in PageTexts(p) : t # file[p] /\ file' = [file EXCEPT ![p] = t]
  /\ disturbed' = IF pc = "idle" THEN {} ELSE disturbed \cup {p}
  /\ UNCHANGED <<claims, pc, source, listed, todo, content>>

\* The first and the last marker of a claim in a text, 0 if it has none.
FirstMark(t, c) == SelectInSeq(t, LAMBDA m : m.id = c)
LastMark(t, c)  == SelectLastInSeq(t, LAMBDA m : m.id = c)

RowOf(p, m) ==
  [page |-> p, status |-> m.status, evidence |-> m.evidence,
   contradicts |-> m.contradicts, flagged |-> m.flagged]

\* _sync_claims: claims no longer marked on the page go; a claim marked twice
\* is what its last marker says; a claim of another page moves here.
Synced(p, t) ==
  [c \in Ids |->
     IF \E i \in DOMAIN t : t[i].id = c
     THEN RowOf(p, t[LastMark(t, c)])
     ELSE IF claims[c] # NoRow /\ claims[c].page = p THEN NoRow ELSE claims[c]]

Reindex(p) ==
  /\ claims' = Synced(p, file[p])
  /\ claims' # claims
  /\ UNCHANGED <<file, pc, source, listed, todo, content, disturbed>>
-----------------------------------------------------------------------------
(* What reads the tables. *)

Rows == {c \in Ids : claims[c] # NoRow}
Supported == {c \in Rows : claims[c].status = "supported"}

\* compile_digest, of whatever writes it: claims whole, in page order, until the next would not fit.
Digests ==
  {D \in SUBSET Supported : Cardinality(D) = Min({MaxDigest, Cardinality(Supported)})}

MissingEvidence == {c \in Rows : claims[c].evidence = {}}
OpenQuestions == {c \in Rows : claims[c].status = "unknown"}
NeedReevaluation == MissingEvidence \cap OpenQuestions
Contradictions == {c \in Rows : claims[c].contradicts # {}}
Flagged == {c \in Rows : claims[c].flagged}

Dashboards ==
  MissingEvidence \cup OpenQuestions \cup NeedReevaluation \cup Contradictions
    \cup Flagged

CitingEvidence(s) == {c \in Rows : s \in claims[c].evidence}
-----------------------------------------------------------------------------
(* forget_source. *)

NotIndexed == {p \in AllPages : Synced(p, file[p]) # claims}

List(s) ==
  /\ pc = "idle"
  /\ source' = s
  /\ listed' = {<<c, claims[c].page>> : c \in CitingEvidence(s)}
  /\ todo' = {claims[c].page : c \in CitingEvidence(s)} \ {MemoryPage}
  /\ disturbed' = NotIndexed
  /\ pc' = "pages"
  /\ UNCHANGED <<file, claims, content>>

\* remove_evidence_from_content: the first marker of the claim loses the
\* citation; one that has none left is an open question again.
WithoutCitation(m, s) == [m EXCEPT !.evidence = @ \ {s}]
Without(m, s) ==
  [m EXCEPT !.evidence = @ \ {s},
            !.status = IF m.evidence = {s} THEN "unknown" ELSE @]

RemoveEvidence(t, C, s) ==
  [i \in DOMAIN t |->
     IF t[i].id \in C /\ i = FirstMark(t, t[i].id)
     THEN Without(t[i], s) ELSE t[i]]

\* Every claim the list has on this page, in one text.
Load(p) ==
  /\ pc = "pages" /\ p \in todo
  /\ content' = [page |-> p,
                 text |-> RemoveEvidence(file[p], {c \in Ids : <<c, p>> \in listed},
                                         source)]
  /\ todo' = todo \ {p}
  /\ pc' = "remember"
  /\ UNCHANGED <<file, claims, source, listed, disturbed>>

Remember ==
  /\ pc = "remember"
  /\ file' = [file EXCEPT ![content.page] = content.text]
  /\ pc' = "reindex"
  /\ UNCHANGED <<claims, source, listed, todo, content, disturbed>>

ReindexAfter ==
  /\ pc = "reindex"
  /\ claims' = Synced(content.page, content.text)
  /\ content' = <<>>
  /\ pc' = "pages"
  /\ UNCHANGED <<file, source, listed, todo, disturbed>>

\* The pages are done; or a read, a write or a statement failed.
Finish ==
  /\ pc = "pages" /\ todo = {}
  /\ pc' = "done"
  /\ UNCHANGED <<file, claims, source, listed, todo, content, disturbed>>

Leave ==
  /\ pc # "idle"
  /\ pc' = "idle"
  /\ listed' = {} /\ todo' = {} /\ content' = <<>> /\ disturbed' = {}
  /\ source' = CHOOSE s \in Sources : TRUE
  /\ UNCHANGED <<file, claims>>
-----------------------------------------------------------------------------
Init ==
  /\ file = [p \in AllPages |-> <<>>]
  /\ claims = [c \in Ids |-> NoRow]
  /\ pc = "idle" /\ source = CHOOSE s \in Sources : TRUE
  /\ listed = {} /\ todo = {} /\ content = <<>> /\ disturbed = {}

Next ==
  \/ \E p \in AllPages : Edit(p) \/ Reindex(p)
  \/ \E s \in Sources : List(s)
  \/ \E p \in Pages : Load(p)
  \/ Remember \/ ReindexAfter \/ Finish \/ Leave

Spec == Init /\ [][Next]_vars
-----------------------------------------------------------------------------
(* What makes it correct. *)

Once(t, c) == Cardinality({i \in DOMAIN t : t[i].id = c}) = 1

\* SAFETY.  When forget_source returns, no claim that cited the source on a
\* topic note cites it any more, in the note or in the tables, and one that
\* has no evidence left is an open question.  Excepted are notes edited in
\* the meantime or not indexed as they were when it began, and notes that
\* mark the claim more than once.
ForgottenIsForgotten ==
  pc = "done" =>
    \A c \in Ids, p \in Pages \ disturbed :
      <<c, p>> \in listed /\ Once(file[p], c) =>
        LET m == file[p][FirstMark(file[p], c)]
        IN  /\ source \notin m.evidence
            /\ m.evidence = {} => m.status = "unknown"
            /\ c \in Rows /\ claims[c].page = p
                 => claims[c].evidence = m.evidence /\ claims[c].status = m.status

\* SAFETY.  No claim is hidden: one that is neither superseded nor in the
\* digest that would be compiled now is on a dashboard, or did not fit, or is
\* contested by nothing the tables name.
NothingIsHidden ==
  \A D \in Digests : \A c \in Rows \ (D \cup Dashboards) :
    \/ claims[c].status = "superseded"
    \/ claims[c].status = "supported" /\ Cardinality(D) = MaxDigest
    \/ claims[c].status = "contested" /\ claims[c].contradicts = {}
=============================================================================

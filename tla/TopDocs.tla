------------------------------- MODULE TopDocs -------------------------------
(***************************************************************************)
(* One BM25 search of crates/openlocus-index/src/persistent.rs, from the   *)
(* hits Tantivy ranks to the evidence returned: the probing loop of        *)
(* collect_deterministic_top_docs, the materialization of each hit found,  *)
(* and sort_dedup_and_truncate_bm25_results.                               *)
(*                                                                         *)
(* Tantivy ranks by falling score and, within a score, by document address *)
(* - an order that changes from one build of the index to the next.  A     *)
(* cell (path, range, hash) is what evidence is about: cells are numbered  *)
(* in the order of path, range and hash.  Several documents may come down  *)
(* to one cell.                                                            *)
(***************************************************************************)
EXTENDS Naturals, Sequences, FiniteSetsExt

CONSTANTS
    MaxHits,      \* bound: documents that match the query
    MaxOthers,    \* bound: documents that do not
    MaxScore,     \* bound: scores are 1..MaxScore
    MaxCell,      \* bound: cells are 1..MaxCell
    MaxRequest    \* bound: results a caller asks for

ASSUME TopDocsBounds ==
    /\ MaxHits \in Nat /\ MaxOthers \in Nat /\ MaxScore \in Nat
    /\ MaxCell \in Nat /\ MaxRequest \in Nat

VARIABLES
    ranked,        \* all hits of the query, in Tantivy's order
    count,         \* documents in the index
    current,       \* cells whose hits survive materialization
    max_results,   \* what the caller asks for
    probe_limit, documents, results, pc

vars == << ranked, count, current, max_results, probe_limit, documents,
           results, pc >>

inputs == << ranked, count, current, max_results >>

Hit == [score : 1..MaxScore, cell : 1..MaxCell]

Falling(s) == \A i, j \in DOMAIN s : i < j => s[i].score >= s[j].score

(* Hits in any order the addresses may give them.                            *)
Rankings == {s \in UNION {[1..n -> Hit] : n \in 0..MaxHits} : Falling(s)}

(* What a query finds: any ranking, any outcome of the verification of each  *)
(* cell (stale, unreadable, no line with a query token).                     *)
Init ==
    /\ ranked \in Rankings
    /\ count \in Len(ranked)..(Len(ranked) + MaxOthers)
    /\ current \in SUBSET {ranked[i].cell : i \in DOMAIN ranked}
    /\ max_results \in 0..MaxRequest
    /\ probe_limit = 0 /\ documents = << >> /\ results = << >>
    /\ pc = "start"

Requested == 2 * max_results

(* Broken variant: more may be asked for than there is.                      *)
TargetUncapped == Requested

(* Twice as many hits as results, as far as there are documents.             *)
Target == IF Requested < count THEN Requested ELSE count

Prefix(s, n) == SubSeq(s, 1, IF n < Len(s) THEN n ELSE Len(s))

(* TopDocs::with_limit: the first hits of the ranking.                       *)
Search(limit) == Prefix(ranked, limit)

NextLimit(probe) == IF 2 * probe < count THEN 2 * probe ELSE count

(* Broken variants: the tie at the boundary is not looked at; only the tie   *)
(* ends the loop.                                                            *)
EnoughIgnoresTies(probe, found) == TRUE

EnoughOnlyBelowBoundary(probe, found) ==
    Len(found) >= Target /\ found[Target].score > found[Len(found)].score

(* The probe is short or covers the index, or its last hit is strictly below *)
(* the target's.                                                             *)
Enough(probe, found) ==
    \/ Len(found) < probe
    \/ probe >= count
    \/ found[Target].score > found[Len(found)].score
    \/ NextLimit(probe) = probe

Start ==
    /\ pc = "start"
    /\ probe_limit' = Target
    /\ pc' = IF Target = 0 THEN "materialize" ELSE "probe"
    /\ UNCHANGED << inputs, documents, results >>

Probe ==
    /\ pc = "probe"
    /\ IF Enough(probe_limit, Search(probe_limit))
       THEN /\ documents' = Search(probe_limit)
            /\ pc' = "materialize"
            /\ UNCHANGED probe_limit
       ELSE /\ probe_limit' = NextLimit(probe_limit)
            /\ UNCHANGED << documents, pc >>
    /\ UNCHANGED << inputs, results >>

-----------------------------------------------------------------------------
(* Evidence: one per cell, with the best score found for it, by falling      *)
(* score and rising cell, cut to what was asked for.                         *)

Emitted(found) == {found[i] : i \in {j \in DOMAIN found : found[j].cell \in current}}

BestOfCells(hits) ==
    {h \in hits : \A g \in hits : g.cell = h.cell => g.score <= h.score}

Before(g, h) == g.score > h.score \/ (g.score = h.score /\ g.cell < h.cell)

(* The hits of a set, one per cell, in that order.                           *)
Sorted(hits) ==
    CHOOSE s \in [1..Cardinality(hits) -> hits] :
        \A i, j \in 1..Cardinality(hits) : i < j => Before(s[i], s[j])

(* Broken variant: what was asked for is cut off before duplicates go.       *)
AnswerCutFirst(found) ==
    Sorted(BestOfCells(Emitted(Prefix(found, max_results))))

Answer(found) ==
    Prefix(Sorted(BestOfCells(Emitted(found))), max_results)

Materialize ==
    /\ pc = "materialize"
    /\ results' = Answer(documents)
    /\ pc' = "done"
    /\ UNCHANGED << inputs, probe_limit, documents >>

Next == Start \/ Probe \/ Materialize

(* The loop is one thread that nothing blocks.                               *)
Spec == Init /\ [][Next]_vars /\ WF_vars(Next)

-----------------------------------------------------------------------------
(* Properties.                                                               *)

TypeOK ==
    /\ ranked \in Seq(Hit) /\ Falling(ranked)
    /\ count \in Nat /\ count >= Len(ranked)
    /\ current \subseteq 1..MaxCell
    /\ max_results \in Nat
    /\ probe_limit \in 0..count
    /\ documents \in Seq(Hit) /\ results \in Seq(Hit)
    /\ pc \in {"start", "probe", "materialize", "done"}

(* "Collect enough scored documents to include the complete score tie at the *)
(* requested boundary": no hit outside the collection scores as much as the  *)
(* last of the hits that were to be considered.                              *)
CompleteTie ==
    pc \in {"materialize", "done"} => \A i \in DOMAIN ranked :
        (i <= Target \/ (/\ Target \in DOMAIN ranked
                         /\ ranked[i].score = ranked[Target].score))
            => i \in DOMAIN documents /\ documents[i] = ranked[i]

(* What an ideal search would answer with, had it looked at every hit: each   *)
(* cell with its best score, at the place the cells before it leave it.      *)
Wanted == {[score |-> Max({ranked[i].score : i \in {j \in DOMAIN ranked :
                                                      ranked[j].cell = c}}),
            cell |-> c] : c \in current}

Place(h) == 1 + Cardinality({g \in Wanted : Before(g, h)})

InPlace(h) ==
    Place(h) <= max_results =>
        Place(h) \in DOMAIN results /\ results[Place(h)] = h

(* Every wanted hit at or above the boundary score is answered in its place, *)
(* whatever the addresses were and whatever hits were skipped on the way.    *)
AnswerIdealToBoundary ==
    pc = "done" => \A h \in Wanted :
        (Target \in DOMAIN ranked => h.score >= ranked[Target].score) => InPlace(h)

(* "Expanding until the collector tail is strictly below the target boundary *)
(* makes the later path/range ordering authoritative" - as long as no fewer  *)
(* results than asked for are left at or above the boundary once skipped     *)
(* hits and duplicates are gone: then the whole answer is the ideal one.     *)
EnoughSurvive ==
    Target \in DOMAIN ranked =>
        Cardinality({h \in Wanted : h.score >= ranked[Target].score}) >= max_results

OrderingAuthoritativeIfEnoughSurvive ==
    (pc = "done" /\ EnoughSurvive) => \A h \in Wanted : InPlace(h)

(* Every search ends.                                                        *)
Termination == <>(pc = "done")

(* The inductive strengthening of CompleteTie: the probing loop works on a   *)
(* non-empty target, with limits between the target and the index size.      *)
ProbingInv ==
    /\ ranked \in Seq(Hit) /\ Falling(ranked)
    /\ count \in Nat /\ count >= Len(ranked)
    /\ max_results \in Nat
    /\ pc \in {"start", "probe", "materialize", "done"}
    /\ pc = "probe" => Target # 0 /\ probe_limit \in Target..count
    /\ CompleteTie

(* With it, why the answer is ideal: what is collected is a prefix of the    *)
(* ranking, and the answer is made of it alone.                              *)
AnswerInv ==
    /\ TypeOK /\ ProbingInv
    /\ current \subseteq {ranked[i].cell : i \in DOMAIN ranked}
    /\ \A i \in DOMAIN documents : i \in DOMAIN ranked /\ documents[i] = ranked[i]
    /\ pc = "done" => results = Answer(documents)

(* The comment without that reservation: the answer never depends on the     *)
(* addresses.                                                  *)
OrderingAuthoritative == pc = "done" => \A h \in Wanted : InPlace(h)
=============================================================================

-------------------------------- MODULE Spans --------------------------------
(***************************************************************************)
(* From a file to line ranges of evidence, in                              *)
(* crates/openlocus-index/src/persistent.rs: compute_chunks cuts the file  *)
(* into line windows when it is indexed; a search looks in each window it  *)
(* hits for the line that has most query tokens (find_best_matching_line)  *)
(* and tightens the range around it.                                       *)
(***************************************************************************)
EXTENDS Integers, Sequences

CONSTANTS
    MAX_CHUNK_LINES,    \* 30 in the code
    CONTEXT_LINES,      \* 2
    MAX_EVIDENCE_SPAN,  \* 7
    MaxLines,           \* bound: lines of the file
    MaxTokens           \* bound: query tokens found in one line

(* What the three constants of the code satisfy.                             *)
ASSUME SpanConstants ==
    /\ MAX_CHUNK_LINES \in Nat /\ CONTEXT_LINES \in Nat /\ MAX_EVIDENCE_SPAN \in Nat
    /\ MAX_CHUNK_LINES > 2 * CONTEXT_LINES
    /\ MAX_EVIDENCE_SPAN > 2 * CONTEXT_LINES

ASSUME SpanBounds == MaxLines \in Nat /\ MaxTokens \in Nat

VARIABLES
    overlap,       \* query tokens found in each line
    chunk_start,   \* lines that are in a window
    chunks,        \* the windows, first and last line
    spans          \* what became of each window hit: its best line and range

vars == << overlap, chunk_start, chunks, spans >>

Smaller(a, b) == IF a < b THEN a ELSE b
Larger(a, b)  == IF a > b THEN a ELSE b

total_lines == Len(overlap)

Init ==
    /\ overlap \in UNION {[1..n -> 0..MaxTokens] : n \in 0..MaxLines}
    /\ chunk_start = 0
    /\ chunks = << >> /\ spans = << >>

(* Broken variant: windows share a line.                                     *)
WindowOverlapping(start) ==
    [first |-> Larger(start, 1), last |-> Smaller(start + MAX_CHUNK_LINES, total_lines)]

Window(start) ==
    [first |-> start + 1, last |-> Smaller(start + MAX_CHUNK_LINES, total_lines)]

Chunk ==
    /\ chunk_start < total_lines
    /\ chunks' = Append(chunks, Window(chunk_start))
    /\ chunk_start' = Window(chunk_start).last
    /\ UNCHANGED << overlap, spans >>

-----------------------------------------------------------------------------
(* Broken variant: a later line with as many tokens takes over.              *)
BestLineLast(w) ==
    LET upto[n \in (w.first - 1)..w.last] ==
            IF n < w.first THEN [score |-> 0, line |-> 0]
            ELSE IF overlap[n] >= upto[n - 1].score /\ overlap[n] > 0
                 THEN [score |-> overlap[n], line |-> n]
                 ELSE upto[n - 1]
    IN  upto[w.last].line

(* What the scan of a window has found once it is past line n.               *)
BestUpTo(w) ==
    LET upto[n \in (w.first - 1)..w.last] ==
            IF n < w.first THEN [score |-> 0, line |-> 0]
            ELSE IF overlap[n] > upto[n - 1].score
                 THEN [score |-> overlap[n], line |-> n]
                 ELSE upto[n - 1]
    IN  upto

(* The first line of the window with most tokens; 0 when none has any.       *)
BestLine(w) == BestUpTo(w)[w.last].line

(* CONTEXT_LINES around the line, inside the file, MAX_EVIDENCE_SPAN at most. *)
Tight(best, total) ==
    LET start == Larger(best - CONTEXT_LINES, 1)
        end   == Smaller(best + CONTEXT_LINES, total)
    IN  [first |-> start, last |-> Smaller(end, start + MAX_EVIDENCE_SPAN - 1)]

(* One window hit, once they have all been made.                             *)
Locate ==
    LET best == BestLine(chunks[Len(spans) + 1])
    IN  /\ chunk_start = total_lines
        /\ Len(spans) < Len(chunks)
        /\ spans' = Append(spans, [best |-> best, range |-> Tight(best, total_lines)])
        /\ UNCHANGED << overlap, chunk_start, chunks >>

Next == Chunk \/ Locate

Spec == Init /\ [][Next]_vars

-----------------------------------------------------------------------------
(* Properties.                                                               *)

(* The windows cut the file: they follow one another without gap or overlap, *)
(* none is empty or longer than MAX_CHUNK_LINES, and the last ends where the *)
(* loop has got to.                                                          *)
WindowsPartition ==
    /\ chunk_start = IF chunks = << >> THEN 0 ELSE chunks[Len(chunks)].last
    /\ \A i \in DOMAIN chunks :
          /\ chunks[i].first = IF i = 1 THEN 1 ELSE chunks[i - 1].last + 1
          /\ chunks[i].first <= chunks[i].last
          /\ chunks[i].last - chunks[i].first < MAX_CHUNK_LINES
          /\ chunks[i].last <= total_lines

(* A hit is dropped exactly when its window has no query token; otherwise    *)
(* the range is one the strict guard of the search accepts and it shows the  *)
(* line a reader would look for: the first with most tokens.                 *)
SpanShowsBestLine ==
    \A i \in DOMAIN spans :
        LET w == chunks[i].first..chunks[i].last
            b == spans[i].best
            r == spans[i].range
        IN  IF \A n \in w : overlap[n] = 0
            THEN b = 0
            ELSE /\ b \in w
                 /\ \A n \in w : overlap[n] <= overlap[b] /\ (n < b => overlap[n] < overlap[b])
                 /\ 1 <= r.first /\ r.first <= b /\ b <= r.last /\ r.last <= total_lines
                 /\ r.last - r.first < MAX_EVIDENCE_SPAN

(* Two windows of a file never come down to the same range, so that no hit   *)
(* of a line-window index is lost to sort_dedup_and_truncate_bm25_results.   *)
SpansDistinct ==
    \A i, j \in DOMAIN spans :
        (i # j /\ spans[i].best # 0 /\ spans[j].best # 0)
            => spans[i].range # spans[j].range
=============================================================================

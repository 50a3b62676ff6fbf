------------------------------ MODULE AstChunks ------------------------------
(***************************************************************************)
(* crates/openlocus-ast/src/chunk.rs: extract_ast_chunks turns the         *)
(* definition nodes tree-sitter finds in a file into chunks.  Definitions  *)
(* longer than max_lines are split, what overlaps an earlier chunk is      *)
(* dropped, and the lines left over are filled with line windows.          *)
(*                                                                         *)
(* The nodes come in the order of the source and nested ones are not       *)
(* visited, so that a node starts no earlier than on the line where the    *)
(* node before it ends - but it may start on that line.  A file of a       *)
(* language without a parser, or with syntax errors, has no nodes.         *)
(***************************************************************************)
EXTENDS Integers, Sequences, Functions

CONSTANTS
    max_lines,   \* 30 in the code
    MaxLines,    \* bound: lines of the file
    MaxNodes     \* bound: definition nodes in it

ASSUME ChunkConstants ==
    max_lines \in Nat \ {0} /\ MaxLines \in Nat /\ MaxNodes \in Nat

VARIABLES
    total_lines,
    nodes,     \* definition nodes, first and last line
    done,      \* nodes collected
    window,    \* where the split of the node under way has got to
    raw,       \* chunks collected
    kept,      \* chunks left by deduplicate_overlaps
    chunks,    \* the result of fill_gaps
    cursor,    \* the next uncovered line
    pc

vars  == << total_lines, nodes, done, window, raw, kept, chunks, cursor, pc >>
input == << total_lines, nodes >>

Lines(n) == {r \in [first : 1..n, last : 1..n] : r.first <= r.last}

InSourceOrder(s) == \A i, j \in DOMAIN s : i < j => s[j].first >= s[i].last

Chunk(first, last, kind) == [first |-> first, last |-> last, kind |-> kind]

Smaller(a, b) == IF a < b THEN a ELSE b

Init ==
    /\ total_lines \in 1..MaxLines
    /\ nodes \in {s \in UNION {[1..n -> Lines(total_lines)] : n \in 0..MaxNodes} :
                     InSourceOrder(s)}
    /\ done = 0 /\ window = 0
    /\ raw = << >> /\ kept = << >> /\ chunks = << >>
    /\ cursor = 1
    /\ pc = "collect"

-----------------------------------------------------------------------------
(* collect_recursive.                                                        *)

(* Broken variant: a definition of exactly max_lines is split.               *)
OversizedAtLimit(node) == node.last - node.first + 1 >= max_lines

Oversized(node) == node.last - node.first + 1 > max_lines

Collect ==
    LET node == nodes[done + 1]
    IN  /\ pc = "collect" /\ done < Len(nodes) /\ window = 0
        /\ IF Oversized(node)
           THEN /\ window' = node.first
                /\ UNCHANGED << raw, done >>
           ELSE /\ raw' = Append(raw, Chunk(node.first, node.last, "AstNode"))
                /\ done' = done + 1
                /\ UNCHANGED window
        /\ UNCHANGED << input, kept, chunks, cursor, pc >>

SplitNode ==
    LET node == nodes[done + 1]
        last == Smaller(window + max_lines - 1, node.last)
    IN  /\ pc = "collect" /\ window # 0
        /\ raw' = Append(raw, Chunk(window, last, "FallbackLineWindow"))
        /\ IF last = node.last
           THEN window' = 0 /\ done' = done + 1
           ELSE window' = last + 1 /\ UNCHANGED done
        /\ UNCHANGED << input, kept, chunks, cursor, pc >>

(* sort_by_key: a stable sort by the first line.                             *)
Sort ==
    /\ pc = "collect" /\ done = Len(nodes)
    /\ \E perm \in Injection(DOMAIN raw, DOMAIN raw) :
          /\ \A i, j \in DOMAIN raw : i < j =>
                \/ raw[perm[i]].first < raw[perm[j]].first
                \/ raw[perm[i]].first = raw[perm[j]].first /\ perm[i] < perm[j]
          /\ raw' = [i \in DOMAIN raw |-> raw[perm[i]]]
    /\ pc' = "dedup"
    /\ UNCHANGED << input, done, window, kept, chunks, cursor >>

-----------------------------------------------------------------------------
(* deduplicate_overlaps.                                                     *)

(* Broken variant: a chunk may start on the line the last one ends on.       *)
OverlapsStrictly(c) == kept # << >> /\ c.first < kept[Len(kept)].last

Overlaps(c) == kept # << >> /\ c.first <= kept[Len(kept)].last

Dedup ==
    /\ pc = "dedup" /\ raw # << >>
    /\ kept' = IF Overlaps(Head(raw)) THEN kept ELSE Append(kept, Head(raw))
    /\ raw' = Tail(raw)
    /\ UNCHANGED << input, done, window, chunks, cursor, pc >>

Deduped ==
    /\ pc = "dedup" /\ raw = << >>
    /\ pc' = "fill"
    /\ UNCHANGED << input, done, window, raw, kept, chunks, cursor >>

-----------------------------------------------------------------------------
(* fill_gaps, fill_gap and fallback_line_chunks.                             *)

(* The last line of the gap that starts at the cursor.                       *)
GapEnd == IF kept = << >> THEN total_lines ELSE Head(kept).first - 1

FillGap ==
    LET last == Smaller(cursor + max_lines - 1, GapEnd)
    IN  /\ pc = "fill" /\ cursor <= GapEnd
        /\ chunks' = Append(chunks, Chunk(cursor, last, "FallbackLineWindow"))
        /\ cursor' = last + 1
        /\ UNCHANGED << input, done, window, raw, kept, pc >>

PushChunk ==
    /\ pc = "fill" /\ kept # << >> /\ cursor > GapEnd
    /\ IF Head(kept).last >= cursor
       THEN /\ chunks' = Append(chunks, Head(kept))
            /\ cursor' = Head(kept).last + 1
       ELSE UNCHANGED << chunks, cursor >>
    /\ kept' = Tail(kept)
    /\ UNCHANGED << input, done, window, raw, pc >>

Finish ==
    /\ pc = "fill" /\ kept = << >> /\ cursor > GapEnd
    /\ pc' = "done"
    /\ UNCHANGED << input, done, window, raw, kept, chunks, cursor >>

Next == Collect \/ SplitNode \/ Sort \/ Dedup \/ Deduped \/ FillGap \/ PushChunk
            \/ Finish \/ (pc = "done" /\ UNCHANGED vars)

Spec == Init /\ [][Next]_vars

-----------------------------------------------------------------------------
(* Properties.                                                               *)

(* "chunks covering the entire file (1..total_lines) with no overlaps and no *)
(* gaps": the chunks follow one another up to the cursor, none is empty or   *)
(* longer than max_lines, and in the end the cursor is past the file.        *)
ChunksPartition ==
    /\ cursor = IF chunks = << >> THEN 1 ELSE chunks[Len(chunks)].last + 1
    /\ \A i \in DOMAIN chunks :
          /\ chunks[i].first = IF i = 1 THEN 1 ELSE chunks[i - 1].last + 1
          /\ chunks[i].last - chunks[i].first \in 0..(max_lines - 1)
    /\ cursor <= total_lines + 1
    /\ pc = "done" => cursor = total_lines + 1

(* Why the chunks partition the file: what is collected lies in the file, in *)
(* pieces of at most max_lines; what is kept rises without overlap; and the  *)
(* next kept chunk does not start before the cursor.                         *)
Piece(c) == c.first \in 1..c.last /\ c.last <= total_lines /\ c.last - c.first < max_lines

Pieces == [first : Nat, last : Nat, kind : {"AstNode", "FallbackLineWindow"}]

InputOK ==
    /\ total_lines \in Nat /\ nodes \in Seq(Lines(total_lines))
    /\ done \in 0..Len(nodes) /\ window \in Nat
    /\ pc \in {"collect", "dedup", "fill", "done"}
    /\ window # 0 => /\ pc = "collect" /\ done < Len(nodes)
                     /\ window \in nodes[done + 1].first..nodes[done + 1].last

RawOK == raw \in Seq(Pieces) /\ \A i \in DOMAIN raw : Piece(raw[i])

KeptOK ==
    /\ kept \in Seq(Pieces) /\ \A i \in DOMAIN kept : Piece(kept[i])
    /\ \A i \in DOMAIN kept : i > 1 => kept[i].first > kept[i - 1].last

FillOK ==
    /\ chunks \in Seq(Pieces) /\ cursor \in Nat \ {0}
    /\ pc \in {"collect", "dedup"} => chunks = << >> /\ cursor = 1
    /\ kept # << >> => kept[1].first >= cursor

ChunksInv == InputOK /\ RawOK /\ KeptOK /\ FillOK /\ ChunksPartition

(* A definition that is not too long and shares its first line with no       *)
(* definition before it is one chunk of its own.                             *)
Standing(i) ==
    /\ nodes[i].last - nodes[i].first < max_lines
    /\ i > 1 => nodes[i].first > nodes[i - 1].last

Own(i) == Chunk(nodes[i].first, nodes[i].last, "AstNode")

DefinitionsStayWhole ==
    pc = "done" => \A i \in DOMAIN nodes : Standing(i) => Own(i) \in Range(chunks)

(* Why they do: what is collected before such a definition ends before it,   *)
(* what is collected after it starts no earlier, so that neither the sort    *)
(* nor an overlap takes its place, and what is kept is pushed.               *)
Before(s, k, line) == \A j \in DOMAIN s : j < k => s[j].last < line

CollectedWhole(i) ==
    \E k \in DOMAIN raw :
        /\ raw[k] = Own(i) /\ Before(raw, k, nodes[i].first)
        /\ \A j \in DOMAIN raw : j > k => raw[j].first >= nodes[i].first

AwaitedWhole(i) ==
    /\ \E k \in DOMAIN raw : raw[k] = Own(i) /\ Before(raw, k, nodes[i].first)
    /\ \A j \in DOMAIN kept : kept[j].last < nodes[i].first

WholeInv ==
    /\ InSourceOrder(nodes)
    /\ window # 0 => Oversized(nodes[done + 1])
    /\ pc = "collect" =>
          /\ kept = << >>
          /\ \A k \in DOMAIN raw :
                IF window = 0 THEN done > 0 /\ raw[k].last <= nodes[done].last
                              ELSE raw[k].last <= nodes[done + 1].last
          /\ \A i \in 1..done : Standing(i) => CollectedWhole(i)
    /\ pc = "dedup" => \A i \in DOMAIN nodes :
          Standing(i) => AwaitedWhole(i) \/ Own(i) \in Range(kept)
    /\ pc = "fill" => \A i \in DOMAIN nodes :
          Standing(i) => Own(i) \in Range(kept) \cup Range(chunks)
    /\ DefinitionsStayWhole
=============================================================================

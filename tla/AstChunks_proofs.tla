--------------------------- MODULE AstChunks_proofs ---------------------------
(* Proofs about AstChunks: whatever definitions a file of any length has, its *)
(* chunks partition its lines.                                                *)
EXTENDS AstChunks, FiniteSetTheorems, TLAPS

LEMMA ChunkInit == Init => ChunksInv
<1> SUFFICES ASSUME Init PROVE ChunksInv
  OBVIOUS
<1>1. total_lines \in Nat /\ nodes \in Seq(Lines(total_lines))
  BY ChunkConstants DEF Init
<1>2. InputOK
  BY <1>1 DEF Init, InputOK
<1>3. RawOK /\ KeptOK /\ FillOK /\ ChunksPartition
  BY <1>1 DEF Init, RawOK, KeptOK, FillOK, ChunksPartition
<1> QED BY <1>2, <1>3 DEF ChunksInv

(* A node under way is a range of lines of the file.                          *)
LEMMA NodeInFile ==
    ASSUME InputOK, done < Len(nodes)
    PROVE  LET node == nodes[done + 1]
           IN  /\ node.first \in 1..node.last /\ node.last \in 1..total_lines
               /\ node.first \in Nat /\ node.last \in Nat
<1>1. done + 1 \in 1..Len(nodes) /\ nodes \in Seq(Lines(total_lines))
  BY DEF InputOK
<1>2. nodes[done + 1] \in Lines(total_lines)
  BY <1>1
<1>3. total_lines \in Nat
  BY DEF InputOK
<1> QED BY <1>2, <1>3 DEF Lines

(* A piece added to the pieces.                                               *)
LEMMA AppendPiece ==
    ASSUME NEW s \in Seq(Pieces), NEW c \in Pieces, Piece(c),
           \A i \in DOMAIN s : Piece(s[i])
    PROVE  /\ Append(s, c) \in Seq(Pieces)
           /\ \A i \in DOMAIN Append(s, c) : Piece(Append(s, c)[i])
<1>1. /\ Append(s, c) \in Seq(Pieces) /\ Len(Append(s, c)) = Len(s) + 1
      /\ DOMAIN Append(s, c) = 1..(Len(s) + 1) /\ DOMAIN s = 1..Len(s)
      /\ Len(s) \in Nat
  OBVIOUS
<1>2. ASSUME NEW i \in 1..(Len(s) + 1) PROVE Piece(Append(s, c)[i])
  <2>1. CASE i = Len(s) + 1
    <3>1. Append(s, c)[i] = c
      BY <2>1
    <3> QED BY <3>1
  <2>2. CASE i # Len(s) + 1
    <3>1. i \in DOMAIN s /\ Append(s, c)[i] = s[i]
      BY <1>1, <2>2
    <3> QED BY <3>1
  <2> QED BY <2>1, <2>2
<1> QED BY <1>1, <1>2

-----------------------------------------------------------------------------
(* Collecting: what is collected lies in the file.                            *)

LEMMA CollectStep ==
    ASSUME ChunksInv, Collect \/ SplitNode
    PROVE  ChunksInv'
<1> DEFINE node == nodes[done + 1]
<1>1. /\ pc = "collect" /\ pc' = pc /\ total_lines' = total_lines /\ nodes' = nodes
      /\ kept' = kept /\ chunks' = chunks /\ cursor' = cursor
  BY DEF Collect, SplitNode, input
<1>2. done < Len(nodes)
  BY DEF Collect, SplitNode, ChunksInv, InputOK
<1>3. /\ node.first \in 1..node.last /\ node.last \in 1..total_lines
      /\ node.first \in Nat /\ node.last \in Nat
      /\ total_lines \in Nat /\ done \in Nat /\ Len(nodes) \in Nat
  BY <1>2, NodeInFile DEF ChunksInv, InputOK
<1>4. KeptOK' /\ FillOK' /\ ChunksPartition'
  BY <1>1 DEF ChunksInv, KeptOK, FillOK, ChunksPartition, Piece
<1>5. CASE Collect /\ Oversized(node)
  <2>1. window' = node.first /\ raw' = raw /\ done' = done
    BY <1>5 DEF Collect
  <2>2. InputOK'
    BY <1>1, <1>2, <1>3, <2>1 DEF ChunksInv, InputOK
  <2>3. RawOK'
    BY <1>1, <2>1 DEF ChunksInv, RawOK, Piece
  <2> QED BY <1>4, <2>2, <2>3 DEF ChunksInv
<1>6. CASE Collect /\ ~Oversized(node)
  <2> DEFINE c == Chunk(node.first, node.last, "AstNode")
  <2>1. raw' = Append(raw, c) /\ done' = done + 1 /\ window' = 0
    BY <1>6 DEF Collect
  <2>2. c \in Pieces /\ Piece(c)
    BY <1>3, <1>6, ChunkConstants DEF Chunk, Pieces, Piece, Oversized
  <2>3. RawOK'
    BY <1>1, <2>1, <2>2, AppendPiece DEF ChunksInv, RawOK, Piece
  <2>4. InputOK'
    BY <1>1, <1>2, <1>3, <2>1 DEF ChunksInv, InputOK
  <2> QED BY <1>4, <2>3, <2>4 DEF ChunksInv
<1>7. CASE SplitNode
  <2> DEFINE last == Smaller(window + max_lines - 1, node.last)
             c == Chunk(window, last, "FallbackLineWindow")
  <2>1. raw' = Append(raw, c) /\ window # 0
    BY <1>7 DEF SplitNode
  <2>2. window \in node.first..node.last /\ window \in Nat
    BY <2>1 DEF ChunksInv, InputOK
  <2>3. /\ last \in window..node.last /\ last - window < max_lines
        /\ last \in Nat /\ window >= 1
    BY <1>3, <2>2, ChunkConstants DEF Smaller
  <2>4. c \in Pieces /\ Piece(c)
    <3> HIDE DEF last
    <3> QED BY <1>3, <2>2, <2>3 DEF Chunk, Pieces, Piece
  <2>5. RawOK'
    BY <1>1, <2>1, <2>4, AppendPiece DEF ChunksInv, RawOK, Piece
  <2>6. CASE last = node.last
    <3>1. window' = 0 /\ done' = done + 1
      BY <1>7, <2>6 DEF SplitNode
    <3>2. InputOK'
      BY <1>1, <1>2, <1>3, <3>1 DEF ChunksInv, InputOK
    <3> QED BY <1>4, <2>5, <3>2 DEF ChunksInv
  <2>7. CASE last # node.last
    <3>1. window' = last + 1 /\ done' = done
      BY <1>7, <2>7 DEF SplitNode
    <3>2. window' \in node.first..node.last /\ window' \in Nat
      <4> HIDE DEF last, node
      <4> QED BY <1>3, <2>2, <2>3, <2>7, <3>1
    <3>3. InputOK'
      BY <1>1, <1>2, <1>3, <3>1, <3>2 DEF ChunksInv, InputOK
    <3> QED BY <1>4, <2>5, <3>3 DEF ChunksInv
  <2> QED BY <2>6, <2>7
<1> QED BY <1>5, <1>6, <1>7

(* Sorting: the same pieces.                                                  *)
LEMMA SortStep ==
    ASSUME ChunksInv, Sort
    PROVE  ChunksInv'
<1>1. /\ UNCHANGED << input, done, window, kept, chunks, cursor >>
      /\ pc = "collect" /\ pc' = "dedup" /\ done = Len(nodes)
  BY DEF Sort
<1>2. PICK perm \in Injection(DOMAIN raw, DOMAIN raw) :
          raw' = [i \in DOMAIN raw |-> raw[perm[i]]]
  BY DEF Sort
<1>3. \A i \in DOMAIN raw : perm[i] \in DOMAIN raw
  <2>1. perm \in [DOMAIN raw -> DOMAIN raw]
    BY <1>2, Zenon DEF Injection
  <2> QED BY <2>1
<1>4. DOMAIN raw = 1..Len(raw) /\ Len(raw) \in Nat
  BY DEF ChunksInv, RawOK
<1>5. \A i \in DOMAIN raw : raw[i] \in Pieces /\ Piece(raw[i])
  BY DEF ChunksInv, RawOK
<1>6. raw' \in Seq(Pieces) /\ DOMAIN raw' = DOMAIN raw
  BY <1>2, <1>3, <1>4, <1>5
<1>7. total_lines' = total_lines
  BY <1>1 DEF input
<1>8. RawOK'
  BY <1>2, <1>3, <1>5, <1>6, <1>7 DEF RawOK, Piece
<1>9. window = 0
  BY <1>1 DEF ChunksInv, InputOK
<1>10. InputOK'
  BY <1>1, <1>9 DEF ChunksInv, InputOK, input
<1>11. KeptOK' /\ FillOK' /\ ChunksPartition'
  BY <1>1, <1>7 DEF ChunksInv, KeptOK, FillOK, ChunksPartition, Piece, input
<1> QED BY <1>8, <1>10, <1>11 DEF ChunksInv

-----------------------------------------------------------------------------
(* Deduplication: what is kept rises.                                         *)

LEMMA DedupStep ==
    ASSUME ChunksInv, Dedup \/ Deduped
    PROVE  ChunksInv'
<1>1. /\ UNCHANGED << input, done, window, chunks, cursor >> /\ pc = "dedup"
      /\ pc' \in {"dedup", "fill"} /\ window = 0
  BY DEF Dedup, Deduped, ChunksInv, InputOK
<1>2. total_lines' = total_lines
  BY <1>1 DEF input
<1>3. InputOK' /\ ChunksPartition'
  BY <1>1 DEF ChunksInv, InputOK, ChunksPartition, input
<1>4. chunks = << >> /\ cursor = 1
  BY <1>1 DEF ChunksInv, FillOK
<1>5. CASE Deduped \/ (Dedup /\ Overlaps(Head(raw)))
  <2>1. kept' = kept
    BY <1>5 DEF Dedup, Deduped
  <2>2. RawOK'
    <3>1. CASE raw' = raw
      BY <1>2, <3>1 DEF ChunksInv, RawOK, Piece
    <3>2. CASE raw # << >> /\ raw' = Tail(raw)
      BY <1>2, <3>2 DEF ChunksInv, RawOK, Piece
    <3> QED BY <1>5, <3>1, <3>2 DEF Dedup, Deduped
  <2>3. KeptOK' /\ FillOK'
    BY <1>1, <1>2, <2>1 DEF ChunksInv, KeptOK, FillOK, Piece
  <2> QED BY <1>3, <2>2, <2>3 DEF ChunksInv
<1>6. CASE Dedup /\ ~Overlaps(Head(raw))
  <2> DEFINE c == raw[1]
             n == Len(kept)
  <2>1. /\ raw # << >> /\ raw' = Tail(raw) /\ kept' = Append(kept, c)
        /\ kept # << >> => ~(c.first <= kept[n].last)
    BY <1>6 DEF Dedup, Overlaps
  <2>2. c \in Pieces /\ Piece(c)
    BY <2>1 DEF ChunksInv, RawOK
  <2>3. RawOK'
    BY <1>2, <2>1 DEF ChunksInv, RawOK, Piece
  <2>4. kept' \in Seq(Pieces) /\ \A i \in DOMAIN kept' : Piece(kept'[i])
    BY <2>1, <2>2, AppendPiece DEF ChunksInv, KeptOK
  <2>5. /\ n \in Nat /\ DOMAIN kept = 1..n /\ DOMAIN kept' = 1..(n + 1)
        /\ kept'[n + 1] = c /\ \A i \in 1..n : kept'[i] = kept[i] /\ kept[i] \in Pieces
        /\ \A i \in 1..n : i > 1 => kept[i].first > kept[i - 1].last
        /\ n # 0 => kept # << >>
    <3>1. /\ kept \in Seq(Pieces)
          /\ \A i \in DOMAIN kept : i > 1 => kept[i].first > kept[i - 1].last
      BY DEF ChunksInv, KeptOK
    <3>2. /\ n \in Nat /\ DOMAIN kept = 1..n /\ n # 0 => kept # << >>
          /\ \A i \in 1..n : kept[i] \in Pieces
      BY <3>1
    <3> HIDE DEF c
    <3>3. /\ DOMAIN kept' = 1..(n + 1) /\ kept'[n + 1] = c
          /\ \A i \in 1..n : kept'[i] = kept[i]
      BY <2>1, <2>2, <3>1, <3>2
    <3> QED BY <3>1, <3>2, <3>3
  <2> HIDE DEF n, c
  <2>6. ASSUME NEW i \in 1..(n + 1), i > 1
        PROVE  kept'[i].first > kept'[i - 1].last
    <3>1. i - 1 \in 1..n /\ kept'[i - 1] = kept[i - 1]
      BY <2>5, <2>6
    <3>2. CASE i \in 1..n
      BY <2>5, <2>6, <3>1, <3>2
    <3>3. CASE i = n + 1
      <4>1. i - 1 = n /\ n # 0 /\ n \in 1..n
        BY <2>5, <2>6, <3>3
      <4>2. ~(c.first <= kept[n].last)
        BY <2>1, <2>5, <4>1
      <4>3. c.first \in Nat /\ kept[n].last \in Nat
        BY <2>2, <2>5, <4>1 DEF Pieces
      <4>4. c.first > kept[n].last
        BY <4>2, <4>3
      <4> QED BY <2>5, <3>1, <3>3, <4>1, <4>4
    <3> QED BY <2>5, <3>2, <3>3
  <2>7. KeptOK'
    BY <1>2, <2>4, <2>5, <2>6 DEF KeptOK, Piece
  <2>8. kept'[1].first >= 1
    <3>1. 1 \in DOMAIN kept'
      BY <2>5
    <3>2. Piece(kept'[1]) /\ kept'[1] \in Pieces
      BY <2>4, <3>1
    <3> QED BY <3>2 DEF Piece, Pieces
  <2>9. FillOK'
    BY <1>1, <1>4, <2>8 DEF ChunksInv, FillOK
  <2> QED BY <1>3, <2>3, <2>7, <2>9 DEF ChunksInv
<1> QED BY <1>5, <1>6

-----------------------------------------------------------------------------
(* Filling: a chunk that starts at the cursor is added and the cursor moves   *)
(* past it.                                                                   *)

LEMMA PartitionGrows ==
    ASSUME ChunksInv, NEW c \in Pieces, Piece(c), c.first = cursor, pc = "fill",
           chunks' = Append(chunks, c), cursor' = c.last + 1,
           total_lines' = total_lines, pc' = pc
    PROVE  ChunksPartition' /\ chunks' \in Seq(Pieces) /\ cursor' \in Nat \ {0}
<1> DEFINE n == Len(chunks)
<1>1. /\ n \in Nat /\ DOMAIN chunks = 1..n /\ DOMAIN chunks' = 1..(n + 1)
      /\ Len(chunks') = n + 1 /\ chunks' # << >> /\ chunks' \in Seq(Pieces)
      /\ chunks'[n + 1] = c /\ \A i \in 1..n : chunks'[i] = chunks[i]
  BY DEF ChunksInv, FillOK
<1>2. cursor = IF n = 0 THEN 1 ELSE chunks[n].last + 1
  BY <1>1 DEF ChunksInv, ChunksPartition
<1>3. \A i \in 1..n :
         /\ chunks[i].first = IF i = 1 THEN 1 ELSE chunks[i - 1].last + 1
         /\ chunks[i].last - chunks[i].first \in 0..(max_lines - 1)
  BY <1>1 DEF ChunksInv, ChunksPartition
<1>4. /\ c.first \in Nat /\ c.last \in Nat /\ c.first <= c.last
      /\ c.last <= total_lines /\ c.last - c.first < max_lines
      /\ total_lines \in Nat /\ max_lines \in Nat
  BY ChunkConstants DEF Pieces, Piece, ChunksInv, InputOK
<1> HIDE DEF n
<1>5. ASSUME NEW i \in 1..(n + 1)
      PROVE  /\ chunks'[i].first = IF i = 1 THEN 1 ELSE chunks'[i - 1].last + 1
             /\ chunks'[i].last - chunks'[i].first \in 0..(max_lines - 1)
  <2>1. CASE i \in 1..n
    <3>1. i # 1 => i - 1 \in 1..n
      BY <1>1, <2>1
    <3> QED BY <1>1, <1>3, <2>1, <3>1
  <2>2. CASE i = n + 1
    <3>1. chunks'[i] = c
      BY <1>1, <2>2
    <3>2. c.last - c.first \in 0..(max_lines - 1)
      BY <1>4
    <3>3. CASE n = 0
      <4>1. i = 1 /\ c.first = 1
        BY <1>2, <2>2, <3>3
      <4> QED BY <3>1, <3>2, <4>1
    <3>4. CASE n # 0
      <4>1. i # 1 /\ i - 1 = n /\ n \in 1..n
        BY <1>1, <2>2, <3>4
      <4>2. c.first = chunks[n].last + 1 /\ chunks'[n] = chunks[n]
        BY <1>1, <1>2, <3>4, <4>1
      <4> QED BY <3>1, <3>2, <4>1, <4>2
    <3> QED BY <3>3, <3>4
  <2> QED BY <1>1, <2>1, <2>2
<1>6. cursor' = chunks'[Len(chunks')].last + 1
  BY <1>1
<1>7. cursor' <= total_lines + 1 /\ cursor' \in Nat \ {0}
  BY <1>4
<1> QED BY <1>1, <1>5, <1>6, <1>7 DEF ChunksPartition

LEMMA FillGapStep ==
    ASSUME ChunksInv, FillGap
    PROVE  ChunksInv'
<1> DEFINE last == Smaller(cursor + max_lines - 1, GapEnd)
           c == Chunk(cursor, last, "FallbackLineWindow")
<1>1. /\ UNCHANGED << input, done, window, raw, kept, pc >> /\ pc = "fill"
      /\ cursor <= GapEnd /\ chunks' = Append(chunks, c) /\ cursor' = last + 1
  BY DEF FillGap
<1>2. total_lines \in Nat /\ cursor \in Nat \ {0} /\ total_lines' = total_lines
  BY <1>1 DEF ChunksInv, InputOK, FillOK, input
<1>3. /\ GapEnd \in Nat /\ GapEnd <= total_lines
      /\ kept # << >> => GapEnd = kept[1].first - 1
  <2>1. CASE kept = << >>
    BY <1>2, <2>1 DEF GapEnd
  <2>2. CASE kept # << >>
    <3>1. 1 \in DOMAIN kept /\ Head(kept) = kept[1]
      BY <2>2 DEF ChunksInv, KeptOK
    <3>2. kept[1] \in Pieces /\ Piece(kept[1])
      BY <3>1 DEF ChunksInv, KeptOK
    <3>3. kept[1].first \in Nat \ {0} /\ kept[1].first <= total_lines
      BY <1>2, <3>2 DEF Pieces, Piece
    <3>4. GapEnd = kept[1].first - 1
      BY <2>2, <3>1 DEF GapEnd
    <3> QED BY <1>2, <2>2, <3>3, <3>4
  <2> QED BY <2>1, <2>2
<1>4. last \in cursor..GapEnd /\ last - cursor < max_lines /\ last \in Nat
  BY <1>1, <1>2, <1>3, ChunkConstants DEF Smaller
<1>5. c \in Pieces /\ Piece(c) /\ c.first = cursor /\ c.last = last
  <2> HIDE DEF last
  <2> QED BY <1>2, <1>3, <1>4 DEF Chunk, Pieces, Piece
<1>6. ChunksPartition' /\ chunks' \in Seq(Pieces) /\ cursor' \in Nat \ {0}
  <2> HIDE DEF c, last
  <2> QED BY <1>1, <1>2, <1>5, PartitionGrows
<1>7. kept # << >> => kept[1].first >= cursor'
  <2>1. kept # << >> => kept[1].first = GapEnd + 1
    <3>1. CASE kept # << >>
      <4>1. 1 \in DOMAIN kept /\ kept[1] \in Pieces
        BY <3>1 DEF ChunksInv, KeptOK
      <4>2. kept[1].first \in Nat
        BY <4>1 DEF Pieces
      <4> QED BY <1>3, <4>2
    <3> QED BY <3>1
  <2> HIDE DEF last
  <2> QED BY <1>1, <1>3, <1>4, <2>1
<1>8. FillOK'
  BY <1>1, <1>6, <1>7 DEF FillOK
<1>9. InputOK' /\ RawOK' /\ KeptOK'
  BY <1>1, <1>2 DEF ChunksInv, InputOK, RawOK, KeptOK, Piece, input
<1> QED BY <1>6, <1>8, <1>9 DEF ChunksInv

LEMMA PushChunkStep ==
    ASSUME ChunksInv, PushChunk
    PROVE  ChunksInv'
<1> DEFINE c == kept[1]
<1>1. /\ UNCHANGED << input, done, window, raw, pc >> /\ pc = "fill"
      /\ kept # << >> /\ cursor > GapEnd /\ kept' = Tail(kept) /\ Head(kept) = c
  BY DEF PushChunk
<1>2. total_lines \in Nat /\ cursor \in Nat \ {0} /\ total_lines' = total_lines
  BY <1>1 DEF ChunksInv, InputOK, FillOK, input
<1>3. c \in Pieces /\ Piece(c)
  <2>1. 1 \in DOMAIN kept
    BY <1>1 DEF ChunksInv, KeptOK
  <2> QED BY <2>1 DEF ChunksInv, KeptOK
<1>4. c.first >= cursor /\ c.first \in Nat /\ c.last \in Nat /\ c.first <= c.last
  BY <1>1, <1>3 DEF ChunksInv, FillOK, Pieces, Piece
<1>5. GapEnd = c.first - 1
  BY <1>1 DEF GapEnd
<1>6. c.first = cursor /\ c.last >= cursor
  <2> HIDE DEF c
  <2> QED BY <1>1, <1>2, <1>4, <1>5
<1>7. chunks' = Append(chunks, c) /\ cursor' = c.last + 1
  BY <1>1, <1>6 DEF PushChunk
<1>8. ChunksPartition' /\ chunks' \in Seq(Pieces) /\ cursor' \in Nat \ {0}
  <2> HIDE DEF c
  <2> QED BY <1>1, <1>2, <1>3, <1>6, <1>7, PartitionGrows
<1>9. /\ kept \in Seq(Pieces) /\ Len(kept) \in Nat \ {0} /\ DOMAIN kept = 1..Len(kept)
      /\ kept' \in Seq(Pieces) /\ DOMAIN kept' = 1..(Len(kept) - 1)
      /\ Len(kept') = Len(kept) - 1
      /\ \A i \in 1..(Len(kept) - 1) : kept'[i] = kept[i + 1]
  BY <1>1 DEF ChunksInv, KeptOK
<1>10. KeptOK'
  <2>1. ASSUME NEW i \in DOMAIN kept' PROVE Piece(kept'[i])
    <3>1. i + 1 \in DOMAIN kept /\ kept'[i] = kept[i + 1]
      BY <1>9
    <3> QED BY <3>1 DEF ChunksInv, KeptOK
  <2>2. ASSUME NEW i \in DOMAIN kept', i > 1
        PROVE  kept'[i].first > kept'[i - 1].last
    <3>1. /\ i + 1 \in DOMAIN kept /\ kept'[i] = kept[i + 1] /\ i + 1 > 1
          /\ (i + 1) - 1 = i /\ i - 1 \in 1..(Len(kept) - 1)
          /\ (i - 1) + 1 = i
      BY <1>9, <2>2
    <3>2. kept'[i - 1] = kept[i]
      BY <1>9, <3>1
    <3>3. kept[i + 1].first > kept[i].last
      BY <3>1 DEF ChunksInv, KeptOK
    <3> QED BY <3>1, <3>2, <3>3
  <2> QED BY <1>2, <1>9, <2>1, <2>2 DEF KeptOK, Piece
<1>11. kept' # << >> => kept'[1].first >= cursor'
  <2>1. SUFFICES ASSUME kept' # << >> PROVE kept'[1].first >= cursor'
    OBVIOUS
  <2>2. 2 \in DOMAIN kept /\ kept'[1] = kept[2] /\ 2 - 1 = 1
    <3>1. Len(kept') # 0
      BY <1>9, <2>1
    <3> QED BY <1>9, <3>1
  <2>3. kept[2].first > kept[1].last
    <3>1. \A i \in DOMAIN kept : i > 1 => kept[i].first > kept[i - 1].last
      BY DEF ChunksInv, KeptOK
    <3>2. kept[2].first > kept[2 - 1].last
      BY <2>2, <3>1
    <3> QED BY <2>2, <3>2
  <2>4. kept[2].first \in Nat
    <3>1. kept[2] \in Pieces
      BY <1>9, <2>2
    <3> QED BY <3>1 DEF Pieces
  <2> QED BY <1>4, <1>7, <2>2, <2>3, <2>4
<1>12. FillOK'
  BY <1>1, <1>8, <1>11 DEF FillOK
<1>13. InputOK' /\ RawOK'
  BY <1>1, <1>2 DEF ChunksInv, InputOK, RawOK, Piece, input
<1> QED BY <1>8, <1>10, <1>12, <1>13 DEF ChunksInv

LEMMA FinishStep ==
    ASSUME ChunksInv, Finish
    PROVE  ChunksInv'
<1>1. /\ UNCHANGED << input, done, window, raw, kept, chunks, cursor >>
      /\ pc = "fill" /\ pc' = "done" /\ kept = << >> /\ cursor > GapEnd
  BY DEF Finish
<1>2. cursor = total_lines + 1
  BY <1>1 DEF GapEnd, ChunksInv, ChunksPartition, FillOK, InputOK
<1>3. ChunksPartition'
  BY <1>1, <1>2 DEF ChunksInv, ChunksPartition, input
<1>4. InputOK' /\ RawOK' /\ KeptOK' /\ FillOK'
  BY <1>1 DEF ChunksInv, InputOK, RawOK, KeptOK, FillOK, Piece, input
<1> QED BY <1>3, <1>4 DEF ChunksInv

(* The chunks of a file follow one another without gap or overlap, whatever   *)
(* its definitions, and in the end they cover it.                             *)
THEOREM Partition == Spec => []ChunksPartition
<1>1. ASSUME ChunksInv, [Next]_vars PROVE ChunksInv'
  <2>1. CASE UNCHANGED vars
    BY <1>1, <2>1
    DEF vars, ChunksInv, InputOK, RawOK, KeptOK, FillOK, ChunksPartition, Piece
  <2> QED
    BY <1>1, <2>1, CollectStep, SortStep, DedupStep, FillGapStep, PushChunkStep,
       FinishStep
    DEF Next
<1>2. ChunksInv => ChunksPartition
  BY DEF ChunksInv
<1> QED BY ChunkInit, <1>1, <1>2, PTL DEF Spec

-----------------------------------------------------------------------------
(* Definitions that stand by themselves stay whole.                           *)

(* Every node is a range of lines.                                            *)
LEMMA NodeLines ==
    ASSUME InputOK, NEW i \in DOMAIN nodes
    PROVE  /\ nodes[i].first \in Nat /\ nodes[i].last \in Nat
           /\ nodes[i].first <= nodes[i].last
           /\ Own(i) \in Pieces /\ Own(i).first = nodes[i].first
           /\ Own(i).last = nodes[i].last
<1>1. nodes[i] \in Lines(total_lines) /\ total_lines \in Nat
  BY DEF InputOK
<1>2. nodes[i].first \in Nat /\ nodes[i].last \in Nat /\ nodes[i].first <= nodes[i].last
  BY <1>1 DEF Lines
<1> QED BY <1>2 DEF Own, Chunk, Pieces

(* What is appended to a sequence is its last element; the others stay.       *)
LEMMA Appended ==
    ASSUME NEW s \in Seq(Pieces), NEW c \in Pieces
    PROVE  /\ Len(s) \in Nat /\ DOMAIN s = 1..Len(s)
           /\ DOMAIN Append(s, c) = 1..(Len(s) + 1)
           /\ Append(s, c)[Len(s) + 1] = c
           /\ \A k \in DOMAIN s : Append(s, c)[k] = s[k]
           /\ Range(Append(s, c)) = Range(s) \cup {c}
<1>1. /\ Len(s) \in Nat /\ DOMAIN s = 1..Len(s)
      /\ DOMAIN Append(s, c) = 1..(Len(s) + 1)
      /\ Append(s, c)[Len(s) + 1] = c
      /\ \A k \in DOMAIN s : Append(s, c)[k] = s[k]
  OBVIOUS
<1>2. \A k \in DOMAIN Append(s, c) : k \in DOMAIN s \/ k = Len(s) + 1
  BY <1>1
<1>3. DOMAIN s \subseteq DOMAIN Append(s, c) /\ Len(s) + 1 \in DOMAIN Append(s, c)
  BY <1>1
<1> QED BY <1>1, <1>2, <1>3 DEF Range

(* A piece collected behind those that are whole already leaves them whole.   *)
LEMMA CollectedBehind ==
    ASSUME RawOK, InputOK, NEW c \in Pieces, raw' = Append(raw, c), nodes' = nodes,
           NEW i \in DOMAIN nodes, CollectedWhole(i), c.first >= nodes[i].first
    PROVE  CollectedWhole(i)'
<1>1. PICK k \in DOMAIN raw :
        /\ raw[k] = Own(i) /\ Before(raw, k, nodes[i].first)
        /\ \A j \in DOMAIN raw : j > k => raw[j].first >= nodes[i].first
  BY DEF CollectedWhole
<1>2. /\ Len(raw) \in Nat /\ DOMAIN raw = 1..Len(raw)
      /\ DOMAIN raw' = 1..(Len(raw) + 1) /\ raw'[Len(raw) + 1] = c
      /\ \A j \in DOMAIN raw : raw'[j] = raw[j]
  BY Appended DEF RawOK
<1>3. k \in DOMAIN raw' /\ raw'[k] = Own(i)
  BY <1>1, <1>2
<1>4. \A j \in DOMAIN raw' : j < k => raw'[j].last < nodes[i].first
  BY <1>1, <1>2 DEF Before
<1>5. \A j \in DOMAIN raw' : j > k => raw'[j].first >= nodes[i].first
  <2> TAKE j \in DOMAIN raw'
  <2>1. CASE j \in DOMAIN raw
    BY <1>1, <1>2, <2>1
  <2>2. CASE j = Len(raw) + 1
    BY <1>2, <2>2
  <2> QED BY <1>2, <2>1, <2>2
<1> QED BY <1>3, <1>4, <1>5 DEF CollectedWhole, Before, Own

LEMMA CollectKeepsWhole ==
    ASSUME ChunksInv, WholeInv, Collect \/ SplitNode
    PROVE  WholeInv'
<1> DEFINE node == nodes[done + 1]
           n == Len(raw)
<1>1. /\ pc = "collect" /\ pc' = pc /\ nodes' = nodes /\ done < Len(nodes)
      /\ RawOK /\ InputOK /\ done \in Nat /\ Len(nodes) \in Nat
      /\ DOMAIN nodes = 1..Len(nodes)
  BY DEF Collect, SplitNode, input, ChunksInv, InputOK
<1>2. done + 1 \in DOMAIN nodes /\ \A i \in 1..done : i \in DOMAIN nodes
  BY <1>1
<1>3. /\ node.first \in Nat /\ node.last \in Nat /\ node.first <= node.last
      /\ \A i \in 1..done : nodes[i].first \in Nat /\ nodes[i].last \in Nat
                           /\ nodes[i].first <= nodes[i].last
  BY <1>1, <1>2, NodeLines
<1>4. \A i \in 1..done : node.first >= nodes[i].last
  BY <1>1, <1>2 DEF WholeInv, InSourceOrder
<1>5. \A i \in 1..done : Standing(i) => CollectedWhole(i)
  BY <1>1 DEF WholeInv
<1>6. \A k \in DOMAIN raw : raw[k].last \in Nat
  <2>1. \A k \in DOMAIN raw : raw[k] \in Pieces
    BY <1>1 DEF RawOK
  <2> QED BY <2>1 DEF Pieces
<1>7. \A k \in DOMAIN raw :
         IF window = 0 THEN done > 0 /\ raw[k].last <= nodes[done].last
                       ELSE raw[k].last <= node.last
  BY <1>1 DEF WholeInv
<1>8. \A k \in DOMAIN raw : raw[k].last <= node.last
  <2> TAKE k \in DOMAIN raw
  <2>1. CASE window = 0
    <3>1. done \in 1..done /\ raw[k].last <= nodes[done].last
      BY <1>1, <1>7, <2>1
    <3>2. nodes[done].last \in Nat /\ nodes[done].last <= node.first
      BY <1>3, <1>4, <3>1
    <3> QED BY <1>3, <1>6, <3>1, <3>2
  <2> QED BY <1>7, <2>1
<1>9. InSourceOrder(nodes)' /\ DefinitionsStayWhole' /\ kept' = << >>
  BY <1>1 DEF WholeInv, InSourceOrder, DefinitionsStayWhole, Collect, SplitNode
<1>10. \A i \in DOMAIN nodes : Standing(i)' <=> Standing(i)
  BY <1>1 DEF Standing
<1>11. CASE Collect /\ Oversized(node)
  <2>1. window' = node.first /\ raw' = raw /\ done' = done
    BY <1>11 DEF Collect
  <2>2. window' # 0
    <3>1. node.first \in 1..node.last
      BY <1>1, NodeInFile
    <3> QED BY <2>1, <3>1
  <2>3. \A i \in DOMAIN nodes : CollectedWhole(i)' <=> CollectedWhole(i)
    BY <1>1, <2>1 DEF CollectedWhole, Before, Own
  <2>4. \A i \in 1..done' : Standing(i)' => CollectedWhole(i)'
    BY <1>2, <1>5, <1>10, <2>1, <2>3
  <2>5. \A k \in DOMAIN raw' : raw'[k].last <= nodes'[done' + 1].last
    BY <1>1, <1>8, <2>1
  <2>6. Oversized(nodes'[done' + 1])
    BY <1>1, <1>11, <2>1
  <2> QED BY <1>1, <1>9, <2>2, <2>4, <2>5, <2>6 DEF WholeInv, Oversized
<1>12. CASE Collect /\ ~Oversized(node)
  <2> DEFINE c == Own(done + 1)
  <2>1. raw' = Append(raw, c) /\ done' = done + 1 /\ window' = window /\ window = 0
    BY <1>12 DEF Collect, Own
  <2>2. c \in Pieces /\ c.first = node.first /\ c.last = node.last
    BY <1>1, <1>2, NodeLines
  <2>3. /\ n \in Nat /\ DOMAIN raw = 1..n /\ DOMAIN raw' = 1..(n + 1)
        /\ raw'[n + 1] = c /\ \A k \in DOMAIN raw : raw'[k] = raw[k]
    <3> HIDE DEF c
    <3> QED BY <1>1, <2>1, <2>2, Appended DEF RawOK
  <2> HIDE DEF n
  <2>4. \A k \in DOMAIN raw' : raw'[k].last <= nodes[done + 1].last
    <3> TAKE k \in DOMAIN raw'
    <3>1. k \in DOMAIN raw \/ k = n + 1
      BY <2>3
    <3> QED BY <1>3, <1>8, <2>2, <2>3, <3>1
  <2>5. ASSUME NEW i \in 1..done, Standing(i) PROVE CollectedWhole(i)'
    <3>1. c.first >= nodes[i].first
      BY <1>3, <1>4, <2>2
    <3> HIDE DEF c
    <3> QED BY <1>1, <1>2, <1>5, <2>1, <2>2, <2>5, <3>1, CollectedBehind
  <2>6. ASSUME NEW i \in DOMAIN nodes, i = done + 1, Standing(i)
        PROVE  CollectedWhole(i)'
    <3>1. \A k \in DOMAIN raw : raw[k].last < nodes[i].first
      <4> TAKE k \in DOMAIN raw
      <4>1. done \in 1..done /\ raw[k].last <= nodes[done].last
        BY <1>1, <1>7, <2>1
      <4>2. node.first > nodes[done].last
        BY <1>1, <2>6, <4>1 DEF Standing
      <4> QED BY <1>3, <1>6, <2>6, <4>1, <4>2
    <3>2. n + 1 \in DOMAIN raw' /\ raw'[n + 1] = Own(i)
      BY <2>3, <2>6
    <3>3. \A j \in DOMAIN raw' : j < n + 1 => raw'[j].last < nodes[i].first
      BY <2>3, <3>1
    <3>4. \A j \in DOMAIN raw' : ~(j > n + 1)
      BY <2>3
    <3>5. Own(i)' = Own(i)
      BY <1>1 DEF Own
    <3> HIDE DEF c
    <3> QED BY <1>1, <3>2, <3>3, <3>4, <3>5 DEF CollectedWhole, Before
  <2>7. ASSUME NEW i \in 1..done', Standing(i)' PROVE CollectedWhole(i)'
    <3>1. i \in DOMAIN nodes /\ (i \in 1..done \/ i = done + 1)
      BY <1>1, <1>2, <2>1
    <3> QED BY <1>10, <2>5, <2>6, <2>7, <3>1
  <2>8. \A k \in DOMAIN raw' : done' > 0 /\ raw'[k].last <= nodes'[done'].last
    BY <1>1, <2>1, <2>4
  <2> QED BY <1>1, <1>9, <2>1, <2>7, <2>8 DEF WholeInv
<1>13. CASE SplitNode
  <2> DEFINE last == Smaller(window + max_lines - 1, node.last)
             c == Chunk(window, last, "FallbackLineWindow")
  <2>1. raw' = Append(raw, c) /\ window # 0
    BY <1>13 DEF SplitNode
  <2>2. window \in node.first..node.last /\ window \in Nat
    BY <1>1, <2>1 DEF InputOK
  <2>3. last \in window..node.last /\ last \in Nat
    BY <1>3, <2>2, ChunkConstants DEF Smaller
  <2>4. c \in Pieces /\ c.first = window /\ c.last = last
    <3> HIDE DEF last
    <3> QED BY <2>2, <2>3 DEF Chunk, Pieces
  <2> HIDE DEF c, last, n
  <2>5. /\ n \in Nat /\ DOMAIN raw = 1..n /\ DOMAIN raw' = 1..(n + 1)
        /\ raw'[n + 1] = c /\ \A k \in DOMAIN raw : raw'[k] = raw[k]
    BY <1>1, <2>1, <2>4, Appended DEF RawOK, n
  <2>6. \A k \in DOMAIN raw' : raw'[k].last <= node.last
    <3> TAKE k \in DOMAIN raw'
    <3>1. k \in DOMAIN raw \/ k = n + 1
      BY <2>5
    <3> QED BY <1>3, <1>8, <2>3, <2>4, <2>5, <3>1
  <2>7. ASSUME NEW i \in 1..done, Standing(i) PROVE CollectedWhole(i)'
    <3>1. c.first >= nodes[i].first
      BY <1>3, <1>4, <2>2, <2>4
    <3> QED BY <1>1, <1>2, <1>5, <2>1, <2>4, <2>7, <3>1, CollectedBehind
  <2>8. CASE last = node.last
    <3>1. window' = 0 /\ done' = done + 1
      BY <1>13, <2>8 DEF SplitNode, last
    <3>2. ~Standing(done + 1)
      BY <1>3, <2>1, ChunkConstants DEF WholeInv, Oversized, Standing
    <3>3. ASSUME NEW i \in 1..done', Standing(i)' PROVE CollectedWhole(i)'
      <4>1. i \in DOMAIN nodes /\ (i \in 1..done \/ i = done + 1)
        BY <1>1, <1>2, <3>1
      <4> QED BY <1>10, <2>7, <3>2, <3>3, <4>1
    <3>4. \A k \in DOMAIN raw' : done' > 0 /\ raw'[k].last <= nodes'[done'].last
      BY <1>1, <2>6, <3>1
    <3> QED BY <1>1, <1>9, <3>1, <3>3, <3>4 DEF WholeInv
  <2>9. CASE last # node.last
    <3>1. window' = last + 1 /\ done' = done
      BY <1>13, <2>9 DEF SplitNode, last
    <3>2. window' # 0
      BY <2>3, <3>1
    <3>3. \A i \in 1..done' : Standing(i)' => CollectedWhole(i)'
      BY <1>2, <1>10, <2>7, <3>1
    <3>4. Oversized(nodes'[done' + 1])
      BY <1>1, <2>1, <3>1 DEF WholeInv
    <3>5. \A k \in DOMAIN raw' : raw'[k].last <= nodes'[done' + 1].last
      BY <1>1, <2>6, <3>1
    <3> QED BY <1>1, <1>9, <3>2, <3>3, <3>4, <3>5 DEF WholeInv, Oversized
  <2> QED BY <2>8, <2>9
<1> QED BY <1>11, <1>12, <1>13

(* The stable sort does not move a whole definition behind one that overlaps  *)
(* it: what comes before it in the order was collected before it.             *)
LEMMA SortKeepsWhole ==
    ASSUME ChunksInv, WholeInv, Sort
    PROVE  WholeInv'
<1>1. /\ nodes' = nodes /\ pc = "collect" /\ pc' = "dedup" /\ done = Len(nodes)
      /\ window = 0 /\ window' = 0 /\ DOMAIN nodes = 1..Len(nodes) /\ InputOK /\ RawOK
      /\ kept' = kept
  BY DEF Sort, input, ChunksInv, InputOK
<1>2. PICK perm \in Injection(DOMAIN raw, DOMAIN raw) :
        /\ \A i, j \in DOMAIN raw : i < j =>
              \/ raw[perm[i]].first < raw[perm[j]].first
              \/ raw[perm[i]].first = raw[perm[j]].first /\ perm[i] < perm[j]
        /\ raw' = [i \in DOMAIN raw |-> raw[perm[i]]]
  BY DEF Sort
<1>3. \A i \in DOMAIN raw : perm[i] \in DOMAIN raw
  <2>1. perm \in [DOMAIN raw -> DOMAIN raw]
    BY <1>2, Zenon DEF Injection
  <2> QED BY <2>1
<1>4. DOMAIN raw = 1..Len(raw) /\ Len(raw) \in Nat
  BY <1>1 DEF RawOK
<1>5. \A k \in DOMAIN raw : \E m \in DOMAIN raw : perm[m] = k
  <2>1. IsFiniteSet(DOMAIN raw)
    BY <1>4, FS_Interval
  <2>2. perm \in Surjection(DOMAIN raw, DOMAIN raw)
    BY <1>2, <2>1, FS_Injection, Zenon
  <2> QED BY <2>2, Zenon DEF Surjection
<1>6. \A k \in DOMAIN raw : raw[k].first \in Nat /\ raw[k].last \in Nat
                           /\ raw[k].first <= raw[k].last
  <2>1. \A k \in DOMAIN raw : raw[k] \in Pieces /\ Piece(raw[k])
    BY <1>1 DEF RawOK
  <2> QED BY <2>1 DEF Pieces, Piece
<1>7. ASSUME NEW i \in DOMAIN nodes, Standing(i)
      PROVE  \E m \in DOMAIN raw' : raw'[m] = Own(i) /\ Before(raw', m, nodes[i].first)
  <2> DEFINE line == nodes[i].first
  <2>1. PICK k \in DOMAIN raw :
          /\ raw[k] = Own(i) /\ Before(raw, k, line)
          /\ \A j \in DOMAIN raw : j > k => raw[j].first >= line
    BY <1>1, <1>7 DEF WholeInv, CollectedWhole
  <2>2. PICK m \in DOMAIN raw : perm[m] = k
    BY <1>5
  <2>3. raw[k].first = line /\ line \in Nat
    BY <1>1, <2>1, NodeLines
  <2> HIDE DEF line
  <2>4. ASSUME NEW j \in DOMAIN raw, j < m PROVE raw[perm[j]].last < line
    <3>1. \/ raw[perm[j]].first < raw[k].first
          \/ raw[perm[j]].first = raw[k].first /\ perm[j] < k
      BY <1>2, <2>2, <2>4
    <3>2. perm[j] \in DOMAIN raw /\ perm[j] \in Nat /\ k \in Nat
      BY <1>3, <1>4
    <3>3. raw[perm[j]].first \in Nat
      BY <1>6, <3>2
    <3>4. perm[j] < k
      BY <2>1, <2>3, <3>1, <3>2, <3>3
    <3> QED BY <2>1, <3>2, <3>4 DEF Before
  <2>5. DOMAIN raw' = DOMAIN raw /\ \A j \in DOMAIN raw : raw'[j] = raw[perm[j]]
    BY <1>2
  <2> QED BY <2>1, <2>2, <2>4, <2>5 DEF Before, line
<1>8. \A k \in DOMAIN kept : FALSE
  BY <1>1 DEF WholeInv
<1>9. \A i \in DOMAIN nodes : Standing(i)' => AwaitedWhole(i)'
  <2> SUFFICES ASSUME NEW i \in DOMAIN nodes, Standing(i)' PROVE AwaitedWhole(i)'
    OBVIOUS
  <2>1. Standing(i) /\ Own(i)' = Own(i)
    BY <1>1 DEF Standing, Own
  <2> QED BY <1>1, <1>7, <1>8, <2>1 DEF AwaitedWhole, Before
<1>10. InSourceOrder(nodes)' /\ DefinitionsStayWhole'
  BY <1>1 DEF WholeInv, InSourceOrder, DefinitionsStayWhole
<1> QED BY <1>1, <1>9, <1>10 DEF WholeInv

(* Deduplication: what is kept before a whole definition ends before it.      *)
LEMMA DedupKeepsWhole ==
    ASSUME ChunksInv, WholeInv, Dedup
    PROVE  WholeInv'
<1> DEFINE c == raw[1]
<1>1. /\ nodes' = nodes /\ pc = "dedup" /\ pc' = "dedup" /\ window' = window
      /\ done' = done /\ window = 0 /\ InputOK /\ RawOK /\ raw # << >> /\ raw' = Tail(raw)
      /\ kept' = IF Overlaps(c) THEN kept ELSE Append(kept, c)
  BY DEF Dedup, input, ChunksInv, InputOK
<1>2. /\ Len(raw) \in Nat /\ Len(raw) # 0 /\ DOMAIN raw = 1..Len(raw)
      /\ DOMAIN raw' = 1..(Len(raw) - 1)
      /\ \A k \in DOMAIN raw' : raw'[k] = raw[k + 1]
  BY <1>1 DEF RawOK
<1>3. c \in Pieces /\ kept \in Seq(Pieces) /\ 1 \in DOMAIN raw
  BY <1>1, <1>2 DEF RawOK, ChunksInv, KeptOK
<1>4. /\ Len(kept) \in Nat /\ DOMAIN kept = 1..Len(kept)
      /\ DOMAIN Append(kept, c) = 1..(Len(kept) + 1)
      /\ Append(kept, c)[Len(kept) + 1] = c
      /\ \A k \in DOMAIN kept : Append(kept, c)[k] = kept[k]
      /\ Range(Append(kept, c)) = Range(kept) \cup {c}
  <2> HIDE DEF c
  <2> QED BY <1>3, Appended
<1> HIDE DEF c
<1>5. ASSUME NEW i \in DOMAIN nodes, Standing(i)
      PROVE  AwaitedWhole(i)' \/ Own(i) \in Range(kept')
  <2> DEFINE line == nodes[i].first
  <2>1. CASE Own(i) \in Range(kept)
    BY <1>1, <1>4, <2>1
  <2>2. CASE Own(i) \notin Range(kept)
    <3>1. AwaitedWhole(i)
      BY <1>1, <1>5, <2>2 DEF WholeInv
    <3>2. PICK k \in DOMAIN raw : raw[k] = Own(i) /\ Before(raw, k, line)
      BY <3>1 DEF AwaitedWhole
    <3>3. \A j \in DOMAIN kept : kept[j].last < line
      BY <3>1 DEF AwaitedWhole
    <3>4. CASE k = 1
      <4>1. c.first = line /\ line \in Nat
        BY <1>1, <3>2, <3>4, NodeLines DEF c
      <4>2. ASSUME kept # << >> PROVE ~(c.first <= kept[Len(kept)].last)
        <5>1. Len(kept) \in DOMAIN kept
          BY <1>3, <4>2
        <5>2. kept[Len(kept)] \in Pieces
          BY <1>3, <5>1
        <5>3. kept[Len(kept)].last \in Nat
          BY <5>2 DEF Pieces
        <5> HIDE DEF line
        <5> QED BY <3>3, <4>1, <5>1, <5>3
      <4>3. ~Overlaps(c)
        BY <4>2 DEF Overlaps
      <4> QED BY <1>1, <1>4, <3>2, <3>4, <4>3 DEF c
    <3>5. CASE k # 1
      <4>1. k - 1 \in DOMAIN raw' /\ raw'[k - 1] = Own(i)
        BY <1>2, <3>2, <3>5
      <4>2. \A j \in DOMAIN raw' : j < k - 1 => raw'[j].last < line
        <5> TAKE j \in DOMAIN raw'
        <5> HAVE j < k - 1
        <5>1. j + 1 \in DOMAIN raw /\ j + 1 < k /\ raw'[j] = raw[j + 1]
          BY <1>2
        <5> QED BY <3>2, <5>1 DEF Before
      <4>3. c.last < line
        BY <1>2, <1>3, <3>2, <3>5 DEF Before, c
      <4>4. \A j \in DOMAIN kept' : kept'[j].last < line
        <5>1. CASE kept' = kept
          BY <3>3, <5>1
        <5>2. CASE kept' = Append(kept, c)
          <6>1. \A j \in DOMAIN kept' : j \in DOMAIN kept \/ j = Len(kept) + 1
            BY <1>4, <5>2
          <6> QED BY <1>4, <3>3, <4>3, <5>2, <6>1
        <5> QED BY <1>1, <5>1, <5>2
      <4>5. Own(i)' = Own(i)
        BY <1>1 DEF Own
      <4> QED BY <1>1, <4>1, <4>2, <4>4, <4>5 DEF AwaitedWhole, Before
    <3> QED BY <3>4, <3>5
  <2> QED BY <2>1, <2>2
<1>6. \A i \in DOMAIN nodes : Standing(i)' => AwaitedWhole(i)' \/ Own(i)' \in Range(kept')
  BY <1>1, <1>5 DEF Standing, Own
<1>7. InSourceOrder(nodes)' /\ DefinitionsStayWhole'
  BY <1>1 DEF WholeInv, InSourceOrder, DefinitionsStayWhole
<1> QED BY <1>1, <1>6, <1>7 DEF WholeInv

(* Filling: a kept definition is never before the cursor, so it is pushed.    *)
LEMMA FillKeepsWhole ==
    ASSUME ChunksInv, WholeInv, Deduped \/ FillGap \/ PushChunk \/ Finish
    PROVE  WholeInv'
<1>1. nodes' = nodes /\ window = 0 /\ window' = 0 /\ InputOK
  BY DEF Deduped, FillGap, PushChunk, Finish, input, ChunksInv, InputOK
<1>2. InSourceOrder(nodes)'
  BY <1>1 DEF WholeInv, InSourceOrder
<1>3. \A i : (Standing(i)' <=> Standing(i)) /\ Own(i)' = Own(i)
  BY <1>1 DEF Standing, Own
<1>4. CASE Deduped
  <2>1. /\ pc = "dedup" /\ pc' = "fill" /\ raw = << >> /\ kept' = kept /\ chunks' = chunks
    BY <1>4 DEF Deduped
  <2>2. \A i \in DOMAIN nodes : ~AwaitedWhole(i)
    BY <2>1 DEF AwaitedWhole
  <2>3. \A i \in DOMAIN nodes : Standing(i) => Own(i) \in Range(kept)
    BY <2>1, <2>2 DEF WholeInv
  <2> QED BY <1>1, <1>2, <1>3, <2>1, <2>3 DEF WholeInv, DefinitionsStayWhole
<1>5. CASE FillGap \/ PushChunk
  <2>1. pc = "fill" /\ pc' = "fill"
    BY <1>5 DEF FillGap, PushChunk
  <2>2. Range(kept) \cup Range(chunks) \subseteq Range(kept') \cup Range(chunks')
    <3>1. /\ chunks \in Seq(Pieces) /\ kept \in Seq(Pieces) /\ cursor \in Nat
          /\ kept # << >> => kept[1].first >= cursor
          /\ \A k \in DOMAIN kept : Piece(kept[k])
          /\ total_lines \in Nat
      BY <1>1 DEF ChunksInv, FillOK, KeptOK, InputOK
    <3>2. CASE FillGap
      <4> DEFINE last == Smaller(cursor + max_lines - 1, GapEnd)
                 c == Chunk(cursor, last, "FallbackLineWindow")
      <4>1. kept' = kept /\ chunks' = Append(chunks, c)
        BY <3>2 DEF FillGap
      <4>2. Range(chunks) \subseteq Range(Append(chunks, c))
        <5> HIDE DEF c
        <5>1. DOMAIN chunks \subseteq DOMAIN Append(chunks, c)
              /\ \A k \in DOMAIN chunks : Append(chunks, c)[k] = chunks[k]
          BY <3>1
        <5> QED BY <5>1 DEF Range
      <4> QED BY <4>1, <4>2
    <3>3. CASE PushChunk
      <4> DEFINE c == kept[1]
      <4>1. kept # << >> /\ Head(kept) = c /\ kept' = Tail(kept)
        BY <3>3 DEF PushChunk
      <4>2. 1 \in DOMAIN kept /\ c \in Pieces /\ Piece(c)
        BY <3>1, <4>1
      <4>3. c.last >= cursor
        BY <3>1, <4>1, <4>2 DEF Pieces, Piece
      <4>4. chunks' = Append(chunks, c)
        BY <3>3, <4>1, <4>3 DEF PushChunk
      <4>5. Range(chunks') = Range(chunks) \cup {c}
        <5> HIDE DEF c
        <5> QED BY <3>1, <4>2, <4>4, Appended
      <4>6. \A k \in DOMAIN kept : k # 1 => k - 1 \in DOMAIN kept' /\ kept'[k - 1] = kept[k]
        BY <3>1, <4>1
      <4> HIDE DEF c
      <4>7. Range(kept) \subseteq Range(kept') \cup {c}
        BY <4>6 DEF Range, c
      <4> QED BY <4>5, <4>7
    <3> QED BY <1>5, <3>2, <3>3
  <2> QED BY <1>1, <1>2, <1>3, <2>1, <2>2 DEF WholeInv, DefinitionsStayWhole
<1>6. CASE Finish
  <2>1. pc = "fill" /\ pc' = "done" /\ kept = << >> /\ chunks' = chunks
    BY <1>6 DEF Finish
  <2>2. Range(kept) = {}
    BY <2>1 DEF Range
  <2> QED BY <1>1, <1>2, <1>3, <2>1, <2>2 DEF WholeInv, DefinitionsStayWhole
<1> QED BY <1>4, <1>5, <1>6

LEMMA WholeInit == Init => WholeInv
<1> SUFFICES ASSUME Init PROVE WholeInv
  OBVIOUS
<1>1. InSourceOrder(nodes) /\ done = 0 /\ raw = << >> /\ pc = "collect" /\ window = 0
      /\ kept = << >>
  BY DEF Init
<1> QED BY <1>1 DEF WholeInv, DefinitionsStayWhole

(* However many definitions a file has and however long the others are, one   *)
(* that fits in max_lines and starts behind the one before it is a chunk of   *)
(* its own: neither the split, the sort, the overlap rule nor the gap filling *)
(* cuts it.                                                                   *)
THEOREM WholeDefinitions == Spec => []DefinitionsStayWhole
<1>1. ASSUME ChunksInv, WholeInv, [Next]_vars PROVE ChunksInv' /\ WholeInv'
  <2>1. CASE UNCHANGED vars
    <3>1. ChunksInv'
      BY <1>1, <2>1
      DEF vars, ChunksInv, InputOK, RawOK, KeptOK, FillOK, ChunksPartition, Piece
    <3>2. WholeInv'
      BY <1>1, <2>1
      DEF vars, WholeInv, InSourceOrder, Oversized, Standing, Own, CollectedWhole,
          AwaitedWhole, Before, DefinitionsStayWhole
    <3> QED BY <3>1, <3>2
  <2>2. CASE Collect \/ SplitNode
    BY <1>1, <2>2, CollectStep, CollectKeepsWhole
  <2>3. CASE Sort
    BY <1>1, <2>3, SortStep, SortKeepsWhole
  <2>4. CASE Dedup
    BY <1>1, <2>4, DedupStep, DedupKeepsWhole
  <2>5. CASE Deduped \/ FillGap \/ PushChunk \/ Finish
    BY <1>1, <2>5, DedupStep, FillGapStep, PushChunkStep, FinishStep, FillKeepsWhole
  <2> QED BY <1>1, <2>1, <2>2, <2>3, <2>4, <2>5 DEF Next
<1>2. WholeInv => DefinitionsStayWhole
  BY DEF WholeInv
<1> QED BY ChunkInit, WholeInit, <1>1, <1>2, PTL DEF Spec
=============================================================================

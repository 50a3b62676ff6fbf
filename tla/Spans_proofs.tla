----------------------------- MODULE Spans_proofs -----------------------------
(* Proofs about Spans, for files of any length and constants that satisfy     *)
(* SpanConstants: the windows partition the file, and the range made from a   *)
(* line shows it and tells it from every other line of a long enough file.    *)
EXTENDS Spans, FiniteSetTheorems, TLAPS

(* A range is one that the strict guard of the search accepts, it shows the   *)
(* best line, and it is no longer than MAX_EVIDENCE_SPAN.                     *)
THEOREM TightFits ==
    ASSUME NEW total \in Nat, NEW best \in 1..total
    PROVE  LET r == Tight(best, total)
           IN  /\ r.first \in 1..best /\ r.last \in best..total
               /\ r.last - r.first < MAX_EVIDENCE_SPAN
BY SpanConstants DEF Tight, Larger, Smaller

(* In a file longer than the context around a line, two lines never share     *)
(* their range.                                                               *)
THEOREM TightTellsLinesApart ==
    ASSUME NEW total \in Nat, total > 2 * CONTEXT_LINES,
           NEW a \in 1..total, NEW b \in 1..total, a < b
    PROVE  Tight(a, total) # Tight(b, total)
<1> DEFINE fst(n) == Larger(n - CONTEXT_LINES, 1)
           lst(n) == Smaller(Smaller(n + CONTEXT_LINES, total),
                             fst(n) + MAX_EVIDENCE_SPAN - 1)
<1>1. \A n \in 1..total : Tight(n, total) = [first |-> fst(n), last |-> lst(n)]
  BY DEF Tight
<1>2. fst(a) # fst(b) \/ lst(a) # lst(b)
  BY SpanConstants DEF Larger, Smaller
<1> HIDE DEF fst, lst
<1> QED BY <1>1, <1>2

(* What the loop over windows keeps true, with the types it needs.            *)
WindowsInv ==
    /\ overlap \in Seq(0..MaxTokens)
    /\ chunk_start \in 0..total_lines
    /\ chunks \in Seq([first : Nat, last : Nat])
    /\ WindowsPartition

LEMMA WindowsInit == Init => WindowsInv
<1> SUFFICES ASSUME Init PROVE WindowsInv
  OBVIOUS
<1>1. overlap \in Seq(0..MaxTokens)
  BY SpanBounds DEF Init
<1> QED BY <1>1 DEF Init, WindowsInv, WindowsPartition, total_lines

(* The next window starts after the last one and reaches a line further.      *)
LEMMA WindowFits ==
    ASSUME NEW start \in Nat, total_lines \in Nat, start < total_lines
    PROVE  LET w == Window(start)
           IN  /\ w \in [first : Nat, last : Nat]
               /\ w.first = start + 1 /\ w.last \in (start + 1)..total_lines
               /\ w.last - w.first < MAX_CHUNK_LINES
BY SpanConstants DEF Window, Smaller

LEMMA WindowsStep == WindowsInv /\ [Next]_vars => WindowsInv'
<1> SUFFICES ASSUME WindowsInv, [Next]_vars PROVE WindowsInv'
  OBVIOUS
<1>1. CASE Chunk
  <2> DEFINE w == Window(chunk_start)
             n == Len(chunks)
  <2>1. total_lines \in Nat /\ total_lines' = total_lines /\ chunk_start \in Nat
    BY <1>1 DEF WindowsInv, Chunk, total_lines
  <2>2. /\ chunks' = Append(chunks, w) /\ chunk_start' = w.last
        /\ overlap' = overlap /\ chunk_start < total_lines
    BY <1>1 DEF Chunk
  <2>3. /\ w \in [first : Nat, last : Nat]
        /\ w.first = chunk_start + 1 /\ w.last \in (chunk_start + 1)..total_lines
        /\ w.last - w.first < MAX_CHUNK_LINES
    BY <2>1, <2>2, WindowFits
  <2> HIDE DEF w
  <2>4. /\ chunks' \in Seq([first : Nat, last : Nat])
        /\ Len(chunks') = n + 1 /\ chunks'[n + 1] = w
        /\ \A i \in 1..n : chunks'[i] = chunks[i]
        /\ n \in Nat /\ DOMAIN chunks = 1..n /\ DOMAIN chunks' = 1..(n + 1)
    BY <2>2, <2>3 DEF WindowsInv
  <2>5. chunk_start = IF n = 0 THEN 0 ELSE chunks[n].last
    BY <2>4 DEF WindowsInv, WindowsPartition
  <2>6. \A i \in 1..n :
           /\ chunks[i].first = IF i = 1 THEN 1 ELSE chunks[i - 1].last + 1
           /\ chunks[i].first <= chunks[i].last
           /\ chunks[i].last - chunks[i].first < MAX_CHUNK_LINES
           /\ chunks[i].last <= total_lines
    BY <2>4 DEF WindowsInv, WindowsPartition
  <2> HIDE DEF n
  <2>7. \A i \in 1..n :
           /\ chunks'[i].first = IF i = 1 THEN 1 ELSE chunks'[i - 1].last + 1
           /\ chunks'[i].first <= chunks'[i].last
           /\ chunks'[i].last - chunks'[i].first < MAX_CHUNK_LINES
           /\ chunks'[i].last <= total_lines
    <3> TAKE i \in 1..n
    <3>1. chunks'[i] = chunks[i]
      BY <2>4
    <3>2. i # 1 => chunks'[i - 1] = chunks[i - 1]
      <4>1. i # 1 => i - 1 \in 1..n
        BY <2>4
      <4> QED BY <2>4, <4>1
    <3>3. chunks'[i].first = IF i = 1 THEN 1 ELSE chunks'[i - 1].last + 1
      BY <2>6, <3>1, <3>2
    <3> QED BY <2>6, <3>1, <3>3
  <2>8. /\ w.first = IF n + 1 = 1 THEN 1 ELSE chunks'[n].last + 1
        /\ w.first <= w.last /\ w.last <= total_lines
    BY <2>1, <2>3, <2>4, <2>5
  <2>9. chunks' # << >> /\ chunk_start' = chunks'[Len(chunks')].last
    BY <2>2, <2>4
  <2>10. WindowsPartition'
    <3>1. \A i \in 1..(n + 1) : i \in 1..n \/ i = n + 1
      BY <2>4
    <3>2. ASSUME NEW i \in 1..(n + 1)
          PROVE  /\ chunks'[i].first = IF i = 1 THEN 1 ELSE chunks'[i - 1].last + 1
                 /\ chunks'[i].first <= chunks'[i].last
                 /\ chunks'[i].last - chunks'[i].first < MAX_CHUNK_LINES
                 /\ chunks'[i].last <= total_lines
      <4>1. CASE i \in 1..n
        BY <2>7, <4>1
      <4>2. CASE i = n + 1
        <5>1. i - 1 = n
          BY <2>4, <4>2
        <5> QED BY <2>3, <2>4, <2>8, <4>2, <5>1
      <4> QED BY <3>1, <4>1, <4>2
    <3> QED BY <2>1, <2>4, <2>9, <3>2 DEF WindowsPartition
  <2>11. chunk_start' \in 0..total_lines'
    BY <2>1, <2>2, <2>3
  <2>12. (overlap \in Seq(0..MaxTokens))'
    BY <2>2 DEF WindowsInv
  <2> QED BY <2>4, <2>10, <2>11, <2>12 DEF WindowsInv
<1>2. CASE Locate \/ UNCHANGED vars
  <2>1. UNCHANGED << overlap, chunk_start, chunks >>
    BY <1>2 DEF Locate, vars
  <2> QED BY <2>1 DEF WindowsInv, WindowsPartition, total_lines
<1> QED BY <1>1, <1>2 DEF Next

(* The windows partition the file.                                            *)
THEOREM Partition == Spec => []WindowsPartition
<1>1. WindowsInv => WindowsPartition
  BY DEF WindowsInv
<1> QED BY WindowsInit, WindowsStep, <1>1, PTL DEF Spec

-----------------------------------------------------------------------------
(* The scan for the best line is a recursion over the lines of a window.  Its *)
(* facts follow by least counterexample.                                      *)

(* A set of naturals that has an element has a least one.                     *)
LEMMA LeastElement ==
    ASSUME NEW T \in SUBSET Nat, T # {}
    PROVE  \E m \in T : \A k \in T : m <= k
<1>1. PICK m \in T : \A k \in T : ~(<<k, m>> \in OpToRel(<, Nat))
  BY NatLessThanWellFounded, WFMin
<1>2. \A k \in T : ~(k < m)
  BY <1>1 DEF OpToRel
<1> QED BY <1>2

(* One step of the scan, given what it has found on the lines before.         *)
Scan(f, w, n) ==
    IF n < w.first THEN [score |-> 0, line |-> 0]
    ELSE IF overlap[n] > f[n - 1].score
         THEN [score |-> overlap[n], line |-> n]
         ELSE f[n - 1]

(* The recursion has a solution on every part of the window, hence on it all: *)
(* the solution up to a line extends to the next.                             *)
LEMMA ScanExists ==
    ASSUME NEW w \in [first : Nat, last : Nat]
    PROVE  \E f : f = [n \in (w.first - 1)..w.last |-> Scan(f, w, n)]
<1> DEFINE lo == w.first - 1
           Found(m) == \E f : f = [n \in lo..(lo + m) |-> Scan(f, w, n)]
           T == {m \in Nat : ~Found(m)}
<1>1. lo \in Int /\ w.first = lo + 1 /\ w.last \in Nat
  OBVIOUS
<1>2. T = {}
  <2> SUFFICES ASSUME T # {} PROVE FALSE
    OBVIOUS
  <2>1. PICK m \in T : \A k \in T : m <= k
    <3> HIDE DEF Found
    <3> QED BY LeastElement
  <2>2. m \in Nat /\ ~Found(m)
    OBVIOUS
  <2>3. m # 0
    <3> DEFINE f == [n \in lo..lo |-> [score |-> 0, line |-> 0]]
    <3>1. f = [n \in lo..(lo + 0) |-> Scan(f, w, n)]
      BY <1>1 DEF Scan
    <3>2. Found(0)
      BY <3>1
    <3> QED BY <2>2, <3>2
  <2>4. m - 1 \in Nat /\ Found(m - 1)
    <3> HIDE DEF Found
    <3> QED BY <2>1, <2>2, <2>3
  <2>5. PICK f : f = [n \in lo..(lo + (m - 1)) |-> Scan(f, w, n)]
    BY <2>4
  <2> DEFINE g == [n \in lo..(lo + m) |-> IF n = lo + m THEN Scan(f, w, n) ELSE f[n]]
  <2>6. \A n \in lo..(lo + m) : g[n] = Scan(g, w, n)
    <3> TAKE n \in lo..(lo + m)
    <3>1. n > lo => n - 1 \in lo..(lo + (m - 1)) /\ g[n - 1] = f[n - 1]
      BY <1>1, <2>2, <2>3
    <3>2. g[n] = Scan(f, w, n)
      <4>1. n # lo + m => n \in lo..(lo + (m - 1))
        BY <1>1, <2>2
      <4> QED BY <2>5, <4>1
    <3>3. n >= w.first => n > lo
      BY <1>1
    <3> HIDE DEF g, lo
    <3> QED BY <1>1, <3>1, <3>2, <3>3 DEF Scan
  <2>7. Found(m)
    <3>1. g = [n \in lo..(lo + m) |-> Scan(g, w, n)]
      <4> DEFINE h == [n \in lo..(lo + m) |-> Scan(g, w, n)]
      <4>1. g = h
        BY <2>6
      <4> QED BY <4>1
    <3> QED BY <3>1
  <2> QED BY <2>2, <2>7
<1>3. CASE w.last >= lo
  <2>1. w.last - lo \in Nat /\ lo + (w.last - lo) = w.last
    BY <1>1, <1>3
  <2>2. Found(w.last - lo)
    <3> HIDE DEF Found
    <3> QED BY <1>2, <2>1
  <2> QED BY <2>1, <2>2
<1>4. CASE w.last < lo
  <2> DEFINE f == [n \in {} |-> 0]
  <2>1. lo..w.last = {}
    BY <1>1, <1>4
  <2>2. f = [n \in lo..w.last |-> Scan(f, w, n)]
    BY <2>1
  <2> QED BY <2>2
<1> QED BY <1>1, <1>3, <1>4

(* So the scan that the model defines is that recursion.                      *)
LEMMA ScanUnfolds ==
    ASSUME NEW w \in [first : Nat, last : Nat], NEW n \in (w.first - 1)..w.last
    PROVE  BestUpTo(w)[n] = Scan(BestUpTo(w), w, n)
<1> DEFINE u == BestUpTo(w)
<1>1. u = [k \in (w.first - 1)..w.last |-> Scan(u, w, k)]
  BY ScanExists DEF BestUpTo, Scan
<1> HIDE DEF u
<1>2. u[n] = Scan(u, w, n)
  BY <1>1
<1> QED BY <1>2 DEF u

(* What the scan has found once it is past line n: nothing when no line has a *)
(* token, else the first line with most.                                      *)
Best(w, n) ==
    LET u == BestUpTo(w)[n]
    IN  IF \A k \in w.first..n : overlap[k] = 0
        THEN u = [score |-> 0, line |-> 0]
        ELSE /\ u.line \in w.first..n /\ u.score = overlap[u.line]
             /\ \A k \in w.first..n :
                   overlap[k] <= u.score /\ (k < u.line => overlap[k] < u.score)

InFile(w) == 1 <= w.first /\ w.first <= w.last /\ w.last <= total_lines

LEMMA BestNext ==
    ASSUME overlap \in Seq(Nat), NEW w \in [first : Nat, last : Nat], InFile(w),
           NEW n \in w.first..w.last, Best(w, n - 1)
    PROVE  Best(w, n)
<1> DEFINE u == BestUpTo(w)[n - 1]
           v == BestUpTo(w)[n]
<1>1. v = IF overlap[n] > u.score THEN [score |-> overlap[n], line |-> n] ELSE u
  <2>1. n \in (w.first - 1)..w.last /\ ~(n < w.first)
    OBVIOUS
  <2> QED BY <2>1, ScanUnfolds DEF Scan
<1>2. \A k \in w.first..n : overlap[k] \in Nat
  BY DEF InFile, total_lines
<1>3. /\ \A k \in w.first..(n - 1) : k \in w.first..n /\ k < n
      /\ \A k \in w.first..n : k \in w.first..(n - 1) \/ k = n
      /\ n \in w.first..n /\ n \in Nat
  OBVIOUS
<1>4. Best(w, n - 1)
  OBVIOUS
<1>5. CASE \A k \in w.first..(n - 1) : overlap[k] = 0
  <2>1. u = [score |-> 0, line |-> 0]
    BY <1>4, <1>5 DEF Best
  <2> HIDE DEF u, v
  <2>2. CASE overlap[n] = 0
    <3>1. v = [score |-> 0, line |-> 0] /\ \A k \in w.first..n : overlap[k] = 0
      BY <1>1, <1>3, <1>5, <2>1, <2>2
    <3> QED BY <3>1 DEF Best, v
  <2>3. CASE overlap[n] # 0
    <3>1. overlap[n] > 0 /\ v = [score |-> overlap[n], line |-> n]
      BY <1>1, <1>2, <1>3, <2>1, <2>3
    <3>2. \A k \in w.first..n :
             overlap[k] <= overlap[n] /\ (k < n => overlap[k] < overlap[n])
      BY <1>2, <1>3, <1>5, <3>1
    <3> QED BY <1>3, <2>3, <3>1, <3>2 DEF Best, v
  <2> QED BY <2>2, <2>3
<1>6. CASE ~(\A k \in w.first..(n - 1) : overlap[k] = 0)
  <2>1. /\ u.line \in w.first..(n - 1) /\ u.score = overlap[u.line]
        /\ \A k \in w.first..(n - 1) :
              overlap[k] <= u.score /\ (k < u.line => overlap[k] < u.score)
    BY <1>4, <1>6 DEF Best
  <2>2. ~(\A k \in w.first..n : overlap[k] = 0)
    BY <1>3, <1>6
  <2>3. u.score \in Nat /\ u.line \in Nat /\ u.line < n
    BY <1>2, <1>3, <2>1
  <2> HIDE DEF u, v
  <2>4. CASE overlap[n] > u.score
    <3>1. v.score = overlap[n] /\ v.line = n
      BY <1>1, <2>4
    <3>2. \A k \in w.first..n :
             overlap[k] <= overlap[n] /\ (k < n => overlap[k] < overlap[n])
      <4> TAKE k \in w.first..n
      <4>1. overlap[k] \in Nat /\ overlap[n] \in Nat
        BY <1>2, <1>3
      <4>2. CASE k \in w.first..(n - 1)
        <5>1. overlap[k] <= u.score
          BY <2>1, <4>2
        <5> QED BY <2>3, <2>4, <4>1, <5>1
      <4>3. CASE k = n
        BY <1>3, <4>1, <4>3
      <4> QED BY <1>3, <4>2, <4>3
    <3> QED BY <1>3, <2>2, <3>1, <3>2 DEF Best, v
  <2>5. CASE ~(overlap[n] > u.score)
    <3>1. v = u
      BY <1>1, <2>5
    <3>2. \A k \in w.first..n :
             overlap[k] <= u.score /\ (k < u.line => overlap[k] < u.score)
      <4> TAKE k \in w.first..n
      <4>1. CASE k \in w.first..(n - 1)
        BY <2>1, <4>1
      <4>2. CASE k = n
        <5>1. overlap[k] \in Nat /\ ~(k < u.line)
          BY <1>2, <1>3, <2>3, <4>2
        <5> QED BY <2>3, <2>5, <4>2, <5>1
      <4> QED BY <1>3, <4>1, <4>2
    <3> QED BY <1>3, <2>1, <2>2, <3>1, <3>2 DEF Best, v
  <2> QED BY <2>4, <2>5
<1> QED BY <1>5, <1>6

LEMMA BestFound ==
    ASSUME overlap \in Seq(Nat), NEW w \in [first : Nat, last : Nat], InFile(w)
    PROVE  Best(w, w.last)
<1> DEFINE lo == w.first - 1
           T == {m \in Nat : lo + m <= w.last /\ ~Best(w, lo + m)}
<1>1. lo \in Nat /\ w.last \in Nat /\ w.last - lo \in Nat /\ w.last = lo + (w.last - lo)
      /\ w.first = lo + 1
  <2>1. w.first \in Nat /\ w.last \in Nat /\ 1 <= w.first /\ w.first <= w.last
    BY DEF InFile
  <2>2. ASSUME NEW a \in Nat, NEW b \in Nat, 1 <= a, a <= b
        PROVE  /\ a - 1 \in Nat /\ b - (a - 1) \in Nat /\ b = (a - 1) + (b - (a - 1))
               /\ a = (a - 1) + 1
    BY <2>2
  <2> QED BY <2>1, <2>2
<1>2. T = {}
  <2> SUFFICES ASSUME T # {} PROVE FALSE
    OBVIOUS
  <2>1. PICK m \in T : \A k \in T : m <= k
    BY LeastElement
  <2>2. m \in Nat /\ lo + m <= w.last /\ ~Best(w, lo + m)
    OBVIOUS
  <2>3. CASE m = 0
    <3>1. BestUpTo(w)[lo] = [score |-> 0, line |-> 0]
      <4>1. lo \in lo..w.last /\ lo < w.first
        <5> HIDE DEF lo
        <5> QED BY <1>1
      <4> QED BY <4>1, ScanUnfolds DEF Scan
    <3>2. lo + m = lo /\ w.first..lo = {}
      <4> HIDE DEF lo
      <4>1. lo + m = lo
        BY <1>1, <2>3
      <4>2. \A k \in w.first..lo : FALSE
        BY <1>1
      <4> QED BY <4>1, <4>2
    <3> HIDE DEF lo
    <3> QED BY <2>2, <3>1, <3>2 DEF Best
  <2>4. CASE m # 0
    <3>1. m - 1 \in Nat /\ ~(m <= m - 1) /\ lo + (m - 1) <= w.last
          /\ lo + m \in w.first..w.last /\ (lo + m) - 1 = lo + (m - 1)
      <4> HIDE DEF lo
      <4> QED BY <1>1, <2>2, <2>4
    <3>2. Best(w, lo + (m - 1))
      <4> HIDE DEF lo
      <4> QED BY <2>1, <3>1
    <3> HIDE DEF lo
    <3> QED BY <2>2, <3>1, <3>2, BestNext
  <2> QED BY <2>3, <2>4
<1>3. w.last - lo \notin T
  BY <1>2
<1> HIDE DEF lo
<1> QED BY <1>1, <1>3

-----------------------------------------------------------------------------
(* What the loop over hits keeps true: each span is its window's best line    *)
(* with the range around it, and the windows come in the order of the file,   *)
(* full ones but for the last.                                                *)
SpansInv ==
    /\ spans \in Seq([best : Int, range : [first : Int, last : Int]])
    /\ Len(spans) <= Len(chunks)
    /\ spans # << >> => chunk_start = total_lines
    /\ \A i \in DOMAIN spans :
          /\ spans[i].best = BestLine(chunks[i])
          /\ spans[i].range = Tight(spans[i].best, total_lines)
    /\ \A i \in DOMAIN chunks :
          /\ chunks[i].last <= chunk_start
          /\ chunks[i].last = total_lines
                \/ chunks[i].last - chunks[i].first = MAX_CHUNK_LINES - 1
          /\ \A j \in DOMAIN chunks : i < j => chunks[i].last < chunks[j].first

LEMMA SpansInit == Init => SpansInv
BY DEF Init, SpansInv, total_lines

(* What a window hit becomes is well formed whatever the line found.          *)
LEMMA BestIsLine ==
    ASSUME WindowsInv, NEW i \in DOMAIN chunks
    PROVE  /\ BestLine(chunks[i]) \in Nat
           /\ InFile(chunks[i]) /\ Best(chunks[i], chunks[i].last)
           /\ chunks[i] \in [first : Nat, last : Nat]
<1> DEFINE w == chunks[i]
<1>1. overlap \in Seq(Nat)
  BY SpanBounds DEF WindowsInv
<1>2. \A k \in DOMAIN chunks : chunks[k] \in [first : Nat, last : Nat]
  <2> DEFINE W == [first : Nat, last : Nat]
  <2>1. chunks \in Seq(W)
    BY DEF WindowsInv
  <2> HIDE DEF W
  <2>2. \A k \in DOMAIN chunks : chunks[k] \in W
    BY <2>1
  <2> QED BY <2>2 DEF W
<1>3. w \in [first : Nat, last : Nat]
  BY <1>2
<1>4. InFile(w)
  <2>1. i = 1 \/ i - 1 \in DOMAIN chunks
    BY DEF WindowsInv
  <2>2. chunks[i].first = IF i = 1 THEN 1 ELSE chunks[i - 1].last + 1
    BY DEF WindowsInv, WindowsPartition
  <2>3. w.first >= 1
    BY <1>2, <2>1, <2>2
  <2> QED BY <2>3 DEF WindowsInv, WindowsPartition, InFile
<1> HIDE DEF w
<1>5. Best(w, w.last)
  BY <1>1, <1>3, <1>4, BestFound
<1>6. BestLine(w) \in Nat
  <2>1. w.first \in Nat /\ w.last \in Nat
    BY <1>3
  <2> QED BY <1>5, <2>1 DEF Best, BestLine
<1> QED BY <1>3, <1>4, <1>5, <1>6 DEF w

LEMMA SpansStep == WindowsInv /\ SpansInv /\ [Next]_vars => SpansInv'
<1> SUFFICES ASSUME WindowsInv, SpansInv, [Next]_vars PROVE SpansInv'
  OBVIOUS
<1> DEFINE W == [first : Nat, last : Nat]
           S == [best : Int, range : [first : Int, last : Int]]
<1>1. /\ chunks \in Seq(W) /\ total_lines \in Nat
      /\ chunk_start \in Nat
  BY DEF WindowsInv, total_lines
<1>2. /\ spans \in Seq(S) /\ Len(spans) <= Len(chunks)
      /\ spans # << >> => chunk_start = total_lines
  BY DEF SpansInv
<1>3. CASE Chunk
  <2> DEFINE w == Window(chunk_start)
             n == Len(chunks)
  <2>1. /\ chunks' = Append(chunks, w) /\ chunk_start' = w.last /\ spans' = << >>
        /\ spans = << >>
        /\ overlap' = overlap /\ total_lines' = total_lines /\ chunk_start < total_lines
    BY <1>1, <1>2, <1>3 DEF Chunk, total_lines
  <2>2. /\ w \in W /\ w.first = chunk_start + 1 /\ w.last \in (chunk_start + 1)..total_lines
        /\ w.last = total_lines \/ w.last - w.first = MAX_CHUNK_LINES - 1
    <3>1. w.last = total_lines \/ w.last = chunk_start + MAX_CHUNK_LINES
      BY DEF Window, Smaller
    <3>2. /\ w \in W /\ w.first = chunk_start + 1
          /\ w.last \in (chunk_start + 1)..total_lines
      BY <1>1, <2>1, WindowFits
    <3> HIDE DEF w
    <3> QED BY <1>1, <3>1, <3>2, SpanConstants
  <2> HIDE DEF w, W
  <2>3. /\ n \in Nat /\ DOMAIN chunks = 1..n /\ DOMAIN chunks' = 1..(n + 1)
        /\ chunks'[n + 1] = w /\ \A i \in 1..n : chunks'[i] = chunks[i] /\ chunks[i] \in W
        /\ Len(chunks') = n + 1
    BY <1>1, <2>1, <2>2
  <2> HIDE DEF n
  <2>4. \A i \in 1..n :
          /\ chunks[i].last <= chunk_start
          /\ chunks[i].last = total_lines
                \/ chunks[i].last - chunks[i].first = MAX_CHUNK_LINES - 1
          /\ \A j \in 1..n : i < j => chunks[i].last < chunks[j].first
    BY <2>3 DEF SpansInv
  <2>5. \A i \in 1..n : chunks[i].last \in Nat
    BY <2>3 DEF W
  <2>6. \A i \in 1..(n + 1) :
          /\ chunks'[i].last <= chunk_start'
          /\ chunks'[i].last = total_lines
                \/ chunks'[i].last - chunks'[i].first = MAX_CHUNK_LINES - 1
          /\ \A j \in 1..(n + 1) : i < j => chunks'[i].last < chunks'[j].first
    <3> TAKE i \in 1..(n + 1)
    <3>1. CASE i = n + 1
      <4>1. \A j \in 1..(n + 1) : ~(i < j)
        BY <2>3, <3>1
      <4>2. w.last <= w.last
        BY <1>1, <2>2
      <4> QED BY <2>1, <2>2, <2>3, <3>1, <4>1, <4>2
    <3>2. CASE i # n + 1
      <4>1. i \in 1..n /\ chunks'[i] = chunks[i]
        BY <2>3, <3>2
      <4>2. chunks[i].last <= w.last /\ chunks[i].last < w.first
        BY <1>1, <2>2, <2>4, <2>5, <4>1
      <4>3. ASSUME NEW j \in 1..(n + 1), i < j PROVE chunks[i].last < chunks'[j].first
        <5>1. j \in 1..n \/ j = n + 1
          BY <2>3
        <5> QED BY <2>3, <2>4, <4>1, <4>2, <4>3, <5>1
      <4> QED BY <2>1, <2>4, <4>1, <4>2, <4>3
    <3> QED BY <3>1, <3>2
  <2>7. Len(spans') <= Len(chunks') /\ spans' \in Seq(S) /\ DOMAIN spans' = {}
    BY <2>1, <2>3
  <2> QED BY <2>1, <2>3, <2>6, <2>7 DEF SpansInv
<1>4. CASE Locate
  <2> DEFINE n == Len(spans)
             best == BestLine(chunks[n + 1])
             s == [best |-> best, range |-> Tight(best, total_lines)]
  <2>1. /\ chunk_start = total_lines /\ n < Len(chunks) /\ spans' = Append(spans, s)
        /\ overlap' = overlap /\ chunk_start' = chunk_start /\ chunks' = chunks
        /\ total_lines' = total_lines
    BY <1>4 DEF Locate, total_lines
  <2>2. n \in Nat /\ Len(chunks) \in Nat /\ n + 1 \in DOMAIN chunks
    BY <1>1, <1>2, <2>1
  <2>3. best \in Nat
    BY <2>2, BestIsLine
  <2>4. s \in S
    <3>1. best - CONTEXT_LINES \in Int /\ best + CONTEXT_LINES \in Int
      BY <2>3, SpanConstants
    <3> HIDE DEF best
    <3>2. Tight(best, total_lines) \in [first : Int, last : Int]
      BY <1>1, <3>1, SpanConstants DEF Tight, Larger, Smaller
    <3> QED BY <2>3, <3>2
  <2>5. /\ spans' \in Seq(S) /\ Len(spans') = n + 1 /\ DOMAIN spans' = 1..(n + 1)
        /\ DOMAIN spans = 1..n
        /\ spans'[n + 1] = s /\ \A i \in 1..n : spans'[i] = spans[i]
    <3> HIDE DEF s, S
    <3> QED BY <1>2, <2>1, <2>4
  <2>6. \A i \in 1..(n + 1) :
          /\ spans'[i].best = BestLine(chunks[i])
          /\ spans'[i].range = Tight(spans'[i].best, total_lines)
    <3> HIDE DEF n
    <3> TAKE i \in 1..(n + 1)
    <3>1. i \in 1..n \/ i = n + 1
      BY <2>2
    <3>2. CASE i \in 1..n
      BY <2>5, <3>2 DEF SpansInv
    <3>3. CASE i = n + 1
      BY <2>5, <3>3
    <3> QED BY <3>1, <3>2, <3>3
  <2>7. \A i \in 1..(n + 1) : BestLine(chunks[i])' = BestLine(chunks[i])
    <3>1. overlap' = overlap /\ chunks' = chunks
      BY <2>1
    <3>2. \A i : BestLine(chunks[i])' = BestLine(chunks[i])
      BY <3>1 DEF BestLine, BestUpTo
    <3> QED BY <3>2
  <2>8. \A i \in DOMAIN spans' :
          /\ spans'[i].best = BestLine(chunks[i])'
          /\ spans'[i].range = Tight(spans'[i].best, total_lines')
    <3> HIDE DEF n, s, best
    <3> QED BY <2>1, <2>5, <2>6, <2>7
  <2>9. Len(spans') <= Len(chunks')
    BY <2>1, <2>2, <2>5
  <2> QED BY <2>1, <2>5, <2>8, <2>9 DEF SpansInv
<1>5. CASE UNCHANGED vars
  <2>1. \A i : BestLine(chunks[i])' = BestLine(chunks[i])
    BY <1>5 DEF vars, BestLine, BestUpTo
  <2>2. /\ chunks' = chunks /\ spans' = spans /\ chunk_start' = chunk_start
        /\ total_lines' = total_lines
    BY <1>5 DEF vars, total_lines
  <2>3. \A i \in DOMAIN spans' :
          /\ spans'[i].best = BestLine(chunks[i])'
          /\ spans'[i].range = Tight(spans'[i].best, total_lines')
    BY <2>1, <2>2 DEF SpansInv
  <2> QED BY <2>2, <2>3 DEF SpansInv
<1> QED BY <1>3, <1>4, <1>5 DEF Next

LEMMA SpansInvariant == Spec => [](WindowsInv /\ SpansInv)
BY WindowsInit, WindowsStep, SpansInit, SpansStep, PTL DEF Spec

LEMMA SpanOfWindow ==
    ASSUME WindowsInv, SpansInv, NEW i \in DOMAIN spans
    PROVE  /\ i \in DOMAIN chunks
           /\ spans[i].best = BestLine(chunks[i])
           /\ spans[i].range = Tight(spans[i].best, total_lines)
<1>1. /\ DOMAIN spans = 1..Len(spans) /\ DOMAIN chunks = 1..Len(chunks)
      /\ Len(spans) \in Nat /\ Len(chunks) \in Nat /\ Len(spans) <= Len(chunks)
  <2> DEFINE W == [first : Nat, last : Nat]
             S == [best : Int, range : [first : Int, last : Int]]
  <2>1. chunks \in Seq(W) /\ spans \in Seq(S) /\ Len(spans) <= Len(chunks)
    BY DEF SpansInv, WindowsInv
  <2> HIDE DEF W, S
  <2> QED BY <2>1
<1>2. i \in DOMAIN chunks
  BY <1>1
<1> QED BY <1>2 DEF SpansInv

(* A search shows the first line of a window with most query tokens, in a     *)
(* range the strict guard accepts, and drops the hit when there is none.      *)
THEOREM BestLineShown == Spec => []SpanShowsBestLine
<1>1. ASSUME WindowsInv, SpansInv PROVE SpanShowsBestLine
  <2> SUFFICES ASSUME NEW i \in DOMAIN spans
               PROVE  LET w == chunks[i].first..chunks[i].last
                          b == spans[i].best
                          r == spans[i].range
                      IN  IF \A n \in w : overlap[n] = 0
                          THEN b = 0
                          ELSE /\ b \in w
                               /\ \A n \in w : overlap[n] <= overlap[b]
                                               /\ (n < b => overlap[n] < overlap[b])
                               /\ 1 <= r.first /\ r.first <= b /\ b <= r.last
                               /\ r.last <= total_lines
                               /\ r.last - r.first < MAX_EVIDENCE_SPAN
    BY DEF SpanShowsBestLine
  <2> DEFINE c == chunks[i]
             b == spans[i].best
             r == spans[i].range
  <2>1. i \in DOMAIN chunks /\ b = BestLine(c) /\ r = Tight(b, total_lines)
    BY <1>1, SpanOfWindow
  <2>2. b \in Nat /\ InFile(c) /\ Best(c, c.last) /\ c.first \in Nat /\ c.last \in Nat
    BY <1>1, <2>1, BestIsLine
  <2>3. total_lines \in Nat
    BY <1>1 DEF WindowsInv, total_lines
  <2> HIDE DEF c, b, r
  <2>4. CASE \A n \in c.first..c.last : overlap[n] = 0
    <3>1. b = 0
      BY <2>1, <2>2, <2>4 DEF Best, BestLine
    <3> QED BY <2>4, <3>1 DEF c, b
  <2>5. CASE ~(\A n \in c.first..c.last : overlap[n] = 0)
    <3>1. /\ b \in c.first..c.last
          /\ \A n \in c.first..c.last :
                overlap[n] <= overlap[b] /\ (n < b => overlap[n] < overlap[b])
      BY <2>1, <2>2, <2>5 DEF Best, BestLine
    <3>2. b \in 1..total_lines
      BY <2>2, <2>3, <3>1 DEF InFile
    <3>3. r.first \in 1..b /\ r.last \in b..total_lines /\ r.last - r.first < MAX_EVIDENCE_SPAN
      BY <2>1, <2>3, <3>2, TightFits
    <3>4. 1 <= r.first /\ r.first <= b /\ b <= r.last /\ r.last <= total_lines
      BY <2>2, <2>3, <3>3
    <3> QED BY <2>5, <3>1, <3>3, <3>4 DEF c, b, r
  <2> QED BY <2>4, <2>5
<1> QED BY <1>1, SpansInvariant, PTL

(* No two windows of a file come down to the same range: their best lines     *)
(* differ, and where there are two windows the file is longer than the        *)
(* context around a line, so that the two ranges are told apart.              *)
THEOREM SpansToldApart == Spec => []SpansDistinct
<1>1. ASSUME WindowsInv, SpansInv, NEW i \in DOMAIN spans, NEW j \in DOMAIN spans, i < j,
             spans[i].best # 0, spans[j].best # 0
      PROVE  spans[i].range # spans[j].range
  <2> DEFINE c == chunks[i]
             d == chunks[j]
             a == spans[i].best
             b == spans[j].best
  <2>1. /\ i \in DOMAIN chunks /\ a = BestLine(c) /\ spans[i].range = Tight(a, total_lines)
        /\ j \in DOMAIN chunks /\ b = BestLine(d) /\ spans[j].range = Tight(b, total_lines)
    BY <1>1, SpanOfWindow
  <2>2. /\ InFile(c) /\ Best(c, c.last) /\ c.first \in Nat /\ c.last \in Nat
        /\ InFile(d) /\ Best(d, d.last) /\ d.first \in Nat /\ d.last \in Nat
    BY <1>1, <2>1, BestIsLine
  <2>3. c.last < d.first /\ (c.last = total_lines \/ c.last - c.first = MAX_CHUNK_LINES - 1)
    BY <1>1, <2>1 DEF SpansInv
  <2>4. total_lines \in Nat
    BY <1>1 DEF WindowsInv, total_lines
  <2> HIDE DEF c, d
  <2>5. a \in c.first..c.last /\ b \in d.first..d.last
    BY <1>1, <2>1, <2>2 DEF Best, BestLine
  <2> HIDE DEF a, b
  <2>6. a \in 1..total_lines /\ b \in 1..total_lines /\ a < b
    BY <2>2, <2>3, <2>4, <2>5 DEF InFile
  <2>7. total_lines > 2 * CONTEXT_LINES
    BY <2>2, <2>3, <2>4, SpanConstants DEF InFile
  <2> QED BY <2>1, <2>4, <2>6, <2>7, TightTellsLinesApart
<1>2. ASSUME WindowsInv, SpansInv PROVE SpansDistinct
  <2> SUFFICES ASSUME NEW i \in DOMAIN spans, NEW j \in DOMAIN spans, i # j,
                      spans[i].best # 0, spans[j].best # 0
               PROVE  spans[i].range # spans[j].range
    BY DEF SpansDistinct
  <2>1. i \in Nat /\ j \in Nat
    <3> DEFINE S == [best : Int, range : [first : Int, last : Int]]
    <3>1. spans \in Seq(S)
      BY <1>2 DEF SpansInv
    <3> HIDE DEF S
    <3> QED BY <3>1
  <2>2. i < j \/ j < i
    BY <2>1
  <2> QED BY <1>1, <1>2, <2>2
<1> QED BY <1>2, SpansInvariant, PTL
=============================================================================

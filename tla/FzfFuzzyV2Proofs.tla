-------------------------- MODULE FzfFuzzyV2Proofs --------------------------
(***************************************************************************)
(* What fzf_fuzzy_match_v2 reads, writes, walks through and answers, for   *)
(* all texts, patterns and slabs.  The inductive invariant IInv describes  *)
(* the tables: which cells are written, that a cell in a column where its  *)
(* character is not found scores nothing or less than the cell on its left *)
(* (the walk back does not take it), and that the first cell of a row      *)
(* scores more than the cell diagonal to it (the walk back does not pass   *)
(* it).  PromiseInv says what the numbers mean: a cell that scores holds   *)
(* the score of columns up to it that spell the pattern up to its row.     *)
(***************************************************************************)
EXTENDS FzfFuzzyV2, SequenceTheorems, FiniteSetTheorems, WellFoundedInduction, TLAPS

Bonuses == 0 .. BonusBoundary
CellBound(row) == (row + 1) * (ScoreMatch + BonusBoundary) + BonusBoundary

TypeOK ==
  /\ call \in Calls
  /\ pc \in {"start", "bonus", "row", "fill", "trace", "done"}
  /\ at \in Nat /\ pidx \in Nat
  /\ last_idx \in Nat
  /\ in_gap \in BOOLEAN
  /\ max_score \in Nat /\ max_score_pos \in Nat
  /\ f \in Seq(Nat)
  /\ pos \in Seq(Nat)

\* Every score is within the bound of its row, and only a call whose tables fit
\* and whose pattern is no longer than the text has more rows than the first.
CellsBounded ==
  \A cell \in DOMAIN h :
    /\ cell[1] \in 0 .. M - 1
    /\ h[cell] \in 0 .. CellBound(cell[1])
    /\ cell[1] > 0 => M <= N /\ Fits

\* The first columns of the characters found, in order, up to last_idx
FoundInOrder ==
  /\ \A k \in Columns(f) : /\ At(f, k) >= k /\ At(f, k) <= last_idx
                           /\ Matches(At(f, k), k)
  /\ \A k, l \in Columns(f) : k < l => At(f, k) < At(f, l)

\* The cell was filled as the rules say, from cells this call has written.
CellSound(i, col) ==
  /\ <<i, col>> \in DOMAIN h /\ <<i, col>> \in DOMAIN c
  /\ c[<<i, col>>] \in 0 .. col - At(f, 0) + 1
  /\ i > 0 => <<i - 1, col - 1>> \in DOMAIN h
  /\ IF col = At(f, i)
       THEN /\ h[<<i, col>>] > 0
            /\ i > 0 => h[<<i, col>>] > h[<<i - 1, col - 1>>]
       ELSE /\ <<i, col - 1>> \in DOMAIN h
            /\ Matches(col, i) \/ h[<<i, col>>] = 0 \/ h[<<i, col>>] < h[<<i, col - 1>>]

\* The row is filled from its first column to this one.
RowSound(i, to) == \A col \in At(f, i) .. to : CellSound(i, col)

BonusPass ==
  /\ Fits /\ at <= N
  /\ Len(f) = pidx /\ pidx <= M /\ pidx <= at
  /\ f # <<>> => last_idx < at
  /\ \A col \in DOMAIN bo : col \in 0 .. at - 1 /\ bo[col] \in Bonuses
  /\ M > 1 => /\ max_score = 0
              /\ \A col \in DOMAIN bo : col .. at - 1 \subseteq DOMAIN bo
              /\ f # <<>> => {At(f, 0), last_idx} \subseteq DOMAIN bo
  /\ DOMAIN h = {0} \X DOMAIN bo /\ DOMAIN c = {0} \X DOMAIN bo
  /\ \A col \in DOMAIN bo :
       /\ c[<<0, col>>] \in {0, 1}
       /\ Matches(col, 0) => h[<<0, col>>] > 0
       /\ ~Matches(col, 0) /\ col - 1 \in DOMAIN bo =>
            h[<<0, col>>] = 0 \/ h[<<0, col>>] < h[<<0, col - 1>>]

\* What both the fill and the walk back start from
Prepared ==
  /\ Fits /\ M > 1
  /\ Len(f) = M /\ last_idx < N
  /\ \A col \in At(f, 0) .. last_idx : col \in DOMAIN bo /\ bo[col] \in Bonuses

RowPass ==
  /\ Prepared /\ pidx \in 1 .. M - 1 /\ max_score = 0
  /\ \A i \in 0 .. pidx - 1 : RowSound(i, last_idx)

FillPass ==
  /\ Prepared /\ pidx \in 1 .. M - 1
  /\ at \in At(f, pidx) .. last_idx + 1
  /\ \A i \in 0 .. pidx - 1 : RowSound(i, last_idx)
  /\ RowSound(pidx, at - 1)
  /\ <<pidx, at - 1>> \in DOMAIN h
  /\ at = At(f, pidx) => h[<<pidx, at - 1>>] = 0 /\ ~in_gap
  /\ IF pidx = M - 1 /\ at > At(f, pidx)
       THEN max_score > 0 /\ max_score_pos \in At(f, pidx) .. at - 1
       ELSE max_score = 0

TracePass ==
  /\ Prepared /\ pidx \in 0 .. M - 1
  /\ at \in At(f, pidx) .. last_idx
  /\ \A i \in 0 .. M - 1 : RowSound(i, last_idx)

IInv ==
  /\ TypeOK /\ CellsBounded /\ FoundInOrder
  /\ pc = "start" => f = <<>> /\ bo = <<>> /\ h = <<>> /\ c = <<>> /\ pidx = 0 /\ max_score = 0
  /\ pc \in {"start", "bonus", "row", "fill"} => pos = <<>>
  /\ pc = "bonus" => BonusPass
  /\ pc = "row" => RowPass
  /\ pc = "fill" => FillPass
  /\ pc = "trace" => TracePass
  /\ TraceSpells

-----------------------------------------------------------------------------
\* The operators of the model

\* The sizes of a call's arguments
LEMMA Sizes ==
  ASSUME call \in Calls
  PROVE  N \in Nat /\ M \in Nat \ {0} /\ call.cap \in Nat /\ call.wantPos \in BOOLEAN
<1>1. /\ text \in Texts /\ pattern \in Patterns /\ call.cap \in Caps
      /\ call.wantPos \in BOOLEAN
  BY DEF Calls, text, pattern
<1>2. text \in Seq(Range(text)) /\ pattern \in Seq(Range(pattern)) /\ pattern # <<>>
  BY <1>1, InputsAssumption
<1>3. N \in Nat /\ M \in Nat \ {0}
  BY <1>2, EmptySeq, LenProperties DEF N, M
<1>4. QED
  BY <1>1, <1>3, InputsAssumption

\* While the arguments stay, so does all that is read off them.
LEMMA SameCall ==
  ASSUME call' = call
  PROVE  /\ M' = M /\ N' = N /\ Fits' = Fits
         /\ \A k, p : Matches(k, p)' = Matches(k, p)
BY DEF M, N, Fits, Matches, text, pattern

\* A bonus is at most that of a boundary.
LEMMA BonusRange == \A prev, class : BonusFor(prev, class) \in Bonuses
BY DEF BonusFor, Bonuses, BonusBoundary, BonusCamel123, BonusNonWord

\* A row stays sound while the cells up to its end are not written again.
LEMMA RowFrame ==
  ASSUME NEW i \in Nat, NEW to \in Int, RowSound(i, to), UNCHANGED <<call, f>>,
         \A k \in {i, i - 1}, l \in Int : l <= to /\ <<k, l>> \in DOMAIN h =>
           <<k, l>> \in DOMAIN h' /\ h'[<<k, l>>] = h[<<k, l>>],
         \A l \in Int : l <= to /\ <<i, l>> \in DOMAIN c =>
           <<i, l>> \in DOMAIN c' /\ c'[<<i, l>>] = c[<<i, l>>]
  PROVE  RowSound(i, to)'
<1> SUFFICES ASSUME NEW col \in At(f, i) .. to PROVE CellSound(i, col)'
  BY DEF RowSound, At
<1>1. CellSound(i, col)
  BY DEF RowSound
<1>2. \A k, p : Matches(k, p)' = Matches(k, p)
  BY SameCall
<1>3. col \in Int /\ col <= to /\ col - 1 \in Int /\ col - 1 <= to
  OBVIOUS
<1>4. QED
  BY <1>1, <1>2, <1>3 DEF CellSound, At

-----------------------------------------------------------------------------
\* The first pass

\* Nothing is written before the call.
LEMMA InitInv == Init => IInv
<1> SUFFICES ASSUME Init PROVE IInv
  OBVIOUS
<1>1. TypeOK
  BY EmptySeq DEF Init, TypeOK
<1>2. CellsBounded /\ FoundInOrder
  BY EmptySeq DEF Init, CellsBounded, FoundInOrder, Columns
<1>3. TraceSpells
  BY DEF Init, TraceSpells
<1>4. QED
  BY <1>1, <1>2, <1>3 DEF Init, IInv

\* An answer without the tables, and the start of the first pass
LEMMA StartInv ==
  ASSUME IInv, NotFound \/ FallBack \/ Start
  PROVE  IInv'
<1>1. /\ pc = "start" /\ pc' \in {"bonus", "done"}
      /\ pc' = "bonus" => Fits /\ at' \in Columns(text)
      /\ at' \in Nat
      /\ UNCHANGED <<call, pidx, f, last_idx, bo, h, c, in_gap, max_score, max_score_pos,
                     prefer_match, pos>>
  BY Sizes DEF NotFound, FallBack, Start, Answer, IInv, TypeOK, Columns, N
<1>2. TypeOK' /\ CellsBounded' /\ FoundInOrder'
  BY <1>1, SameCall DEF IInv, TypeOK, CellsBounded, FoundInOrder
<1>3. ASSUME pc' = "bonus" PROVE BonusPass'
  <2>1. f' = <<>> /\ bo' = <<>> /\ h' = <<>> /\ c' = <<>> /\ pidx' = 0 /\ max_score' = 0
    BY <1>1 DEF IInv
  <2>2. Fits' /\ at' <= N' /\ M' \in Nat /\ N' \in Nat /\ at' \in Nat
    BY <1>1, <1>3, SameCall, Sizes DEF IInv, TypeOK, Columns, N
  <2>3. DOMAIN <<>> = {} /\ Len(<<>>) = 0
    BY EmptySeq
  <2>4. QED
    BY <2>1, <2>2, <2>3, Sizes, SameCall DEF BonusPass, IInv, TypeOK
<1>4. QED
  BY <1>1, <1>2, <1>3 DEF IInv, TraceSpells

\* What one character of the text adds to the first row and to f.
LEMMA BonusCellEffect ==
  ASSUME IInv, BonusCell
  PROVE  /\ pc = "bonus" /\ at \in Nat /\ at < N
         /\ \E b \in Bonuses : bo' = Put(bo, at, b)
         /\ \E s \in 0 .. CellBound(0) :
              /\ h' = Put(h, <<0, at>>, s)
              /\ Matches(at, 0) => s > 0
              /\ ~Matches(at, 0) /\ at - 1 \in DOMAIN bo => s = 0 \/ s < h[<<0, at - 1>>]
         /\ \E s \in {0, 1} : c' = Put(c, <<0, at>>, s)
         /\ \/ /\ pidx < M /\ Matches(at, pidx)
               /\ f' = Append(f, at) /\ pidx' = pidx + 1 /\ last_idx' = at
            \/ /\ f' = f /\ pidx' = pidx
               /\ last_idx' \in {last_idx, at}
         /\ at' \in {at + 1, N} /\ (M > 1 => at' = at + 1)
         /\ in_gap' \in BOOLEAN
         /\ max_score' \in Nat /\ max_score_pos' \in Nat
         /\ M > 1 => max_score' = max_score
         /\ UNCHANGED <<call, pc, prefer_match, pos, result>>
<1> DEFINE prev == IF at - 1 \in DOMAIN bo THEN ClassOf(At(text, at - 1)) ELSE "NonWord"
           bonus == BonusFor(prev, ClassOf(At(text, at)))
           prev_h0 == IF at - 1 \in DOMAIN bo THEN h[<<0, at - 1>>] ELSE 0
           found == Matches(at, IF pidx < M THEN pidx ELSE M - 1)
           score == ScoreMatch + bonus * BonusFirstCharMultiplier
           best == M = 1 /\ Matches(at, 0) /\ score > max_score
           gap == IF in_gap THEN ScoreGapExtention ELSE ScoreGapStart
           new == IF Matches(at, 0) THEN score ELSE MaxOf(prev_h0 + gap, 0)
<1>1. /\ pc = "bonus" /\ at < N /\ at \in Nat
      /\ bo' = Put(bo, at, bonus)
      /\ f' = IF found /\ pidx < M THEN Append(f, at) ELSE f
      /\ pidx' = IF found /\ pidx < M THEN pidx + 1 ELSE pidx
      /\ last_idx' = IF found THEN at ELSE last_idx
      /\ h' = Put(h, <<0, at>>, new)
      /\ c' = Put(c, <<0, at>>, IF Matches(at, 0) THEN 1 ELSE 0)
      /\ in_gap' = ~Matches(at, 0)
      /\ max_score' = IF best THEN score ELSE max_score
      /\ max_score_pos' = IF best THEN at ELSE max_score_pos
      /\ at' = IF best /\ bonus = BonusBoundary THEN N ELSE at + 1
      /\ UNCHANGED <<call, pc, prefer_match, pos, result>>
  BY DEF BonusCell, IInv, TypeOK
<1>2. bonus \in Bonuses
  BY BonusRange
<1>3. score \in 16 .. CellBound(0)
  BY <1>2 DEF Bonuses, BonusBoundary, BonusFirstCharMultiplier, ScoreMatch, CellBound
<1>4. prev_h0 \in 0 .. CellBound(0)
  <2>1. CASE at - 1 \in DOMAIN bo
    <3>1. <<0, at - 1>> \in DOMAIN h
      BY <1>1, <2>1 DEF IInv, BonusPass
    <3>2. <<0, at - 1>>[1] = 0
      OBVIOUS
    <3>3. QED
      BY <2>1, <3>1, <3>2 DEF IInv, CellsBounded
  <2>2. CASE at - 1 \notin DOMAIN bo
    BY <2>2 DEF CellBound, ScoreMatch, BonusBoundary
  <2>3. QED
    BY <2>1, <2>2
<1>5. /\ new \in 0 .. CellBound(0)
      /\ Matches(at, 0) => new > 0
      /\ ~Matches(at, 0) /\ at - 1 \in DOMAIN bo => new = 0 \/ new < h[<<0, at - 1>>]
  <2> HIDE DEF score, prev_h0
  <2>1. CASE Matches(at, 0)
    BY <1>3, <2>1
  <2>2. CASE ~Matches(at, 0)
    <3>1. /\ new = MaxOf(prev_h0 + gap, 0) /\ gap \in {-3, -1}
          /\ at - 1 \in DOMAIN bo => prev_h0 = h[<<0, at - 1>>]
      BY <2>2 DEF ScoreGapExtention, ScoreGapStart, prev_h0
    <3> HIDE DEF gap, new
    <3>2. new \in 0 .. CellBound(0) /\ (new = 0 \/ new < prev_h0)
      BY <1>4, <3>1 DEF MaxOf, CellBound, ScoreMatch, BonusBoundary
    <3>3. QED
      BY <2>2, <3>1, <3>2
  <2>3. QED
    BY <2>1, <2>2
<1>6. /\ max_score' \in Nat /\ max_score_pos' \in Nat /\ in_gap' \in BOOLEAN
  <2> HIDE DEF score
  <2>1. (~Matches(at, 0)) \in BOOLEAN
    BY DEF Matches, Same
  <2>2. QED
    BY <1>1, <1>3, <2>1 DEF IInv, TypeOK
<1> HIDE DEF bonus, score, new, found
<1>7. \/ /\ pidx < M /\ Matches(at, pidx)
         /\ f' = Append(f, at) /\ pidx' = pidx + 1 /\ last_idx' = at
      \/ /\ f' = f /\ pidx' = pidx
         /\ last_idx' \in {last_idx, at}
  BY <1>1 DEF found
<1>8. M > 1 => max_score' = max_score /\ at' = at + 1
  BY <1>1, Sizes DEF IInv, TypeOK
<1>9. QED
  BY <1>1, <1>2, <1>5, <1>6, <1>7, <1>8, Sizes DEF IInv, TypeOK

\* The first pass keeps the first row and f.
LEMMA BonusCellInv ==
  ASSUME IInv, BonusCell
  PROVE  IInv'
<1>1. /\ pc = "bonus" /\ pc' = "bonus" /\ at \in Nat /\ at < N
      /\ at' \in {at + 1, N} /\ (M > 1 => at' = at + 1)
      /\ call' = call /\ pos' = pos
  BY BonusCellEffect
<1>2. PICK b \in Bonuses :
        /\ DOMAIN bo' = DOMAIN bo \cup {at} /\ bo'[at] = b
        /\ \A k \in DOMAIN bo \ {at} : bo'[k] = bo[k]
  BY BonusCellEffect DEF Put
<1>3. PICK s \in 0 .. CellBound(0) :
        /\ DOMAIN h' = DOMAIN h \cup {<<0, at>>} /\ h'[<<0, at>>] = s
        /\ \A k \in DOMAIN h \ {<<0, at>>} : h'[k] = h[k]
        /\ Matches(at, 0) => s > 0
        /\ ~Matches(at, 0) /\ at - 1 \in DOMAIN bo => s = 0 \/ s < h[<<0, at - 1>>]
  <2>1. PICK s \in 0 .. CellBound(0) :
          /\ h' = Put(h, <<0, at>>, s)
          /\ Matches(at, 0) => s > 0
          /\ ~Matches(at, 0) /\ at - 1 \in DOMAIN bo => s = 0 \/ s < h[<<0, at - 1>>]
    BY BonusCellEffect
  <2>2. /\ DOMAIN h' = DOMAIN h \cup {<<0, at>>} /\ h'[<<0, at>>] = s
        /\ \A k \in DOMAIN h \ {<<0, at>>} : h'[k] = h[k]
    BY <2>1 DEF Put
  <2>3. QED
    BY <2>1, <2>2
<1>4. PICK first \in {0, 1} :
        /\ DOMAIN c' = DOMAIN c \cup {<<0, at>>} /\ c'[<<0, at>>] = first
        /\ \A k \in DOMAIN c \ {<<0, at>>} : c'[k] = c[k]
  BY BonusCellEffect DEF Put
<1>5. \/ /\ pidx < M /\ Matches(at, pidx)
         /\ f' = Append(f, at) /\ pidx' = pidx + 1 /\ last_idx' = at
      \/ /\ f' = f /\ pidx' = pidx
         /\ last_idx' \in {last_idx, at}
  BY BonusCellEffect
<1>6. /\ M' = M /\ N' = N /\ Fits' = Fits /\ M \in Nat \ {0} /\ N \in Nat
      /\ \A k, p : Matches(k, p)' = Matches(k, p)
  BY <1>1, SameCall, Sizes DEF IInv, TypeOK
<1>7. /\ BonusPass /\ TypeOK /\ CellsBounded /\ FoundInOrder
  BY <1>1 DEF IInv
<1>8. /\ Len(f) = pidx /\ Len(f') = pidx' /\ f' \in Seq(Nat) /\ pidx' \in Nat /\ pidx' <= M
      /\ last_idx' \in Nat
      /\ \A k \in 1 .. Len(f) : f'[k] = f[k]
      /\ Len(f') = Len(f) \/ (Len(f') = Len(f) + 1 /\ f'[Len(f')] = at /\ last_idx' = at
                                                   /\ Matches(at, pidx))
  <2>1. f \in Seq(Nat) /\ Len(f) = pidx /\ pidx \in Nat /\ pidx <= M /\ last_idx \in Nat
    BY <1>7 DEF BonusPass, TypeOK
  <2>2. CASE f' = f /\ pidx' = pidx /\ last_idx' \in {last_idx, at}
    BY <2>1, <2>2, <1>1
  <2>3. CASE /\ pidx < M /\ Matches(at, pidx)
             /\ f' = Append(f, at) /\ pidx' = pidx + 1 /\ last_idx' = at
    <3>1. /\ f' \in Seq(Nat) /\ Len(f') = Len(f) + 1 /\ f'[Len(f) + 1] = at
          /\ \A k \in 1 .. Len(f) : f'[k] = f[k]
      BY <2>1, <2>3, <1>1, AppendProperties
    <3>2. QED
      BY <2>1, <2>3, <3>1, <1>1, <1>6
  <2>4. QED
    BY <1>5, <2>2, <2>3
<1>9. TypeOK'
  BY <1>1, <1>6, <1>7, <1>8, BonusCellEffect DEF TypeOK
<1>10. CellsBounded'
  <2> SUFFICES ASSUME NEW cell \in DOMAIN h'
               PROVE  /\ cell[1] \in 0 .. M' - 1
                      /\ h'[cell] \in 0 .. CellBound(cell[1])
                      /\ cell[1] > 0 => M' <= N' /\ Fits'
    BY DEF CellsBounded
  <2>1. CASE cell = <<0, at>>
    BY <1>3, <1>6, <2>1
  <2>2. CASE cell # <<0, at>>
    <3>1. cell \in DOMAIN h /\ h'[cell] = h[cell]
      BY <1>3, <2>2
    <3>2. QED
      BY <1>6, <1>7, <3>1 DEF CellsBounded
  <2>3. QED
    BY <2>1, <2>2
<1>11. \A col \in DOMAIN bo : col \in 0 .. at - 1 /\ bo[col] \in Bonuses
  BY <1>7 DEF BonusPass
<1>12. FoundInOrder'
  <2>1. f # <<>> => last_idx < at
    BY <1>7 DEF BonusPass
  <2>2. \A k \in Columns(f) :
          /\ f[k + 1] \in Nat /\ f[k + 1] >= k /\ f[k + 1] <= last_idx /\ last_idx < at
          /\ Matches(f[k + 1], k)
    <3>1. \A k \in Columns(f) : f # <<>> /\ f[k + 1] \in Nat
      BY <1>8, <1>7, EmptySeq DEF TypeOK, Columns
    <3>2. QED
      BY <2>1, <3>1, <1>7 DEF FoundInOrder, At
  <2>3. \A k \in Columns(f') : k \in Columns(f) \/ (k = Len(f) /\ Len(f') = Len(f) + 1)
    <3>1. Len(f) \in Nat /\ (Len(f') = Len(f) \/ Len(f') = Len(f) + 1)
      BY <1>8, <1>7 DEF TypeOK
    <3>2. QED
      BY <3>1 DEF Columns
  <2>4. pidx <= at /\ Len(f) = pidx /\ pidx \in Nat
    BY <1>7 DEF BonusPass, TypeOK
  <2>5. \A k \in Columns(f) : f'[k + 1] = f[k + 1]
    BY <1>8, <2>4 DEF Columns
  <2>6. \A k \in Columns(f') : /\ f'[k + 1] >= k /\ f'[k + 1] <= last_idx'
                               /\ Matches(f'[k + 1], k)
    <3> SUFFICES ASSUME NEW k \in Columns(f')
                 PROVE  /\ f'[k + 1] >= k /\ f'[k + 1] <= last_idx'
                        /\ Matches(f'[k + 1], k)
      OBVIOUS
    <3>1. CASE k \in Columns(f)
      <4>1. f'[k + 1] = f[k + 1] /\ last_idx' \in {last_idx, at} /\ last_idx \in Nat
        BY <1>5, <1>7, <2>5, <3>1 DEF TypeOK
      <4>2. QED
        BY <1>1, <2>2, <3>1, <4>1
    <3>2. CASE k = Len(f) /\ Len(f') = Len(f) + 1
      BY <1>1, <1>8, <2>4, <3>2
    <3>3. QED
      BY <2>3, <3>1, <3>2
  <2>7. \A k, l \in Columns(f') : k < l => f'[k + 1] < f'[l + 1]
    <3> SUFFICES ASSUME NEW k \in Columns(f'), NEW l \in Columns(f'), k < l
                 PROVE  f'[k + 1] < f'[l + 1]
      OBVIOUS
    <3>1. k \in Columns(f)
      BY <2>3, <2>4 DEF Columns
    <3>2. CASE l \in Columns(f)
      BY <1>7, <2>5, <3>1, <3>2 DEF FoundInOrder, At
    <3>3. CASE l = Len(f) /\ Len(f') = Len(f) + 1
      <4>1. f'[k + 1] = f[k + 1] /\ f[k + 1] < at /\ f'[l + 1] = at
        BY <1>1, <1>7, <1>8, <2>2, <2>5, <3>1, <3>3 DEF TypeOK
      <4>2. QED
        BY <4>1
    <3>4. QED
      BY <2>3, <3>2, <3>3
  <2>8. QED
    BY <1>6, <2>6, <2>7 DEF FoundInOrder, At, Columns
<1>13. at' \in Nat /\ at' > at /\ at' <= N
  BY <1>1, <1>6
<1>14. /\ DOMAIN bo' = DOMAIN bo \cup {at} /\ DOMAIN h' = {0} \X DOMAIN bo'
       /\ DOMAIN c' = {0} \X DOMAIN bo'
  BY <1>2, <1>3, <1>4, <1>7 DEF BonusPass
<1>15. \A col \in DOMAIN bo' : col \in 0 .. at' - 1 /\ bo'[col] \in Bonuses
  BY <1>1, <1>2, <1>11, <1>13
<1>16. ASSUME M > 1
       PROVE  /\ max_score' = 0
              /\ \A col \in DOMAIN bo' : col .. at' - 1 \subseteq DOMAIN bo'
              /\ f' # <<>> => {At(f', 0), last_idx'} \subseteq DOMAIN bo'
  <2>1. max_score' = 0 /\ at' = at + 1
    BY <1>7, <1>16, BonusCellEffect DEF BonusPass
  <2>2. \A col \in DOMAIN bo' : col .. at' - 1 \subseteq DOMAIN bo'
    BY <1>1, <1>7, <1>11, <1>14, <1>16, <2>1 DEF BonusPass
  <2>3. f # <<>> => f'[1] = f[1] /\ {f[1], last_idx} \subseteq DOMAIN bo
    BY <1>7, <1>8, <1>16, EmptySeq DEF BonusPass, At
  <2>4. f' # <<>> => {f'[1], last_idx'} \subseteq DOMAIN bo'
    <3>1. CASE f # <<>>
      BY <1>5, <1>14, <2>3, <3>1
    <3>2. CASE f = <<>> /\ f' # <<>>
      BY <1>5, <1>8, <1>14, <3>2, EmptySeq
    <3>3. QED
      BY <3>1, <3>2
  <2>5. QED
    BY <2>1, <2>2, <2>4 DEF At
<1>17. \A col \in DOMAIN bo' :
         /\ c'[<<0, col>>] \in {0, 1}
         /\ Matches(col, 0) => h'[<<0, col>>] > 0
         /\ ~Matches(col, 0) /\ col - 1 \in DOMAIN bo' =>
              h'[<<0, col>>] = 0 \/ h'[<<0, col>>] < h'[<<0, col - 1>>]
  <2> SUFFICES ASSUME NEW col \in DOMAIN bo'
               PROVE  /\ c'[<<0, col>>] \in {0, 1}
                      /\ Matches(col, 0) => h'[<<0, col>>] > 0
                      /\ ~Matches(col, 0) /\ col - 1 \in DOMAIN bo' =>
                           h'[<<0, col>>] = 0 \/ h'[<<0, col>>] < h'[<<0, col - 1>>]
    OBVIOUS
  <2>1. \A k \in DOMAIN bo : h'[<<0, k>>] = h[<<0, k>>] /\ c'[<<0, k>>] = c[<<0, k>>]
    <3> SUFFICES ASSUME NEW k \in DOMAIN bo
                 PROVE  h'[<<0, k>>] = h[<<0, k>>] /\ c'[<<0, k>>] = c[<<0, k>>]
      OBVIOUS
    <3>1. k # at /\ <<0, k>> \in DOMAIN h \ {<<0, at>>} /\ <<0, k>> \in DOMAIN c \ {<<0, at>>}
      BY <1>1, <1>7, <1>11 DEF BonusPass
    <3>2. QED
      BY <1>3, <1>4, <3>1
  <2>2. h'[<<0, at>>] = s /\ c'[<<0, at>>] = first
    BY <1>3, <1>4
  <2>3. CASE col = at
    <3>1. col - 1 \in DOMAIN bo' => col - 1 \in DOMAIN bo
      BY <1>1, <1>14, <2>3
    <3>2. QED
      BY <1>3, <1>4, <2>1, <2>2, <2>3, <3>1
  <2>4. CASE col # at
    <3>1. col \in DOMAIN bo /\ (col - 1 \in DOMAIN bo' => col - 1 \in DOMAIN bo)
      BY <1>1, <1>11, <1>14, <2>4
    <3>2. QED
      BY <1>7, <2>1, <3>1 DEF BonusPass
  <2>5. QED
    BY <2>3, <2>4
<1>18. BonusPass'
  <2>1. Fits' /\ at' <= N' /\ Len(f') = pidx' /\ pidx' <= M'
    BY <1>6, <1>7, <1>8, <1>13 DEF BonusPass
  <2>2. pidx' <= at' /\ (f' # <<>> => last_idx' < at')
    <3>1. pidx <= at /\ (f # <<>> => last_idx < at) /\ pidx \in Nat /\ last_idx \in Nat
      BY <1>7 DEF BonusPass, TypeOK
    <3>2. f' = f \/ last_idx' = at
      BY <1>5
    <3>3. QED
      BY <1>1, <1>5, <1>13, <3>1, <3>2
  <2>3. QED
    BY <1>6, <1>14, <1>15, <1>16, <1>17, <2>1, <2>2 DEF BonusPass
<1>19. QED
  BY <1>1, <1>9, <1>10, <1>12, <1>18 DEF IInv, TraceSpells

-----------------------------------------------------------------------------
\* The table

\* The first columns and the width of the table, when every character is found
LEMMA Columns0 ==
  ASSUME TypeOK, FoundInOrder, Len(f) = M, M > 1
  PROVE  /\ M \in Nat /\ Columns(f) = 0 .. M - 1
         /\ \A i \in 0 .. M - 1 :
              /\ At(f, i) \in Nat /\ At(f, 0) <= At(f, i) /\ At(f, i) <= last_idx
              /\ Matches(At(f, i), i)
              /\ i > 0 => At(f, i - 1) < At(f, i)
         /\ M - 1 <= last_idx
<1>1. M \in Nat /\ Columns(f) = 0 .. M - 1
  BY Sizes DEF TypeOK, Columns
<1>2. \A i \in 0 .. M - 1 : At(f, i) \in Nat
  BY <1>1 DEF TypeOK, At
<1>3. \A i \in 0 .. M - 1 : At(f, i) >= i /\ At(f, i) <= last_idx /\ Matches(At(f, i), i)
  BY <1>1 DEF FoundInOrder
<1>4. \A k, l \in 0 .. M - 1 : k < l => At(f, k) < At(f, l)
  BY <1>1 DEF FoundInOrder
<1>5. \A i \in 0 .. M - 1 : At(f, 0) <= At(f, i)
  BY <1>1, <1>2, <1>4
<1>6. \A i \in 0 .. M - 1 : i > 0 => At(f, i - 1) < At(f, i)
  BY <1>1, <1>4
<1>7. M - 1 <= last_idx
  BY <1>1, <1>2, <1>3 DEF TypeOK
<1>8. QED
  BY <1>1, <1>2, <1>3, <1>5, <1>6, <1>7

\* A row of the table is prepared by what the first pass has found.
LEMMA BonusDoneInv ==
  ASSUME IInv, BonusDone
  PROVE  IInv'
<1>1. /\ pc = "bonus" /\ BonusPass /\ TypeOK /\ CellsBounded /\ FoundInOrder /\ pos = <<>>
      /\ UNCHANGED <<call, at, f, last_idx, bo, in_gap, max_score, max_score_pos,
                     prefer_match, pos>>
  BY DEF BonusDone, IInv
<1>2. /\ M' = M /\ N' = N /\ Fits' = Fits /\ M \in Nat \ {0} /\ N \in Nat
      /\ \A k, p : Matches(k, p)' = Matches(k, p)
  BY <1>1, SameCall, Sizes DEF TypeOK
<1>3. FoundInOrder'
  BY <1>1, <1>2 DEF FoundInOrder, Columns, At
<1>4. CASE pc' = "done" /\ UNCHANGED <<h, c, pidx>>
  <2>1. TypeOK'
    BY <1>1, <1>4 DEF TypeOK
  <2>2. CellsBounded'
    BY <1>1, <1>2, <1>4 DEF CellsBounded
  <2>3. QED
    BY <1>3, <1>4, <2>1, <2>2 DEF IInv, TraceSpells
<1>5. CASE /\ M > 1 /\ pidx = M /\ pidx' = 1 /\ pc' = "row"
           /\ h' = [cell \in {0} \X (At(f, 0) .. last_idx) |-> h[cell]]
           /\ c' = [cell \in {0} \X (At(f, 0) .. last_idx) |-> c[cell]]
  <2>1. /\ Len(f) = M /\ f # <<>> /\ last_idx < at /\ at <= N /\ max_score = 0 /\ Fits
        /\ \A col \in DOMAIN bo : col .. at - 1 \subseteq DOMAIN bo
        /\ At(f, 0) \in DOMAIN bo
    BY <1>1, <1>2, <1>5, EmptySeq DEF BonusPass
  <2>2. /\ At(f, 0) \in Nat /\ At(f, 0) <= last_idx /\ Matches(At(f, 0), 0)
    BY <1>1, <1>5, <2>1, Columns0
  <2>3. \A col \in At(f, 0) .. last_idx : col \in DOMAIN bo /\ bo[col] \in Bonuses
    BY <1>1, <2>1, <2>2 DEF BonusPass, TypeOK
  <2>4. Prepared'
    BY <1>1, <1>2, <1>5, <2>1, <2>3 DEF Prepared, TypeOK, At
  <2>5. \A col \in At(f, 0) .. last_idx :
          /\ <<0, col>> \in DOMAIN h /\ <<0, col>> \in DOMAIN h'
          /\ h'[<<0, col>>] = h[<<0, col>>]
          /\ <<0, col>> \in DOMAIN c' /\ c'[<<0, col>>] = c[<<0, col>>]
    BY <1>1, <1>5, <2>3 DEF BonusPass
  <2>6. CellsBounded'
    <3> SUFFICES ASSUME NEW cell \in DOMAIN h'
                 PROVE  /\ cell[1] \in 0 .. M' - 1
                        /\ h'[cell] \in 0 .. CellBound(cell[1])
                        /\ cell[1] > 0 => M' <= N' /\ Fits'
      BY DEF CellsBounded
    <3>1. PICK col \in At(f, 0) .. last_idx : cell = <<0, col>>
      BY <1>5
    <3>2. QED
      BY <1>1, <1>2, <2>5, <3>1 DEF CellsBounded
  <2>7. RowSound(0, last_idx)'
    <3> SUFFICES ASSUME NEW col \in At(f, 0) .. last_idx
                 PROVE  CellSound(0, col)'
      BY <1>1 DEF RowSound, At
    <3>1. col \in DOMAIN bo /\ col \in Nat
      BY <2>2, <2>3
    <3>2. /\ c[<<0, col>>] \in {0, 1}
          /\ Matches(col, 0) => h[<<0, col>>] > 0
          /\ ~Matches(col, 0) /\ col - 1 \in DOMAIN bo =>
               h[<<0, col>>] = 0 \/ h[<<0, col>>] < h[<<0, col - 1>>]
      BY <1>1, <3>1 DEF BonusPass
    <3>3. CASE col = At(f, 0)
      BY <1>1, <1>2, <2>2, <2>5, <3>2, <3>3 DEF CellSound, At
    <3>4. CASE col # At(f, 0)
      <4>1. col - 1 \in At(f, 0) .. last_idx
        BY <1>1, <2>2, <3>1, <3>4 DEF TypeOK
      <4>2. QED
        BY <1>1, <1>2, <2>2, <2>3, <2>5, <3>2, <3>4, <4>1 DEF CellSound, At
    <3>5. QED
      BY <3>3, <3>4
  <2>8. RowPass'
    <3>1. \A i \in 0 .. pidx' - 1 : i = 0
      BY <1>5
    <3>2. QED
      BY <1>1, <1>2, <1>5, <2>1, <2>4, <2>7, <3>1 DEF RowPass
  <2>9. QED
    BY <1>1, <1>3, <1>5, <2>6, <2>8 DEF IInv, TypeOK, TraceSpells
<1>6. QED
  BY <1>4, <1>5 DEF BonusDone, Answer

\* The row of the next character starts with nothing on the left.
LEMMA RowInv ==
  ASSUME IInv, Row
  PROVE  IInv'
<1>1. /\ pc = "row" /\ pc' = "fill" /\ at' = At(f, pidx) /\ in_gap' = FALSE
      /\ RowPass /\ TypeOK /\ CellsBounded /\ FoundInOrder /\ pos = <<>>
      /\ UNCHANGED <<call, pidx, f, last_idx, bo, c, max_score, max_score_pos,
                     prefer_match, pos>>
  BY DEF Row, IInv
<1>2. /\ DOMAIN h' = DOMAIN h \cup {<<pidx, At(f, pidx) - 1>>}
      /\ h'[<<pidx, At(f, pidx) - 1>>] = 0
      /\ \A cell \in DOMAIN h \ {<<pidx, At(f, pidx) - 1>>} : h'[cell] = h[cell]
  BY DEF Row, Put
<1>3. /\ M' = M /\ N' = N /\ Fits' = Fits /\ N \in Nat
      /\ \A k, p : Matches(k, p)' = Matches(k, p)
  BY <1>1, SameCall, Sizes DEF TypeOK
<1>4. Prepared /\ pidx \in 1 .. M - 1 /\ Len(f) = M /\ M > 1 /\ last_idx < N /\ Fits
  BY <1>1 DEF RowPass, Prepared
<1>5. /\ M \in Nat /\ At(f, pidx) \in Nat /\ At(f, pidx) <= last_idx /\ M - 1 <= last_idx
  BY <1>1, <1>4, Columns0
<1>6. FoundInOrder'
  BY <1>1, <1>3 DEF FoundInOrder, Columns, At
<1>7. CellsBounded'
  <2> SUFFICES ASSUME NEW cell \in DOMAIN h'
               PROVE  /\ cell[1] \in 0 .. M - 1
                      /\ h'[cell] \in 0 .. CellBound(cell[1])
                      /\ cell[1] > 0 => M <= N /\ Fits
    BY <1>3 DEF CellsBounded
  <2>1. CASE cell = <<pidx, At(f, pidx) - 1>>
    <3>1. cell[1] = pidx /\ h'[cell] = 0 /\ CellBound(pidx) \in Nat /\ M <= N
      BY <1>2, <1>4, <1>5, <1>1, <1>3, <2>1
      DEF TypeOK, CellBound, ScoreMatch, BonusBoundary
    <3>2. QED
      BY <1>4, <3>1
  <2>2. CASE cell # <<pidx, At(f, pidx) - 1>>
    BY <1>1, <1>2, <2>2 DEF CellsBounded
  <2>3. QED
    BY <2>1, <2>2
<1>8. \A i \in 0 .. pidx - 1 : RowSound(i, last_idx)'
  <2> SUFFICES ASSUME NEW i \in 0 .. pidx - 1 PROVE RowSound(i, last_idx)'
    OBVIOUS
  <2>1. RowSound(i, last_idx) /\ i \in Nat /\ i < pidx /\ last_idx \in Int
    BY <1>1, <1>4 DEF RowPass, TypeOK
  <2>2. \A k \in {i, i - 1}, l \in Int : <<k, l>> \in DOMAIN h =>
          <<k, l>> \in DOMAIN h' /\ h'[<<k, l>>] = h[<<k, l>>]
    BY <1>2, <2>1, <1>4
  <2>3. RowSound(i, last_idx)'
    BY <1>1, <2>1, <2>2, RowFrame
  <2>4. QED
    BY <2>3
<1>9. RowSound(pidx, at - 1)'
  BY <1>1, <1>5 DEF RowSound, At
<1>10. FillPass'
  <2>1. Prepared'
    BY <1>1, <1>3, <1>4 DEF Prepared, At
  <2>2. at' \in At(f, pidx) .. last_idx + 1 /\ max_score = 0
    BY <1>1, <1>5 DEF TypeOK, RowPass
  <2>3. QED
    BY <1>1, <1>2, <1>3, <1>4, <1>5, <1>8, <1>9, <2>1, <2>2 DEF FillPass, At
<1>11. QED
  BY <1>1, <1>5, <1>6, <1>7, <1>10 DEF IInv, TypeOK, TraceSpells

\* What a cell scores, and how long the run is that ends in it.
LEMMA FillCellEffect ==
  ASSUME IInv, pc = "fill", at <= last_idx
  PROVE  LET cell == Cell(pidx, at)
             score == MaxOf(MaxOf(cell.matched, cell.gap), 0)
         IN  /\ {<<pidx, at - 1>>, <<pidx - 1, at - 1>>} \subseteq DOMAIN h
             /\ <<pidx - 1, at - 1>> \in DOMAIN c
             /\ at - c[<<pidx - 1, at - 1>>] \in DOMAIN bo
             /\ score \in 0 .. CellBound(pidx)
             /\ cell.consecutive \in 0 .. at - At(f, 0) + 1
             /\ (cell.matched < cell.gap) \in BOOLEAN
             /\ Matches(at, pidx) \/ score = 0 \/ score < h[<<pidx, at - 1>>]
             /\ at = At(f, pidx) => score > 0 /\ score > h[<<pidx - 1, at - 1>>]
<1>1. /\ FillPass /\ TypeOK /\ CellsBounded /\ FoundInOrder
  BY DEF IInv
<1>2. /\ Prepared /\ pidx \in 1 .. M - 1 /\ Len(f) = M /\ M > 1
      /\ at \in At(f, pidx) .. last_idx + 1 /\ <<pidx, at - 1>> \in DOMAIN h
      /\ at = At(f, pidx) => h[<<pidx, at - 1>>] = 0 /\ ~in_gap
      /\ \A i \in 0 .. pidx - 1 : RowSound(i, last_idx)
  BY <1>1 DEF FillPass, Prepared
<1>3. /\ M \in Nat /\ at \in Nat /\ pidx \in Nat /\ last_idx \in Nat
      /\ At(f, 0) \in Nat /\ At(f, pidx) \in Nat /\ At(f, pidx - 1) \in Nat
      /\ At(f, 0) <= At(f, pidx) /\ At(f, 0) <= At(f, pidx - 1)
      /\ At(f, pidx - 1) < At(f, pidx)
      /\ Matches(At(f, pidx), pidx)
  <2>1. M \in Nat /\ at \in Nat /\ pidx \in Nat /\ last_idx \in Nat
    BY <1>1, Sizes DEF TypeOK
  <2>2. pidx \in 1 .. M - 1
    BY <1>2
  <2>3. pidx \in 0 .. M - 1 /\ pidx - 1 \in 0 .. M - 1 /\ 0 \in 0 .. M - 1 /\ pidx > 0
    BY <2>1, <2>2
  <2>4. \A i \in 0 .. M - 1 :
          /\ At(f, i) \in Nat /\ At(f, 0) <= At(f, i) /\ Matches(At(f, i), i)
          /\ i > 0 => At(f, i - 1) < At(f, i)
    BY <1>1, <1>2, Columns0
  <2>5. QED
    BY <2>1, <2>3, <2>4
<1>4. CellSound(pidx - 1, at - 1)
  <2>1. pidx - 1 \in 0 .. pidx - 1 /\ at - 1 \in At(f, pidx - 1) .. last_idx
    BY <1>2, <1>3
  <2>2. QED
    BY <1>2, <2>1 DEF RowSound
<1> DEFINE left == h[<<pidx, at - 1>>]
           diag == h[<<pidx - 1, at - 1>>]
           before == c[<<pidx - 1, at - 1>>]
<1>5. /\ <<pidx - 1, at - 1>> \in DOMAIN h /\ <<pidx - 1, at - 1>> \in DOMAIN c
      /\ before \in 0 .. at - At(f, 0)
  <2>1. before \in 0 .. at - 1 - At(f, 0) + 1
    BY <1>4 DEF CellSound
  <2>2. QED
    BY <1>3, <1>4, <2>1 DEF CellSound
<1>6. left \in 0 .. CellBound(pidx) /\ diag \in 0 .. CellBound(pidx - 1)
  <2>1. <<pidx, at - 1>>[1] = pidx /\ <<pidx - 1, at - 1>>[1] = pidx - 1
    OBVIOUS
  <2>2. QED
    BY <1>1, <1>2, <1>5, <2>1 DEF CellsBounded
<1>7. at \in At(f, 0) .. last_idx /\ at - before \in At(f, 0) .. last_idx
  BY <1>2, <1>3, <1>5
<1>8. bo[at] \in Bonuses /\ at - before \in DOMAIN bo /\ bo[at - before] \in Bonuses
  BY <1>2, <1>7 DEF Prepared
<1> DEFINE s2 == left + (IF in_gap THEN ScoreGapExtention ELSE ScoreGapStart)
           run == IF bo[at] = BonusBoundary THEN 1 ELSE before + 1
           b == IF run > 1 THEN MaxOf(bo[at], MaxOf(BonusConsecutive, bo[at - run + 1]))
                ELSE bo[at]
           s1 == diag + ScoreMatch
           cell == Cell(pidx, at)
           score == MaxOf(MaxOf(cell.matched, cell.gap), 0)
<1>9. cell = IF ~Matches(at, pidx) THEN [matched |-> 0, gap |-> s2, consecutive |-> 0]
             ELSE IF s1 + b < s2
                  THEN [matched |-> s1 + bo[at], gap |-> s2, consecutive |-> 0]
             ELSE [matched |-> s1 + b, gap |-> s2, consecutive |-> run]
  BY DEF Cell
<1>10. run \in 1 .. at - At(f, 0) + 1
  BY <1>3, <1>5
<1>11. b \in Bonuses
  <2>1. run > 1 => at - run + 1 = at - before
    BY <1>3, <1>5
  <2>2. run > 1 => bo[at - run + 1] \in Bonuses
    BY <2>1, <1>8
  <2> HIDE DEF run
  <2>3. QED
    BY <1>8, <2>2 DEF MaxOf, Bonuses, BonusBoundary, BonusConsecutive
<1>12. /\ CellBound(pidx) = CellBound(pidx - 1) + 24 /\ CellBound(pidx) \in Nat
       /\ CellBound(pidx - 1) \in Nat
  BY <1>2, <1>3 DEF CellBound, ScoreMatch, BonusBoundary
<1>13. /\ s2 \in Int /\ s2 < left /\ s1 + b \in diag + 16 .. diag + 24
       /\ s1 + bo[at] \in diag + 16 .. diag + 24
       /\ at = At(f, pidx) => s2 = -3
  <2> HIDE DEF left, diag, b
  <2>1. s2 \in Int /\ s2 < left
    BY <1>6, <1>12 DEF ScoreGapExtention, ScoreGapStart
  <2>2. at = At(f, pidx) => s2 = -3
    BY <1>2 DEF left, ScoreGapStart
  <2>3. s1 + b \in diag + 16 .. diag + 24 /\ s1 + bo[at] \in diag + 16 .. diag + 24
    BY <1>6, <1>8, <1>11, <1>12 DEF ScoreMatch, Bonuses, BonusBoundary
  <2>4. QED
    BY <2>1, <2>2, <2>3
<1> HIDE DEF left, diag, before, s2, run, b, s1, cell
<1>14. CASE ~Matches(at, pidx)
  <2>1. cell.matched = 0 /\ cell.gap = s2 /\ cell.consecutive = 0
    BY <1>9, <1>14
  <2>2. score \in 0 .. CellBound(pidx) /\ (score = 0 \/ score < left)
    BY <1>6, <1>12, <1>13, <2>1 DEF MaxOf
  <2>3. (cell.matched < cell.gap) \in BOOLEAN /\ at # At(f, pidx)
    BY <1>3, <1>13, <1>14, <2>1
  <2>4. 0 \in 0 .. at - At(f, 0) + 1
    BY <1>3, <1>7
  <2>5. QED
    BY <1>2, <1>5, <1>8, <2>1, <2>2, <2>3, <2>4 DEF left, before, cell
<1>15. CASE Matches(at, pidx)
  <2>1. /\ cell.matched \in diag + 16 .. diag + 24 /\ cell.gap = s2
        /\ cell.consecutive \in 0 .. at - At(f, 0) + 1
    <3>1. 0 \in 0 .. at - At(f, 0) + 1
      BY <1>3, <1>7
    <3>2. CASE s1 + b < s2
      BY <1>9, <1>13, <1>15, <3>1, <3>2
    <3>3. CASE ~(s1 + b < s2)
      BY <1>9, <1>10, <1>13, <1>15, <3>3
    <3>4. QED
      BY <3>2, <3>3
  <2>2. score \in 0 .. CellBound(pidx) /\ score > 0 /\ score >= cell.matched
    BY <1>6, <1>12, <1>13, <2>1 DEF MaxOf
  <2>3. (cell.matched < cell.gap) \in BOOLEAN
    BY <1>6, <1>12, <1>13, <2>1
  <2>4. score > diag
    BY <1>6, <1>12, <2>1, <2>2
  <2>5. QED
    BY <1>2, <1>5, <1>8, <1>15, <2>1, <2>2, <2>3, <2>4 DEF diag, before, cell
<1>16. QED
  BY <1>14, <1>15

\* A cell is written, and the best score of the last row moves with it.
LEMMA FillCellInv ==
  ASSUME IInv, FillCell
  PROVE  IInv'
<1>1. /\ pc = "fill" /\ pc' = "fill" /\ at <= last_idx /\ at' = at + 1
      /\ FillPass /\ TypeOK /\ CellsBounded /\ FoundInOrder /\ pos = <<>>
      /\ UNCHANGED <<call, pidx, f, last_idx, bo, prefer_match, pos>>
  BY DEF FillCell, IInv
<1>2. PICK s \in 0 .. CellBound(pidx), run \in 0 .. at - At(f, 0) + 1 :
        /\ DOMAIN h' = DOMAIN h \cup {<<pidx, at>>} /\ h'[<<pidx, at>>] = s
        /\ \A k \in DOMAIN h \ {<<pidx, at>>} : h'[k] = h[k]
        /\ DOMAIN c' = DOMAIN c \cup {<<pidx, at>>} /\ c'[<<pidx, at>>] = run
        /\ \A k \in DOMAIN c \ {<<pidx, at>>} : c'[k] = c[k]
        /\ in_gap' \in BOOLEAN
        /\ {<<pidx, at - 1>>, <<pidx - 1, at - 1>>} \subseteq DOMAIN h
        /\ Matches(at, pidx) \/ s = 0 \/ s < h[<<pidx, at - 1>>]
        /\ at = At(f, pidx) => s > 0 /\ s > h[<<pidx - 1, at - 1>>]
        /\ IF pidx = M - 1 /\ s > max_score
           THEN max_score' = s /\ max_score_pos' = at
           ELSE max_score' = max_score /\ max_score_pos' = max_score_pos
  <2> DEFINE cell == Cell(pidx, at)
             score == MaxOf(MaxOf(cell.matched, cell.gap), 0)
  <2>1. /\ h' = Put(h, <<pidx, at>>, score) /\ c' = Put(c, <<pidx, at>>, cell.consecutive)
        /\ in_gap' = (cell.matched < cell.gap)
        /\ max_score' = IF pidx = M - 1 /\ score > max_score THEN score ELSE max_score
        /\ max_score_pos' = IF pidx = M - 1 /\ score > max_score THEN at ELSE max_score_pos
    BY DEF FillCell
  <2>2. /\ {<<pidx, at - 1>>, <<pidx - 1, at - 1>>} \subseteq DOMAIN h
        /\ score \in 0 .. CellBound(pidx)
        /\ cell.consecutive \in 0 .. at - At(f, 0) + 1
        /\ (cell.matched < cell.gap) \in BOOLEAN
        /\ Matches(at, pidx) \/ score = 0 \/ score < h[<<pidx, at - 1>>]
        /\ at = At(f, pidx) => score > 0 /\ score > h[<<pidx - 1, at - 1>>]
    BY <1>1, FillCellEffect
  <2> HIDE DEF cell, score
  <2>3. /\ DOMAIN h' = DOMAIN h \cup {<<pidx, at>>} /\ h'[<<pidx, at>>] = score
        /\ \A k \in DOMAIN h \ {<<pidx, at>>} : h'[k] = h[k]
    BY <2>1 DEF Put
  <2>4. /\ DOMAIN c' = DOMAIN c \cup {<<pidx, at>>} /\ c'[<<pidx, at>>] = cell.consecutive
        /\ \A k \in DOMAIN c \ {<<pidx, at>>} : c'[k] = c[k]
    BY <2>1 DEF Put
  <2>5. QED
    BY <2>1, <2>2, <2>3, <2>4
<1>3. /\ M' = M /\ N' = N /\ Fits' = Fits /\ M \in Nat /\ N \in Nat
      /\ \A k, p : Matches(k, p)' = Matches(k, p)
  BY <1>1, SameCall, Sizes DEF TypeOK
<1>4. /\ Prepared /\ pidx \in 1 .. M - 1 /\ Len(f) = M /\ M > 1 /\ last_idx < N /\ Fits
      /\ at \in At(f, pidx) .. last_idx + 1
      /\ \A i \in 0 .. pidx - 1 : RowSound(i, last_idx)
      /\ RowSound(pidx, at - 1)
      /\ IF pidx = M - 1 /\ at > At(f, pidx)
           THEN max_score > 0 /\ max_score_pos \in At(f, pidx) .. at - 1
           ELSE max_score = 0
  BY <1>1 DEF FillPass, Prepared
<1>5. /\ at \in Nat /\ pidx \in Nat /\ last_idx \in Nat /\ CellBound(pidx) \in Nat
      /\ At(f, pidx) \in Nat /\ At(f, 0) \in Nat /\ At(f, 0) <= At(f, pidx)
      /\ M - 1 <= last_idx /\ s \in Nat /\ max_score \in Nat
      /\ Matches(At(f, pidx), pidx)
  BY <1>1, <1>4, Columns0 DEF TypeOK, CellBound, ScoreMatch, BonusBoundary
<1>6. FoundInOrder'
  BY <1>1, <1>3 DEF FoundInOrder, Columns, At
<1>7. TypeOK'
  <2>1. max_score' \in {max_score, s} /\ max_score_pos' \in {max_score_pos, at}
    BY <1>2
  <2>2. max_score' \in Nat /\ max_score_pos' \in Nat /\ at' \in Nat
    BY <1>1, <1>5, <2>1 DEF TypeOK
  <2>3. in_gap' \in BOOLEAN
    BY <1>2
  <2>4. QED
    BY <1>1, <2>2, <2>3 DEF TypeOK
<1>8. CellsBounded'
  <2> SUFFICES ASSUME NEW cell \in DOMAIN h'
               PROVE  /\ cell[1] \in 0 .. M - 1
                      /\ h'[cell] \in 0 .. CellBound(cell[1])
                      /\ cell[1] > 0 => M <= N /\ Fits
    BY <1>3 DEF CellsBounded
  <2>1. CASE cell = <<pidx, at>>
    <3>1. cell[1] = pidx /\ h'[cell] = s /\ M <= N
      BY <1>2, <1>3, <1>4, <1>5, <2>1
    <3>2. QED
      BY <1>4, <1>5, <3>1
  <2>2. CASE cell # <<pidx, at>>
    BY <1>1, <1>2, <2>2 DEF CellsBounded
  <2>3. QED
    BY <2>1, <2>2
<1>9. \A i \in 0 .. pidx - 1 : RowSound(i, last_idx)'
  <2> SUFFICES ASSUME NEW i \in 0 .. pidx - 1 PROVE RowSound(i, last_idx)'
    OBVIOUS
  <2>1. RowSound(i, last_idx) /\ i \in Nat /\ i < pidx /\ last_idx \in Int
    BY <1>4, <1>5
  <2>2. \A k \in {i, i - 1}, l \in Int : <<k, l>> \in DOMAIN h =>
          <<k, l>> \in DOMAIN h' /\ h'[<<k, l>>] = h[<<k, l>>]
    BY <1>2, <1>5, <2>1
  <2>3. \A l \in Int : <<i, l>> \in DOMAIN c =>
          <<i, l>> \in DOMAIN c' /\ c'[<<i, l>>] = c[<<i, l>>]
    BY <1>2, <1>5, <2>1
  <2>4. RowSound(i, last_idx)'
    BY <1>1, <2>1, <2>2, <2>3, RowFrame
  <2>5. QED
    BY <2>4
<1>10. RowSound(pidx, at - 1)'
  <2> PICK i \in Nat, col \in Nat : i = pidx /\ col = at
    BY <1>5
  <2>1. RowSound(i, col - 1) /\ i - 1 \in Int /\ col - 1 \in Int
    BY <1>4
  <2>2. \A k \in {i, i - 1}, l \in Int : l <= col - 1 /\ <<k, l>> \in DOMAIN h =>
          <<k, l>> \in DOMAIN h' /\ h'[<<k, l>>] = h[<<k, l>>]
    BY <1>2
  <2>3. \A l \in Int : l <= col - 1 /\ <<i, l>> \in DOMAIN c =>
          <<i, l>> \in DOMAIN c' /\ c'[<<i, l>>] = c[<<i, l>>]
    BY <1>2
  <2>4. RowSound(i, col - 1)'
    BY <1>1, <2>1, <2>2, <2>3, RowFrame
  <2>5. CellSound(i, col)'
    <3>1. /\ <<i, col - 1>> \in DOMAIN h' /\ h'[<<i, col - 1>>] = h[<<i, col - 1>>]
          /\ <<i - 1, col - 1>> \in DOMAIN h'
          /\ h'[<<i - 1, col - 1>>] = h[<<i - 1, col - 1>>]
      BY <1>2, <2>2
    <3>2. /\ <<i, col>> \in DOMAIN h' /\ <<i, col>> \in DOMAIN c'
          /\ h'[<<i, col>>] = s /\ c'[<<i, col>>] = run
      BY <1>2
    <3>3. /\ At(f', 0) = At(f, 0) /\ At(f', i) = At(f, i)
          /\ Matches(col, i)' = Matches(col, i)
      BY <1>1, <1>3
    <3>4. /\ run \in 0 .. col - At(f, 0) + 1
          /\ Matches(col, i) \/ s = 0 \/ s < h[<<i, col - 1>>]
          /\ col = At(f, i) => s > 0 /\ s > h[<<i - 1, col - 1>>]
      BY <1>2
    <3>5. QED
      BY <3>1, <3>2, <3>3, <3>4 DEF CellSound
  <2>6. \A l \in At(f', i) .. col : CellSound(i, l)'
    <3>1. \A l \in At(f', i) .. col - 1 : CellSound(i, l)'
      BY <2>4 DEF RowSound
    <3>2. At(f', i) \in Nat
      BY <1>1, <1>5
    <3>3. \A l \in At(f', i) .. col : l = col \/ l \in At(f', i) .. col - 1
      BY <3>2
    <3>4. QED
      BY <2>5, <3>1, <3>3
  <2>7. i = pidx' /\ col = at' - 1
    BY <1>1, <1>5
  <2>8. QED
    BY <2>6, <2>7 DEF RowSound
<1>11. FillPass'
  <2>1. Prepared'
    BY <1>1, <1>3, <1>4 DEF Prepared, At
  <2>2. at' \in At(f, pidx) .. last_idx + 1 /\ at' > At(f, pidx) /\ at' - 1 = at
    BY <1>1, <1>4, <1>5
  <2>3. <<pidx, at>> \in DOMAIN h'
    BY <1>2
  <2>4. IF pidx = M - 1
        THEN max_score' > 0 /\ max_score_pos' \in At(f, pidx) .. at
        ELSE max_score' = 0
    <3>1. IF pidx = M - 1 /\ s > max_score
          THEN max_score' = s /\ max_score_pos' = at
          ELSE max_score' = max_score /\ max_score_pos' = max_score_pos
      BY <1>2
    <3>2. /\ at = At(f, pidx) => s > 0
          /\ at \in Nat /\ At(f, pidx) \in Nat /\ at >= At(f, pidx)
          /\ s \in Nat /\ max_score \in Nat
      BY <1>2, <1>4, <1>5
    <3>3. IF pidx = M - 1 /\ at > At(f, pidx)
          THEN max_score > 0 /\ max_score_pos \in At(f, pidx) .. at - 1
          ELSE max_score = 0
      BY <1>4
    <3>4. QED
      BY <3>1, <3>2, <3>3
  <2>5. At(f', pidx') = At(f, pidx) /\ pidx' = pidx
    BY <1>1
  <2>6. QED
    BY <1>1, <1>3, <1>4, <1>5, <1>9, <1>10, <2>1, <2>2, <2>3, <2>4, <2>5 DEF FillPass
<1>12. QED
  BY <1>1, <1>6, <1>7, <1>8, <1>11 DEF IInv, TraceSpells

\* A row is done: the next one, the walk back from the best cell, or the answer.
LEMMA RowDoneInv ==
  ASSUME IInv, RowDone
  PROVE  IInv'
<1>1. /\ pc = "fill" /\ at > last_idx /\ pos = <<>>
      /\ FillPass /\ TypeOK /\ CellsBounded /\ FoundInOrder
      /\ UNCHANGED <<call, f, last_idx, bo, h, c, in_gap, max_score, max_score_pos,
                     prefer_match, pos>>
  BY DEF RowDone, IInv
<1>2. /\ M' = M /\ N' = N /\ Fits' = Fits /\ M \in Nat /\ N \in Nat
      /\ \A k, p : Matches(k, p)' = Matches(k, p)
  BY <1>1, SameCall, Sizes DEF TypeOK
<1>3. /\ Prepared /\ pidx \in 1 .. M - 1 /\ Len(f) = M /\ M > 1
      /\ at \in At(f, pidx) .. last_idx + 1
      /\ \A i \in 0 .. pidx - 1 : RowSound(i, last_idx)
      /\ RowSound(pidx, at - 1)
      /\ IF pidx = M - 1 /\ at > At(f, pidx)
           THEN max_score > 0 /\ max_score_pos \in At(f, pidx) .. at - 1
           ELSE max_score = 0
  BY <1>1 DEF FillPass, Prepared
<1>4. /\ at \in Nat /\ pidx \in Nat /\ last_idx \in Nat /\ At(f, pidx) \in Nat
      /\ At(f, pidx) <= last_idx /\ at = last_idx + 1 /\ at - 1 = last_idx
  BY <1>1, <1>3, Columns0 DEF TypeOK
<1>5. FoundInOrder' /\ CellsBounded' /\ Prepared'
  BY <1>1, <1>2, <1>3 DEF FoundInOrder, CellsBounded, Prepared, Columns, At
<1>6. \A i \in 0 .. pidx : RowSound(i, last_idx)
  <2>1. RowSound(pidx, last_idx)
    BY <1>3, <1>4
  <2>2. \A i \in 0 .. pidx : i = pidx \/ i \in 0 .. pidx - 1
    BY <1>4
  <2>3. QED
    BY <1>3, <2>1, <2>2
<1>7. \A i \in 0 .. pidx : RowSound(i, last_idx)'
  BY <1>1, <1>2, <1>6 DEF RowSound, CellSound, At
<1>8. CASE pidx < M - 1 /\ pidx' = pidx + 1 /\ pc' = "row" /\ UNCHANGED <<at, result>>
  <2>1. RowPass'
    <3>1. pidx' \in 1 .. M - 1 /\ max_score' = 0 /\ pidx' - 1 = pidx
      BY <1>1, <1>3, <1>4, <1>8
    <3>2. QED
      BY <1>1, <1>2, <1>5, <1>7, <3>1 DEF RowPass
  <2>2. QED
    BY <1>1, <1>5, <1>8, <2>1 DEF IInv, TypeOK, TraceSpells
<1>9. CASE pidx = M - 1 /\ pc' = "trace" /\ at' = max_score_pos /\ UNCHANGED <<pidx, result>>
  <2>1. at' \in At(f, pidx) .. last_idx
    BY <1>1, <1>3, <1>4, <1>9
  <2>2. TracePass'
    BY <1>1, <1>2, <1>3, <1>5, <1>7, <1>9, <2>1 DEF TracePass
  <2>3. TraceSpells'
    <3>1. Len(pos') = 0 /\ Columns(pos') = {} /\ M' - 1 - pidx' = 0
      BY <1>1, <1>2, <1>9, EmptySeq DEF Columns
    <3>2. at' >= At(f', pidx')
      BY <1>1, <1>9, <2>1
    <3>3. QED
      BY <3>1, <3>2 DEF TraceSpells
  <2>4. QED
    BY <1>1, <1>5, <1>9, <2>2, <2>3 DEF IInv, TypeOK
<1>10. CASE pc' = "done" /\ UNCHANGED <<at, pidx>>
  BY <1>1, <1>5, <1>10 DEF IInv, TypeOK, TraceSpells
<1>11. QED
  BY <1>8, <1>9, <1>10 DEF RowDone, Answer

-----------------------------------------------------------------------------
\* The walk back

\* A column is taken only where its character is found, and at the latest in the
\* first column of the row.
LEMMA TakenColumns ==
  ASSUME IInv, pc = "trace"
  PROVE  /\ TakesColumn(pidx, at) => Matches(at, pidx)
         /\ at = At(f, pidx) => TakesColumn(pidx, at)
         /\ <<pidx, at>> \in DOMAIN h /\ <<pidx, at>> \in DOMAIN c
         /\ at > At(f, pidx) => <<pidx, at - 1>> \in DOMAIN h
         /\ pidx > 0 => <<pidx - 1, at - 1>> \in DOMAIN h
<1>1. /\ TracePass /\ TypeOK /\ CellsBounded /\ FoundInOrder
  BY DEF IInv
<1>2. /\ Len(f) = M /\ M > 1 /\ pidx \in 0 .. M - 1
      /\ at \in At(f, pidx) .. last_idx
      /\ RowSound(pidx, last_idx)
  BY <1>1 DEF TracePass, Prepared
<1>3. /\ at \in Nat /\ pidx \in Nat /\ At(f, pidx) \in Nat /\ Matches(At(f, pidx), pidx)
  BY <1>1, <1>2, Columns0 DEF TypeOK
<1>4. CellSound(pidx, at)
  BY <1>2 DEF RowSound
<1>5. \A i \in Nat : CellBound(i) \in Nat
  BY DEF CellBound, ScoreMatch, BonusBoundary
<1>6. \A i, col : <<i, col>> \in DOMAIN h /\ i \in Nat => h[<<i, col>>] \in Nat
  <2> SUFFICES ASSUME NEW i \in Nat, NEW col, <<i, col>> \in DOMAIN h
               PROVE  h[<<i, col>>] \in Nat
    OBVIOUS
  <2>1. h[<<i, col>>] \in 0 .. CellBound(<<i, col>>[1]) /\ <<i, col>>[1] = i
    BY <1>1 DEF CellsBounded
  <2>2. QED
    BY <1>5, <2>1
<1>7. /\ <<pidx, at>> \in DOMAIN h /\ <<pidx, at>> \in DOMAIN c
      /\ at > At(f, pidx) => <<pidx, at - 1>> \in DOMAIN h
      /\ pidx > 0 => <<pidx - 1, at - 1>> \in DOMAIN h
  BY <1>3, <1>4 DEF CellSound
<1>8. ASSUME ~Matches(at, pidx) PROVE ~TakesColumn(pidx, at)
  <2>1. /\ at > At(f, pidx)
        /\ h[<<pidx, at>>] = 0 \/ h[<<pidx, at>>] < h[<<pidx, at - 1>>]
    BY <1>2, <1>3, <1>4, <1>8 DEF CellSound
  <2>2. h[<<pidx, at>>] \in Nat /\ h[<<pidx, at - 1>>] \in Nat
    BY <1>3, <1>6, <1>7, <2>1
  <2>3. Diagonal(pidx, at) \in Nat
    BY <1>3, <1>6, <1>7 DEF Diagonal
  <2>4. Left(pidx, at) = h[<<pidx, at - 1>>]
    BY <2>1 DEF Left
  <2>5. QED
    BY <2>1, <2>2, <2>3, <2>4 DEF TakesColumn
<1>9. ASSUME at = At(f, pidx) PROVE TakesColumn(pidx, at)
  <2>1. /\ h[<<pidx, at>>] > 0 /\ h[<<pidx, at>>] \in Nat
        /\ pidx > 0 => h[<<pidx, at>>] > h[<<pidx - 1, at - 1>>]
    BY <1>3, <1>4, <1>6, <1>7, <1>9 DEF CellSound
  <2>2. Left(pidx, at) = 0
    BY <1>3, <1>9 DEF Left
  <2>3. h[<<pidx, at>>] > Diagonal(pidx, at)
    BY <2>1 DEF Diagonal
  <2>4. QED
    BY <2>1, <2>2, <2>3 DEF TakesColumn
<1>10. QED
  BY <1>7, <1>8, <1>9

\* The walk stays between the first column of its row and the columns it took.
LEMMA TraceInv ==
  ASSUME IInv, Trace
  PROVE  IInv'
<1> DEFINE taken == TakesColumn(pidx, at)
<1>1. /\ pc = "trace" /\ TracePass /\ TypeOK /\ CellsBounded /\ FoundInOrder /\ TraceSpells
      /\ UNCHANGED <<call, f, last_idx, bo, h, c, in_gap, max_score, max_score_pos>>
      /\ pos' = IF taken THEN Append(pos, at) ELSE pos
  BY DEF Trace, IInv, AppendPos
<1>2. /\ M' = M /\ N' = N /\ Fits' = Fits
      /\ \A k, p : Matches(k, p)' = Matches(k, p)
  BY <1>1, SameCall DEF TypeOK
<1>3. /\ Len(f) = M /\ M > 1 /\ pidx \in 0 .. M - 1 /\ Prepared
      /\ at \in At(f, pidx) .. last_idx
      /\ \A i \in 0 .. M - 1 : RowSound(i, last_idx)
  BY <1>1 DEF TracePass, Prepared
<1>4. /\ M \in Nat /\ at \in Nat /\ pidx \in Nat /\ last_idx \in Nat /\ At(f, pidx) \in Nat
      /\ pidx > 0 => At(f, pidx - 1) \in Nat /\ At(f, pidx - 1) < At(f, pidx)
  BY <1>1, <1>3, Columns0 DEF TypeOK
<1>5. FoundInOrder' /\ CellsBounded'
  BY <1>1, <1>2, <1>3 DEF FoundInOrder, CellsBounded, Columns, At
<1>6. pos' \in Seq(Nat)
  BY <1>1, <1>4 DEF TypeOK
<1>7. CASE taken /\ pidx = 0 /\ pc' = "done" /\ UNCHANGED <<at, pidx>>
  BY <1>1, <1>5, <1>6, <1>7 DEF IInv, TypeOK, TraceSpells
<1>8. CASE /\ ~(taken /\ pidx = 0) /\ pc' = "trace"
           /\ pidx' = IF taken THEN pidx - 1 ELSE pidx
           /\ at' = at - 1
  <2>1. (taken => Matches(at, pidx)) /\ (at = At(f, pidx) => taken)
    BY <1>1, TakenColumns
  <2> HIDE DEF taken
  <2>2. /\ pidx' \in 0 .. M - 1 /\ pidx' \in Nat /\ at' \in Nat
        /\ at' \in At(f, pidx') .. last_idx
    <3>1. CASE taken
      BY <1>3, <1>4, <1>8, <3>1
    <3>2. CASE ~taken
      BY <1>3, <1>4, <1>8, <2>1, <3>2
    <3>3. QED
      BY <3>1, <3>2
  <2>3. TypeOK'
    BY <1>1, <1>6, <1>8, <2>2 DEF TypeOK
  <2>4. Prepared' /\ \A i \in 0 .. M - 1 : RowSound(i, last_idx)'
    BY <1>1, <1>2, <1>3 DEF Prepared, RowSound, CellSound, At
  <2>5. TracePass'
    BY <1>1, <1>2, <1>8, <2>2, <2>4 DEF TracePass, At
  <2>6. TraceSpells'
    <3>1. /\ Len(pos) = M - 1 - pidx /\ Len(pos) \in Nat
          /\ \A k \in Columns(pos) :
               /\ Matches(pos[k + 1], M - 1 - k)
               /\ pos[k + 1] > (IF k = Len(pos) - 1 THEN at ELSE pos[k + 1 + 1])
      BY <1>1, LenProperties DEF TraceSpells, TypeOK, At
    <3>2. CASE ~taken
      <4>1. pos' = pos /\ pidx' = pidx /\ at' = at - 1
        BY <1>1, <1>8, <3>2
      <4>2. \A k \in Columns(pos) :
              pos[k + 1] > (IF k = Len(pos) - 1 THEN at - 1 ELSE pos[k + 1 + 1])
        <5> SUFFICES ASSUME NEW k \in Columns(pos)
                     PROVE  pos[k + 1] > (IF k = Len(pos) - 1 THEN at - 1 ELSE pos[k + 1 + 1])
          OBVIOUS
        <5>1. pos[k + 1] \in Nat
          BY <1>1, <3>1 DEF TypeOK, Columns
        <5>2. QED
          BY <1>4, <3>1, <5>1
      <4>3. QED
        BY <1>1, <1>2, <2>2, <3>1, <4>1, <4>2 DEF TraceSpells, At
    <3>3. CASE taken
      <4>1. /\ pos' = Append(pos, at) /\ pidx' = pidx - 1 /\ at' = at - 1
            /\ Len(pos') = Len(pos) + 1 /\ pos'[Len(pos) + 1] = at
            /\ \A k \in 1 .. Len(pos) : pos'[k] = pos[k]
        BY <1>1, <1>4, <1>8, <3>3, AppendProperties DEF TypeOK
      <4>2. ASSUME NEW k \in Columns(pos')
            PROVE  /\ Matches(pos'[k + 1], M - 1 - k)
                   /\ pos'[k + 1] > (IF k = Len(pos') - 1 THEN at' ELSE pos'[k + 1 + 1])
        <5>1. k \in 0 .. Len(pos)
          BY <3>1, <4>1 DEF Columns
        <5>2. CASE k = Len(pos)
          <6>1. k = Len(pos') - 1 /\ pos'[k + 1] = at /\ M - 1 - k = pidx
            BY <1>4, <3>1, <4>1, <5>2
          <6>2. QED
            BY <1>4, <2>1, <3>3, <4>1, <6>1
        <5>3. CASE k # Len(pos)
          <6>1. /\ k \in Columns(pos) /\ k # Len(pos') - 1
                /\ pos'[k + 1] = pos[k + 1]
            BY <3>1, <4>1, <5>1, <5>3 DEF Columns
          <6>2. pos'[k + 1 + 1] = IF k = Len(pos) - 1 THEN at ELSE pos[k + 1 + 1]
            BY <3>1, <4>1, <5>1, <5>3
          <6>3. QED
            BY <3>1, <6>1, <6>2
        <5>4. QED
          BY <5>2, <5>3
      <4>3. Len(pos') = M - 1 - pidx'
        BY <1>4, <3>1, <4>1
      <4>4. at' >= At(f', pidx') /\ M' = M /\ \A k, p : Matches(k, p)' = Matches(k, p)
        BY <1>1, <1>2, <1>4, <2>2 DEF At
      <4>5. QED
        BY <4>2, <4>3, <4>4 DEF TraceSpells, At
    <3>4. QED
      BY <3>2, <3>3
  <2>7. QED
    BY <1>5, <1>8, <2>3, <2>5, <2>6 DEF IInv
<1>9. QED
  BY <1>1, <1>7, <1>8 DEF Trace, Answer

\* Every step preserves the invariant.
LEMMA NextInv == IInv /\ [Next]_vars => IInv'
<1> SUFFICES ASSUME IInv, [Next]_vars PROVE IInv'
  OBVIOUS
<1>1. CASE UNCHANGED vars
  <2>1. /\ UNCHANGED <<call, pc, at, pidx, f, last_idx, bo, h, c, in_gap, max_score,
                       max_score_pos, prefer_match, pos>>
        /\ M' = M /\ N' = N /\ Fits' = Fits
        /\ \A k, p : Matches(k, p)' = Matches(k, p)
    BY <1>1, SameCall DEF vars
  <2>2. TypeOK' /\ CellsBounded' /\ FoundInOrder' /\ TraceSpells'
    BY <2>1 DEF IInv, TypeOK, CellsBounded, FoundInOrder, TraceSpells, Columns, At
  <2>3. /\ Prepared => Prepared'
        /\ \A i, to : RowSound(i, to) => RowSound(i, to)'
    BY <2>1 DEF Prepared, RowSound, CellSound, At
  <2>4. /\ BonusPass => BonusPass'
        /\ RowPass => RowPass'
        /\ FillPass => FillPass'
        /\ TracePass => TracePass'
    BY <2>1, <2>3 DEF BonusPass, RowPass, FillPass, TracePass, At
  <2>5. QED
    BY <2>1, <2>2, <2>4 DEF IInv
<1>2. CASE Next
  BY <1>2, StartInv, BonusCellInv, BonusDoneInv, RowInv, FillCellInv, RowDoneInv, TraceInv
  DEF Next
<1>3. QED
  BY <1>1, <1>2

-----------------------------------------------------------------------------

\* Whatever the slab holds: no score and no column taken depends on a cell that
\* this call has not written; the walk back, which has no other condition to end
\* on, never passes the first column of the character it looks for, and spells
\* the end of the pattern; no cell exceeds what its characters can bring.
THEOREM TablesSound == Spec => [](ScoresFromThisCall /\ TraceSpells /\ ScoreBounded)
<1>1. IInv => ScoresFromThisCall
  BY FillCellEffect, TakenColumns DEF ScoresFromThisCall
<1>2. IInv => ScoreBounded
  BY DEF IInv, CellsBounded, ScoreBounded, CellBound
<1>3. IInv => TraceSpells
  BY DEF IInv
<1>4. QED
  BY InitInv, NextInv, <1>1, <1>2, <1>3, PTL DEF Spec

\* The largest slab made by fzf_make_default_slab, in 16 bit numbers
DefaultSlab == 100 * 1024

\* What the 16 bit numbers of the tables can hold
FitsInt16 == \A cell \in DOMAIN h : h[cell] >= 0 /\ h[cell] <= 32767

\* With a slab no larger than the default one no score of the tables leaves the
\* 16 bit numbers they are stored in: the pattern is no longer than the text and
\* the product of both fits in the slab, hence there are at most 320 rows.
THEOREM NoOverflow ==
  ASSUME \A cap \in Caps : cap <= DefaultSlab
  PROVE  Spec => []FitsInt16
<1>1. ASSUME IInv PROVE FitsInt16
  <2> SUFFICES ASSUME NEW cell \in DOMAIN h PROVE h[cell] >= 0 /\ h[cell] <= 32767
    BY DEF FitsInt16
  <2>1. /\ cell[1] \in 0 .. M - 1 /\ h[cell] \in 0 .. CellBound(cell[1])
        /\ cell[1] > 0 => M <= N /\ N * M <= call.cap
    BY <1>1 DEF IInv, CellsBounded, Fits, TablesFit, N, M
  <2>2. M \in Nat /\ N \in Nat /\ call.cap \in Nat
    BY <1>1, Sizes DEF IInv, TypeOK
  <2>3. call.cap <= 102400
    BY <1>1 DEF IInv, TypeOK, Calls, DefaultSlab
  <2>4. cell[1] <= 319
    <3> SUFFICES ASSUME cell[1] > 319 PROVE FALSE
      BY <2>1, <2>2
    <3>1. M >= 321 /\ N >= M /\ N * M <= 102400
      BY <2>1, <2>2, <2>3
    <3>2. N * M >= 321 * M
      BY <2>2, <3>1
    <3>3. QED
      BY <2>2, <3>1, <3>2
  <2>5. CellBound(cell[1]) <= 32767 /\ CellBound(cell[1]) \in Nat
    BY <2>1, <2>2, <2>4 DEF CellBound, ScoreMatch, BonusBoundary
  <2>6. QED
    BY <2>1, <2>5
<1>2. QED
  BY InitInv, NextInv, <1>1, PTL DEF Spec

-----------------------------------------------------------------------------
\* Recursion

\* A set of numbers that is not empty has a least one.
LEMMA Least ==
  ASSUME NEW T \in SUBSET Nat, T # {}
  PROVE  \E n \in T : \A m \in T : n <= m
<1>1. PICK n \in T : \A m \in T : ~(<<m, n>> \in OpToRel(<, Nat))
  BY NatLessThanWellFounded, WFMin
<1>2. \A m \in T : m \in Nat /\ n \in Nat /\ ~(m < n)
  BY <1>1 DEF OpToRel
<1>3. \A m \in T : n <= m
  BY <1>2
<1> QED
  BY <1>3

\* The least number of an interval in a set
LEMMA LeastFrom ==
  ASSUME NEW o \in Int, NEW T \in SUBSET Int, T # {}, \A m \in T : o <= m
  PROVE  \E n \in T : \A m \in T : n <= m
<1> DEFINE D == {d \in Nat : o + d \in T}
<1>1. D \in SUBSET Nat /\ D # {}
  <2>1. PICK m \in T : m \in Int /\ o <= m
    OBVIOUS
  <2>2. m - o \in Nat /\ o + (m - o) = m
    BY <2>1
  <2>3. m - o \in D
    BY <2>1, <2>2
  <2> QED
    BY <2>3
<1>2. PICK d \in D : \A e \in D : d <= e
  BY <1>1, Least
<1>3. ASSUME NEW m \in T PROVE o + d <= m
  <2>1. m - o \in Nat /\ o + (m - o) = m
    OBVIOUS
  <2>2. d <= m - o
    BY <1>2, <2>1
  <2> QED
    BY <2>1, <2>2
<1> QED
  BY <1>2, <1>3

\* r starts from s and goes on by its step, from o to n.
IsRecursion(o, n, s, step, r) ==
  r = [k \in o .. n |-> step[k][IF k = o THEN s ELSE r[k - 1]]]

\* Such a function exists for every step from values to values.
LEMMA Recursion ==
  ASSUME NEW o \in Int, NEW n \in Int, NEW V, NEW s \in V, NEW step \in [Int -> [V -> V]]
  PROVE  /\ \E r : IsRecursion(o, n, s, step, r)
         /\ \A r : IsRecursion(o, n, s, step, r) => r \in [o .. n -> V]
<1>1. ASSUME NEW r, IsRecursion(o, n, s, step, r) PROVE r \in [o .. n -> V]
  <2>1. r = [k \in o .. n |-> step[k][IF k = o THEN s ELSE r[k - 1]]]
    BY <1>1 DEF IsRecursion
  <2> DEFINE T == {k \in o .. n : r[k] \notin V}
  <2>2. SUFFICES ASSUME T # {} PROVE FALSE
    BY <2>1
  <2>3. T \in SUBSET Int /\ \A m \in T : o <= m
    OBVIOUS
  <2>4. PICK k \in T : \A m \in T : k <= m
    BY <2>2, <2>3, LeastFrom
  <2>5. k \in Int /\ k \in o .. n /\ r[k] \notin V
    OBVIOUS
  <2>6. r[k] = step[k][IF k = o THEN s ELSE r[k - 1]]
    BY <2>1, <2>5
  <2>7. (IF k = o THEN s ELSE r[k - 1]) \in V
    <3>1. CASE k = o
      BY <3>1
    <3>2. CASE k # o
      <4>1. k - 1 \in o .. n /\ ~(k <= k - 1)
        BY <2>5, <3>2
      <4>2. k - 1 \notin T
        BY <2>4, <4>1
      <4> QED
        BY <3>2, <4>1, <4>2
    <3> QED
      BY <3>1, <3>2
  <2> HIDE DEF T
  <2>8. PICK v \in V : v = IF k = o THEN s ELSE r[k - 1]
    BY <2>7
  <2> QED
    BY <2>5, <2>6, <2>8
<1>2. \E r : IsRecursion(o, n, s, step, r)
  <2> DEFINE T == {d \in Nat : ~\E r : IsRecursion(o, o + d - 1, s, step, r)}
  <2>1. ASSUME T = {} PROVE \E r : IsRecursion(o, n, s, step, r)
    <3>1. CASE n - o + 1 \in Nat
      <4>1. PICK d \in Nat : d = n - o + 1
        BY <3>1
      <4>2. o + d - 1 = n
        BY <4>1
      <4>3. d \notin T
        BY <2>1
      <4>4. \E r : IsRecursion(o, o + d - 1, s, step, r)
        BY <4>3
      <4> QED
        BY <4>2, <4>4
    <3>2. CASE n - o + 1 \notin Nat
      <4>1. o .. n = {}
        BY <3>2
      <4>2. PICK r : r = [k \in o .. n |-> s]
        OBVIOUS
      <4>3. r = [k \in o .. n |-> step[k][IF k = o THEN s ELSE r[k - 1]]]
        BY <4>1, <4>2
      <4> QED
        BY <4>3 DEF IsRecursion
    <3> QED
      BY <3>1, <3>2
  <2>2. ASSUME T # {} PROVE FALSE
    <3>1. T \in SUBSET Nat
      OBVIOUS
    <3>2. PICK d \in T : \A e \in T : d <= e
      BY <2>2, <3>1, Least
    <3>3. d \in Nat /\ ~\E r : IsRecursion(o, o + d - 1, s, step, r)
      BY <3>2
    <3>4. d # 0
      <4> SUFFICES ASSUME d = 0 PROVE FALSE
        OBVIOUS
      <4>1. o .. o + d - 1 = {}
        OBVIOUS
      <4>2. PICK r : r = [k \in o .. o + d - 1 |-> s]
        OBVIOUS
      <4>3. r = [k \in o .. o + d - 1 |-> step[k][IF k = o THEN s ELSE r[k - 1]]]
        BY <4>1, <4>2
      <4> QED
        BY <3>3, <4>3 DEF IsRecursion
    <3>5. d - 1 \in Nat /\ ~(d <= d - 1)
      BY <3>3, <3>4
    <3>6. PICK e \in Nat : e = d - 1
      BY <3>5
    <3>7. e \notin T
      BY <3>2, <3>5, <3>6
    <3>8. PICK r : IsRecursion(o, o + e - 1, s, step, r)
      BY <3>7
    <3>9. r = [k \in o .. o + e - 1 |-> step[k][IF k = o THEN s ELSE r[k - 1]]]
      BY <3>8 DEF IsRecursion
    <3>10. PICK g : g = [k \in o .. o + d - 1 |-> step[k][IF k = o THEN s ELSE r[k - 1]]]
      OBVIOUS
    <3>11. \A k \in o .. o + e - 1 : k \in o .. o + d - 1
      BY <3>3, <3>6
    <3>12. \A k \in o .. o + e - 1 : r[k] = g[k]
      BY <3>9, <3>10, <3>11
    <3>13. \A k \in o .. o + d - 1 : k # o => k - 1 \in o .. o + e - 1
      BY <3>3, <3>6
    <3>14. \A k \in o .. o + d - 1 : k # o => r[k - 1] = g[k - 1]
      BY <3>12, <3>13
    <3>15. g = [k \in o .. o + d - 1 |-> step[k][IF k = o THEN s ELSE g[k - 1]]]
      BY <3>10, <3>14
    <3> QED
      BY <3>3, <3>15 DEF IsRecursion
  <2> QED
    BY <2>1, <2>2
<1> QED
  BY <1>1, <1>2

\* What holds at the start and goes from each number to the next holds throughout.
LEMMA Climb ==
  ASSUME NEW o \in Int, NEW n \in Int, NEW T, o \in T, \A k \in o .. n - 1 : k \in T => k + 1 \in T
  PROVE  \A k \in o .. n : k \in T
<1> DEFINE B == {k \in o .. n : k \notin T}
<1>1. SUFFICES ASSUME B # {} PROVE FALSE
  OBVIOUS
<1>2. B \in SUBSET Int /\ \A k \in B : o <= k
  OBVIOUS
<1>3. PICK k \in B : \A m \in B : k <= m
  BY <1>1, <1>2, LeastFrom
<1>4. k \in o .. n /\ k \notin T /\ k # o
  BY <1>3
<1>5. PICK l \in Int : l = k - 1
  BY <1>4
<1>6. l \in o .. n - 1 /\ l + 1 = k /\ l \in o .. n /\ ~(k <= l)
  BY <1>4, <1>5
<1>7. l \notin B
  BY <1>3, <1>6
<1>8. l \in T
  BY <1>6, <1>7
<1> QED
  BY <1>4, <1>6, <1>8

-----------------------------------------------------------------------------
\* The score of some columns

\* A bonus is a small number.
LEMMA BonusSmall ==
  ASSUME NEW string, NEW k
  PROVE  BonusAt(string, k) \in 0 .. 8
BY DEF BonusAt, BonusFor, BonusBoundary, BonusCamel123, BonusNonWord

\* Columns have a first and a last one.
LEMMA Ends ==
  ASSUME NEW string, Len(string) \in Nat, NEW cols \in SUBSET Columns(string), cols # {}
  PROVE  /\ Min(cols) \in cols /\ \A k \in cols : Min(cols) <= k
         /\ Max(cols) \in cols /\ \A k \in cols : k <= Max(cols)
         /\ Min(cols) \in Nat /\ Max(cols) \in Nat /\ Max(cols) < Len(string)
<1>1. cols \in SUBSET Nat /\ \A k \in cols : k < Len(string)
  BY DEF Columns
<1>2. \E k \in cols : \A m \in cols : k <= m
  BY <1>1, Least
<1>3. Min(cols) \in cols /\ \A k \in cols : Min(cols) <= k
  BY <1>2 DEF Min
<1>4. \E k \in cols : \A m \in cols : m <= k
  <2> DEFINE D == {d \in Nat : Len(string) - d \in cols}
  <2>1. D \in SUBSET Nat /\ D # {}
    <3>1. PICK k \in cols : TRUE
      OBVIOUS
    <3>2. Len(string) - k \in Nat /\ Len(string) - (Len(string) - k) = k
      BY <1>1
    <3>3. Len(string) - k \in D
      BY <3>1, <3>2
    <3> QED
      BY <3>3
  <2>2. PICK d \in D : \A e \in D : d <= e
    BY <2>1, Least
  <2>3. PICK k : k = Len(string) - d
    OBVIOUS
  <2>4. k \in cols
    BY <2>3
  <2>5. ASSUME NEW m \in cols PROVE m <= k
    <3>1. Len(string) - m \in Nat /\ Len(string) - (Len(string) - m) = m /\ m \in Nat
      BY <1>1
    <3>2. Len(string) - m \in D
      BY <3>1
    <3>3. d <= Len(string) - m /\ d \in Nat
      BY <2>2, <3>2
    <3> QED
      BY <2>3, <3>1, <3>3
  <2> QED
    BY <2>4, <2>5
<1>5. Max(cols) \in cols /\ \A k \in cols : k <= Max(cols)
  BY <1>4 DEF Max
<1> QED
  BY <1>1, <1>3, <1>5

\* A run keeps the bonus it started with, or that of a boundary since.
LEMMA CarriedIs ==
  ASSUME NEW string, Len(string) \in Nat, NEW cols \in SUBSET Columns(string)
  PROVE  \A k \in Columns(string) :
           /\ CarriedBonus(string, cols)[k] \in 0 .. 8
           /\ CarriedBonus(string, cols)[k] =
                IF k - 1 \in cols /\ BonusAt(string, k) # BonusBoundary
                THEN CarriedBonus(string, cols)[k - 1]
                ELSE BonusAt(string, k)
<1> DEFINE Keeps(k) == k - 1 \in cols /\ BonusAt(string, k) # BonusBoundary
           Is(g) == g = [k \in Columns(string) |-> IF Keeps(k) THEN g[k - 1] ELSE BonusAt(string, k)]
           step == [k \in Int |-> [v \in 0 .. 8 |-> IF Keeps(k) THEN v ELSE BonusAt(string, k)]]
<1>1. \A k : BonusAt(string, k) \in 0 .. 8
  BY BonusSmall
<1>2. step \in [Int -> [0 .. 8 -> 0 .. 8]]
  <2> HIDE DEF Keeps
  <2> QED
    BY <1>1
<1>3. PICK n \in Int : n = Len(string) - 1
  OBVIOUS
<1>4. PICK g : IsRecursion(0, n, 0, step, g) /\ g \in [0 .. n -> 0 .. 8]
  <2> HIDE DEF step
  <2>1. PICK V : V = 0 .. 8
    OBVIOUS
  <2>2. PICK o \in Int : o = 0
    OBVIOUS
  <2>3. o \in V /\ step \in [Int -> [V -> V]]
    BY <1>2, <2>1, <2>2
  <2>4. /\ \E g : IsRecursion(o, n, o, step, g)
        /\ \A g : IsRecursion(o, n, o, step, g) => g \in [o .. n -> V]
    BY <2>3, Recursion
  <2> QED
    BY <2>1, <2>2, <2>4
<1>5. Columns(string) = 0 .. n
  BY <1>3 DEF Columns
<1>6. \A k \in 0 .. n : /\ k \in Int /\ ~(0 - 1 \in cols)
                        /\ k # 0 => g[k - 1] \in 0 .. 8
  <2>1. \A k \in 0 .. n : k # 0 => k - 1 \in 0 .. n
    OBVIOUS
  <2> QED
    BY <1>4, <1>5, <2>1
<1>7. Is(g)
  <2>1. g = [k \in 0 .. n |-> step[k][IF k = 0 THEN 0 ELSE g[k - 1]]]
    BY <1>4 DEF IsRecursion
  <2>2. ASSUME NEW k \in 0 .. n
        PROVE  step[k][IF k = 0 THEN 0 ELSE g[k - 1]] = IF Keeps(k) THEN g[k - 1] ELSE BonusAt(string, k)
    <3>1. PICK v : v = IF k = 0 THEN 0 ELSE g[k - 1]
      OBVIOUS
    <3>2. v \in 0 .. 8 /\ k \in Int
      BY <1>6, <3>1
    <3>3. step[k][v] = IF Keeps(k) THEN v ELSE BonusAt(string, k)
      <4> HIDE DEF Keeps
      <4> QED
        BY <3>2
    <3>4. k = 0 => ~Keeps(k)
      BY <1>6
    <3> QED
      BY <3>1, <3>3, <3>4
  <2> HIDE DEF step, Keeps
  <2> QED
    BY <1>5, <2>1, <2>2
<1>8. CarriedBonus(string, cols) = CHOOSE carried : Is(carried)
  BY DEF CarriedBonus
<1>9. Is(CarriedBonus(string, cols))
  <2> HIDE DEF Is
  <2> QED
    BY <1>7, <1>8
<1>10. PICK carried : carried = CarriedBonus(string, cols)
  OBVIOUS
<1>11. \A k \in 0 .. n : carried[k] = IF Keeps(k) THEN carried[k - 1] ELSE BonusAt(string, k)
  <2>1. carried = [k \in Columns(string) |-> IF Keeps(k) THEN carried[k - 1] ELSE BonusAt(string, k)]
    BY <1>9, <1>10
  <2> HIDE DEF Keeps
  <2> QED
    BY <1>5, <2>1
<1>12. \A k \in 0 .. n : carried[k] \in 0 .. 8
  <2> DEFINE T == {k \in Int : carried[k] \in 0 .. 8}
  <2> HIDE DEF Keeps
  <2>1. CASE n < 0
    BY <2>1
  <2>2. CASE n >= 0
    <3>1. 0 \in T
      <4>1. ~Keeps(0) /\ 0 \in 0 .. n
        BY <1>6, <2>2 DEF Keeps
      <4>2. carried[0] = BonusAt(string, 0)
        BY <1>11, <4>1
      <4> QED
        BY <1>1, <4>2
    <3>2. ASSUME NEW k \in 0 .. n - 1, k \in T PROVE k + 1 \in T
      <4>1. PICK m \in Int : m = k + 1
        OBVIOUS
      <4>2. m \in 0 .. n /\ m - 1 = k
        BY <4>1
      <4>3. carried[m] = IF Keeps(m) THEN carried[k] ELSE BonusAt(string, m)
        BY <1>11, <4>2
      <4>4. carried[m] \in 0 .. 8
        BY <1>1, <3>2, <4>3
      <4> QED
        BY <4>1, <4>4
    <3> HIDE DEF T
    <3>3. \A k \in 0 .. n : k \in T
      BY <3>1, <3>2, Climb
    <3> QED
      BY <3>3 DEF T
  <2> QED
    BY <2>1, <2>2
<1> QED
  BY <1>5, <1>10, <1>11, <1>12

\* What each column brings
LEMMA PointsAre ==
  ASSUME NEW string, Len(string) \in Nat, NEW cols \in SUBSET Columns(string), cols # {},
         NEW k \in Columns(string)
  PROVE  /\ Points(string, cols, k) \in Int
         /\ k \in cols => Points(string, cols, k) >= (IF k - 1 \in cols THEN 20 ELSE 16)
         /\ k \notin cols => Points(string, cols, k) = IF k - 1 \in cols THEN -3 ELSE -1
<1>1. BonusAt(string, k) \in 0 .. 8 /\ CarriedBonus(string, cols)[k] \in 0 .. 8
  BY BonusSmall, CarriedIs
<1>2. PICK b : b = IF k - 1 \notin cols THEN BonusAt(string, k)
                   ELSE MaxOf(MaxOf(BonusAt(string, k), CarriedBonus(string, cols)[k]), BonusConsecutive)
  OBVIOUS
<1>3. b \in 0 .. 8 /\ (k - 1 \in cols => b >= 4)
  BY <1>1, <1>2 DEF MaxOf, BonusConsecutive
<1>4. Min(cols) \in cols
  BY Ends
<1>5. Points(string, cols, k) =
        IF k = Min(cols) THEN ScoreMatch + b * BonusFirstCharMultiplier
        ELSE IF k \in cols THEN ScoreMatch + b
        ELSE IF k - 1 \in cols THEN ScoreGapStart
        ELSE ScoreGapExtention
  BY <1>2 DEF Points
<1> QED
  BY <1>3, <1>4, <1>5 DEF ScoreMatch, BonusFirstCharMultiplier, ScoreGapStart, ScoreGapExtention

\* The score up to a column from that up to the one before
LEMMA ScoreIs ==
  ASSUME NEW string, Len(string) \in Nat, NEW cols \in SUBSET Columns(string), cols # {},
         NEW inTable \in BOOLEAN
  PROVE  \A k \in Columns(string) :
           /\ ScoreUpTo(string, cols, inTable)[k] \in Int
           /\ inTable => ScoreUpTo(string, cols, inTable)[k] >= 0
           /\ k < Min(cols) => ScoreUpTo(string, cols, inTable)[k] = 0
           /\ k >= Min(cols) => ScoreUpTo(string, cols, inTable)[k] =
                LET score == Points(string, cols, k)
                               + (IF k = Min(cols) THEN 0 ELSE ScoreUpTo(string, cols, inTable)[k - 1])
                IN  IF inTable THEN MaxOf(score, 0) ELSE score
<1>1. PICK m \in Nat : m = Min(cols)
  BY Ends
<1> DEFINE Rise(k, v) == LET score == Points(string, cols, k) + v
                         IN  IF inTable THEN MaxOf(score, 0) ELSE score
           Is(g) == g = [k \in Columns(string) |->
                           IF k < m THEN 0 ELSE Rise(k, IF k = 0 THEN 0 ELSE g[k - 1])]
           step == [k \in Int |-> [v \in Int |-> IF k < m THEN 0
                                                 ELSE IF k \in Columns(string) THEN Rise(k, v) ELSE 0]]
<1>2. \A k \in Columns(string), v \in Int : Rise(k, v) \in Int /\ (inTable => Rise(k, v) >= 0)
  BY PointsAre DEF MaxOf
<1>3. step \in [Int -> [Int -> Int]]
  <2> HIDE DEF Rise
  <2> QED
    BY <1>2
<1>4. PICK n \in Int : n = Len(string) - 1
  OBVIOUS
<1>5. PICK g : IsRecursion(0, n, 0, step, g) /\ g \in [0 .. n -> Int]
  <2> HIDE DEF step
  <2>1. PICK V : V = Int
    OBVIOUS
  <2>2. PICK o \in Int : o = 0
    OBVIOUS
  <2>3. o \in V /\ step \in [Int -> [V -> V]]
    BY <1>3, <2>1, <2>2
  <2>4. /\ \E g : IsRecursion(o, n, o, step, g)
        /\ \A g : IsRecursion(o, n, o, step, g) => g \in [o .. n -> V]
    BY <2>3, Recursion
  <2> QED
    BY <2>1, <2>2, <2>4
<1>6. Columns(string) = 0 .. n
  BY <1>4 DEF Columns
<1>7. Is(g)
  <2>1. g = [k \in 0 .. n |-> step[k][IF k = 0 THEN 0 ELSE g[k - 1]]]
    BY <1>5 DEF IsRecursion
  <2>2. ASSUME NEW k \in 0 .. n
        PROVE  step[k][IF k = 0 THEN 0 ELSE g[k - 1]] =
                 IF k < m THEN 0 ELSE Rise(k, IF k = 0 THEN 0 ELSE g[k - 1])
    <3>1. PICK v : v = IF k = 0 THEN 0 ELSE g[k - 1]
      OBVIOUS
    <3>2. v \in Int /\ k \in Int
      <4>1. k # 0 => k - 1 \in 0 .. n
        OBVIOUS
      <4> QED
        BY <1>5, <3>1, <4>1
    <3>3. step[k][v] = IF k < m THEN 0 ELSE Rise(k, v)
      <4> HIDE DEF Rise
      <4> QED
        BY <1>6, <3>2
    <3> HIDE DEF Rise, step
    <3> QED
      BY <3>1, <3>3
  <2> HIDE DEF step, Rise
  <2> QED
    BY <1>6, <2>1, <2>2
<1>8. ScoreUpTo(string, cols, inTable) = CHOOSE total : Is(total)
  BY <1>1 DEF ScoreUpTo
<1>9. Is(ScoreUpTo(string, cols, inTable))
  <2> HIDE DEF Is
  <2> QED
    BY <1>7, <1>8
<1>10. PICK total : total = ScoreUpTo(string, cols, inTable)
  OBVIOUS
<1>11. \A k \in 0 .. n : total[k] = IF k < m THEN 0 ELSE Rise(k, IF k = 0 THEN 0 ELSE total[k - 1])
  <2>1. Is(total)
    BY <1>9, <1>10
  <2>2. total = [k \in Columns(string) |->
                   IF k < m THEN 0 ELSE Rise(k, IF k = 0 THEN 0 ELSE total[k - 1])]
    <3> HIDE DEF Rise
    <3> QED
      BY <2>1 DEF Is
  <2> HIDE DEF Rise, Is
  <2> QED
    BY <1>6, <2>2
<1> HIDE DEF Rise, Is, step
<1>12. \A k \in 0 .. n : total[k] \in Int
  <2> DEFINE T == {k \in Int : total[k] \in Int}
  <2>1. CASE n < 0
    BY <2>1
  <2>2. CASE n >= 0
    <3>1. 0 \in 0 .. n /\ 0 \in Int
      BY <2>2
    <3>2. total[0] = IF 0 < m THEN 0 ELSE Rise(0, 0)
      BY <1>11, <3>1
    <3>3. Rise(0, 0) \in Int
      BY <1>2, <1>6, <3>1
    <3>4. 0 \in T
      BY <3>2, <3>3
    <3>5. ASSUME NEW k \in 0 .. n - 1, k \in T PROVE k + 1 \in T
      <4>1. PICK l \in Int : l = k + 1
        OBVIOUS
      <4>2. l \in 0 .. n /\ l - 1 = k /\ l # 0
        BY <4>1
      <4>3. total[l] = IF l < m THEN 0 ELSE Rise(l, total[k])
        BY <1>11, <4>2
      <4>4. Rise(l, total[k]) \in Int
        BY <1>2, <1>6, <3>5, <4>2
      <4> QED
        BY <4>1, <4>3, <4>4
    <3> HIDE DEF T
    <3>6. \A k \in 0 .. n : k \in T
      BY <3>1, <3>4, <3>5, Climb
    <3> QED
      BY <3>6 DEF T
  <2> QED
    BY <2>1, <2>2
<1>13. ASSUME NEW k \in 0 .. n
       PROVE  /\ inTable => total[k] >= 0
              /\ k < m => total[k] = 0
              /\ k >= m => total[k] = Rise(k, IF k = m THEN 0 ELSE total[k - 1])
  <2>1. PICK v : v = IF k = 0 THEN 0 ELSE total[k - 1]
    OBVIOUS
  <2>2. k # 0 => k - 1 \in 0 .. n
    OBVIOUS
  <2>3. v \in Int
    BY <1>12, <2>1, <2>2
  <2>4. total[k] = IF k < m THEN 0 ELSE Rise(k, v)
    BY <1>11, <2>1
  <2>5. inTable => Rise(k, v) >= 0
    BY <1>2, <1>6, <2>3
  <2>6. k = m => v = 0
    <3>1. ASSUME k = m, k # 0 PROVE total[k - 1] = 0
      <4>1. k - 1 < m
        BY <3>1
      <4>2. PICK l : l = k - 1
        OBVIOUS
      <4> QED
        BY <1>11, <2>2, <3>1, <4>1, <4>2
    <3> QED
      BY <2>1, <3>1
  <2>7. k > m => v = total[k - 1]
    BY <2>1
  <2>8. k \in Int /\ ~(k < m /\ k >= m) /\ (k >= m => k = m \/ k > m)
    OBVIOUS
  <2> QED
    BY <2>4, <2>5, <2>6, <2>7, <2>8
<1>14. ASSUME NEW k \in 0 .. n
       PROVE  Rise(k, IF k = m THEN 0 ELSE total[k - 1]) =
                LET score == Points(string, cols, k) + (IF k = m THEN 0 ELSE total[k - 1])
                IN  IF inTable THEN MaxOf(score, 0) ELSE score
  BY DEF Rise
<1> QED
  BY <1>1, <1>6, <1>10, <1>12, <1>13, <1>14

-----------------------------------------------------------------------------
\* The greedy walk

\* The first column from the given one on with the character, or the end of the text
LEMMA SkipIs ==
  ASSUME NEW sensitive, NEW string, Len(string) \in Nat, NEW pat, NEW p, NEW from \in Nat
  PROVE  /\ TrySkip(sensitive, string, pat, p, from) \in 0 .. Len(string)
         /\ TrySkip(sensitive, string, pat, p, from) < Len(string) =>
              /\ from <= TrySkip(sensitive, string, pat, p, from)
              /\ Same(sensitive, string, TrySkip(sensitive, string, pat, p, from), pat, p)
         /\ \A k \in from .. Len(string) - 1 :
              Same(sensitive, string, k, pat, p) => TrySkip(sensitive, string, pat, p, from) <= k
<1> DEFINE Is(k) == /\ k = Len(string) \/ Same(sensitive, string, k, pat, p)
                    /\ \A l \in from .. k - 1 : ~Same(sensitive, string, l, pat, p)
           D == (from .. Len(string)) \cup {Len(string)}
           hits == {k \in from .. Len(string) - 1 : Same(sensitive, string, k, pat, p)}
<1>1. \E k \in D : Is(k)
  <2>1. CASE hits = {}
    BY <2>1
  <2>2. CASE hits # {}
    <3>1. hits \in SUBSET Nat
      OBVIOUS
    <3>2. PICK k \in hits : \A l \in hits : k <= l
      BY <2>2, <3>1, Least
    <3>3. k \in Nat /\ from <= k /\ k < Len(string) /\ Same(sensitive, string, k, pat, p)
      OBVIOUS
    <3>4. ASSUME NEW l \in from .. k - 1 PROVE ~Same(sensitive, string, l, pat, p)
      <4>1. l \in from .. Len(string) - 1 /\ ~(k <= l)
        BY <3>3
      <4>2. l \notin hits
        BY <3>2, <4>1
      <4> QED
        BY <4>1, <4>2
    <3>5. k \in D
      BY <3>3
    <3> QED
      BY <3>3, <3>4, <3>5
  <2> QED
    BY <2>1, <2>2
<1>2. PICK s : s = TrySkip(sensitive, string, pat, p, from)
  OBVIOUS
<1>3. s = CHOOSE k \in D : Is(k)
  BY <1>2 DEF TrySkip
<1>4. s \in D /\ Is(s)
  <2> HIDE DEF D, Is
  <2> QED
    BY <1>1, <1>3
<1>5. s \in 0 .. Len(string) /\ (s < Len(string) => from <= s)
  BY <1>4
<1>6. s < Len(string) => Same(sensitive, string, s, pat, p)
  BY <1>4, <1>5
<1>7. ASSUME NEW k \in from .. Len(string) - 1, Same(sensitive, string, k, pat, p) PROVE s <= k
  <2> SUFFICES ASSUME k < s PROVE FALSE
    BY <1>5
  <2>1. k \in from .. s - 1
    BY <1>5
  <2> QED
    BY <1>4, <1>7, <2>1
<1> QED
  BY <1>2, <1>5, <1>6, <1>7

\* The walk goes from column to column.
LEMMA WalkIs ==
  ASSUME NEW sensitive, NEW string, Len(string) \in Nat, NEW pat, Len(pat) \in Nat, NEW from \in Nat
  PROVE  \A p \in Columns(pat) :
           /\ FirstColumns(sensitive, string, pat, from)[p] \in 0 .. Len(string)
           /\ FirstColumns(sensitive, string, pat, from)[p] =
                TrySkip(sensitive, string, pat, p,
                        IF p = 0 THEN from ELSE FirstColumns(sensitive, string, pat, from)[p - 1] + 1)
<1> DEFINE Skip(p, v) == TrySkip(sensitive, string, pat, p, v + 1)
           Is(g) == g = [p \in -1 .. Len(pat) - 1 |-> IF p = -1 THEN from - 1 ELSE Skip(p, g[p - 1])]
           V == {v \in Int : v >= -1}
           step == [p \in Int |-> [v \in V |-> IF p = -1 THEN from - 1 ELSE Skip(p, v)]]
<1>1. \A p, v : v \in V => Skip(p, v) \in 0 .. Len(string) /\ Skip(p, v) \in V
  <2> SUFFICES ASSUME NEW p, NEW v \in V PROVE Skip(p, v) \in 0 .. Len(string) /\ Skip(p, v) \in V
    OBVIOUS
  <2>1. PICK w \in Nat : w = v + 1
    OBVIOUS
  <2>2. TrySkip(sensitive, string, pat, p, w) \in 0 .. Len(string)
    BY SkipIs
  <2> QED
    BY <2>1, <2>2
<1>2. from - 1 \in V
  OBVIOUS
<1>3. step \in [Int -> [V -> V]]
  <2> HIDE DEF V, Skip
  <2> QED
    BY <1>1, <1>2
<1>4. PICK n \in Int, o \in Int : n = Len(pat) - 1 /\ o = -1
  <2>1. Len(pat) - 1 \in Int /\ -1 \in Int
    OBVIOUS
  <2> QED
    BY <2>1
<1>5. PICK g : IsRecursion(o, n, o, step, g) /\ g \in [o .. n -> V]
  <2>1. o \in V
    BY <1>4
  <2> HIDE DEF step, V
  <2>2. /\ \E g : IsRecursion(o, n, o, step, g)
        /\ \A g : IsRecursion(o, n, o, step, g) => g \in [o .. n -> V]
    BY <1>3, <2>1, Recursion
  <2> QED
    BY <2>2
<1>6. Is(g)
  <2>1. g = [p \in o .. n |-> step[p][IF p = o THEN o ELSE g[p - 1]]]
    BY <1>5 DEF IsRecursion
  <2>2. ASSUME NEW p \in o .. n
        PROVE  step[p][IF p = o THEN o ELSE g[p - 1]] = IF p = o THEN from - 1 ELSE Skip(p, g[p - 1])
    <3>1. PICK v : v = IF p = o THEN o ELSE g[p - 1]
      OBVIOUS
    <3>2. v \in V /\ p \in Int
      <4>1. p # o => p - 1 \in o .. n
        BY <1>4
      <4>2. o \in V
        BY <1>4
      <4> HIDE DEF V
      <4> QED
        BY <1>5, <3>1, <4>1, <4>2
    <3>3. step[p][v] = IF p = o THEN from - 1 ELSE Skip(p, v)
      <4> HIDE DEF Skip, V
      <4> QED
        BY <1>4, <3>2
    <3> HIDE DEF Skip, V, step
    <3> QED
      BY <3>1, <3>3
  <2> HIDE DEF step, Skip
  <2> QED
    BY <1>4, <2>1, <2>2
<1>7. PICK walk : Is(walk) /\ FirstColumns(sensitive, string, pat, from) = [p \in Columns(pat) |-> walk[p]]
  <2>1. PICK walk : walk = CHOOSE w : Is(w)
    OBVIOUS
  <2>2. Is(walk)
    <3> HIDE DEF Is
    <3> QED
      BY <1>6, <2>1
  <2>3. FirstColumns(sensitive, string, pat, from) = [p \in Columns(pat) |-> (CHOOSE w : Is(w))[p]]
    BY DEF FirstColumns
  <2> HIDE DEF Is
  <2> QED
    BY <2>1, <2>2, <2>3
<1>8. \A p \in o .. n : walk[p] = IF p = o THEN from - 1 ELSE Skip(p, walk[p - 1])
  <2>1. walk = [p \in -1 .. Len(pat) - 1 |-> IF p = -1 THEN from - 1 ELSE Skip(p, walk[p - 1])]
    BY <1>7
  <2> HIDE DEF Skip, Is
  <2> QED
    BY <1>4, <2>1
<1>9. \A p \in o .. n : walk[p] \in V
  <2> DEFINE T == {p \in Int : walk[p] \in V}
  <2>1. o \in T
    <3>1. o \in o .. n
      BY <1>4
    <3> HIDE DEF V
    <3> QED
      BY <1>2, <1>8, <3>1
  <2>2. ASSUME NEW p \in o .. n - 1, p \in T PROVE p + 1 \in T
    <3>1. PICK q \in Int : q = p + 1
      OBVIOUS
    <3>2. q \in o .. n /\ q - 1 = p /\ q # o
      BY <3>1
    <3> HIDE DEF V, Skip
    <3>3. walk[q] = Skip(q, walk[p])
      BY <1>8, <3>2
    <3>4. walk[q] \in V
      BY <1>1, <2>2, <3>3
    <3> QED
      BY <3>1, <3>4
  <2> HIDE DEF T
  <2>3. \A p \in o .. n : p \in T
    BY <2>1, <2>2, Climb
  <2> QED
    BY <2>3 DEF T
<1>10. Columns(pat) = 0 .. n
  BY <1>4 DEF Columns
<1>11. ASSUME NEW p \in 0 .. n
       PROVE  walk[p] \in 0 .. Len(string) /\
              walk[p] = TrySkip(sensitive, string, pat, p, IF p = 0 THEN from ELSE walk[p - 1] + 1)
  <2>1. p \in o .. n /\ p # o /\ p - 1 \in o .. n
    BY <1>4
  <2>2. walk[p] = Skip(p, walk[p - 1])
    <3> HIDE DEF Skip
    <3> QED
      BY <1>8, <2>1
  <2>3. walk[p - 1] \in V
    BY <1>9, <2>1
  <2>4. walk[p] \in 0 .. Len(string)
    <3> HIDE DEF Skip, V
    <3> QED
      BY <1>1, <2>2, <2>3
  <2>5. CASE p = 0
    <3>1. p - 1 = o /\ o \in o .. n
      BY <1>4, <2>1, <2>5
    <3>2. walk[p - 1] = from - 1
      <4> HIDE DEF Skip
      <4> QED
        BY <1>8, <3>1
    <3>3. walk[p - 1] + 1 = from
      BY <3>2
    <3> QED
      BY <2>2, <2>4, <2>5, <3>3
  <2>6. CASE p # 0
    BY <2>2, <2>4, <2>6
  <2> QED
    BY <2>5, <2>6
<1>12. \A p \in 0 .. n : /\ FirstColumns(sensitive, string, pat, from)[p] = walk[p]
                         /\ p # 0 => FirstColumns(sensitive, string, pat, from)[p - 1] = walk[p - 1]
  <2>1. \A p \in 0 .. n : FirstColumns(sensitive, string, pat, from)[p] = walk[p]
    <3> HIDE DEF Is
    <3> QED
      BY <1>7, <1>10
  <2>2. \A p \in 0 .. n : p # 0 => p - 1 \in 0 .. n
    OBVIOUS
  <2> QED
    BY <2>1, <2>2
<1> QED
  BY <1>10, <1>11, <1>12

\* Each column found is behind the one before; past the text nothing is found.
LEMMA WalkFinds ==
  ASSUME NEW sensitive, NEW string, Len(string) \in Nat, NEW pat, Len(pat) \in Nat \ {0}, NEW from \in Nat,
         FirstColumns(sensitive, string, pat, from)[Len(pat) - 1] < Len(string)
  PROVE  \A p \in Columns(pat) :
           /\ FirstColumns(sensitive, string, pat, from)[p] \in from .. Len(string) - 1
           /\ Same(sensitive, string, FirstColumns(sensitive, string, pat, from)[p], pat, p)
           /\ p > 0 => FirstColumns(sensitive, string, pat, from)[p - 1]
                         < FirstColumns(sensitive, string, pat, from)[p]
<1>1. PICK w : w = FirstColumns(sensitive, string, pat, from)
  OBVIOUS
<1>2. PICK m \in Nat : m = Len(pat) - 1
  <2>1. Len(pat) - 1 \in Nat
    OBVIOUS
  <2> QED
    BY <2>1
<1>3. Columns(pat) = 0 .. m /\ w[m] < Len(string)
  BY <1>1, <1>2 DEF Columns
<1>4. ASSUME NEW p \in 0 .. m
      PROVE  /\ w[p] \in 0 .. Len(string)
             /\ w[p] < Len(string) => /\ Same(sensitive, string, w[p], pat, p)
                                      /\ p = 0 => from <= w[p]
                                      /\ p > 0 => w[p - 1] < w[p]
  <2>1. /\ w[p] \in 0 .. Len(string)
        /\ w[p] = TrySkip(sensitive, string, pat, p, IF p = 0 THEN from ELSE w[p - 1] + 1)
    BY <1>1, <1>3, WalkIs
  <2>2. p > 0 => w[p - 1] \in 0 .. Len(string)
    <3>1. p > 0 => p - 1 \in 0 .. m
      OBVIOUS
    <3> QED
      BY <1>1, <1>3, <3>1, WalkIs
  <2>3. PICK s \in Nat : s = IF p = 0 THEN from ELSE w[p - 1] + 1
    BY <2>2
  <2>4. w[p] = TrySkip(sensitive, string, pat, p, s)
    BY <2>1, <2>3
  <2>5. w[p] < Len(string) => s <= w[p] /\ Same(sensitive, string, w[p], pat, p)
    BY <2>4, SkipIs
  <2> QED
    BY <2>1, <2>2, <2>3, <2>5
<1>5. \A p \in 0 .. m : w[p] < Len(string)
  <2> DEFINE T == {d \in Int : w[m - d] < Len(string)}
  <2>1. 0 \in T
    BY <1>3
  <2>2. ASSUME NEW d \in 0 .. m - 1, d \in T PROVE d + 1 \in T
    <3>1. PICK q \in Int : q = m - d
      OBVIOUS
    <3>2. q \in 0 .. m /\ q > 0 /\ m - (d + 1) = q - 1 /\ q - 1 \in 0 .. m
      BY <3>1
    <3>3. w[q] < Len(string)
      BY <2>2, <3>1
    <3>4. w[q - 1] < w[q] /\ w[q] \in 0 .. Len(string) /\ w[q - 1] \in 0 .. Len(string)
      BY <1>4, <3>2, <3>3
    <3>5. w[q - 1] < Len(string)
      BY <3>3, <3>4
    <3> QED
      BY <3>2, <3>5
  <2> HIDE DEF T
  <2>3. 0 \in Int /\ \A d \in 0 .. m : d \in T
    BY <2>1, <2>2, Climb
  <2>4. ASSUME NEW p \in 0 .. m PROVE w[p] < Len(string)
    <3>1. m - p \in 0 .. m /\ m - (m - p) = p
      BY <1>2
    <3>2. PICK d \in 0 .. m : m - d = p
      BY <3>1
    <3>3. d \in T
      BY <2>3, <3>2
    <3> QED
      BY <3>2, <3>3 DEF T
  <2> QED
    BY <2>4
<1>6. \A p \in 0 .. m : from <= w[p]
  <2> DEFINE T == {p \in Int : from <= w[p]}
  <2>1. 0 \in T
    <3>1. 0 \in 0 .. m
      OBVIOUS
    <3> QED
      BY <1>4, <1>5, <3>1
  <2>2. ASSUME NEW p \in 0 .. m - 1, p \in T PROVE p + 1 \in T
    <3>1. PICK q \in Int : q = p + 1
      OBVIOUS
    <3>2. q \in 0 .. m /\ q > 0 /\ q - 1 = p /\ p \in 0 .. m
      BY <3>1
    <3>3. w[p] < w[q] /\ w[q] \in 0 .. Len(string) /\ w[p] \in 0 .. Len(string)
      BY <1>4, <1>5, <3>2
    <3>4. from <= w[q]
      BY <2>2, <3>3
    <3> QED
      BY <3>1, <3>4
  <2> HIDE DEF T
  <2>3. 0 \in Int /\ \A p \in 0 .. m : p \in T
    BY <2>1, <2>2, Climb
  <2> QED
    BY <2>3 DEF T
<1> QED
  BY <1>1, <1>3, <1>4, <1>5, <1>6

-----------------------------------------------------------------------------
\* Columns that spell the pattern

\* In these columns the first n characters of the pattern are found, in order.
Spelling(sensitive, string, pat, cols, n) ==
  /\ cols \in SUBSET Columns(string) /\ Cardinality(cols) = n
  /\ \A k \in cols : Same(sensitive, string, k, pat, Cardinality({l \in cols : l < k}))

\* Columns are finitely many numbers.
LEMMA ColumnsFinite ==
  ASSUME NEW string, Len(string) \in Nat, NEW cols \in SUBSET Columns(string)
  PROVE  IsFiniteSet(cols) /\ cols \in SUBSET Nat /\ Cardinality(cols) \in Nat
<1>1. \A b \in Int : IsFiniteSet(0 .. b)
  BY FS_Interval
<1>2. IsFiniteSet(Columns(string)) /\ Columns(string) \subseteq Nat
  BY <1>1 DEF Columns
<1> QED
  BY <1>2, FS_Subset, FS_CardinalityType

\* How many of some numbers come before one of them
LEMMA Ranks ==
  ASSUME NEW cols \in SUBSET Nat, IsFiniteSet(cols), NEW k \in cols
  PROVE  /\ Cardinality({l \in cols : l < k}) \in 0 .. Cardinality(cols) - 1
         /\ (\A l \in cols : l <= k) =>
              Cardinality({l \in cols : l < k}) = Cardinality(cols) - 1
         /\ \/ Cardinality({l \in cols : l < k}) = 0
            \/ \E m \in cols : /\ m < k
                               /\ Cardinality({l \in cols : l < k}) - 1 = Cardinality({l \in cols : l < m})
<1>1. PICK S : S = {l \in cols : l < k}
  OBVIOUS
<1>2. k \in Nat /\ S \subseteq cols /\ k \notin S /\ IsFiniteSet(S)
  <2>1. S \subseteq cols /\ k \in Nat
    BY <1>1
  <2>2. k \notin S
    BY <1>1, <2>1
  <2> QED
    BY <2>1, <2>2, FS_Subset
<1>3. Cardinality(S) \in Nat /\ Cardinality(cols) \in Nat
  BY <1>2, FS_CardinalityType
<1>4. Cardinality(S \cup {k}) = Cardinality(S) + 1 /\ S \cup {k} \subseteq cols
  BY <1>2, FS_AddElement
<1>5. Cardinality(S \cup {k}) <= Cardinality(cols)
  BY <1>4, FS_Subset
<1>6. Cardinality(S) \in 0 .. Cardinality(cols) - 1
  BY <1>3, <1>4, <1>5
<1>7. ASSUME \A l \in cols : l <= k PROVE Cardinality(S) = Cardinality(cols) - 1
  <2>1. \A l \in cols : l < k \/ l = k
    BY <1>2, <1>7
  <2>2. S \cup {k} = cols
    BY <1>1, <1>4, <2>1
  <2>3. Cardinality(cols) = Cardinality(S) + 1
    BY <1>4, <2>2
  <2> QED
    BY <1>3, <2>3
<1>8. ASSUME Cardinality(S) # 0
      PROVE  \E m \in cols : m < k /\ Cardinality(S) - 1 = Cardinality({l \in cols : l < m})
  <2>1. S # {}
    BY <1>8, FS_EmptySet
  <2>2. \E m \in S : \A l \in S : l <= m
    <3> DEFINE D == {d \in Nat : k - d \in S}
    <3>1. D \in SUBSET Nat /\ D # {}
      <4>1. PICK l \in S : TRUE
        BY <2>1
      <4>2. l \in Nat /\ l < k
        BY <1>1, <4>1
      <4>3. k - l \in Nat /\ k - (k - l) = l
        BY <1>2, <4>2
      <4>4. k - l \in D
        BY <4>1, <4>3
      <4> QED
        BY <4>4
    <3>2. PICK d \in D : \A e \in D : d <= e
      BY <3>1, Least
    <3>3. PICK m : m = k - d
      OBVIOUS
    <3>4. ASSUME NEW l \in S PROVE l <= m
      <4>1. l \in Nat /\ l < k
        BY <1>1
      <4>2. k - l \in Nat /\ k - (k - l) = l
        BY <1>2, <4>1
      <4>3. k - l \in D
        BY <4>2
      <4>4. d <= k - l /\ d \in Nat
        BY <3>2, <4>3
      <4> QED
        BY <1>2, <3>3, <4>1, <4>4
    <3> QED
      BY <3>3, <3>4
  <2>3. PICK m \in S : \A l \in S : l <= m
    BY <2>2
  <2>4. m \in cols /\ m < k /\ m \in Nat
    BY <1>1, <2>3
  <2>5. PICK R : R = {l \in cols : l < m}
    OBVIOUS
  <2>6. \A l \in cols : l < k <=> l < m \/ l = m
    <3> SUFFICES ASSUME NEW l \in cols PROVE l < k <=> l < m \/ l = m
      OBVIOUS
    <3>1. l \in Nat
      OBVIOUS
    <3>2. l < k => l <= m
      BY <1>1, <2>3
    <3> QED
      BY <1>2, <2>4, <3>1, <3>2
  <2>7. S = R \cup {m}
    BY <1>1, <2>4, <2>5, <2>6
  <2>8. m \notin R /\ R \subseteq cols
    BY <2>4, <2>5
  <2>9. IsFiniteSet(R)
    BY <2>8, FS_Subset
  <2>10. Cardinality(S) = Cardinality(R) + 1 /\ Cardinality(R) \in Nat
    BY <2>7, <2>8, <2>9, FS_AddElement, FS_CardinalityType
  <2>11. Cardinality(S) - 1 = Cardinality(R)
    BY <2>10
  <2> QED
    BY <2>4, <2>5, <2>11
<1> QED
  BY <1>1, <1>6, <1>7, <1>8

\* One more character, behind the others
LEMMA SpellingMore ==
  ASSUME NEW sensitive, NEW string, Len(string) \in Nat, NEW pat, NEW cols, NEW n \in Nat,
         Spelling(sensitive, string, pat, cols, n),
         NEW k \in Columns(string), \A l \in cols : l < k, Same(sensitive, string, k, pat, n)
  PROVE  Spelling(sensitive, string, pat, cols \cup {k}, n + 1)
<1>1. /\ cols \in SUBSET Columns(string) /\ Cardinality(cols) = n
      /\ \A l \in cols : Same(sensitive, string, l, pat, Cardinality({x \in cols : x < l}))
  BY DEF Spelling
<1>2. IsFiniteSet(cols) /\ cols \in SUBSET Nat /\ k \in Nat
  BY <1>1, ColumnsFinite DEF Columns
<1>3. k \notin cols
  BY <1>2
<1>4. PICK more : more = cols \cup {k}
  OBVIOUS
<1>5. more \in SUBSET Columns(string) /\ Cardinality(more) = n + 1
  BY <1>1, <1>2, <1>3, <1>4, FS_AddElement
<1>6. ASSUME NEW l \in more
      PROVE  Same(sensitive, string, l, pat, Cardinality({x \in more : x < l}))
  <2>1. CASE l = k
    <3>1. ~(k < k) /\ cols \subseteq more
      BY <1>2, <1>4
    <3>2. \A x \in more : x < l <=> x \in cols
      BY <1>4, <2>1, <3>1
    <3>3. {x \in more : x < l} = cols
      BY <3>1, <3>2
    <3> QED
      BY <1>1, <2>1, <3>3
  <2>2. CASE l \in cols
    <3>1. l \in Nat /\ l < k
      BY <1>2, <2>2
    <3>2. ~(k < l)
      BY <1>2, <3>1
    <3>3. {x \in more : x < l} = {x \in cols : x < l}
      BY <1>4, <3>2
    <3> QED
      BY <1>1, <2>2, <3>3
  <2> QED
    BY <1>4, <2>1, <2>2
<1> QED
  BY <1>4, <1>5, <1>6 DEF Spelling

\* The values of an increasing function spell what each of them is.
LEMMA SpelledBy ==
  ASSUME NEW sensitive, NEW string, Len(string) \in Nat, NEW pat, NEW m \in Nat, NEW g,
         \A p \in 0 .. m : /\ g[p] \in Columns(string) /\ Same(sensitive, string, g[p], pat, p)
                           /\ p > 0 => g[p - 1] < g[p]
  PROVE  /\ Spelling(sensitive, string, pat, {g[p] : p \in 0 .. m}, m + 1)
         /\ \A p \in 0 .. m : g[0] <= g[p] /\ g[p] <= g[m]
<1>1. \A p \in 0 .. m : g[p] \in Nat
  BY DEF Columns
<1> DEFINE Up(n) == {g[p] : p \in 0 .. n}
           T == {n \in Nat : /\ Spelling(sensitive, string, pat, Up(n), n + 1)
                             /\ \A p \in 0 .. n : g[p] <= g[n]}
<1>2. 0 \in T
  <2>1. Up(0) = {g[0]} /\ 0 \in 0 .. m
    <3>1. 0 .. 0 = {0}
      OBVIOUS
    <3> QED
      BY <3>1
  <2>2. Cardinality({g[0]}) = 1
    BY FS_Singleton
  <2>3. {l \in {g[0]} : l < g[0]} = {}
    BY <1>1, <2>1
  <2>4. Cardinality({}) = 0
    BY FS_EmptySet
  <2>5. g[0] \in Columns(string) /\ Same(sensitive, string, g[0], pat, 0)
    BY <2>1
  <2>6. PICK cols : cols = {g[0]}
    OBVIOUS
  <2>7. Spelling(sensitive, string, pat, cols, 1)
    BY <2>2, <2>3, <2>4, <2>5, <2>6 DEF Spelling
  <2>8. \A p \in 0 .. 0 : g[p] <= g[0]
    BY <1>1, <2>1
  <2> HIDE DEF Up
  <2>9. Spelling(sensitive, string, pat, Up(0), 0 + 1)
    <3>1. 0 + 1 = 1 /\ Up(0) = cols
      BY <2>1, <2>6
    <3> QED
      BY <2>7, <3>1
  <2> QED
    BY <2>8, <2>9
<1>3. ASSUME NEW n \in 0 .. m - 1, n \in T PROVE n + 1 \in T
  <2>1. PICK q \in Nat : q = n + 1
    OBVIOUS
  <2>2. q \in 0 .. m /\ q - 1 = n /\ q > 0 /\ n \in Nat
    BY <2>1
  <2>3. g[n] < g[q] /\ g[q] \in Columns(string) /\ Same(sensitive, string, g[q], pat, q)
    BY <2>2
  <2>4. Spelling(sensitive, string, pat, Up(n), q) /\ \A p \in 0 .. n : g[p] <= g[n]
    BY <1>3, <2>1
  <2>5. \A p \in 0 .. n : p \in 0 .. m /\ n \in 0 .. m
    BY <2>2
  <2>6. \A p \in 0 .. n : g[p] < g[q]
    <3> SUFFICES ASSUME NEW p \in 0 .. n PROVE g[p] < g[q]
      OBVIOUS
    <3>1. g[p] \in Nat /\ g[n] \in Nat /\ g[q] \in Nat
      BY <1>1, <2>2, <2>5
    <3> QED
      BY <2>3, <2>4, <3>1
  <2>7. \A l \in Up(n) : l < g[q]
    BY <2>6
  <2>8. Spelling(sensitive, string, pat, Up(n) \cup {g[q]}, q + 1)
    <3> HIDE DEF Up
    <3> QED
      BY <2>3, <2>4, <2>7, SpellingMore
  <2>9. \A p : p \in 0 .. q <=> p \in 0 .. n \/ p = q
    BY <2>2
  <2>10. Up(q) = Up(n) \cup {g[q]}
    BY <2>9
  <2>11. \A p \in 0 .. q : g[p] <= g[q]
    <3> SUFFICES ASSUME NEW p \in 0 .. q PROVE g[p] <= g[q]
      OBVIOUS
    <3>1. p \in 0 .. n \/ p = q
      BY <2>9
    <3>2. g[q] \in Nat /\ (p \in 0 .. n => g[p] \in Nat)
      BY <1>1, <2>2, <2>5
    <3> QED
      BY <2>6, <3>1, <3>2
  <2> HIDE DEF Up
  <2> QED
    BY <2>1, <2>8, <2>10, <2>11
<1>4. m \in T
  <2>1. PICK R : R = T
    OBVIOUS
  <2> HIDE DEF T
  <2>2. 0 \in Int /\ m \in Int /\ 0 \in R /\ \A n \in 0 .. m - 1 : n \in R => n + 1 \in R
    BY <1>2, <1>3, <2>1
  <2>3. \A n \in 0 .. m : n \in R
    BY <2>2, Climb
  <2> QED
    BY <2>1, <2>3
<1>5. \A p \in 0 .. m : g[0] <= g[p]
  <2> DEFINE R == {p \in Int : g[0] <= g[p]}
  <2>1. 0 \in R
    BY <1>1
  <2>2. ASSUME NEW n \in 0 .. m - 1, n \in R PROVE n + 1 \in R
    <3>1. PICK q \in Nat : q = n + 1
      OBVIOUS
    <3>2. q \in 0 .. m /\ q - 1 = n /\ q > 0 /\ n \in 0 .. m /\ 0 \in 0 .. m
      BY <3>1
    <3>3. g[n] < g[q] /\ g[n] \in Nat /\ g[q] \in Nat /\ g[0] \in Nat
      BY <1>1, <3>2
    <3>4. g[0] <= g[q]
      BY <2>2, <3>3
    <3> QED
      BY <3>1, <3>4
  <2> HIDE DEF R
  <2>3. 0 \in Int /\ m \in Int /\ \A n \in 0 .. m - 1 : n \in R => n + 1 \in R
    BY <2>2
  <2>4. \A n \in 0 .. m : n \in R
    BY <2>1, <2>3, Climb
  <2> QED
    BY <2>4 DEF R
<1> QED
  BY <1>4, <1>5

\* Occurrences are the columns that spell the whole pattern.
LEMMA OccurrenceIs ==
  ASSUME NEW sensitive, NEW string, Len(string) \in Nat, NEW pat, Len(pat) \in Nat \ {0}, NEW cols
  PROVE  /\ cols \in Occurrences(sensitive, string, pat) <=>
              Spelling(sensitive, string, pat, cols, Len(pat))
         /\ Spelling(sensitive, string, pat, cols, Len(pat)) => cols # {}
<1>1. ASSUME cols \in Occurrences(sensitive, string, pat)
      PROVE  Spelling(sensitive, string, pat, cols, Len(pat))
  BY <1>1 DEF Occurrences, Spelling
<1>2. ASSUME Spelling(sensitive, string, pat, cols, Len(pat))
      PROVE  cols \in Occurrences(sensitive, string, pat) /\ cols # {}
  <2>1. /\ cols \in SUBSET Columns(string) /\ Cardinality(cols) = Len(pat)
        /\ \A k \in cols : Same(sensitive, string, k, pat, Cardinality({l \in cols : l < k}))
    BY <1>2 DEF Spelling
  <2>2. ASSUME NEW k \in cols
        PROVE  \E p \in Columns(pat) : Same(sensitive, string, k, pat, p)
    <3>1. cols \in SUBSET Nat /\ IsFiniteSet(cols)
      BY <2>1, ColumnsFinite
    <3>2. Cardinality({l \in cols : l < k}) \in 0 .. Len(pat) - 1
      BY <2>1, <3>1, Ranks
    <3> QED
      BY <2>1, <3>2 DEF Columns
  <2>3. cols # {}
    BY <2>1, FS_EmptySet
  <2>4. cols \in SUBSET {k \in Columns(string) : \E p \in Columns(pat) : Same(sensitive, string, k, pat, p)}
    BY <2>1, <2>2
  <2> QED
    BY <2>1, <2>3, <2>4 DEF Occurrences
<1> QED
  BY <1>1, <1>2

\* The walk finds an occurrence,
LEMMA WalkSpells ==
  ASSUME NEW sensitive, NEW string, Len(string) \in Nat, NEW pat, Len(pat) \in Nat \ {0}, NEW from \in Nat,
         NEW w, w = FirstColumns(sensitive, string, pat, from), w[Len(pat) - 1] < Len(string)
  PROVE  /\ Range(w) \in Occurrences(sensitive, string, pat)
         /\ w[0] \in Range(w) /\ w[Len(pat) - 1] \in Range(w)
         /\ \A k \in Range(w) : from <= k /\ w[0] <= k /\ k <= w[Len(pat) - 1]
<1>1. PICK m \in Nat : m = Len(pat) - 1
  <2>1. Len(pat) - 1 \in Nat
    BY DEF Columns
  <2> QED
    BY <2>1
<1>2. Columns(pat) = 0 .. m /\ m + 1 = Len(pat)
  BY <1>1 DEF Columns
<1>3. \A p \in 0 .. m : /\ w[p] \in from .. Len(string) - 1 /\ Same(sensitive, string, w[p], pat, p)
                        /\ p > 0 => w[p - 1] < w[p]
  BY <1>1, <1>2, WalkFinds
<1>4. \A p \in 0 .. m : w[p] \in Columns(string) /\ from <= w[p]
  BY <1>3 DEF Columns
<1>5. /\ Spelling(sensitive, string, pat, {w[p] : p \in 0 .. m}, m + 1)
      /\ \A p \in 0 .. m : w[0] <= w[p] /\ w[p] <= w[m]
  <2>1. \A p \in 0 .. m : /\ w[p] \in Columns(string) /\ Same(sensitive, string, w[p], pat, p)
                          /\ p > 0 => w[p - 1] < w[p]
    BY <1>3, <1>4
  <2>2. m \in Nat /\ Len(string) \in Nat
    OBVIOUS
  <2> QED
    BY ONLY <2>1, <2>2, SpelledBy
<1>6. DOMAIN w = 0 .. m
  BY <1>2 DEF FirstColumns
<1>7. Range(w) = {w[p] : p \in 0 .. m}
  BY <1>6 DEF Range
<1>8. Range(w) \in Occurrences(sensitive, string, pat)
  BY <1>2, <1>5, <1>7, OccurrenceIs
<1>9. 0 \in 0 .. m /\ m \in 0 .. m
  OBVIOUS
<1> QED
  BY <1>1, <1>4, <1>5, <1>7, <1>8, <1>9

\* and no occurrence from the same column on has a character before its column.
LEMMA WalkLeast ==
  ASSUME NEW sensitive, NEW string, Len(string) \in Nat, NEW pat, Len(pat) \in Nat \ {0}, NEW from \in Nat,
         NEW cols \in Occurrences(sensitive, string, pat), \A k \in cols : from <= k,
         NEW k \in cols
  PROVE  FirstColumns(sensitive, string, pat, from)[Cardinality({l \in cols : l < k})] <= k
<1>1. PICK w : w = FirstColumns(sensitive, string, pat, from)
  OBVIOUS
<1>2. /\ cols \in SUBSET Columns(string) /\ Cardinality(cols) = Len(pat)
      /\ \A x \in cols : Same(sensitive, string, x, pat, Cardinality({l \in cols : l < x}))
  BY DEF Occurrences
<1>3. cols \in SUBSET Nat /\ IsFiniteSet(cols)
  BY <1>2, ColumnsFinite
<1>4. PICK rank : rank = [x \in cols |-> Cardinality({l \in cols : l < x})]
  OBVIOUS
<1>5. ASSUME NEW x \in cols
      PROVE  /\ rank[x] \in Columns(pat) /\ Same(sensitive, string, x, pat, rank[x])
             /\ rank[x] = 0 \/ \E y \in cols : y < x /\ rank[x] - 1 = rank[y]
  <2>1. \A y \in cols : rank[y] = Cardinality({l \in cols : l < y})
    BY <1>4
  <2>2. rank[x] \in 0 .. Len(pat) - 1
    <3>1. Cardinality({l \in cols : l < x}) \in 0 .. Cardinality(cols) - 1
      BY <1>3, Ranks
    <3> QED
      BY <1>2, <2>1, <3>1
  <2>3. \/ rank[x] = 0
        \/ \E y \in cols : y < x /\ rank[x] - 1 = Cardinality({l \in cols : l < y})
    <3>1. \/ Cardinality({l \in cols : l < x}) = 0
          \/ \E y \in cols : /\ y < x
                             /\ Cardinality({l \in cols : l < x}) - 1 = Cardinality({l \in cols : l < y})
      BY <1>3, Ranks
    <3> QED
      BY <2>1, <3>1
  <2> QED
    BY <1>2, <2>1, <2>2, <2>3 DEF Columns
<1> DEFINE B == {x \in cols : w[rank[x]] > x}
<1>6. ASSUME B # {} PROVE FALSE
  <2>1. B \in SUBSET Nat
    BY <1>3
  <2>2. PICK x \in B : \A y \in B : x <= y
    BY <1>6, <2>1, Least
  <2>3. x \in cols /\ x \in Columns(string) /\ x \in Nat /\ x < Len(string) /\ w[rank[x]] > x /\ from <= x
    BY <1>2 DEF Columns
  <2>4. /\ rank[x] \in Columns(pat) /\ Same(sensitive, string, x, pat, rank[x])
        /\ rank[x] \in Nat
    BY <1>5, <2>3 DEF Columns
  <2>5. PICK r : r = rank[x]
    OBVIOUS
  <2>6. PICK start : start = IF r = 0 THEN from ELSE w[r - 1] + 1
    OBVIOUS
  <2>7. w[r] = TrySkip(sensitive, string, pat, r, start) /\ w[r] \in 0 .. Len(string)
    BY <1>1, <2>4, <2>5, <2>6, WalkIs
  <2>8. start \in Nat /\ start <= x
    <3>1. CASE r = 0
      BY <2>3, <2>6, <3>1
    <3>2. CASE r # 0
      <4>1. PICK y \in cols : y < x /\ r - 1 = rank[y]
        BY <1>5, <2>3, <2>5, <3>2
      <4>2. y \in Nat /\ ~(x <= y)
        BY <1>3, <2>3, <4>1
      <4>3. y \notin B
        BY <2>2, <4>2
      <4>4. ~(w[rank[y]] > y)
        BY <4>3
      <4>5. w[rank[y]] \in 0 .. Len(string)
        BY <1>1, <1>5, WalkIs
      <4>6. w[r - 1] \in Nat /\ w[r - 1] <= y
        BY <4>1, <4>2, <4>4, <4>5
      <4> QED
        BY <2>3, <2>6, <3>2, <4>1, <4>2, <4>6
    <3> QED
      BY <3>1, <3>2
  <2>9. x \in start .. Len(string) - 1
    BY <2>3, <2>8
  <2>10. TrySkip(sensitive, string, pat, r, start) <= x
    BY <2>4, <2>5, <2>8, <2>9, SkipIs
  <2> QED
    BY <2>3, <2>5, <2>7, <2>10
<1>7. w[rank[k]] \in 0 .. Len(string) /\ k \in Nat
  BY <1>1, <1>3, <1>5, WalkIs
<1>8. ~(w[rank[k]] > k)
  BY <1>6
<1> HIDE DEF B
<1>9. w[rank[k]] <= k
  BY <1>7, <1>8
<1> QED
  BY <1>1, <1>4, <1>9

\* So the walk ends at or before the last column of every occurrence.
LEMMA WalkEndsFirst ==
  ASSUME NEW sensitive, NEW string, Len(string) \in Nat, NEW pat, Len(pat) \in Nat \ {0}, NEW from \in Nat,
         NEW cols \in Occurrences(sensitive, string, pat), NEW last \in cols,
         \A k \in cols : from <= k /\ k <= last
  PROVE  /\ FirstColumns(sensitive, string, pat, from)[Len(pat) - 1] <= last
         /\ FirstColumns(sensitive, string, pat, from)[Len(pat) - 1] \in 0 .. Len(string)
         /\ last < Len(string) /\ last \in Nat
<1>1. cols \in SUBSET Columns(string) /\ Cardinality(cols) = Len(pat)
  BY DEF Occurrences
<1>2. cols \in SUBSET Nat /\ IsFiniteSet(cols)
  BY <1>1, ColumnsFinite
<1>3. Cardinality({l \in cols : l < last}) = Len(pat) - 1
  BY <1>1, <1>2, Ranks
<1>4. FirstColumns(sensitive, string, pat, from)[Cardinality({l \in cols : l < last})] <= last
  BY WalkLeast
<1>5. last < Len(string) /\ last \in Nat
  BY <1>1 DEF Columns
<1>6. Len(pat) - 1 \in Columns(pat)
  BY DEF Columns
<1>7. FirstColumns(sensitive, string, pat, from)[Len(pat) - 1] \in 0 .. Len(string)
  BY <1>6, WalkIs
<1> QED
  BY <1>3, <1>4, <1>5, <1>7

\* The walk from the left finds the pattern exactly if it occurs.
LEMMA NotFoundIs ==
  ASSUME NEW sensitive, NEW string, Len(string) \in Nat, NEW pat, Len(pat) \in Nat \ {0},
         NEW w, w = FirstColumns(sensitive, string, pat, 0)
  PROVE  /\ Occurrences(sensitive, string, pat) = {} <=> w[Len(pat) - 1] = Len(string)
         /\ w[Len(pat) - 1] \in 0 .. Len(string)
<1>1. Len(pat) - 1 \in Columns(pat)
  BY DEF Columns
<1>2. w[Len(pat) - 1] \in 0 .. Len(string)
  BY <1>1, WalkIs
<1>3. ASSUME w[Len(pat) - 1] # Len(string) PROVE Occurrences(sensitive, string, pat) # {}
  <2>1. w[Len(pat) - 1] < Len(string)
    BY <1>2, <1>3
  <2>2. Range(w) \in Occurrences(sensitive, string, pat)
    BY <2>1, WalkSpells
  <2> QED
    BY <2>2
<1>4. ASSUME NEW cols \in Occurrences(sensitive, string, pat) PROVE w[Len(pat) - 1] # Len(string)
  <2>1. cols \in SUBSET Columns(string) /\ cols # {}
    BY OccurrenceIs DEF Spelling
  <2>2. Max(cols) \in cols /\ (\A k \in cols : k <= Max(cols)) /\ cols \in SUBSET Nat
    BY <2>1, Ends, ColumnsFinite
  <2>3. \A k \in cols : 0 <= k /\ k <= Max(cols)
    BY <2>2
  <2>4. w[Len(pat) - 1] <= Max(cols) /\ Max(cols) < Len(string) /\ Max(cols) \in Nat
    BY <2>2, <2>3, WalkEndsFirst
  <2> QED
    BY <1>2, <2>4
<1> QED
  BY <1>2, <1>3, <1>4

-----------------------------------------------------------------------------
\* The score of a cell

\* The score up to each column in a table
TableScore(string, cols) == ScoreUpTo(string, cols, TRUE)

\* The score up to a column in a table from that up to the one before
LEMMA TableScoreIs ==
  ASSUME NEW string, Len(string) \in Nat, NEW cols \in SUBSET Columns(string), cols # {}
  PROVE  \A k \in Columns(string) :
           /\ TableScore(string, cols)[k] \in Nat
           /\ k < Min(cols) => TableScore(string, cols)[k] = 0
           /\ k = Min(cols) => TableScore(string, cols)[k] = MaxOf(Points(string, cols, k), 0)
           /\ k > Min(cols) =>
                TableScore(string, cols)[k] = MaxOf(Points(string, cols, k) + TableScore(string, cols)[k - 1], 0)
<1>1. PICK yes \in BOOLEAN : yes = TRUE
  OBVIOUS
<1>2. PICK total : total = ScoreUpTo(string, cols, yes)
  OBVIOUS
<1>3. TableScore(string, cols) = total
  BY <1>1, <1>2 DEF TableScore
<1>4. PICK m \in Nat : m = Min(cols)
  BY Ends
<1>5. ASSUME NEW k \in Columns(string)
      PROVE  /\ total[k] \in Int /\ total[k] >= 0
             /\ k < m => total[k] = 0
             /\ k >= m => total[k] = MaxOf(Points(string, cols, k) + (IF k = m THEN 0 ELSE total[k - 1]), 0)
  BY <1>1, <1>2, <1>4, ScoreIs
<1>6. ASSUME NEW k \in Columns(string)
      PROVE  /\ total[k] \in Nat
             /\ k < m => total[k] = 0
             /\ k = m => total[k] = MaxOf(Points(string, cols, k), 0)
             /\ k > m => total[k] = MaxOf(Points(string, cols, k) + total[k - 1], 0)
  <2>1. k \in Int /\ Points(string, cols, k) \in Int
    BY PointsAre DEF Columns
  <2>2. k = m => total[k] = MaxOf(Points(string, cols, k) + 0, 0)
    BY <1>5, <2>1
  <2>3. Points(string, cols, k) + 0 = Points(string, cols, k)
    BY <2>1
  <2>4. k > m => total[k] = MaxOf(Points(string, cols, k) + total[k - 1], 0)
    BY <1>5, <2>1
  <2> QED
    BY <1>5, <2>2, <2>3, <2>4
<1> QED
  BY <1>3, <1>4, <1>6

\* Some columns up to this one spell the pattern up to the row and have the score of
\* the cell; run leads to the column whose bonus is carried.
Scored(sensitive, string, pat, i, col, score, run) ==
  \E cols :
    /\ cols \subseteq 0 .. col
    /\ Spelling(sensitive, string, pat, cols, i + 1)
    /\ score = TableScore(string, cols)[col]
    /\ run > 0 <=> col \in cols
    /\ run > 0 => CarriedBonus(string, cols)[col] = BonusAt(string, col - run + 1)

\* A column is added behind the others.
Behind(cols, col, more) == more = cols \cup {col} /\ \A l \in cols : l < col

\* It leaves what was scored before it.
LEMMA SameBefore ==
  ASSUME NEW string, Len(string) \in Nat, NEW cols \in SUBSET Columns(string), cols # {},
         NEW col \in Columns(string), NEW more, Behind(cols, col, more)
  PROVE  /\ more \in SUBSET Columns(string) /\ Min(more) = Min(cols) /\ Max(more) = col
         /\ Min(more) < col
         /\ \A k \in 0 .. col : CarriedBonus(string, more)[k] = CarriedBonus(string, cols)[k]
         /\ \A k \in 0 .. col - 1 : TableScore(string, more)[k] = TableScore(string, cols)[k]
<1>0. more = cols \cup {col} /\ \A l \in cols : l < col
  BY DEF Behind
<1>1. more \in SUBSET Columns(string) /\ more # {}
  BY <1>0
<1>2. /\ col \in Nat /\ \A k \in 0 .. col : k \in Columns(string) /\ k \in Int
      /\ cols \in SUBSET Nat
  BY DEF Columns
<1>3. Min(more) = Min(cols) /\ Max(more) = col /\ Min(more) < col /\ Min(cols) \in Nat
  <2>1. /\ Min(more) \in more /\ \A k \in more : Min(more) <= k
        /\ Max(more) \in more /\ \A k \in more : k <= Max(more)
        /\ Min(more) \in Nat /\ Max(more) \in Nat
    BY <1>1, Ends
  <2>2. Min(cols) \in cols /\ (\A k \in cols : Min(cols) <= k) /\ Min(cols) \in Nat
    BY Ends
  <2>3. Max(more) = col
    <3>1. col \in more /\ \A k \in more : k = col \/ k < col
      BY <1>0
    <3>2. col <= Max(more) /\ (Max(more) = col \/ Max(more) < col)
      BY <2>1, <3>1
    <3> QED
      BY <1>2, <2>1, <3>2
  <2>4. Min(more) <= Min(cols) /\ Min(cols) < col
    BY <1>0, <2>1, <2>2
  <2>5. Min(more) \in cols
    <3>1. Min(more) # col
      BY <1>2, <2>1, <2>2, <2>4
    <3> QED
      BY <1>0, <2>1, <3>1
  <2>6. Min(cols) <= Min(more)
    BY <2>2, <2>5
  <2> QED
    BY <1>2, <2>1, <2>2, <2>3, <2>4, <2>6
<1>4. \A k \in 0 .. col : k - 1 \in more <=> k - 1 \in cols
  <2>1. \A k \in 0 .. col : k - 1 # col
    BY <1>2
  <2> QED
    BY <1>0, <2>1
<1>5. \A k \in 0 .. col : CarriedBonus(string, more)[k] = CarriedBonus(string, cols)[k]
  <2>1. PICK a, b : a = CarriedBonus(string, more) /\ b = CarriedBonus(string, cols)
    OBVIOUS
  <2>2. \A k \in 0 .. col :
          /\ a[k] = IF k - 1 \in cols /\ BonusAt(string, k) # BonusBoundary THEN a[k - 1] ELSE BonusAt(string, k)
          /\ b[k] = IF k - 1 \in cols /\ BonusAt(string, k) # BonusBoundary THEN b[k - 1] ELSE BonusAt(string, k)
    <3> SUFFICES ASSUME NEW k \in 0 .. col
                 PROVE  /\ a[k] = IF k - 1 \in cols /\ BonusAt(string, k) # BonusBoundary
                                  THEN a[k - 1] ELSE BonusAt(string, k)
                        /\ b[k] = IF k - 1 \in cols /\ BonusAt(string, k) # BonusBoundary
                                  THEN b[k - 1] ELSE BonusAt(string, k)
      OBVIOUS
    <3>1. k \in Columns(string)
      BY <1>2
    <3>2. a[k] = IF k - 1 \in more /\ BonusAt(string, k) # BonusBoundary THEN a[k - 1] ELSE BonusAt(string, k)
      BY <1>1, <2>1, <3>1, CarriedIs
    <3>3. b[k] = IF k - 1 \in cols /\ BonusAt(string, k) # BonusBoundary THEN b[k - 1] ELSE BonusAt(string, k)
      BY <2>1, <3>1, CarriedIs
    <3> QED
      BY <1>4, <3>2, <3>3
  <2> DEFINE T == {k \in Int : a[k] = b[k]}
  <2>3. 0 \in T
    <3>1. 0 \in 0 .. col /\ 0 - 1 \notin cols
      BY <1>2
    <3>2. a[0] = BonusAt(string, 0) /\ b[0] = BonusAt(string, 0)
      BY <2>2, <3>1
    <3> QED
      BY <3>2
  <2>4. ASSUME NEW k \in 0 .. col - 1, k \in T PROVE k + 1 \in T
    <3>1. PICK l \in Int : l = k + 1
      OBVIOUS
    <3>2. l \in 0 .. col /\ l - 1 = k
      BY <1>2, <3>1
    <3>3. a[k] = b[k]
      BY <2>4
    <3>4. a[l] = b[l]
      BY <2>2, <3>2, <3>3
    <3> QED
      BY <3>1, <3>4
  <2>5. \A k \in 0 .. col - 1 : k \in T => k + 1 \in T
    BY <2>4
  <2> HIDE DEF T
  <2>6. 0 \in Int /\ col \in Int
    BY <1>2
  <2>7. \A k \in 0 .. col : k \in T
    BY <2>3, <2>5, <2>6, Climb
  <2> QED
    BY <2>1, <2>7 DEF T
<1>6. \A k \in 0 .. col - 1 : Points(string, more, k) = Points(string, cols, k)
  <2> SUFFICES ASSUME NEW k \in 0 .. col - 1 PROVE Points(string, more, k) = Points(string, cols, k)
    OBVIOUS
  <2>1. k \in 0 .. col /\ k # col
    BY <1>2
  <2>2. /\ CarriedBonus(string, more)[k] = CarriedBonus(string, cols)[k]
        /\ k - 1 \in more <=> k - 1 \in cols
        /\ k \in more <=> k \in cols
    BY <1>0, <1>4, <1>5, <2>1
  <2>3. Min(more) = Min(cols)
    BY <1>3
  <2> QED
    BY <2>2, <2>3 DEF Points
<1>7. \A k \in 0 .. col - 1 : TableScore(string, more)[k] = TableScore(string, cols)[k]
  <2>1. PICK m \in Nat : m = Min(cols)
    BY <1>3
  <2> PICK a, b : a = TableScore(string, more) /\ b = TableScore(string, cols)
    OBVIOUS
  <2>2. \A k \in 0 .. col - 1 :
          /\ k <= m => a[k] = b[k]
          /\ k > m => /\ a[k] = MaxOf(Points(string, cols, k) + a[k - 1], 0)
                      /\ b[k] = MaxOf(Points(string, cols, k) + b[k - 1], 0)
    <3> SUFFICES ASSUME NEW k \in 0 .. col - 1
                 PROVE  /\ k <= m => a[k] = b[k]
                        /\ k > m => /\ a[k] = MaxOf(Points(string, cols, k) + a[k - 1], 0)
                                    /\ b[k] = MaxOf(Points(string, cols, k) + b[k - 1], 0)
      OBVIOUS
    <3>1. k \in Columns(string)
      BY <1>2
    <3>2. /\ k < m => a[k] = 0
          /\ k = m => a[k] = MaxOf(Points(string, more, k), 0)
          /\ k > m => a[k] = MaxOf(Points(string, more, k) + a[k - 1], 0)
      BY <1>1, <1>3, <2>1, <3>1, TableScoreIs
    <3>3. /\ k < m => b[k] = 0
          /\ k = m => b[k] = MaxOf(Points(string, cols, k), 0)
          /\ k > m => b[k] = MaxOf(Points(string, cols, k) + b[k - 1], 0)
      BY <2>1, <3>1, TableScoreIs
    <3>4. Points(string, more, k) = Points(string, cols, k)
      BY <1>6
    <3>5. k <= m => k < m \/ k = m
      OBVIOUS
    <3> QED
      BY <3>2, <3>3, <3>4, <3>5
  <2> DEFINE T == {k \in Int : a[k] = b[k]}
  <2>3. 0 \in T
    <3>1. 0 \in 0 .. col - 1
      BY <1>2, <1>3
    <3>2. PICK z \in Int : z = 0
      OBVIOUS
    <3>3. z \in 0 .. col - 1 /\ z <= m
      BY <3>1, <3>2
    <3>4. a[z] = b[z]
      BY <2>2, <3>3
    <3> QED
      BY <3>2, <3>4
  <2>4. \A k \in 0 .. (col - 1) - 1 : k \in T => k + 1 \in T
    <3> SUFFICES ASSUME NEW k \in 0 .. (col - 1) - 1, k \in T PROVE k + 1 \in T
      OBVIOUS
    <3>1. PICK l \in Int : l = k + 1
      OBVIOUS
    <3>2. l \in 0 .. col - 1 /\ l - 1 = k /\ (l <= m \/ l > m)
      BY <1>2, <3>1
    <3>3. a[k] = b[k]
      OBVIOUS
    <3>4. a[l] = b[l]
      BY <2>2, <3>2, <3>3
    <3> QED
      BY <3>1, <3>4
  <2> HIDE DEF T
  <2>6. 0 \in Int /\ col - 1 \in Int
    BY <1>2
  <2>7. \A k \in 0 .. col - 1 : k \in T
    BY <2>3, <2>4, <2>6, Climb
  <2> QED
    BY <2>1, <2>7 DEF T
<1> QED
  BY <1>1, <1>3, <1>5, <1>7

\* The first character alone
LEMMA SingleSpells ==
  ASSUME NEW sensitive, NEW string, Len(string) \in Nat, NEW pat,
         NEW k \in Columns(string), Same(sensitive, string, k, pat, 0)
  PROVE  Spelling(sensitive, string, pat, {k}, 1)
<1>1. PICK cols : cols = {k}
  OBVIOUS
<1>2. cols \in SUBSET Columns(string) /\ k \in Nat
  BY <1>1 DEF Columns
<1>3. Cardinality(cols) = 1 /\ Cardinality({}) = 0
  BY <1>1, FS_Singleton, FS_EmptySet
<1>4. {l \in cols : l < k} = {}
  BY <1>1, <1>2
<1> QED
  BY <1>1, <1>2, <1>3, <1>4 DEF Spelling

\* and its score
LEMMA ScoredFirst ==
  ASSUME NEW sensitive, NEW string, Len(string) \in Nat, NEW pat,
         NEW k \in Columns(string), Same(sensitive, string, k, pat, 0)
  PROVE  Scored(sensitive, string, pat, 0, k, ScoreMatch + BonusAt(string, k) * BonusFirstCharMultiplier, 1)
<1>1. PICK cols : cols = {k}
  OBVIOUS
<1>2. cols \in SUBSET Columns(string) /\ cols # {} /\ k \in Nat /\ k \in cols /\ k - 1 \notin cols
  BY <1>1 DEF Columns
<1>3. Min(cols) = k
  <2>1. Min(cols) \in cols
    BY <1>2, Ends
  <2> QED
    BY <1>1, <2>1
<1>4. Spelling(sensitive, string, pat, cols, 1)
  BY <1>1, SingleSpells
<1>5. BonusAt(string, k) \in 0 .. 8
  BY BonusSmall
<1>6. Points(string, cols, k) = ScoreMatch + BonusAt(string, k) * BonusFirstCharMultiplier
  BY <1>2, <1>3 DEF Points
<1>7. TableScore(string, cols)[k] = ScoreMatch + BonusAt(string, k) * BonusFirstCharMultiplier
  <2>1. TableScore(string, cols)[k] = MaxOf(Points(string, cols, k), 0)
    BY <1>2, <1>3, TableScoreIs
  <2>2. Points(string, cols, k) \in Nat
    BY <1>5, <1>6 DEF ScoreMatch, BonusFirstCharMultiplier
  <2>3. MaxOf(Points(string, cols, k), 0) = Points(string, cols, k)
    BY <2>2 DEF MaxOf
  <2> QED
    BY <1>6, <2>1, <2>3
<1>8. CarriedBonus(string, cols)[k] = BonusAt(string, k)
  BY <1>2, CarriedIs
<1>9. k - 1 + 1 = k /\ cols \subseteq 0 .. k /\ 0 + 1 = 1 /\ 1 > 0
  BY <1>1, <1>2
<1>10. PICK score : score = ScoreMatch + BonusAt(string, k) * BonusFirstCharMultiplier
  OBVIOUS
<1>11. /\ cols \subseteq 0 .. k
       /\ Spelling(sensitive, string, pat, cols, 0 + 1)
       /\ score = TableScore(string, cols)[k]
       /\ 1 > 0 <=> k \in cols
       /\ 1 > 0 => CarriedBonus(string, cols)[k] = BonusAt(string, k - 1 + 1)
  BY <1>2, <1>4, <1>7, <1>8, <1>9, <1>10
<1> QED
  BY <1>10, <1>11 DEF Scored

\* A column without a character
LEMMA ScoredGap ==
  ASSUME NEW sensitive, NEW string, Len(string) \in Nat, NEW pat, NEW i \in Nat,
         NEW col \in Nat, NEW after \in Columns(string), after = col + 1, NEW score, NEW run \in Nat,
         Scored(sensitive, string, pat, i, col, score, run)
  PROVE  /\ score \in Nat
         /\ Scored(sensitive, string, pat, i, after,
                   MaxOf(score + (IF run = 0 THEN ScoreGapExtention ELSE ScoreGapStart), 0), 0)
<1>1. PICK cols : /\ cols \subseteq 0 .. col
                  /\ Spelling(sensitive, string, pat, cols, i + 1)
                  /\ score = TableScore(string, cols)[col]
                  /\ run > 0 <=> col \in cols
  BY DEF Scored
<1>2. cols \in SUBSET Columns(string) /\ cols # {}
  <2>1. Cardinality({}) = 0
    BY FS_EmptySet
  <2>2. cols \in SUBSET Columns(string) /\ Cardinality(cols) = i + 1 /\ i + 1 # 0
    BY <1>1 DEF Spelling
  <2> QED
    BY <2>1, <2>2
<1>3. after \notin cols /\ after \in Nat /\ after - 1 = col /\ col \in Columns(string)
  BY <1>1 DEF Columns
<1>4. Min(cols) \in cols /\ Min(cols) \in Nat
  BY <1>2, Ends
<1>5. Min(cols) < after
  BY <1>1, <1>4
<1>7. score \in Nat
  <2>1. TableScore(string, cols)[col] \in Nat
    BY <1>2, <1>3, TableScoreIs
  <2> QED
    BY <1>1, <2>1
<1>8. Points(string, cols, after) = IF run = 0 THEN ScoreGapExtention ELSE ScoreGapStart
  BY <1>1, <1>2, <1>3, PointsAre DEF ScoreGapExtention, ScoreGapStart
<1>9. TableScore(string, cols)[after] = MaxOf(Points(string, cols, after) + score, 0)
  <2>1. after > Min(cols)
    BY <1>3, <1>4, <1>5
  <2>2. TableScore(string, cols)[after] =
          MaxOf(Points(string, cols, after) + TableScore(string, cols)[after - 1], 0)
    BY <1>2, <2>1, TableScoreIs
  <2> QED
    BY <1>1, <1>3, <2>2
<1>10. Points(string, cols, after) + score = score + (IF run = 0 THEN ScoreGapExtention ELSE ScoreGapStart)
  BY <1>7, <1>8 DEF ScoreGapExtention, ScoreGapStart
<1>11. cols \subseteq 0 .. after /\ ~(0 > 0)
  BY <1>1, <1>3
<1> QED
  BY <1>1, <1>3, <1>7, <1>9, <1>10, <1>11 DEF Scored

\* The next character, with the bonus that the run carries
LEMMA ScoredNext ==
  ASSUME NEW sensitive, NEW string, Len(string) \in Nat, NEW pat, NEW i \in Nat, NEW next, next = i + 1,
         NEW col \in Nat, NEW after \in Columns(string), after = col + 1, NEW score, NEW run \in Nat,
         Scored(sensitive, string, pat, i, col, score, run), Same(sensitive, string, after, pat, next),
         NEW b, b = BonusAt(string, after),
         NEW longer, longer = (IF b = BonusBoundary THEN 1 ELSE run + 1),
         NEW bonus, bonus = (IF longer > 1
                             THEN MaxOf(b, MaxOf(BonusConsecutive, BonusAt(string, after - longer + 1)))
                             ELSE b)
  PROVE  /\ score \in Nat
         /\ Scored(sensitive, string, pat, next, after, score + ScoreMatch + bonus, longer)
<1>1. PICK cols : /\ cols \subseteq 0 .. col
                  /\ Spelling(sensitive, string, pat, cols, i + 1)
                  /\ score = TableScore(string, cols)[col]
                  /\ run > 0 <=> col \in cols
                  /\ run > 0 => CarriedBonus(string, cols)[col] = BonusAt(string, col - run + 1)
  BY DEF Scored
<1>2. cols \in SUBSET Columns(string) /\ cols # {}
  <2>1. Cardinality({}) = 0
    BY FS_EmptySet
  <2>2. cols \in SUBSET Columns(string) /\ Cardinality(cols) = i + 1 /\ i + 1 # 0
    BY <1>1 DEF Spelling
  <2> QED
    BY <2>1, <2>2
<1>3. after \in Nat /\ after - 1 = col /\ col \in Columns(string) /\ \A l \in cols : l < after
  BY <1>1 DEF Columns
<1>4. PICK more : more = cols \cup {after}
  OBVIOUS
<1>5. /\ more \in SUBSET Columns(string) /\ more # {} /\ Min(more) < after /\ Min(more) \in Nat
      /\ \A k \in 0 .. after : CarriedBonus(string, more)[k] = CarriedBonus(string, cols)[k]
      /\ \A k \in 0 .. after - 1 : TableScore(string, more)[k] = TableScore(string, cols)[k]
  <2>1. /\ more \in SUBSET Columns(string) /\ Min(more) < after
        /\ \A k \in 0 .. after : CarriedBonus(string, more)[k] = CarriedBonus(string, cols)[k]
        /\ \A k \in 0 .. after - 1 : TableScore(string, more)[k] = TableScore(string, cols)[k]
    <3>1. Behind(cols, after, more)
      BY <1>3, <1>4 DEF Behind
    <3>2. more \in SUBSET Columns(string)
      BY <1>2, <3>1, SameBefore
    <3>3. Min(more) < after
      BY ZenonT(40), <1>2, <3>1, SameBefore
    <3>4. \A k \in 0 .. after : CarriedBonus(string, more)[k] = CarriedBonus(string, cols)[k]
      BY <1>2, <3>1, SameBefore
    <3>5. \A k \in 0 .. after - 1 : TableScore(string, more)[k] = TableScore(string, cols)[k]
      BY <1>2, <3>1, SameBefore
    <3> QED
      BY <3>2, <3>3, <3>4, <3>5
  <2>2. more # {}
    BY <1>4
  <2>3. Min(more) \in Nat
    BY <2>1, <2>2, Ends
  <2> QED
    BY <2>1, <2>2, <2>3
<1>6. Spelling(sensitive, string, pat, more, next + 1)
  <2>1. next \in Nat /\ Spelling(sensitive, string, pat, cols, next)
    BY <1>1
  <2> QED
    BY <1>3, <1>4, <2>1, SpellingMore
<1>8. score \in Nat
  <2>1. TableScore(string, cols)[col] \in Nat
    BY <1>2, <1>3, TableScoreIs
  <2> QED
    BY <1>1, <2>1
<1>9. /\ col \in more <=> run > 0
      /\ after \in more /\ col \in 0 .. after /\ after \in 0 .. after /\ col \in 0 .. after - 1
  BY <1>1, <1>3, <1>4
<1>10. b \in 0 .. 8
  BY BonusSmall
<1>11. CarriedBonus(string, more)[after] = BonusAt(string, after - longer + 1)
  <2>1. CarriedBonus(string, more)[after] =
          IF col \in more /\ b # BonusBoundary THEN CarriedBonus(string, more)[col] ELSE b
    <3>1. CarriedBonus(string, more)[after] =
            IF after - 1 \in more /\ BonusAt(string, after) # BonusBoundary
            THEN CarriedBonus(string, more)[after - 1] ELSE BonusAt(string, after)
      BY <1>5, CarriedIs
    <3> QED
      BY <1>3, <3>1
  <2>2. CASE run > 0 /\ b # BonusBoundary
    <3>1. CarriedBonus(string, more)[col] = BonusAt(string, col - run + 1)
      BY <1>1, <1>5, <1>9, <2>2
    <3>2. after - longer + 1 = col - run + 1
      BY <1>3, <2>2
    <3> QED
      BY <1>9, <2>1, <2>2, <3>1, <3>2
  <2>3. CASE ~(run > 0 /\ b # BonusBoundary)
    <3>1. longer = 1
      BY <2>3
    <3>2. after - longer + 1 = after
      BY <1>3, <3>1
    <3> QED
      BY <1>9, <2>1, <2>3, <3>2
  <2> QED
    BY <2>2, <2>3
<1>12. CarriedBonus(string, more)[after] \in 0 .. 8
  BY <1>5, CarriedIs
<1>13. Points(string, more, after) = ScoreMatch + bonus
  <2>1. PICK v : v = IF col \notin more THEN b
                     ELSE MaxOf(MaxOf(b, CarriedBonus(string, more)[after]), BonusConsecutive)
    OBVIOUS
  <2>2. Points(string, more, after) = ScoreMatch + v
    <3>1. after # Min(more)
      BY <1>3, <1>5
    <3> QED
      BY <1>3, <1>9, <2>1, <3>1 DEF Points
  <2>3. v = bonus
    <3>1. CASE run = 0
      BY <1>9, <2>1, <3>1
    <3>2. CASE run > 0 /\ b = BonusBoundary
      <4>1. CarriedBonus(string, more)[after] = b /\ bonus = b
        <5>1. longer = 1 /\ after - longer + 1 = after
          BY <1>3, <3>2
        <5> QED
          BY <1>11, <5>1
      <4>2. MaxOf(MaxOf(b, b), BonusConsecutive) = b
        BY <3>2 DEF MaxOf, BonusBoundary, BonusConsecutive
      <4> QED
        BY <1>9, <2>1, <3>2, <4>1, <4>2
    <3>3. CASE run > 0 /\ b # BonusBoundary
      <4>1. PICK e \in 0 .. 8 : e = CarriedBonus(string, more)[after]
        BY <1>12
      <4>2. v = MaxOf(MaxOf(b, e), BonusConsecutive)
        BY <1>9, <2>1, <3>3, <4>1
      <4>3. bonus = MaxOf(b, MaxOf(BonusConsecutive, e))
        BY <1>11, <3>3, <4>1
      <4> QED
        BY <1>10, <4>2, <4>3 DEF MaxOf, BonusConsecutive
    <3> QED
      BY <3>1, <3>2, <3>3
  <2> QED
    BY <2>2, <2>3
<1>14. Points(string, more, after) \in Nat
  BY <1>5, <1>9, PointsAre
<1>15. TableScore(string, more)[after] = Points(string, more, after) + score
  <2>1. after > Min(more)
    BY <1>3, <1>5
  <2>2. TableScore(string, more)[after] =
          MaxOf(Points(string, more, after) + TableScore(string, more)[after - 1], 0)
    BY ZenonT(40), <1>5, <2>1, TableScoreIs
  <2>3. TableScore(string, more)[after - 1] = score
    BY <1>1, <1>3, <1>5, <1>9
  <2>4. TableScore(string, more)[after] = MaxOf(Points(string, more, after) + score, 0)
    BY <2>2, <2>3
  <2> QED
    BY <1>8, <1>14, <2>4 DEF MaxOf
<1>16. Points(string, more, after) + score = score + ScoreMatch + bonus
  <2>1. bonus \in Int
    <3>1. BonusAt(string, after - longer + 1) \in 0 .. 8
      BY BonusSmall
    <3> QED
      BY <1>10, <3>1 DEF MaxOf, BonusConsecutive
  <2>2. PICK p \in Nat, e \in Int : p = Points(string, more, after) /\ e = bonus
    BY <1>14, <2>1
  <2>3. p = ScoreMatch + e
    BY <1>13, <2>2
  <2>4. p + score = score + ScoreMatch + e
    BY <1>8, <2>3 DEF ScoreMatch
  <2> QED
    BY <2>2, <2>4
<1>17. longer > 0 /\ more \subseteq 0 .. after
  <2>1. longer > 0
    OBVIOUS
  <2>2. \A k \in more : k \in 0 .. after
    BY <1>1, <1>3, <1>4
  <2> QED
    BY <2>1, <2>2
<1> QED
  BY <1>6, <1>8, <1>9, <1>11, <1>15, <1>16, <1>17 DEF Scored

-----------------------------------------------------------------------------
\* Answers that keep the promise

\* No match, of a pattern that does not occur
LEMMA NoMatchKeeps ==
  ASSUME NEW cap, NEW sensitive, NEW string, NEW pat, NEW wantPos,
         Occurrences(sensitive, string, pat) = {}
  PROVE  FuzzyPromise(cap, sensitive, string, pat, wantPos, NoMatch)
BY DEF FuzzyPromise

\* A promise is kept with an occurrence of the score that ends where the answer says.
LEMMA Keeps ==
  ASSUME NEW cap, NEW sensitive, NEW string, NEW pat, NEW wantPos,
         NEW last \in Int, NEW start \in 0 .. last, NEW score, NEW columns,
         NEW cols \in Occurrences(sensitive, string, pat), last \in cols,
         \A k \in cols : k \in Int /\ k <= last,
         score = FuzzyScoreAt(cap, string, pat, cols),
         IF wantPos
         THEN /\ columns \in Occurrences(sensitive, string, pat) /\ {start, last} \subseteq columns
              /\ \A k \in columns : k \in Int /\ start <= k /\ k <= last
         ELSE columns = {}
  PROVE  FuzzyPromise(cap, sensitive, string, pat, wantPos, Result(start, last + 1, score, columns))
<1>1. PICK answer : answer = Result(start, last + 1, score, columns)
  OBVIOUS
<1>2. PICK end \in Int : end = last + 1
  OBVIOUS
<1>3. answer.start = start /\ answer.end = end /\ answer.score = score /\ answer.pos = columns
  BY <1>1, <1>2 DEF Result
<1>4. end - 1 = last
  BY <1>2
<1> DEFINE EndsThere(s) == answer.end - 1 \in s /\ \A k \in s : k < answer.end
           found == {s \in Occurrences(sensitive, string, pat) : EndsThere(s)}
<1>5. cols \in found
  <2>1. \A k \in cols : k < end
    BY <1>2
  <2>2. \A k \in cols : k < answer.end
    BY <1>3, <2>1
  <2> QED
    BY <1>3, <1>4, <2>2
<1>6. wantPos => columns \in found
  <2>0. wantPos => \A k \in columns : k < end
    BY <1>2
  <2>1. wantPos => \A k \in columns : k < answer.end
    BY <1>3, <2>0
  <2>2. wantPos => answer.end - 1 \in columns
    BY <1>3, <1>4
  <2> QED
    BY <2>1, <2>2
<1>7. start \in 0 .. answer.end - 1
  BY <1>3, <1>4
<1>8. wantPos => start \in columns /\ \A k \in columns : k >= start
  OBVIOUS
<1>9. Occurrences(sensitive, string, pat) # {}
  OBVIOUS
<1> HIDE DEF found
<1>10. /\ \E s \in found : answer.score = FuzzyScoreAt(cap, string, pat, s)
       /\ answer.start \in 0 .. answer.end - 1
       /\ IF wantPos
          THEN answer.pos \in found /\ answer.start \in answer.pos
               /\ \A k \in answer.pos : k >= answer.start
          ELSE answer.pos = {}
  BY <1>3, <1>5, <1>6, <1>7, <1>8
<1>11. FuzzyPromise(cap, sensitive, string, pat, wantPos, answer)
  BY <1>9, <1>10 DEF FuzzyPromise, found
<1> QED
  BY <1>1, <1>11

\* The score of a cell of the last row, where a character ends
LEMMA CellKeeps ==
  ASSUME NEW cap, NEW sensitive, NEW string, Len(string) \in Nat, NEW pat, Len(pat) \in Nat \ {0},
         NEW wantPos, NEW last \in Columns(string), NEW start \in 0 .. last, NEW score, NEW columns,
         NEW run, run > 0, Scored(sensitive, string, pat, Len(pat) - 1, last, score, run),
         TablesFit(cap, string, pat),
         IF wantPos
         THEN /\ columns \in Occurrences(sensitive, string, pat) /\ {start, last} \subseteq columns
              /\ \A k \in columns : k \in Int /\ start <= k /\ k <= last
         ELSE columns = {}
  PROVE  FuzzyPromise(cap, sensitive, string, pat, wantPos, Result(start, last + 1, score, columns))
<1>1. PICK cols : /\ cols \subseteq 0 .. last
                  /\ Spelling(sensitive, string, pat, cols, Len(pat) - 1 + 1)
                  /\ score = TableScore(string, cols)[last]
                  /\ last \in cols
  BY DEF Scored
<1>2. last \in Nat /\ Len(pat) - 1 + 1 = Len(pat)
  BY DEF Columns
<1>3. cols \in Occurrences(sensitive, string, pat)
  BY <1>1, <1>2, OccurrenceIs
<1>4. cols \in SUBSET Columns(string) /\ cols # {}
  BY <1>1 DEF Spelling
<1>5. Max(cols) = last
  <2>1. Max(cols) \in cols /\ last <= Max(cols)
    BY <1>1, <1>4, Ends
  <2>2. Max(cols) \in 0 .. last
    BY <1>1, <2>1
  <2> QED
    BY <1>2, <2>1, <2>2
<1>6. score = FuzzyScoreAt(cap, string, pat, cols)
  BY <1>1, <1>5 DEF FuzzyScoreAt, TableScoreAt, TableScore
<1>7. last \in Int /\ \A k \in cols : k \in Int /\ k <= last
  BY <1>1, <1>2
<1> QED
  BY <1>1, <1>3, <1>6, <1>7, Keeps

\* The columns of v1 end where the pattern first can, and start at the last column
\* from which it gets there.
LEMMA FallBackKeeps ==
  ASSUME NEW cap, NEW sensitive, NEW string, Len(string) \in Nat, NEW pat, Len(pat) \in Nat \ {0},
         NEW wantPos, NEW from \in Columns(string), NEW end \in 1 .. Len(string),
         end = FirstColumns(sensitive, string, pat, 0)[Len(pat) - 1] + 1,
         FirstColumns(sensitive, string, pat, from)[Len(pat) - 1] < end,
         FirstColumns(sensitive, string, pat, from + 1)[Len(pat) - 1] >= end,
         NEW cols, cols = Range(FirstColumns(sensitive, string, pat, from)),
         ~TablesFit(cap, string, pat)
  PROVE  FuzzyPromise(cap, sensitive, string, pat, wantPos,
                      Result(from, end, ScoreAt(string, cols), IF wantPos THEN cols ELSE {}))
<1>1. PICK m \in Columns(pat) : m = Len(pat) - 1
  BY DEF Columns
<1>2. PICK w, w0, w1, next :
        /\ w = FirstColumns(sensitive, string, pat, from) /\ w0 = FirstColumns(sensitive, string, pat, 0)
        /\ next = from + 1 /\ w1 = FirstColumns(sensitive, string, pat, next)
  OBVIOUS
<1>3. from \in Nat /\ next \in Nat
  BY <1>2 DEF Columns
<1>4. w[m] \in 0 .. Len(string) /\ w0[m] \in 0 .. Len(string) /\ w1[m] \in 0 .. Len(string)
  BY <1>1, <1>2, <1>3, WalkIs
<1>5. end = w0[m] + 1 /\ w[m] < end /\ w1[m] >= end
  BY <1>1, <1>2
<1>6. /\ cols \in Occurrences(sensitive, string, pat)
      /\ w[m] \in cols
      /\ \A k \in cols : from <= k /\ k <= w[m]
  <2>1. w[Len(pat) - 1] < Len(string)
    BY <1>1, <1>4, <1>5
  <2>2. /\ Range(w) \in Occurrences(sensitive, string, pat) /\ w[Len(pat) - 1] \in Range(w)
        /\ \A k \in Range(w) : from <= k /\ k <= w[Len(pat) - 1]
    BY <1>2, <1>3, <2>1, WalkSpells
  <2> QED
    BY <1>1, <1>2, <2>2
<1>7. cols \in SUBSET Columns(string) /\ cols \in SUBSET Nat
  <2>1. cols \in SUBSET Columns(string)
    BY <1>6 DEF Occurrences
  <2> QED
    BY <2>1, ColumnsFinite
<1>8. w[m] = end - 1
  <2>1. \A k \in cols : 0 <= k /\ k <= w[m]
    BY <1>6, <1>7
  <2>2. w0[m] <= w[m]
    BY <1>1, <1>2, <1>6, <2>1, WalkEndsFirst
  <2> QED
    BY <1>4, <1>5, <2>2
<1>9. from \in cols
  <2> SUFFICES ASSUME from \notin cols PROVE FALSE
    OBVIOUS
  <2>1. \A k \in cols : next <= k /\ k <= w[m]
    <3> SUFFICES ASSUME NEW k \in cols PROVE next <= k /\ k <= w[m]
      OBVIOUS
    <3>1. k # from /\ from <= k /\ k <= w[m] /\ k \in Nat
      BY <1>6, <1>7
    <3> QED
      BY <1>2, <1>3, <3>1
  <2>2. w1[m] <= w[m]
    BY <1>1, <1>2, <1>3, <1>6, <2>1, WalkEndsFirst
  <2> QED
    BY <1>4, <1>5, <1>8, <2>2
<1>10. PICK last \in Int : last = w[m]
  BY <1>4
<1>11. /\ last \in cols /\ last \in Nat /\ last + 1 = end
       /\ \A k \in cols : k \in Int /\ from <= k /\ k <= last
  BY <1>4, <1>6, <1>7, <1>8, <1>10
<1>12. from \in 0 .. last
  BY <1>3, <1>9, <1>11
<1>13. PICK score, columns : score = ScoreAt(string, cols) /\ columns = IF wantPos THEN cols ELSE {}
  OBVIOUS
<1>14. score = FuzzyScoreAt(cap, string, pat, cols)
  BY <1>13 DEF FuzzyScoreAt
<1>15. IF wantPos
       THEN /\ columns \in Occurrences(sensitive, string, pat) /\ {from, last} \subseteq columns
            /\ \A k \in columns : k \in Int /\ from <= k /\ k <= last
       ELSE columns = {}
  BY <1>6, <1>9, <1>11, <1>13
<1>16. FuzzyPromise(cap, sensitive, string, pat, wantPos, Result(from, last + 1, score, columns))
  BY <1>6, <1>11, <1>12, <1>14, <1>15, Keeps
<1> QED
  BY <1>11, <1>13, <1>16

-----------------------------------------------------------------------------
\* What the tables hold

\* A cell holds the score of some columns that spell the pattern up to its row, and
\* consecutive leads to the column whose bonus the run carries.  A character that
\* ends in the column brings something; a gap costs something.
CellRight(i, col) ==
  /\ Scored(call.sensitive, text, pattern, i, col, h[<<i, col>>], c[<<i, col>>])
  /\ c[<<i, col>>] > 0 => h[<<i, col>>] > 0 /\ (i > 0 => h[<<i, col>>] > h[<<i - 1, col - 1>>])
  /\ c[<<i, col>>] = 0 => /\ col > At(f, i)
                          /\ h[<<i, col>>] = 0 \/ h[<<i, col>>] < h[<<i, col - 1>>]

RowRight(i, to) == \A col \in At(f, i) .. to : CellRight(i, col)

\* Where the walk from the left finds the characters of the pattern
firstColumns == FirstColumns(call.sensitive, text, pattern, 0)

\* The first pass finds the first columns,
FirstRight ==
  /\ firstColumns[M - 1] < N
  /\ \A p \in Columns(f) : At(f, p) = firstColumns[p]
  /\ pidx < M => at <= firstColumns[pidx]
  /\ IF bo = <<>> THEN at = MaxOf(firstColumns[0] - 1, 0)
     ELSE at < N => at - 1 \in DOMAIN bo /\ (in_gap <=> ~Matches(at - 1, 0))

\* and scores from the first one on.
BonusRight(col) ==
  /\ col >= firstColumns[0] - 1
  /\ col >= firstColumns[0] => /\ bo[col] = BonusAt(text, col)
                        /\ Scored(call.sensitive, text, pattern, 0, col, h[<<0, col>>], c[<<0, col>>])
  /\ c[<<0, col>>] > 0 <=> Matches(col, 0)

\* The best score of a pattern of one character
SingleRight ==
  IF pidx = 0 THEN max_score = 0
  ELSE /\ max_score_pos \in Columns(text) /\ Matches(max_score_pos, 0)
       /\ max_score = ScoreMatch + BonusAt(text, max_score_pos) * BonusFirstCharMultiplier

BonusesRight == \A col \in At(f, 0) .. last_idx : bo[col] = BonusAt(text, col)

\* The first cell of the last row with the best score
BestUpTo(to) ==
  /\ max_score_pos \in At(f, M - 1) .. to
  /\ h[<<M - 1, max_score_pos>>] = max_score /\ max_score > 0
  /\ \A col \in At(f, M - 1) .. to :
       /\ h[<<M - 1, col>>] <= max_score
       /\ col < max_score_pos => h[<<M - 1, col>>] < max_score

FillRight ==
  /\ \A i \in 0 .. pidx - 1 : RowRight(i, last_idx)
  /\ RowRight(pidx, at - 1)
  /\ at > At(f, pidx) => h[<<pidx, at - 1>>] = 0 \/ (in_gap <=> c[<<pidx, at - 1>>] = 0)
  /\ pidx = M - 1 /\ at > At(f, pidx) => BestUpTo(at - 1)

\* The walk back takes the best cell first.
TraceRight ==
  /\ call.wantPos
  /\ RowRight(M - 1, last_idx)
  /\ BestUpTo(last_idx)
  /\ IF pos = <<>> THEN pidx = M - 1 /\ at = max_score_pos /\ prefer_match
     ELSE At(pos, 0) = max_score_pos

PromiseInv ==
  /\ pc = "bonus" => FirstRight /\ (\A col \in DOMAIN bo : BonusRight(col)) /\ (M = 1 => SingleRight)
  /\ pc \in {"row", "fill", "trace"} => BonusesRight
  /\ pc = "row" => \A i \in 0 .. pidx - 1 : RowRight(i, last_idx)
  /\ pc = "fill" => FillRight
  /\ pc = "trace" => TraceRight
  /\ pc \in {"start", "bonus", "row", "fill"} => prefer_match
  /\ Promise

\* The sizes of the arguments, where the text and the pattern are named
LEMMA Arguments ==
  ASSUME call \in Calls
  PROVE  /\ Len(text) \in Nat /\ Len(pattern) \in Nat \ {0}
         /\ N = Len(text) /\ M = Len(pattern) /\ call.wantPos \in BOOLEAN
BY Sizes DEF N, M

\* While the arguments stay, so do the names for them.
LEMMA SameArguments ==
  ASSUME call' = call
  PROVE  /\ text' = text /\ pattern' = pattern /\ call.sensitive' = call.sensitive
         /\ call.cap' = call.cap /\ call.wantPos' = call.wantPos
         /\ firstColumns' = firstColumns /\ M' = M /\ N' = N
         /\ \A k, p : Matches(k, p)' = Matches(k, p)
BY DEF text, pattern, firstColumns, M, N, Matches

\* What the walk from the left finds, when it finds the pattern
LEMMA FirstFound ==
  ASSUME call \in Calls, firstColumns[M - 1] < N
  PROVE  \A p \in 0 .. M - 1 :
           /\ firstColumns[p] \in 0 .. N - 1
           /\ Matches(firstColumns[p], p)
           /\ p > 0 => firstColumns[p - 1] < firstColumns[p]
           /\ \A k \in 0 .. N - 1 :
                /\ Matches(k, p)
                /\ p > 0 => firstColumns[p - 1] < k
                => firstColumns[p] <= k
<1>1. Len(text) \in Nat /\ Len(pattern) \in Nat \ {0} /\ N = Len(text) /\ M = Len(pattern)
  BY Arguments
<1>2. PICK sensitive, string, pat, w :
        /\ sensitive = call.sensitive /\ string = text /\ pat = pattern
        /\ w = FirstColumns(sensitive, string, pat, 0)
  OBVIOUS
<1>3. /\ Len(string) \in Nat /\ Len(pat) \in Nat \ {0} /\ N = Len(string) /\ M = Len(pat)
      /\ w = firstColumns /\ w[Len(pat) - 1] < Len(string)
      /\ Columns(pat) = 0 .. M - 1
  BY <1>1, <1>2 DEF firstColumns, Columns
<1>4. PICK z \in Nat : z = 0
  OBVIOUS
<1>5. ASSUME NEW p \in 0 .. M - 1
      PROVE  /\ w[p] \in z .. Len(string) - 1 /\ Same(sensitive, string, w[p], pat, p)
             /\ p > 0 => w[p - 1] < w[p]
  BY <1>2, <1>3, <1>4, WalkFinds
<1>6. ASSUME NEW p \in 0 .. M - 1, NEW k \in 0 .. N - 1, Same(sensitive, string, k, pat, p),
             p > 0 => w[p - 1] < k
      PROVE  w[p] <= k
  <2>1. w[p] = TrySkip(sensitive, string, pat, p, IF p = 0 THEN z ELSE w[p - 1] + 1)
    <3>1. w = FirstColumns(sensitive, string, pat, z) /\ p \in Columns(pat)
      BY <1>2, <1>3, <1>4
    <3>2. Len(string) \in Nat /\ Len(pat) \in Nat
      BY <1>3
    <3>3. FirstColumns(sensitive, string, pat, z)[p] =
            TrySkip(sensitive, string, pat, p,
                    IF p = 0 THEN z ELSE FirstColumns(sensitive, string, pat, z)[p - 1] + 1)
      BY <3>1, <3>2, WalkIs
    <3> QED
      BY <3>1, <3>3
  <2>2. PICK s : s = IF p = 0 THEN z ELSE w[p - 1] + 1
    OBVIOUS
  <2>3. s \in Nat /\ s <= k
    <3>1. CASE p = 0
      BY <1>4, <2>2, <3>1
    <3>2. CASE p # 0
      <4>1. p > 0 /\ p - 1 \in 0 .. M - 1
        BY <1>3, <3>2
      <4>2. w[p - 1] \in z .. Len(string) - 1
        BY <1>5, <4>1
      <4> QED
        BY <1>4, <1>6, <2>2, <3>2, <4>1, <4>2
    <3> QED
      BY <3>1, <3>2
  <2>4. k \in s .. Len(string) - 1
    BY <1>3, <2>3
  <2>5. TrySkip(sensitive, string, pat, p, s) <= k
    BY <1>3, <1>6, <2>3, <2>4, SkipIs
  <2> QED
    BY <2>1, <2>2, <2>5
<1>7. \A k, p : Matches(k, p) <=> Same(sensitive, string, k, pat, p)
  BY <1>2 DEF Matches
<1> QED
  BY <1>3, <1>4, <1>5, <1>6, <1>7

\* A row stays right while the cells up to its end are not written again.
LEMMA RightFrame ==
  ASSUME NEW i \in Nat, NEW to \in Int, RowSound(i, to), RowRight(i, to), UNCHANGED <<call, f>>,
         \A k \in {i, i - 1}, l \in Int : l <= to /\ <<k, l>> \in DOMAIN h => h'[<<k, l>>] = h[<<k, l>>],
         \A l \in Int : l <= to /\ <<i, l>> \in DOMAIN c => c'[<<i, l>>] = c[<<i, l>>]
  PROVE  RowRight(i, to)'
<1> SUFFICES ASSUME NEW col \in At(f, i) .. to PROVE CellRight(i, col)'
  BY DEF RowRight, At
<1>1. CellSound(i, col) /\ CellRight(i, col)
  BY DEF RowSound, RowRight
<1>2. col \in Int /\ col <= to /\ col - 1 \in Int /\ col - 1 <= to
  OBVIOUS
<1>3. h'[<<i, col>>] = h[<<i, col>>] /\ c'[<<i, col>>] = c[<<i, col>>]
  BY <1>1, <1>2 DEF CellSound
<1>4. i > 0 => h'[<<i - 1, col - 1>>] = h[<<i - 1, col - 1>>]
  BY <1>1, <1>2 DEF CellSound
<1>5. col > At(f, i) => h'[<<i, col - 1>>] = h[<<i, col - 1>>]
  BY <1>1, <1>2 DEF CellSound
<1>6. text' = text /\ pattern' = pattern /\ call'.sensitive = call.sensitive /\ At(f', i) = At(f, i)
  BY SameArguments
<1>7. Scored(call'.sensitive, text', pattern', i, col, h'[<<i, col>>], c'[<<i, col>>])
  BY <1>1, <1>3, <1>6 DEF CellRight
<1> QED
  BY <1>1, <1>3, <1>4, <1>5, <1>6, <1>7 DEF CellRight

\* Before the call nothing is promised.
LEMMA InitRight == Init => PromiseInv
BY DEF Init, PromiseInv, Promise

\* A pattern that does not occur, and the answer of v1
LEMMA StartRight ==
  ASSUME IInv, PromiseInv, NotFound \/ FallBack \/ Start
  PROVE  PromiseInv'
<1>1. /\ Len(text) \in Nat /\ Len(pattern) \in Nat \ {0} /\ N = Len(text) /\ M = Len(pattern)
      /\ call.wantPos \in BOOLEAN
  BY Arguments DEF IInv, TypeOK
<1>2. PICK sensitive, string, pat, cap, w :
        /\ sensitive = call.sensitive /\ string = text /\ pat = pattern /\ cap = call.cap
        /\ w = FirstColumns(sensitive, string, pat, 0)
  OBVIOUS
<1>3. w = firstColumns /\ Len(string) \in Nat /\ Len(pat) \in Nat \ {0} /\ N = Len(string) /\ M = Len(pat)
  BY <1>1, <1>2 DEF firstColumns
<1>4. /\ Occurrences(sensitive, string, pat) = {} <=> w[M - 1] = N
      /\ w[M - 1] \in 0 .. N
      /\ AsciiFuzzyIndex(sensitive, string, pat) = IF w[M - 1] = N THEN -1 ELSE MaxOf(w[0] - 1, 0)
  <2>1. /\ Occurrences(sensitive, string, pat) = {} <=> w[Len(pat) - 1] = Len(string)
        /\ w[Len(pat) - 1] \in 0 .. Len(string)
        /\ AsciiFuzzyIndex(sensitive, string, pat) =
             IF w[Len(pat) - 1] = Len(string) THEN -1 ELSE MaxOf(w[0] - 1, 0)
    <3>1. w = FirstColumns(sensitive, string, pat, 0)
      BY <1>2
    <3>2. Len(string) \in Nat /\ Len(pat) \in Nat \ {0}
      BY <1>3
    <3>3. Occurrences(sensitive, string, pat) = {} <=> w[Len(pat) - 1] = Len(string)
      BY <3>1, <3>2, NotFoundIs
    <3>4. w[Len(pat) - 1] \in 0 .. Len(string)
      BY <3>1, <3>2, NotFoundIs
    <3>5. AsciiFuzzyIndex(sensitive, string, pat) =
            IF w[Len(pat) - 1] = Len(string) THEN -1 ELSE MaxOf(w[0] - 1, 0)
      BY <3>1 DEF AsciiFuzzyIndex
    <3> QED
      BY <3>3, <3>4, <3>5
  <2> QED
    BY <1>3, <2>1
<1>5. call' = call /\ prefer_match /\ prefer_match' = prefer_match /\ pc = "start"
  BY DEF NotFound, FallBack, Start, PromiseInv
<1>6. ASSUME pc' = "done",
             FuzzyPromise(cap, sensitive, string, pat, call.wantPos, result')
      PROVE  PromiseInv'
  <2>1. Promise'
    BY <1>2, <1>5, <1>6, SameArguments DEF Promise
  <2> QED
    BY <1>6, <2>1 DEF PromiseInv
<1>7. CASE NotFound
  <2>1. AsciiFuzzyIndex(sensitive, string, pat) < 0 /\ pc' = "done" /\ result' = NoMatch
    BY <1>2, <1>7 DEF NotFound, Answer
  <2>2. w[M - 1] = N
    <3> SUFFICES ASSUME w[M - 1] # N PROVE FALSE
      OBVIOUS
    <3>1. MaxOf(w[0] - 1, 0) < 0
      BY <1>4, <2>1
    <3>2. 0 \in Columns(pat)
      BY <1>3 DEF Columns
    <3>3. w[0] \in 0 .. Len(string)
      BY <1>2, <1>3, <3>2, WalkIs
    <3> QED
      BY <1>3, <3>1, <3>3 DEF MaxOf
  <2>3. FuzzyPromise(cap, sensitive, string, pat, call.wantPos, NoMatch)
    BY <1>4, <2>2, NoMatchKeeps
  <2> QED
    BY <1>6, <2>1, <2>3
<1>8. CASE FallBack
  <2>1. PICK from \in Columns(string), end \in 1 .. N :
          /\ ~TablesFit(cap, string, pat)
          /\ end = FirstColumns(sensitive, string, pat, 0)[M - 1] + 1
          /\ FirstColumns(sensitive, string, pat, from)[M - 1] < end
          /\ FirstColumns(sensitive, string, pat, from + 1)[M - 1] >= end
          /\ pc' = "done"
          /\ \E cols \in {Range(FirstColumns(sensitive, string, pat, from))} :
               result' = Result(from, end, ScoreAt(string, cols), IF call.wantPos THEN cols ELSE {})
    BY <1>2, <1>8 DEF FallBack, Answer, Fits
  <2>2. PICK wantPos, cols :
          /\ wantPos = call.wantPos /\ cols = Range(FirstColumns(sensitive, string, pat, from))
          /\ result' = Result(from, end, ScoreAt(string, cols), IF call.wantPos THEN cols ELSE {})
    BY <2>1
  <2>3. FuzzyPromise(cap, sensitive, string, pat, wantPos,
                     Result(from, end, ScoreAt(string, cols), IF wantPos THEN cols ELSE {}))
    <3>1. end \in 1 .. Len(string) /\ M = Len(pat)
      BY <1>3
    <3> QED
      BY <1>3, <2>1, <2>2, <3>1, FallBackKeeps
  <2> QED
    BY <1>6, <2>1, <2>2, <2>3
<1>9. CASE Start
  <2>1. /\ pc' = "bonus" /\ at' = AsciiFuzzyIndex(sensitive, string, pat) /\ at' \in Columns(string)
        /\ UNCHANGED <<pidx, f, bo, max_score>>
    BY <1>2, <1>9 DEF Start
  <2>2. f = <<>> /\ bo = <<>> /\ pidx = 0 /\ max_score = 0
    BY <1>5 DEF IInv
  <2>3. at' \in Nat
    BY <2>1 DEF Columns
  <2>4. w[M - 1] # N /\ at' = MaxOf(w[0] - 1, 0)
    BY <1>4, <2>1, <2>3
  <2>5. w[M - 1] < N
    BY <1>3, <1>4, <2>4
  <2>6. w[0] \in 0 .. N - 1
    <3>1. 0 \in 0 .. M - 1 /\ firstColumns[M - 1] < N
      BY <1>3, <2>5
    <3> QED
      BY <1>3, <3>1, FirstFound DEF IInv, TypeOK
  <2>7. at' <= w[0]
    BY <2>4, <2>6 DEF MaxOf
  <2>8. /\ firstColumns' = w /\ M' = M /\ N' = N /\ pidx' = 0 /\ bo' = <<>> /\ Columns(f') = {}
        /\ DOMAIN bo' = {} /\ max_score' = 0
    BY <1>3, <1>5, <2>1, <2>2, SameArguments, EmptySeq DEF Columns
  <2>9. FirstRight' /\ SingleRight'
    BY <2>4, <2>5, <2>7, <2>8 DEF FirstRight, SingleRight
  <2>10. Promise'
    BY <2>1 DEF Promise
  <2> QED
    BY <1>5, <2>1, <2>8, <2>9, <2>10 DEF PromiseInv
<1> QED
  BY <1>7, <1>8, <1>9

\* The first pass takes the bonus and the score of one more column.
LEMMA BonusCellRight ==
  ASSUME IInv, PromiseInv, BonusCell
  PROVE  PromiseInv'
<1> DEFINE prev == IF at - 1 \in DOMAIN bo THEN ClassOf(At(text, at - 1)) ELSE "NonWord"
           bonus == BonusFor(prev, ClassOf(At(text, at)))
           prev_h0 == IF at - 1 \in DOMAIN bo THEN h[<<0, at - 1>>] ELSE 0
           found == Matches(at, IF pidx < M THEN pidx ELSE M - 1)
           score == ScoreMatch + bonus * BonusFirstCharMultiplier
           best == M = 1 /\ Matches(at, 0) /\ score > max_score
           new == IF Matches(at, 0) THEN score
                  ELSE MaxOf(prev_h0 + (IF in_gap THEN ScoreGapExtention ELSE ScoreGapStart), 0)
<1>1. /\ pc = "bonus" /\ pc' = "bonus" /\ at < N /\ call' = call /\ prefer_match' = prefer_match
      /\ bo' = Put(bo, at, bonus)
      /\ f' = IF found /\ pidx < M THEN Append(f, at) ELSE f
      /\ pidx' = IF found /\ pidx < M THEN pidx + 1 ELSE pidx
      /\ h' = Put(h, <<0, at>>, new)
      /\ c' = Put(c, <<0, at>>, IF Matches(at, 0) THEN 1 ELSE 0)
      /\ in_gap' = ~Matches(at, 0)
      /\ max_score' = IF best THEN score ELSE max_score
      /\ max_score_pos' = IF best THEN at ELSE max_score_pos
      /\ at' = IF best /\ bonus = BonusBoundary THEN N ELSE at + 1
  BY DEF BonusCell
<1>2. TypeOK /\ BonusPass /\ FoundInOrder /\ at \in Nat /\ pidx \in Nat /\ f \in Seq(Nat) /\ max_score \in Nat
  BY <1>1 DEF IInv, TypeOK
<1>3. /\ FirstRight /\ (\A col \in DOMAIN bo : BonusRight(col)) /\ (M = 1 => SingleRight)
      /\ prefer_match
  BY <1>1 DEF PromiseInv
<1>4. /\ Len(text) \in Nat /\ N = Len(text) /\ M = Len(pattern) /\ M \in Nat \ {0}
      /\ Columns(text) = 0 .. N - 1
  BY <1>2, Arguments DEF TypeOK, Columns
<1>5. \A p \in 0 .. M - 1 :
        /\ firstColumns[p] \in 0 .. N - 1
        /\ Matches(firstColumns[p], p)
        /\ p > 0 => firstColumns[p - 1] < firstColumns[p]
        /\ \A k \in 0 .. N - 1 :
             /\ Matches(k, p)
             /\ p > 0 => firstColumns[p - 1] < k
             => firstColumns[p] <= k
  <2>1. call \in Calls /\ firstColumns[M - 1] < N
    BY <1>2, <1>3 DEF TypeOK, FirstRight
  <2> QED
    BY <2>1, FirstFound
<1>6. PICK start \in 0 .. N - 1 : start = firstColumns[0] /\ Matches(start, 0)
  <2>1. 0 \in 0 .. M - 1
    BY <1>4
  <2> QED
    BY <1>5, <2>1
<1>7. /\ \A col \in DOMAIN bo : col \in 0 .. at - 1
      /\ DOMAIN h = {0} \X DOMAIN bo /\ DOMAIN c = {0} \X DOMAIN bo
      /\ Len(f) = pidx /\ pidx <= M /\ (f # <<>> => last_idx < at)
      /\ \A col \in DOMAIN bo : c[<<0, col>>] \in {0, 1}
  BY <1>2 DEF BonusPass
<1>8. /\ at - 1 \in DOMAIN bo => at >= start /\ (in_gap <=> ~Matches(at - 1, 0))
      /\ at - 1 \notin DOMAIN bo => at = MaxOf(start - 1, 0)
      /\ at >= start - 1
  <2>1. CASE bo = <<>>
    <3>1. at = MaxOf(start - 1, 0) /\ DOMAIN bo = {}
      BY <1>3, <1>6, <2>1 DEF FirstRight
    <3> QED
      BY <1>6, <3>1 DEF MaxOf
  <2>2. CASE bo # <<>>
    <3>1. at - 1 \in DOMAIN bo /\ (in_gap <=> ~Matches(at - 1, 0))
      BY <1>1, <1>3, <2>2 DEF FirstRight
    <3>2. at - 1 >= start - 1
      BY <1>3, <1>6, <3>1 DEF BonusRight
    <3>3. at >= start /\ at >= start - 1
      BY <1>2, <1>6, <3>2
    <3> QED
      BY <3>1, <3>3
  <2> QED
    BY <2>1, <2>2
<1>9. at >= start => bonus = BonusAt(text, at)
  <2>1. ASSUME at - 1 \in DOMAIN bo PROVE bonus = BonusAt(text, at)
    <3>1. at # 0
      BY <1>2, <1>7, <2>1
    <3> QED
      BY <2>1, <3>1 DEF BonusAt
  <2>2. ASSUME at - 1 \notin DOMAIN bo, at >= start PROVE bonus = BonusAt(text, at)
    <3>1. at = 0
      BY <1>2, <1>6, <1>8, <2>2 DEF MaxOf
    <3>2. prev = "NonWord"
      BY <2>2
    <3> HIDE DEF prev
    <3> QED
      BY <3>1, <3>2 DEF BonusAt, BonusFor, BonusBoundary, BonusNonWord
  <2> QED
    BY <2>1, <2>2
<1> HIDE DEF bonus
<1>10. at >= start => Scored(call.sensitive, text, pattern, 0, at, new, IF Matches(at, 0) THEN 1 ELSE 0)
  <2> SUFFICES ASSUME at >= start
               PROVE  Scored(call.sensitive, text, pattern, 0, at, new, IF Matches(at, 0) THEN 1 ELSE 0)
    OBVIOUS
  <2>1. PICK sensitive, string, pat, k :
          /\ sensitive = call.sensitive /\ string = text /\ pat = pattern /\ k = at
          /\ k \in Columns(string)
    <3>1. at \in Columns(text)
      BY <1>1, <1>2, <1>4
    <3> QED
      BY <3>1
  <2>2. CASE Matches(at, 0)
    <3>1. Same(sensitive, string, k, pat, 0)
      BY <2>1, <2>2 DEF Matches
    <3>2. Len(string) \in Nat
      BY <1>4, <2>1
    <3>3. Scored(sensitive, string, pat, 0, k, ScoreMatch + BonusAt(string, k) * BonusFirstCharMultiplier, 1)
      BY <2>1, <3>1, <3>2, ScoredFirst
    <3>4. new = ScoreMatch + BonusAt(string, k) * BonusFirstCharMultiplier
      BY <1>9, <2>1, <2>2
    <3> QED
      BY <2>1, <2>2, <3>3, <3>4
  <2>3. CASE ~Matches(at, 0)
    <3>1. at > start
      BY <1>2, <1>6, <2>3
    <3>2. at - 1 \in DOMAIN bo
      BY <1>2, <1>6, <1>8, <3>1 DEF MaxOf
    <3>3. PICK col \in Nat, run \in {0, 1}, points \in {h[<<0, at - 1>>]} :
            col = at - 1 /\ run = c[<<0, at - 1>>] /\ points = h[<<0, at - 1>>]
      <4>1. at - 1 \in Nat
        BY <1>2, <1>6, <3>1
      <4>2. c[<<0, at - 1>>] \in {0, 1}
        BY <1>7, <3>2
      <4> QED
        BY <4>1, <4>2
    <3>4. col >= start /\ col \in DOMAIN bo /\ k = col + 1
      BY <1>2, <1>6, <2>1, <3>1, <3>2, <3>3
    <3>5. /\ Scored(sensitive, string, pat, 0, col, points, run)
          /\ run > 0 <=> Matches(col, 0)
      BY <1>3, <1>6, <2>1, <3>3, <3>4 DEF BonusRight
    <3>6. run = 0 <=> in_gap
      BY <1>8, <3>2, <3>3, <3>5
    <3>7. PICK z \in Nat : z = 0
      OBVIOUS
    <3>8. Scored(sensitive, string, pat, z, k,
                 MaxOf(points + (IF run = 0 THEN ScoreGapExtention ELSE ScoreGapStart), 0), 0)
      <4>1. Scored(sensitive, string, pat, z, col, points, run) /\ run \in Nat /\ Len(string) \in Nat
        BY <1>4, <2>1, <3>5, <3>7
      <4> QED
        BY <2>1, <3>4, <4>1, ScoredGap
    <3>9. new = MaxOf(points + (IF run = 0 THEN ScoreGapExtention ELSE ScoreGapStart), 0)
      <4>1. prev_h0 = points
        BY <3>2, <3>3
      <4> QED
        BY <2>3, <3>6, <4>1
    <3> QED
      BY <2>1, <2>3, <3>7, <3>8, <3>9
  <2> QED
    BY <2>2, <2>3
<1> HIDE DEF new
<1>11. /\ DOMAIN bo' = DOMAIN bo \cup {at} /\ bo'[at] = bonus
       /\ \A col \in DOMAIN bo : bo'[col] = bo[col]
       /\ h'[<<0, at>>] = new /\ \A col \in DOMAIN bo : h'[<<0, col>>] = h[<<0, col>>]
       /\ c'[<<0, at>>] = IF Matches(at, 0) THEN 1 ELSE 0
       /\ \A col \in DOMAIN bo : c'[<<0, col>>] = c[<<0, col>>]
  <2>1. \A col \in DOMAIN bo : col # at
    BY <1>2, <1>7
  <2>2. DOMAIN bo' = DOMAIN bo \cup {at} /\ bo'[at] = bonus /\ \A col \in DOMAIN bo : bo'[col] = bo[col]
    BY <1>1, <2>1 DEF Put
  <2>3. /\ \A col \in DOMAIN bo : /\ <<0, col>> \in DOMAIN h /\ <<0, col>> \in DOMAIN c
                                  /\ <<0, col>> # <<0, at>>
    BY <1>7, <2>1
  <2>4. h'[<<0, at>>] = new /\ \A col \in DOMAIN bo : h'[<<0, col>>] = h[<<0, col>>]
    BY <1>1, <2>3 DEF Put
  <2>5. /\ c'[<<0, at>>] = IF Matches(at, 0) THEN 1 ELSE 0
        /\ \A col \in DOMAIN bo : c'[<<0, col>>] = c[<<0, col>>]
    BY <1>1, <2>3 DEF Put
  <2> QED
    BY <2>2, <2>4, <2>5
<1>12. /\ text' = text /\ pattern' = pattern /\ call'.sensitive = call.sensitive
       /\ firstColumns' = firstColumns /\ M' = M /\ N' = N
       /\ \A k, p : Matches(k, p)' = Matches(k, p)
  BY <1>1, SameArguments
<1>13. ASSUME NEW col \in DOMAIN bo' PROVE BonusRight(col)'
  <2>1. CASE col = at
    <3>1. /\ col >= start - 1
          /\ col >= start => /\ bo'[col] = BonusAt(text, col)
                             /\ Scored(call.sensitive, text, pattern, 0, col, h'[<<0, col>>], c'[<<0, col>>])
      BY <1>8, <1>9, <1>10, <1>11, <2>1
    <3>2. c'[<<0, col>>] > 0 <=> Matches(col, 0)
      BY <1>11, <2>1
    <3> QED
      BY <1>6, <1>12, <3>1, <3>2 DEF BonusRight
  <2>2. CASE col # at
    <3>1. col \in DOMAIN bo
      BY <1>11, <2>2
    <3>2. BonusRight(col) /\ bo'[col] = bo[col] /\ h'[<<0, col>>] = h[<<0, col>>] /\ c'[<<0, col>>] = c[<<0, col>>]
      BY <1>3, <1>11, <3>1
    <3> QED
      BY <1>12, <3>2 DEF BonusRight
  <2> QED
    BY <2>1, <2>2
<1>14. ASSUME pidx < M, Matches(at, pidx) PROVE at = firstColumns[pidx]
  <2>1. pidx \in 0 .. M - 1 /\ at \in 0 .. N - 1
    BY <1>1, <1>2, <1>4, <1>14
  <2>2. at <= firstColumns[pidx] /\ firstColumns[pidx] \in 0 .. N - 1
    BY <1>3, <1>5, <1>14, <2>1 DEF FirstRight
  <2>3. ASSUME pidx > 0 PROVE firstColumns[pidx - 1] < at
    <3>1. pidx - 1 \in Columns(f) /\ f # <<>>
      BY <1>2, <1>7, <2>3, EmptySeq DEF Columns
    <3>2. At(f, pidx - 1) = firstColumns[pidx - 1] /\ At(f, pidx - 1) <= last_idx /\ last_idx < at
      BY <1>2, <1>3, <1>7, <3>1 DEF FirstRight, FoundInOrder
    <3>3. At(f, pidx - 1) \in Nat /\ last_idx \in Nat
      <4>1. pidx \in 1 .. Len(f)
        BY <1>2, <1>7, <2>3
      <4> QED
        BY <1>2, <4>1 DEF At, TypeOK
    <3> QED
      BY <1>2, <3>2, <3>3
  <2>4. firstColumns[pidx] <= at
    BY <1>5, <1>14, <2>1, <2>3
  <2> QED
    BY <1>2, <2>2, <2>4
<1>15. FirstRight'
  <2>1. firstColumns[M - 1] < N
    BY <1>3 DEF FirstRight
  <2>2. /\ pidx < M /\ found => at = firstColumns[pidx]
        /\ pidx < M /\ ~found => at < firstColumns[pidx]
    <3>1. ASSUME pidx < M, ~found PROVE at < firstColumns[pidx]
      <4>1. pidx \in 0 .. M - 1
        BY <1>2, <1>4, <3>1
      <4>2. at <= firstColumns[pidx] /\ firstColumns[pidx] \in 0 .. N - 1 /\ Matches(firstColumns[pidx], pidx)
        BY <1>3, <1>5, <3>1, <4>1 DEF FirstRight
      <4>3. at # firstColumns[pidx]
        BY <3>1, <4>2
      <4> QED
        BY <1>2, <4>2, <4>3
    <3> QED
      BY <1>14, <3>1
  <2>3. \A p \in Columns(f') : At(f', p) = firstColumns[p]
    <3>1. CASE found /\ pidx < M
      <4>1. f' = Append(f, at)
        BY <1>1, <3>1
      <4>2. /\ Len(f') = Len(f) + 1 /\ f'[Len(f) + 1] = at
            /\ \A p \in 1 .. Len(f) : f'[p] = f[p]
        BY <1>2, <4>1, AppendProperties
      <4> SUFFICES ASSUME NEW p \in Columns(f') PROVE At(f', p) = firstColumns[p]
        OBVIOUS
      <4>3. p \in 0 .. pidx
        BY <1>2, <1>7, <4>2 DEF Columns
      <4>4. CASE p = pidx
        BY <1>7, <2>2, <3>1, <4>2, <4>4 DEF At
      <4>5. CASE p # pidx
        <5>1. p \in Columns(f) /\ p + 1 \in 1 .. Len(f)
          BY <1>2, <1>7, <4>3, <4>5 DEF Columns
        <5>2. At(f, p) = firstColumns[p]
          BY <1>3, <5>1 DEF FirstRight
        <5> QED
          BY <4>2, <5>1, <5>2 DEF At
      <4> QED
        BY <4>4, <4>5
    <3>2. CASE ~(found /\ pidx < M)
      <4>1. f' = f
        BY <1>1, <3>2
      <4>2. \A p \in Columns(f) : At(f, p) = firstColumns[p]
        BY <1>3 DEF FirstRight
      <4> QED
        BY <4>1, <4>2
    <3> QED
      BY <3>1, <3>2
  <2>4. pidx' < M => at' = at + 1
    <3> SUFFICES ASSUME pidx' < M, best PROVE FALSE
      BY <1>1
    <3>1. M = 1 /\ Matches(at, 0)
      OBVIOUS
    <3>2. CASE pidx < M
      <4>1. pidx = 0
        BY <1>2, <3>1, <3>2
      <4>2. found
        BY <3>1, <3>2, <4>1
      <4> QED
        BY <1>1, <3>1, <4>1, <4>2
    <3>3. CASE ~(pidx < M)
      BY <1>1, <3>3
    <3> QED
      BY <3>2, <3>3
  <2>5. pidx' < M => at' <= firstColumns[pidx']
    <3> SUFFICES ASSUME pidx' < M PROVE at + 1 <= firstColumns[pidx']
      BY <2>4
    <3>1. CASE found /\ pidx < M
      <4>1. pidx' = pidx + 1 /\ at = firstColumns[pidx]
        BY <1>1, <2>2, <3>1
      <4>2. PICK p \in Nat : p = pidx'
        BY <1>2, <4>1
      <4>3. p \in 0 .. M - 1 /\ p > 0 /\ p - 1 = pidx
        BY <1>2, <1>4, <4>1, <4>2
      <4>4. firstColumns[p - 1] < firstColumns[p] /\ firstColumns[p] \in 0 .. N - 1
        BY <1>5, <4>3
      <4> QED
        BY <1>2, <4>1, <4>2, <4>3, <4>4
    <3>2. CASE ~(found /\ pidx < M)
      <4>1. pidx' = pidx /\ ~found /\ pidx < M
        BY <1>1, <3>2
      <4>2. at < firstColumns[pidx]
        BY <2>2, <4>1
      <4>3. firstColumns[pidx] \in 0 .. N - 1
        BY <1>2, <1>4, <1>5, <4>1
      <4> QED
        BY <1>2, <4>1, <4>2, <4>3
    <3> QED
      BY <3>1, <3>2
  <2>6. bo' # <<>>
    <3>1. at \in DOMAIN bo' /\ DOMAIN <<>> = {}
      BY <1>11
    <3> QED
      BY <3>1
  <2>7. at' < N => at' - 1 = at
    BY <1>1, <1>2, <1>4
  <2>8. at' < N => at' - 1 \in DOMAIN bo' /\ (in_gap' <=> ~Matches(at' - 1, 0))
    BY <1>1, <1>11, <2>7
  <2> HIDE DEF found, best
  <2> QED
    BY <1>12, <2>1, <2>3, <2>5, <2>6, <2>8 DEF FirstRight
<1>16. ASSUME M = 1 PROVE SingleRight'
  <2>1. SingleRight
    BY <1>3, <1>16
  <2>2. CASE Matches(at, 0)
    <3>1. at >= start
      <4>1. 0 \in 0 .. M - 1 /\ at \in 0 .. N - 1
        BY <1>1, <1>2, <1>4
      <4>2. firstColumns[0] <= at
        <5>1. ~(0 > 0)
          OBVIOUS
        <5> QED
          BY <1>5, <2>2, <4>1, <5>1
      <4> QED
        BY <1>2, <1>6, <4>2
    <3>2. score = ScoreMatch + BonusAt(text, at) * BonusFirstCharMultiplier /\ score > 0 /\ score \in Nat
      <4>1. score = ScoreMatch + BonusAt(text, at) * BonusFirstCharMultiplier
        BY <1>9, <3>1
      <4>2. BonusAt(text, at) \in 0 .. 8
        BY BonusSmall
      <4> QED
        BY <4>1, <4>2 DEF ScoreMatch, BonusFirstCharMultiplier
    <3>3. pidx' # 0
      <4>1. pidx = 0 => found
        BY <1>16, <2>2
      <4> QED
        BY <1>1, <1>2, <1>16, <4>1
    <3>4. CASE best
      <4>1. max_score' = score /\ max_score_pos' = at /\ at \in Columns(text)
        BY <1>1, <1>2, <1>4, <3>4
      <4> QED
        BY <1>12, <2>2, <3>2, <3>3, <4>1 DEF SingleRight
    <3>5. CASE ~best
      <4>1. ~(score > max_score)
        BY <1>16, <2>2, <3>5
      <4>2. max_score # 0
        BY <1>2, <3>2, <4>1
      <4>3. pidx # 0
        BY <2>1, <4>2 DEF SingleRight
      <4>4. max_score' = max_score /\ max_score_pos' = max_score_pos
        BY <1>1, <3>5
      <4> HIDE DEF best, score
      <4> QED
        BY <1>12, <2>1, <3>3, <4>3, <4>4 DEF SingleRight
    <3> QED
      BY <3>4, <3>5
  <2>3. CASE ~Matches(at, 0)
    <3>1. max_score' = max_score /\ max_score_pos' = max_score_pos
      BY <1>1, <2>3
    <3>2. pidx' = 0 <=> pidx = 0
      <4>1. pidx = 0 => ~found
        BY <1>16, <2>3
      <4> QED
        BY <1>1, <1>2, <4>1
    <3> HIDE DEF best, found
    <3> QED
      BY <1>12, <2>1, <3>1, <3>2 DEF SingleRight
  <2> QED
    BY <2>2, <2>3
<1>17. Promise'
  BY <1>1 DEF Promise
<1> QED
  BY <1>1, <1>3, <1>12, <1>13, <1>15, <1>16, <1>17 DEF PromiseInv

\* An answer is made from the cells of a call whose tables fit.
LEMMA DoneRight ==
  ASSUME IInv, call' = call, Fits, pc' = "done", M > 0,
         NEW last \in Columns(text), NEW start \in 0 .. last, NEW score, NEW columns, NEW run, run > 0,
         Scored(call.sensitive, text, pattern, M - 1, last, score, run),
         IF call.wantPos
         THEN /\ columns \in Occurrences(call.sensitive, text, pattern) /\ {start, last} \subseteq columns
              /\ \A k \in columns : k \in Int /\ start <= k /\ k <= last
         ELSE columns = {},
         result' = Result(start, last + 1, score, columns)
  PROVE  PromiseInv'
<1>1. PICK cap, sensitive, string, pat, wantPos :
        /\ cap = call.cap /\ sensitive = call.sensitive /\ string = text /\ pat = pattern
        /\ wantPos = call.wantPos
  OBVIOUS
<1>2. Len(string) \in Nat /\ Len(pat) \in Nat \ {0} /\ M = Len(pat)
  BY <1>1, Arguments DEF IInv, TypeOK
<1>3. /\ last \in Columns(string) /\ TablesFit(cap, string, pat)
      /\ Scored(sensitive, string, pat, Len(pat) - 1, last, score, run)
      /\ IF wantPos
         THEN /\ columns \in Occurrences(sensitive, string, pat) /\ {start, last} \subseteq columns
              /\ \A k \in columns : k \in Int /\ start <= k /\ k <= last
         ELSE columns = {}
  BY <1>1, <1>2 DEF Fits
<1>4. FuzzyPromise(cap, sensitive, string, pat, wantPos, Result(start, last + 1, score, columns))
  BY <1>2, <1>3, CellKeeps
<1>5. Promise'
  BY <1>1, <1>4, SameArguments DEF Promise
<1> QED
  BY <1>5 DEF PromiseInv

\* The pattern is found, and its first row is right.
LEMMA BonusDoneRight ==
  ASSUME IInv, PromiseInv, BonusDone
  PROVE  PromiseInv'
<1>1. /\ pc = "bonus" /\ at >= N /\ BonusPass /\ TypeOK /\ FoundInOrder
      /\ FirstRight /\ (\A col \in DOMAIN bo : BonusRight(col)) /\ (M = 1 => SingleRight)
      /\ prefer_match /\ prefer_match' = prefer_match
      /\ UNCHANGED <<call, f, last_idx, bo>>
  BY DEF BonusDone, IInv, PromiseInv
<1>2. /\ Len(text) \in Nat /\ N = Len(text) /\ M = Len(pattern) /\ M \in Nat \ {0}
      /\ call.wantPos \in BOOLEAN
  BY <1>1, Arguments DEF TypeOK
<1>3. pidx = M /\ pidx \in Nat
  <2> SUFFICES ASSUME pidx # M PROVE FALSE
    BY <1>1 DEF TypeOK
  <2>1. pidx \in 0 .. M - 1 /\ at \in Nat
    BY <1>1, <1>2 DEF BonusPass, TypeOK
  <2>2. at <= firstColumns[pidx]
    <3>1. pidx < M
      BY <1>2, <2>1
    <3>2. FirstRight
      BY <1>1
    <3> QED
      BY <3>1, <3>2 DEF FirstRight
  <2>3. firstColumns[pidx] \in 0 .. N - 1
    BY <1>1, <2>1, FirstFound DEF FirstRight, TypeOK
  <2> QED
    BY <1>1, <1>2, <2>1, <2>2, <2>3
<1>4. CASE pc' = "done"
  <2>1. M = 1 /\ result' = Result(max_score_pos, max_score_pos + 1, max_score,
                                  IF call.wantPos THEN {max_score_pos} ELSE {})
    BY <1>2, <1>3, <1>4 DEF BonusDone, Answer
  <2>2. /\ max_score_pos \in Columns(text) /\ Matches(max_score_pos, 0)
        /\ max_score = ScoreMatch + BonusAt(text, max_score_pos) * BonusFirstCharMultiplier
    BY <1>1, <1>3, <2>1 DEF SingleRight
  <2>3. PICK sensitive, string, pat, k :
          /\ sensitive = call.sensitive /\ string = text /\ pat = pattern /\ k = max_score_pos
          /\ k \in Columns(string)
    BY <2>2
  <2>4. /\ Same(sensitive, string, k, pat, 0) /\ Len(string) \in Nat /\ Len(pat) \in Nat \ {0}
        /\ Len(pat) = 1 /\ M - 1 = 0 /\ k \in Nat
    <3>1. Same(sensitive, string, k, pat, 0)
      BY <2>2, <2>3 DEF Matches
    <3>2. Len(string) \in Nat /\ Len(pat) = M
      BY <1>2, <2>3
    <3>3. k \in Nat
      BY <2>3 DEF Columns
    <3> QED
      BY <1>2, <2>1, <3>1, <3>2, <3>3
  <2>5. Scored(call.sensitive, text, pattern, M - 1, k, max_score, 1)
    <3>1. Scored(sensitive, string, pat, 0, k, ScoreMatch + BonusAt(string, k) * BonusFirstCharMultiplier, 1)
      BY <2>3, <2>4, ScoredFirst
    <3> QED
      BY <2>2, <2>3, <2>4, <3>1
  <2>6. {k} \in Occurrences(sensitive, string, pat)
    <3>1. Spelling(sensitive, string, pat, {k}, Len(pat))
      BY <2>3, <2>4, SingleSpells
    <3> QED
      BY <2>4, <3>1, OccurrenceIs
  <2>7. PICK columns : columns = IF call.wantPos THEN {k} ELSE {}
    OBVIOUS
  <2>8. IF call.wantPos
        THEN /\ columns \in Occurrences(call.sensitive, text, pattern) /\ {k, k} \subseteq columns
             /\ \A l \in columns : l \in Int /\ k <= l /\ l <= k
        ELSE columns = {}
    BY <2>3, <2>4, <2>6, <2>7
  <2>9. /\ k \in Columns(text) /\ k \in 0 .. k /\ 1 > 0 /\ M > 0 /\ Fits /\ call' = call
        /\ result' = Result(k, k + 1, max_score, columns)
    BY <1>1, <2>1, <2>3, <2>4, <2>7 DEF BonusPass
  <2>10. PICK run : run = 1
    OBVIOUS
  <2> QED
    BY <1>4, <2>5, <2>8, <2>9, <2>10, DoneRight
<1>5. CASE /\ M > 1 /\ pidx = M /\ pidx' = 1 /\ pc' = "row"
           /\ h' = [cell \in {0} \X (At(f, 0) .. last_idx) |-> h[cell]]
           /\ c' = [cell \in {0} \X (At(f, 0) .. last_idx) |-> c[cell]]
  <2>1. /\ Len(f) = M /\ f # <<>> /\ last_idx < at /\ last_idx \in Nat /\ at \in Nat
        /\ \A col \in DOMAIN bo : col .. at - 1 \subseteq DOMAIN bo
        /\ At(f, 0) \in DOMAIN bo
    BY <1>1, <1>2, <1>5, EmptySeq DEF BonusPass, TypeOK
  <2>2. /\ At(f, 0) \in Nat /\ At(f, 0) <= last_idx /\ Matches(At(f, 0), 0)
    BY <1>1, <1>5, <2>1, Columns0
  <2>3. \A col \in At(f, 0) .. last_idx : col \in DOMAIN bo /\ col \in Nat
    BY <2>1, <2>2
  <2>4. At(f, 0) = firstColumns[0]
    <3>1. 0 \in Columns(f)
      BY <1>2, <2>1 DEF Columns
    <3> QED
      BY <1>1, <3>1 DEF FirstRight
  <2>5. \A col \in At(f, 0) .. last_idx :
          /\ h'[<<0, col>>] = h[<<0, col>>] /\ c'[<<0, col>>] = c[<<0, col>>]
    BY <1>5
  <2>6. \A col \in At(f, 0) .. last_idx :
          /\ bo[col] = BonusAt(text, col)
          /\ Scored(call.sensitive, text, pattern, 0, col, h[<<0, col>>], c[<<0, col>>])
          /\ c[<<0, col>>] > 0 <=> Matches(col, 0)
    <3> SUFFICES ASSUME NEW col \in At(f, 0) .. last_idx
                 PROVE  /\ bo[col] = BonusAt(text, col)
                        /\ Scored(call.sensitive, text, pattern, 0, col, h[<<0, col>>], c[<<0, col>>])
                        /\ c[<<0, col>>] > 0 <=> Matches(col, 0)
      OBVIOUS
    <3>1. BonusRight(col) /\ col >= firstColumns[0]
      BY <1>1, <2>2, <2>3, <2>4
    <3> QED
      BY <3>1 DEF BonusRight
  <2>7. /\ text' = text /\ pattern' = pattern /\ call'.sensitive = call.sensitive
        /\ At(f', 0) = At(f, 0)
    BY <1>1, SameArguments
  <2>8. ASSUME NEW col \in At(f, 0) .. last_idx PROVE CellRight(0, col)'
    <3>1. col \in DOMAIN bo /\ col \in Nat /\ c[<<0, col>>] \in {0, 1}
      BY <1>1, <2>3 DEF BonusPass
    <3>2. Scored(call'.sensitive, text', pattern', 0, col, h'[<<0, col>>], c'[<<0, col>>])
      BY <2>5, <2>6, <2>7
    <3>3. c'[<<0, col>>] > 0 => h'[<<0, col>>] > 0
      BY <1>1, <2>5, <2>6, <3>1 DEF BonusPass
    <3>4. ASSUME c'[<<0, col>>] = 0
          PROVE  /\ col > At(f, 0)
                 /\ h'[<<0, col>>] = 0 \/ h'[<<0, col>>] < h'[<<0, col - 1>>]
      <4>1. ~Matches(col, 0)
        BY <2>5, <2>6, <3>1, <3>4
      <4>2. col > At(f, 0) /\ col - 1 \in At(f, 0) .. last_idx
        BY <2>1, <2>2, <3>1, <4>1
      <4>3. h[<<0, col>>] = 0 \/ h[<<0, col>>] < h[<<0, col - 1>>]
        BY <1>1, <2>3, <3>1, <4>1, <4>2 DEF BonusPass
      <4> QED
        BY <2>5, <4>2, <4>3
    <3>5. ~(0 > 0)
      OBVIOUS
    <3> QED
      BY <2>7, <3>2, <3>3, <3>4, <3>5 DEF CellRight
  <2>9. RowRight(0, last_idx)'
    BY <1>1, <2>7, <2>8 DEF RowRight
  <2>10. BonusesRight'
    BY <1>1, <2>6, <2>7 DEF BonusesRight
  <2>11. \A i \in 0 .. pidx' - 1 : RowRight(i, last_idx)'
    <3>1. \A i \in 0 .. pidx' - 1 : i = 0
      BY <1>5
    <3> QED
      BY <2>9, <3>1
  <2>12. Promise'
    BY <1>5 DEF Promise
  <2> QED
    BY <1>1, <1>5, <2>10, <2>11, <2>12 DEF PromiseInv
<1> QED
  BY <1>4, <1>5 DEF BonusDone, Answer

\* A row starts with nothing.
LEMMA RowRightNext ==
  ASSUME IInv, PromiseInv, Row
  PROVE  PromiseInv'
<1>1. /\ pc = "row" /\ pc' = "fill" /\ at' = At(f, pidx)
      /\ RowPass /\ TypeOK /\ FoundInOrder /\ BonusesRight
      /\ \A i \in 0 .. pidx - 1 : RowRight(i, last_idx)
      /\ prefer_match /\ prefer_match' = prefer_match
      /\ UNCHANGED <<call, pidx, f, last_idx, bo, c>>
  BY DEF Row, IInv, PromiseInv
<1>2. \A cell \in DOMAIN h \ {<<pidx, At(f, pidx) - 1>>} : h'[cell] = h[cell]
  BY DEF Row, Put
<1>3. Prepared /\ pidx \in 1 .. M - 1 /\ Len(f) = M /\ M > 1
  BY <1>1 DEF RowPass, Prepared
<1>4. M \in Nat /\ At(f, pidx) \in Nat
  BY <1>1, <1>3, Columns0
<1>5. /\ text' = text /\ At(f', pidx') = At(f, pidx) /\ At(f', 0) = At(f, 0)
  BY <1>1, SameArguments
<1>6. ASSUME NEW i \in 0 .. pidx - 1 PROVE RowRight(i, last_idx)'
  <2>1. RowSound(i, last_idx) /\ RowRight(i, last_idx) /\ i \in Nat /\ i < pidx /\ last_idx \in Int
    BY <1>1, <1>3 DEF RowPass, TypeOK
  <2>2. \A k \in {i, i - 1}, l \in Int : <<k, l>> \in DOMAIN h => h'[<<k, l>>] = h[<<k, l>>]
    BY <1>2, <1>3, <2>1
  <2>3. RowRight(i, last_idx)'
    BY <1>1, <2>1, <2>2, RightFrame
  <2> QED
    BY <2>3
<1>7. FillRight'
  <2>1. \A i \in 0 .. pidx' - 1 : RowRight(i, last_idx)'
    BY <1>1, <1>6
  <2>2. RowRight(pidx, at - 1)'
    BY <1>1, <1>4, <1>5 DEF RowRight
  <2>3. ~(at' > At(f', pidx'))
    BY <1>1, <1>4, <1>5
  <2> QED
    BY <2>1, <2>2, <2>3 DEF FillRight
<1>8. BonusesRight'
  BY <1>1, <1>5 DEF BonusesRight
<1>9. Promise'
  BY <1>1 DEF Promise
<1> QED
  BY <1>1, <1>7, <1>8, <1>9 DEF PromiseInv

\* A cell scores the columns of the cell diagonal to it and its own, or, when that
\* is more, those of the cell on the left and a gap.
LEMMA FillCellScored ==
  ASSUME IInv, PromiseInv, pc = "fill", at <= last_idx
  PROVE  LET cell == Cell(pidx, at)
             score == MaxOf(MaxOf(cell.matched, cell.gap), 0)
         IN  /\ Scored(call.sensitive, text, pattern, pidx, at, score, cell.consecutive)
             /\ cell.consecutive \in Nat
             /\ cell.consecutive > 0 => score > 0 /\ score > h[<<pidx - 1, at - 1>>]
             /\ cell.consecutive = 0 => /\ at > At(f, pidx)
                                        /\ score = 0 \/ score < h[<<pidx, at - 1>>]
             /\ score = 0 \/ ((cell.matched < cell.gap) <=> cell.consecutive = 0)
<1>1. FillPass /\ TypeOK /\ CellsBounded /\ FoundInOrder /\ FillRight /\ BonusesRight
  BY DEF IInv, PromiseInv
<1>2. /\ Prepared /\ pidx \in 1 .. M - 1 /\ Len(f) = M /\ M > 1 /\ last_idx < N
      /\ at \in At(f, pidx) .. last_idx + 1 /\ <<pidx, at - 1>> \in DOMAIN h
      /\ at = At(f, pidx) => h[<<pidx, at - 1>>] = 0 /\ ~in_gap
      /\ \A i \in 0 .. pidx - 1 : RowSound(i, last_idx)
      /\ RowSound(pidx, at - 1)
  BY <1>1 DEF FillPass, Prepared
<1>3. /\ \A i \in 0 .. pidx - 1 : RowRight(i, last_idx)
      /\ RowRight(pidx, at - 1)
      /\ at > At(f, pidx) => h[<<pidx, at - 1>>] = 0 \/ (in_gap <=> c[<<pidx, at - 1>>] = 0)
  BY <1>1 DEF FillRight
<1>4. /\ M \in Nat /\ at \in Nat /\ pidx \in Nat /\ last_idx \in Nat
      /\ At(f, 0) \in Nat /\ At(f, pidx) \in Nat /\ At(f, pidx - 1) \in Nat
      /\ At(f, 0) <= At(f, pidx) /\ At(f, 0) <= At(f, pidx - 1)
      /\ At(f, pidx - 1) < At(f, pidx)
      /\ Matches(At(f, pidx), pidx)
  <2>1. M \in Nat /\ at \in Nat /\ pidx \in Nat /\ last_idx \in Nat
    BY <1>1, Sizes DEF TypeOK
  <2>2. pidx \in 0 .. M - 1 /\ pidx - 1 \in 0 .. M - 1 /\ 0 \in 0 .. M - 1 /\ pidx > 0
    BY <1>2, <2>1
  <2>3. \A i \in 0 .. M - 1 :
          /\ At(f, i) \in Nat /\ At(f, 0) <= At(f, i) /\ Matches(At(f, i), i)
          /\ i > 0 => At(f, i - 1) < At(f, i)
    BY <1>1, <1>2, Columns0
  <2> QED
    BY <2>1, <2>2, <2>3
<1>5. PICK sensitive, string, pat, i, col :
        /\ sensitive = call.sensitive /\ string = text /\ pat = pattern /\ i = pidx /\ col = at
        /\ i \in Nat /\ col \in Nat
  BY <1>4
<1>6. PICK j \in Nat, k \in Nat : j = i - 1 /\ k = col - 1
  <2>1. i - 1 \in Nat /\ col - 1 \in Nat
    BY <1>2, <1>4, <1>5
  <2> QED
    BY <2>1
<1>7. Len(string) \in Nat /\ col \in Columns(string) /\ col = k + 1 /\ i = j + 1
  <2>1. Len(text) \in Nat /\ N = Len(text)
    BY <1>1, Arguments DEF TypeOK
  <2> QED
    BY <1>2, <1>4, <1>5, <1>6, <2>1 DEF Columns
<1>8. PICK left, diag, before : left = h[<<i, k>>] /\ diag = h[<<j, k>>] /\ before = c[<<j, k>>]
  OBVIOUS
<1>9. CellSound(j, k) /\ CellRight(j, k)
  <2>1. j \in 0 .. pidx - 1 /\ k \in At(f, j) .. last_idx
    BY <1>2, <1>4, <1>5, <1>6
  <2> QED
    BY <1>2, <1>3, <2>1 DEF RowSound, RowRight
<1>10. /\ before \in 0 .. col - At(f, 0)
       /\ Scored(sensitive, string, pat, j, k, diag, before)
       /\ <<j, k>> \in DOMAIN h
  <2>1. before \in 0 .. k - At(f, 0) + 1 /\ <<j, k>> \in DOMAIN h
    BY <1>8, <1>9 DEF CellSound
  <2>2. Scored(sensitive, string, pat, j, k, diag, before)
    BY <1>5, <1>8, <1>9 DEF CellRight
  <2> QED
    BY <1>4, <1>7, <2>1, <2>2
<1>11. left \in Nat /\ diag \in Nat
  <2>1. <<i, k>>[1] = i /\ <<j, k>>[1] = j /\ <<i, k>> \in DOMAIN h
    BY <1>2, <1>5, <1>6
  <2>2. left \in 0 .. CellBound(i) /\ diag \in 0 .. CellBound(j)
    BY <1>1, <1>8, <1>10, <2>1 DEF CellsBounded
  <2> QED
    BY <2>2
<1>12. bo[col] = BonusAt(string, col) /\ BonusAt(string, col) \in 0 .. 8
  <2>1. col \in At(f, 0) .. last_idx
    BY <1>4, <1>2, <1>5
  <2> QED
    BY <1>1, <1>5, <2>1, BonusSmall DEF BonusesRight
<1> DEFINE gap == IF in_gap THEN ScoreGapExtention ELSE ScoreGapStart
           s2 == left + gap
           run == IF bo[col] = BonusBoundary THEN 1 ELSE before + 1
           b == IF run > 1 THEN MaxOf(bo[col], MaxOf(BonusConsecutive, bo[col - run + 1]))
                ELSE bo[col]
           s1 == diag + ScoreMatch
<1>13. PICK cell : cell = Cell(i, col)
  OBVIOUS
<1>14. cell = IF ~Matches(col, i) THEN [matched |-> 0, gap |-> s2, consecutive |-> 0]
              ELSE IF s1 + b < s2
                   THEN [matched |-> s1 + bo[col], gap |-> s2, consecutive |-> 0]
              ELSE [matched |-> s1 + b, gap |-> s2, consecutive |-> run]
  BY <1>6, <1>8, <1>13 DEF Cell
<1>15. run \in Nat /\ run > 0 /\ (run > 1 => bo[col - run + 1] = BonusAt(string, col - run + 1))
  <2>1. run \in Nat /\ run > 0
    BY <1>4, <1>10
  <2>2. ASSUME run > 1 PROVE bo[col - run + 1] = BonusAt(string, col - run + 1)
    <3>1. run = before + 1
      BY <2>2
    <3>2. PICK l \in Int : l = col - run + 1
      BY <1>5, <2>1
    <3>3. l = col - before /\ before >= 1
      BY <1>4, <1>5, <1>10, <2>2, <3>1, <3>2
    <3>4. l \in At(f, 0) .. last_idx
      BY <1>4, <1>5, <1>10, <3>3, <1>2
    <3>5. bo[l] = BonusAt(string, l)
      BY <1>1, <1>5, <3>4 DEF BonusesRight
    <3> QED
      BY <3>2, <3>5
  <2> QED
    BY <2>1, <2>2
<1>16. PICK bonus : bonus = IF run > 1
                            THEN MaxOf(BonusAt(string, col), MaxOf(BonusConsecutive, BonusAt(string, col - run + 1)))
                            ELSE BonusAt(string, col)
  OBVIOUS
<1>17. b = bonus
  <2> HIDE DEF run
  <2> QED
    BY <1>12, <1>15, <1>16
<1>18. bonus \in 0 .. 8 /\ bonus >= bo[col]
  <2>1. BonusAt(string, col - run + 1) \in 0 .. 8
    BY BonusSmall
  <2> HIDE DEF run
  <2> QED
    BY <1>12, <1>16, <2>1 DEF MaxOf, BonusConsecutive
<1>19. gap \in {-3, -1} /\ (~in_gap => gap = -3)
  BY DEF ScoreGapExtention, ScoreGapStart
<1>20. /\ s2 \in Int /\ s2 < left /\ (col = At(f, i) => s2 = -3)
  <2> HIDE DEF gap
  <2>1. col = At(f, i) => left = 0 /\ ~in_gap
    BY <1>2, <1>5, <1>6, <1>8
  <2> QED
    BY <1>11, <1>19, <2>1
<1>21. ASSUME Matches(col, i) PROVE Scored(sensitive, string, pat, i, col, s1 + b, run)
  <2>1. Same(sensitive, string, col, pat, i)
    BY <1>5, <1>21 DEF Matches
  <2>2. PICK longer, own : longer = run /\ own = BonusAt(string, col)
    OBVIOUS
  <2>3. /\ longer = IF own = BonusBoundary THEN 1 ELSE before + 1
        /\ bonus = IF longer > 1 THEN MaxOf(own, MaxOf(BonusConsecutive, BonusAt(string, col - longer + 1)))
                   ELSE own
    BY <1>12, <1>16, <2>2
  <2>4. before \in Nat
    BY <1>4, <1>10
  <2>5. Scored(sensitive, string, pat, i, col, diag + ScoreMatch + bonus, longer)
    <3> HIDE DEF run, b, s1, s2
    <3> QED
      BY <1>7, <1>10, <2>1, <2>2, <2>3, <2>4, ScoredNext
  <2> QED
    BY <1>17, <2>2, <2>5
<1>22. ASSUME col > At(f, i) PROVE Scored(sensitive, string, pat, i, col, MaxOf(s2, 0), 0)
  <2>1. CellSound(i, k) /\ CellRight(i, k)
    <3>1. k \in At(f, i) .. at - 1
      BY <1>4, <1>5, <1>6, <1>22
    <3> QED
      BY <1>2, <1>3, <1>5, <3>1 DEF RowSound, RowRight
  <2>2. PICK length : length = c[<<i, k>>]
    OBVIOUS
  <2>3. /\ Scored(sensitive, string, pat, i, k, left, length)
        /\ length \in Nat
    <3>1. length \in 0 .. k - At(f, 0) + 1
      BY <2>1, <2>2 DEF CellSound
    <3>2. Scored(sensitive, string, pat, i, k, left, length)
      BY <1>5, <1>8, <2>1, <2>2 DEF CellRight
    <3> QED
      BY <1>4, <3>1, <3>2
  <2>4. Scored(sensitive, string, pat, i, col,
               MaxOf(left + (IF length = 0 THEN ScoreGapExtention ELSE ScoreGapStart), 0), 0)
    BY <1>7, <2>3, ScoredGap
  <2>5. left = 0 \/ (in_gap <=> length = 0)
    BY <1>3, <1>5, <1>6, <1>8, <1>22, <2>2
  <2>6. MaxOf(left + (IF length = 0 THEN ScoreGapExtention ELSE ScoreGapStart), 0) = MaxOf(s2, 0)
    <3>1. CASE left = 0
      BY <3>1 DEF MaxOf, ScoreGapExtention, ScoreGapStart
    <3>2. CASE in_gap <=> length = 0
      <4>1. gap = IF length = 0 THEN ScoreGapExtention ELSE ScoreGapStart
        BY <3>2
      <4> QED
        BY <4>1
    <3> QED
      BY <2>5, <3>1, <3>2
  <2> QED
    BY <2>4, <2>6
<1> HIDE DEF gap, s2, run, b, s1
<1>23. s1 + b \in Nat /\ s1 + b > diag /\ s1 + b > 0 /\ s1 + bo[col] <= s1 + b /\ s1 + bo[col] \in Int
  BY <1>11, <1>12, <1>17, <1>18 DEF s1, ScoreMatch
<1>24. PICK score : score = MaxOf(MaxOf(cell.matched, cell.gap), 0)
  OBVIOUS
<1> DEFINE Right == /\ Scored(sensitive, string, pat, i, col, score, cell.consecutive)
                    /\ cell.consecutive \in Nat
                    /\ cell.consecutive > 0 => score > 0 /\ score > diag
                    /\ cell.consecutive = 0 => col > At(f, i) /\ (score = 0 \/ score < left)
                    /\ score = 0 \/ ((cell.matched < cell.gap) <=> cell.consecutive = 0)
<1>25. ASSUME Matches(col, i) /\ ~(s1 + b < s2) PROVE Right
  <2>1. cell.matched = s1 + b /\ cell.gap = s2 /\ cell.consecutive = run
    BY <1>14, <1>25
  <2>2. score = s1 + b
    BY <1>20, <1>23, <1>24, <1>25, <2>1 DEF MaxOf
  <2>3. Scored(sensitive, string, pat, i, col, score, cell.consecutive)
    BY <1>21, <1>25, <2>1, <2>2
  <2>4. cell.consecutive \in Nat /\ cell.consecutive > 0
    BY <1>15, <2>1
  <2>5. score > 0 /\ score > diag /\ ~(cell.matched < cell.gap)
    BY <1>23, <1>25, <2>1, <2>2
  <2>6. ~(cell.consecutive = 0)
    BY <2>4
  <2> QED
    BY <2>3, <2>4, <2>5, <2>6
<1>26. ASSUME ~Matches(col, i) \/ s1 + b < s2 PROVE Right
  <2>1. /\ cell.gap = s2 /\ cell.consecutive = 0
        /\ cell.matched = 0 \/ (cell.matched = s1 + bo[col] /\ s1 + b < s2)
    BY <1>14, <1>26
  <2>2. col > At(f, i)
    <3>1. col # At(f, i)
      <4>1. CASE ~Matches(col, i)
        BY <1>4, <1>5, <4>1
      <4>2. CASE s1 + b < s2
        BY <1>20, <1>23, <4>2
      <4> QED
        BY <1>26, <4>1, <4>2
    <3> QED
      BY <1>2, <1>4, <1>5, <3>1
  <2>3. score = MaxOf(s2, 0) /\ (score = 0 \/ score < left) /\ (score = 0 \/ cell.matched < cell.gap)
    <3>1. CASE cell.matched = 0
      BY <1>11, <1>20, <1>24, <2>1, <3>1 DEF MaxOf
    <3>2. CASE cell.matched = s1 + bo[col] /\ s1 + b < s2
      BY <1>11, <1>20, <1>23, <1>24, <2>1, <3>2 DEF MaxOf
    <3> QED
      BY <2>1, <3>1, <3>2
  <2>4. Scored(sensitive, string, pat, i, col, score, cell.consecutive)
    BY <1>22, <2>1, <2>2, <2>3
  <2> QED
    BY <2>1, <2>2, <2>3, <2>4
<1>27. Right
  <2> HIDE DEF Right
  <2> QED
    BY <1>25, <1>26
<1> QED
  BY <1>5, <1>6, <1>8, <1>13, <1>24, <1>27 DEF Right

\* A cell is written, and the best cell of the last row is remembered.
LEMMA FillCellRight ==
  ASSUME IInv, PromiseInv, FillCell
  PROVE  PromiseInv'
<1>1. /\ pc = "fill" /\ pc' = "fill" /\ at <= last_idx /\ at' = at + 1
      /\ FillPass /\ TypeOK /\ FoundInOrder /\ FillRight /\ BonusesRight
      /\ prefer_match /\ prefer_match' = prefer_match
      /\ UNCHANGED <<call, pidx, f, last_idx, bo>>
  BY DEF FillCell, IInv, PromiseInv
<1>2. /\ Prepared /\ pidx \in 1 .. M - 1 /\ Len(f) = M /\ M > 1
      /\ at \in At(f, pidx) .. last_idx + 1
      /\ \A i \in 0 .. pidx - 1 : RowSound(i, last_idx)
      /\ RowSound(pidx, at - 1)
      /\ IF pidx = M - 1 /\ at > At(f, pidx)
           THEN max_score > 0 /\ max_score_pos \in At(f, pidx) .. at - 1
           ELSE max_score = 0
  BY <1>1 DEF FillPass, Prepared
<1>3. /\ M \in Nat /\ at \in Nat /\ pidx \in Nat /\ last_idx \in Nat /\ max_score \in Nat
      /\ max_score_pos \in Nat /\ At(f, pidx) \in Nat
  BY <1>1, <1>2, Columns0 DEF TypeOK
<1>4. PICK i \in Nat, col \in Nat : i = pidx /\ col = at
  BY <1>3
<1>5. PICK score, run, diag, left :
        /\ h' = Put(h, <<i, col>>, score) /\ c' = Put(c, <<i, col>>, run)
        /\ diag = h[<<i - 1, col - 1>>] /\ left = h[<<i, col - 1>>]
        /\ Scored(call.sensitive, text, pattern, i, col, score, run)
        /\ run \in Nat /\ score \in Nat
        /\ run > 0 => score > 0 /\ score > diag
        /\ run = 0 => col > At(f, i) /\ (score = 0 \/ score < left)
        /\ score = 0 \/ (in_gap' <=> run = 0)
        /\ max_score' = IF i = M - 1 /\ score > max_score THEN score ELSE max_score
        /\ max_score_pos' = IF i = M - 1 /\ score > max_score THEN col ELSE max_score_pos
        /\ {<<i, col - 1>>, <<i - 1, col - 1>>} \subseteq DOMAIN h
        /\ col = At(f, i) => score > 0
  <2> DEFINE cell == Cell(pidx, at)
             value == MaxOf(MaxOf(cell.matched, cell.gap), 0)
  <2>1. /\ h' = Put(h, <<pidx, at>>, value) /\ c' = Put(c, <<pidx, at>>, cell.consecutive)
        /\ in_gap' = (cell.matched < cell.gap)
        /\ max_score' = IF pidx = M - 1 /\ value > max_score THEN value ELSE max_score
        /\ max_score_pos' = IF pidx = M - 1 /\ value > max_score THEN at ELSE max_score_pos
    BY DEF FillCell
  <2>2. /\ Scored(call.sensitive, text, pattern, pidx, at, value, cell.consecutive)
        /\ cell.consecutive \in Nat
        /\ cell.consecutive > 0 => value > 0 /\ value > h[<<pidx - 1, at - 1>>]
        /\ cell.consecutive = 0 => at > At(f, pidx) /\ (value = 0 \/ value < h[<<pidx, at - 1>>])
        /\ value = 0 \/ ((cell.matched < cell.gap) <=> cell.consecutive = 0)
    BY <1>1, FillCellScored
  <2>3. /\ {<<pidx, at - 1>>, <<pidx - 1, at - 1>>} \subseteq DOMAIN h
        /\ value \in 0 .. CellBound(pidx)
        /\ at = At(f, pidx) => value > 0
    BY <1>1, FillCellEffect
  <2> HIDE DEF cell, value
  <2>4. value \in Nat
    BY <2>3
  <2> QED
    BY <1>4, <2>1, <2>2, <2>3, <2>4
<1>6. /\ DOMAIN h' = DOMAIN h \cup {<<i, col>>} /\ h'[<<i, col>>] = score
      /\ \A k \in DOMAIN h \ {<<i, col>>} : h'[k] = h[k]
      /\ DOMAIN c' = DOMAIN c \cup {<<i, col>>} /\ c'[<<i, col>>] = run
      /\ \A k \in DOMAIN c \ {<<i, col>>} : c'[k] = c[k]
  BY <1>5 DEF Put
<1>7. /\ text' = text /\ pattern' = pattern /\ call'.sensitive = call.sensitive /\ M' = M
      /\ \A p : At(f', p) = At(f, p)
  BY <1>1, SameArguments DEF At
<1>8. ASSUME NEW n \in 0 .. pidx - 1 PROVE RowRight(n, last_idx)'
  <2>1. RowSound(n, last_idx) /\ RowRight(n, last_idx) /\ n \in Nat /\ n < i /\ last_idx \in Int
    BY <1>1, <1>2, <1>3, <1>4 DEF FillRight
  <2>2. \A k \in {n, n - 1}, l \in Int : <<k, l>> \in DOMAIN h => h'[<<k, l>>] = h[<<k, l>>]
    BY <1>6, <2>1
  <2>3. \A l \in Int : <<n, l>> \in DOMAIN c => c'[<<n, l>>] = c[<<n, l>>]
    BY <1>6, <2>1
  <2>4. RowRight(n, last_idx)'
    BY <1>1, <2>1, <2>2, <2>3, RightFrame
  <2> QED
    BY <2>4
<1>9. PICK before \in Int : before = col - 1
  OBVIOUS
<1>10. RowRight(i, before)'
  <2>1. RowSound(i, before) /\ RowRight(i, before)
    BY <1>1, <1>2, <1>4, <1>9 DEF FillRight
  <2>2. \A k \in {i, i - 1}, l \in Int : l <= before /\ <<k, l>> \in DOMAIN h => h'[<<k, l>>] = h[<<k, l>>]
    BY <1>6, <1>9
  <2>3. \A l \in Int : l <= before /\ <<i, l>> \in DOMAIN c => c'[<<i, l>>] = c[<<i, l>>]
    BY <1>6, <1>9
  <2> QED
    BY <1>1, <2>1, <2>2, <2>3, RightFrame
<1>11. h'[<<i, col - 1>>] = left /\ h'[<<i - 1, col - 1>>] = diag
  <2>1. <<i, col - 1>> # <<i, col>> /\ <<i - 1, col - 1>> # <<i, col>>
    OBVIOUS
  <2> QED
    BY <1>5, <1>6, <2>1
<1>12. CellRight(i, col)'
  BY <1>5, <1>6, <1>7, <1>11 DEF CellRight
<1>13. RowRight(i, col)'
  <2>1. At(f', i) = At(f, i) /\ At(f, i) \in Nat
    BY <1>3, <1>4, <1>7
  <2>2. \A l \in At(f', i) .. before : CellRight(i, l)'
    BY <1>10 DEF RowRight
  <2>3. \A l \in At(f', i) .. col : l = col \/ l \in At(f', i) .. before
    BY <1>9, <2>1
  <2>4. \A l \in At(f', i) .. col : CellRight(i, l)'
    BY <1>12, <2>2, <2>3
  <2> QED
    BY <2>4 DEF RowRight
<1>14. ASSUME i = M - 1 PROVE BestUpTo(col)'
  <2>1. \A l \in At(f, i) .. col - 1 : h'[<<i, l>>] = h[<<i, l>>] /\ h[<<i, l>>] \in Nat
    <3> SUFFICES ASSUME NEW l \in At(f, i) .. col - 1
                 PROVE  h'[<<i, l>>] = h[<<i, l>>] /\ h[<<i, l>>] \in Nat
      OBVIOUS
    <3>1. l \in Int /\ l <= col - 1
      BY <1>3, <1>4
    <3>2. <<i, l>> \in DOMAIN h /\ <<i, l>> # <<i, col>>
      <4>1. CellSound(i, l)
        BY <1>2, <1>4 DEF RowSound
      <4> QED
        BY <3>1, <4>1 DEF CellSound
    <3>3. <<i, l>>[1] = i
      OBVIOUS
    <3>4. h[<<i, l>>] \in 0 .. CellBound(i)
      BY <3>2, <3>3 DEF IInv, CellsBounded
    <3> QED
      BY <1>6, <3>2, <3>4
  <2>2. CASE col = At(f, i)
    <3>1. max_score = 0 /\ score > 0
      BY <1>2, <1>4, <1>5, <2>2
    <3>2. max_score' = score /\ max_score_pos' = col
      BY <1>5, <1>14, <3>1
    <3>3. \A l \in At(f, i) .. col : l = col
      BY <2>2
    <3> QED
      BY <1>5, <1>6, <1>7, <1>14, <2>2, <3>1, <3>2, <3>3 DEF BestUpTo
  <2>3. CASE col # At(f, i)
    <3>1. col > At(f, i) /\ At(f, i) \in Nat
      BY <1>2, <1>3, <1>4, <2>3
    <3>2. BestUpTo(col - 1)
      BY <1>1, <1>4, <1>14, <3>1 DEF FillRight
    <3>3. /\ max_score_pos \in At(f, i) .. col - 1
          /\ h[<<i, max_score_pos>>] = max_score /\ max_score > 0
          /\ \A l \in At(f, i) .. col - 1 :
               /\ h[<<i, l>>] <= max_score
               /\ l < max_score_pos => h[<<i, l>>] < max_score
      BY <1>14, <3>2 DEF BestUpTo
    <3>4. \A l \in At(f, i) .. col : l = col \/ l \in At(f, i) .. col - 1
      BY <3>1
    <3>5. CASE score > max_score
      <4>1. max_score' = score /\ max_score_pos' = col
        BY <1>5, <1>14, <3>5
      <4>2. \A l \in At(f, i) .. col :
              h'[<<i, l>>] <= score /\ (l < col => h'[<<i, l>>] < score)
        <5> SUFFICES ASSUME NEW l \in At(f, i) .. col
                     PROVE  h'[<<i, l>>] <= score /\ (l < col => h'[<<i, l>>] < score)
          OBVIOUS
        <5>1. CASE l = col
          BY <1>5, <1>6, <5>1
        <5>2. CASE l \in At(f, i) .. col - 1
          BY <1>3, <1>5, <2>1, <3>3, <3>5, <5>2
        <5> QED
          BY <3>4, <5>1, <5>2
      <4> QED
        BY <1>3, <1>5, <1>6, <1>7, <1>14, <3>1, <3>5, <4>1, <4>2 DEF BestUpTo
    <3>6. CASE ~(score > max_score)
      <4>1. max_score' = max_score /\ max_score_pos' = max_score_pos
        BY <1>5, <3>6
      <4>2. \A l \in At(f, i) .. col :
              h'[<<i, l>>] <= max_score /\ (l < max_score_pos => h'[<<i, l>>] < max_score)
        <5> SUFFICES ASSUME NEW l \in At(f, i) .. col
                     PROVE  h'[<<i, l>>] <= max_score /\ (l < max_score_pos => h'[<<i, l>>] < max_score)
          OBVIOUS
        <5>1. CASE l = col
          <6>1. ~(l < max_score_pos)
            BY <1>3, <3>3, <5>1
          <6> QED
            BY <1>3, <1>5, <1>6, <3>6, <5>1, <6>1
        <5>2. CASE l \in At(f, i) .. col - 1
          BY <2>1, <3>3, <5>2
        <5> QED
          BY <3>4, <5>1, <5>2
      <4>3. max_score_pos \in At(f, i) .. col /\ h'[<<i, max_score_pos>>] = max_score
        BY <2>1, <3>1, <3>3
      <4> QED
        BY <1>7, <1>14, <3>3, <4>1, <4>2, <4>3 DEF BestUpTo
    <3> QED
      BY <3>5, <3>6
  <2> QED
    BY <2>2, <2>3
<1>15. FillRight'
  <2>1. pidx' = i /\ at' - 1 = col /\ at' > At(f', pidx')
    BY <1>1, <1>2, <1>3, <1>4, <1>7
  <2>2. \A n \in 0 .. pidx' - 1 : RowRight(n, last_idx)'
    BY <1>1, <1>8
  <2>3. h'[<<i, col>>] = 0 \/ (in_gap' <=> c'[<<i, col>>] = 0)
    BY <1>5, <1>6
  <2>4. RowRight(pidx, at - 1)'
    BY <1>13, <2>1
  <2>5. pidx' = M' - 1 => BestUpTo(at - 1)'
    BY <1>7, <1>14, <2>1
  <2> QED
    BY <2>1, <2>2, <2>3, <2>4, <2>5 DEF FillRight
<1>16. BonusesRight'
  BY <1>1, <1>7 DEF BonusesRight
<1>17. Promise'
  BY <1>1 DEF Promise
<1> QED
  BY <1>1, <1>15, <1>16, <1>17 DEF PromiseInv

\* The best score of the last row is that of columns that spell the whole pattern.
LEMMA BestIsFound ==
  ASSUME IInv, Prepared, RowSound(M - 1, last_idx), RowRight(M - 1, last_idx), BestUpTo(last_idx)
  PROVE  /\ max_score_pos \in Columns(text) /\ max_score_pos \in Nat
         /\ c[<<M - 1, max_score_pos>>] > 0
         /\ Scored(call.sensitive, text, pattern, M - 1, max_score_pos, max_score,
                   c[<<M - 1, max_score_pos>>])
<1>1. /\ TypeOK /\ FoundInOrder /\ CellsBounded /\ Len(f) = M /\ M > 1 /\ last_idx < N
      /\ N = Len(text) /\ N \in Nat /\ M \in Nat /\ last_idx \in Nat /\ max_score_pos \in Nat
      /\ max_score \in Nat
  BY Arguments DEF IInv, TypeOK, Prepared
<1>2. PICK i \in Nat, best \in Nat : i = M - 1 /\ best = max_score_pos
  <2>1. M - 1 \in Nat
    BY <1>1
  <2> QED
    BY <1>1, <2>1
<1>3. At(f, i) \in Nat /\ At(f, 0) \in Nat
  <2>1. i \in 0 .. M - 1 /\ 0 \in 0 .. M - 1
    BY <1>1, <1>2
  <2> QED
    BY <1>1, <2>1, Columns0
<1>4. /\ best \in At(f, i) .. last_idx /\ h[<<i, best>>] = max_score /\ max_score > 0
      /\ \A col \in At(f, i) .. last_idx : h[<<i, col>>] <= max_score
  BY <1>2 DEF BestUpTo
<1>5. CellSound(i, best) /\ CellRight(i, best)
  BY <1>2, <1>4 DEF RowSound, RowRight
<1>6. c[<<i, best>>] \in Nat
  <2>1. c[<<i, best>>] \in 0 .. best - At(f, 0) + 1
    BY <1>5 DEF CellSound
  <2> QED
    BY <1>3, <2>1
<1>7. c[<<i, best>>] # 0
  <2> SUFFICES ASSUME c[<<i, best>>] = 0 PROVE FALSE
    OBVIOUS
  <2>1. best > At(f, i) /\ (h[<<i, best>>] = 0 \/ h[<<i, best>>] < h[<<i, best - 1>>])
    BY <1>5 DEF CellRight
  <2>2. PICK before \in Int : before = best - 1
    OBVIOUS
  <2>3. before \in At(f, i) .. last_idx
    BY <1>1, <1>3, <1>4, <2>1, <2>2
  <2>4. CellSound(i, before)
    BY <1>2, <2>3 DEF RowSound
  <2>5. h[<<i, before>>] \in Nat
    <3>1. <<i, before>> \in DOMAIN h /\ <<i, before>>[1] = i
      BY <2>4 DEF CellSound
    <3>2. h[<<i, before>>] \in 0 .. CellBound(i)
      BY <1>1, <3>1 DEF CellsBounded
    <3> QED
      BY <3>2
  <2>6. h[<<i, before>>] <= max_score
    BY <1>4, <2>3
  <2> QED
    BY <1>1, <1>4, <2>1, <2>2, <2>5, <2>6
<1>8. Scored(call.sensitive, text, pattern, i, best, max_score, c[<<i, best>>])
  BY <1>4, <1>5 DEF CellRight
<1>9. best \in Columns(text)
  BY <1>1, <1>4 DEF Columns
<1> QED
  BY <1>2, <1>6, <1>7, <1>8, <1>9

\* The end of a row keeps what is in the tables.
LEMMA TablesKept ==
  ASSUME UNCHANGED <<call, f, last_idx, h, c, max_score, max_score_pos>>
  PROVE  /\ \A i, to : RowRight(i, to) => RowRight(i, to)'
         /\ BestUpTo(last_idx) => BestUpTo(last_idx)'
<1>1. /\ text' = text /\ pattern' = pattern /\ call'.sensitive = call.sensitive /\ M' = M
      /\ \A k : At(f', k) = At(f, k)
  BY SameArguments
<1>2. ASSUME NEW i, NEW to, RowRight(i, to) PROVE RowRight(i, to)'
  <2> SUFFICES ASSUME NEW col \in At(f, i) .. to PROVE CellRight(i, col)'
    BY <1>1 DEF RowRight
  <2>1. CellRight(i, col)
    BY <1>2 DEF RowRight
  <2>2. h' = h /\ c' = c
    OBVIOUS
  <2> QED
    BY <1>1, <2>1, <2>2 DEF CellRight
<1>3. ASSUME BestUpTo(last_idx) PROVE BestUpTo(last_idx)'
  BY <1>1, <1>3 DEF BestUpTo
<1> QED
  BY <1>2, <1>3

\* A row is full; behind the last one the best score is the answer's.
LEMMA RowDoneRight ==
  ASSUME IInv, PromiseInv, RowDone
  PROVE  PromiseInv'
<1>1. /\ pc = "fill" /\ at > last_idx /\ FillPass /\ TypeOK /\ FoundInOrder
      /\ FillRight /\ BonusesRight /\ prefer_match /\ pos = <<>>
      /\ UNCHANGED <<call, f, last_idx, bo, h, c, max_score, max_score_pos, prefer_match, pos>>
  BY DEF RowDone, IInv, PromiseInv
<1>2. /\ Prepared /\ pidx \in 1 .. M - 1 /\ Len(f) = M /\ M > 1
      /\ at \in At(f, pidx) .. last_idx + 1
      /\ RowSound(pidx, at - 1)
  BY <1>1 DEF FillPass, Prepared
<1>3. /\ M \in Nat /\ at \in Nat /\ pidx \in Nat /\ last_idx \in Nat /\ At(f, pidx) \in Nat
      /\ At(f, pidx) <= last_idx
  <2>1. M \in Nat /\ at \in Nat /\ pidx \in Nat /\ last_idx \in Nat
    BY <1>1, Sizes DEF TypeOK
  <2>2. pidx \in Columns(f)
    BY <1>2, <2>1 DEF Columns
  <2>3. At(f, pidx) <= last_idx
    BY <1>1, <2>2 DEF FoundInOrder
  <2>4. At(f, pidx) \in Nat
    BY <1>1, <1>2, <2>1, Columns0
  <2> QED
    BY <2>1, <2>3, <2>4
<1>4. at - 1 = last_idx /\ at > At(f, pidx)
  BY <1>1, <1>2, <1>3
<1>5. /\ \A i \in 0 .. pidx - 1 : RowRight(i, last_idx)
      /\ RowRight(pidx, last_idx) /\ RowSound(pidx, last_idx)
      /\ pidx = M - 1 => BestUpTo(last_idx)
  BY <1>1, <1>2, <1>4 DEF FillRight
<1>6. \A i, to : RowRight(i, to) => RowRight(i, to)'
  BY <1>1, TablesKept
<1>7. BonusesRight'
  <2>1. text' = text /\ At(f', 0) = At(f, 0)
    BY <1>1, SameArguments
  <2> QED
    BY <1>1, <2>1 DEF BonusesRight
<1>8. CASE pidx < M - 1 /\ pidx' = pidx + 1 /\ pc' = "row"
  <2>1. \A i \in 0 .. pidx' - 1 : i \in 0 .. pidx - 1 \/ i = pidx
    BY <1>3, <1>8
  <2>2. \A i \in 0 .. pidx' - 1 : RowRight(i, last_idx)
    BY <1>5, <2>1
  <2>3. \A i \in 0 .. pidx' - 1 : RowRight(i, last_idx)'
    <3>1. last_idx' = last_idx
      BY <1>1
    <3>2. ASSUME NEW i \in 0 .. pidx' - 1 PROVE RowRight(i, last_idx)'
      BY <1>6, <2>2, <3>1
    <3> QED
      BY <3>2
  <2>4. Promise'
    BY <1>8 DEF Promise
  <2> QED
    BY <1>1, <1>7, <1>8, <2>3, <2>4 DEF PromiseInv
<1>9. CASE pidx = M - 1 /\ call.wantPos /\ pc' = "trace" /\ at' = max_score_pos /\ pidx' = pidx
  <2>1. M' = M /\ call'.wantPos
    BY <1>1, <1>9, SameArguments
  <2>2. RowRight(M - 1, last_idx)'
    <3>1. RowRight(M - 1, last_idx)
      BY <1>5, <1>9
    <3>2. M' - 1 = M - 1 /\ last_idx' = last_idx
      BY <1>1, <2>1
    <3> QED
      BY <1>6, <3>1, <3>2
  <2>3. BestUpTo(last_idx)'
    BY <1>1, <1>5, <1>9, TablesKept
  <2>4. pos' = <<>> /\ pidx' = M' - 1 /\ at' = max_score_pos' /\ prefer_match'
    BY <1>1, <1>9, <2>1
  <2>5. TraceRight'
    BY <2>1, <2>2, <2>3, <2>4 DEF TraceRight
  <2>6. Promise'
    BY <1>9 DEF Promise
  <2> QED
    BY <1>7, <1>9, <2>5, <2>6 DEF PromiseInv
<1>10. CASE /\ pidx = M - 1 /\ ~call.wantPos /\ pc' = "done"
            /\ result' = Result(max_score_pos, max_score_pos + 1, max_score, {})
  <2>1. PICK last : last = max_score_pos
    OBVIOUS
  <2>2. PICK run : run = c[<<M - 1, last>>]
    OBVIOUS
  <2>3. /\ last \in Columns(text) /\ last \in Nat /\ run > 0
        /\ Scored(call.sensitive, text, pattern, M - 1, last, max_score, run)
    BY <1>2, <1>5, <1>10, <2>1, <2>2, BestIsFound
  <2>4. Fits /\ call' = call /\ M > 0 /\ last \in 0 .. last
    BY <1>1, <1>2, <2>3 DEF Prepared
  <2>5. PICK columns : columns = {}
    OBVIOUS
  <2>6. result' = Result(last, last + 1, max_score, columns)
    BY <1>10, <2>1, <2>5
  <2> QED
    BY <1>10, <2>3, <2>4, <2>5, <2>6, DoneRight
<1> QED
  BY <1>8, <1>9, <1>10 DEF RowDone, Answer

\* The walk back takes the best cell of the last row.
LEMMA BestTaken ==
  ASSUME IInv, PromiseInv, pc = "trace", pos = <<>>
  PROVE  TakesColumn(pidx, at) /\ at = max_score_pos
<1>1. /\ TracePass /\ TypeOK /\ FoundInOrder /\ CellsBounded /\ TraceRight
  BY DEF IInv, PromiseInv
<1>2. /\ RowRight(M - 1, last_idx) /\ BestUpTo(last_idx) /\ pidx = M - 1 /\ at = max_score_pos
      /\ prefer_match
  BY <1>1 DEF TraceRight
<1>3. Prepared /\ RowSound(M - 1, last_idx) /\ M > 1 /\ Len(f) = M
  BY <1>1, <1>2 DEF TracePass, Prepared
<1>4. /\ M \in Nat /\ at \in Nat /\ pidx \in Nat /\ max_score \in Nat /\ At(f, pidx) \in Nat
      /\ last_idx \in Nat
  <2>1. M \in Nat /\ pidx \in 0 .. M - 1
    BY <1>1, Sizes DEF TypeOK, TracePass
  <2>2. At(f, pidx) \in Nat
    BY <1>1, <1>3, <2>1, Columns0
  <2> QED
    BY <1>1, <2>1, <2>2 DEF TypeOK
<1>5. c[<<pidx, at>>] > 0
  BY <1>2, <1>3, BestIsFound
<1>6. /\ at \in At(f, pidx) .. last_idx /\ h[<<pidx, at>>] = max_score /\ max_score > 0
      /\ \A col \in At(f, pidx) .. last_idx : col < at => h[<<pidx, col>>] < max_score
  BY <1>2 DEF BestUpTo
<1>7. h[<<pidx, at>>] > h[<<pidx - 1, at - 1>>]
  <2>1. CellRight(pidx, at) /\ pidx > 0
    BY <1>2, <1>3, <1>4, <1>6 DEF RowRight
  <2> QED
    BY <1>5, <2>1 DEF CellRight
<1>8. Diagonal(pidx, at) = h[<<pidx - 1, at - 1>>]
  <2>1. pidx > 0 /\ at >= At(f, pidx)
    BY <1>2, <1>3, <1>4, <1>6
  <2> QED
    BY <2>1 DEF Diagonal
<1>9. h[<<pidx, at>>] > Left(pidx, at)
  <2>1. CASE at > At(f, pidx)
    <3>1. PICK before \in Int : before = at - 1
      BY <1>4
    <3>2. before \in At(f, pidx) .. last_idx /\ before < at
      BY <1>4, <1>6, <2>1, <3>1
    <3>3. h[<<pidx, before>>] < max_score
      BY <1>6, <3>2
    <3>4. Left(pidx, at) = h[<<pidx, before>>]
      BY <2>1, <3>1 DEF Left
    <3>5. h[<<pidx, before>>] \in Nat
      <4>1. CellSound(pidx, before)
        BY <1>2, <1>3, <3>2 DEF RowSound
      <4>2. <<pidx, before>> \in DOMAIN h /\ <<pidx, before>>[1] = pidx
        BY <4>1 DEF CellSound
      <4>3. h[<<pidx, before>>] \in 0 .. CellBound(pidx)
        BY <1>1, <4>2 DEF CellsBounded
      <4> QED
        BY <4>3
    <3> QED
      BY <1>4, <1>6, <3>3, <3>4, <3>5
  <2>2. CASE ~(at > At(f, pidx))
    <3>1. Left(pidx, at) = 0
      BY <2>2 DEF Left
    <3> QED
      BY <1>6, <3>1
  <2> QED
    BY <2>1, <2>2
<1> QED
  BY <1>2, <1>7, <1>8, <1>9 DEF TakesColumn

\* The walk back ends with the columns of an occurrence.
LEMMA TraceRightStep ==
  ASSUME IInv, PromiseInv, Trace
  PROVE  PromiseInv'
<1> DEFINE taken == TakesColumn(pidx, at)
           shown == IF taken THEN Append(pos, at) ELSE pos
<1>1. /\ pc = "trace" /\ TracePass /\ TypeOK /\ FoundInOrder /\ TraceSpells
      /\ TraceRight /\ BonusesRight
      /\ UNCHANGED <<call, f, last_idx, bo, h, c, max_score, max_score_pos>>
      /\ pos' = shown
  BY DEF Trace, IInv, PromiseInv, AppendPos
<1>2. /\ call.wantPos /\ RowRight(M - 1, last_idx) /\ BestUpTo(last_idx)
      /\ pos # <<>> => At(pos, 0) = max_score_pos
  BY <1>1 DEF TraceRight
<1>3. /\ Prepared /\ Fits /\ M > 1 /\ RowSound(M - 1, last_idx) /\ M \in Nat /\ at \in Nat /\ pidx \in Nat
      /\ pos \in Seq(Nat) /\ Len(pos) \in Nat /\ pidx \in 0 .. M - 1
  <2>1. M \in Nat /\ pos \in Seq(Nat) /\ Len(pos) \in Nat /\ at \in Nat /\ pidx \in Nat
    BY <1>1, Sizes, LenProperties DEF TypeOK
  <2>2. Prepared /\ Fits /\ M > 1 /\ pidx \in 0 .. M - 1
    BY <1>1 DEF TracePass, Prepared
  <2>3. RowSound(M - 1, last_idx)
    BY <1>1, <2>1, <2>2 DEF TracePass
  <2> QED
    BY <2>1, <2>2, <2>3
<1>4. (taken => Matches(at, pidx)) /\ (pos = <<>> => taken /\ at = max_score_pos)
  BY <1>1, TakenColumns, BestTaken
<1>5. PICK best \in Nat, run \in {c[<<M - 1, max_score_pos>>]} :
        /\ best = max_score_pos /\ run > 0 /\ best \in Columns(text)
        /\ Scored(call.sensitive, text, pattern, M - 1, best, max_score, run)
  BY <1>2, <1>3, BestIsFound
<1>6. /\ taken => /\ Len(shown) = Len(pos) + 1 /\ At(shown, Len(pos)) = at
                  /\ \A k \in Columns(pos) : At(shown, k) = At(pos, k)
      /\ shown # <<>> /\ At(shown, 0) = best
      /\ shown \in Seq(Nat)
  <2>1. CASE taken
    <3>1. /\ shown = Append(pos, at) /\ shown \in Seq(Nat)
          /\ Len(shown) = Len(pos) + 1 /\ shown[Len(pos) + 1] = at
          /\ \A k \in 1 .. Len(pos) : shown[k] = pos[k]
      BY <1>3, <2>1, AppendProperties
    <3> HIDE DEF shown
    <3>2. \A k \in Columns(pos) : At(shown, k) = At(pos, k)
      BY <1>3, <3>1 DEF Columns, At
    <3>3. At(shown, Len(pos)) = at /\ shown # <<>>
      BY <1>3, <3>1, EmptySeq DEF At
    <3>4. At(shown, 0) = best
      <4>1. CASE pos = <<>>
        <5>1. Len(pos) = 0 /\ at = best
          BY <1>4, <1>5, <4>1, EmptySeq
        <5> QED
          BY <3>3, <5>1
      <4>2. CASE pos # <<>>
        <5>1. 0 \in Columns(pos)
          BY <1>3, <4>2, EmptySeq DEF Columns
        <5> QED
          BY <1>2, <1>5, <3>2, <4>2, <5>1
      <4> QED
        BY <4>1, <4>2
    <3> QED
      BY <3>1, <3>2, <3>3, <3>4
  <2>2. CASE ~taken
    BY <1>2, <1>3, <1>4, <1>5, <2>2
  <2> QED
    BY <2>1, <2>2
<1> HIDE DEF taken, shown
<1>7. CASE pc' = "trace"
  <2>1. M' = M /\ call'.wantPos /\ text' = text /\ At(f', 0) = At(f, 0)
    BY <1>1, <1>2, SameArguments
  <2>2. RowRight(M - 1, last_idx)'
    <3>1. M' - 1 = M - 1 /\ last_idx' = last_idx
      BY <1>1, <2>1
    <3>2. \A i, to : RowRight(i, to) => RowRight(i, to)'
      BY <1>1, TablesKept
    <3> QED
      BY <1>2, <3>1, <3>2
  <2>3. BestUpTo(last_idx)'
    BY <1>1, <1>2, TablesKept
  <2>4. pos' # <<>> /\ At(pos', 0) = max_score_pos'
    BY <1>1, <1>5, <1>6
  <2>5. TraceRight'
    BY <2>1, <2>2, <2>3, <2>4 DEF TraceRight
  <2>6. BonusesRight'
    BY <1>1, <2>1 DEF BonusesRight
  <2>7. Promise'
    BY <1>7 DEF Promise
  <2> QED
    BY <1>7, <2>5, <2>6, <2>7 DEF PromiseInv
<1>8. CASE /\ taken /\ pidx = 0 /\ pc' = "done"
           /\ result' = Result(at, max_score_pos + 1, max_score, Range(shown))
  <2>1. /\ Len(pos) = M - 1 /\ Len(shown) = M
        /\ \A k \in 0 .. M - 2 :
             /\ At(shown, k) = At(pos, k) /\ Matches(At(pos, k), M - 1 - k)
             /\ At(shown, k) > At(shown, k + 1)
        /\ At(shown, M - 1) = at /\ Matches(at, 0)
    <3>1. Len(pos) = M - 1 /\ Len(shown) = M /\ At(shown, M - 1) = at /\ Matches(at, 0)
      BY <1>1, <1>3, <1>4, <1>6, <1>8 DEF TraceSpells
    <3>2. \A k \in 0 .. M - 2 :
            /\ k \in Columns(pos)
            /\ At(shown, k) = At(pos, k)
            /\ Matches(At(pos, k), M - 1 - k)
            /\ At(pos, k) > (IF k = Len(pos) - 1 THEN at ELSE At(pos, k + 1))
      <4>1. \A k \in 0 .. M - 2 : k \in Columns(pos)
        BY <1>3, <3>1 DEF Columns
      <4> QED
        BY <1>1, <1>6, <1>8, <4>1 DEF TraceSpells
    <3>3. ASSUME NEW k \in 0 .. M - 2 PROVE At(shown, k) > At(shown, k + 1)
      <4>1. CASE k = M - 2
        <5>1. k = Len(pos) - 1 /\ k + 1 = M - 1
          BY <1>3, <3>1, <4>1
        <5> QED
          BY <3>1, <3>2, <5>1
      <4>2. CASE k # M - 2
        <5>1. PICK l \in 0 .. M - 2 : l = k + 1
          BY <1>3, <4>2
        <5>2. k # Len(pos) - 1
          BY <1>3, <3>1, <4>2
        <5> QED
          BY <3>2, <5>1, <5>2
      <4> QED
        BY <4>1, <4>2
    <3> QED
      BY <3>1, <3>2, <3>3
  <2>2. \A k \in 0 .. M - 1 : At(shown, k) \in Nat
    <3>1. \A i \in 1 .. M : shown[i] \in Nat
      BY <1>6, <2>1, ElementOfSeq
    <3> SUFFICES ASSUME NEW k \in 0 .. M - 1 PROVE At(shown, k) \in Nat
      OBVIOUS
    <3>2. PICK i \in 1 .. M : i = k + 1
      BY <1>3
    <3> QED
      BY <3>1, <3>2 DEF At
  <2>3. \A k \in 0 .. M - 1 : At(shown, k) <= best
    <3> DEFINE T == {k \in 0 .. M - 1 : At(shown, k) <= best}
    <3>1. 0 \in T
      BY <1>3, <1>6
    <3>2. ASSUME NEW k \in 0 .. (M - 1) - 1, k \in T PROVE k + 1 \in T
      <4>1. k \in 0 .. M - 2 /\ k \in 0 .. M - 1 /\ k + 1 \in 0 .. M - 1
        BY <1>3
      <4>2. At(shown, k) \in Nat /\ At(shown, k + 1) \in Nat /\ At(shown, k) > At(shown, k + 1)
        BY <2>1, <2>2, <4>1
      <4> QED
        BY <3>2, <4>1, <4>2
    <3>3. M - 1 \in Int
      BY <1>3
    <3> HIDE DEF T
    <3>4. \A k \in 0 .. M - 1 : k \in T
      BY <3>1, <3>2, <3>3, Climb
    <3> QED
      BY <3>4 DEF T
  <2>4. PICK m \in Nat : m = M - 1
    BY <1>3
  <2>5. PICK g : g = [p \in 0 .. m |-> At(shown, m - p)]
    OBVIOUS
  <2>6. /\ Len(text) \in Nat
        /\ \A k \in 0 .. m : At(shown, k) \in Columns(text)
    <3>1. Len(text) \in Nat /\ best < Len(text)
      BY <1>1, <1>5, Arguments DEF TypeOK, Columns
    <3> QED
      BY <2>2, <2>3, <2>4, <3>1 DEF Columns
  <2>7. PICK sensitive, string, pat : sensitive = call.sensitive /\ string = text /\ pat = pattern
    OBVIOUS
  <2>8. ASSUME NEW p \in 0 .. m
        PROVE  /\ g[p] \in Columns(string) /\ Same(sensitive, string, g[p], pat, p)
               /\ p > 0 => g[p - 1] < g[p]
    <3>1. PICK k \in 0 .. m : k = m - p
      OBVIOUS
    <3>2. g[p] = At(shown, k) /\ g[p] \in Columns(string)
      BY <2>5, <2>6, <2>7, <3>1
    <3>3. Matches(g[p], p)
      <4>1. CASE p = 0
        BY <2>1, <2>4, <3>1, <3>2, <4>1
      <4>2. CASE p # 0
        <5>1. k \in 0 .. M - 2 /\ M - 1 - k = p
          BY <1>3, <2>4, <3>1, <4>2
        <5> QED
          BY <2>1, <3>2, <5>1
      <4> QED
        BY <4>1, <4>2
    <3>4. ASSUME p > 0 PROVE g[p - 1] < g[p]
      <4>1. PICK q \in 0 .. m : q = p - 1
        BY <3>4
      <4>2. g[q] = At(shown, k + 1)
        <5>1. m - q = k + 1
          BY <3>1, <4>1
        <5> QED
          BY <2>5, <5>1
      <4>3. k \in 0 .. M - 2 /\ k \in 0 .. M - 1 /\ k + 1 \in 0 .. M - 1
        BY <1>3, <2>4, <3>1, <3>4
      <4>4. At(shown, k) > At(shown, k + 1) /\ At(shown, k) \in Nat /\ At(shown, k + 1) \in Nat
        BY <2>1, <2>2, <4>3
      <4> QED
        BY <3>2, <4>1, <4>2, <4>4
    <3> QED
      BY <2>7, <3>2, <3>3, <3>4 DEF Matches
  <2>9. PICK columns : columns = {g[p] : p \in 0 .. m}
    OBVIOUS
  <2>10. /\ Spelling(sensitive, string, pat, columns, m + 1)
         /\ \A p \in 0 .. m : g[0] <= g[p] /\ g[p] <= g[m]
    <3>1. Len(string) \in Nat /\ m \in Nat
      BY <2>6, <2>7
    <3>2. \A p \in 0 .. m : /\ g[p] \in Columns(string) /\ Same(sensitive, string, g[p], pat, p)
                            /\ p > 0 => g[p - 1] < g[p]
      BY <2>8
    <3>3. /\ Spelling(sensitive, string, pat, {g[p] : p \in 0 .. m}, m + 1)
          /\ \A p \in 0 .. m : g[0] <= g[p] /\ g[p] <= g[m]
      BY ONLY <3>1, <3>2, SpelledBy
    <3> QED
      BY <2>9, <3>3
  <2>11. columns \in Occurrences(sensitive, string, pat)
    <3>1. Len(string) \in Nat /\ Len(pat) = M /\ Len(pat) \in Nat \ {0} /\ m + 1 = Len(pat)
      BY <1>1, <2>4, <2>6, <2>7, Arguments DEF TypeOK
    <3> QED
      BY <2>10, <3>1, OccurrenceIs
  <2>12. Range(shown) = columns
    <3>1. DOMAIN shown = 1 .. M
      BY <1>6, <2>1, LenProperties
    <3>2. \A v : (\E k \in 1 .. M : v = shown[k]) <=> (\E p \in 0 .. m : v = g[p])
      <4>1. ASSUME NEW k \in 1 .. M PROVE \E p \in 0 .. m : shown[k] = g[p]
        <5>1. PICK p \in 0 .. m : p = M - k
          BY <1>3, <2>4
        <5>2. (m - p) + 1 = k
          BY <1>3, <2>4, <5>1
        <5>3. g[p] = shown[k]
          BY <2>5, <5>2 DEF At
        <5> QED
          BY <5>3
      <4>2. ASSUME NEW p \in 0 .. m PROVE \E k \in 1 .. M : g[p] = shown[k]
        <5>1. PICK k \in 1 .. M : k = (m - p) + 1
          BY <1>3, <2>4
        <5>2. g[p] = shown[k]
          BY <2>5, <5>1 DEF At
        <5> QED
          BY <5>2
      <4> QED
        BY <4>1, <4>2
    <3>3. \A v : v \in Range(shown) <=> \E k \in 1 .. M : v = shown[k]
      BY <3>1 DEF Range
    <3>4. \A v : v \in columns <=> \E p \in 0 .. m : v = g[p]
      BY <2>9
    <3> QED
      BY <3>2, <3>3, <3>4
  <2>13. /\ g[0] = at /\ g[m] = best
         /\ 0 \in 0 .. m /\ m \in 0 .. m
    <3>1. 0 \in 0 .. m /\ m \in 0 .. m /\ m - 0 = M - 1 /\ m - m = 0
      BY <2>4
    <3>2. g[0] = At(shown, m - 0) /\ g[m] = At(shown, m - m)
      BY <2>5, <3>1
    <3> QED
      BY <1>6, <2>1, <3>1, <3>2
  <2>14. PICK start \in Nat : start = at
    BY <1>3
  <2>15. /\ columns \in Occurrences(call.sensitive, text, pattern) /\ {start, best} \subseteq columns
         /\ \A k \in columns : k \in Int /\ start <= k /\ k <= best
         /\ start \in 0 .. best
    <3>1. {start, best} \subseteq columns
      BY <2>9, <2>13, <2>14
    <3>2. \A k \in columns : k \in Int /\ start <= k /\ k <= best
      <4>1. \A p \in 0 .. m : g[p] \in Int
        BY <2>8 DEF Columns
      <4> QED
        BY <2>9, <2>10, <2>13, <2>14, <4>1
    <3>3. start \in 0 .. best
      BY <3>1, <3>2
    <3> QED
      BY <2>7, <2>11, <3>1, <3>2, <3>3
  <2>16. Fits /\ call' = call /\ M > 0
    BY <1>1, <1>3
  <2>17. result' = Result(start, best + 1, max_score, columns)
    BY <1>5, <1>8, <2>12, <2>14
  <2> QED
    BY <1>2, <1>5, <1>8, <2>15, <2>16, <2>17, DoneRight
<1> QED
  <2>1. pc' = "trace" \/ /\ taken /\ pidx = 0 /\ pc' = "done"
                         /\ result' = Result(at, max_score_pos + 1, max_score, Range(shown))
    BY <1>1 DEF Trace, Answer, AppendPos, taken, shown
  <2> QED
    BY <1>7, <1>8, <2>1

\* Every step preserves what the tables hold.
LEMMA NextRight == IInv /\ PromiseInv /\ [Next]_vars => PromiseInv'
<1> SUFFICES ASSUME IInv, PromiseInv, [Next]_vars PROVE PromiseInv'
  OBVIOUS
<1>1. CASE NotFound \/ FallBack \/ Start
  BY <1>1, StartRight
<1>2. CASE BonusCell
  BY <1>2, BonusCellRight
<1>3. CASE BonusDone
  BY <1>3, BonusDoneRight
<1>4. CASE Row
  BY <1>4, RowRightNext
<1>5. CASE FillCell
  BY <1>5, FillCellRight
<1>6. CASE RowDone
  BY <1>6, RowDoneRight
<1>7. CASE Trace
  BY <1>7, TraceRightStep
<1>8. CASE UNCHANGED vars
  <2>1. UNCHANGED <<call, pc, at, pidx, f, last_idx, bo, h, c, in_gap, max_score, max_score_pos,
                    prefer_match, pos, result>>
    BY <1>8 DEF vars
  <2>2. /\ text' = text /\ pattern' = pattern /\ call'.sensitive = call.sensitive
        /\ firstColumns' = firstColumns /\ M' = M /\ N' = N
        /\ \A k, p : Matches(k, p)' = Matches(k, p)
    BY <2>1, SameArguments
  <2>3. /\ \A i, to : RowRight(i, to)' <=> RowRight(i, to)
        /\ BonusesRight' <=> BonusesRight
        /\ \A to : BestUpTo(to)' <=> BestUpTo(to)
    BY <2>1, <2>2 DEF RowRight, CellRight, BonusesRight, BestUpTo
  <2>4. /\ FirstRight' <=> FirstRight
        /\ \A col : BonusRight(col)' <=> BonusRight(col)
        /\ SingleRight' <=> SingleRight
    BY <2>1, <2>2 DEF FirstRight, BonusRight, SingleRight
  <2>5. (FillRight' <=> FillRight) /\ (TraceRight' <=> TraceRight)
    BY <2>1, <2>2, <2>3 DEF FillRight, TraceRight
  <2>6. Promise' <=> Promise
    BY <2>1, <2>2 DEF Promise
  <2> QED
    BY <2>1, <2>2, <2>3, <2>4, <2>5, <2>6 DEF PromiseInv
<1> QED
  BY <1>1, <1>2, <1>3, <1>4, <1>5, <1>6, <1>7, <1>8 DEF Next

\* The answer is the promised one, for all texts, patterns and slabs: a match is
\* reported where the pattern occurs and nowhere else, with the score of an
\* occurrence that ends where the answer says, and the columns to highlight are
\* those of an occurrence that ends there, whatever the slab held before.
THEOREM PromiseKept == Spec => []Promise
<1>1. Init => IInv /\ PromiseInv
  BY InitInv, InitRight
<1>2. IInv /\ PromiseInv /\ [Next]_vars => (IInv /\ PromiseInv)'
  BY NextInv, NextRight
<1>3. IInv /\ PromiseInv => Promise
  BY DEF PromiseInv
<1> QED
  BY <1>1, <1>2, <1>3, PTL DEF Spec
=============================================================================

--------------------------- MODULE FzfQueryProofs ---------------------------
(***************************************************************************)
(* Which texts a query keeps, for every query that is written or typed and *)
(* all texts; how the tokens of a query make its pattern; and that what is *)
(* clearly written is read as it was meant.                                *)
(***************************************************************************)
EXTENDS FzfQuery, SequenceTheorems, FiniteSetTheorems, WellFoundedInduction, TLAPS

-----------------------------------------------------------------------------
(* Numbers and sequences.                                                  *)

\* A set of numbers that is not empty has a least one.
LEMMA Least ==
  ASSUME NEW T \in SUBSET Nat, T # {}
  PROVE  \E n \in T : \A m \in T : n <= m
<1>1. PICK n \in T : \A m \in T : ~(<<m, n>> \in OpToRel(<, Nat))
  BY NatLessThanWellFounded, WFMin
<1>2. \A m \in T : m \in Nat /\ n \in Nat /\ ~(m < n)
  BY <1>1 DEF OpToRel
<1>3. \A m \in T : n <= m
  BY <1>2
<1> QED
  BY <1>3

\* Members of Seq(S) are sequences,
LEMMA SequenceOf ==
  ASSUME NEW S, NEW s \in Seq(S)
  PROVE  IsSequence(s)
<1>1. Len(s) \in Nat /\ s \in [1 .. Len(s) -> S] /\ DOMAIN s = 1 .. Len(s)
  BY LenProperties
<1>2. \A k \in 1 .. Len(s) : s[k] \in Range(s)
  BY <1>1 DEF Range
<1>3. s \in [1 .. Len(s) -> Range(s)]
  BY <1>1, <1>2
<1>4. s \in UNION {[1 .. n -> Range(s)] : n \in Nat}
  BY <1>1, <1>3
<1> QED
  BY <1>4, SeqDef DEF IsSequence

\* and a sequence has a length and elements.
LEMMA Elements ==
  ASSUME NEW s, IsSequence(s)
  PROVE  /\ Len(s) \in Nat /\ DOMAIN s = 1 .. Len(s) /\ s \in Seq(Range(s))
         /\ s \in [1 .. Len(s) -> Range(s)]
         /\ \A k \in 1 .. Len(s) : s[k] \in Range(s)
         /\ s = <<>> <=> Len(s) = 0
<1>1. s \in Seq(Range(s))
  BY DEF IsSequence
<1>2. Len(s) \in Nat /\ DOMAIN s = 1 .. Len(s) /\ s \in [1 .. Len(s) -> Range(s)]
  BY <1>1, LenProperties
<1>3. s = <<>> <=> Len(s) = 0
  BY <1>1, EmptySeq
<1> QED
  BY <1>1, <1>2, <1>3

\* Functions on an initial segment are sequences.
LEMMA FunctionSequence ==
  ASSUME NEW n \in Nat, NEW f, f = [k \in 1 .. n |-> f[k]]
  PROVE  IsSequence(f) /\ Len(f) = n /\ DOMAIN f = 1 .. n
<1> DEFINE S == {f[k] : k \in 1 .. n}
<1>1. f \in [1 .. n -> S]
  OBVIOUS
<1>2. f \in UNION {[1 .. m -> S] : m \in Nat}
  BY <1>1
<1>3. f \in Seq(S)
  BY <1>2, SeqDef
<1>4. DOMAIN f = 1 .. n
  BY <1>1
<1>5. Len(f) = n
  BY <1>3, <1>4
<1> QED
  BY <1>3, <1>4, <1>5, SequenceOf

\* Sequences of the same elements are equal.
LEMMA EqualSequences ==
  ASSUME NEW s, IsSequence(s), NEW t, IsSequence(t), Len(s) = Len(t),
         \A k \in 1 .. Len(s) : s[k] = t[k]
  PROVE  s = t
<1>1. s \in Seq(Range(s) \cup Range(t)) /\ t \in Seq(Range(s) \cup Range(t))
  <2>1. s \in Seq(Range(s)) /\ t \in Seq(Range(t))
    BY DEF IsSequence
  <2>2. Range(s) \subseteq Range(s) \cup Range(t) /\ Range(t) \subseteq Range(s) \cup Range(t)
    OBVIOUS
  <2> QED
    BY <2>1, <2>2, SeqMonotonic
<1> QED
  BY <1>1, SeqEqual

\* A part of a sequence is one.
LEMMA Part ==
  ASSUME NEW s, IsSequence(s), NEW a \in Nat, NEW b \in Nat, a # 0, b <= Len(s)
  PROVE  /\ IsSequence(SubSeq(s, a, b))
         /\ Len(SubSeq(s, a, b)) = IF a <= b THEN b - a + 1 ELSE 0
         /\ \A k \in 1 .. Len(SubSeq(s, a, b)) : SubSeq(s, a, b)[k] = s[a + k - 1]
<1>1. Len(s) \in Nat /\ \A k \in 1 .. Len(s) : s[k] \in Range(s)
  BY Elements
<1>2. \A k \in a .. b : s[k] \in Range(s)
  BY <1>1
<1>3. /\ SubSeq(s, a, b) \in Seq(Range(s))
      /\ Len(SubSeq(s, a, b)) = IF a <= b THEN b - a + 1 ELSE 0
      /\ \A k \in 1 .. b - a + 1 : SubSeq(s, a, b)[k] = s[a + k - 1]
  BY <1>2, SubSeqProperties
<1>4. \A k \in 1 .. Len(SubSeq(s, a, b)) : k \in 1 .. b - a + 1
  BY <1>3
<1> QED
  BY <1>3, <1>4, SequenceOf

\* A sequence read backwards
LEMMA Backwards ==
  ASSUME NEW s, IsSequence(s)
  PROVE  /\ IsSequence(Reverse(s)) /\ Len(Reverse(s)) = Len(s)
         /\ \A k \in 1 .. Len(s) : Reverse(s)[k] = s[Len(s) - k + 1]
<1>1. Len(s) \in Nat
  BY Elements
<1>2. PICK r : r = Reverse(s)
  OBVIOUS
<1>3. r = [k \in 1 .. Len(s) |-> s[(Len(s) - k) + 1]]
  BY <1>2 DEF Reverse
<1>4. r = [k \in 1 .. Len(s) |-> r[k]]
  BY <1>3
<1>5. IsSequence(r) /\ Len(r) = Len(s)
  BY <1>1, <1>4, FunctionSequence
<1> QED
  BY <1>2, <1>3, <1>5

\* A sequence behind another one
LEMMA Concatenated ==
  ASSUME NEW s, IsSequence(s), NEW t, IsSequence(t)
  PROVE  IsSequence(s \o t)
<1>1. s \in Seq(Range(s) \cup Range(t)) /\ t \in Seq(Range(s) \cup Range(t))
  <2>1. s \in Seq(Range(s)) /\ t \in Seq(Range(t))
    BY DEF IsSequence
  <2>2. Range(s) \subseteq Range(s) \cup Range(t) /\ Range(t) \subseteq Range(s) \cup Range(t)
    OBVIOUS
  <2> QED
    BY <2>1, <2>2, SeqMonotonic
<1>2. s \o t \in Seq(Range(s) \cup Range(t))
  BY <1>1, ConcatProperties
<1> QED
  BY <1>2, SequenceOf

\* Sequences that are written down
LEMMA Literals ==
  /\ IsSequence(<<>>)
  /\ \A a : IsSequence(<<a>>)
  /\ \A a, b : IsSequence(<<a, b>>)
  /\ \A a, b, c : IsSequence(<<a, b, c>>)
<1>1. <<>> \in Seq({})
  BY EmptySeq
<1>2. \A a : <<a>> \in Seq({a})
  OBVIOUS
<1>3. \A a, b : <<a, b>> \in Seq({a, b})
  OBVIOUS
<1>4. \A a, b, c : <<a, b, c>> \in Seq({a, b, c})
  OBVIOUS
<1> QED
  BY <1>1, <1>2, <1>3, <1>4, SequenceOf

\* What FlattenSeq computes, step by step
IsFlattening(seqs, n, f) ==
  f = [k \in 1 .. n |-> IF k = 1 THEN seqs[k] ELSE f[k - 1] \o seqs[k]]

\* The steps can be taken.
LEMMA FlatteningExists ==
  ASSUME NEW seqs, NEW size \in Nat
  PROVE  \E f : IsFlattening(seqs, size, f)
<1> DEFINE T == {n \in Nat : ~\E f : IsFlattening(seqs, n, f)}
<1> SUFFICES ASSUME T # {} PROVE FALSE
  OBVIOUS
<1>1. T \in SUBSET Nat
  OBVIOUS
<1>2. PICK n \in T : \A m \in T : n <= m
  BY <1>1, Least
<1>3. n \in Nat /\ ~\E f : IsFlattening(seqs, n, f)
  BY <1>2
<1>4. n # 0
  <2> SUFFICES ASSUME n = 0 PROVE FALSE
    BY <1>3
  <2>1. PICK f : f = [k \in 1 .. 0 |-> 0]
    OBVIOUS
  <2>2. \A k : ~(k \in 1 .. 0)
    OBVIOUS
  <2>3. f = [k \in 1 .. n |-> IF k = 1 THEN seqs[k] ELSE f[k - 1] \o seqs[k]]
    BY <2>1, <2>2
  <2> QED
    BY <1>3, <2>3 DEF IsFlattening
<1>5. PICK f : IsFlattening(seqs, n - 1, f)
  <2>1. n - 1 \in Nat /\ ~(n <= n - 1)
    BY <1>3, <1>4
  <2> QED
    BY <1>2, <2>1
<1>6. PICK g : g = [k \in 1 .. n |-> IF k = 1 THEN seqs[k] ELSE f[k - 1] \o seqs[k]]
  OBVIOUS
<1>7. \A k \in 1 .. n - 1 : f[k] = g[k]
  <2>1. \A k \in 1 .. n - 1 : k \in 1 .. n
    BY <1>3
  <2> QED
    BY <1>5, <1>6, <2>1 DEF IsFlattening
<1>8. \A k \in 1 .. n : k # 1 => k - 1 \in 1 .. n - 1
  BY <1>3
<1>9. \A k \in 1 .. n : k # 1 => f[k - 1] = g[k - 1]
  BY <1>7, <1>8
<1>10. g = [k \in 1 .. n |-> IF k = 1 THEN seqs[k] ELSE g[k - 1] \o seqs[k]]
  BY <1>6, <1>9
<1> QED
  BY <1>3, <1>10 DEF IsFlattening

\* Each of them has a sequence.
LEMMA FlatteningOfSequences ==
  ASSUME NEW seqs, NEW size \in Nat, \A k \in 1 .. size : IsSequence(seqs[k]),
         NEW f, IsFlattening(seqs, size, f)
  PROVE  \A k \in 1 .. size : IsSequence(f[k])
<1> DEFINE T == {k \in 1 .. size : ~IsSequence(f[k])}
<1> SUFFICES ASSUME T # {} PROVE FALSE
  OBVIOUS
<1>1. T \in SUBSET Nat
  OBVIOUS
<1>2. PICK n \in T : \A m \in T : n <= m
  BY <1>1, Least
<1>3. n \in 1 .. size /\ ~IsSequence(f[n])
  BY <1>2
<1>4. f[n] = IF n = 1 THEN seqs[n] ELSE f[n - 1] \o seqs[n]
  BY <1>3 DEF IsFlattening
<1>5. CASE n = 1
  BY <1>3, <1>4, <1>5
<1>6. CASE n # 1
  <2>1. n - 1 \in 1 .. size /\ ~(n <= n - 1)
    BY <1>3, <1>6
  <2>2. IsSequence(f[n - 1])
    BY <1>2, <2>1
  <2>3. PICK r : r = f[n - 1]
    OBVIOUS
  <2>4. PICK u : u = seqs[n]
    OBVIOUS
  <2>5. IsSequence(r \o u)
    BY <1>3, <2>2, <2>3, <2>4, Concatenated
  <2> QED
    BY <1>3, <1>4, <1>6, <2>3, <2>4, <2>5
<1> QED
  BY <1>5, <1>6

\* A sequence of sequences, one behind the other, is one.
LEMMA Flattened ==
  ASSUME NEW seqs, IsSequence(seqs), \A k \in DOMAIN seqs : IsSequence(seqs[k])
  PROVE  IsSequence(FlattenSeq(seqs))
<1>1. Len(seqs) \in Nat /\ DOMAIN seqs = 1 .. Len(seqs)
  BY Elements
<1>2. CASE Len(seqs) = 0
  <2>1. FlattenSeq(seqs) = seqs
    BY <1>2 DEF FlattenSeq
  <2> QED
    BY <2>1
<1>3. CASE Len(seqs) # 0
  <2>1. PICK f : /\ f = (CHOOSE g : IsFlattening(seqs, Len(seqs), g))
                 /\ IsFlattening(seqs, Len(seqs), f)
    BY <1>1, FlatteningExists
  <2>2. FlattenSeq(seqs) = f[Len(seqs)]
    BY <1>3, <2>1 DEF FlattenSeq, IsFlattening
  <2>3. Len(seqs) \in 1 .. Len(seqs)
    BY <1>1, <1>3
  <2>4. \A k \in 1 .. Len(seqs) : IsSequence(f[k])
    BY <1>1, <2>1, FlatteningOfSequences
  <2> QED
    BY <2>2, <2>3, <2>4
<1> QED
  BY <1>2, <1>3

-----------------------------------------------------------------------------
(* What is looked at is a sequence of characters.                          *)

\* str_replace of a sequence
LEMMA EscapedIsSequence ==
  ASSUME NEW string, IsSequence(string)
  PROVE  IsSequence(Escaped(string))
<1> DEFINE Pair(k) == k \in 1 .. Len(string) - 1 /\ string[k] = "\\" /\ IsSpace(string[k + 1])
           Piece(k) == IF Pair(k) THEN <<"\t">> ELSE IF Pair(k - 1) THEN <<>> ELSE <<string[k]>>
<1>1. PICK pieces : pieces = [k \in DOMAIN string |-> Piece(k)]
  OBVIOUS
<1>2. Escaped(string) = FlattenSeq(pieces)
  BY <1>1 DEF Escaped
<1>3. \A k : IsSequence(Piece(k))
  BY Literals
<1> HIDE DEF Piece
<1>4. Len(string) \in Nat /\ DOMAIN string = 1 .. Len(string)
  BY Elements
<1>5. pieces = [k \in 1 .. Len(string) |-> pieces[k]]
  BY <1>1, <1>4
<1>6. IsSequence(pieces)
  BY <1>4, <1>5, FunctionSequence
<1>7. \A k \in DOMAIN pieces : IsSequence(pieces[k])
  BY <1>1, <1>3
<1> QED
  BY <1>2, <1>6, <1>7, Flattened

\* A term as it is written
LEMMA RenderTermIsSequence ==
  ASSUME NEW term, IsSequence(term.body)
  PROVE  IsSequence(RenderTerm(term))
<1> DEFINE Piece(k) == IF IsSpace(term.body[k]) THEN <<"\\", " ">> ELSE <<term.body[k]>>
<1>1. PICK pieces : pieces = [k \in DOMAIN term.body |-> Piece(k)]
  OBVIOUS
<1>2. Quoted(term.body) = FlattenSeq(pieces)
  BY <1>1 DEF Quoted
<1>3. \A k : IsSequence(Piece(k))
  BY Literals
<1> HIDE DEF Piece
<1>4. Len(term.body) \in Nat /\ DOMAIN term.body = 1 .. Len(term.body)
  BY Elements
<1>5. pieces = [k \in 1 .. Len(term.body) |-> pieces[k]]
  BY <1>1, <1>4
<1>6. IsSequence(pieces)
  BY <1>4, <1>5, FunctionSequence
<1>7. \A k \in DOMAIN pieces : IsSequence(pieces[k])
  BY <1>1, <1>3
<1>8. IsSequence(Quoted(term.body))
  BY <1>2, <1>6, <1>7, Flattened
<1>9. PICK bang : bang = (IF term.inv THEN <<"!">> ELSE <<>>)
  OBVIOUS
<1>10. PICK sign : sign = (CASE term.kind \in {"prefix", "equal"} -> <<"^">>
                            [] term.kind = "exact" /\ fuzzy /\ ~term.inv -> <<"'">>
                            [] OTHER -> <<>>)
  OBVIOUS
<1>11. PICK dollar : dollar = (IF term.kind \in {"suffix", "equal"} THEN <<"$">> ELSE <<>>)
  OBVIOUS
<1>12. RenderTerm(term) = bang \o sign \o Quoted(term.body) \o dollar
  BY <1>9, <1>10, <1>11 DEF RenderTerm
<1>13. IsSequence(bang)
  BY <1>9, Literals
<1>14. IsSequence(sign)
  <2>1. sign = <<"^">> \/ sign = <<"'">> \/ sign = <<>>
    BY <1>10
  <2> QED
    BY <2>1, Literals
<1>15. IsSequence(dollar)
  BY <1>11, Literals
<1>16. PICK quoted : quoted = Quoted(term.body)
  OBVIOUS
<1>17. IsSequence(bang \o sign)
  BY <1>13, <1>14, Concatenated
<1>18. IsSequence(bang \o sign \o quoted)
  BY <1>8, <1>16, <1>17, Concatenated
<1>19. IsSequence(bang \o sign \o quoted \o dollar)
  BY <1>15, <1>18, Concatenated
<1> QED
  BY <1>12, <1>16, <1>19

\* and as it is joined with others
LEMMA JoinedIsSequence ==
  ASSUME NEW strings, IsSequence(strings), \A k \in DOMAIN strings : IsSequence(strings[k]),
         NEW between, IsSequence(between)
  PROVE  IsSequence(Joined(strings, between))
<1> DEFINE Piece(k) == IF k = 1 THEN strings[k] ELSE between \o strings[k]
<1>1. PICK pieces : pieces = [k \in DOMAIN strings |-> Piece(k)]
  OBVIOUS
<1>2. Joined(strings, between) = FlattenSeq(pieces)
  BY <1>1 DEF Joined
<1>3. ASSUME NEW k \in DOMAIN strings PROVE IsSequence(Piece(k))
  <2>1. PICK string : string = strings[k]
    OBVIOUS
  <2>2. IsSequence(string) /\ IsSequence(between \o string)
    BY <2>1, Concatenated
  <2> QED
    BY <2>1, <2>2
<1> HIDE DEF Piece
<1>4. Len(strings) \in Nat /\ DOMAIN strings = 1 .. Len(strings)
  BY Elements
<1>5. pieces = [k \in 1 .. Len(strings) |-> pieces[k]]
  BY <1>1, <1>4
<1>6. IsSequence(pieces)
  BY <1>4, <1>5, FunctionSequence
<1>7. \A k \in DOMAIN pieces : IsSequence(pieces[k])
  BY <1>1, <1>3
<1> QED
  BY <1>2, <1>6, <1>7, Flattened

\* What users write is a sequence of characters.
LEMMA RenderIsSequence ==
  ASSUME NEW meaning \in Meanings
  PROVE  IsSequence(Render(meaning))
<1>1. /\ IsSequence(meaning)
      /\ \A k \in DOMAIN meaning : /\ IsSequence(meaning[k])
                                   /\ \A l \in DOMAIN meaning[k] : IsSequence(meaning[k][l].body)
  BY QueriesAssumption
<1> DEFINE Terms(k) == [l \in DOMAIN meaning[k] |-> RenderTerm(meaning[k][l])]
           Piece(k) == Joined(Terms(k), <<" ", "|", " ">>)
<1>2. PICK pieces : pieces = [k \in DOMAIN meaning |-> Piece(k)]
  OBVIOUS
<1>3. Render(meaning) = Joined(pieces, <<" ">>)
  BY <1>2 DEF Render
<1>4. ASSUME NEW k \in DOMAIN meaning PROVE IsSequence(Piece(k))
  <2>1. PICK inner : inner = meaning[k]
    OBVIOUS
  <2>2. IsSequence(inner) /\ \A l \in DOMAIN inner : IsSequence(inner[l].body)
    BY <1>1, <2>1
  <2>3. PICK terms : terms = [l \in DOMAIN inner |-> RenderTerm(inner[l])]
    OBVIOUS
  <2>4. ASSUME NEW l \in DOMAIN inner PROVE IsSequence(RenderTerm(inner[l]))
    <3>1. PICK term : term = inner[l]
      OBVIOUS
    <3>2. IsSequence(RenderTerm(term))
      BY <2>2, <3>1, RenderTermIsSequence
    <3> QED
      BY <3>1, <3>2
  <2>5. \A l \in DOMAIN terms : IsSequence(terms[l])
    BY <2>3, <2>4
  <2>6. Len(inner) \in Nat /\ DOMAIN inner = 1 .. Len(inner)
    BY <2>2, Elements
  <2>7. terms = [l \in 1 .. Len(inner) |-> terms[l]]
    BY <2>3, <2>6
  <2>8. IsSequence(terms)
    BY <2>6, <2>7, FunctionSequence
  <2>9. PICK bar : bar = <<" ", "|", " ">> /\ IsSequence(bar)
    BY Literals
  <2>10. IsSequence(Joined(terms, bar))
    BY <2>5, <2>8, <2>9, JoinedIsSequence
  <2> QED
    BY <2>1, <2>3, <2>9, <2>10
<1> HIDE DEF Piece
<1>5. Len(meaning) \in Nat /\ DOMAIN meaning = 1 .. Len(meaning)
  BY <1>1, Elements
<1>6. pieces = [k \in 1 .. Len(meaning) |-> pieces[k]]
  BY <1>2, <1>5
<1>7. IsSequence(pieces)
  BY <1>5, <1>6, FunctionSequence
<1>8. \A k \in DOMAIN pieces : IsSequence(pieces[k])
  BY <1>2, <1>4
<1>9. PICK blank : blank = <<" ">> /\ IsSequence(blank)
  BY Literals
<1>10. IsSequence(Joined(pieces, blank))
  BY <1>7, <1>8, <1>9, JoinedIsSequence
<1> QED
  BY <1>3, <1>9, <1>10

-----------------------------------------------------------------------------
(* Tokens and terms.                                                       *)

\* strtok finds a token in what is not blank: it starts at the first character
\* that is no blank and ends before the next blank.
LEMMA TokenFound ==
  ASSUME NEW string, IsSequence(string), ~Blank(string)
  PROVE  /\ TokenSpan(string) \in (1 .. Len(string)) \X (1 .. Len(string))
         /\ TokenSpan(string)[1] <= TokenSpan(string)[2]
         /\ Blank(SubSeq(string, 1, TokenSpan(string)[1] - 1))
         /\ \A k \in TokenSpan(string)[1] .. TokenSpan(string)[2] : ~IsSpace(string[k])
         /\ TokenSpan(string)[2] < Len(string) => IsSpace(string[TokenSpan(string)[2] + 1])
<1>1. Len(string) \in Nat /\ DOMAIN string = 1 .. Len(string)
  BY Elements
<1>2. PICK a : /\ a \in Nat /\ 1 <= a /\ a <= Len(string) /\ ~IsSpace(string[a])
               /\ \A k \in 1 .. a - 1 : IsSpace(string[k])
  <2> DEFINE F == {k \in Nat : k \in 1 .. Len(string) /\ ~IsSpace(string[k])}
  <2>1. F # {}
    BY <1>1 DEF Blank
  <2>2. F \in SUBSET Nat
    OBVIOUS
  <2>3. \E a \in F : \A k \in F : a <= k
    BY <2>1, <2>2, Least
  <2>4. PICK a : a \in F /\ \A k \in F : a <= k
    BY <2>3
  <2>5. a \in Nat /\ a \in 1 .. Len(string) /\ ~IsSpace(string[a])
    BY <2>4
  <2>6. ASSUME NEW k \in 1 .. a - 1 PROVE IsSpace(string[k])
    <3>1. k \in Nat /\ k \in 1 .. Len(string) /\ ~(a <= k)
      BY <1>1, <2>5
    <3> QED
      BY <2>4, <3>1
  <2> HIDE DEF F
  <2> QED
    BY <1>1, <2>5, <2>6
<1>3. PICK b : /\ b \in Nat /\ a <= b /\ b <= Len(string)
               /\ b < Len(string) => IsSpace(string[b + 1])
               /\ \A k \in a .. b : ~IsSpace(string[k])
  <2> DEFINE E == {k \in Nat : k \in a .. Len(string) /\ (k = Len(string) \/ IsSpace(string[k + 1]))}
  <2>1. Len(string) \in E
    BY <1>1, <1>2
  <2>2. E \in SUBSET Nat
    OBVIOUS
  <2>3. \E b \in E : \A k \in E : b <= k
    BY <2>1, <2>2, Least
  <2>4. PICK b : b \in E /\ \A k \in E : b <= k
    BY <2>3
  <2>5. b \in Nat /\ b \in a .. Len(string) /\ (b = Len(string) \/ IsSpace(string[b + 1]))
    BY <2>4
  <2> HIDE DEF E
  <2>51. a \in Nat /\ 1 <= a
    BY <1>2
  <2>52. b \in Nat /\ b \in a .. Len(string)
    BY <2>5
  <2>8. a <= b /\ b <= Len(string)
    BY <1>1, <2>51, <2>52
  <2>6. ASSUME NEW k \in a .. b, IsSpace(string[k]) PROVE FALSE
    <3>1. k # a
      BY <1>2, <2>6
    <3>2. k \in Nat /\ a <= k /\ k <= b
      BY <2>51, <2>52
    <3>3. PICK l : l = k - 1
      OBVIOUS
    <3>4. l \in Nat /\ l \in a .. Len(string) /\ l + 1 = k /\ ~(b <= l)
      BY <1>1, <2>51, <2>52, <2>8, <3>1, <3>2, <3>3
    <3>5. l \in E
      BY <2>6, <3>4 DEF E
    <3> QED
      BY <2>4, <3>4, <3>5
  <2>7. b = Len(string) => ~(b < Len(string))
    BY <1>1
  <2> QED
    BY <2>5, <2>6, <2>7, <2>8
<1>4. Blank(SubSeq(string, 1, a - 1))
  <2>1. a - 1 \in Nat /\ a - 1 <= Len(string) /\ (IF 1 <= a - 1 THEN a - 1 - 1 + 1 ELSE 0) = a - 1
    BY <1>1, <1>2
  <2>2. PICK lead : lead = SubSeq(string, 1, a - 1)
    OBVIOUS
  <2>3. /\ IsSequence(lead) /\ Len(lead) = a - 1
        /\ \A k \in 1 .. Len(lead) : lead[k] = string[1 + k - 1]
    BY <2>1, <2>2, Part
  <2>4. DOMAIN lead = 1 .. a - 1
    BY <2>3, Elements
  <2>5. \A k \in 1 .. a - 1 : 1 + k - 1 = k
    OBVIOUS
  <2>6. Blank(lead)
    BY <1>2, <2>3, <2>4, <2>5 DEF Blank
  <2> QED
    BY <2>2, <2>6
<1> DEFINE Found(span) == /\ span[1] <= span[2]
                          /\ Blank(SubSeq(string, 1, span[1] - 1))
                          /\ \A k \in span[1] .. span[2] : ~IsSpace(string[k])
                          /\ span[2] < Len(string) => IsSpace(string[span[2] + 1])
<1>5. PICK span : span = <<a, b>>
  OBVIOUS
<1>6. span[1] = a /\ span[2] = b /\ span \in (DOMAIN string) \X (DOMAIN string)
  <2>1. a \in DOMAIN string /\ b \in DOMAIN string
    BY <1>1, <1>2, <1>3
  <2> QED
    BY <1>5, <2>1
<1>7. Found(span)
  BY <1>3, <1>4, <1>6
<1>8. TokenSpan(string) = CHOOSE s \in (DOMAIN string) \X (DOMAIN string) : Found(s)
  BY DEF TokenSpan
<1>9. TokenSpan(string) \in (DOMAIN string) \X (DOMAIN string) /\ Found(TokenSpan(string))
  <2> HIDE DEF Found
  <2> QED
    BY <1>6, <1>7, <1>8
<1> QED
  BY <1>1, <1>9

\* So the token and what is behind it are sequences.
LEMMA TokenIsSequence ==
  ASSUME NEW string, IsSequence(string), ~Blank(string)
  PROVE  IsSequence(Token(string)) /\ IsSequence(Behind(string))
<1>1. PICK span : span = TokenSpan(string)
  OBVIOUS
<1>2. span \in (1 .. Len(string)) \X (1 .. Len(string)) /\ span[1] <= span[2]
  BY <1>1, TokenFound
<1>3. Len(string) \in Nat
  BY Elements
<1>4. PICK a, b : a = span[1] /\ b = span[2]
  OBVIOUS
<1>5. /\ a \in Nat /\ a # 0 /\ b \in Nat /\ b <= Len(string)
      /\ b + 1 \in Nat /\ b + 1 # 0 /\ Len(string) <= Len(string)
  BY <1>2, <1>3, <1>4
<1>6. IsSequence(SubSeq(string, a, b))
  BY <1>5, Part
<1>7. IsSequence(SubSeq(string, b + 1, Len(string)))
  BY <1>3, <1>5, Part
<1> QED
  BY <1>1, <1>4, <1>6, <1>7 DEF Token, Behind

\* A term as fzf_parse_pattern makes it
TermOK(term) ==
  /\ term.kind \in {"fuzzy", "exact", "prefix", "suffix", "equal"}
  /\ term.inv \in BOOLEAN /\ term.sensitive \in BOOLEAN
  /\ IsSequence(term.body)

\* The rest of a sequence behind its first element, and before its last one
LEMMA Cut ==
  ASSUME NEW s, IsSequence(s), s # <<>>
  PROVE  IsSequence(Tail(s)) /\ IsSequence(Front(s))
<1>1. s \in Seq(Range(s)) /\ Len(s) \in Nat /\ Len(s) # 0
  BY Elements
<1>2. Tail(s) \in Seq(Range(s))
  BY <1>1, HeadTailProperties
<1>3. Len(s) - 1 \in Nat /\ Len(s) - 1 <= Len(s)
  BY <1>1
<1>4. IsSequence(SubSeq(s, 1, Len(s) - 1))
  BY <1>3, Part
<1> QED
  BY <1>2, <1>4, SequenceOf DEF Front

\* What stands around a body leaves it a sequence,
LEMMA TermRead ==
  ASSUME NEW text, IsSequence(text), NEW sensitive \in BOOLEAN
  PROVE  TermOK(TermOf(text, sensitive))
<1> DEFINE inv == HasPrefix(text, "!")
           body == IF inv THEN Tail(text) ELSE text
           dollar == body # <<"$">> /\ HasSuffix(body, "$")
           short == IF dollar THEN Front(body) ELSE body
           quote == HasPrefix(short, "'")
           caret == HasPrefix(short, "^")
           kind == CASE quote -> IF fuzzy /\ ~inv THEN "exact" ELSE "fuzzy"
                     [] caret -> IF dollar THEN "equal" ELSE "prefix"
                     [] dollar /\ ~quote /\ ~caret -> "suffix"
                     [] OTHER -> IF fuzzy /\ ~inv THEN "fuzzy" ELSE "exact"
           last == IF quote \/ caret THEN Tail(short) ELSE short
<1>1. TermOf(text, sensitive) = [kind |-> kind, inv |-> inv, sensitive |-> sensitive, body |-> last]
  BY DEF TermOf
<1> HIDE DEF last, kind, caret, quote, short, dollar, body, inv
<1>2. IsSequence(body)
  <2>1. inv => text # <<>>
    BY DEF HasPrefix, inv
  <2> QED
    BY <2>1, Cut DEF body
<1>3. IsSequence(short)
  <2>1. dollar => body # <<>>
    BY DEF HasSuffix, dollar
  <2> QED
    BY <1>2, <2>1, Cut DEF short
<1>4. IsSequence(last)
  <2>1. quote \/ caret => short # <<>>
    BY DEF HasPrefix, quote, caret
  <2> QED
    BY <1>3, <2>1, Cut DEF last
<1>5. kind \in {"fuzzy", "exact", "prefix", "suffix", "equal"}
  BY DEF kind
<1>6. inv \in BOOLEAN
  BY DEF HasPrefix, inv
<1> QED
  BY <1>1, <1>4, <1>5, <1>6 DEF TermOK

\* so that every token is read as a term.
LEMMA TokenRead ==
  ASSUME NEW token, IsSequence(token)
  PROVE  TermOK(ReadTerm(token))
<1> DEFINE plain == [k \in DOMAIN token |-> IF token[k] = "\t" THEN " " ELSE token[k]]
           sensitive == \/ case_mode = "respect"
                        \/ case_mode = "smart" /\ plain # LowerText(plain)
           text == IF sensitive THEN plain ELSE LowerText(plain)
<1>1. ReadTerm(token) = TermOf(text, sensitive)
  BY DEF ReadTerm
<1> HIDE DEF text, sensitive, plain
<1>2. Len(token) \in Nat /\ DOMAIN token = 1 .. Len(token)
  BY Elements
<1>3. IsSequence(plain) /\ DOMAIN plain = 1 .. Len(plain) /\ Len(plain) \in Nat
  <2>1. plain = [k \in 1 .. Len(token) |-> plain[k]]
    BY <1>2 DEF plain
  <2> QED
    BY <1>2, <2>1, FunctionSequence
<1>4. IsSequence(LowerText(plain))
  <2>1. PICK lower : lower = LowerText(plain)
    OBVIOUS
  <2>2. lower = [k \in 1 .. Len(plain) |-> lower[k]]
    BY <1>3, <2>1 DEF LowerText
  <2> QED
    BY <1>3, <2>1, <2>2, FunctionSequence
<1>5. IsSequence(text)
  BY <1>3, <1>4 DEF text
<1>6. sensitive \in BOOLEAN
  BY DEF sensitive
<1> QED
  BY <1>1, <1>5, <1>6, TermRead

\* The least number of an interval in a set
LEMMA LeastFrom ==
  ASSUME NEW o \in Int, NEW T \in SUBSET Int, T # {}, \A m \in T : o <= m
  PROVE  \E n \in T : \A m \in T : n <= m
<1> DEFINE D == {d \in Nat : o + d \in T}
<1>1. D \in SUBSET Nat /\ D # {}
  <2>1. PICK m \in T : m \in Int /\ o <= m
    OBVIOUS
  <2>2. m - o \in Nat /\ o + (m - o) = m
    BY <2>1
  <2>3. m - o \in D
    BY <2>1, <2>2
  <2> QED
    BY <2>3
<1>2. PICK d \in D : \A e \in D : d <= e
  BY <1>1, Least
<1>3. ASSUME NEW m \in T PROVE o + d <= m
  <2>1. m - o \in Nat /\ o + (m - o) = m
    OBVIOUS
  <2>2. d <= m - o
    BY <1>2, <2>1
  <2> QED
    BY <2>1, <2>2
<1> QED
  BY <1>2, <1>3

\* f starts from s and goes on by its step, from o to n.
IsRecursion(o, n, s, step, f) ==
  f = [k \in o .. n |-> step[k][IF k = o THEN s ELSE f[k - 1]]]

\* Such a function exists for every step from values to values.
LEMMA Recursion ==
  ASSUME NEW o \in Int, NEW n \in Int, NEW V, NEW s \in V, NEW step \in [Int -> [V -> V]]
  PROVE  /\ \E f : IsRecursion(o, n, s, step, f)
         /\ \A f : IsRecursion(o, n, s, step, f) => f \in [o .. n -> V]
<1>1. ASSUME NEW f, IsRecursion(o, n, s, step, f) PROVE f \in [o .. n -> V]
  <2>1. f = [k \in o .. n |-> step[k][IF k = o THEN s ELSE f[k - 1]]]
    BY <1>1 DEF IsRecursion
  <2> DEFINE T == {k \in o .. n : f[k] \notin V}
  <2>2. SUFFICES ASSUME T # {} PROVE FALSE
    BY <2>1
  <2>3. T \in SUBSET Int /\ \A m \in T : o <= m
    OBVIOUS
  <2>4. PICK k \in T : \A m \in T : k <= m
    BY <2>2, <2>3, LeastFrom
  <2>5. k \in Int /\ k \in o .. n /\ f[k] \notin V
    OBVIOUS
  <2>6. f[k] = step[k][IF k = o THEN s ELSE f[k - 1]]
    BY <2>1, <2>5
  <2>7. (IF k = o THEN s ELSE f[k - 1]) \in V
    <3>1. CASE k = o
      BY <3>1
    <3>2. CASE k # o
      <4>1. k - 1 \in o .. n /\ ~(k <= k - 1)
        BY <2>5, <3>2
      <4>2. k - 1 \notin T
        BY <2>4, <4>1
      <4> QED
        BY <3>2, <4>1, <4>2
    <3> QED
      BY <3>1, <3>2
  <2> HIDE DEF T
  <2>8. PICK v \in V : v = IF k = o THEN s ELSE f[k - 1]
    BY <2>7
  <2> QED
    BY <2>5, <2>6, <2>8
<1>2. \E f : IsRecursion(o, n, s, step, f)
  <2> DEFINE T == {d \in Nat : ~\E f : IsRecursion(o, o + d - 1, s, step, f)}
  <2>1. ASSUME T = {} PROVE \E f : IsRecursion(o, n, s, step, f)
    <3>1. CASE n - o + 1 \in Nat
      <4>1. PICK d \in Nat : d = n - o + 1
        BY <3>1
      <4>2. o + d - 1 = n
        BY <4>1
      <4>3. d \notin T
        BY <2>1
      <4>4. \E f : IsRecursion(o, o + d - 1, s, step, f)
        BY <4>3
      <4> QED
        BY <4>2, <4>4
    <3>2. CASE n - o + 1 \notin Nat
      <4>1. o .. n = {}
        BY <3>2
      <4>2. PICK f : f = [k \in o .. n |-> s]
        OBVIOUS
      <4>3. f = [k \in o .. n |-> step[k][IF k = o THEN s ELSE f[k - 1]]]
        BY <4>1, <4>2
      <4> QED
        BY <4>3 DEF IsRecursion
    <3> QED
      BY <3>1, <3>2
  <2>2. ASSUME T # {} PROVE FALSE
    <3>1. T \in SUBSET Nat
      OBVIOUS
    <3>2. PICK d \in T : \A e \in T : d <= e
      BY <2>2, <3>1, Least
    <3>3. d \in Nat /\ ~\E f : IsRecursion(o, o + d - 1, s, step, f)
      BY <3>2
    <3>4. d # 0
      <4> SUFFICES ASSUME d = 0 PROVE FALSE
        OBVIOUS
      <4>1. o .. o + d - 1 = {}
        OBVIOUS
      <4>2. PICK f : f = [k \in o .. o + d - 1 |-> s]
        OBVIOUS
      <4>3. f = [k \in o .. o + d - 1 |-> step[k][IF k = o THEN s ELSE f[k - 1]]]
        BY <4>1, <4>2
      <4> QED
        BY <3>3, <4>3 DEF IsRecursion
    <3>5. d - 1 \in Nat /\ ~(d <= d - 1)
      BY <3>3, <3>4
    <3>6. PICK e \in Nat : e = d - 1
      BY <3>5
    <3>7. e \notin T
      BY <3>2, <3>5, <3>6
    <3>8. PICK f : IsRecursion(o, o + e - 1, s, step, f)
      BY <3>7
    <3>9. f = [k \in o .. o + e - 1 |-> step[k][IF k = o THEN s ELSE f[k - 1]]]
      BY <3>8 DEF IsRecursion
    <3>10. PICK g : g = [k \in o .. o + d - 1 |-> step[k][IF k = o THEN s ELSE f[k - 1]]]
      OBVIOUS
    <3>11. \A k \in o .. o + e - 1 : k \in o .. o + d - 1
      BY <3>3, <3>6
    <3>12. \A k \in o .. o + e - 1 : f[k] = g[k]
      BY <3>9, <3>10, <3>11
    <3>13. \A k \in o .. o + d - 1 : k # o => k - 1 \in o .. o + e - 1
      BY <3>3, <3>6
    <3>14. \A k \in o .. o + d - 1 : k # o => f[k - 1] = g[k - 1]
      BY <3>12, <3>13
    <3>15. g = [k \in o .. o + d - 1 |-> step[k][IF k = o THEN s ELSE g[k - 1]]]
      BY <3>10, <3>14
    <3> QED
      BY <3>3, <3>15 DEF IsRecursion
  <2> QED
    BY <2>1, <2>2
<1> QED
  BY <1>1, <1>2

\* What holds at the start and goes from each number to the next holds throughout.
LEMMA Climb ==
  ASSUME NEW o \in Int, NEW n \in Int, NEW T, o \in T, \A k \in o .. n - 1 : k \in T => k + 1 \in T
  PROVE  \A k \in o .. n : k \in T
<1> DEFINE B == {k \in o .. n : k \notin T}
<1>1. SUFFICES ASSUME B # {} PROVE FALSE
  OBVIOUS
<1>2. B \in SUBSET Int /\ \A k \in B : o <= k
  OBVIOUS
<1>3. PICK k \in B : \A m \in B : k <= m
  BY <1>1, <1>2, LeastFrom
<1>4. k \in o .. n /\ k \notin T /\ k # o
  BY <1>3
<1>5. PICK l \in Int : l = k - 1
  BY <1>4
<1>6. l \in o .. n - 1 /\ l + 1 = k /\ l \in o .. n /\ ~(k <= l)
  BY <1>4, <1>5
<1>7. l \notin B
  BY <1>3, <1>6
<1>8. l \in T
  BY <1>6, <1>7
<1> QED
  BY <1>4, <1>6, <1>8

-----------------------------------------------------------------------------
(* The score of some columns.                                              *)

\* A bonus is a small number.
LEMMA BonusSmall ==
  ASSUME NEW string, NEW k
  PROVE  BonusAt(string, k) \in 0 .. 8
BY DEF BonusAt, BonusFor, BonusBoundary, BonusCamel123, BonusNonWord

\* Columns have a first and a last one.
LEMMA Ends ==
  ASSUME NEW string, Len(string) \in Nat, NEW cols \in SUBSET Columns(string), cols # {}
  PROVE  /\ Min(cols) \in cols /\ \A k \in cols : Min(cols) <= k
         /\ Max(cols) \in cols /\ \A k \in cols : k <= Max(cols)
         /\ Min(cols) \in Nat /\ Max(cols) \in Nat /\ Max(cols) < Len(string)
<1>1. cols \in SUBSET Nat /\ \A k \in cols : k < Len(string)
  BY DEF Columns
<1>2. \E k \in cols : \A m \in cols : k <= m
  BY <1>1, Least
<1>3. Min(cols) \in cols /\ \A k \in cols : Min(cols) <= k
  BY <1>2 DEF Min
<1>4. \E k \in cols : \A m \in cols : m <= k
  <2> DEFINE D == {d \in Nat : Len(string) - d \in cols}
  <2>1. D \in SUBSET Nat /\ D # {}
    <3>1. PICK k \in cols : TRUE
      OBVIOUS
    <3>2. Len(string) - k \in Nat /\ Len(string) - (Len(string) - k) = k
      BY <1>1
    <3>3. Len(string) - k \in D
      BY <3>1, <3>2
    <3> QED
      BY <3>3
  <2>2. PICK d \in D : \A e \in D : d <= e
    BY <2>1, Least
  <2>3. PICK k : k = Len(string) - d
    OBVIOUS
  <2>4. k \in cols
    BY <2>3
  <2>5. ASSUME NEW m \in cols PROVE m <= k
    <3>1. Len(string) - m \in Nat /\ Len(string) - (Len(string) - m) = m /\ m \in Nat
      BY <1>1
    <3>2. Len(string) - m \in D
      BY <3>1
    <3>3. d <= Len(string) - m /\ d \in Nat
      BY <2>2, <3>2
    <3> QED
      BY <2>3, <3>1, <3>3
  <2> QED
    BY <2>4, <2>5
<1>5. Max(cols) \in cols /\ \A k \in cols : k <= Max(cols)
  BY <1>4 DEF Max
<1> QED
  BY <1>1, <1>3, <1>5

\* A run keeps the bonus it started with, or that of a boundary since.
LEMMA CarriedIs ==
  ASSUME NEW string, Len(string) \in Nat, NEW cols \in SUBSET Columns(string)
  PROVE  \A k \in Columns(string) :
           /\ CarriedBonus(string, cols)[k] \in 0 .. 8
           /\ CarriedBonus(string, cols)[k] =
                IF k - 1 \in cols /\ BonusAt(string, k) # BonusBoundary
                THEN CarriedBonus(string, cols)[k - 1]
                ELSE BonusAt(string, k)
<1> DEFINE Keeps(k) == k - 1 \in cols /\ BonusAt(string, k) # BonusBoundary
           Is(g) == g = [k \in Columns(string) |-> IF Keeps(k) THEN g[k - 1] ELSE BonusAt(string, k)]
           step == [k \in Int |-> [v \in 0 .. 8 |-> IF Keeps(k) THEN v ELSE BonusAt(string, k)]]
<1>1. \A k : BonusAt(string, k) \in 0 .. 8
  BY BonusSmall
<1>2. step \in [Int -> [0 .. 8 -> 0 .. 8]]
  <2> HIDE DEF Keeps
  <2> QED
    BY <1>1
<1>3. PICK n \in Int : n = Len(string) - 1
  OBVIOUS
<1>4. PICK g : IsRecursion(0, n, 0, step, g) /\ g \in [0 .. n -> 0 .. 8]
  <2> HIDE DEF step
  <2>1. PICK V : V = 0 .. 8
    OBVIOUS
  <2>2. PICK o \in Int : o = 0
    OBVIOUS
  <2>3. o \in V /\ step \in [Int -> [V -> V]]
    BY <1>2, <2>1, <2>2
  <2>4. /\ \E g : IsRecursion(o, n, o, step, g)
        /\ \A g : IsRecursion(o, n, o, step, g) => g \in [o .. n -> V]
    BY <2>3, Recursion
  <2> QED
    BY <2>1, <2>2, <2>4
<1>5. Columns(string) = 0 .. n
  BY <1>3 DEF Columns
<1>6. \A k \in 0 .. n : /\ k \in Int /\ ~(0 - 1 \in cols)
                        /\ k # 0 => g[k - 1] \in 0 .. 8
  <2>1. \A k \in 0 .. n : k # 0 => k - 1 \in 0 .. n
    OBVIOUS
  <2> QED
    BY <1>4, <1>5, <2>1
<1>7. Is(g)
  <2>1. g = [k \in 0 .. n |-> step[k][IF k = 0 THEN 0 ELSE g[k - 1]]]
    BY <1>4 DEF IsRecursion
  <2>2. ASSUME NEW k \in 0 .. n
        PROVE  step[k][IF k = 0 THEN 0 ELSE g[k - 1]] = IF Keeps(k) THEN g[k - 1] ELSE BonusAt(string, k)
    <3>1. PICK v : v = IF k = 0 THEN 0 ELSE g[k - 1]
      OBVIOUS
    <3>2. v \in 0 .. 8 /\ k \in Int
      BY <1>6, <3>1
    <3>3. step[k][v] = IF Keeps(k) THEN v ELSE BonusAt(string, k)
      <4> HIDE DEF Keeps
      <4> QED
        BY <3>2
    <3>4. k = 0 => ~Keeps(k)
      BY <1>6
    <3> QED
      BY <3>1, <3>3, <3>4
  <2> HIDE DEF step, Keeps
  <2> QED
    BY <1>5, <2>1, <2>2
<1>8. CarriedBonus(string, cols) = CHOOSE carried : Is(carried)
  BY DEF CarriedBonus
<1>9. Is(CarriedBonus(string, cols))
  <2> HIDE DEF Is
  <2> QED
    BY <1>7, <1>8
<1>10. PICK carried : carried = CarriedBonus(string, cols)
  OBVIOUS
<1>11. \A k \in 0 .. n : carried[k] = IF Keeps(k) THEN carried[k - 1] ELSE BonusAt(string, k)
  <2>1. carried = [k \in Columns(string) |-> IF Keeps(k) THEN carried[k - 1] ELSE BonusAt(string, k)]
    BY <1>9, <1>10
  <2> HIDE DEF Keeps
  <2> QED
    BY <1>5, <2>1
<1>12. \A k \in 0 .. n : carried[k] \in 0 .. 8
  <2> DEFINE T == {k \in Int : carried[k] \in 0 .. 8}
  <2> HIDE DEF Keeps
  <2>1. CASE n < 0
    BY <2>1
  <2>2. CASE n >= 0
    <3>1. 0 \in T
      <4>1. ~Keeps(0) /\ 0 \in 0 .. n
        BY <1>6, <2>2 DEF Keeps
      <4>2. carried[0] = BonusAt(string, 0)
        BY <1>11, <4>1
      <4> QED
        BY <1>1, <4>2
    <3>2. ASSUME NEW k \in 0 .. n - 1, k \in T PROVE k + 1 \in T
      <4>1. PICK m \in Int : m = k + 1
        OBVIOUS
      <4>2. m \in 0 .. n /\ m - 1 = k
        BY <4>1
      <4>3. carried[m] = IF Keeps(m) THEN carried[k] ELSE BonusAt(string, m)
        BY <1>11, <4>2
      <4>4. carried[m] \in 0 .. 8
        BY <1>1, <3>2, <4>3
      <4> QED
        BY <4>1, <4>4
    <3> HIDE DEF T
    <3>3. \A k \in 0 .. n : k \in T
      BY <3>1, <3>2, Climb
    <3> QED
      BY <3>3 DEF T
  <2> QED
    BY <2>1, <2>2
<1> QED
  BY <1>5, <1>10, <1>11, <1>12

\* What each column brings
LEMMA PointsAre ==
  ASSUME NEW string, Len(string) \in Nat, NEW cols \in SUBSET Columns(string), cols # {},
         NEW k \in Columns(string)
  PROVE  /\ Points(string, cols, k) \in Int
         /\ k \in cols => Points(string, cols, k) >= (IF k - 1 \in cols THEN 20 ELSE 16)
         /\ k \notin cols => Points(string, cols, k) = IF k - 1 \in cols THEN -3 ELSE -1
<1>1. BonusAt(string, k) \in 0 .. 8 /\ CarriedBonus(string, cols)[k] \in 0 .. 8
  BY BonusSmall, CarriedIs
<1>2. PICK b : b = IF k - 1 \notin cols THEN BonusAt(string, k)
                   ELSE MaxOf(MaxOf(BonusAt(string, k), CarriedBonus(string, cols)[k]), BonusConsecutive)
  OBVIOUS
<1>3. b \in 0 .. 8 /\ (k - 1 \in cols => b >= 4)
  BY <1>1, <1>2 DEF MaxOf, BonusConsecutive
<1>4. Min(cols) \in cols
  BY Ends
<1>5. Points(string, cols, k) =
        IF k = Min(cols) THEN ScoreMatch + b * BonusFirstCharMultiplier
        ELSE IF k \in cols THEN ScoreMatch + b
        ELSE IF k - 1 \in cols THEN ScoreGapStart
        ELSE ScoreGapExtention
  BY <1>2 DEF Points
<1> QED
  BY <1>3, <1>4, <1>5 DEF ScoreMatch, BonusFirstCharMultiplier, ScoreGapStart, ScoreGapExtention

\* The score up to a column from that up to the one before
LEMMA ScoreIs ==
  ASSUME NEW string, Len(string) \in Nat, NEW cols \in SUBSET Columns(string), cols # {},
         NEW inTable \in BOOLEAN
  PROVE  \A k \in Columns(string) :
           /\ ScoreUpTo(string, cols, inTable)[k] \in Int
           /\ inTable => ScoreUpTo(string, cols, inTable)[k] >= 0
           /\ k < Min(cols) => ScoreUpTo(string, cols, inTable)[k] = 0
           /\ k >= Min(cols) => ScoreUpTo(string, cols, inTable)[k] =
                LET score == Points(string, cols, k)
                               + (IF k = Min(cols) THEN 0 ELSE ScoreUpTo(string, cols, inTable)[k - 1])
                IN  IF inTable THEN MaxOf(score, 0) ELSE score
<1>1. PICK m \in Nat : m = Min(cols)
  BY Ends
<1> DEFINE Rise(k, v) == LET score == Points(string, cols, k) + v
                         IN  IF inTable THEN MaxOf(score, 0) ELSE score
           Is(g) == g = [k \in Columns(string) |->
                           IF k < m THEN 0 ELSE Rise(k, IF k = 0 THEN 0 ELSE g[k - 1])]
           step == [k \in Int |-> [v \in Int |-> IF k < m THEN 0
                                                 ELSE IF k \in Columns(string) THEN Rise(k, v) ELSE 0]]
<1>2. \A k \in Columns(string), v \in Int : Rise(k, v) \in Int /\ (inTable => Rise(k, v) >= 0)
  BY PointsAre DEF MaxOf
<1>3. step \in [Int -> [Int -> Int]]
  <2> HIDE DEF Rise
  <2> QED
    BY <1>2
<1>4. PICK n \in Int : n = Len(string) - 1
  OBVIOUS
<1>5. PICK g : IsRecursion(0, n, 0, step, g) /\ g \in [0 .. n -> Int]
  <2> HIDE DEF step
  <2>1. PICK V : V = Int
    OBVIOUS
  <2>2. PICK o \in Int : o = 0
    OBVIOUS
  <2>3. o \in V /\ step \in [Int -> [V -> V]]
    BY <1>3, <2>1, <2>2
  <2>4. /\ \E g : IsRecursion(o, n, o, step, g)
        /\ \A g : IsRecursion(o, n, o, step, g) => g \in [o .. n -> V]
    BY <2>3, Recursion
  <2> QED
    BY <2>1, <2>2, <2>4
<1>6. Columns(string) = 0 .. n
  BY <1>4 DEF Columns
<1>7. Is(g)
  <2>1. g = [k \in 0 .. n |-> step[k][IF k = 0 THEN 0 ELSE g[k - 1]]]
    BY <1>5 DEF IsRecursion
  <2>2. ASSUME NEW k \in 0 .. n
        PROVE  step[k][IF k = 0 THEN 0 ELSE g[k - 1]] =
                 IF k < m THEN 0 ELSE Rise(k, IF k = 0 THEN 0 ELSE g[k - 1])
    <3>1. PICK v : v = IF k = 0 THEN 0 ELSE g[k - 1]
      OBVIOUS
    <3>2. v \in Int /\ k \in Int
      <4>1. k # 0 => k - 1 \in 0 .. n
        OBVIOUS
      <4> QED
        BY <1>5, <3>1, <4>1
    <3>3. step[k][v] = IF k < m THEN 0 ELSE Rise(k, v)
      <4> HIDE DEF Rise
      <4> QED
        BY <1>6, <3>2
    <3> HIDE DEF Rise, step
    <3> QED
      BY <3>1, <3>3
  <2> HIDE DEF step, Rise
  <2> QED
    BY <1>6, <2>1, <2>2
<1>8. ScoreUpTo(string, cols, inTable) = CHOOSE total : Is(total)
  BY <1>1 DEF ScoreUpTo
<1>9. Is(ScoreUpTo(string, cols, inTable))
  <2> HIDE DEF Is
  <2> QED
    BY <1>7, <1>8
<1>10. PICK total : total = ScoreUpTo(string, cols, inTable)
  OBVIOUS
<1>11. \A k \in 0 .. n : total[k] = IF k < m THEN 0 ELSE Rise(k, IF k = 0 THEN 0 ELSE total[k - 1])
  <2>1. Is(total)
    BY <1>9, <1>10
  <2>2. total = [k \in Columns(string) |->
                   IF k < m THEN 0 ELSE Rise(k, IF k = 0 THEN 0 ELSE total[k - 1])]
    <3> HIDE DEF Rise
    <3> QED
      BY <2>1 DEF Is
  <2> HIDE DEF Rise, Is
  <2> QED
    BY <1>6, <2>2
<1> HIDE DEF Rise, Is, step
<1>12. \A k \in 0 .. n : total[k] \in Int
  <2> DEFINE T == {k \in Int : total[k] \in Int}
  <2>1. CASE n < 0
    BY <2>1
  <2>2. CASE n >= 0
    <3>1. 0 \in 0 .. n /\ 0 \in Int
      BY <2>2
    <3>2. total[0] = IF 0 < m THEN 0 ELSE Rise(0, 0)
      BY <1>11, <3>1
    <3>3. Rise(0, 0) \in Int
      BY <1>2, <1>6, <3>1
    <3>4. 0 \in T
      BY <3>2, <3>3
    <3>5. ASSUME NEW k \in 0 .. n - 1, k \in T PROVE k + 1 \in T
      <4>1. PICK l \in Int : l = k + 1
        OBVIOUS
      <4>2. l \in 0 .. n /\ l - 1 = k /\ l # 0
        BY <4>1
      <4>3. total[l] = IF l < m THEN 0 ELSE Rise(l, total[k])
        BY <1>11, <4>2
      <4>4. Rise(l, total[k]) \in Int
        BY <1>2, <1>6, <3>5, <4>2
      <4> QED
        BY <4>1, <4>3, <4>4
    <3> HIDE DEF T
    <3>6. \A k \in 0 .. n : k \in T
      BY <3>1, <3>4, <3>5, Climb
    <3> QED
      BY <3>6 DEF T
  <2> QED
    BY <2>1, <2>2
<1>13. ASSUME NEW k \in 0 .. n
       PROVE  /\ inTable => total[k] >= 0
              /\ k < m => total[k] = 0
              /\ k >= m => total[k] = Rise(k, IF k = m THEN 0 ELSE total[k - 1])
  <2>1. PICK v : v = IF k = 0 THEN 0 ELSE total[k - 1]
    OBVIOUS
  <2>2. k # 0 => k - 1 \in 0 .. n
    OBVIOUS
  <2>3. v \in Int
    BY <1>12, <2>1, <2>2
  <2>4. total[k] = IF k < m THEN 0 ELSE Rise(k, v)
    BY <1>11, <2>1
  <2>5. inTable => Rise(k, v) >= 0
    BY <1>2, <1>6, <2>3
  <2>6. k = m => v = 0
    <3>1. ASSUME k = m, k # 0 PROVE total[k - 1] = 0
      <4>1. k - 1 < m
        BY <3>1
      <4>2. PICK l : l = k - 1
        OBVIOUS
      <4> QED
        BY <1>11, <2>2, <3>1, <4>1, <4>2
    <3> QED
      BY <2>1, <3>1
  <2>7. k > m => v = total[k - 1]
    BY <2>1
  <2>8. k \in Int /\ ~(k < m /\ k >= m) /\ (k >= m => k = m \/ k > m)
    OBVIOUS
  <2> QED
    BY <2>4, <2>5, <2>6, <2>7, <2>8
<1>14. ASSUME NEW k \in 0 .. n
       PROVE  Rise(k, IF k = m THEN 0 ELSE total[k - 1]) =
                LET score == Points(string, cols, k) + (IF k = m THEN 0 ELSE total[k - 1])
                IN  IF inTable THEN MaxOf(score, 0) ELSE score
  BY DEF Rise
<1> QED
  BY <1>1, <1>6, <1>10, <1>12, <1>13, <1>14

\* A character found in one more column
LEMMA OneMore ==
  ASSUME NEW cols \in SUBSET Nat, IsFiniteSet(cols), NEW k \in Nat
  PROVE  /\ Cardinality({l \in cols : l <= k}) \in Nat
         /\ k - 1 \in Nat => Cardinality({l \in cols : l <= k}) =
                Cardinality({l \in cols : l <= k - 1}) + (IF k \in cols THEN 1 ELSE 0)
         /\ k \in cols /\ (\A l \in cols : k <= l) => Cardinality({l \in cols : l <= k}) = 1
<1>1. PICK S : S = {l \in cols : l <= k}
  OBVIOUS
<1>2. IsFiniteSet(S) /\ Cardinality(S) \in Nat
  BY <1>1, FS_Subset, FS_CardinalityType
<1>3. ASSUME k - 1 \in Nat
      PROVE  Cardinality(S) = Cardinality({l \in cols : l <= k - 1}) + (IF k \in cols THEN 1 ELSE 0)
  <2>1. PICK R : R = {l \in cols : l <= k - 1}
    OBVIOUS
  <2>2. IsFiniteSet(R) /\ k \notin R /\ Cardinality(R) \in Nat
    <3>1. R \subseteq cols /\ k \notin R
      BY <2>1
    <3> QED
      BY <3>1, FS_Subset, FS_CardinalityType
  <2>3. \A l \in Nat : l <= k <=> l <= k - 1 \/ l = k
    OBVIOUS
  <2>4. \A l : l \in S <=> l \in cols /\ (l <= k - 1 \/ l = k)
    BY <1>1, <2>3
  <2>5. CASE k \in cols
    <3>1. S = R \cup {k}
      BY <2>1, <2>4, <2>5
    <3>2. Cardinality(R \cup {k}) = Cardinality(R) + 1
      BY <2>2, FS_AddElement
    <3> QED
      BY <2>1, <2>5, <3>1, <3>2
  <2>6. CASE k \notin cols
    <3>1. S = R
      BY <2>1, <2>4, <2>6
    <3> QED
      BY <2>1, <2>2, <2>6, <3>1
  <2> QED
    BY <2>5, <2>6
<1>4. ASSUME k \in cols, \A l \in cols : k <= l PROVE Cardinality(S) = 1
  <2>1. \A l \in cols : l <= k <=> l = k
    BY <1>4
  <2>2. S = {k}
    BY <1>1, <1>4, <2>1
  <2> QED
    BY <2>2, FS_Singleton
<1> QED
  BY <1>1, <1>2, <1>3, <1>4

\* A character brings at least 16, a gap costs 3 and then 1 for each column.
LEMMA ScoreAtLeast ==
  ASSUME NEW string, Len(string) \in Nat, NEW cols \in SUBSET Columns(string), cols # {}
  PROVE  /\ ScoreAt(string, cols) \in Int
         /\ ScoreAt(string, cols) >= 13 * Cardinality(cols) + 2 - (Max(cols) - Min(cols) + 1)
         /\ TableScoreAt(string, cols) \in Int /\ TableScoreAt(string, cols) > 0
<1>1. PICK m \in Nat, n \in Nat : m = Min(cols) /\ n = Max(cols)
  BY Ends
<1>2. /\ m \in cols /\ n \in cols /\ \A k \in cols : m <= k /\ k <= n
      /\ m \in Columns(string) /\ n \in Columns(string) /\ n < Len(string) /\ m <= n
  BY <1>1, Ends
<1>3. IsFiniteSet(cols) /\ cols \in SUBSET Nat
  <2>1. \A b \in Int : IsFiniteSet(0 .. b)
    BY FS_Interval
  <2>2. IsFiniteSet(Columns(string))
    BY <2>1 DEF Columns
  <2>3. Columns(string) \subseteq Nat
    BY DEF Columns
  <2> QED
    BY <2>2, <2>3, FS_Subset
<1>4. PICK total : total = ScoreUpTo(string, cols, FALSE)
  OBVIOUS
<1>5. PICK points : points = [k \in Columns(string) |-> Points(string, cols, k)]
  OBVIOUS
<1>6. \A k \in Columns(string) :
        /\ total[k] \in Int
        /\ k >= m => total[k] = points[k] + (IF k = m THEN 0 ELSE total[k - 1])
  BY <1>1, <1>4, <1>5, ScoreIs
<1>7. \A k \in Columns(string) :
        /\ points[k] \in Int
        /\ k \in cols => points[k] >= (IF k - 1 \in cols THEN 20 ELSE 16)
        /\ k \notin cols => points[k] = IF k - 1 \in cols THEN -3 ELSE -1
  BY <1>5, PointsAre
<1>8. PICK rank : rank = [k \in Nat |-> Cardinality({l \in cols : l <= k})]
  OBVIOUS
<1>9. \A k \in Nat : /\ rank[k] \in Nat
                     /\ k - 1 \in Nat => rank[k] = rank[k - 1] + (IF k \in cols THEN 1 ELSE 0)
  <2> SUFFICES ASSUME NEW k \in Nat
               PROVE  /\ rank[k] \in Nat
                      /\ k - 1 \in Nat => rank[k] = rank[k - 1] + (IF k \in cols THEN 1 ELSE 0)
    OBVIOUS
  <2>1. \A l \in Nat : rank[l] = Cardinality({x \in cols : x <= l})
    BY <1>8
  <2>2. rank[k] \in Nat
    <3>1. rank[k] = Cardinality({x \in cols : x <= k})
      BY <2>1
    <3>2. Cardinality({x \in cols : x <= k}) \in Nat
      <4>1. PICK S : S = {x \in cols : x <= k}
        OBVIOUS
      <4>2. S \subseteq cols
        BY <4>1
      <4> QED
        BY <1>3, <4>1, <4>2, FS_Subset, FS_CardinalityType
    <3> QED
      BY <3>1, <3>2
  <2>3. ASSUME k - 1 \in Nat PROVE rank[k] = rank[k - 1] + (IF k \in cols THEN 1 ELSE 0)
    <3>1. rank[k - 1] = Cardinality({x \in cols : x <= k - 1})
      BY <2>1, <2>3
    <3>2. Cardinality({x \in cols : x <= k}) =
            Cardinality({x \in cols : x <= k - 1}) + (IF k \in cols THEN 1 ELSE 0)
      BY <1>3, <2>3, OneMore
    <3>3. rank[k] = Cardinality({x \in cols : x <= k})
      BY <2>1
    <3> QED
      BY <3>1, <3>2, <3>3
  <2> QED
    BY <2>2, <2>3
<1>10. rank[m] = 1
  <2>1. rank[m] = Cardinality({x \in cols : x <= m})
    BY <1>8
  <2> QED
    BY <1>2, <1>3, <2>1, OneMore
<1> DEFINE Least13(k) == 13 * rank[k] - (k - m + 1) + (IF k \in cols THEN 2 ELSE 0)
           T == {k \in Columns(string) : total[k] >= Least13(k)}
<1>11. m \in T
  <2>1. total[m] = points[m] /\ points[m] \in Int /\ points[m] >= 16
    <3>1. total[m] = points[m] + 0 /\ points[m] \in Int
      BY <1>2, <1>6, <1>7
    <3> QED
      BY <1>2, <1>7, <3>1
  <2> QED
    BY <1>2, <1>10, <2>1
<1>12. ASSUME NEW k \in m .. n - 1, k \in T PROVE k + 1 \in T
  <2>1. PICK l \in Nat : l = k + 1
    BY <1>1
  <2>2. /\ l \in Columns(string) /\ l > m /\ l - 1 = k
        /\ k \in Nat /\ k \in Columns(string)
    BY <1>1, <1>2, <2>1 DEF Columns
  <2>3. total[l] = points[l] + total[k] /\ total[k] \in Int /\ points[l] \in Int
    BY <1>6, <1>7, <2>2
  <2>4. rank[l] = rank[k] + (IF l \in cols THEN 1 ELSE 0) /\ rank[k] \in Nat
    BY <1>9, <2>2
  <2>5. /\ l \in cols => points[l] >= (IF k \in cols THEN 20 ELSE 16)
        /\ l \notin cols => points[l] = IF k \in cols THEN -3 ELSE -1
    BY <1>7, <2>2
  <2>6. PICK t \in Int, p \in Int, r \in Nat : t = total[k] /\ p = points[l] /\ r = rank[k]
    BY <2>3, <2>4
  <2>7. t >= 13 * r - (k - m + 1) + (IF k \in cols THEN 2 ELSE 0)
    BY <1>12, <2>6
  <2>8. PICK more \in {0, 1}, was \in {0, 1} : /\ more = IF l \in cols THEN 1 ELSE 0
                                              /\ was = IF k \in cols THEN 1 ELSE 0
    OBVIOUS
  <2>9. t >= 13 * r - (k - m + 1) + 2 * was
    BY <2>7, <2>8
  <2>10. p >= 13 * more - 1 + 2 * more - 2 * was
    BY <2>5, <2>6, <2>8
  <2>11. p + t >= 13 * (r + more) - (l - m + 1) + 2 * more
    <3>1. more \in Int /\ was \in Int /\ l = k + 1 /\ k \in Int /\ m \in Int
      BY <1>1, <2>1, <2>2
    <3>2. p + t >= 13 * more - 1 + 2 * more - 2 * was + (13 * r - (k - m + 1) + 2 * was)
      BY <2>9, <2>10, <3>1
    <3>3. 13 * more - 1 + 2 * more - 2 * was + (13 * r - (k - m + 1) + 2 * was)
            = 13 * (r + more) - (l - m + 1) + 2 * more
      BY <3>1
    <3> QED
      BY <3>2, <3>3
  <2>12. Least13(l) = 13 * (r + more) - (l - m + 1) + 2 * more
    BY <2>4, <2>6, <2>8
  <2>13. total[l] >= Least13(l)
    BY <2>3, <2>6, <2>11, <2>12
  <2> HIDE DEF Least13
  <2> QED
    BY <2>1, <2>2, <2>13
<1>13. n \in T
  <2>1. PICK R : R = T
    OBVIOUS
  <2>2. \A k \in m .. n - 1 : k \in R => k + 1 \in R
    <3> HIDE DEF T
    <3> QED
      BY <1>12, <2>1
  <2>3. m \in Int /\ n \in Int /\ m \in R
    BY <1>11, <2>1
  <2>4. \A k \in m .. n : k \in R
    BY <2>2, <2>3, Climb
  <2>5. n \in m .. n
    BY <1>2, <2>3
  <2> QED
    BY <2>1, <2>4, <2>5
<1>14. total[n] \in Int /\ total[n] >= 13 * Cardinality(cols) + 2 - (n - m + 1)
  <2>1. {l \in cols : l <= n} = cols
    BY <1>2
  <2>2. rank[n] = Cardinality(cols)
    BY <1>8, <2>1
  <2>3. rank[n] \in Nat /\ total[n] \in Int
    BY <1>2, <1>6, <1>9
  <2> QED
    BY <1>2, <1>13, <2>2, <2>3
<1>15. ScoreAt(string, cols) = total[n]
  BY <1>1, <1>4 DEF ScoreAt
<1>16. TableScoreAt(string, cols) \in Int /\ TableScoreAt(string, cols) > 0
  <2>1. PICK table : table = ScoreUpTo(string, cols, TRUE)
    OBVIOUS
  <2>2. \A k \in Columns(string) :
          /\ table[k] \in Int /\ table[k] >= 0
          /\ k >= m => table[k] = MaxOf(points[k] + (IF k = m THEN 0 ELSE table[k - 1]), 0)
    BY <1>1, <1>5, <2>1, ScoreIs
  <2>3. PICK v : v = IF n = m THEN 0 ELSE table[n - 1]
    OBVIOUS
  <2>4. v \in Int /\ v >= 0
    <3>1. n # m => n - 1 \in Columns(string)
      BY <1>1, <1>2 DEF Columns
    <3> QED
      BY <2>2, <2>3, <3>1
  <2>5. table[n] = MaxOf(points[n] + v, 0) /\ points[n] \in Int /\ points[n] >= 16
    BY <1>1, <1>2, <1>7, <2>2, <2>3
  <2>6. table[n] \in Int /\ table[n] > 0
    BY <2>4, <2>5 DEF MaxOf
  <2>7. TableScoreAt(string, cols) = table[n]
    BY <1>1, <2>1 DEF TableScoreAt
  <2> QED
    BY <2>6, <2>7
<1> QED
  BY <1>1, <1>14, <1>15, <1>16

-----------------------------------------------------------------------------
(* Places in a text.                                                       *)

\* The text as a term sees it
Folded(sensitive, text) == [k \in DOMAIN text |-> Fold(sensitive, text[k])]

\* has the same length and the same blanks.
LEMMA FoldedText ==
  ASSUME NEW sensitive, NEW text, IsSequence(text)
  PROVE  /\ IsSequence(Folded(sensitive, text))
         /\ Len(Folded(sensitive, text)) = Len(text)
         /\ \A k \in 1 .. Len(text) :
              /\ Folded(sensitive, text)[k] = Fold(sensitive, text[k])
              /\ IsSpace(Folded(sensitive, text)[k]) <=> IsSpace(text[k])
<1>1. Len(text) \in Nat /\ DOMAIN text = 1 .. Len(text)
  BY Elements
<1>2. PICK f : f = Folded(sensitive, text)
  OBVIOUS
<1>3. f = [k \in 1 .. Len(text) |-> f[k]] /\ \A k \in 1 .. Len(text) : f[k] = Fold(sensitive, text[k])
  BY <1>1, <1>2 DEF Folded
<1>4. \A ch : Fold(sensitive, ch) = " " <=> ch = " "
  <2>1. " " \notin DOMAIN LowerOf /\ \A ch \in DOMAIN LowerOf : LowerOf[ch] # " "
    BY LettersAssumption DEF Range
  <2> QED
    BY <2>1 DEF Fold
<1>5. IsSequence(f) /\ Len(f) = Len(text)
  BY <1>1, <1>3, FunctionSequence
<1> QED
  BY <1>2, <1>3, <1>4, <1>5 DEF IsSpace

\* A pattern stands at a place if its characters are those of the text from there on.
LEMMA Stands ==
  ASSUME NEW sensitive, NEW text, IsSequence(text), NEW pat, IsSequence(pat), NEW k \in Int
  PROVE  StandsAt(sensitive, text, pat, k) <=>
           /\ k >= 0 /\ k + Len(pat) <= Len(text)
           /\ \A p \in 1 .. Len(pat) : Folded(sensitive, text)[k + p] = pat[p]
<1>1. Len(text) \in Nat /\ Len(pat) \in Nat
  BY Elements
<1>2. PICK f : f = Folded(sensitive, text)
  OBVIOUS
<1>3. \A l \in 1 .. Len(text) : f[l] = Fold(sensitive, text[l])
  BY <1>2, FoldedText
<1> SUFFICES ASSUME k >= 0, k + Len(pat) <= Len(text)
             PROVE  (\A p \in Columns(pat) : Same(sensitive, text, k + p, pat, p))
                      <=> \A p \in 1 .. Len(pat) : f[k + p] = pat[p]
  BY <1>2 DEF StandsAt
<1>4. \A p \in 1 .. Len(pat) : /\ k + p \in 1 .. Len(text)
                               /\ p - 1 \in Columns(pat)
                               /\ (k + (p - 1)) + 1 = k + p /\ (p - 1) + 1 = p
  BY <1>1 DEF Columns
<1>5. \A p \in Columns(pat) : /\ p + 1 \in 1 .. Len(pat)
                              /\ (p + 1) - 1 = p
  BY <1>1 DEF Columns
<1>6. \A p \in 1 .. Len(pat) : Same(sensitive, text, k + (p - 1), pat, p - 1) <=> f[k + p] = pat[p]
  BY <1>3, <1>4 DEF Same, At
<1>7. ASSUME NEW p \in Columns(pat)
      PROVE  Same(sensitive, text, k + p, pat, p) <=> f[k + (p + 1)] = pat[p + 1]
  <2>1. PICK q : q = p + 1
    OBVIOUS
  <2>2. q \in 1 .. Len(pat) /\ q - 1 = p
    BY <1>5, <2>1
  <2>3. Same(sensitive, text, k + (q - 1), pat, q - 1) <=> f[k + q] = pat[q]
    BY <1>6, <2>2
  <2> QED
    BY <2>1, <2>2, <2>3
<1>8. ASSUME \A p \in Columns(pat) : Same(sensitive, text, k + p, pat, p)
      PROVE  \A p \in 1 .. Len(pat) : f[k + p] = pat[p]
  BY <1>4, <1>6, <1>8
<1>9. ASSUME \A p \in 1 .. Len(pat) : f[k + p] = pat[p]
      PROVE  \A p \in Columns(pat) : Same(sensitive, text, k + p, pat, p)
  BY <1>5, <1>7, <1>9
<1> QED
  BY <1>8, <1>9

\* The characters of a text behind the first k of them are those of a pattern.
Spelled(text, pat, k) ==
  /\ k >= 0 /\ k + Len(pat) <= Len(text)
  /\ \A p \in 1 .. Len(pat) : text[k + p] = pat[p]

\* A pattern stands where the folded text spells it.
LEMMA StandsSpelled ==
  ASSUME NEW sensitive, NEW text, IsSequence(text), NEW pat, IsSequence(pat), NEW k \in Int
  PROVE  StandsAt(sensitive, text, pat, k) <=> Spelled(Folded(sensitive, text), pat, k)
<1>1. Len(Folded(sensitive, text)) = Len(text)
  BY FoldedText
<1> QED
  BY <1>1, Stands DEF Spelled

\* In other words, a pattern stands where it is that part of the text.
LEMMA StandsPart ==
  ASSUME NEW sensitive, NEW text, IsSequence(text), NEW pat, IsSequence(pat),
         NEW a \in Nat, NEW b \in Nat, b <= Len(text), a < b
  PROVE  SubSeq(Folded(sensitive, text), a + 1, b) = pat <=>
           Len(pat) = b - a /\ StandsAt(sensitive, text, pat, a)
<1>1. Len(text) \in Nat /\ Len(pat) \in Nat
  BY Elements
<1>2. PICK f : f = Folded(sensitive, text)
  OBVIOUS
<1>3. IsSequence(f) /\ Len(f) = Len(text)
  BY <1>2, FoldedText
<1>4. PICK s : s = SubSeq(f, a + 1, b)
  OBVIOUS
<1>5. a + 1 \in Nat /\ a + 1 # 0 /\ b <= Len(f) /\ a + 1 <= b /\ b - (a + 1) + 1 = b - a
  BY <1>3
<1>6. /\ IsSequence(s) /\ Len(s) = b - a
      /\ \A k \in 1 .. Len(s) : s[k] = f[(a + 1) + k - 1]
  BY <1>3, <1>4, <1>5, Part
<1>7. \A k \in 1 .. b - a : (a + 1) + k - 1 = a + k
  OBVIOUS
<1>8. \A k \in 1 .. b - a : s[k] = f[a + k]
  BY <1>6, <1>7
<1>9. StandsAt(sensitive, text, pat, a) <=>
        /\ a >= 0 /\ a + Len(pat) <= Len(text)
        /\ \A p \in 1 .. Len(pat) : f[a + p] = pat[p]
  <2>1. PICK k \in Int : k = a
    OBVIOUS
  <2>2. StandsAt(sensitive, text, pat, k) <=> Spelled(Folded(sensitive, text), pat, k)
    BY StandsSpelled, Zenon
  <2>3. StandsAt(sensitive, text, pat, a) <=> Spelled(f, pat, a)
    BY <1>2, <2>1, <2>2, Zenon
  <2> QED
    BY <1>3, <2>3 DEF Spelled
<1>10. ASSUME s = pat PROVE Len(pat) = b - a /\ StandsAt(sensitive, text, pat, a)
  <2>1. Len(pat) = b - a /\ a + Len(pat) <= Len(text) /\ a >= 0
    BY <1>1, <1>6, <1>10
  <2> QED
    BY <1>8, <1>9, <1>10, <2>1
<1>11. ASSUME Len(pat) = b - a, StandsAt(sensitive, text, pat, a) PROVE s = pat
  <2>1. \A k \in 1 .. Len(s) : s[k] = pat[k]
    BY <1>6, <1>8, <1>9, <1>11
  <2> QED
    BY <1>6, <1>11, <2>1, EqualSequences
<1> QED
  BY <1>2, <1>4, <1>10, <1>11

\* Where a pattern stands it occurs, in adjacent columns.
LEMMA SpanOccurs ==
  ASSUME NEW sensitive, NEW text, IsSequence(text), NEW pat, IsSequence(pat), pat # <<>>,
         NEW k \in Int, StandsAt(sensitive, text, pat, k)
  PROVE  k .. k + Len(pat) - 1 \in Occurrences(sensitive, text, pat)
<1>1. Len(text) \in Nat /\ Len(pat) \in Nat /\ Len(pat) # 0
  BY Elements
<1>2. k >= 0 /\ k + Len(pat) <= Len(text)
  BY DEF StandsAt
<1> DEFINE cols == k .. k + Len(pat) - 1
<1>3. cols \in SUBSET Columns(text)
  <2>1. ASSUME NEW x \in k .. k + Len(pat) - 1 PROVE x \in 0 .. Len(text) - 1
    BY <1>1, <1>2
  <2> QED
    BY <2>1 DEF Columns
<1>4. Cardinality(cols) = Len(pat)
  <2>1. PICK b : b = k + Len(pat) - 1
    OBVIOUS
  <2>2. b \in Int /\ k <= b /\ b - k + 1 = Len(pat)
    BY <1>1, <2>1
  <2>3. Cardinality(k .. b) = IF k > b THEN 0 ELSE b - k + 1
    BY <2>2, FS_Interval
  <2>4. Cardinality(k .. b) = Len(pat)
    BY <2>2, <2>3
  <2> QED
    BY <2>1, <2>4
<1>5. ASSUME NEW x \in cols
      PROVE  /\ Same(sensitive, text, x, pat, Cardinality({l \in cols : l < x}))
             /\ \E p \in Columns(pat) : Same(sensitive, text, x, pat, p)
  <2>1. x \in Int /\ k <= x /\ x <= k + Len(pat) - 1
    OBVIOUS
  <2>2. {l \in cols : l < x} = k .. x - 1
    BY <1>1, <2>1
  <2>3. PICK y : y = x - 1
    OBVIOUS
  <2>4. Cardinality(k .. y) = x - k
    <3>1. y \in Int /\ Cardinality(k .. y) = IF k > y THEN 0 ELSE y - k + 1
      BY <2>1, <2>3, FS_Interval
    <3> QED
      BY <2>1, <2>3, <3>1
  <2>5. PICK p : p = x - k
    OBVIOUS
  <2>6. p \in Columns(pat) /\ k + p = x
    BY <1>1, <2>1, <2>5 DEF Columns
  <2>7. Same(sensitive, text, k + p, pat, p)
    BY <2>6 DEF StandsAt
  <2> QED
    BY <2>2, <2>3, <2>4, <2>5, <2>6, <2>7
<1>6. cols \in SUBSET {x \in Columns(text) : \E p \in Columns(pat) : Same(sensitive, text, x, pat, p)}
  <2> HIDE DEF cols
  <2> QED
    BY <1>3, <1>5
<1> QED
  BY <1>4, <1>5, <1>6 DEF Occurrences

\* So many blanks stand before the first other character.
IsLead(string, n) ==
  /\ n \in 0 .. Len(string) - 1
  /\ ~IsSpace(string[n + 1])
  /\ \A k \in 1 .. n : IsSpace(string[k])

\* leading_whitespaces counts them,
LEMMA Leading ==
  ASSUME NEW string, IsSequence(string), ~Blank(string)
  PROVE  IsLead(string, LeadingWhitespaces(string))
<1>1. Len(string) \in Nat /\ DOMAIN string = 1 .. Len(string)
  BY Elements
<1>2. PICK n : n \in Nat /\ IsLead(string, n)
  <2> DEFINE F == {k \in Nat : k \in 1 .. Len(string) /\ ~IsSpace(string[k])}
  <2>1. F # {}
    BY <1>1 DEF Blank
  <2>2. F \in SUBSET Nat
    OBVIOUS
  <2>3. \E a \in F : \A k \in F : a <= k
    BY <2>1, <2>2, Least
  <2>4. PICK a : a \in F /\ \A k \in F : a <= k
    BY <2>3
  <2>5. a \in Nat /\ a \in 1 .. Len(string) /\ ~IsSpace(string[a])
    BY <2>4
  <2>6. PICK n : n = a - 1
    OBVIOUS
  <2>7. n \in Nat /\ n \in 0 .. Len(string) - 1 /\ n + 1 = a
    BY <1>1, <2>5, <2>6
  <2>8. ASSUME NEW k \in 1 .. n PROVE IsSpace(string[k])
    <3>1. k \in Nat /\ k \in 1 .. Len(string) /\ ~(a <= k)
      BY <1>1, <2>5, <2>7
    <3> QED
      BY <2>4, <3>1
  <2> HIDE DEF F
  <2> QED
    BY <2>5, <2>7, <2>8 DEF IsLead
<1> DEFINE Lead(m) == ~IsSpace(At(string, m)) /\ \A k \in 0 .. m - 1 : IsSpace(At(string, k))
<1>3. ~\A k \in Columns(string) : IsSpace(At(string, k))
  <2>1. n \in Columns(string)
    BY <1>2 DEF IsLead, Columns
  <2> QED
    BY <1>2, <2>1 DEF IsLead, At
<1>4. \A m \in Columns(string) : Lead(m) <=> IsLead(string, m)
  <2> SUFFICES ASSUME NEW m \in Columns(string) PROVE Lead(m) <=> IsLead(string, m)
    OBVIOUS
  <2>1. m \in 0 .. Len(string) - 1 /\ m \in Nat
    BY <1>1 DEF Columns
  <2>2. ASSUME \A k \in 0 .. m - 1 : IsSpace(At(string, k)), NEW l \in 1 .. m
        PROVE  IsSpace(string[l])
    <3>1. l - 1 \in 0 .. m - 1 /\ (l - 1) + 1 = l
      BY <2>1
    <3> QED
      BY <2>2, <3>1 DEF At
  <2>3. ASSUME \A l \in 1 .. m : IsSpace(string[l]), NEW k \in 0 .. m - 1
        PROVE  IsSpace(At(string, k))
    <3>1. k + 1 \in 1 .. m
      BY <2>1
    <3> QED
      BY <2>3, <3>1 DEF At
  <2>4. (\A k \in 0 .. m - 1 : IsSpace(At(string, k))) <=> \A l \in 1 .. m : IsSpace(string[l])
    BY <2>2, <2>3
  <2> QED
    BY <2>1, <2>4 DEF IsLead, At
<1>5. LeadingWhitespaces(string) = CHOOSE m \in Columns(string) : Lead(m)
  BY <1>3 DEF LeadingWhitespaces
<1>6. n \in Columns(string)
  BY <1>2 DEF IsLead, Columns
<1>7. LeadingWhitespaces(string) \in Columns(string) /\ Lead(LeadingWhitespaces(string))
  <2>1. Lead(n)
    BY <1>2, <1>4, <1>6
  <2> HIDE DEF Lead
  <2> QED
    BY <1>5, <1>6, <2>1
<1> QED
  BY <1>4, <1>7

\* and there is only one such number.
LEMMA LeadUnique ==
  ASSUME NEW s, IsSequence(s), NEW t, IsSequence(t), Len(s) = Len(t),
         \A k \in 1 .. Len(s) : IsSpace(s[k]) <=> IsSpace(t[k]),
         NEW m, IsLead(s, m), NEW n, IsLead(t, n)
  PROVE  m = n
<1>1. Len(s) \in Nat
  BY Elements
<1>2. m \in Nat /\ n \in Nat /\ m < Len(s) /\ n < Len(s)
  BY <1>1 DEF IsLead
<1>3. ASSUME m < n PROVE FALSE
  <2>1. m + 1 \in 1 .. n /\ m + 1 \in 1 .. Len(s)
    BY <1>1, <1>2, <1>3
  <2> QED
    BY <2>1 DEF IsLead
<1>4. ASSUME n < m PROVE FALSE
  <2>1. n + 1 \in 1 .. m /\ n + 1 \in 1 .. Len(s)
    BY <1>1, <1>2, <1>4
  <2> QED
    BY <2>1 DEF IsLead
<1> QED
  BY <1>2, <1>3, <1>4

\* A text that is not blank is not blank backwards.
LEMMA NotBlankBackwards ==
  ASSUME NEW string, IsSequence(string), ~Blank(string)
  PROVE  ~Blank(Reverse(string))
<1>1. Len(string) \in Nat /\ DOMAIN string = 1 .. Len(string)
  BY Elements
<1>2. PICK r : r = Reverse(string)
  OBVIOUS
<1>3. /\ IsSequence(r) /\ Len(r) = Len(string)
      /\ \A k \in 1 .. Len(string) : r[k] = string[Len(string) - k + 1]
  BY <1>2, Backwards
<1>4. DOMAIN r = 1 .. Len(string)
  BY <1>3, Elements
<1>5. PICK k \in 1 .. Len(string) : ~IsSpace(string[k])
  BY <1>1 DEF Blank
<1>6. PICK l : l = Len(string) - k + 1
  OBVIOUS
<1>7. l \in 1 .. Len(string) /\ Len(string) - l + 1 = k
  BY <1>1, <1>6
<1>8. r[l] = string[k]
  BY <1>3, <1>7
<1> QED
  BY <1>2, <1>4, <1>5, <1>7, <1>8 DEF Blank

\* What the blanks around a text leave is not empty, and a term sees the same blanks
\* as the matchers, which count them in the text as it is.
LEMMA BlanksAround ==
  ASSUME NEW sensitive, NEW text, IsSequence(text), ~Blank(text)
  PROVE  /\ LeadingWhitespaces(text) \in Nat /\ TrailingWhitespaces(text) \in Nat
         /\ LeadingWhitespaces(text) + TrailingWhitespaces(text) < Len(text)
         /\ LeadingWhitespaces(Folded(sensitive, text)) = LeadingWhitespaces(text)
         /\ TrailingWhitespaces(Folded(sensitive, text)) = TrailingWhitespaces(text)
<1>1. Len(text) \in Nat /\ DOMAIN text = 1 .. Len(text)
  BY Elements
<1>2. PICK f : f = Folded(sensitive, text)
  OBVIOUS
<1>3. /\ IsSequence(f) /\ Len(f) = Len(text)
      /\ \A k \in 1 .. Len(text) : IsSpace(f[k]) <=> IsSpace(text[k])
  BY <1>2, FoldedText
<1>4. ~Blank(f)
  <2>1. DOMAIN f = 1 .. Len(text)
    BY <1>3, Elements
  <2> QED
    BY <1>1, <1>3, <2>1 DEF Blank
<1>5. PICK lead : lead = LeadingWhitespaces(text)
  OBVIOUS
<1>6. IsLead(text, lead)
  BY <1>5, Leading
<1>7. LeadingWhitespaces(f) = lead
  <2>1. PICK n : n = LeadingWhitespaces(f)
    OBVIOUS
  <2>2. IsLead(f, n)
    BY <1>3, <1>4, <2>1, Leading
  <2> QED
    BY <1>3, <1>6, <2>1, <2>2, LeadUnique
<1>8. PICK r, g : r = Reverse(text) /\ g = Reverse(f)
  OBVIOUS
<1>9. /\ IsSequence(r) /\ Len(r) = Len(text)
      /\ \A k \in 1 .. Len(text) : r[k] = text[Len(text) - k + 1]
  BY <1>8, Backwards
<1>10. /\ IsSequence(g) /\ Len(g) = Len(text)
       /\ \A k \in 1 .. Len(text) : g[k] = f[Len(text) - k + 1]
  BY <1>3, <1>8, Backwards
<1>11. ~Blank(r) /\ ~Blank(g)
  BY <1>3, <1>4, <1>8, NotBlankBackwards
<1>12. PICK trail : trail = LeadingWhitespaces(r)
  OBVIOUS
<1>13. IsLead(r, trail)
  BY <1>9, <1>11, <1>12, Leading
<1>14. \A k \in 1 .. Len(text) : Len(text) - k + 1 \in 1 .. Len(text)
  BY <1>1
<1>15. \A k \in 1 .. Len(r) : IsSpace(r[k]) <=> IsSpace(g[k])
  BY <1>3, <1>9, <1>10, <1>14
<1>16. LeadingWhitespaces(g) = trail
  <2>1. PICK n : n = LeadingWhitespaces(g)
    OBVIOUS
  <2>2. IsLead(g, n)
    BY <1>10, <1>11, <2>1, Leading
  <2> QED
    BY <1>9, <1>10, <1>13, <1>15, <2>1, <2>2, LeadUnique
<1>17. lead \in Nat /\ trail \in Nat /\ lead < Len(text)
  BY <1>1, <1>6, <1>13 DEF IsLead
<1>18. lead + trail < Len(text)
  <2> SUFFICES ASSUME ~(lead + trail < Len(text)) PROVE FALSE
    OBVIOUS
  <2>1. PICK k : k = Len(text) - lead
    OBVIOUS
  <2>2. /\ k \in 1 .. trail /\ k \in 1 .. Len(text) /\ Len(text) - k + 1 = lead + 1
    BY <1>1, <1>17, <2>1
  <2>3. r[k] = text[lead + 1]
    BY <1>9, <2>2
  <2> QED
    BY <1>6, <1>13, <2>2, <2>3 DEF IsLead
<1> QED
  BY <1>2, <1>5, <1>7, <1>8, <1>12, <1>16, <1>17, <1>18 DEF TrailingWhitespaces

-----------------------------------------------------------------------------
(* What the matchers answer.                                               *)

\* An answer tells whether something was found and shows where.  Its score is positive
\* or, where the tables do not fit, that of an occurrence; 0 if nothing was found.
Tells(sensitive, text, pat, found, res) ==
  /\ res.start \in Int
  /\ res.start >= 0 <=> found
  /\ found => \E cols \in Occurrences(sensitive, text, pat) : cols \subseteq res.pos
  /\ found => \/ res.score \in Nat \ {0}
              \/ /\ ~TablesFit(Cap, text, pat)
                 /\ \E cols \in Occurrences(sensitive, text, pat) : res.score = ScoreAt(text, cols)
  /\ ~found => res.score = 0

\* Adjacent columns score more than nothing.
LEMMA SpanScores ==
  ASSUME NEW sensitive, NEW text, IsSequence(text), NEW pat, IsSequence(pat), pat # <<>>,
         NEW k \in Int, k .. k + Len(pat) - 1 \in Occurrences(sensitive, text, pat)
  PROVE  ScoreAt(text, k .. k + Len(pat) - 1) \in Nat \ {0}
<1>1. Len(text) \in Nat /\ Len(pat) \in Nat /\ Len(pat) # 0
  BY Elements
<1>2. PICK e \in Int : e = k + Len(pat) - 1
  BY <1>1
<1>3. PICK cols : cols = k .. e
  OBVIOUS
<1>4. cols \in SUBSET Columns(text) /\ Cardinality(cols) = Len(pat)
  BY <1>2, <1>3 DEF Occurrences
<1>5. cols # {}
  BY <1>1, <1>4, FS_EmptySet
<1>6. Max(cols) \in cols /\ Min(cols) \in cols
  BY <1>1, <1>4, <1>5, Ends
<1>7. ScoreAt(text, cols) \in Int /\ ScoreAt(text, cols) >= 13 * Len(pat) + 2 - (Max(cols) - Min(cols) + 1)
  BY <1>1, <1>4, <1>5, ScoreAtLeast
<1>8. Max(cols) - Min(cols) <= Len(pat) - 1 /\ Max(cols) \in Int /\ Min(cols) \in Int
  BY <1>1, <1>2, <1>3, <1>6
<1>9. ScoreAt(text, cols) > 0
  BY <1>1, <1>7, <1>8
<1> QED
  BY <1>2, <1>3, <1>7, <1>9

\* That of a matcher that found the pattern at a place, and that of one that did not
LEMMA SpanTells ==
  ASSUME NEW sensitive, NEW text, IsSequence(text), NEW pat, IsSequence(pat), pat # <<>>
  PROVE  /\ \A k \in Int : StandsAt(sensitive, text, pat, k) =>
                             Tells(sensitive, text, pat, TRUE, SpanAt(text, pat, k))
         /\ Tells(sensitive, text, pat, FALSE, NoMatch)
<1>1. ASSUME NEW k \in Int, StandsAt(sensitive, text, pat, k)
      PROVE  Tells(sensitive, text, pat, TRUE, SpanAt(text, pat, k))
  <2>1. k .. k + Len(pat) - 1 \in Occurrences(sensitive, text, pat)
    BY <1>1, SpanOccurs
  <2>2. /\ SpanAt(text, pat, k).start = k /\ SpanAt(text, pat, k).pos = k .. k + Len(pat) - 1
        /\ SpanAt(text, pat, k).score = ScoreAt(text, k .. k + Len(pat) - 1)
    BY DEF SpanAt, Result
  <2>3. k >= 0
    BY <1>1 DEF StandsAt
  <2>4. ScoreAt(text, k .. k + Len(pat) - 1) \in Nat \ {0}
    BY <2>1, SpanScores
  <2> QED
    BY <2>1, <2>2, <2>3, <2>4 DEF Tells
<1>2. NoMatch.start = -1 /\ NoMatch.score = 0
  BY DEF NoMatch, Result
<1> QED
  BY <1>1, <1>2 DEF Tells

\* A prefix, character by character
LEMMA PrefixElements ==
  ASSUME NEW p, IsSequence(p), NEW s, IsSequence(s)
  PROVE  IsPrefix(p, s) <=> Len(p) <= Len(s) /\ \A k \in 1 .. Len(p) : p[k] = s[k]
<1>1. Len(p) \in Nat /\ Len(s) \in Nat /\ p \in Seq(Range(p))
  BY Elements
<1> SUFFICES ASSUME Len(p) <= Len(s)
             PROVE  SubSeq(p, 1, Len(p)) = SubSeq(s, 1, Len(p)) <=> \A k \in 1 .. Len(p) : p[k] = s[k]
  BY DEF IsPrefix
<1>2. SubSeq(p, 1, Len(p)) = p
  BY <1>1, SubSeqFull
<1>3. PICK t : t = SubSeq(s, 1, Len(p))
  OBVIOUS
<1>4. /\ IsSequence(t) /\ Len(t) = (IF 1 <= Len(p) THEN Len(p) - 1 + 1 ELSE 0)
      /\ \A k \in 1 .. Len(t) : t[k] = s[1 + k - 1]
  <2>1. PICK one, m : one = 1 /\ m = Len(p)
    OBVIOUS
  <2>2. one \in Nat /\ one # 0 /\ m \in Nat /\ m <= Len(s)
    BY <1>1, <2>1
  <2>3. /\ IsSequence(SubSeq(s, one, m))
        /\ Len(SubSeq(s, one, m)) = (IF one <= m THEN m - one + 1 ELSE 0)
        /\ \A k \in 1 .. Len(SubSeq(s, one, m)) : SubSeq(s, one, m)[k] = s[one + k - 1]
    BY <2>2, Part
  <2> QED
    BY <1>3, <2>1, <2>3
<1>5. Len(t) = Len(p) /\ \A k \in 1 .. Len(p) : 1 + k - 1 = k
  BY <1>1, <1>4
<1>6. \A k \in 1 .. Len(p) : t[k] = s[k]
  BY <1>4, <1>5
<1>7. p = t <=> \A k \in 1 .. Len(p) : p[k] = t[k]
  BY <1>4, <1>5, EqualSequences
<1> QED
  BY <1>2, <1>3, <1>6, <1>7

\* A suffix
LEMMA SuffixElements ==
  ASSUME NEW p, IsSequence(p), NEW s, IsSequence(s)
  PROVE  IsSuffix(p, s) <=>
           Len(p) <= Len(s) /\ \A k \in 1 .. Len(p) : p[k] = s[Len(s) - Len(p) + k]
<1>1. Len(p) \in Nat /\ Len(s) \in Nat
  BY Elements
<1>2. PICK q, t : q = Reverse(p) /\ t = Reverse(s)
  OBVIOUS
<1>3. /\ IsSequence(q) /\ Len(q) = Len(p)
      /\ \A k \in 1 .. Len(p) : q[k] = p[Len(p) - k + 1]
  BY <1>2, Backwards
<1>4. /\ IsSequence(t) /\ Len(t) = Len(s)
      /\ \A k \in 1 .. Len(s) : t[k] = s[Len(s) - k + 1]
  BY <1>2, Backwards
<1>5. IsSuffix(p, s) <=> Len(p) <= Len(s) /\ \A k \in 1 .. Len(p) : q[k] = t[k]
  BY <1>2, <1>3, <1>4, PrefixElements DEF IsSuffix
<1> SUFFICES ASSUME Len(p) <= Len(s)
             PROVE  (\A k \in 1 .. Len(p) : q[k] = t[k]) <=>
                      \A k \in 1 .. Len(p) : p[k] = s[Len(s) - Len(p) + k]
  BY <1>5
<1>6. \A k \in 1 .. Len(p) : /\ Len(p) - k + 1 \in 1 .. Len(p) /\ k \in 1 .. Len(s)
                             /\ Len(s) - (Len(p) - k + 1) + 1 = Len(s) - Len(p) + k
                             /\ Len(p) - (Len(p) - k + 1) + 1 = k
                             /\ Len(s) - Len(p) + (Len(p) - k + 1) = Len(s) - k + 1
  BY <1>1
<1>7. ASSUME \A k \in 1 .. Len(p) : q[k] = t[k], NEW k \in 1 .. Len(p)
      PROVE  p[k] = s[Len(s) - Len(p) + k]
  <2>1. PICK l : l = Len(p) - k + 1
    OBVIOUS
  <2>2. l \in 1 .. Len(p) /\ l \in 1 .. Len(s) /\ Len(s) - l + 1 = Len(s) - Len(p) + k
    BY <1>6, <2>1
  <2>3. Len(p) - l + 1 = k
    BY <1>6, <2>1
  <2> QED
    BY <1>3, <1>4, <1>7, <2>2, <2>3
<1>8. ASSUME \A k \in 1 .. Len(p) : p[k] = s[Len(s) - Len(p) + k], NEW k \in 1 .. Len(p)
      PROVE  q[k] = t[k]
  <2>1. PICK l : l = Len(p) - k + 1
    OBVIOUS
  <2>2. l \in 1 .. Len(p) /\ k \in 1 .. Len(s) /\ Len(s) - Len(p) + l = Len(s) - k + 1
    BY <1>6, <2>1
  <2>3. q[k] = p[l] /\ t[k] = s[Len(s) - k + 1]
    BY <1>3, <1>4, <2>1, <2>2
  <2>4. p[l] = s[Len(s) - Len(p) + l]
    BY <1>8, <2>2
  <2> QED
    BY <2>2, <2>3, <2>4
<1> QED
  BY <1>7, <1>8

\* A text behind some of its characters starts with a pattern that stands there.
LEMMA StartsWith ==
  ASSUME NEW sensitive, NEW text, IsSequence(text), NEW pat, IsSequence(pat),
         NEW a \in Nat, a < Len(text)
  PROVE  IsPrefix(pat, SubSeq(Folded(sensitive, text), a + 1, Len(Folded(sensitive, text)))) <=>
           StandsAt(sensitive, text, pat, a)
<1>1. Len(text) \in Nat /\ Len(pat) \in Nat
  BY Elements
<1>2. PICK f : f = Folded(sensitive, text)
  OBVIOUS
<1>3. IsSequence(f) /\ Len(f) = Len(text)
  BY <1>2, FoldedText
<1>4. PICK s : s = SubSeq(f, a + 1, Len(f))
  OBVIOUS
<1>5. a + 1 \in Nat /\ a + 1 # 0 /\ Len(f) \in Nat /\ Len(f) <= Len(f)
      /\ a + 1 <= Len(f) /\ Len(f) - (a + 1) + 1 = Len(text) - a
  BY <1>1, <1>3
<1>6. /\ IsSequence(s) /\ Len(s) = Len(text) - a
      /\ \A k \in 1 .. Len(s) : s[k] = f[(a + 1) + k - 1]
  BY <1>3, <1>4, <1>5, Part
<1>7. IsPrefix(pat, s) <=> Len(pat) <= Len(s) /\ \A k \in 1 .. Len(pat) : pat[k] = s[k]
  BY <1>6, PrefixElements
<1>8. StandsAt(sensitive, text, pat, a) <=>
        /\ a >= 0 /\ a + Len(pat) <= Len(text)
        /\ \A p \in 1 .. Len(pat) : f[a + p] = pat[p]
  <2>1. PICK k \in Int : k = a
    OBVIOUS
  <2>2. StandsAt(sensitive, text, pat, k) <=> Spelled(Folded(sensitive, text), pat, k)
    BY StandsSpelled, Zenon
  <2>3. StandsAt(sensitive, text, pat, a) <=> Spelled(f, pat, a)
    BY <1>2, <2>1, <2>2, Zenon
  <2> QED
    BY <1>3, <2>3 DEF Spelled
<1>9. a >= 0 /\ (a + Len(pat) <= Len(text) <=> Len(pat) <= Len(s))
  BY <1>1, <1>6
<1>10. \A k \in 1 .. Len(pat) : Len(pat) <= Len(s) => k \in 1 .. Len(s) /\ (a + 1) + k - 1 = a + k
  BY <1>1, <1>6
<1>11. Len(pat) <= Len(s) => \A k \in 1 .. Len(pat) : s[k] = f[a + k]
  BY <1>6, <1>10
<1> QED
  BY <1>2, <1>4, <1>7, <1>8, <1>9, <1>11

\* A text before some of its characters ends with a pattern that stands before them.
LEMMA EndsWith ==
  ASSUME NEW sensitive, NEW text, IsSequence(text), NEW pat, IsSequence(pat),
         NEW b \in Nat, b # 0, b <= Len(text)
  PROVE  IsSuffix(pat, SubSeq(Folded(sensitive, text), 1, b)) <=>
           StandsAt(sensitive, text, pat, b - Len(pat))
<1>1. Len(text) \in Nat /\ Len(pat) \in Nat
  BY Elements
<1>2. PICK f : f = Folded(sensitive, text)
  OBVIOUS
<1>3. IsSequence(f) /\ Len(f) = Len(text)
  BY <1>2, FoldedText
<1>4. PICK s : s = SubSeq(f, 1, b)
  OBVIOUS
<1>5. 1 <= b /\ b - 1 + 1 = b
  OBVIOUS
<1>6. /\ IsSequence(s) /\ Len(s) = b
      /\ \A k \in 1 .. Len(s) : s[k] = f[1 + k - 1]
  BY <1>3, <1>4, <1>5, Part
<1>7. \A k \in 1 .. b : s[k] = f[k]
  <2>1. \A k \in 1 .. b : 1 + k - 1 = k
    OBVIOUS
  <2> QED
    BY <1>6, <2>1
<1>8. IsSuffix(pat, s) <=> Len(pat) <= b /\ \A k \in 1 .. Len(pat) : pat[k] = s[b - Len(pat) + k]
  BY <1>6, SuffixElements
<1>9. PICK a : a = b - Len(pat)
  OBVIOUS
<1>10. a \in Int /\ (a >= 0 <=> Len(pat) <= b) /\ a + Len(pat) = b
  BY <1>1, <1>9
<1>11. StandsAt(sensitive, text, pat, a) <=>
        /\ a >= 0 /\ b <= Len(text)
        /\ \A p \in 1 .. Len(pat) : f[a + p] = pat[p]
  <2>1. PICK k \in Int : k = a
    BY <1>10
  <2>2. StandsAt(sensitive, text, pat, k) <=> Spelled(Folded(sensitive, text), pat, k)
    BY StandsSpelled, Zenon
  <2>3. StandsAt(sensitive, text, pat, a) <=> Spelled(f, pat, a)
    BY <1>2, <2>1, <2>2, Zenon
  <2> QED
    BY <1>3, <1>10, <2>3 DEF Spelled
<1>12. \A k \in 1 .. Len(pat) : a >= 0 => a + k \in 1 .. b
  BY <1>1, <1>10
<1> QED
  BY <1>2, <1>4, <1>7, <1>8, <1>9, <1>10, <1>11, <1>12

\* fzf_prefix_match
LEMMA PrefixTells ==
  ASSUME NEW sensitive, NEW text, IsSequence(text), ~Blank(text),
         NEW pat, IsSequence(pat), pat # <<>>, NEW starts,
         starts = IF IsSpace(Head(pat)) THEN Folded(sensitive, text)
                  ELSE SubSeq(Folded(sensitive, text),
                              LeadingWhitespaces(Folded(sensitive, text)) + 1,
                              Len(Folded(sensitive, text)))
  PROVE  Tells(sensitive, text, pat, IsPrefix(pat, starts), PrefixMatch(sensitive, text, pat))
<1>1. PICK f : f = Folded(sensitive, text)
  OBVIOUS
<1>2. IsSequence(f) /\ Len(f) = Len(text) /\ Len(text) \in Nat /\ f \in Seq(Range(f))
  <2>1. IsSequence(f) /\ Len(f) = Len(text)
    BY <1>1, FoldedText
  <2> QED
    BY <2>1, Elements
<1>3. PICK lead : lead = LeadingWhitespaces(text)
  OBVIOUS
<1>4. lead \in Nat /\ lead < Len(text) /\ LeadingWhitespaces(f) = lead
  BY <1>1, <1>2, <1>3, BlanksAround
<1>5. PICK a : a = IF IsSpace(Head(pat)) THEN 0 ELSE lead
  OBVIOUS
<1>6. a \in Nat /\ a < Len(text)
  BY <1>2, <1>4, <1>5
<1>7. starts = SubSeq(f, a + 1, Len(f))
  <2>1. SubSeq(f, 1, Len(f)) = f
    BY <1>2, SubSeqFull
  <2> QED
    BY <1>1, <1>4, <1>5, <2>1
<1>8. IsPrefix(pat, starts) <=> StandsAt(sensitive, text, pat, a)
  BY <1>1, <1>6, <1>7, StartsWith
<1>9. PrefixMatch(sensitive, text, pat) =
        IF StandsAt(sensitive, text, pat, a) THEN SpanAt(text, pat, a) ELSE NoMatch
  BY <1>3, <1>5 DEF PrefixMatch
<1>10. CASE StandsAt(sensitive, text, pat, a)
  <2>1. a \in Int
    BY <1>6
  <2>2. Tells(sensitive, text, pat, TRUE, SpanAt(text, pat, a))
    BY <1>10, <2>1, SpanTells
  <2> QED
    BY <1>8, <1>9, <1>10, <2>2
<1>11. CASE ~StandsAt(sensitive, text, pat, a)
  <2>1. Tells(sensitive, text, pat, FALSE, NoMatch)
    BY SpanTells
  <2> QED
    BY <1>8, <1>9, <1>11, <2>1 DEF Tells
<1> QED
  BY <1>10, <1>11

\* fzf_suffix_match
LEMMA SuffixTells ==
  ASSUME NEW sensitive, NEW text, IsSequence(text), ~Blank(text),
         NEW pat, IsSequence(pat), pat # <<>>, NEW ends,
         ends = IF IsSpace(Last(pat)) THEN Folded(sensitive, text)
                ELSE SubSeq(Folded(sensitive, text), 1,
                            Len(Folded(sensitive, text))
                              - TrailingWhitespaces(Folded(sensitive, text)))
  PROVE  Tells(sensitive, text, pat, IsSuffix(pat, ends), SuffixMatch(sensitive, text, pat))
<1>1. PICK f : f = Folded(sensitive, text)
  OBVIOUS
<1>2. IsSequence(f) /\ Len(f) = Len(text) /\ Len(text) \in Nat /\ f \in Seq(Range(f))
  <2>1. IsSequence(f) /\ Len(f) = Len(text)
    BY <1>1, FoldedText
  <2> QED
    BY <2>1, Elements
<1>3. PICK trail : trail = TrailingWhitespaces(text)
  OBVIOUS
<1>4. trail \in Nat /\ trail < Len(text) /\ TrailingWhitespaces(f) = trail
  BY <1>1, <1>2, <1>3, BlanksAround
<1>5. PICK b : b = Len(text) - (IF IsSpace(Last(pat)) THEN 0 ELSE trail)
  OBVIOUS
<1>6. b \in Nat /\ b # 0 /\ b <= Len(text)
  BY <1>2, <1>4, <1>5
<1>7. ends = SubSeq(f, 1, b)
  <2>1. SubSeq(f, 1, Len(f)) = f
    BY <1>2, SubSeqFull
  <2>2. Len(text) - 0 = Len(text)
    BY <1>2
  <2> QED
    BY <1>1, <1>2, <1>4, <1>5, <2>1, <2>2
<1>8. PICK a : a = b - Len(pat)
  OBVIOUS
<1>9. IsSuffix(pat, ends) <=> StandsAt(sensitive, text, pat, a)
  BY <1>1, <1>6, <1>7, <1>8, EndsWith
<1>10. SuffixMatch(sensitive, text, pat) =
        IF StandsAt(sensitive, text, pat, a) THEN SpanAt(text, pat, a) ELSE NoMatch
  BY <1>3, <1>5, <1>8 DEF SuffixMatch
<1>11. CASE StandsAt(sensitive, text, pat, a)
  <2>1. a \in Int
    BY <1>6, <1>8, Elements
  <2>2. Tells(sensitive, text, pat, TRUE, SpanAt(text, pat, a))
    BY <1>11, <2>1, SpanTells
  <2> QED
    BY <1>9, <1>10, <1>11, <2>2
<1>12. CASE ~StandsAt(sensitive, text, pat, a)
  <2>1. Tells(sensitive, text, pat, FALSE, NoMatch)
    BY SpanTells
  <2> QED
    BY <1>9, <1>10, <1>12, <2>1 DEF Tells
<1> QED
  BY <1>11, <1>12

\* fzf_equal_match
LEMMA EqualTells ==
  ASSUME NEW sensitive, NEW text, IsSequence(text), ~Blank(text),
         NEW pat, IsSequence(pat), pat # <<>>
  PROVE  Tells(sensitive, text, pat, pat = Trimmed(Folded(sensitive, text)),
               EqualMatch(sensitive, text, pat))
<1>1. PICK f : f = Folded(sensitive, text)
  OBVIOUS
<1>2. IsSequence(f) /\ Len(f) = Len(text) /\ Len(text) \in Nat /\ Len(pat) \in Nat
  <2>1. IsSequence(f) /\ Len(f) = Len(text)
    BY <1>1, FoldedText
  <2> QED
    BY <2>1, Elements
<1>3. PICK lead, trail : lead = LeadingWhitespaces(text) /\ trail = TrailingWhitespaces(text)
  OBVIOUS
<1>4. /\ lead \in Nat /\ trail \in Nat /\ lead + trail < Len(text)
      /\ LeadingWhitespaces(f) = lead /\ TrailingWhitespaces(f) = trail
  BY <1>1, <1>3, BlanksAround
<1>5. PICK b : b = Len(text) - trail
  OBVIOUS
<1>6. b \in Nat /\ b <= Len(text) /\ lead < b
      /\ (Len(pat) = b - lead <=> Len(text) - lead - trail = Len(pat))
  BY <1>2, <1>4, <1>5
<1>7. Trimmed(f) = SubSeq(f, lead + 1, b)
  BY <1>2, <1>4, <1>5 DEF Trimmed
<1>8. pat = Trimmed(f) <=> Len(pat) = b - lead /\ StandsAt(sensitive, text, pat, lead)
  <2>1. PICK m \in Nat, n \in Nat : m = lead /\ n = b
    BY <1>4, <1>6
  <2>2. n <= Len(text) /\ m < n
    BY <1>6, <2>1
  <2>3. SubSeq(Folded(sensitive, text), m + 1, n) = pat <=>
          Len(pat) = n - m /\ StandsAt(sensitive, text, pat, m)
    BY <2>2, StandsPart
  <2> QED
    BY <1>1, <1>7, <2>1, <2>3
<1>9. PICK res : res = EqualMatch(sensitive, text, pat)
  OBVIOUS
<1>10. CASE pat = Trimmed(f)
  <2>1. StandsAt(sensitive, text, pat, lead) /\ Len(text) - lead - trail = Len(pat)
    BY <1>6, <1>8, <1>10
  <2>2. /\ res.start = lead /\ res.pos = lead .. lead + Len(pat) - 1
        /\ res.score = (ScoreMatch + BonusBoundary) * Len(pat)
                         + (BonusFirstCharMultiplier - 1) * BonusBoundary
    BY <1>3, <1>9, <2>1 DEF EqualMatch, Result
  <2>5. res.score \in Nat \ {0}
    <3>1. \A m \in Nat : (16 + 8) * m + (2 - 1) * 8 \in Nat \ {0}
      OBVIOUS
    <3> QED
      BY <1>2, <2>2, <3>1 DEF ScoreMatch, BonusBoundary, BonusFirstCharMultiplier
  <2>3. lead \in Int /\ lead >= 0
    BY <1>4
  <2>4. lead .. lead + Len(pat) - 1 \in Occurrences(sensitive, text, pat)
    BY <2>1, <2>3, SpanOccurs
  <2> QED
    BY <1>1, <1>9, <1>10, <2>2, <2>3, <2>4, <2>5 DEF Tells
<1>11. CASE pat # Trimmed(f)
  <2>1. ~(StandsAt(sensitive, text, pat, lead) /\ Len(text) - lead - trail = Len(pat))
    BY <1>6, <1>8, <1>11
  <2>2. res = NoMatch
    BY <1>3, <1>9, <2>1 DEF EqualMatch
  <2>3. Tells(sensitive, text, pat, FALSE, NoMatch)
    BY SpanTells
  <2> QED
    BY <1>1, <1>9, <1>11, <2>2, <2>3
<1> QED
  BY <1>10, <1>11

\* Some place of a text has the best bonus.
LEMMA BestPlace ==
  ASSUME NEW text, NEW places \in SUBSET Nat, places # {}
  PROVE  \E k \in places : \A l \in places :
           \/ BonusAt(text, k) > BonusAt(text, l)
           \/ BonusAt(text, k) = BonusAt(text, l) /\ k <= l
<1> DEFINE Lack(k) == 8 - BonusAt(text, k)
<1>1. \A k : BonusAt(text, k) \in 0 .. 8
  BY BonusSmall
<1>2. \A k : Lack(k) \in Nat
  BY <1>1
<1>3. \A k, l : /\ Lack(k) < Lack(l) => BonusAt(text, k) > BonusAt(text, l)
                /\ Lack(k) = Lack(l) => BonusAt(text, k) = BonusAt(text, l)
  BY <1>1
<1> HIDE DEF Lack
<1> DEFINE B == {n \in Nat : \E k \in places : Lack(k) = n}
<1>4. B \in SUBSET Nat /\ B # {}
  BY <1>2
<1>5. \E b \in B : \A n \in B : b <= n
  BY <1>4, Least
<1>6. PICK b : b \in B /\ \A n \in B : b <= n
  BY <1>5
<1> DEFINE K == {k \in places : Lack(k) = b}
<1>7. K \in SUBSET Nat /\ K # {}
  BY <1>6
<1>8. \E k \in K : \A l \in K : k <= l
  BY <1>7, Least
<1>9. PICK k : k \in K /\ \A l \in K : k <= l
  BY <1>8
<1>10. k \in places /\ Lack(k) = b
  BY <1>9
<1>11. ASSUME NEW l \in places
       PROVE  Lack(k) < Lack(l) \/ (Lack(k) = Lack(l) /\ k <= l)
  <2>1. Lack(l) \in B
    BY <1>2
  <2>2. b <= Lack(l)
    BY <1>6, <2>1
  <2>3. CASE Lack(l) = b
    BY <1>9, <1>10, <2>3
  <2>4. CASE Lack(l) # b
    BY <1>2, <1>10, <2>2, <2>4
  <2> QED
    BY <2>3, <2>4
<1> HIDE DEF K, B
<1> QED
  BY <1>3, <1>10, <1>11

\* fzf_exact_match_naive
LEMMA ExactTells ==
  ASSUME NEW sensitive, NEW text, IsSequence(text), NEW pat, IsSequence(pat), pat # <<>>
  PROVE  Tells(sensitive, text, pat, pat \in SubSeqs(Folded(sensitive, text)),
               ExactMatch(sensitive, text, pat))
<1>1. PICK f : f = Folded(sensitive, text)
  OBVIOUS
<1>2. IsSequence(f) /\ Len(f) = Len(text) /\ Len(text) \in Nat /\ Len(pat) \in Nat /\ Len(pat) # 0
  <2>1. IsSequence(f) /\ Len(f) = Len(text)
    BY <1>1, FoldedText
  <2> QED
    BY <2>1, Elements
<1> DEFINE places == {k \in Columns(text) : StandsAt(sensitive, text, pat, k)}
           Better(k, l) == \/ BonusAt(text, k) > BonusAt(text, l)
                           \/ BonusAt(text, k) = BonusAt(text, l) /\ k <= l
<1>3. ASSUME NEW k \in places PROVE pat \in SubSeqs(f)
  <2>1. k \in Nat /\ StandsAt(sensitive, text, pat, k)
    BY <1>2 DEF Columns
  <2>2. PICK b : b = k + Len(pat)
    OBVIOUS
  <2>3. b \in Nat /\ b <= Len(text) /\ k < b /\ Len(pat) = b - k
    BY <1>2, <2>1, <2>2 DEF StandsAt
  <2>4. SubSeq(f, k + 1, b) = pat
    BY <1>1, <2>1, <2>3, StandsPart
  <2>5. k \in 0 .. Len(f) /\ b \in 0 .. Len(f)
    BY <1>2, <2>1, <2>3
  <2> QED
    BY <2>4, <2>5 DEF SubSeqs
<1>4. ASSUME pat \in SubSeqs(f) PROVE places # {}
  <2>1. PICK a \in 0 .. Len(f), b \in 0 .. Len(f) : pat = SubSeq(f, a + 1, b)
    BY <1>4 DEF SubSeqs
  <2>2. a \in Nat /\ b \in Nat /\ b <= Len(text)
    BY <1>2, <2>1
  <2>3. a < b
    <3> SUFFICES ASSUME ~(a < b) PROVE FALSE
      OBVIOUS
    <3>1. a + 1 \in Int /\ b \in Int /\ b < a + 1
      BY <2>2
    <3>2. pat = <<>>
      BY <2>1, <3>1, SubSeqEmpty
    <3> QED
      BY <3>2
  <2>4. StandsAt(sensitive, text, pat, a)
    BY <1>1, <2>1, <2>2, <2>3, StandsPart
  <2>5. a \in Columns(text)
    BY <1>2, <2>2, <2>3 DEF Columns
  <2> QED
    BY <2>4, <2>5
<1>5. ExactMatch(sensitive, text, pat) =
        IF places = {} THEN NoMatch
        ELSE SpanAt(text, pat, CHOOSE k \in places : \A l \in places : Better(k, l))
  BY DEF ExactMatch
<1>6. CASE places = {}
  <2>1. Tells(sensitive, text, pat, FALSE, NoMatch)
    BY SpanTells
  <2>2. pat \notin SubSeqs(f)
    BY <1>4, <1>6
  <2>3. ExactMatch(sensitive, text, pat) = NoMatch
    BY <1>5, <1>6
  <2> QED
    BY <1>1, <2>1, <2>2, <2>3 DEF Tells
<1>7. CASE places # {}
  <2>1. places \in SUBSET Nat
    BY <1>2 DEF Columns
  <2>2. \E k \in places : \A l \in places : Better(k, l)
    BY <1>7, <2>1, BestPlace
  <2>3. PICK k : k = CHOOSE n \in places : \A l \in places : Better(n, l)
    OBVIOUS
  <2>4. k \in places
    <3> HIDE DEF places, Better
    <3> QED
      BY <2>2, <2>3
  <2>5. k \in Int /\ StandsAt(sensitive, text, pat, k)
    BY <2>1, <2>4
  <2>6. Tells(sensitive, text, pat, TRUE, SpanAt(text, pat, k))
    BY <2>5, SpanTells
  <2>7. ExactMatch(sensitive, text, pat) = SpanAt(text, pat, k)
    BY <1>5, <1>7, <2>3
  <2>8. pat \in SubSeqs(f)
    BY <1>3, <2>4
  <2> QED
    BY <1>1, <2>6, <2>7, <2>8
<1> QED
  BY <1>6, <1>7

\* What the fuzzy matcher promises
LEMMA FuzzyTells ==
  ASSUME NEW sensitive, NEW text, IsSequence(text), NEW pat, IsSequence(pat), pat # <<>>,
         NEW res \in FuzzyMatches(Cap, sensitive, text, pat)
  PROVE  Tells(sensitive, text, pat, Occurrences(sensitive, text, pat) # {}, res)
<1> DEFINE found == Occurrences(sensitive, text, pat)
<1>1. CASE found = {}
  <2>1. res = NoMatch
    BY <1>1 DEF FuzzyMatches
  <2>2. Tells(sensitive, text, pat, FALSE, NoMatch)
    BY SpanTells
  <2> QED
    BY <1>1, <2>1, <2>2
<1>2. CASE found # {}
  <2>1. PICK shown \in found \X found :
          res = Result(Min(shown[2]), Max(shown[2]) + 1,
                       FuzzyScoreAt(Cap, text, pat, shown[1]), shown[2])
    BY <1>2 DEF FuzzyMatches
  <2>2. PICK cols : cols = shown[2]
    OBVIOUS
  <2>3. cols \in found
    BY <2>1, <2>2
  <2>4. res.start = Min(cols) /\ res.pos = cols
    BY <2>1, <2>2 DEF Result
  <2>5. Len(text) \in Nat /\ Len(pat) # 0
    BY Elements
  <2>6. ASSUME NEW places \in found PROVE places \in SUBSET Columns(text) /\ places # {}
    <3>1. places \in SUBSET Columns(text) /\ Cardinality(places) = Len(pat)
      BY DEF Occurrences
    <3> QED
      BY <2>5, <3>1, FS_EmptySet
  <2>7. res.start \in Int /\ res.start >= 0 /\ cols \subseteq res.pos
    BY <2>3, <2>4, <2>5, <2>6, Ends
  <2>8. PICK scored \in found : res.score = FuzzyScoreAt(Cap, text, pat, scored)
    BY <2>1 DEF Result
  <2>9. TableScoreAt(text, scored) \in Nat \ {0}
    <3>1. TableScoreAt(text, scored) \in Int /\ TableScoreAt(text, scored) > 0
      BY <2>5, <2>6, ScoreAtLeast
    <3> QED
      BY <3>1
  <2>10. \/ res.score \in Nat \ {0}
         \/ ~TablesFit(Cap, text, pat) /\ res.score = ScoreAt(text, scored)
    BY <2>8, <2>9 DEF FuzzyScoreAt
  <2> QED
    BY <1>2, <2>3, <2>7, <2>10 DEF Tells
<1> QED
  BY <1>1, <1>2

-----------------------------------------------------------------------------
(* Which terms are satisfied.                                              *)

\* A text satisfies a term, as Satisfied says of that of the call.
FoundIn(string, term) ==
  LET text == [k \in DOMAIN string |-> Fold(term.sensitive, string[k])]
      starts == IF IsSpace(Head(term.body)) THEN text ELSE SubSeq(text, LeadingWhitespaces(text) + 1, Len(text))
      ends == IF IsSpace(Last(term.body)) THEN text ELSE SubSeq(text, 1, Len(text) - TrailingWhitespaces(text))
  IN  CASE term.kind = "fuzzy"  -> Occurrences(term.sensitive, string, term.body) # {}
        [] term.kind = "exact"  -> term.body \in SubSeqs(text)
        [] term.kind = "prefix" -> IsPrefix(term.body, starts)
        [] term.kind = "suffix" -> IsSuffix(term.body, ends)
        [] term.kind = "equal"  -> term.body = Trimmed(text)
SatisfiedIn(string, term) == FoundIn(string, term) # term.inv

\* The two are the same.
LEMMA SatisfiedIs ==
  \A term : Satisfied(term) <=> SatisfiedIn(call.text, term)
BY DEF Satisfied, SatisfiedIn, FoundIn

\* A term whose body is not empty, as the parser adds it to a set
Complete(term) == TermOK(term) /\ term.body # <<>>

\* Its matcher tells whether it is found, and shows where.
LEMMA AnswerTells ==
  ASSUME IsSequence(call.text), ~Blank(call.text), NEW term, Complete(term), NEW res \in Answers(term)
  PROVE  Tells(term.sensitive, call.text, term.body, FoundIn(call.text, term), res)
<1>1. PICK string, sensitive, pat :
        string = call.text /\ sensitive = term.sensitive /\ pat = term.body
  OBVIOUS
<1>2. IsSequence(string) /\ ~Blank(string) /\ IsSequence(pat) /\ pat # <<>>
  BY <1>1 DEF Complete, TermOK
<1>3. PICK text : text = Folded(sensitive, string)
  OBVIOUS
<1>4. PICK starts : starts = IF IsSpace(Head(pat)) THEN text
                             ELSE SubSeq(text, LeadingWhitespaces(text) + 1, Len(text))
  OBVIOUS
<1>5. PICK ends : ends = IF IsSpace(Last(pat)) THEN text
                         ELSE SubSeq(text, 1, Len(text) - TrailingWhitespaces(text))
  OBVIOUS
<1>6. FoundIn(string, term) <=>
        CASE term.kind = "fuzzy"  -> Occurrences(sensitive, string, pat) # {}
          [] term.kind = "exact"  -> pat \in SubSeqs(text)
          [] term.kind = "prefix" -> IsPrefix(pat, starts)
          [] term.kind = "suffix" -> IsSuffix(pat, ends)
          [] term.kind = "equal"  -> pat = Trimmed(text)
  BY <1>1, <1>3, <1>4, <1>5 DEF FoundIn, Folded
<1>7. Answers(term) =
        CASE term.kind = "fuzzy"  -> FuzzyMatches(Cap, sensitive, string, pat)
          [] term.kind = "exact"  -> {ExactMatch(sensitive, string, pat)}
          [] term.kind = "prefix" -> {PrefixMatch(sensitive, string, pat)}
          [] term.kind = "suffix" -> {SuffixMatch(sensitive, string, pat)}
          [] term.kind = "equal"  -> {EqualMatch(sensitive, string, pat)}
  BY <1>1 DEF Answers
<1> DEFINE Goal == Tells(sensitive, string, pat, FoundIn(string, term), res)
<1>8. CASE term.kind = "fuzzy"
  <2>1. res \in FuzzyMatches(Cap, sensitive, string, pat)
    BY <1>7, <1>8
  <2>2. Tells(sensitive, string, pat, Occurrences(sensitive, string, pat) # {}, res)
    BY <1>2, <2>1, FuzzyTells
  <2>3. FoundIn(string, term) <=> Occurrences(sensitive, string, pat) # {}
    BY <1>6, <1>8
  <2> QED
    BY <1>1, <2>2, <2>3 DEF Tells
<1>9. CASE term.kind = "exact"
  <2>1. res = ExactMatch(sensitive, string, pat)
    BY <1>7, <1>9
  <2>2. Tells(sensitive, string, pat, pat \in SubSeqs(text), res)
    BY <1>2, <1>3, <2>1, ExactTells
  <2>3. FoundIn(string, term) <=> pat \in SubSeqs(text)
    BY <1>6, <1>9
  <2> QED
    BY <1>1, <2>2, <2>3 DEF Tells
<1>10. CASE term.kind = "prefix"
  <2>1. res = PrefixMatch(sensitive, string, pat)
    BY <1>7, <1>10
  <2>2. Tells(sensitive, string, pat, IsPrefix(pat, starts), res)
    BY <1>2, <1>3, <1>4, <2>1, PrefixTells
  <2>3. FoundIn(string, term) <=> IsPrefix(pat, starts)
    BY <1>6, <1>10
  <2> QED
    BY <1>1, <2>2, <2>3 DEF Tells
<1>11. CASE term.kind = "suffix"
  <2>1. res = SuffixMatch(sensitive, string, pat)
    BY <1>7, <1>11
  <2>2. Tells(sensitive, string, pat, IsSuffix(pat, ends), res)
    BY <1>2, <1>3, <1>5, <2>1, SuffixTells
  <2>3. FoundIn(string, term) <=> IsSuffix(pat, ends)
    BY <1>6, <1>11
  <2> QED
    BY <1>1, <2>2, <2>3 DEF Tells
<1>12. CASE term.kind = "equal"
  <2>1. res = EqualMatch(sensitive, string, pat)
    BY <1>7, <1>12
  <2>2. Tells(sensitive, string, pat, pat = Trimmed(text), res)
    BY <1>2, <1>3, <2>1, EqualTells
  <2>3. FoundIn(string, term) <=> pat = Trimmed(text)
    BY <1>6, <1>12
  <2> QED
    BY <1>1, <2>2, <2>3 DEF Tells
<1>13. term.kind \in {"fuzzy", "exact", "prefix", "suffix", "equal"}
  BY DEF Complete, TermOK
<1> QED
  BY <1>8, <1>9, <1>10, <1>11, <1>12, <1>13

\* A satisfied term that is shown by these columns, unless it is inverse
Shown(string, term, columns) ==
  /\ SatisfiedIn(string, term)
  /\ term.inv \/ \E cols \in Occurrences(term.sensitive, string, term.body) : cols \subseteq columns

\* Whatever is answered for a term: whether it is satisfied, that it is shown, and,
\* where occurrences have positive scores, that the score is positive if it is found.
LEMMA AnswerMeans ==
  ASSUME IsSequence(call.text), ~Blank(call.text), NEW term, Complete(term), NEW res \in Answers(term)
  PROVE  /\ res.start \in Int
         /\ SatisfiedIn(call.text, term) <=> IF term.inv THEN res.start < 0 ELSE res.start >= 0
         /\ ~term.inv /\ res.start >= 0 => Shown(call.text, term, res.pos)
         /\ PositiveScores /\ call.text \in Texts =>
              res.score \in Nat /\ (res.score > 0 <=> res.start >= 0)
<1>1. Tells(term.sensitive, call.text, term.body, FoundIn(call.text, term), res)
  BY AnswerTells
<1>2. res.start \in Int /\ (res.start >= 0 <=> FoundIn(call.text, term))
  BY <1>1 DEF Tells
<1>3. res.start >= 0 => \E cols \in Occurrences(term.sensitive, call.text, term.body) : cols \subseteq res.pos
  BY <1>1, <1>2 DEF Tells
<1>4. term.inv \in BOOLEAN /\ FoundIn(call.text, term) \in BOOLEAN
  <2>1. term.inv \in BOOLEAN /\ term.kind \in {"fuzzy", "exact", "prefix", "suffix", "equal"}
    BY DEF Complete, TermOK
  <2>2. FoundIn(call.text, term) \in BOOLEAN
    <3>1. \A p, t : IsPrefix(p, t) \in BOOLEAN /\ IsSuffix(p, t) \in BOOLEAN
      BY DEF IsPrefix, IsSuffix
    <3>2. CASE term.kind = "fuzzy"
      BY <3>2 DEF FoundIn
    <3>3. CASE term.kind = "exact"
      BY <3>3 DEF FoundIn
    <3>4. CASE term.kind = "prefix"
      BY <3>1, <3>4 DEF FoundIn
    <3>5. CASE term.kind = "suffix"
      BY <3>1, <3>5 DEF FoundIn
    <3>6. CASE term.kind = "equal"
      BY <3>6 DEF FoundIn
    <3> QED
      BY <2>1, <3>2, <3>3, <3>4, <3>5, <3>6
  <2> QED
    BY <2>1, <2>2
<1>5. SatisfiedIn(call.text, term) <=> IF term.inv THEN ~FoundIn(call.text, term) ELSE FoundIn(call.text, term)
  BY <1>4 DEF SatisfiedIn
<1>6. res.start < 0 <=> ~(res.start >= 0)
  BY <1>2
<1>7. ASSUME PositiveScores, call.text \in Texts
      PROVE  res.score \in Nat /\ (res.score > 0 <=> res.start >= 0)
  <2>1. CASE ~(res.start >= 0)
    <3>1. res.score = 0
      BY <1>1, <2>1 DEF Tells
    <3> QED
      BY <2>1, <3>1
  <2>2. CASE res.start >= 0
    <3>1. \/ res.score \in Nat \ {0}
          \/ /\ ~TablesFit(Cap, call.text, term.body)
             /\ \E cols \in Occurrences(term.sensitive, call.text, term.body) :
                  res.score = ScoreAt(call.text, cols)
      BY <1>1, <2>2 DEF Tells
    <3>2. ASSUME ~TablesFit(Cap, call.text, term.body),
                 NEW cols \in Occurrences(term.sensitive, call.text, term.body)
          PROVE  ScoreAt(call.text, cols) \in Nat \ {0}
      <4>1. cols \in SUBSET Columns(call.text) /\ Cardinality(cols) = Len(term.body)
        BY DEF Occurrences
      <4>2. Len(term.body) # 0
        BY Elements DEF Complete, TermOK
      <4>3. cols # {}
        BY <4>1, <4>2, FS_EmptySet
      <4>4. Len(call.text) \in Nat
        BY Elements
      <4>5. Len(call.text) * Cardinality(cols) > Cap
        <5>1. Len(term.body) \in Nat
          BY Elements DEF Complete, TermOK
        <5>2. PICK n \in Nat, size \in Nat : n = Len(call.text) /\ size = Len(term.body)
          BY <4>4, <5>1
        <5>3. PICK product : product = n * size
          OBVIOUS
        <5>4. product \in Int
          BY <5>3
        <5>5. ~(product <= Cap)
          BY <3>2, <5>2, <5>3 DEF TablesFit
        <5>6. product > Cap
          BY <5>4, <5>5, CapAssumption
        <5> QED
          BY <4>1, <5>2, <5>3, <5>6
      <4>6. ScoreAt(call.text, cols) > 0
        BY <1>7, <4>1, <4>3, <4>5 DEF PositiveScores
      <4>7. ScoreAt(call.text, cols) \in Int
        BY <4>1, <4>3, <4>4, ScoreAtLeast
      <4> QED
        BY <4>6, <4>7
    <3>3. res.score \in Nat \ {0}
      BY <3>1, <3>2
    <3> QED
      BY <2>2, <3>3
  <2> QED
    BY <2>1, <2>2
<1> QED
  BY <1>2, <1>3, <1>5, <1>6, <1>7 DEF Shown

-----------------------------------------------------------------------------
(* The invariant.                                                          *)

CompleteSet(terms) == IsSequence(terms) /\ \A l \in DOMAIN terms : Complete(terms[l])

\* What is read is a sequence, what has been read are sets of complete terms,
ParseOK ==
  /\ IsSequence(rest)
  /\ CompleteSet(set)
  /\ IsSequence(pattern) /\ \A k \in DOMAIN pattern : CompleteSet(pattern[k])

\* the loops start afresh and run for the call that was made,
CallOK ==
  /\ pc \in {"parse", "ready", "inverse", "score", "positions", "done"}
  /\ pc \in {"parse", "ready"} => i = 1 /\ j = 1 /\ matched = FALSE
  /\ pc \notin {"parse", "ready"} => call.text \in Texts
  /\ pc \in {"inverse", "score"} => call.op = "score"
  /\ pc = "positions" => call.op = "positions"

\* the loop for positions has left a satisfied term that is shown in each set behind
\* it, and matched tells whether there is one before the next term of this set,
LoopOK ==
  pc = "positions" =>
    /\ i \in Nat \ {0} /\ j \in Nat \ {0}
    /\ \A k \in DOMAIN pattern :
         k < i => \E l \in DOMAIN pattern[k] : Shown(call.text, pattern[k][l], all_pos)
    /\ i \in DOMAIN pattern =>
         /\ matched => \E l \in DOMAIN pattern[i] : Shown(call.text, pattern[i][l], all_pos)
         /\ ~matched => \A l \in DOMAIN pattern[i] : l < j => ~SatisfiedIn(call.text, pattern[i][l])

\* so that the answer is right.
AnswerOK ==
  (pc = "done" /\ call.op = "positions" /\ pattern # <<>>) =>
    /\ answer.found <=> \A k \in DOMAIN pattern : \E l \in DOMAIN pattern[k] : SatisfiedIn(call.text, pattern[k][l])
    /\ answer.found => \A k \in DOMAIN pattern : \E l \in DOMAIN pattern[k] : Shown(call.text, pattern[k][l], all_pos)

IInv == ParseOK /\ CallOK /\ LoopOK /\ AnswerOK

\* The invariant implies that positions are returned as they should be.
LEMMA InvariantImplies ==
  IInv => PositionsIffSatisfied
<1> SUFFICES ASSUME IInv, pc = "done", call.op = "positions", pattern # <<>>
             PROVE  /\ answer.found <=> QuerySatisfied
                    /\ answer.found => \A k \in DOMAIN pattern : \E l \in DOMAIN pattern[k] :
                         LET term == pattern[k][l]
                         IN  /\ Satisfied(term)
                             /\ term.inv \/ \E cols \in Occurrences(term.sensitive, call.text, term.body) :
                                              cols \subseteq all_pos
  BY DEF PositionsIffSatisfied
<1>1. /\ answer.found <=> \A k \in DOMAIN pattern : \E l \in DOMAIN pattern[k] : SatisfiedIn(call.text, pattern[k][l])
      /\ answer.found => \A k \in DOMAIN pattern : \E l \in DOMAIN pattern[k] : Shown(call.text, pattern[k][l], all_pos)
  BY DEF IInv, AnswerOK
<1>2. answer.found <=> QuerySatisfied
  BY <1>1, SatisfiedIs DEF QuerySatisfied
<1>3. \A term : Shown(call.text, term, all_pos) =>
        /\ Satisfied(term)
        /\ term.inv \/ \E cols \in Occurrences(term.sensitive, call.text, term.body) : cols \subseteq all_pos
  BY SatisfiedIs DEF Shown
<1> QED
  BY <1>1, <1>2, <1>3

\* It holds before the query is read.
LEMMA InitInvariant ==
  Init => IInv
<1> SUFFICES ASSUME Init PROVE IInv
  OBVIOUS
<1>1. IsSequence(query)
  <2>1. CASE written \in Meanings /\ query = Render(written)
    <3>1. PICK meaning \in Meanings : meaning = written
      BY <2>1
    <3>2. IsSequence(Render(meaning))
      BY RenderIsSequence
    <3> QED
      BY <2>1, <3>1, <3>2
  <2>2. CASE query \in Typed
    BY <2>2, QueriesAssumption
  <2> QED
    BY <2>1, <2>2 DEF Init
<1>2. PICK string : string = query
  OBVIOUS
<1>3. IsSequence(Escaped(string))
  BY <1>1, <1>2, EscapedIsSequence
<1>4. IsSequence(<<>>) /\ DOMAIN <<>> = {}
  BY Literals
<1>5. ParseOK
  BY <1>2, <1>3, <1>4 DEF Init, ParseOK, CompleteSet
<1>6. CallOK /\ LoopOK /\ AnswerOK
  BY DEF Init, CallOK, LoopOK, AnswerOK
<1> QED
  BY <1>5, <1>6 DEF IInv

\* A sequence with an element more
LEMMA Appended ==
  ASSUME NEW s, IsSequence(s), NEW e
  PROVE  /\ IsSequence(Append(s, e)) /\ Len(Append(s, e)) = Len(s) + 1
         /\ DOMAIN Append(s, e) = 1 .. Len(s) + 1
         /\ \A k \in 1 .. Len(s) + 1 : Append(s, e)[k] = IF k = Len(s) + 1 THEN e ELSE s[k]
<1>1. Len(s) \in Nat
  BY Elements
<1>2. s \in Seq(Range(s) \cup {e}) /\ e \in Range(s) \cup {e}
  <2>1. s \in Seq(Range(s)) /\ Range(s) \subseteq Range(s) \cup {e}
    BY Elements
  <2> QED
    BY <2>1, SeqMonotonic
<1>3. /\ Append(s, e) \in Seq(Range(s) \cup {e}) /\ Len(Append(s, e)) = Len(s) + 1
      /\ \A k \in 1 .. Len(s) : Append(s, e)[k] = s[k]
      /\ Append(s, e)[Len(s) + 1] = e
  BY <1>2, AppendProperties
<1>4. \A k \in 1 .. Len(s) + 1 : k # Len(s) + 1 => k \in 1 .. Len(s)
  BY <1>1
<1>5. DOMAIN Append(s, e) = 1 .. Len(s) + 1
  BY <1>3, LenProperties
<1> QED
  BY <1>3, <1>4, <1>5, SequenceOf

\* Reading keeps the sets complete.
LEMMA ParseStep ==
  ASSUME IInv, Parse PROVE IInv'
<1>1. IsSequence(rest) /\ CompleteSet(set)
      /\ IsSequence(pattern) /\ \A k \in DOMAIN pattern : CompleteSet(pattern[k])
  BY DEF IInv, ParseOK
<1>2. pc = "parse" /\ i = 1 /\ j = 1 /\ matched = FALSE
  BY DEF IInv, CallOK, Parse, ReadBar, ReadToken, ParseDone
<1>3. ~Blank(rest) => IsSequence(Token(rest)) /\ IsSequence(Behind(rest))
  <2>1. PICK string : string = rest
    OBVIOUS
  <2>2. ~Blank(string) => IsSequence(Token(string)) /\ IsSequence(Behind(string))
    BY <1>1, <2>1, TokenIsSequence
  <2> QED
    BY <2>1, <2>2
\* A set joins the pattern.
<1>4. ASSUME NEW p, p = Append(pattern, set)
      PROVE  IsSequence(p) /\ \A k \in DOMAIN p : CompleteSet(p[k])
  <2>1. PICK s, e : s = pattern /\ e = set
    OBVIOUS
  <2>2. /\ IsSequence(Append(s, e)) /\ DOMAIN Append(s, e) = 1 .. Len(s) + 1
        /\ \A k \in 1 .. Len(s) + 1 : Append(s, e)[k] = IF k = Len(s) + 1 THEN e ELSE s[k]
    BY <1>1, <2>1, Appended
  <2>3. Len(s) \in Nat /\ DOMAIN s = 1 .. Len(s)
    BY <1>1, <2>1, Elements
  <2>4. \A k \in 1 .. Len(s) + 1 : k # Len(s) + 1 => k \in DOMAIN s
    BY <2>3
  <2> QED
    BY <1>1, <1>4, <2>1, <2>2, <2>4
<1>5. CASE ReadBar
  <2>1. /\ rest' = Behind(rest) /\ ~Blank(rest)
        /\ UNCHANGED <<pc, set, pattern, i, j, matched>>
    BY <1>5 DEF ReadBar, ParseUnchanged, loopVars
  <2>2. ParseOK'
    BY <1>1, <1>3, <2>1 DEF ParseOK
  <2>3. CallOK' /\ LoopOK' /\ AnswerOK'
    BY <1>2, <2>1 DEF CallOK, LoopOK, AnswerOK
  <2> QED
    BY <2>2, <2>3 DEF IInv
<1>6. CASE ReadToken
  <2>1. /\ rest' = Behind(rest) /\ ~Blank(rest)
        /\ UNCHANGED <<pc, i, j, matched>>
    BY <1>6 DEF ReadToken, ParseUnchanged, loopVars
  <2>2. PICK term : term = ReadTerm(Token(rest))
    OBVIOUS
  <2>3. TermOK(term)
    <3>1. PICK token : token = Token(rest)
      OBVIOUS
    <3>2. TermOK(ReadTerm(token))
      BY <1>3, <2>1, <3>1, TokenRead
    <3> QED
      BY <2>2, <3>1, <3>2
  <2>4. \/ UNCHANGED <<set, pattern>>
        \/ /\ term.body # <<>>
           /\ set' = IF switch_set THEN <<term>> ELSE Append(set, term)
           /\ pattern' = IF switch_set THEN Append(pattern, set) ELSE pattern
    BY <1>6, <2>2 DEF ReadToken
  <2>5. ASSUME UNCHANGED <<set, pattern>> PROVE ParseOK'
    BY <1>1, <1>3, <2>1, <2>5 DEF ParseOK
  <2>6. ASSUME /\ term.body # <<>>
               /\ set' = IF switch_set THEN <<term>> ELSE Append(set, term)
               /\ pattern' = IF switch_set THEN Append(pattern, set) ELSE pattern
        PROVE  ParseOK'
    <3>1. Complete(term)
      BY <2>3, <2>6 DEF Complete
    <3>2. CompleteSet(<<term>>)
      <4>1. IsSequence(<<term>>)
        BY Literals
      <4> QED
        BY <3>1, <4>1 DEF CompleteSet
    <3>3. CompleteSet(Append(set, term))
      <4>1. PICK s : s = set
        OBVIOUS
      <4>2. IsSequence(s) /\ \A l \in DOMAIN s : Complete(s[l])
        BY <1>1, <4>1 DEF CompleteSet
      <4>3. /\ IsSequence(Append(s, term)) /\ DOMAIN Append(s, term) = 1 .. Len(s) + 1
            /\ \A k \in 1 .. Len(s) + 1 : Append(s, term)[k] = IF k = Len(s) + 1 THEN term ELSE s[k]
        BY <4>2, Appended
      <4>4. Len(s) \in Nat /\ DOMAIN s = 1 .. Len(s)
        BY <4>2, Elements
      <4>5. \A k \in 1 .. Len(s) + 1 : k # Len(s) + 1 => k \in DOMAIN s
        BY <4>4
      <4> QED
        BY <3>1, <4>1, <4>2, <4>3, <4>5 DEF CompleteSet
    <3>4. CompleteSet(set')
      BY <2>6, <3>2, <3>3
    <3>5. IsSequence(pattern') /\ \A k \in DOMAIN pattern' : CompleteSet(pattern'[k])
      BY <1>1, <1>4, <2>6
    <3> QED
      BY <1>3, <2>1, <3>4, <3>5 DEF ParseOK
  <2>7. CallOK' /\ LoopOK' /\ AnswerOK'
    BY <1>2, <2>1 DEF CallOK, LoopOK, AnswerOK
  <2> QED
    BY <2>4, <2>5, <2>6, <2>7 DEF IInv
<1>7. CASE ParseDone
  <2>1. /\ pattern' = IF set # <<>> THEN Append(pattern, set) ELSE pattern
        /\ pc' = "ready"
        /\ UNCHANGED <<rest, set, i, j, matched>>
    BY <1>7 DEF ParseDone, ParseUnchanged, loopVars
  <2>2. IsSequence(pattern') /\ \A k \in DOMAIN pattern' : CompleteSet(pattern'[k])
    BY <1>1, <1>4, <2>1
  <2>3. ParseOK'
    BY <1>1, <2>1, <2>2 DEF ParseOK
  <2>4. CallOK' /\ LoopOK' /\ AnswerOK'
    BY <1>2, <2>1 DEF CallOK, LoopOK, AnswerOK
  <2> QED
    BY <2>3, <2>4 DEF IInv
<1> QED
  BY <1>5, <1>6, <1>7 DEF Parse

\* Asking leaves the pattern as it was read.
LEMMA AskKeeps ==
  Ask \/ UNCHANGED vars => UNCHANGED parseVars
BY DEF Ask, Call, InverseTerm, InverseDone, ScoreTerm, ScoreSetDone, ScoreDone, PositionsTerm,
       PositionsSetDone, PositionsDone, CallUnchanged, parseVars, vars

\* A call starts its loop.
LEMMA CallStep ==
  ASSUME IInv, NEW op \in {"score", "positions"}, NEW text \in Texts, Call(op, text)
  PROVE  CallOK' /\ LoopOK' /\ AnswerOK'
<1>1. /\ pc = "ready" /\ call' = [op |-> op, text |-> text]
      /\ UNCHANGED <<parseVars, loopVars>>
  BY DEF Call
<1>2. i = 1 /\ j = 1 /\ matched = FALSE
  BY <1>1 DEF IInv, CallOK
<1>3. call'.op = op /\ call'.text = text
  BY <1>1
<1>4. \/ pattern = <<>> /\ pc' = "done"
      \/ pc' = IF op = "score" /\ only_inv THEN "inverse" ELSE op
  BY DEF Call, Finish
<1>5. CallOK'
  BY <1>1, <1>2, <1>3, <1>4 DEF CallOK
<1>6. LoopOK'
  <2> SUFFICES ASSUME pc' = "positions" PROVE LoopOK'
    BY DEF LoopOK
  <2>1. i' = 1 /\ j' = 1 /\ matched' = FALSE /\ pattern' = pattern
    BY <1>1, <1>2 DEF loopVars, parseVars
  <2>2. IsSequence(pattern) /\ \A k \in DOMAIN pattern : IsSequence(pattern[k])
    BY DEF IInv, ParseOK, CompleteSet
  <2>3. \A k \in DOMAIN pattern : ~(k < 1)
    <3>1. DOMAIN pattern = 1 .. Len(pattern) /\ Len(pattern) \in Nat
      BY <2>2, Elements
    <3> QED
      BY <3>1
  <2>4. ASSUME NEW k \in DOMAIN pattern PROVE \A l \in DOMAIN pattern[k] : ~(l < 1)
    <3>1. PICK s : s = pattern[k]
      OBVIOUS
    <3>2. DOMAIN s = 1 .. Len(s) /\ Len(s) \in Nat
      BY <2>2, <3>1, Elements
    <3> QED
      BY <3>1, <3>2
  <2> QED
    BY <2>1, <2>3, <2>4 DEF LoopOK
<1>7. AnswerOK'
  BY <1>1, <1>4 DEF AnswerOK, parseVars
<1> QED
  BY <1>5, <1>6, <1>7

\* Neither loop for scores has to do with positions.
LEMMA ScoreStep ==
  ASSUME IInv, InverseTerm \/ InverseDone \/ ScoreTerm \/ ScoreSetDone \/ ScoreDone
  PROVE  CallOK' /\ LoopOK' /\ AnswerOK'
<1>1. /\ pc \in {"inverse", "score"} /\ pc' \in {"inverse", "score", "done"}
      /\ call' = call
  BY DEF InverseTerm, InverseDone, ScoreTerm, ScoreSetDone, ScoreDone, CallUnchanged, Finish
<1>2. call.op = "score" /\ call.text \in Texts
  BY <1>1 DEF IInv, CallOK
<1> QED
  BY <1>1, <1>2 DEF CallOK, LoopOK, AnswerOK

\* What is shown stays shown when more is.
LEMMA ShownMore ==
  ASSUME NEW string, NEW term, NEW columns, NEW more, Shown(string, term, columns)
  PROVE  Shown(string, term, columns \cup more) /\ Shown(string, term, more \cup columns)
BY DEF Shown

\* The loop for positions looks at a term,
LEMMA PositionsTermStep ==
  ASSUME IInv, PositionsTerm
  PROVE  CallOK' /\ LoopOK' /\ AnswerOK'
<1>1. /\ pc = "positions" /\ pc' = pc /\ call' = call /\ i' = i /\ pattern' = pattern
      /\ i <= Len(pattern) /\ j <= Len(pattern[i])
  BY DEF PositionsTerm, CallUnchanged, parseVars, AtTerm
<1>2. call.op = "positions" /\ call.text \in Texts
  BY <1>1 DEF IInv, CallOK
<1>3. CallOK' /\ AnswerOK'
  BY <1>1, <1>2 DEF CallOK, AnswerOK
<1>4. /\ i \in Nat \ {0} /\ j \in Nat \ {0}
      /\ \A k \in DOMAIN pattern :
           k < i => \E l \in DOMAIN pattern[k] : Shown(call.text, pattern[k][l], all_pos)
      /\ i \in DOMAIN pattern =>
           /\ matched => \E l \in DOMAIN pattern[i] : Shown(call.text, pattern[i][l], all_pos)
           /\ ~matched => \A l \in DOMAIN pattern[i] : l < j => ~SatisfiedIn(call.text, pattern[i][l])
  BY <1>1 DEF IInv, LoopOK
<1>5. IsSequence(pattern) /\ \A k \in DOMAIN pattern : CompleteSet(pattern[k])
  BY DEF IInv, ParseOK
<1>6. DOMAIN pattern = 1 .. Len(pattern) /\ Len(pattern) \in Nat
  BY <1>5, Elements
<1>7. i \in DOMAIN pattern
  BY <1>1, <1>4, <1>6
<1>8. PICK terms : terms = pattern[i]
  OBVIOUS
<1>9. /\ IsSequence(terms) /\ DOMAIN terms = 1 .. Len(terms) /\ Len(terms) \in Nat
      /\ \A l \in DOMAIN terms : Complete(terms[l])
  BY <1>5, <1>7, <1>8, Elements DEF CompleteSet
<1>10. j \in DOMAIN terms
  BY <1>1, <1>4, <1>8, <1>9
<1>11. PICK term : term = terms[j]
  OBVIOUS
<1>12. Complete(term)
  BY <1>9, <1>10, <1>11
<1>13. PICK res \in Answers(term) :
         \/ /\ term.inv
            /\ matched' = (matched \/ res.start < 0)
            /\ j' = j + 1 /\ all_pos' = all_pos
         \/ /\ ~term.inv /\ res.start >= 0
            /\ matched' = TRUE
            /\ all_pos' = all_pos \cup res.pos
            /\ j' = Len(terms) + 1
         \/ /\ ~term.inv /\ res.start < 0
            /\ j' = j + 1
            /\ UNCHANGED <<matched, all_pos>>
  BY <1>8, <1>11 DEF PositionsTerm
<1>14. IsSequence(call.text) /\ ~Blank(call.text)
  BY <1>2, TextsAssumption
<1>15. /\ res.start \in Int
       /\ SatisfiedIn(call.text, term) <=> IF term.inv THEN res.start < 0 ELSE res.start >= 0
       /\ ~term.inv /\ res.start >= 0 => Shown(call.text, term, res.pos)
  BY <1>12, <1>14, AnswerMeans
<1>16. PICK string : string = call.text
  OBVIOUS
<1> DEFINE SomeShown(columns) == \E l \in DOMAIN terms : Shown(string, terms[l], columns)
           NoneBefore(n) == \A l \in DOMAIN terms : l < n => ~SatisfiedIn(string, terms[l])
<1>17. (matched => SomeShown(all_pos)) /\ (~matched => NoneBefore(j))
  BY <1>4, <1>7, <1>8, <1>16
<1>18. \A l \in DOMAIN terms : l < j + 1 => l < j \/ l = j
  BY <1>4, <1>9
\* The sets behind it stay shown.
<1>19. \E more : all_pos' = all_pos \cup more
  <2>1. all_pos = all_pos \cup {}
    OBVIOUS
  <2> QED
    BY <1>13, <2>1
<1>20. ASSUME NEW k \in DOMAIN pattern, k < i
       PROVE  \E l \in DOMAIN pattern[k] : Shown(string, pattern[k][l], all_pos')
  BY <1>4, <1>16, <1>19, <1>20, ShownMore
\* This one is, if it is matched, or else none of its terms is satisfied so far.
<1>21. j' \in Nat \ {0} /\ (matched' => SomeShown(all_pos')) /\ (~matched' => NoneBefore(j'))
  <2>1. CASE /\ term.inv
             /\ matched' = (matched \/ res.start < 0)
             /\ j' = j + 1 /\ all_pos' = all_pos
    <3>1. ASSUME res.start < 0 PROVE SomeShown(all_pos)
      <4>1. Shown(string, term, all_pos)
        BY <1>15, <1>16, <2>1, <3>1 DEF Shown
      <4> QED
        BY <1>10, <1>11, <4>1
    <3>2. ASSUME ~matched, ~(res.start < 0) PROVE NoneBefore(j + 1)
      <4>1. ~SatisfiedIn(string, term)
        BY <1>15, <1>16, <2>1, <3>2
      <4> QED
        BY <1>11, <1>17, <1>18, <3>2, <4>1
    <3>3. j + 1 \in Nat \ {0}
      BY <1>4
    <3> HIDE DEF SomeShown, NoneBefore
    <3> QED
      BY <1>17, <2>1, <3>1, <3>2, <3>3
  <2>2. CASE /\ ~term.inv /\ res.start >= 0
             /\ matched' = TRUE
             /\ all_pos' = all_pos \cup res.pos
             /\ j' = Len(terms) + 1
    <3>1. Shown(string, term, res.pos)
      BY <1>15, <1>16, <2>2
    <3>2. Shown(string, term, all_pos \cup res.pos)
      BY <3>1, ShownMore
    <3>3. SomeShown(all_pos')
      BY <1>10, <1>11, <2>2, <3>2
    <3>4. j' \in Nat \ {0}
      BY <1>9, <2>2
    <3> QED
      BY <2>2, <3>3, <3>4
  <2>3. CASE /\ ~term.inv /\ res.start < 0
             /\ j' = j + 1
             /\ UNCHANGED <<matched, all_pos>>
    <3>1. ~SatisfiedIn(string, term)
      BY <1>15, <1>16, <2>3
    <3>2. ASSUME ~matched PROVE NoneBefore(j + 1)
      BY <1>11, <1>17, <1>18, <3>1, <3>2
    <3>3. j + 1 \in Nat \ {0}
      BY <1>4
    <3> HIDE DEF SomeShown, NoneBefore
    <3> QED
      BY <1>17, <2>3, <3>2, <3>3
  <2> QED
    BY <1>13, <2>1, <2>2, <2>3
<1>22. LoopOK'
  BY <1>1, <1>4, <1>8, <1>16, <1>20, <1>21 DEF LoopOK
<1> QED
  BY <1>3, <1>22

\* comes to the end of a set,
LEMMA PositionsSetStep ==
  ASSUME IInv, PositionsSetDone
  PROVE  CallOK' /\ LoopOK' /\ AnswerOK'
<1>1. /\ pc = "positions" /\ call' = call /\ pattern' = pattern
      /\ i <= Len(pattern) /\ j > Len(pattern[i])
      /\ \/ /\ matched /\ pc' = pc /\ i' = i + 1 /\ j' = 1 /\ matched' = FALSE /\ all_pos' = all_pos
         \/ /\ ~matched /\ pc' = "done" /\ answer' = [found |-> FALSE, score |-> 0]
  BY DEF PositionsSetDone, CallUnchanged, parseVars, AtSetEnd, NextSet, Finish
<1>2. call.op = "positions" /\ call.text \in Texts
  BY <1>1 DEF IInv, CallOK
<1>3. CallOK'
  BY <1>1, <1>2 DEF CallOK
<1>4. /\ i \in Nat \ {0} /\ j \in Nat \ {0}
      /\ \A k \in DOMAIN pattern :
           k < i => \E l \in DOMAIN pattern[k] : Shown(call.text, pattern[k][l], all_pos)
      /\ i \in DOMAIN pattern =>
           /\ matched => \E l \in DOMAIN pattern[i] : Shown(call.text, pattern[i][l], all_pos)
           /\ ~matched => \A l \in DOMAIN pattern[i] : l < j => ~SatisfiedIn(call.text, pattern[i][l])
  BY <1>1 DEF IInv, LoopOK
<1>5. IsSequence(pattern) /\ \A k \in DOMAIN pattern : IsSequence(pattern[k])
  BY DEF IInv, ParseOK, CompleteSet
<1>6. DOMAIN pattern = 1 .. Len(pattern) /\ Len(pattern) \in Nat
  BY <1>5, Elements
<1>7. i \in DOMAIN pattern
  BY <1>1, <1>4, <1>6
<1>8. ASSUME NEW k \in DOMAIN pattern
      PROVE  \A l \in DOMAIN pattern[k] : l \in 1 .. Len(pattern[k]) /\ Len(pattern[k]) \in Nat
  <2>1. PICK s : s = pattern[k]
    OBVIOUS
  <2>2. DOMAIN s = 1 .. Len(s) /\ Len(s) \in Nat
    BY <1>5, <2>1, Elements
  <2> QED
    BY <2>1, <2>2
<1>9. CASE matched /\ pc' = pc /\ i' = i + 1 /\ j' = 1 /\ matched' = FALSE /\ all_pos' = all_pos
  <2>1. \A k \in DOMAIN pattern : k < i + 1 => k < i \/ k = i
    BY <1>4, <1>6
  <2>2. \A k \in DOMAIN pattern :
          k < i + 1 => \E l \in DOMAIN pattern[k] : Shown(call.text, pattern[k][l], all_pos)
    BY <1>4, <1>9, <2>1
  <2>3. \A k \in DOMAIN pattern : \A l \in DOMAIN pattern[k] : ~(l < 1)
    <3>1. ASSUME NEW k \in DOMAIN pattern, NEW l \in DOMAIN pattern[k] PROVE ~(l < 1)
      BY <1>8, <3>1
    <3> QED
      BY <3>1
  <2>4. i + 1 \in Nat \ {0}
    BY <1>4
  <2>5. LoopOK'
    BY <1>1, <1>9, <2>2, <2>3, <2>4 DEF LoopOK
  <2>6. AnswerOK'
    BY <1>1, <1>9 DEF AnswerOK
  <2> QED
    BY <1>3, <2>5, <2>6
<1>10. CASE ~matched /\ pc' = "done" /\ answer' = [found |-> FALSE, score |-> 0]
  <2>1. \A l \in DOMAIN pattern[i] : l < j
    <3> SUFFICES ASSUME NEW l \in DOMAIN pattern[i] PROVE l < j
      OBVIOUS
    <3>1. l \in 1 .. Len(pattern[i]) /\ Len(pattern[i]) \in Nat
      BY <1>7, <1>8
    <3> QED
      BY <1>1, <1>4, <3>1
  <2>2. \A l \in DOMAIN pattern[i] : ~SatisfiedIn(call.text, pattern[i][l])
    BY <1>4, <1>7, <1>10, <2>1
  <2>3. ~\A k \in DOMAIN pattern : \E l \in DOMAIN pattern[k] : SatisfiedIn(call.text, pattern[k][l])
    BY <1>7, <2>2
  <2>4. answer'.found = FALSE
    BY <1>10
  <2>5. AnswerOK'
    BY <1>1, <2>3, <2>4 DEF AnswerOK
  <2>6. LoopOK'
    BY <1>10 DEF LoopOK
  <2> QED
    BY <1>3, <2>5, <2>6
<1> QED
  BY <1>1, <1>9, <1>10

\* and to the end of the pattern.
LEMMA PositionsDoneStep ==
  ASSUME IInv, PositionsDone
  PROVE  CallOK' /\ LoopOK' /\ AnswerOK'
<1>1. /\ pc = "positions" /\ call' = call /\ pattern' = pattern /\ all_pos' = all_pos
      /\ i > Len(pattern) /\ pc' = "done" /\ answer' = [found |-> TRUE, score |-> 0]
  BY DEF PositionsDone, CallUnchanged, parseVars, loopVars, Finish
<1>2. call.op = "positions" /\ call.text \in Texts
  BY <1>1 DEF IInv, CallOK
<1>3. CallOK' /\ LoopOK'
  BY <1>1, <1>2 DEF CallOK, LoopOK
<1>4. /\ i \in Nat \ {0}
      /\ \A k \in DOMAIN pattern :
           k < i => \E l \in DOMAIN pattern[k] : Shown(call.text, pattern[k][l], all_pos)
  BY <1>1 DEF IInv, LoopOK
<1>5. \A k \in DOMAIN pattern : k < i
  <2>1. IsSequence(pattern)
    BY DEF IInv, ParseOK
  <2>2. DOMAIN pattern = 1 .. Len(pattern) /\ Len(pattern) \in Nat
    BY <2>1, Elements
  <2> QED
    BY <1>1, <1>4, <2>2
<1>6. \A k \in DOMAIN pattern : \E l \in DOMAIN pattern[k] : Shown(call.text, pattern[k][l], all_pos)
  BY <1>4, <1>5
<1>7. \A k \in DOMAIN pattern : \E l \in DOMAIN pattern[k] : SatisfiedIn(call.text, pattern[k][l])
  BY <1>6 DEF Shown
<1>8. answer'.found = TRUE
  BY <1>1
<1>9. AnswerOK'
  BY <1>1, <1>6, <1>7, <1>8 DEF AnswerOK
<1> QED
  BY <1>3, <1>9

\* Every step keeps the invariant.
LEMMA StepInvariant ==
  IInv /\ [Next]_vars => IInv'
<1> SUFFICES ASSUME IInv, [Next]_vars PROVE IInv'
  OBVIOUS
<1>1. CASE Parse
  BY <1>1, ParseStep
<1>2. CASE Ask
  <2>1. UNCHANGED parseVars
    BY <1>2, AskKeeps
  <2>2. ParseOK'
    BY <2>1 DEF IInv, ParseOK, parseVars
  <2>3. CallOK' /\ LoopOK' /\ AnswerOK'
    BY <1>2, CallStep, ScoreStep, PositionsTermStep, PositionsSetStep, PositionsDoneStep DEF Ask
  <2> QED
    BY <2>2, <2>3 DEF IInv
<1>3. CASE UNCHANGED vars
  BY <1>3 DEF IInv, ParseOK, CallOK, LoopOK, AnswerOK, vars, parseVars, loopVars
<1> QED
  BY <1>1, <1>2, <1>3 DEF Next

\* Whatever is typed, and for every text: positions are returned exactly if the text
\* satisfies the query, and those of a term of each set are among them
\* (fzf_get_positions).
THEOREM PositionsRight ==
  Spec => []PositionsIffSatisfied
BY InitInvariant, StepInvariant, InvariantImplies, PTL DEF Spec

-----------------------------------------------------------------------------
(* Scores.                                                                 *)

\* A satisfied term that brings a score
Kept(string, term) == ~term.inv /\ SatisfiedIn(string, term)

\* Each set one inverse term
OnlyInverse == \A k \in DOMAIN pattern : Len(pattern[k]) = 1 /\ pattern[k][1].inv

\* The parser knows whether the pattern has only inverse terms, which decides on the
\* loop for a score, and no call has been made before it is done.
MeaningOK ==
  /\ query = <<>> => Blank(rest) /\ set = <<>> /\ pattern = <<>>
  /\ pc # "parse" /\ pattern # <<>> => (only_inv <=> OnlyInverse)
  /\ pc \in {"parse", "ready"} => total_score = 0 /\ current_score = 0
  /\ pc = "inverse" => pattern # <<>> /\ only_inv
  /\ pc = "score" => pattern # <<>> /\ ~only_inv

\* With only inverse terms the total is 0 as long as all are satisfied.
InverseLoopOK ==
  pc = "inverse" =>
    /\ i \in Nat \ {0} /\ total_score \in Nat
    /\ total_score = 0 <=> \A k \in DOMAIN pattern : k < i => SatisfiedIn(call.text, pattern[k][1])

\* Else the total is positive once a satisfied term brought a score; that of the set
\* is, from the first such term on, which ends it.
ScoreLoopOK ==
  pc = "score" =>
    /\ i \in Nat \ {0} /\ j \in Nat \ {0} /\ total_score \in Nat /\ current_score \in Nat
    /\ \A k \in DOMAIN pattern :
         k < i => \E l \in DOMAIN pattern[k] : SatisfiedIn(call.text, pattern[k][l])
    /\ total_score > 0 <=>
         \E k \in DOMAIN pattern : k < i /\ \E l \in DOMAIN pattern[k] : Kept(call.text, pattern[k][l])
    /\ i \in DOMAIN pattern =>
         /\ matched => \E l \in DOMAIN pattern[i] : SatisfiedIn(call.text, pattern[i][l])
         /\ ~matched => \A l \in DOMAIN pattern[i] : l < j => ~SatisfiedIn(call.text, pattern[i][l])
         /\ current_score > 0 => /\ j > Len(pattern[i])
                                 /\ \E l \in DOMAIN pattern[i] : Kept(call.text, pattern[i][l])
         /\ current_score = 0 => \A l \in DOMAIN pattern[i] : l < j => ~Kept(call.text, pattern[i][l])

AllSatisfied == \A k \in DOMAIN pattern : \E l \in DOMAIN pattern[k] : SatisfiedIn(call.text, pattern[k][l])
SomeKept == \E k \in DOMAIN pattern : \E l \in DOMAIN pattern[k] : Kept(call.text, pattern[k][l])

ScoreOK ==
  (pc = "done" /\ call.op = "score") =>
    (answer.score > 0 <=> AllSatisfied /\ (OnlyInverse \/ SomeKept))

ScoreInv == IInv /\ MeaningOK /\ InverseLoopOK /\ ScoreLoopOK /\ ScoreOK

\* The invariant implies that scores are as they should be.
LEMMA ScoreInvariantImplies ==
  ScoreInv => ScoreIffSatisfied
<1> SUFFICES ASSUME ScoreInv, pc = "done", call.op = "score", InverseAlone
             PROVE  answer.score > 0 <=> QuerySatisfied
  BY DEF ScoreIffSatisfied
<1>1. QuerySatisfied <=> AllSatisfied
  BY SatisfiedIs DEF QuerySatisfied, AllSatisfied
<1>2. answer.score > 0 <=> AllSatisfied /\ (OnlyInverse \/ SomeKept)
  BY DEF ScoreInv, ScoreOK
<1>3. ASSUME AllSatisfied, ~OnlyInverse PROVE SomeKept
  <2>1. PICK k \in DOMAIN pattern : ~(Len(pattern[k]) = 1 /\ pattern[k][1].inv)
    BY <1>3 DEF OnlyInverse
  <2>2. PICK terms : terms = pattern[k]
    OBVIOUS
  <2>3. PICK l \in DOMAIN terms : SatisfiedIn(call.text, terms[l])
    BY <1>3, <2>2 DEF AllSatisfied
  <2>4. terms[l].inv => Len(terms) = 1
    BY <2>2 DEF InverseAlone
  <2>5. IsSequence(terms)
    BY <2>2 DEF ScoreInv, IInv, ParseOK, CompleteSet
  <2>6. Len(terms) = 1 => l = 1
    <3>1. DOMAIN terms = 1 .. Len(terms)
      BY <2>5, Elements
    <3> QED
      BY <3>1
  <2>7. ~terms[l].inv
    BY <2>1, <2>2, <2>4, <2>6
  <2>8. Kept(call.text, pattern[k][l])
    BY <2>2, <2>3, <2>7 DEF Kept
  <2> QED
    BY <2>2, <2>8 DEF SomeKept
<1> QED
  BY <1>1, <1>2, <1>3

\* Nothing is left of nothing.
LEMMA ScoreInit ==
  Init => ScoreInv
<1> SUFFICES ASSUME Init PROVE ScoreInv
  OBVIOUS
<1>1. IInv
  BY InitInvariant
<1>2. query = <<>> => Blank(rest)
  <2> SUFFICES ASSUME query = <<>> PROVE Blank(rest)
    OBVIOUS
  <2>1. IsSequence(query) /\ Len(query) = 0 /\ DOMAIN query = {}
    BY Literals
  <2> DEFINE Pair(k) == k \in 1 .. Len(query) - 1 /\ query[k] = "\\" /\ IsSpace(query[k + 1])
             Piece(k) == IF Pair(k) THEN <<"\t">> ELSE IF Pair(k - 1) THEN <<>> ELSE <<query[k]>>
  <2>2. PICK pieces : pieces = [k \in DOMAIN query |-> Piece(k)]
    OBVIOUS
  <2>3. Escaped(query) = FlattenSeq(pieces)
    BY <2>2 DEF Escaped
  <2> HIDE DEF Piece
  <2>4. pieces = [k \in 1 .. 0 |-> pieces[k]]
    BY <2>1, <2>2
  <2>5. IsSequence(pieces) /\ Len(pieces) = 0 /\ DOMAIN pieces = 1 .. 0
    <3>1. PICK n \in Nat : n = 0
      OBVIOUS
    <3>2. pieces = [k \in 1 .. n |-> pieces[k]]
      BY <2>4, <3>1
    <3>3. IsSequence(pieces) /\ Len(pieces) = n /\ DOMAIN pieces = 1 .. n
      BY <3>2, FunctionSequence
    <3> QED
      BY <3>1, <3>3
  <2>6. FlattenSeq(pieces) = pieces
    BY <2>5 DEF FlattenSeq
  <2>7. rest = pieces
    BY <2>3, <2>6 DEF Init
  <2> QED
    BY <2>5, <2>7 DEF Blank
<1>3. MeaningOK /\ InverseLoopOK /\ ScoreLoopOK /\ ScoreOK
  BY <1>2 DEF Init, MeaningOK, InverseLoopOK, ScoreLoopOK, ScoreOK
<1> QED
  BY <1>1, <1>3 DEF ScoreInv

\* Reading
LEMMA ScoreParseStep ==
  ASSUME ScoreInv, Parse
  PROVE  MeaningOK' /\ InverseLoopOK' /\ ScoreLoopOK' /\ ScoreOK'
<1>1. /\ query = <<>> => Blank(rest) /\ set = <<>> /\ pattern = <<>>
      /\ pc = "parse" => total_score = 0 /\ current_score = 0
  BY DEF ScoreInv, MeaningOK
<1>2. pc = "parse" /\ query' = query /\ UNCHANGED <<total_score, current_score>>
  BY DEF Parse, ReadBar, ReadToken, ParseDone, ParseUnchanged, loopVars
<1>3. CASE ReadBar \/ ReadToken
  <2>1. ~Blank(rest) /\ pc' = "parse"
    BY <1>2, <1>3 DEF ReadBar, ReadToken
  <2> QED
    BY <1>1, <1>2, <2>1 DEF MeaningOK, InverseLoopOK, ScoreLoopOK, ScoreOK
<1>4. CASE ParseDone
  <2>1. /\ pc' = "ready" /\ UNCHANGED <<rest, set>>
        /\ pattern' = IF set # <<>> THEN Append(pattern, set) ELSE pattern
        /\ only_inv' = (query # <<>> /\ \A k \in DOMAIN pattern' : Len(pattern'[k]) = 1 /\ pattern'[k][1].inv)
    BY <1>4 DEF ParseDone
  <2>2. query = <<>> => pattern' = <<>>
    BY <1>1, <2>1
  <2>3. pattern' # <<>> => (only_inv' <=> OnlyInverse')
    BY <2>1, <2>2 DEF OnlyInverse
  <2> QED
    BY <1>1, <1>2, <2>1, <2>2, <2>3 DEF MeaningOK, InverseLoopOK, ScoreLoopOK, ScoreOK
<1> QED
  BY <1>3, <1>4 DEF Parse

\* The start of a call
LEMMA ScoreCallStep ==
  ASSUME ScoreInv, NEW op \in {"score", "positions"}, NEW text \in Texts, Call(op, text)
  PROVE  MeaningOK' /\ InverseLoopOK' /\ ScoreLoopOK' /\ ScoreOK'
<1>1. /\ pc = "ready" /\ call'.op = op
      /\ UNCHANGED <<query, parseVars, loopVars>>
      /\ \/ /\ pattern = <<>> /\ pc' = "done"
            /\ answer' = [found |-> FALSE, score |-> IF op = "score" THEN 1 ELSE 0]
         \/ /\ pattern # <<>>
            /\ pc' = IF op = "score" /\ only_inv THEN "inverse" ELSE op
  BY DEF Call, Finish
<1>2. i = 1 /\ j = 1 /\ matched = FALSE /\ total_score = 0 /\ current_score = 0
  BY <1>1 DEF ScoreInv, IInv, CallOK, MeaningOK
<1>3. UNCHANGED <<query, rest, set, pattern, only_inv, i, j, matched, total_score, current_score>>
  BY <1>1 DEF parseVars, loopVars
<1>4. IsSequence(pattern) /\ \A k \in DOMAIN pattern : IsSequence(pattern[k])
  BY DEF ScoreInv, IInv, ParseOK, CompleteSet
<1>5. \A k \in DOMAIN pattern : ~(k < 1)
  <2>1. DOMAIN pattern = 1 .. Len(pattern) /\ Len(pattern) \in Nat
    BY <1>4, Elements
  <2> QED
    BY <2>1
<1>6. ASSUME NEW k \in DOMAIN pattern PROVE \A l \in DOMAIN pattern[k] : ~(l < 1)
  <2>1. PICK s : s = pattern[k]
    OBVIOUS
  <2>2. DOMAIN s = 1 .. Len(s) /\ Len(s) \in Nat
    BY <1>4, <2>1, Elements
  <2> QED
    BY <2>1, <2>2
<1>7. pattern # <<>> => (only_inv <=> OnlyInverse)
  BY <1>1 DEF ScoreInv, MeaningOK
<1>8. OnlyInverse' <=> OnlyInverse
  BY <1>3 DEF OnlyInverse
<1>9. MeaningOK'
  <2>1. query = <<>> => Blank(rest) /\ set = <<>> /\ pattern = <<>>
    BY DEF ScoreInv, MeaningOK
  <2> QED
    BY <1>1, <1>3, <1>7, <1>8, <2>1 DEF MeaningOK
<1>10. InverseLoopOK' /\ ScoreLoopOK'
  BY <1>2, <1>3, <1>5, <1>6 DEF InverseLoopOK, ScoreLoopOK
<1>11. ScoreOK'
  <2> SUFFICES ASSUME pc' = "done", call'.op = "score" PROVE ScoreOK'
    BY DEF ScoreOK
  <2>1. pattern' = <<>> /\ answer'.score = 1
    BY <1>1, <1>3
  <2>2. DOMAIN <<>> = {}
    OBVIOUS
  <2>3. AllSatisfied' /\ OnlyInverse'
    BY <2>1, <2>2 DEF AllSatisfied, OnlyInverse
  <2> QED
    BY <2>1, <2>3 DEF ScoreOK
<1> QED
  BY <1>9, <1>10, <1>11

\* What was read stays what it means.
LEMMA MeaningKept ==
  ASSUME ScoreInv, UNCHANGED <<query, parseVars>>, pc' = pc \/ pc' = "done",
         pc \notin {"parse", "ready"}
  PROVE  MeaningOK' /\ (OnlyInverse' <=> OnlyInverse)
<1>1. UNCHANGED <<query, rest, set, pattern, only_inv>>
  BY DEF parseVars
<1>2. OnlyInverse' <=> OnlyInverse
  BY <1>1 DEF OnlyInverse
<1>3. MeaningOK
  BY DEF ScoreInv
<1> QED
  BY <1>1, <1>2, <1>3 DEF MeaningOK

\* A pattern in which every set is one inverse term
LEMMA OnlyInverseTerms ==
  ASSUME ParseOK, OnlyInverse, NEW k \in DOMAIN pattern
  PROVE  /\ Complete(pattern[k][1]) /\ pattern[k][1].inv
         /\ DOMAIN pattern[k] = {1}
<1>1. PICK terms : terms = pattern[k]
  OBVIOUS
<1>2. /\ IsSequence(terms) /\ Len(terms) = 1 /\ terms[1].inv
      /\ \A l \in DOMAIN terms : Complete(terms[l])
  BY <1>1 DEF ParseOK, CompleteSet, OnlyInverse
<1>3. DOMAIN terms = 1 .. Len(terms)
  BY <1>2, Elements
<1>4. DOMAIN terms = {1}
  BY <1>2, <1>3
<1> QED
  BY <1>1, <1>2, <1>4

\* The loop over inverse terms
LEMMA ScoreInverseStep ==
  ASSUME PositiveScores, ScoreInv, InverseTerm \/ InverseDone
  PROVE  MeaningOK' /\ InverseLoopOK' /\ ScoreLoopOK' /\ ScoreOK'
<1>1. /\ pc = "inverse" /\ (pc' = pc \/ pc' = "done")
      /\ UNCHANGED <<query, parseVars, call>> /\ pattern' = pattern
  BY DEF InverseTerm, InverseDone, Finish, CallUnchanged, parseVars
<1>2. MeaningOK' /\ (OnlyInverse' <=> OnlyInverse)
  BY <1>1, MeaningKept
<1>3. OnlyInverse /\ ParseOK /\ call.text \in Texts
  BY <1>1 DEF ScoreInv, MeaningOK, IInv, CallOK
<1>4. /\ i \in Nat \ {0} /\ total_score \in Nat
      /\ total_score = 0 <=> \A k \in DOMAIN pattern : k < i => SatisfiedIn(call.text, pattern[k][1])
  BY <1>1 DEF ScoreInv, InverseLoopOK
<1>5. DOMAIN pattern = 1 .. Len(pattern) /\ Len(pattern) \in Nat
  <2>1. IsSequence(pattern)
    BY <1>3 DEF ParseOK
  <2> QED
    BY <2>1, Elements
<1>6. ScoreLoopOK'
  BY <1>1 DEF ScoreLoopOK
<1>7. CASE InverseTerm
  <2>1. pc' = pc /\ i' = i + 1 /\ i <= Len(pattern)
    BY <1>7 DEF InverseTerm
  <2>2. i \in DOMAIN pattern
    BY <1>4, <1>5, <2>1
  <2>3. PICK term : term = pattern[i][1]
    OBVIOUS
  <2>4. Complete(term) /\ term.inv
    BY <1>3, <2>2, <2>3, OnlyInverseTerms
  <2>5. PICK res \in Answers(term) : total_score' = total_score + res.score
    BY <1>7, <2>3 DEF InverseTerm
  <2>6. IsSequence(call.text) /\ ~Blank(call.text)
    BY <1>3, TextsAssumption
  <2>7. /\ res.start \in Int
        /\ SatisfiedIn(call.text, term) <=> res.start < 0
        /\ res.score \in Nat /\ (res.score > 0 <=> res.start >= 0)
    BY <1>3, <2>4, <2>6, AnswerMeans
  <2>8. SatisfiedIn(call.text, term) <=> res.score = 0
    BY <2>7
  <2>9. total_score' \in Nat /\ (total_score' = 0 <=> total_score = 0 /\ res.score = 0)
    BY <1>4, <2>5, <2>7
  <2>10. \A k \in DOMAIN pattern : k < i + 1 <=> k < i \/ k = i
    BY <1>4, <1>5
  <2>11. total_score' = 0 <=> \A k \in DOMAIN pattern : k < i + 1 => SatisfiedIn(call.text, pattern[k][1])
    BY <1>4, <2>2, <2>3, <2>8, <2>9, <2>10
  <2>12. i + 1 \in Nat \ {0}
    BY <1>4
  <2>13. InverseLoopOK'
    BY <1>1, <2>1, <2>9, <2>11, <2>12 DEF InverseLoopOK
  <2>14. ScoreOK'
    BY <1>1, <2>1 DEF ScoreOK
  <2> QED
    BY <1>2, <1>6, <2>13, <2>14
<1>8. CASE InverseDone
  <2>1. pc' = "done" /\ i > Len(pattern) /\ answer'.score = IF total_score > 0 THEN 0 ELSE 1
    BY <1>8 DEF InverseDone, Finish
  <2>2. InverseLoopOK'
    BY <2>1 DEF InverseLoopOK
  <2>3. \A k \in DOMAIN pattern : k < i
    BY <1>4, <1>5, <2>1
  <2>4. answer'.score > 0 <=> \A k \in DOMAIN pattern : SatisfiedIn(call.text, pattern[k][1])
    <3>1. answer'.score > 0 <=> total_score = 0
      BY <1>4, <2>1
    <3> QED
      BY <1>4, <2>3, <3>1
  <2>5. AllSatisfied' <=> \A k \in DOMAIN pattern : SatisfiedIn(call.text, pattern[k][1])
    <3>1. \A k \in DOMAIN pattern : DOMAIN pattern[k] = {1}
      BY <1>3, OnlyInverseTerms
    <3>2. \A k \in DOMAIN pattern : (\E l \in DOMAIN pattern[k] : SatisfiedIn(call.text, pattern[k][l]))
                                      <=> SatisfiedIn(call.text, pattern[k][1])
      BY <3>1
    <3> QED
      BY <1>1, <3>2 DEF AllSatisfied
  <2>6. ScoreOK'
    BY <1>2, <1>3, <2>4, <2>5 DEF ScoreOK
  <2> QED
    BY <1>2, <1>6, <2>2, <2>6
<1> QED
  BY <1>7, <1>8

\* The loop over sets looks at a term,
LEMMA ScoreTermStep ==
  ASSUME PositiveScores, ScoreInv, ScoreTerm
  PROVE  MeaningOK' /\ InverseLoopOK' /\ ScoreLoopOK' /\ ScoreOK'
<1>1. /\ pc = "score" /\ pc' = pc /\ UNCHANGED <<query, parseVars, call>> /\ pattern' = pattern
      /\ i' = i /\ total_score' = total_score
      /\ i <= Len(pattern) /\ j <= Len(pattern[i])
  BY DEF ScoreTerm, CallUnchanged, parseVars, AtTerm
<1>2. MeaningOK'
  BY <1>1, MeaningKept
<1>3. ParseOK /\ call.text \in Texts
  BY <1>1 DEF ScoreInv, IInv, CallOK
<1>4. /\ i \in Nat \ {0} /\ j \in Nat \ {0} /\ total_score \in Nat /\ current_score \in Nat
      /\ \A k \in DOMAIN pattern :
           k < i => \E l \in DOMAIN pattern[k] : SatisfiedIn(call.text, pattern[k][l])
      /\ total_score > 0 <=>
           \E k \in DOMAIN pattern : k < i /\ \E l \in DOMAIN pattern[k] : Kept(call.text, pattern[k][l])
      /\ i \in DOMAIN pattern =>
           /\ matched => \E l \in DOMAIN pattern[i] : SatisfiedIn(call.text, pattern[i][l])
           /\ ~matched => \A l \in DOMAIN pattern[i] : l < j => ~SatisfiedIn(call.text, pattern[i][l])
           /\ current_score > 0 => /\ j > Len(pattern[i])
                                   /\ \E l \in DOMAIN pattern[i] : Kept(call.text, pattern[i][l])
           /\ current_score = 0 => \A l \in DOMAIN pattern[i] : l < j => ~Kept(call.text, pattern[i][l])
  BY <1>1 DEF ScoreInv, ScoreLoopOK
<1>5. IsSequence(pattern) /\ \A k \in DOMAIN pattern : CompleteSet(pattern[k])
  BY <1>3 DEF ParseOK
<1>6. DOMAIN pattern = 1 .. Len(pattern) /\ Len(pattern) \in Nat
  BY <1>5, Elements
<1>7. i \in DOMAIN pattern
  BY <1>1, <1>4, <1>6
<1>8. PICK terms : terms = pattern[i]
  OBVIOUS
<1>9. /\ IsSequence(terms) /\ DOMAIN terms = 1 .. Len(terms) /\ Len(terms) \in Nat
      /\ \A l \in DOMAIN terms : Complete(terms[l])
  BY <1>5, <1>7, <1>8, Elements DEF CompleteSet
<1>10. j \in DOMAIN terms
  BY <1>1, <1>4, <1>8, <1>9
<1>11. PICK term : term = terms[j]
  OBVIOUS
<1>12. Complete(term)
  BY <1>9, <1>10, <1>11
<1>13. PICK res \in Answers(term) :
         \/ /\ res.start >= 0 /\ ~term.inv
            /\ current_score' = res.score /\ matched' = TRUE
            /\ j' = Len(terms) + 1
         \/ /\ res.start >= 0 /\ term.inv
            /\ j' = j + 1
            /\ UNCHANGED <<current_score, matched>>
         \/ /\ res.start < 0 /\ term.inv
            /\ current_score' = 0 /\ matched' = TRUE
            /\ j' = j + 1
         \/ /\ res.start < 0 /\ ~term.inv
            /\ j' = j + 1
            /\ UNCHANGED <<current_score, matched>>
  BY <1>8, <1>11 DEF ScoreTerm
<1>14. IsSequence(call.text) /\ ~Blank(call.text)
  BY <1>3, TextsAssumption
<1>15. /\ res.start \in Int
       /\ SatisfiedIn(call.text, term) <=> IF term.inv THEN res.start < 0 ELSE res.start >= 0
       /\ res.score \in Nat /\ (res.score > 0 <=> res.start >= 0)
  BY <1>3, <1>12, <1>14, AnswerMeans
<1>16. PICK string : string = call.text
  OBVIOUS
<1> DEFINE SomeSatisfied == \E l \in DOMAIN terms : SatisfiedIn(string, terms[l])
           SomeOfTerms == \E l \in DOMAIN terms : Kept(string, terms[l])
           NoneBefore(n) == \A l \in DOMAIN terms : l < n => ~SatisfiedIn(string, terms[l])
           NoneKept(n) == \A l \in DOMAIN terms : l < n => ~Kept(string, terms[l])
\* A term with a score would have ended the set.
<1>17. /\ matched => SomeSatisfied
       /\ ~matched => NoneBefore(j)
       /\ current_score = 0 /\ NoneKept(j)
  <2>1. ~(j > Len(terms))
    BY <1>1, <1>4, <1>8, <1>9
  <2>2. current_score = 0
    BY <1>4, <1>7, <1>8, <2>1
  <2> QED
    BY <1>4, <1>7, <1>8, <1>16, <2>2
<1>18. \A l \in DOMAIN terms : l < j + 1 => l < j \/ l = j
  BY <1>4, <1>9
<1>19. j + 1 \in Nat \ {0} /\ Len(terms) + 1 \in Nat \ {0} /\ Len(terms) + 1 > Len(terms)
  BY <1>4, <1>9
<1>20. /\ j' \in Nat \ {0} /\ current_score' \in Nat
       /\ matched' => SomeSatisfied
       /\ ~matched' => NoneBefore(j')
       /\ current_score' > 0 => j' > Len(terms) /\ SomeOfTerms
       /\ current_score' = 0 => NoneKept(j')
  <2>1. CASE /\ res.start >= 0 /\ ~term.inv
             /\ current_score' = res.score /\ matched' = TRUE
             /\ j' = Len(terms) + 1
    <3>1. SatisfiedIn(string, term) /\ Kept(string, term)
      BY <1>15, <1>16, <2>1 DEF Kept
    <3>2. SomeSatisfied /\ SomeOfTerms
      BY <1>10, <1>11, <3>1
    <3>3. current_score' \in Nat /\ current_score' # 0
      BY <1>15, <2>1
    <3> HIDE DEF SomeSatisfied, SomeOfTerms, NoneBefore, NoneKept
    <3> QED
      BY <1>19, <2>1, <3>2, <3>3
  <2>2. CASE /\ res.start >= 0 /\ term.inv
             /\ j' = j + 1
             /\ UNCHANGED <<current_score, matched>>
    <3>1. ~SatisfiedIn(string, term) /\ ~Kept(string, term)
      BY <1>15, <1>16, <2>2 DEF Kept
    <3>2. ~matched => NoneBefore(j + 1)
      BY <1>11, <1>17, <1>18, <3>1
    <3>3. NoneKept(j + 1)
      BY <1>11, <1>17, <1>18, <3>1
    <3> HIDE DEF SomeSatisfied, SomeOfTerms, NoneBefore, NoneKept
    <3> QED
      BY <1>17, <1>19, <2>2, <3>2, <3>3
  <2>3. CASE /\ res.start < 0 /\ term.inv
             /\ current_score' = 0 /\ matched' = TRUE
             /\ j' = j + 1
    <3>1. SatisfiedIn(string, term) /\ ~Kept(string, term)
      BY <1>15, <1>16, <2>3 DEF Kept
    <3>2. SomeSatisfied
      BY <1>10, <1>11, <3>1
    <3>3. NoneKept(j + 1)
      BY <1>11, <1>17, <1>18, <3>1
    <3> HIDE DEF SomeSatisfied, SomeOfTerms, NoneBefore, NoneKept
    <3> QED
      BY <1>19, <2>3, <3>2, <3>3
  <2>4. CASE /\ res.start < 0 /\ ~term.inv
             /\ j' = j + 1
             /\ UNCHANGED <<current_score, matched>>
    <3>1. ~SatisfiedIn(string, term) /\ ~Kept(string, term)
      BY <1>15, <1>16, <2>4 DEF Kept
    <3>2. ~matched => NoneBefore(j + 1)
      BY <1>11, <1>17, <1>18, <3>1
    <3>3. NoneKept(j + 1)
      BY <1>11, <1>17, <1>18, <3>1
    <3> HIDE DEF SomeSatisfied, SomeOfTerms, NoneBefore, NoneKept
    <3> QED
      BY <1>17, <1>19, <2>4, <3>2, <3>3
  <2> QED
    BY <1>13, <2>1, <2>2, <2>3, <2>4
<1>21. ScoreLoopOK'
  BY <1>1, <1>4, <1>8, <1>16, <1>20 DEF ScoreLoopOK
<1>22. InverseLoopOK' /\ ScoreOK'
  BY <1>1 DEF InverseLoopOK, ScoreOK
<1> QED
  BY <1>2, <1>21, <1>22

\* comes to the end of a set,
LEMMA ScoreSetStep ==
  ASSUME ScoreInv, ScoreSetDone
  PROVE  MeaningOK' /\ InverseLoopOK' /\ ScoreLoopOK' /\ ScoreOK'
<1>1. /\ pc = "score" /\ (pc' = pc \/ pc' = "done")
      /\ UNCHANGED <<query, parseVars, call>> /\ pattern' = pattern
      /\ i <= Len(pattern) /\ j > Len(pattern[i])
      /\ \/ /\ matched /\ pc' = pc /\ i' = i + 1 /\ j' = 1 /\ matched' = FALSE /\ current_score' = 0
            /\ total_score' = total_score + current_score
         \/ /\ ~matched /\ pc' = "done" /\ answer' = [found |-> FALSE, score |-> 0]
  BY DEF ScoreSetDone, CallUnchanged, parseVars, AtSetEnd, NextSet, Finish
<1>2. MeaningOK'
  BY <1>1, MeaningKept
<1>3. InverseLoopOK'
  BY <1>1 DEF InverseLoopOK
<1>4. /\ i \in Nat \ {0} /\ j \in Nat \ {0} /\ total_score \in Nat /\ current_score \in Nat
      /\ \A k \in DOMAIN pattern :
           k < i => \E l \in DOMAIN pattern[k] : SatisfiedIn(call.text, pattern[k][l])
      /\ total_score > 0 <=>
           \E k \in DOMAIN pattern : k < i /\ \E l \in DOMAIN pattern[k] : Kept(call.text, pattern[k][l])
      /\ i \in DOMAIN pattern =>
           /\ matched => \E l \in DOMAIN pattern[i] : SatisfiedIn(call.text, pattern[i][l])
           /\ ~matched => \A l \in DOMAIN pattern[i] : l < j => ~SatisfiedIn(call.text, pattern[i][l])
           /\ current_score > 0 => /\ j > Len(pattern[i])
                                   /\ \E l \in DOMAIN pattern[i] : Kept(call.text, pattern[i][l])
           /\ current_score = 0 => \A l \in DOMAIN pattern[i] : l < j => ~Kept(call.text, pattern[i][l])
  BY <1>1 DEF ScoreInv, ScoreLoopOK
<1>5. IsSequence(pattern) /\ \A k \in DOMAIN pattern : IsSequence(pattern[k])
  BY DEF ScoreInv, IInv, ParseOK, CompleteSet
<1>6. DOMAIN pattern = 1 .. Len(pattern) /\ Len(pattern) \in Nat
  BY <1>5, Elements
<1>7. i \in DOMAIN pattern
  BY <1>1, <1>4, <1>6
<1>8. ASSUME NEW k \in DOMAIN pattern
      PROVE  \A l \in DOMAIN pattern[k] : l \in 1 .. Len(pattern[k]) /\ Len(pattern[k]) \in Nat
  <2>1. PICK s : s = pattern[k]
    OBVIOUS
  <2>2. DOMAIN s = 1 .. Len(s) /\ Len(s) \in Nat
    BY <1>5, <2>1, Elements
  <2> QED
    BY <2>1, <2>2
<1>9. \A l \in DOMAIN pattern[i] : l < j
  <2> SUFFICES ASSUME NEW l \in DOMAIN pattern[i] PROVE l < j
    OBVIOUS
  <2>1. l \in 1 .. Len(pattern[i]) /\ Len(pattern[i]) \in Nat
    BY <1>7, <1>8
  <2> QED
    BY <1>1, <1>4, <2>1
<1>10. CASE /\ matched /\ pc' = pc /\ i' = i + 1 /\ j' = 1 /\ matched' = FALSE /\ current_score' = 0
            /\ total_score' = total_score + current_score
  <2>1. \A k \in DOMAIN pattern : k < i + 1 <=> k < i \/ k = i
    BY <1>4, <1>6
  <2>2. \A k \in DOMAIN pattern :
          k < i + 1 => \E l \in DOMAIN pattern[k] : SatisfiedIn(call.text, pattern[k][l])
    BY <1>4, <1>7, <1>10, <2>1
  <2>3. current_score > 0 <=> \E l \in DOMAIN pattern[i] : Kept(call.text, pattern[i][l])
    <3>1. current_score > 0 \/ current_score = 0
      BY <1>4
    <3> QED
      BY <1>4, <1>7, <1>9, <3>1
  <2>4. total_score' \in Nat /\ (total_score' > 0 <=> total_score > 0 \/ current_score > 0)
    BY <1>4, <1>10
  <2>5. total_score' > 0 <=>
          \E k \in DOMAIN pattern : k < i + 1 /\ \E l \in DOMAIN pattern[k] : Kept(call.text, pattern[k][l])
    BY <1>4, <1>7, <2>1, <2>3, <2>4
  <2>6. \A k \in DOMAIN pattern : \A l \in DOMAIN pattern[k] : ~(l < 1)
    <3>1. ASSUME NEW k \in DOMAIN pattern, NEW l \in DOMAIN pattern[k] PROVE ~(l < 1)
      BY <1>8, <3>1
    <3> QED
      BY <3>1
  <2>7. i + 1 \in Nat \ {0} /\ 1 \in Nat \ {0} /\ 0 \in Nat /\ ~(0 > 0)
    BY <1>4
  <2>8. ScoreLoopOK'
    BY <1>1, <1>10, <2>2, <2>4, <2>5, <2>6, <2>7 DEF ScoreLoopOK
  <2>9. ScoreOK'
    BY <1>1, <1>10 DEF ScoreOK
  <2> QED
    BY <1>2, <1>3, <2>8, <2>9
<1>11. CASE ~matched /\ pc' = "done" /\ answer' = [found |-> FALSE, score |-> 0]
  <2>1. \A l \in DOMAIN pattern[i] : ~SatisfiedIn(call.text, pattern[i][l])
    BY <1>4, <1>7, <1>9, <1>11
  <2>2. ~AllSatisfied'
    BY <1>1, <1>7, <2>1 DEF AllSatisfied
  <2>3. ~(answer'.score > 0)
    BY <1>11
  <2>4. ScoreOK'
    BY <2>2, <2>3 DEF ScoreOK
  <2>5. ScoreLoopOK'
    BY <1>11 DEF ScoreLoopOK
  <2> QED
    BY <1>2, <1>3, <2>4, <2>5
<1> QED
  BY <1>1, <1>10, <1>11

\* and to the end of the pattern.
LEMMA ScoreDoneStep ==
  ASSUME ScoreInv, ScoreDone
  PROVE  MeaningOK' /\ InverseLoopOK' /\ ScoreLoopOK' /\ ScoreOK'
<1>1. /\ pc = "score" /\ pc' = "done" /\ UNCHANGED <<query, parseVars, call>> /\ pattern' = pattern
      /\ i > Len(pattern) /\ answer' = [found |-> FALSE, score |-> total_score]
  BY DEF ScoreDone, CallUnchanged, parseVars, Finish
<1>2. MeaningOK' /\ (OnlyInverse' <=> OnlyInverse)
  BY <1>1, MeaningKept
<1>3. ~OnlyInverse
  BY <1>1 DEF ScoreInv, MeaningOK
<1>4. InverseLoopOK' /\ ScoreLoopOK'
  BY <1>1 DEF InverseLoopOK, ScoreLoopOK
<1>5. /\ i \in Nat \ {0} /\ total_score \in Nat
      /\ \A k \in DOMAIN pattern :
           k < i => \E l \in DOMAIN pattern[k] : SatisfiedIn(call.text, pattern[k][l])
      /\ total_score > 0 <=>
           \E k \in DOMAIN pattern : k < i /\ \E l \in DOMAIN pattern[k] : Kept(call.text, pattern[k][l])
  BY <1>1 DEF ScoreInv, ScoreLoopOK
<1>6. \A k \in DOMAIN pattern : k < i
  <2>1. IsSequence(pattern)
    BY DEF ScoreInv, IInv, ParseOK
  <2>2. DOMAIN pattern = 1 .. Len(pattern) /\ Len(pattern) \in Nat
    BY <2>1, Elements
  <2> QED
    BY <1>1, <1>5, <2>2
<1>7. AllSatisfied /\ (total_score > 0 <=> SomeKept)
  BY <1>5, <1>6 DEF AllSatisfied, SomeKept
<1>8. (AllSatisfied' <=> AllSatisfied) /\ (SomeKept' <=> SomeKept)
  BY <1>1 DEF AllSatisfied, SomeKept
<1>9. answer'.score = total_score
  BY <1>1
<1>10. ScoreOK'
  BY <1>2, <1>3, <1>7, <1>8, <1>9 DEF ScoreOK
<1> QED
  BY <1>2, <1>4, <1>10

\* Neither loop for positions has to do with scores.
LEMMA ScorePositionsStep ==
  ASSUME ScoreInv, PositionsTerm \/ PositionsSetDone \/ PositionsDone
  PROVE  MeaningOK' /\ InverseLoopOK' /\ ScoreLoopOK' /\ ScoreOK'
<1>1. /\ pc = "positions" /\ (pc' = pc \/ pc' = "done") /\ UNCHANGED <<query, parseVars, call>>
  BY DEF PositionsTerm, PositionsSetDone, PositionsDone, CallUnchanged, Finish
<1>2. MeaningOK'
  BY <1>1, MeaningKept
<1>3. call.op = "positions"
  BY <1>1 DEF ScoreInv, IInv, CallOK
<1> QED
  BY <1>1, <1>2, <1>3 DEF InverseLoopOK, ScoreLoopOK, ScoreOK

\* Every step keeps the invariant.
LEMMA ScoreInvariantStep ==
  ASSUME PositiveScores
  PROVE  ScoreInv /\ [Next]_vars => ScoreInv'
<1> SUFFICES ASSUME ScoreInv, [Next]_vars PROVE ScoreInv'
  OBVIOUS
<1>1. IInv'
  BY StepInvariant DEF ScoreInv
<1>2. CASE Next
  <2>1. MeaningOK' /\ InverseLoopOK' /\ ScoreLoopOK' /\ ScoreOK'
    BY <1>2, ScoreParseStep, ScoreCallStep, ScoreInverseStep, ScoreTermStep, ScoreSetStep,
       ScoreDoneStep, ScorePositionsStep DEF Next, Ask
  <2> QED
    BY <1>1, <2>1 DEF ScoreInv
<1>3. CASE UNCHANGED vars
  <2>1. /\ UNCHANGED <<query, rest, set, pattern, only_inv, pc, call, answer>>
        /\ UNCHANGED <<i, j, matched, current_score, total_score>>
    BY <1>3 DEF vars, parseVars, loopVars
  <2>2. OnlyInverse' <=> OnlyInverse
    BY <2>1 DEF OnlyInverse
  <2>3. MeaningOK' /\ InverseLoopOK' /\ ScoreLoopOK'
    BY <2>1, <2>2 DEF ScoreInv, MeaningOK, InverseLoopOK, ScoreLoopOK
  <2>4. ScoreOK'
    <3>1. (AllSatisfied' <=> AllSatisfied) /\ (SomeKept' <=> SomeKept)
      BY <2>1 DEF AllSatisfied, SomeKept
    <3> QED
      BY <2>1, <2>2, <3>1 DEF ScoreInv, ScoreOK
  <2> QED
    BY <1>1, <2>3, <2>4 DEF ScoreInv
<1> QED
  BY <1>2, <1>3

\* Whatever is typed, if occurrences have positive scores where the tables of the fuzzy
\* matcher do not fit: a text is kept exactly if it satisfies the query, unless an
\* inverse term is one of several alternatives (fzf_get_score).
THEOREM ScoreRight ==
  ASSUME PositiveScores
  PROVE  Spec => []ScoreIffSatisfied
BY ScoreInit, ScoreInvariantStep, ScoreInvariantImplies, PTL DEF Spec

\* In a slab of the default size, the tables of a text of so many characters fit for
\* patterns of up to 88 characters; 89 bring more than all its gaps cost.
ShortText == 1158

\* So no occurrence in a shorter text scores nothing where the tables do not fit.
LEMMA ShortTextsArePositive ==
  ASSUME Cap >= 100 * 1024, \A string \in Texts : Len(string) <= ShortText
  PROVE  PositiveScores
<1> SUFFICES ASSUME NEW string \in Texts, NEW cols \in SUBSET Columns(string), cols # {},
                    Len(string) * Cardinality(cols) > Cap
             PROVE  ScoreAt(string, cols) > 0
  BY DEF PositiveScores
<1>1. Len(string) \in Nat /\ Len(string) <= 1158
  BY TextsAssumption, Elements DEF ShortText
<1>2. IsFiniteSet(cols)
  <2>1. \A b \in Int : IsFiniteSet(0 .. b)
    BY FS_Interval
  <2>2. IsFiniteSet(Columns(string))
    BY <1>1, <2>1 DEF Columns
  <2> QED
    BY <2>2, FS_Subset
<1>3. PICK n \in Nat, size \in Nat : n = Len(string) /\ size = Cardinality(cols)
  BY <1>1, <1>2, FS_CardinalityType
<1>4. n <= 1158 /\ n * size > 102400
  BY <1>1, <1>3, CapAssumption
<1>5. size >= 89
  <2> SUFFICES ASSUME size <= 88 PROVE FALSE
    OBVIOUS
  <2>1. n * size <= 1158 * size
    BY <1>4
  <2> QED
    BY <1>4, <2>1
<1>6. PICK first \in Nat, last \in Nat : first = Min(cols) /\ last = Max(cols)
  BY <1>1, Ends
<1>7. last < n
  BY <1>1, <1>3, <1>6, Ends, ZenonT(60)
<1>8. PICK score \in Int : score = ScoreAt(string, cols)
  BY <1>1, ScoreAtLeast
<1>9. score >= 13 * size + 2 - (last - first + 1)
  BY <1>1, <1>3, <1>6, <1>8, ScoreAtLeast, ZenonT(60)
<1>10. score > 0
  BY <1>4, <1>5, <1>7, <1>9
<1> QED
  BY <1>8, <1>10

\* The same with a slab as large as the default one, whatever is typed, of texts that
\* have up to 1158 characters.
THEOREM ShortTextsRight ==
  ASSUME Cap >= 100 * 1024, \A string \in Texts : Len(string) <= ShortText
  PROVE  Spec => []ScoreIffSatisfied
BY ShortTextsArePositive, ScoreRight

-----------------------------------------------------------------------------
(* Tokens where they stand in the query.                                   *)

\* What is left of a string behind p
IsLeft(string, p, left) == left = SubSeq(string, p + 1, Len(string))

\* A token ends at e: a blank or nothing is behind it.
EndsAt(string, e) == e < Len(string) => IsSpace(string[e + 1])

\* The token that begins somewhere ends before the next blank.
LEMMA TokenEnds ==
  ASSUME NEW string, Len(string) \in Nat, NEW b \in 1 .. Len(string), NEW e \in b .. Len(string),
         \A k \in b .. e : ~IsSpace(string[k]), EndsAt(string, e)
  PROVE  TokenFrom(string, b) = SubSeq(string, b, e)
<1> DEFINE Final(n) == /\ \A k \in b .. n : ~IsSpace(string[k])
                       /\ n < Len(string) => IsSpace(string[n + 1])
<1>1. b \in Nat /\ e \in Nat /\ b <= e /\ e <= Len(string)
  OBVIOUS
<1>2. Final(e)
  BY DEF EndsAt
<1>3. ASSUME NEW n \in b .. Len(string), Final(n) PROVE n = e
  <2>1. n \in Nat /\ b <= n /\ n <= Len(string)
    OBVIOUS
  <2>2. CASE n < e
    <3>1. n + 1 \in b .. e /\ n < Len(string)
      BY <1>1, <2>1, <2>2
    <3> QED
      BY <1>3, <3>1
  <2>3. CASE e < n
    <3>1. e + 1 \in b .. n /\ e < Len(string)
      BY <1>1, <2>1, <2>3
    <3> QED
      BY <1>2, <1>3, <3>1
  <2> QED
    BY <1>1, <2>1, <2>2, <2>3
<1>4. (CHOOSE n \in b .. Len(string) : Final(n)) = e
  <2> HIDE DEF Final
  <2> QED
    BY <1>2, <1>3
<1> QED
  BY <1>4 DEF TokenFrom

\* Before the first token there are blanks only.
LEMMA TokenSpanned ==
  ASSUME NEW string, IsSequence(string), ~Blank(string), NEW span, span = TokenSpan(string),
         NEW x, x = span[1], NEW y, y = span[2]
  PROVE  /\ x \in 1 .. Len(string) /\ y \in 1 .. Len(string) /\ x <= y
         /\ \A k \in 1 .. x - 1 : IsSpace(string[k])
         /\ \A k \in x .. y : ~IsSpace(string[k])
         /\ EndsAt(string, y)
<1>1. x \in 1 .. Len(string) /\ y \in 1 .. Len(string) /\ x <= y
  BY TokenFound
<1>2. /\ Blank(SubSeq(string, 1, x - 1))
      /\ \A k \in x .. y : ~IsSpace(string[k])
      /\ y < Len(string) => IsSpace(string[y + 1])
  BY TokenFound
<1>3. Len(string) \in Nat
  BY Elements
<1>4. PICK lead : lead = SubSeq(string, 1, x - 1)
  OBVIOUS
<1>5. /\ IsSequence(lead) /\ Len(lead) = x - 1
      /\ \A k \in 1 .. Len(lead) : lead[k] = string[k]
  <2>1. x - 1 \in Nat /\ x - 1 <= Len(string) /\ 1 \in Nat /\ 1 # 0
    BY <1>1, <1>3
  <2>2. /\ IsSequence(lead) /\ Len(lead) = IF 1 <= x - 1 THEN x - 1 - 1 + 1 ELSE 0
        /\ \A k \in 1 .. Len(lead) : lead[k] = string[1 + k - 1]
    BY <1>4, <2>1, Part
  <2>3. \A k \in 1 .. Len(lead) : 1 + k - 1 = k
    BY <2>2
  <2> QED
    BY <1>1, <2>2, <2>3
<1>6. DOMAIN lead = 1 .. x - 1
  BY <1>5, Elements
<1>7. \A k \in 1 .. x - 1 : IsSpace(string[k])
  BY <1>2, <1>4, <1>5, <1>6 DEF Blank
<1> QED
  BY <1>1, <1>2, <1>7 DEF EndsAt

\* strtok behind p, where a token ended: the next token is the one that begins next,
\* and what is left stands behind it.
LEMMA TokenNext ==
  ASSUME NEW string, IsSequence(string), NEW p \in 0 .. Len(string),
         p = 0 \/ EndsAt(string, p), NEW left, IsLeft(string, p, left)
  PROVE  /\ Blank(left) => \A k \in Begins(string) : k <= p
         /\ ~Blank(left) =>
              \E b, e \in p + 1 .. Len(string) :
                /\ b <= e /\ b \in Begins(string) /\ EndsAt(string, e)
                /\ Token(left) = TokenFrom(string, b)
                /\ Token(left) = SubSeq(string, b, e)
                /\ \A k \in b .. e : ~IsSpace(string[k])
                /\ \A k \in p + 1 .. b - 1 : IsSpace(string[k])
                /\ Behind(left) = SubSeq(string, e + 1, Len(string))
                /\ \A k \in Begins(string) : k <= e => k <= p \/ k = b
<1>1. Len(string) \in Nat /\ DOMAIN string = 1 .. Len(string)
  BY Elements
<1>2. p + 1 \in Nat /\ p + 1 # 0 /\ p \in Nat /\ p <= Len(string)
  BY <1>1
<1>3. /\ IsSequence(left)
      /\ Len(left) = Len(string) - p
      /\ \A k \in 1 .. Len(left) : left[k] = string[p + k]
  <2>1. /\ IsSequence(left)
        /\ Len(left) = IF p + 1 <= Len(string) THEN Len(string) - (p + 1) + 1 ELSE 0
        /\ \A k \in 1 .. Len(left) : left[k] = string[(p + 1) + k - 1]
    BY <1>1, <1>2, Part DEF IsLeft
  <2>2. Len(left) = Len(string) - p
    <3>1. PICK n \in Nat : n = Len(string)
      BY <1>1
    <3>2. CASE p + 1 <= n
      BY <1>2, <2>1, <3>1, <3>2
    <3>3. CASE ~(p + 1 <= n)
      BY <1>2, <2>1, <3>1, <3>3
    <3> QED
      BY <3>2, <3>3
  <2>3. \A k \in 1 .. Len(left) : (p + 1) + k - 1 = p + k
    BY <1>2
  <2> QED
    BY <2>1, <2>2, <2>3
<1>4. DOMAIN left = 1 .. Len(left) /\ Len(left) \in Nat
  BY <1>3, Elements
<1>5. Begins(string) \subseteq 1 .. Len(string)
  BY <1>1 DEF Begins
<1>6. ASSUME Blank(left), NEW k \in Begins(string), ~(k <= p) PROVE FALSE
  <2>0. k \in 1 .. Len(string)
    BY <1>5, <1>6
  <2>1. k - p \in 1 .. Len(left) /\ p + (k - p) = k
    BY <1>1, <1>2, <1>3, <1>6, <2>0
  <2>2. IsSpace(left[k - p])
    BY <1>4, <1>6, <2>1 DEF Blank
  <2>3. IsSpace(string[k])
    BY <1>3, <2>1, <2>2
  <2> QED
    BY <2>3 DEF Begins
<1>7. ASSUME ~Blank(left)
      PROVE  \E b, e \in p + 1 .. Len(string) :
                /\ b <= e /\ b \in Begins(string) /\ EndsAt(string, e)
                /\ Token(left) = TokenFrom(string, b)
                /\ Token(left) = SubSeq(string, b, e)
                /\ \A k \in b .. e : ~IsSpace(string[k])
                /\ \A k \in p + 1 .. b - 1 : IsSpace(string[k])
                /\ Behind(left) = SubSeq(string, e + 1, Len(string))
                /\ \A k \in Begins(string) : k <= e => k <= p \/ k = b
  <2>1. PICK span : span = TokenSpan(left)
    OBVIOUS
  <2>2. PICK x, y : x = span[1] /\ y = span[2]
    OBVIOUS
  <2>3. x \in 1 .. Len(left) /\ y \in 1 .. Len(left) /\ x <= y
    BY <1>3, <1>7, <2>1, <2>2, TokenFound
  <2>4. /\ \A k \in 1 .. x - 1 : IsSpace(left[k])
        /\ \A k \in x .. y : ~IsSpace(left[k])
        /\ EndsAt(left, y)
    BY <1>3, <1>7, <2>1, <2>2, TokenSpanned
  <2>5. PICK b \in Nat, e \in Nat : b = p + x /\ e = p + y
    BY <1>2, <2>3
  <2>6. b \in p + 1 .. Len(string) /\ e \in p + 1 .. Len(string) /\ b <= e
    BY <1>2, <1>3, <2>3, <2>5
  <2>7. ASSUME NEW k \in p + 1 .. b - 1 PROVE IsSpace(string[k])
    <3>1. k - p \in 1 .. x - 1 /\ k - p \in 1 .. Len(left) /\ p + (k - p) = k
      BY <1>2, <1>3, <2>3, <2>5
    <3> QED
      BY <1>3, <2>4, <3>1
  <2>8. ASSUME NEW k \in b .. e PROVE ~IsSpace(string[k])
    <3>1. k - p \in x .. y /\ k - p \in 1 .. Len(left) /\ p + (k - p) = k
      BY <1>2, <1>3, <2>3, <2>5
    <3> QED
      BY <1>3, <2>4, <3>1
  <2>9. EndsAt(string, e)
    <3>1. SUFFICES ASSUME e < Len(string) PROVE IsSpace(string[e + 1])
      BY DEF EndsAt
    <3>2. y < Len(left) /\ y + 1 \in 1 .. Len(left) /\ p + (y + 1) = e + 1
      BY <1>2, <1>3, <2>3, <2>5, <3>1
    <3> QED
      BY <1>3, <2>4, <3>2 DEF EndsAt
  <2>10. b \in Begins(string)
    <3>1. b \in DOMAIN string /\ ~IsSpace(string[b])
      BY <1>1, <1>2, <2>6, <2>8
    <3>2. b > 1 => IsSpace(string[b - 1])
      <4>1. CASE b - 1 \in p + 1 .. b - 1
        BY <2>7, <4>1
      <4>2. CASE b = p + 1
        <5>1. p # 0 => p < Len(string)
          BY <1>2, <2>6, <4>2
        <5>2. p # 0 => IsSpace(string[p + 1])
          BY <5>1 DEF EndsAt
        <5> QED
          BY <1>2, <3>1, <4>2, <5>2
      <4> QED
        BY <1>2, <2>6, <4>1, <4>2
    <3> QED
      BY <3>1, <3>2 DEF Begins
  <2>11. TokenFrom(string, b) = SubSeq(string, b, e)
    <3>1. b \in 1 .. Len(string) /\ e \in b .. Len(string)
      BY <1>2, <2>6
    <3> QED
      BY <1>1, <2>8, <2>9, <3>1, TokenEnds
  <2>12. Token(left) = SubSeq(string, b, e)
    <3>1. PICK t : t = Token(left)
      OBVIOUS
    <3>2. t = SubSeq(left, x, y)
      BY <2>1, <2>2, <3>1 DEF Token
    <3>3. PICK u : u = SubSeq(string, b, e)
      OBVIOUS
    <3>4. x \in Nat /\ x # 0 /\ y \in Nat /\ y <= Len(left)
      BY <1>4, <2>3
    <3>5. IsSequence(t) /\ Len(t) = y - x + 1 /\ \A k \in 1 .. Len(t) : t[k] = left[x + k - 1]
      <4>1. /\ IsSequence(t) /\ Len(t) = IF x <= y THEN y - x + 1 ELSE 0
            /\ \A k \in 1 .. Len(t) : t[k] = left[x + k - 1]
        BY <1>3, <3>2, <3>4, Part
      <4> QED
        BY <2>3, <4>1
    <3>6. b # 0 /\ e <= Len(string)
      BY <1>2, <2>6
    <3>7. IsSequence(u) /\ Len(u) = e - b + 1 /\ \A k \in 1 .. Len(u) : u[k] = string[b + k - 1]
      BY <2>6, <3>3, <3>6, Part
    <3>8. Len(t) = Len(u)
      BY <1>2, <2>3, <2>5, <3>5, <3>7
    <3>9. ASSUME NEW k \in 1 .. Len(t) PROVE t[k] = u[k]
      <4>1. x + k - 1 \in 1 .. Len(left) /\ p + (x + k - 1) = b + k - 1
        BY <1>2, <1>4, <2>3, <2>5, <3>5
      <4> QED
        BY <1>3, <3>5, <3>7, <3>8, <4>1
    <3> QED
      BY <3>1, <3>3, <3>5, <3>7, <3>8, <3>9, EqualSequences
  <2>13. Behind(left) = SubSeq(string, e + 1, Len(string))
    <3>1. PICK t : t = Behind(left)
      OBVIOUS
    <3>2. t = SubSeq(left, y + 1, Len(left))
      BY <2>1, <2>2, <3>1 DEF Behind
    <3>3. PICK u : u = SubSeq(string, e + 1, Len(string))
      OBVIOUS
    <3>4. y + 1 \in Nat /\ y + 1 # 0 /\ Len(left) <= Len(left)
      BY <1>4, <2>3
    <3>5. /\ IsSequence(t) /\ Len(t) = IF y + 1 <= Len(left) THEN Len(left) - (y + 1) + 1 ELSE 0
          /\ \A k \in 1 .. Len(t) : t[k] = left[(y + 1) + k - 1]
      BY <1>3, <1>4, <3>2, <3>4, Part, SMTT(40)
    <3>6. e + 1 \in Nat /\ e + 1 # 0 /\ Len(string) <= Len(string)
      BY <1>1, <2>5
    <3>7. /\ IsSequence(u) /\ Len(u) = IF e + 1 <= Len(string) THEN Len(string) - (e + 1) + 1 ELSE 0
          /\ \A k \in 1 .. Len(u) : u[k] = string[(e + 1) + k - 1]
      BY <1>1, <3>3, <3>6, Part
    <3>8. Len(t) = Len(left) - y /\ Len(u) = Len(string) - e
      <4>1. \A n, m \in Nat : m <= n => (IF m + 1 <= n THEN n - (m + 1) + 1 ELSE 0) = n - m
        OBVIOUS
      <4>2. y \in Nat /\ y <= Len(left) /\ e <= Len(string)
        BY <1>1, <1>4, <2>3, <2>5, <2>6
      <4>3. (IF y + 1 <= Len(left) THEN Len(left) - (y + 1) + 1 ELSE 0) = Len(left) - y
        BY <1>4, <4>1, <4>2
      <4>4. (IF e + 1 <= Len(string) THEN Len(string) - (e + 1) + 1 ELSE 0) = Len(string) - e
        BY <1>1, <2>5, <4>1, <4>2
      <4> QED
        BY <3>5, <3>7, <4>3, <4>4
    <3>9. Len(t) = Len(u)
      BY <1>2, <1>3, <2>3, <2>5, <3>8
    <3>10. ASSUME NEW k \in 1 .. Len(t) PROVE t[k] = u[k]
      <4>1. (y + 1) + k - 1 \in 1 .. Len(left) /\ p + ((y + 1) + k - 1) = (e + 1) + k - 1
        BY <1>2, <1>4, <2>3, <2>5, <3>8
      <4> QED
        BY <1>3, <3>5, <3>7, <3>9, <4>1
    <3> QED
      BY <3>1, <3>3, <3>5, <3>7, <3>9, <3>10, EqualSequences
  <2>14. ASSUME NEW k \in Begins(string), k <= e, ~(k <= p), k # b PROVE FALSE
    <3>1. k \in Nat /\ k \in 1 .. Len(string) /\ ~IsSpace(string[k]) /\ (k > 1 => IsSpace(string[k - 1]))
      BY <1>1, <1>5 DEF Begins
    <3>2. CASE k < b
      <4>1. k \in p + 1 .. b - 1
        BY <1>2, <2>5, <2>14, <3>1, <3>2
      <4> QED
        BY <2>7, <3>1, <4>1
    <3>3. CASE b < k
      <4>1. k - 1 \in b .. e /\ k > 1
        BY <1>2, <2>6, <2>14, <3>1, <3>3
      <4> QED
        BY <2>8, <3>1, <4>1
    <3> QED
      BY <2>5, <2>14, <3>1, <3>2, <3>3
  <2> QED
    BY <2>6, <2>7, <2>8, <2>9, <2>10, <2>11, <2>12, <2>13, <2>14
<1> QED
  BY <1>6, <1>7

-----------------------------------------------------------------------------
(* Terms at their places.                                                  *)

SetIn(opening, k) == Cardinality({l \in opening : l <= k})
PlaceIn(terms, opening, k) ==
  Cardinality({l \in terms : l <= k /\ SetIn(opening, l) = SetIn(opening, k)})

\* The terms that begin up to p have been filed, in their sets, at their places.
Filed(terms, opening, term, p, sets) ==
  /\ IsSequence(sets)
  /\ Len(sets) = SetIn(opening, p)
  /\ \A n \in 1 .. Len(sets) :
       /\ IsSequence(sets[n]) /\ sets[n] # <<>>
       /\ Len(sets[n]) = Cardinality({k \in terms : k <= p /\ SetIn(opening, k) = n})
  /\ \A k \in terms : k <= p =>
       /\ SetIn(opening, k) \in 1 .. Len(sets)
       /\ PlaceIn(terms, opening, k) \in 1 .. Len(sets[SetIn(opening, k)])
       /\ sets[SetIn(opening, k)][PlaceIn(terms, opening, k)] = term[k]

\* Up to e there is no further term.
LEMMA FiledFurther ==
  ASSUME NEW n \in Nat, NEW terms \in SUBSET (1 .. n), NEW opening \in SUBSET terms, NEW term,
         NEW p \in 0 .. n, NEW e \in p .. n, \A k \in terms : k <= e => k <= p,
         NEW sets, Filed(terms, opening, term, p, sets)
  PROVE  Filed(terms, opening, term, e, sets)
<1>1. \A k \in terms : k <= e <=> k <= p
  OBVIOUS
<1>2. {l \in opening : l <= e} = {l \in opening : l <= p}
  BY <1>1
<1>3. SetIn(opening, e) = SetIn(opening, p)
  BY <1>2 DEF SetIn
<1>4. ASSUME NEW m
      PROVE  {k \in terms : k <= e /\ SetIn(opening, k) = m} = {k \in terms : k <= p /\ SetIn(opening, k) = m}
  BY <1>1
<1> QED
  BY <1>1, <1>3, <1>4 DEF Filed

\* Counting one more
LEMMA CountMore ==
  ASSUME NEW n \in Nat, NEW S \in SUBSET (1 .. n), NEW b, b \notin S
  PROVE  Cardinality(S) \in Nat /\ Cardinality(S \cup {b}) = Cardinality(S) + 1
<1>1. IsFiniteSet(1 .. n)
  BY FS_Interval
<1>2. IsFiniteSet(S)
  BY <1>1, FS_Subset
<1> QED
  BY <1>2, FS_CardinalityType, FS_AddElement

\* A term that begins up to e is filed in the set it opens, or behind the last one
\* of the set that is open.
LEMMA FiledMore ==
  ASSUME NEW n \in Nat, NEW terms \in SUBSET (1 .. n), NEW opening \in SUBSET terms, NEW term,
         NEW p \in 0 .. n, NEW e \in p .. n, NEW b \in terms, p < b, b <= e,
         \A k \in terms : k <= e => k <= p \/ k = b,
         NEW sets, Filed(terms, opening, term, p, sets),
         NEW more, IsSequence(more),
         Len(more) = IF b \in opening THEN Len(sets) + 1 ELSE Len(sets),
         \A m \in 1 .. Len(more) : m # Len(more) => more[m] = sets[m],
         b \in opening => more[Len(more)] = <<term[b]>>,
         b \notin opening => sets # <<>> /\ more[Len(more)] = Append(sets[Len(sets)], term[b])
  PROVE  Filed(terms, opening, term, e, more)
<1> DEFINE Upto(q) == {l \in opening : l <= q}
           OfSet(q, m) == {k \in terms : k <= q /\ SetIn(opening, k) = m}
<1>1. b \in Nat /\ p \in Nat /\ e \in Nat /\ \A k \in terms : k \in Nat
  OBVIOUS
<1>2. \A k \in terms : k <= e <=> k <= p \/ k = b
  BY <1>1
<1>3. \A k \in terms : k <= b <=> k <= p \/ k = b
  BY <1>1
<1>4. Upto(e) = IF b \in opening THEN Upto(p) \cup {b} ELSE Upto(p)
  BY <1>2
<1>5. Upto(b) = Upto(e)
  BY <1>2, <1>3
<1>0. ~(b <= p)
  BY <1>1
<1>6. Upto(p) \in SUBSET (1 .. n) /\ b \notin Upto(p)
  <2>1. \A l \in opening : l \in 1 .. n
    OBVIOUS
  <2> QED
    BY <1>0, <2>1
<1>7. Len(sets) \in Nat /\ IsSequence(sets) /\ Len(sets) = SetIn(opening, p)
  <2>1. IsSequence(sets) /\ Len(sets) = SetIn(opening, p)
    BY DEF Filed
  <2> QED
    BY <2>1, Elements
<1>8. SetIn(opening, e) = Len(more)
  <2>1. CASE b \in opening
    <3>1. Cardinality(Upto(p) \cup {b}) = Cardinality(Upto(p)) + 1
      <4> HIDE DEF Upto
      <4> QED
        BY <1>6, CountMore
    <3> QED
      BY <1>4, <1>7, <2>1, <3>1 DEF SetIn
  <2>2. CASE b \notin opening
    BY <1>4, <1>7, <2>2 DEF SetIn
  <2> QED
    BY <2>1, <2>2
<1>9. SetIn(opening, b) = Len(more) /\ Len(more) \in Nat /\ Len(more) # 0
  <2>1. SetIn(opening, b) = Len(more)
    BY <1>5, <1>8 DEF SetIn
  <2>2. b \notin opening => Len(sets) # 0
    BY <1>7, Elements
  <2> QED
    BY <1>7, <2>1, <2>2
<1>10. \A k \in terms : k <= p =>
         /\ SetIn(opening, k) \in 1 .. Len(sets)
         /\ PlaceIn(terms, opening, k) \in 1 .. Len(sets[SetIn(opening, k)])
         /\ sets[SetIn(opening, k)][PlaceIn(terms, opening, k)] = term[k]
  BY DEF Filed
<1>11. \A m \in 1 .. Len(sets) : IsSequence(sets[m]) /\ sets[m] # <<>> /\ Len(sets[m]) = Cardinality(OfSet(p, m))
  BY DEF Filed
<1>12. \A m : OfSet(p, m) \in SUBSET (1 .. n) /\ b \notin OfSet(p, m)
  <2>1. \A l \in terms : l \in 1 .. n
    OBVIOUS
  <2> QED
    BY <1>0, <2>1
<1>13. \A m : OfSet(e, m) = IF m = Len(more) THEN OfSet(p, m) \cup {b} ELSE OfSet(p, m)
  BY <1>2, <1>9
<1>14. PlaceIn(terms, opening, b) = Cardinality(OfSet(p, Len(more))) + 1
  <2>1. {l \in terms : l <= b /\ SetIn(opening, l) = SetIn(opening, b)} = OfSet(p, Len(more)) \cup {b}
    BY <1>3, <1>9
  <2>2. Cardinality(OfSet(p, Len(more)) \cup {b}) = Cardinality(OfSet(p, Len(more))) + 1
    <3> HIDE DEF OfSet
    <3> QED
      BY <1>12, CountMore
  <2> QED
    BY <2>1, <2>2 DEF PlaceIn
<1>15. CASE b \in opening
  <2>1. Len(more) = Len(sets) + 1 /\ more[Len(more)] = <<term[b]>>
        /\ \A m \in 1 .. Len(sets) : more[m] = sets[m]
    BY <1>7, <1>15
  <2>2. OfSet(p, Len(more)) = {}
    <3>1. SUFFICES ASSUME NEW k \in terms, k <= p, SetIn(opening, k) = Len(more) PROVE FALSE
      OBVIOUS
    <3>2. Len(more) \in 1 .. Len(sets)
      BY <1>10, <3>1
    <3> QED
      BY <1>7, <2>1, <3>2
  <2>3. Cardinality({}) = 0
    BY FS_EmptySet
  <2>4. IsSequence(<<term[b]>>) /\ Len(<<term[b]>>) = 1 /\ <<term[b]>>[1] = term[b] /\ <<term[b]>> # <<>>
    <3>1. IsSequence(<<term[b]>>)
      BY Literals
    <3> QED
      BY <3>1
  <2>5. PlaceIn(terms, opening, b) = 1
    <3>1. Cardinality(OfSet(p, Len(more))) = 0
      BY <2>2, <2>3
    <3> HIDE DEF OfSet
    <3> QED
      BY <1>14, <3>1
  <2>6. ASSUME NEW m \in 1 .. Len(more)
        PROVE  IsSequence(more[m]) /\ more[m] # <<>> /\ Len(more[m]) = Cardinality(OfSet(e, m))
    <3>1. CASE m = Len(more)
      <4>1. OfSet(e, m) = {} \cup {b}
        BY <1>13, <2>2, <3>1
      <4>2. Cardinality({} \cup {b}) = 1
        BY FS_Singleton, ZenonT(60)
      <4> QED
        BY <2>1, <2>4, <3>1, <4>1, <4>2
    <3>2. CASE m # Len(more)
      <4>1. m \in 1 .. Len(sets)
        BY <1>7, <2>1, <3>2
      <4>2. OfSet(e, m) = OfSet(p, m)
        BY <1>13, <3>2
      <4> QED
        BY <1>11, <2>1, <4>1, <4>2
    <3> QED
      BY <3>1, <3>2
  <2>7. ASSUME NEW k \in terms, k <= e
        PROVE  /\ SetIn(opening, k) \in 1 .. Len(more)
               /\ PlaceIn(terms, opening, k) \in 1 .. Len(more[SetIn(opening, k)])
               /\ more[SetIn(opening, k)][PlaceIn(terms, opening, k)] = term[k]
    <3>1. CASE k = b
      <4>1. Len(more) \in 1 .. Len(more) /\ 1 \in 1 .. 1
        BY <1>9
      <4> QED
        BY <1>9, <2>1, <2>4, <2>5, <3>1, <4>1
    <3>2. CASE k <= p
      <4>1. \A m \in 1 .. Len(sets) : m \in 1 .. Len(more)
        BY <1>7, <2>1
      <4> QED
        BY <1>10, <2>1, <3>2, <4>1
    <3> QED
      BY <1>2, <2>7, <3>1, <3>2
  <2> QED
    BY <1>8, <2>6, <2>7 DEF Filed
<1>16. CASE b \notin opening
  <2>1. /\ Len(more) = Len(sets) /\ Len(sets) \in 1 .. Len(sets)
        /\ \A m \in 1 .. Len(sets) : m # Len(sets) => more[m] = sets[m]
    BY <1>7, <1>9, <1>16
  <2>2. PICK last, longer : last = sets[Len(sets)] /\ longer = more[Len(sets)]
    OBVIOUS
  <2>3. IsSequence(last) /\ Len(last) = Cardinality(OfSet(p, Len(sets))) /\ Len(last) \in Nat
    <3>1. IsSequence(last) /\ Len(last) = Cardinality(OfSet(p, Len(sets)))
      BY <1>11, <2>1, <2>2
    <3> QED
      BY <3>1, Elements
  <2>4. longer = Append(last, term[b])
    BY <1>16, <2>1, <2>2
  <2>5. PICK new : new = term[b]
    OBVIOUS
  <2>6. /\ IsSequence(longer) /\ Len(longer) = Len(last) + 1
        /\ \A k \in 1 .. Len(last) + 1 : longer[k] = IF k = Len(last) + 1 THEN new ELSE last[k]
    <3>1. /\ IsSequence(Append(last, new)) /\ Len(Append(last, new)) = Len(last) + 1
          /\ \A k \in 1 .. Len(last) + 1 : Append(last, new)[k] = IF k = Len(last) + 1 THEN new ELSE last[k]
      BY <2>3, Appended
    <3> QED
      BY <2>4, <2>5, <3>1
  <2>7. PlaceIn(terms, opening, b) = Len(last) + 1
    BY <1>14, <2>1, <2>3
  <2>8. ASSUME NEW m \in 1 .. Len(more)
        PROVE  IsSequence(more[m]) /\ more[m] # <<>> /\ Len(more[m]) = Cardinality(OfSet(e, m))
    <3>1. CASE m = Len(more)
      <4>1. OfSet(e, m) = OfSet(p, m) \cup {b}
        BY <1>13, <3>1
      <4>2. Cardinality(OfSet(p, m) \cup {b}) = Cardinality(OfSet(p, m)) + 1
        <5> HIDE DEF OfSet
        <5> QED
          BY <1>12, CountMore
      <4>3. Len(longer) = Cardinality(OfSet(e, m))
        BY <2>1, <2>3, <2>6, <3>1, <4>1, <4>2
      <4>4. longer # <<>>
        <5>1. Len(longer) # 0
          BY <2>3, <2>6
        <5> QED
          BY <2>6, <5>1, Elements
      <4> QED
        BY <2>1, <2>2, <2>6, <3>1, <4>3, <4>4
    <3>2. CASE m # Len(more)
      <4>1. OfSet(e, m) = OfSet(p, m)
        BY <1>13, <3>2
      <4> QED
        BY <1>11, <2>1, <3>2, <4>1
    <3> QED
      BY <3>1, <3>2
  <2>9. ASSUME NEW k \in terms, k <= e
        PROVE  /\ SetIn(opening, k) \in 1 .. Len(more)
               /\ PlaceIn(terms, opening, k) \in 1 .. Len(more[SetIn(opening, k)])
               /\ more[SetIn(opening, k)][PlaceIn(terms, opening, k)] = term[k]
    <3>1. CASE k = b
      <4>1. Len(last) + 1 \in 1 .. Len(longer) /\ longer[Len(last) + 1] = new
        BY <2>3, <2>6
      <4> QED
        BY <1>9, <2>1, <2>2, <2>5, <2>7, <3>1, <4>1
    <3>2. CASE k <= p
      <4>1. PICK m, q : m = SetIn(opening, k) /\ q = PlaceIn(terms, opening, k)
        OBVIOUS
      <4>2. m \in 1 .. Len(sets) /\ q \in 1 .. Len(sets[m]) /\ sets[m][q] = term[k]
        BY <1>10, <3>2, <4>1
      <4>3. CASE m = Len(sets)
        <5>1. q \in 1 .. Len(last) /\ last[q] = term[k]
          BY <2>2, <4>2, <4>3
        <5>2. q \in 1 .. Len(longer) /\ longer[q] = last[q]
          BY <2>3, <2>6, <5>1
        <5> QED
          BY <2>1, <2>2, <4>1, <4>2, <4>3, <5>1, <5>2
      <4>4. CASE m # Len(sets)
        BY <2>1, <4>1, <4>2, <4>4
      <4> QED
        BY <4>3, <4>4
    <3> QED
      BY <1>2, <2>9, <3>1, <3>2
  <2> QED
    BY <1>8, <2>8, <2>9 DEF Filed
<1> QED
  BY <1>15, <1>16

-----------------------------------------------------------------------------
(* Bars that separate.                                                     *)

\* separates[k] of BarsJoin: the last token that begins at k or before separates.
IsSeparating(string, bare, f) ==
  f = [k \in 0 .. Len(string) |->
         IF k = 0 THEN FALSE
         ELSE IF k \notin Begins(string) THEN f[k - 1]
         ELSE /\ TokenFrom(string, k) = <<"|">> /\ ~f[k - 1]
              /\ \E l \in Begins(string) \ bare : l < k]

Separating(string, bare) == CHOOSE f : IsSeparating(string, bare, f)

\* There is such a function.
LEMMA SeparatingExists ==
  ASSUME NEW string, Len(string) \in Nat, NEW bare
  PROVE  IsSeparating(string, bare, Separating(string, bare))
<1> DEFINE Sep(k) == TokenFrom(string, k) = <<"|">> /\ \E l \in Begins(string) \ bare : l < k
           Go(k, v) == IF k = 0 THEN FALSE ELSE IF k \notin Begins(string) THEN v ELSE Sep(k) /\ ~v
           step == [k \in Int |-> [v \in BOOLEAN |-> Go(k, v)]]
<1>1. step \in [Int -> [BOOLEAN -> BOOLEAN]]
  <2>1. \A k \in Int, v \in BOOLEAN : Go(k, v) \in BOOLEAN
    <3> HIDE DEF Sep
    <3> QED
      OBVIOUS
  <2> HIDE DEF Go
  <2> QED
    BY <2>1
<1>2. PICK f : IsRecursion(0, Len(string), FALSE, step, f)
  <2> HIDE DEF step
  <2>1. 0 \in Int /\ Len(string) \in Int /\ FALSE \in BOOLEAN
    OBVIOUS
  <2> QED
    BY <1>1, <2>1, Recursion
<1>3. f \in [0 .. Len(string) -> BOOLEAN]
  <2> HIDE DEF step
  <2>1. 0 \in Int /\ Len(string) \in Int /\ FALSE \in BOOLEAN
    OBVIOUS
  <2> QED
    BY <1>1, <1>2, <2>1, Recursion
<1>4. ASSUME NEW k \in 0 .. Len(string), NEW v \in BOOLEAN PROVE step[k][v] = Go(k, v)
  <2> HIDE DEF Go
  <2>1. k \in Int
    OBVIOUS
  <2> QED
    BY <2>1
<1>5. ASSUME NEW k \in 0 .. Len(string)
      PROVE  f[k] = Go(k, f[k - 1])
  <2>1. f[k] = step[k][IF k = 0 THEN FALSE ELSE f[k - 1]]
    <3> HIDE DEF step
    <3> QED
      BY <1>2 DEF IsRecursion
  <2>2. CASE k = 0
    <3>1. f[k] = step[k][FALSE] /\ FALSE \in BOOLEAN
      BY <2>1, <2>2
    <3>2. step[k][FALSE] = Go(k, FALSE)
      <4> HIDE DEF step, Go
      <4> QED
        BY <1>4, <3>1
    <3>3. Go(k, FALSE) = FALSE /\ Go(k, f[k - 1]) = FALSE
      BY <2>2
    <3> HIDE DEF step, Go
    <3> QED
      BY <3>1, <3>2, <3>3
  <2>3. CASE k # 0
    <3>1. k - 1 \in 0 .. Len(string)
      BY <2>3
    <3>2. f[k - 1] \in BOOLEAN
      BY <1>3, <3>1
    <3> HIDE DEF step, Go
    <3> QED
      BY <1>4, <2>1, <2>3, <3>2
  <2> QED
    BY <2>2, <2>3
<1>6. f = [k \in 0 .. Len(string) |-> Go(k, f[k - 1])]
  <2> HIDE DEF Go
  <2> QED
    BY <1>3, <1>5
<1>7. \A k \in 0 .. Len(string) :
        Go(k, f[k - 1]) = IF k = 0 THEN FALSE
                          ELSE IF k \notin Begins(string) THEN f[k - 1]
                          ELSE /\ TokenFrom(string, k) = <<"|">> /\ ~f[k - 1]
                               /\ \E l \in Begins(string) \ bare : l < k
  <2>1. \A k : (Sep(k) /\ ~f[k - 1]) =
                 (/\ TokenFrom(string, k) = <<"|">> /\ ~f[k - 1]
                  /\ \E l \in Begins(string) \ bare : l < k)
    OBVIOUS
  <2> HIDE DEF Sep
  <2> QED
    BY <2>1
<1>8. IsSeparating(string, bare, f)
  <2> HIDE DEF Go
  <2> QED
    BY <1>6, <1>7 DEF IsSeparating
<1> QED
  BY <1>8 DEF Separating

\* What it says of each position
LEMMA SeparatingStep ==
  ASSUME NEW string, Len(string) \in Nat, NEW bare, NEW f, IsSeparating(string, bare, f)
  PROVE  /\ ~f[0]
         /\ \A k \in 1 .. Len(string) :
              /\ k \notin Begins(string) => (f[k] <=> f[k - 1])
              /\ k \in Begins(string) =>
                   (f[k] <=> /\ TokenFrom(string, k) = <<"|">> /\ ~f[k - 1]
                             /\ \E l \in Begins(string) \ bare : l < k)
<1>1. 0 \in 0 .. Len(string) /\ \A k \in 1 .. Len(string) : k \in 0 .. Len(string) /\ k # 0
  OBVIOUS
<1>2. f[0] = FALSE
  BY <1>1 DEF IsSeparating
<1>3. ASSUME NEW k \in 1 .. Len(string), k \notin Begins(string) PROVE f[k] = f[k - 1]
  BY <1>1, <1>3 DEF IsSeparating
<1>4. ASSUME NEW k \in 1 .. Len(string), k \in Begins(string)
      PROVE  f[k] = (/\ TokenFrom(string, k) = <<"|">> /\ ~f[k - 1]
                     /\ \E l \in Begins(string) \ bare : l < k)
  BY <1>1, <1>4 DEF IsSeparating
<1> QED
  BY <1>2, <1>3, <1>4

\* Where no token begins it stays what it is.
LEMMA SeparatingCarried ==
  ASSUME NEW string, Len(string) \in Nat, NEW bare, NEW f, IsSeparating(string, bare, f),
         NEW p \in 0 .. Len(string), NEW q \in p .. Len(string),
         \A k \in Begins(string) : k <= q => k <= p
  PROVE  f[q] <=> f[p]
<1>1. p \in Int /\ q \in Int /\ p <= q /\ 0 <= p
  OBVIOUS
<1> DEFINE T == {k \in Int : f[k] <=> f[p]}
<1>2. p \in T
  BY <1>1
<1>3. ASSUME NEW k \in p .. q - 1, k \in T PROVE k + 1 \in T
  <2>1. k + 1 \in 1 .. Len(string) /\ k + 1 <= q /\ ~(k + 1 <= p) /\ (k + 1) - 1 = k
    BY <1>1
  <2>2. k + 1 \notin Begins(string)
    BY <2>1
  <2>3. PICK m : m = k + 1
    OBVIOUS
  <2>4. f[m] <=> f[m - 1]
    BY <2>1, <2>2, <2>3, SeparatingStep
  <2>5. f[k + 1] <=> f[k]
    BY <2>1, <2>3, <2>4
  <2>6. k + 1 \in Int
    BY <2>1
  <2> QED
    BY <1>3, <2>5, <2>6
<1>4. \A k \in p .. q : k \in T
  <2> HIDE DEF T
  <2> QED
    BY <1>1, <1>2, <1>3, Climb
<1>5. q \in p .. q
  BY <1>1
<1> QED
  BY <1>4, <1>5

\* Bars, terms, and the terms that open a set
Sorted(string, bare, f, bars, terms, opening) ==
  /\ bars = {k \in Begins(string) : f[k]}
  /\ terms = Begins(string) \ (bars \cup bare)
  /\ opening = {k \in terms : \A bar \in bars : bar < k => \E l \in terms : bar < l /\ l < k}

\* The next token, which begins at b
LEMMA NextBegins ==
  ASSUME NEW string, IsSequence(string), NEW bare, NEW f, IsSeparating(string, bare, f),
         NEW p \in 0 .. Len(string), NEW b \in p + 1 .. Len(string), NEW e \in b .. Len(string),
         b \in Begins(string), \A k \in Begins(string) : k <= e => k <= p \/ k = b,
         NEW bars, NEW terms, NEW opening, Sorted(string, bare, f, bars, terms, opening)
  PROVE  /\ f[e] <=> f[b]
         /\ f[b] <=> /\ TokenFrom(string, b) = <<"|">> /\ ~f[p]
                     /\ \E l \in Begins(string) \ bare : l <= p
         /\ b \in opening <=> /\ b \in terms
                              /\ \A bar \in bars : bar <= p => \E l \in terms : bar < l /\ l <= p
<1>1. Len(string) \in Nat /\ DOMAIN string = 1 .. Len(string)
  BY Elements
<1>2. b \in Nat /\ p \in Nat /\ e \in Nat /\ p < b /\ b <= e /\ e <= Len(string)
  BY <1>1
<1>3. Begins(string) \subseteq 1 .. Len(string)
  BY <1>1 DEF Begins
<1>4. \A k \in Begins(string) : k \in Nat /\ (k < b <=> k <= p)
  <2>1. \A k \in Begins(string) : k \in Nat
    BY <1>1, <1>3
  <2>2. ASSUME NEW k \in Begins(string), k < b PROVE k <= p
    <3>1. k <= e /\ k # b
      BY <1>2, <2>1, <2>2
    <3> QED
      BY <3>1
  <2>3. ASSUME NEW k \in Begins(string), k <= p PROVE k < b
    BY <1>2, <2>1, <2>3
  <2> QED
    BY <2>1, <2>2, <2>3
<1>5. f[e] <=> f[b]
  <2>1. b \in 0 .. Len(string) /\ e \in b .. Len(string)
    BY <1>1, <1>2
  <2>2. \A k \in Begins(string) : k <= e => k <= b
    <3>1. \A k \in Begins(string) : k <= p => k <= b
      BY <1>2, <1>4
    <3> QED
      BY <1>2, <3>1
  <2> QED
    BY <1>1, <2>1, <2>2, SeparatingCarried
<1>6. f[b - 1] <=> f[p]
  <2>1. PICK q : q = b - 1
    OBVIOUS
  <2>2. p \in 0 .. Len(string) /\ q \in p .. Len(string)
    BY <1>1, <1>2, <2>1
  <2>3. \A k \in Begins(string) : k <= q => k <= p
    <3>1. \A k \in Begins(string) : k <= q => k < b
      BY <1>2, <1>4, <2>1
    <3> QED
      BY <1>4, <3>1
  <2>4. f[q] <=> f[p]
    BY <1>1, <2>2, <2>3, SeparatingCarried
  <2> QED
    BY <2>1, <2>4
<1>7. f[b] <=> /\ TokenFrom(string, b) = <<"|">> /\ ~f[b - 1]
               /\ \E l \in Begins(string) \ bare : l < b
  <2>1. b \in 1 .. Len(string)
    BY <1>1, <1>2
  <2> QED
    BY <1>1, <2>1, SeparatingStep
<1>8. (\E l \in Begins(string) \ bare : l < b) <=> (\E l \in Begins(string) \ bare : l <= p)
  BY <1>4
<1>9. b \in opening <=> /\ b \in terms
                        /\ \A bar \in bars : bar <= p => \E l \in terms : bar < l /\ l <= p
  <2>1. bars \subseteq Begins(string) /\ terms \subseteq Begins(string)
    BY DEF Sorted
  <2>2. \A bar \in bars : bar < b <=> bar <= p
    BY <1>4, <2>1
  <2>3. \A l \in terms : l < b <=> l <= p
    BY <1>4, <2>1
  <2>4. b \in opening <=> b \in terms /\ \A bar \in bars : bar < b => \E l \in terms : bar < l /\ l < b
    BY DEF Sorted
  <2> QED
    BY <2>2, <2>3, <2>4
<1> QED
  BY <1>5, <1>6, <1>7, <1>8, <1>9

-----------------------------------------------------------------------------
(* What the query says, and how far it is read.                            *)

Whole == Escaped(query)
Reads == [k \in Begins(Whole) |-> ReadTerm(TokenFrom(Whole, k))]
Bare == {k \in Begins(Whole) : Reads[k].body = <<>>}
Separates == Separating(Whole, Bare)
Bars == {k \in Begins(Whole) : Separates[k]}
Terms == Begins(Whole) \ (Bars \cup Bare)
Opening == {k \in Terms : \A bar \in Bars : bar < k => \E l \in Terms : bar < l /\ l < k}

\* The tokens up to p have been read.
ReadUpTo(p) ==
  /\ IsLeft(Whole, p, rest) /\ (p = 0 \/ EndsAt(Whole, p))
  /\ after_bar <=> Separates[p]
  /\ set = <<>> <=> \A l \in Begins(Whole) : l <= p => l \in Bare
  /\ set = <<>> => pattern = <<>> /\ ~switch_set
  /\ set # <<>> => (switch_set <=> \A bar \in Bars : bar <= p => \E l \in Terms : bar < l /\ l <= p)
  /\ Filed(Terms, Opening, Reads, p, IF set = <<>> THEN <<>> ELSE Append(pattern, set))

TokensOK ==
  /\ IsSequence(Whole)
  /\ pc = "parse" => \E p \in 0 .. Len(Whole) : ReadUpTo(p)
  /\ pc # "parse" => Filed(Terms, Opening, Reads, Len(Whole), pattern)

\* The query stays the same, and so does what it says.
LEMMA QueryStays ==
  ASSUME UNCHANGED <<query, fuzzy, case_mode>>
  PROVE  /\ Whole' = Whole /\ Reads' = Reads /\ Bare' = Bare /\ Separates' = Separates
         /\ Bars' = Bars /\ Terms' = Terms /\ Opening' = Opening
<1>1. Whole' = Whole
  BY DEF Whole
<1>2. \A token : ReadTerm(token)' = ReadTerm(token)
  BY SMTT(40) DEF ReadTerm, TermOf
<1>3. Reads' = Reads
  BY <1>1, <1>2 DEF Reads
<1>4. Bare' = Bare
  BY <1>1, <1>3 DEF Bare
<1>5. Separates' = Separates
  BY <1>1, <1>4 DEF Separates
<1>6. Bars' = Bars
  BY <1>1, <1>5 DEF Bars
<1>7. Terms' = Terms
  BY <1>1, <1>4, <1>6 DEF Terms
<1>8. Opening' = Opening
  BY <1>6, <1>7 DEF Opening
<1> QED
  BY <1>1, <1>3, <1>4, <1>5, <1>6, <1>7, <1>8

\* Everything read, the property follows.
LEMMA TokensJoin ==
  TokensOK => BarsJoin
<1> SUFFICES ASSUME TokensOK, pc # "parse" PROVE BarsJoin
  BY DEF BarsJoin, Parsed
<1>1. IsSequence(Whole) /\ Filed(Terms, Opening, Reads, Len(Whole), pattern)
  BY DEF TokensOK
<1>2. Len(Whole) \in Nat /\ DOMAIN Whole = 1 .. Len(Whole)
  BY <1>1, Elements
<1>3. \A k \in Begins(Whole) : k <= Len(Whole)
  BY <1>2 DEF Begins
<1>4. \A k \in Terms : k <= Len(Whole)
  BY <1>3 DEF Terms
<1>5. Opening \subseteq Terms
  BY DEF Opening
<1>6. {l \in Opening : l <= Len(Whole)} = Opening
  BY <1>4, <1>5
<1>7. \A n : {k \in Terms : k <= Len(Whole) /\ SetIn(Opening, k) = n} = {k \in Terms : SetIn(Opening, k) = n}
  BY <1>4
<1>8. DOMAIN pattern = 1 .. Len(pattern)
  <2>1. IsSequence(pattern)
    BY <1>1 DEF Filed
  <2>2. PICK s : s = pattern
    OBVIOUS
  <2>3. DOMAIN s = 1 .. Len(s)
    BY <2>1, <2>2, Elements
  <2> QED
    BY <2>2, <2>3
<1>9. Len(pattern) = Cardinality(Opening)
  BY <1>1, <1>6 DEF Filed, SetIn
<1>10. \A n \in DOMAIN pattern :
         pattern[n] # <<>> /\ Len(pattern[n]) = Cardinality({k \in Terms : SetIn(Opening, k) = n})
  BY <1>1, <1>7, <1>8 DEF Filed
<1>11. \A k \in Terms : pattern[SetIn(Opening, k)][PlaceIn(Terms, Opening, k)] = Reads[k]
  BY <1>1, <1>4 DEF Filed
<1> QED
  BY <1>9, <1>10, <1>11
  DEF BarsJoin, SetIn, PlaceIn, Whole, Reads, Bare, Separates, Separating, IsSeparating, Bars, Terms, Opening

\* The query is a sequence, whether it is written or typed.
LEMMA QueryIsSequence ==
  Init => IsSequence(query) /\ IsSequence(Whole)
<1> SUFFICES ASSUME Init PROVE IsSequence(query) /\ IsSequence(Whole)
  OBVIOUS
<1>1. IsSequence(query)
  <2>1. CASE written \in Meanings /\ query = Render(written)
    <3>1. PICK meaning \in Meanings : meaning = written
      BY <2>1
    <3>2. IsSequence(Render(meaning))
      BY RenderIsSequence
    <3> QED
      BY <2>1, <3>1, <3>2
  <2>2. CASE query \in Typed
    BY <2>2, QueriesAssumption
  <2> QED
    BY <2>1, <2>2 DEF Init
<1>2. PICK string : string = query
  OBVIOUS
<1>3. IsSequence(Escaped(string))
  BY <1>1, <1>2, EscapedIsSequence
<1> QED
  BY <1>1, <1>2, <1>3 DEF Whole

\* Nothing is filed before the first token.
LEMMA FiledNothing ==
  ASSUME NEW n \in Nat, NEW terms \in SUBSET (1 .. n), NEW opening \in SUBSET terms, NEW term
  PROVE  Filed(terms, opening, term, 0, <<>>)
<1>1. \A k \in terms : ~(k <= 0)
  OBVIOUS
<1>2. {l \in opening : l <= 0} = {}
  BY <1>1
<1>3. Cardinality({}) = 0
  BY FS_EmptySet
<1>4. SetIn(opening, 0) = 0
  BY <1>2, <1>3 DEF SetIn
<1>5. IsSequence(<<>>) /\ Len(<<>>) = 0
  BY Literals
<1>6. \A m : ~(m \in 1 .. Len(<<>>))
  BY <1>5
<1> QED
  BY <1>1, <1>4, <1>5, <1>6 DEF Filed

\* Where things stand in the query
LEMMA Standing ==
  ASSUME IsSequence(Whole)
  PROVE  /\ Len(Whole) \in Nat
         /\ Begins(Whole) \subseteq 1 .. Len(Whole)
         /\ Terms \in SUBSET (1 .. Len(Whole)) /\ Opening \in SUBSET Terms
         /\ IsSeparating(Whole, Bare, Separates)
<1>1. PICK string : string = Whole
  OBVIOUS
<1>2. Len(string) \in Nat /\ DOMAIN string = 1 .. Len(string)
  BY <1>1, Elements
<1>3. Begins(Whole) \subseteq 1 .. Len(Whole)
  BY <1>1, <1>2 DEF Begins
<1>4. Terms \subseteq Begins(Whole)
  BY DEF Terms
<1>5. Opening \subseteq Terms
  BY DEF Opening
<1>6. IsSeparating(string, Bare, Separating(string, Bare))
  BY <1>2, SeparatingExists
<1> QED
  BY <1>1, <1>2, <1>3, <1>4, <1>5, <1>6 DEF Separates

\* At first nothing has been read.
LEMMA TokensStart ==
  Init => TokensOK
<1> SUFFICES ASSUME Init PROVE TokensOK
  OBVIOUS
<1>1. IsSequence(Whole)
  BY QueryIsSequence
<1>2. PICK string : string = Whole
  OBVIOUS
<1>3. Len(string) \in Nat /\ IsSequence(string)
  BY <1>1, <1>2, Elements
<1>4. /\ pc = "parse" /\ rest = Whole /\ set = <<>> /\ ~switch_set /\ ~after_bar /\ pattern = <<>>
  BY DEF Init, Whole
<1>5. SubSeq(string, 0 + 1, Len(string)) = string
  <2>1. PICK part : part = SubSeq(string, 1, Len(string))
    OBVIOUS
  <2>2. /\ IsSequence(SubSeq(string, 1, Len(string)))
        /\ Len(SubSeq(string, 1, Len(string))) = IF 1 <= Len(string) THEN Len(string) - 1 + 1 ELSE 0
        /\ \A k \in 1 .. Len(SubSeq(string, 1, Len(string))) : SubSeq(string, 1, Len(string))[k] = string[1 + k - 1]
    <3>1. 1 \in Nat /\ 1 # 0 /\ Len(string) <= Len(string)
      BY <1>3
    <3> QED
      BY <1>3, <3>1, Part
  <2>3. Len(part) = Len(string) /\ \A k \in 1 .. Len(part) : 1 + k - 1 = k
    BY <1>3, <2>1, <2>2
  <2>4. part = string
    BY <1>3, <2>1, <2>2, <2>3, EqualSequences
  <2>5. 0 + 1 = 1
    OBVIOUS
  <2> QED
    BY <2>1, <2>4, <2>5
<1>6. IsLeft(Whole, 0, rest)
  BY <1>2, <1>4, <1>5 DEF IsLeft
<1>7. /\ Begins(Whole) \subseteq 1 .. Len(Whole) /\ Len(Whole) \in Nat
      /\ Terms \in SUBSET (1 .. Len(Whole)) /\ Opening \in SUBSET Terms
      /\ IsSeparating(Whole, Bare, Separates)
  BY <1>1, Standing
<1>8. ~Separates[0]
  <2>1. PICK f : f = Separates
    OBVIOUS
  <2>2. ~f[0]
    BY <1>2, <1>3, <1>7, <2>1, SeparatingStep
  <2> QED
    BY <2>1, <2>2
<1>9. \A l \in Begins(Whole) : ~(l <= 0)
  BY <1>7
<1>10. Filed(Terms, Opening, Reads, 0, <<>>)
  BY <1>7, FiledNothing
<1>11. ReadUpTo(0)
  BY <1>4, <1>6, <1>8, <1>9, <1>10 DEF ReadUpTo
<1>12. 0 \in 0 .. Len(Whole)
  BY <1>7
<1> QED
  BY <1>1, <1>4, <1>11, <1>12 DEF TokensOK

\* A token is read.
LEMMA TokensFurther ==
  ASSUME IInv, TokensOK, pc = "parse", NEW p \in 0 .. Len(Whole), ReadUpTo(p), ~Blank(rest),
         ReadBar \/ ReadToken
  PROVE  TokensOK'
<1>1. IsSequence(Whole) /\ CompleteSet(set) /\ IsSequence(pattern)
  BY DEF TokensOK, IInv, ParseOK
<1>2. UNCHANGED <<query, fuzzy, case_mode>>
  BY DEF ReadBar, ReadToken, ParseUnchanged
<1>3. /\ Whole' = Whole /\ Reads' = Reads /\ Bare' = Bare /\ Separates' = Separates
      /\ Bars' = Bars /\ Terms' = Terms /\ Opening' = Opening
  BY <1>2, QueryStays
<1>4. PICK string, bare, sep, bars, terms, opening :
        /\ string = Whole /\ bare = Bare /\ sep = Separates
        /\ bars = Bars /\ terms = Terms /\ opening = Opening
  OBVIOUS
<1>5. /\ IsSequence(string) /\ Len(string) \in Nat /\ p \in 0 .. Len(string)
      /\ Begins(string) \subseteq 1 .. Len(string)
      /\ terms \in SUBSET (1 .. Len(string)) /\ opening \in SUBSET terms
      /\ IsSeparating(string, bare, sep)
  BY <1>1, <1>4, Standing
<1>6. /\ bars = {k \in Begins(string) : sep[k]}
      /\ terms = Begins(string) \ (bars \cup bare)
      /\ opening = {k \in terms : \A bar \in bars : bar < k => \E l \in terms : bar < l /\ l < k}
  BY <1>4 DEF Bars, Terms, Opening
<1>7. /\ IsLeft(string, p, rest) /\ (p = 0 \/ EndsAt(string, p))
      /\ after_bar <=> sep[p]
      /\ set = <<>> <=> \A l \in Begins(string) : l <= p => l \in bare
      /\ set = <<>> => pattern = <<>> /\ ~switch_set
      /\ set # <<>> => (switch_set <=> \A bar \in bars : bar <= p => \E l \in terms : bar < l /\ l <= p)
      /\ Filed(terms, opening, Reads, p, IF set = <<>> THEN <<>> ELSE Append(pattern, set))
  BY <1>4 DEF ReadUpTo
<1>8. PICK left, token, behind : left = rest /\ token = Token(rest) /\ behind = Behind(rest)
  OBVIOUS
<1>9. PICK b, e \in p + 1 .. Len(string) :
        /\ b <= e /\ b \in Begins(string) /\ EndsAt(string, e)
        /\ token = TokenFrom(string, b)
        /\ behind = SubSeq(string, e + 1, Len(string))
        /\ \A k \in Begins(string) : k <= e => k <= p \/ k = b
  <2>1. \E b, e \in p + 1 .. Len(string) :
          /\ b <= e /\ b \in Begins(string) /\ EndsAt(string, e)
          /\ Token(left) = TokenFrom(string, b)
          /\ Token(left) = SubSeq(string, b, e)
          /\ \A k \in b .. e : ~IsSpace(string[k])
          /\ \A k \in p + 1 .. b - 1 : IsSpace(string[k])
          /\ Behind(left) = SubSeq(string, e + 1, Len(string))
          /\ \A k \in Begins(string) : k <= e => k <= p \/ k = b
    BY <1>5, <1>7, <1>8, TokenNext
  <2> QED
    BY <1>8, <2>1
<1>10. /\ b \in Nat /\ e \in Nat /\ p \in Nat /\ p < b /\ b <= e /\ e <= Len(string) /\ ~(b <= p)
       /\ e \in p .. Len(string) /\ e \in 0 .. Len(string) /\ e \in b .. Len(string)
       /\ \A k \in Begins(string) : k \in Nat
  BY <1>5, <1>9
<1>11. /\ sep[e] <=> sep[b]
       /\ sep[b] <=> token = <<"|">> /\ ~sep[p] /\ \E l \in Begins(string) \ bare : l <= p
       /\ b \in opening <=> b \in terms /\ \A bar \in bars : bar <= p => \E l \in terms : bar < l /\ l <= p
  <2>1. Sorted(string, bare, sep, bars, terms, opening)
    BY <1>6 DEF Sorted
  <2>2. b \in p + 1 .. Len(string) /\ e \in b .. Len(string)
    BY <1>9, <1>10
  <2>3. /\ sep[e] <=> sep[b]
        /\ sep[b] <=> /\ TokenFrom(string, b) = <<"|">> /\ ~sep[p]
                      /\ \E l \in Begins(string) \ bare : l <= p
        /\ b \in opening <=> /\ b \in terms
                             /\ \A bar \in bars : bar <= p => \E l \in terms : bar < l /\ l <= p
    <3>1. b \in Begins(string) /\ \A k \in Begins(string) : k <= e => k <= p \/ k = b
      BY <1>9
    <3>2. IsSequence(string) /\ p \in 0 .. Len(string) /\ IsSeparating(string, bare, sep)
      BY <1>5
    <3> QED
      BY <2>1, <2>2, <3>1, <3>2, NextBegins
  <2> QED
    BY <1>9, <2>3
<1>12. \A k \in Begins(string) : k <= e <=> k <= p \/ k = b
  BY <1>9, <1>10
<1>13. rest' = behind
  BY <1>8 DEF ReadBar, ReadToken
<1>14. IsLeft(string, e, rest')
  BY <1>9, <1>13 DEF IsLeft
<1>15. sep[b] <=> IsBar(token)
  BY <1>7, <1>11 DEF IsBar
<1>16. terms \subseteq Begins(string) /\ bars \subseteq Begins(string)
  BY <1>6
<1>17. pc' = "parse"
  BY DEF ReadBar, ReadToken
<1>18. ASSUME /\ after_bar' <=> sep[e]
              /\ set' = <<>> <=> \A l \in Begins(string) : l <= e => l \in bare
              /\ set' = <<>> => pattern' = <<>> /\ ~switch_set'
              /\ set' # <<>> => (switch_set' <=> \A bar \in bars : bar <= e => \E l \in terms : bar < l /\ l <= e)
              /\ Filed(terms, opening, Reads, e, IF set' = <<>> THEN <<>> ELSE Append(pattern', set'))
       PROVE  TokensOK'
  <2>1. ReadUpTo(e)'
    BY <1>3, <1>4, <1>9, <1>14, <1>18 DEF ReadUpTo
  <2>2. IsSequence(Whole') /\ e \in 0 .. Len(Whole')
    BY <1>1, <1>3, <1>4, <1>10
  <2> QED
    BY <1>17, <2>1, <2>2 DEF TokensOK
<1>19. Reads[b] = ReadTerm(token) /\ (b \in bare <=> ReadTerm(token).body = <<>>)
  <2>1. Reads[b] = ReadTerm(token)
    BY <1>4, <1>9 DEF Reads
  <2>2. b \in bare <=> Reads[b].body = <<>>
    BY <1>4, <1>9 DEF Bare
  <2> QED
    BY <2>1, <2>2
<1>20. CASE ReadBar
  <2>1. /\ after_bar' /\ ~switch_set' /\ set' = set /\ pattern' = pattern
        /\ set # <<>> /\ IsBar(token)
    BY <1>8, <1>20 DEF ReadBar, IsBar
  <2>2. sep[b] /\ b \in bars /\ b \notin terms
    BY <1>6, <1>9, <1>15, <2>1
  <2>3. ~\A bar \in bars : bar <= e => \E l \in terms : bar < l /\ l <= e
    <3>1. ASSUME NEW l \in terms, b < l, l <= e PROVE FALSE
      BY <1>10, <1>12, <1>16, <2>2, <3>1
    <3> QED
      BY <1>9, <2>2, <3>1
  <2>4. \E l \in Begins(string) : l <= e /\ l \notin bare
    BY <1>7, <1>12, <2>1
  <2>5. \A k \in terms : k <= e => k <= p
    BY <1>12, <1>16, <2>2
  <2>6. Filed(terms, opening, Reads, e, Append(pattern, set))
    BY <1>5, <1>7, <1>10, <2>1, <2>5, FiledFurther
  <2> QED
    BY <1>11, <1>18, <2>1, <2>2, <2>3, <2>4, <2>6
<1>21. CASE ReadToken
  <2>1. ~after_bar' /\ ~IsBar(token)
    BY <1>8, <1>21 DEF ReadToken
  <2>2. ~sep[b] /\ b \notin bars
    BY <1>6, <1>15, <2>1
  <2>3. PICK term : term = ReadTerm(token)
    OBVIOUS
  <2>4. \/ /\ term.body = <<>>
           /\ UNCHANGED <<set, switch_set, pattern>>
        \/ /\ term.body # <<>>
           /\ switch_set' = TRUE
           /\ set' = IF switch_set THEN <<term>> ELSE Append(set, term)
           /\ pattern' = IF switch_set THEN Append(pattern, set) ELSE pattern
    BY <1>8, <1>21, <2>3 DEF ReadToken
  <2>5. CASE term.body = <<>>
    <3>1. UNCHANGED <<set, switch_set, pattern>>
      BY <2>4, <2>5
    <3>2. b \in bare /\ b \notin terms
      BY <1>6, <1>19, <2>3, <2>5
    <3>3. set' = <<>> <=> \A l \in Begins(string) : l <= e => l \in bare
      BY <1>7, <1>12, <3>1, <3>2
    <3>4. \A k \in terms : k <= e <=> k <= p
      BY <1>12, <1>16, <3>2
    <3>5. \A k \in bars : k <= e <=> k <= p
      BY <1>12, <1>16, <2>2
    <3>6. set' # <<>> => (switch_set' <=> \A bar \in bars : bar <= e => \E l \in terms : bar < l /\ l <= e)
      BY <1>7, <3>1, <3>4, <3>5
    <3>7. PICK sets : sets = IF set = <<>> THEN <<>> ELSE Append(pattern, set)
      OBVIOUS
    <3>8. Filed(terms, opening, Reads, e, sets)
      BY <1>5, <1>7, <1>10, <3>4, <3>7, FiledFurther
    <3> QED
      BY <1>7, <1>11, <1>18, <2>1, <2>2, <3>1, <3>3, <3>6, <3>7, <3>8
  <2>6. CASE term.body # <<>>
    <3>1. /\ switch_set' = TRUE
          /\ set' = IF switch_set THEN <<term>> ELSE Append(set, term)
          /\ pattern' = IF switch_set THEN Append(pattern, set) ELSE pattern
      BY <2>4, <2>6
    <3>2. b \in terms
      BY <1>6, <1>9, <1>19, <2>2, <2>3, <2>6
    <3>3. PICK s, pat, sets, more :
            /\ s = set /\ pat = pattern
            /\ sets = IF set = <<>> THEN <<>> ELSE Append(pattern, set)
            /\ more = Append(pattern', set')
      OBVIOUS
    <3>4. IsSequence(s) /\ IsSequence(pat) /\ Len(s) \in Nat /\ Len(pat) \in Nat
      BY <1>1, <3>3, Elements DEF CompleteSet
    <3>5. /\ IsSequence(Append(s, term)) /\ Len(Append(s, term)) = Len(s) + 1
          /\ IsSequence(Append(pat, s)) /\ Len(Append(pat, s)) = Len(pat) + 1
          /\ \A k \in 1 .. Len(pat) + 1 : Append(pat, s)[k] = IF k = Len(pat) + 1 THEN s ELSE pat[k]
      BY <3>4, Appended
    <3>6. set' # <<>>
      <4>1. Append(s, term) # <<>>
        <5>1. Len(Append(s, term)) # 0
          BY <3>4, <3>5
        <5> QED
          BY <3>5, <5>1, Elements
      <4>2. <<term>> # <<>>
        OBVIOUS
      <4> QED
        BY <3>1, <3>3, <4>1, <4>2
    <3>7. ~\A l \in Begins(string) : l <= e => l \in bare
      BY <1>6, <1>9, <3>2
    <3>8. \A bar \in bars : bar <= e => \E l \in terms : bar < l /\ l <= e
      <4>1. SUFFICES ASSUME NEW bar \in bars, bar <= e PROVE bar < b /\ b <= e
        BY <3>2
      <4>2. bar <= p /\ bar \in Nat
        BY <1>10, <1>12, <1>16, <2>2, <4>1
      <4> QED
        BY <1>10, <4>2
    <3>9. b \in opening <=> set = <<>> \/ switch_set
      <4>1. CASE set = <<>>
        <5>1. ASSUME NEW bar \in bars, bar <= p PROVE FALSE
          <6>1. bar \in Begins(string) /\ sep[bar] /\ bar \in 1 .. Len(string) /\ bar \in Nat
            BY <1>5, <1>6, <1>10, <5>1
          <6>2. \E l \in Begins(string) \ bare : l < bar
            BY <1>5, <6>1, SeparatingStep
          <6>3. PICK l \in Begins(string) \ bare : l < bar
            BY <6>2
          <6>4. l <= p
            BY <1>10, <5>1, <6>1, <6>3
          <6> QED
            BY <1>7, <4>1, <6>3, <6>4
        <5> QED
          BY <1>11, <3>2, <4>1, <5>1
      <4>2. CASE set # <<>>
        BY <1>7, <1>11, <3>2, <4>2
      <4> QED
        BY <4>1, <4>2
    <3>10. CASE b \in opening
      <4>1. more = Append(sets, <<term>>)
        <5>1. CASE set = <<>>
          <6>1. pattern' = <<>> /\ set' = Append(<<>>, term)
            BY <1>7, <3>1, <5>1
          <6>2. Append(<<>>, term) = <<term>>
            OBVIOUS
          <6> QED
            BY <3>3, <5>1, <6>1, <6>2
        <5>2. CASE set # <<>>
          BY <3>1, <3>3, <3>9, <3>10, <5>2
        <5> QED
          BY <5>1, <5>2
      <4>2. IsSequence(sets) /\ Len(sets) \in Nat
        <5>1. IsSequence(sets)
          BY <3>3, <3>5, Literals
        <5> QED
          BY <5>1, Elements
      <4>3. PICK new : new = <<term>>
        OBVIOUS
      <4>4. /\ IsSequence(Append(sets, new)) /\ Len(Append(sets, new)) = Len(sets) + 1
            /\ \A k \in 1 .. Len(sets) + 1 : Append(sets, new)[k] = IF k = Len(sets) + 1 THEN new ELSE sets[k]
        BY <4>2, Appended
      <4>5. /\ IsSequence(more) /\ Len(more) = Len(sets) + 1
            /\ \A k \in 1 .. Len(more) : k # Len(more) => more[k] = sets[k]
            /\ more[Len(more)] = <<Reads[b]>>
        <5>1. Len(sets) + 1 \in 1 .. Len(sets) + 1
          BY <4>2
        <5> QED
          BY <1>19, <2>3, <4>1, <4>3, <4>4, <5>1
      <4>6. Filed(terms, opening, Reads, p, sets)
        BY <1>7, <3>3
      <4>7. \A k \in terms : k <= e => k <= p \/ k = b
        BY <1>12, <1>16
      <4>8. Filed(terms, opening, Reads, e, more)
        BY <1>5, <1>10, <3>2, <3>10, <4>5, <4>6, <4>7, FiledMore
      <4> QED
        BY <1>11, <1>18, <2>1, <2>2, <3>1, <3>3, <3>6, <3>7, <3>8, <4>8
    <3>11. CASE b \notin opening
      <4>1. set # <<>> /\ ~switch_set
        BY <3>9, <3>11
      <4>2. sets = Append(pat, s) /\ more = Append(pat, Append(s, term))
        BY <3>1, <3>3, <4>1
      <4>3. PICK longer : longer = Append(s, term)
        OBVIOUS
      <4>4. /\ IsSequence(Append(pat, longer)) /\ Len(Append(pat, longer)) = Len(pat) + 1
            /\ \A k \in 1 .. Len(pat) + 1 : Append(pat, longer)[k] = IF k = Len(pat) + 1 THEN longer ELSE pat[k]
        BY <3>4, Appended
      <4>5. /\ IsSequence(more) /\ Len(more) = Len(sets) /\ sets # <<>> /\ Len(sets) = Len(pat) + 1
            /\ \A k \in 1 .. Len(more) : k # Len(more) => more[k] = sets[k]
            /\ more[Len(more)] = Append(sets[Len(sets)], Reads[b])
        <5>1. Len(pat) + 1 \in 1 .. Len(pat) + 1 /\ Len(pat) + 1 # 0
          BY <3>4
        <5>2. sets # <<>>
          <6>1. Len(sets) # 0 /\ IsSequence(sets)
            BY <3>5, <4>2, <5>1
          <6> QED
            BY <6>1, Elements
        <5>3. more[Len(pat) + 1] = longer /\ sets[Len(pat) + 1] = s
          BY <3>5, <4>2, <4>3, <4>4, <5>1
        <5> QED
          BY <1>19, <2>3, <3>5, <4>2, <4>3, <4>4, <5>2, <5>3
      <4>6. Filed(terms, opening, Reads, p, sets)
        BY <1>7, <3>3
      <4>7. \A k \in terms : k <= e => k <= p \/ k = b
        BY <1>12, <1>16
      <4>8. Filed(terms, opening, Reads, e, more)
        BY <1>5, <1>10, <3>2, <3>11, <4>5, <4>6, <4>7, FiledMore
      <4> QED
        BY <1>11, <1>18, <2>1, <2>2, <3>1, <3>3, <3>6, <3>7, <3>8, <4>8
    <3> QED
      BY <3>10, <3>11
  <2> QED
    BY <2>5, <2>6
<1> QED
  BY <1>20, <1>21

\* The last token has been read.
LEMMA TokensEnd ==
  ASSUME IInv, TokensOK, pc = "parse", ParseDone
  PROVE  TokensOK'
<1>1. PICK p \in 0 .. Len(Whole) : ReadUpTo(p)
  BY DEF TokensOK
<1>2. IsSequence(Whole)
  BY DEF TokensOK
<1>3. UNCHANGED <<query, fuzzy, case_mode>>
  BY DEF ParseDone, ParseUnchanged
<1>4. Whole' = Whole /\ Reads' = Reads /\ Terms' = Terms /\ Opening' = Opening
  BY <1>3, QueryStays
<1>5. /\ pc' = "ready" /\ Blank(rest)
      /\ pattern' = IF set # <<>> THEN Append(pattern, set) ELSE pattern
  BY DEF ParseDone
<1>6. PICK string, left : string = Whole /\ left = rest
  OBVIOUS
<1>7. /\ IsLeft(string, p, left) /\ (p = 0 \/ EndsAt(string, p))
      /\ set = <<>> => pattern = <<>>
      /\ Filed(Terms, Opening, Reads, p, IF set = <<>> THEN <<>> ELSE Append(pattern, set))
  BY <1>1, <1>6 DEF ReadUpTo
<1>8. \A k \in Begins(string) : k <= p
  BY <1>2, <1>5, <1>6, <1>7, TokenNext
<1>9. PICK sets, terms, opening : sets = pattern' /\ terms = Terms /\ opening = Opening
  OBVIOUS
<1>10. Filed(terms, opening, Reads, p, sets)
  BY <1>5, <1>7, <1>9
<1>11. /\ Len(string) \in Nat /\ p \in 0 .. Len(string) /\ Len(string) \in p .. Len(string)
       /\ terms \in SUBSET (1 .. Len(string)) /\ opening \in SUBSET terms
       /\ terms \subseteq Begins(string)
  <2>1. terms \subseteq Begins(string)
    BY <1>6, <1>9 DEF Terms
  <2>2. Len(string) \in Nat /\ terms \in SUBSET (1 .. Len(string)) /\ opening \in SUBSET terms
    BY <1>2, <1>6, <1>9, Standing
  <2>3. p \in 0 .. Len(string) /\ Len(string) \in p .. Len(string)
    BY <1>6, <2>2
  <2> QED
    BY <2>1, <2>2, <2>3
<1>12. Filed(terms, opening, Reads, Len(string), sets)
  BY <1>8, <1>10, <1>11, FiledFurther
<1> QED
  BY <1>2, <1>4, <1>5, <1>6, <1>9, <1>12 DEF TokensOK

\* Asking leaves it all as it is.
LEMMA TokensKept ==
  ASSUME TokensOK, Ask \/ UNCHANGED vars
  PROVE  TokensOK'
<1>1. UNCHANGED <<query, fuzzy, case_mode, rest, set, switch_set, after_bar, pattern>>
  BY DEF Ask, Call, InverseTerm, InverseDone, ScoreTerm, ScoreSetDone, ScoreDone, PositionsTerm,
         PositionsSetDone, PositionsDone, CallUnchanged, vars, parseVars
<1>2. /\ Whole' = Whole /\ Reads' = Reads /\ Bare' = Bare /\ Separates' = Separates
      /\ Bars' = Bars /\ Terms' = Terms /\ Opening' = Opening
  BY <1>1, QueryStays
<1>3. pc' = "parse" <=> pc = "parse"
  BY DEF Ask, Call, InverseTerm, InverseDone, ScoreTerm, ScoreSetDone, ScoreDone, PositionsTerm,
         PositionsSetDone, PositionsDone, Finish, vars
<1>4. \A p : ReadUpTo(p)' <=> ReadUpTo(p)
  BY <1>1, <1>2 DEF ReadUpTo
<1> QED
  BY <1>1, <1>2, <1>3, <1>4 DEF TokensOK

\* Whatever is typed, two terms are alternatives exactly if a bar that separates
\* stands between them (fzf_parse_pattern).
THEOREM BarsRight ==
  Spec => []BarsJoin
<1>1. Init => IInv /\ TokensOK
  BY InitInvariant, TokensStart
<1>2. IInv /\ TokensOK /\ [Next]_vars => IInv' /\ TokensOK'
  <2>1. IInv /\ [Next]_vars => IInv'
    BY StepInvariant
  <2>2. ASSUME IInv, TokensOK, Next \/ UNCHANGED vars PROVE TokensOK'
    <3>1. CASE Ask \/ UNCHANGED vars
      BY <2>2, <3>1, TokensKept
    <3>2. CASE ReadBar \/ ReadToken
      <4>1. pc = "parse" /\ ~Blank(rest)
        BY <3>2 DEF ReadBar, ReadToken
      <4>2. PICK p \in 0 .. Len(Whole) : ReadUpTo(p)
        BY <2>2, <4>1 DEF TokensOK
      <4> QED
        BY <2>2, <3>2, <4>1, <4>2, TokensFurther
    <3>3. CASE ParseDone
      <4>1. pc = "parse"
        BY <3>3 DEF ParseDone
      <4> QED
        BY <2>2, <3>3, <4>1, TokensEnd
    <3> QED
      BY <2>2, <3>1, <3>2, <3>3 DEF Next, Parse
  <2> QED
    BY <2>1, <2>2
<1>3. IInv /\ TokensOK => BarsJoin
  BY TokensJoin
<1> QED
  BY <1>1, <1>2, <1>3, PTL DEF Spec

-----------------------------------------------------------------------------
(* Strings put together.                                                   *)

\* One sequence behind another: its length and its elements
Joins(s, t, both) ==
  /\ IsSequence(both) /\ Len(both) = Len(s) + Len(t)
  /\ \A k \in 1 .. Len(s) : both[k] = s[k]
  /\ \A k \in 1 .. Len(t) : both[Len(s) + k] = t[k]

\* A sequence behind another is that.
LEMMA Joining ==
  ASSUME NEW s, IsSequence(s), NEW t, IsSequence(t)
  PROVE  Joins(s, t, s \o t)
<1>1. s \in Seq(Range(s) \cup Range(t)) /\ t \in Seq(Range(s) \cup Range(t))
  <2>1. s \in Seq(Range(s)) /\ t \in Seq(Range(t))
    BY DEF IsSequence
  <2>2. Range(s) \subseteq Range(s) \cup Range(t) /\ Range(t) \subseteq Range(s) \cup Range(t)
    OBVIOUS
  <2> QED
    BY <2>1, <2>2, SeqMonotonic
<1>2. Len(s) \in Nat /\ Len(t) \in Nat
  BY Elements
<1>3. /\ Len(s \o t) = Len(s) + Len(t)
      /\ \A k \in 1 .. Len(s) + Len(t) : (s \o t)[k] = IF k <= Len(s) THEN s[k] ELSE t[k - Len(s)]
  BY <1>1, ConcatProperties
<1>4. \A k \in 1 .. Len(s) : (s \o t)[k] = s[k]
  BY <1>2, <1>3
<1>5. ASSUME NEW k \in 1 .. Len(t) PROVE (s \o t)[Len(s) + k] = t[k]
  <2>1. Len(s) + k \in 1 .. Len(s) + Len(t) /\ ~(Len(s) + k <= Len(s)) /\ (Len(s) + k) - Len(s) = k
    BY <1>2
  <2> QED
    BY <1>3, <2>1
<1>6. IsSequence(s \o t)
  BY Concatenated
<1> QED
  BY <1>3, <1>4, <1>5, <1>6 DEF Joins

\* The order in which three are put together does not matter.
LEMMA Threefold ==
  ASSUME NEW s, IsSequence(s), NEW t, IsSequence(t), NEW u, IsSequence(u)
  PROVE  (s \o t) \o u = s \o (t \o u)
<1>1. PICK st, tu : st = s \o t /\ tu = t \o u
  OBVIOUS
<1>2. Len(s) \in Nat /\ Len(t) \in Nat /\ Len(u) \in Nat
  BY Elements
<1>3. /\ IsSequence(st) /\ Len(st) = Len(s) + Len(t)
      /\ \A k \in 1 .. Len(s) : st[k] = s[k]
      /\ \A k \in 1 .. Len(t) : st[Len(s) + k] = t[k]
  <2>1. Joins(s, t, st)
    BY <1>1, Joining
  <2> QED
    BY <2>1 DEF Joins
<1>4. /\ IsSequence(tu) /\ Len(tu) = Len(t) + Len(u)
      /\ \A k \in 1 .. Len(t) : tu[k] = t[k]
      /\ \A k \in 1 .. Len(u) : tu[Len(t) + k] = u[k]
  <2>1. Joins(t, u, tu)
    BY <1>1, Joining
  <2> QED
    BY <2>1 DEF Joins
<1>5. PICK left, right : left = st \o u /\ right = s \o tu
  OBVIOUS
<1>6. /\ IsSequence(left) /\ Len(left) = Len(st) + Len(u)
      /\ \A k \in 1 .. Len(st) : left[k] = st[k]
      /\ \A k \in 1 .. Len(u) : left[Len(st) + k] = u[k]
  <2>1. Joins(st, u, left)
    BY <1>3, <1>5, Joining
  <2> QED
    BY <2>1 DEF Joins
<1>7. /\ IsSequence(right) /\ Len(right) = Len(s) + Len(tu)
      /\ \A k \in 1 .. Len(s) : right[k] = s[k]
      /\ \A k \in 1 .. Len(tu) : right[Len(s) + k] = tu[k]
  <2>1. Joins(s, tu, right)
    BY <1>4, <1>5, Joining
  <2> QED
    BY <2>1 DEF Joins
<1>8. Len(left) = Len(right)
  BY <1>2, <1>3, <1>4, <1>6, <1>7
<1>9. ASSUME NEW k \in 1 .. Len(left) PROVE left[k] = right[k]
  <2>1. CASE k <= Len(s)
    <3>1. k \in 1 .. Len(s) /\ k \in 1 .. Len(st)
      BY <1>2, <1>3, <2>1
    <3> QED
      BY <1>3, <1>6, <1>7, <3>1
  <2>2. CASE k > Len(s) /\ k <= Len(s) + Len(t)
    <3>1. PICK l \in Int : l = k - Len(s)
      BY <1>2
    <3>2. l \in 1 .. Len(t) /\ l \in 1 .. Len(tu) /\ k = Len(s) + l /\ k \in 1 .. Len(st)
      BY <1>2, <1>3, <1>4, <2>2, <3>1
    <3>3. left[k] = t[l]
      BY <1>3, <1>6, <3>2
    <3>4. right[k] = t[l]
      BY <1>4, <1>7, <3>2
    <3> QED
      BY <3>3, <3>4
  <2>3. CASE k > Len(s) + Len(t)
    <3>0. k \in Int /\ k - (Len(s) + Len(t)) \in Int
      BY <1>2, <1>6
    <3>1. PICK l \in Int : l = k - (Len(s) + Len(t))
      BY <3>0
    <3>2. l \in 1 .. Len(u) /\ k = Len(st) + l /\ Len(t) + l \in 1 .. Len(tu) /\ k = Len(s) + (Len(t) + l)
      BY <1>2, <1>3, <1>4, <1>6, <2>3, <3>1
    <3>3. left[k] = u[l]
      BY <1>6, <3>2
    <3>4. right[k] = u[l]
      BY <1>4, <1>7, <3>2
    <3> QED
      BY <3>3, <3>4
  <2> QED
    BY <1>2, <2>1, <2>2, <2>3
<1> QED
  BY <1>1, <1>5, <1>6, <1>7, <1>8, <1>9, EqualSequences

Regroups(s, t, u) == (s \o t) \o u = s \o (t \o u)

\* Three sequences can be put together either way.
LEMMA Regrouping ==
  ASSUME NEW s, IsSequence(s), NEW t, IsSequence(t), NEW u, IsSequence(u)
  PROVE  Regroups(s, t, u)
BY Threefold DEF Regroups

\* Nothing before or behind a sequence
LEMMA Nothing ==
  ASSUME NEW s, IsSequence(s)
  PROVE  <<>> \o s = s /\ s \o <<>> = s
<1>1. s \in Seq(Range(s))
  BY DEF IsSequence
<1> QED
  BY <1>1, ConcatEmptySeq

\* An element more is a sequence of one element more.
LEMMA AppendIs ==
  ASSUME NEW s, IsSequence(s), NEW e
  PROVE  Append(s, e) = s \o <<e>>
<1>1. PICK one : one = <<e>>
  OBVIOUS
<1>2. IsSequence(one) /\ Len(one) = 1 /\ one[1] = e
  BY <1>1, Literals
<1>3. /\ IsSequence(s \o one) /\ Len(s \o one) = Len(s) + 1
      /\ \A k \in 1 .. Len(s) : (s \o one)[k] = s[k]
      /\ (s \o one)[Len(s) + 1] = e
  <2>1. /\ IsSequence(s \o one) /\ Len(s \o one) = Len(s) + Len(one)
        /\ \A k \in 1 .. Len(s) : (s \o one)[k] = s[k]
        /\ \A k \in 1 .. Len(one) : (s \o one)[Len(s) + k] = one[k]
    <3>1. Joins(s, one, s \o one)
      BY <1>2, Joining
    <3> QED
      BY <3>1 DEF Joins
  <2>2. 1 \in 1 .. Len(one)
    BY <1>2
  <2> QED
    BY <1>2, <2>1, <2>2
<1>4. /\ IsSequence(Append(s, e)) /\ Len(Append(s, e)) = Len(s) + 1
      /\ \A k \in 1 .. Len(s) + 1 : Append(s, e)[k] = IF k = Len(s) + 1 THEN e ELSE s[k]
  BY Appended
<1>5. Len(s) \in Nat
  BY Elements
<1>6. PICK more, joined : more = Append(s, e) /\ joined = s \o one
  OBVIOUS
<1>7. ASSUME NEW k \in 1 .. Len(more) PROVE more[k] = joined[k]
  <2>1. CASE k = Len(s) + 1
    <3>1. k \in 1 .. Len(s) + 1
      BY <1>5, <2>1
    <3> QED
      BY <1>3, <1>4, <1>6, <2>1, <3>1
  <2>2. CASE k # Len(s) + 1
    <3>1. k \in 1 .. Len(s) /\ k \in 1 .. Len(s) + 1
      BY <1>4, <1>5, <1>6, <2>2
    <3> QED
      BY <1>3, <1>4, <1>6, <2>2, <3>1
  <2> QED
    BY <2>1, <2>2
<1>8. more = joined
  BY <1>3, <1>4, <1>6, <1>7, EqualSequences
<1> QED
  BY <1>1, <1>6, <1>8

\* The steps of FlattenSeq depend on nothing but the sequences so far.
LEMMA FlatteningSame ==
  ASSUME NEW a, NEW n \in Nat, NEW f, IsFlattening(a, n, f),
         NEW b, NEW m \in Nat, NEW g, IsFlattening(b, m, g),
         NEW top \in Nat, top <= n, top <= m, \A l \in 1 .. top : a[l] = b[l]
  PROVE  \A l \in 1 .. top : f[l] = g[l]
<1> DEFINE T == {l \in Nat : l \in 1 .. top /\ f[l] # g[l]}
<1>1. SUFFICES ASSUME T # {} PROVE FALSE
  OBVIOUS
<1>2. T \in SUBSET Nat
  OBVIOUS
<1>3. PICK l \in T : \A k \in T : l <= k
  BY <1>1, <1>2, Least
<1>4. l \in 1 .. top /\ l \in Nat /\ f[l] # g[l] /\ l \in 1 .. n /\ l \in 1 .. m
  BY <1>3
<1>5. f[l] = IF l = 1 THEN a[l] ELSE f[l - 1] \o a[l]
  BY <1>4 DEF IsFlattening
<1>6. g[l] = IF l = 1 THEN b[l] ELSE g[l - 1] \o b[l]
  BY <1>4 DEF IsFlattening
<1>7. l # 1 => f[l - 1] = g[l - 1]
  <2>1. SUFFICES ASSUME l # 1 PROVE f[l - 1] = g[l - 1]
    OBVIOUS
  <2>2. l - 1 \in Nat /\ l - 1 \in 1 .. top /\ ~(l <= l - 1)
    BY <1>4, <2>1
  <2> QED
    BY <1>3, <2>2
<1>8. a[l] = b[l]
  BY <1>4
<1> HIDE DEF T
<1> QED
  BY <1>4, <1>5, <1>6, <1>7, <1>8

\* FlattenSeq takes these steps.
LEMMA FlattenSeqIs ==
  ASSUME NEW seqs, Len(seqs) \in Nat, Len(seqs) # 0, NEW f, IsFlattening(seqs, Len(seqs), f)
  PROVE  FlattenSeq(seqs) = f[Len(seqs)]
<1>1. PICK g : /\ g = (CHOOSE h : IsFlattening(seqs, Len(seqs), h))
               /\ IsFlattening(seqs, Len(seqs), g)
  OBVIOUS
<1>2. FlattenSeq(seqs) = g[Len(seqs)]
  BY <1>1 DEF FlattenSeq, IsFlattening
<1>3. \A l \in 1 .. Len(seqs) : f[l] = g[l]
  <2>1. Len(seqs) <= Len(seqs)
    OBVIOUS
  <2> QED
    BY <1>1, <2>1, FlatteningSame
<1>4. Len(seqs) \in 1 .. Len(seqs)
  OBVIOUS
<1> QED
  BY <1>2, <1>3, <1>4

\* One sequence more
LEMMA FlattenMore ==
  ASSUME NEW seqs, IsSequence(seqs), \A k \in DOMAIN seqs : IsSequence(seqs[k]),
         NEW more, IsSequence(more)
  PROVE  FlattenSeq(Append(seqs, more)) = FlattenSeq(seqs) \o more
<1>1. PICK n \in Nat : n = Len(seqs) /\ DOMAIN seqs = 1 .. n
  BY Elements
<1>2. PICK longer : longer = Append(seqs, more)
  OBVIOUS
<1>3. Len(longer) = n + 1 /\ \A k \in 1 .. n + 1 : longer[k] = IF k = n + 1 THEN more ELSE seqs[k]
  BY <1>1, <1>2, Appended
<1>4. PICK g : IsFlattening(longer, n + 1, g)
  <2>1. n + 1 \in Nat
    OBVIOUS
  <2> QED
    BY <2>1, FlatteningExists
<1>5. FlattenSeq(longer) = g[n + 1]
  <2>1. Len(longer) \in Nat /\ Len(longer) # 0
    BY <1>3
  <2> QED
    BY <1>3, <1>4, <2>1, FlattenSeqIs
<1>6. g[n + 1] = IF n + 1 = 1 THEN longer[n + 1] ELSE g[(n + 1) - 1] \o longer[n + 1]
  <2>1. n + 1 \in 1 .. n + 1
    OBVIOUS
  <2> QED
    BY <1>4, <2>1 DEF IsFlattening
<1>7. longer[n + 1] = more
  BY <1>3
<1>8. CASE n = 0
  <2>1. FlattenSeq(seqs) = seqs /\ seqs = <<>>
    BY <1>1, <1>8, Elements DEF FlattenSeq
  <2>2. <<>> \o more = more
    BY Nothing
  <2> QED
    BY <1>2, <1>5, <1>6, <1>7, <1>8, <2>1, <2>2
<1>9. CASE n # 0
  <2>1. PICK f : IsFlattening(seqs, n, f)
    BY FlatteningExists
  <2>2. FlattenSeq(seqs) = f[n]
    BY <1>1, <1>9, <2>1, FlattenSeqIs
  <2>3. \A l \in 1 .. n : f[l] = g[l]
    <3>1. n + 1 \in Nat /\ n <= n /\ n <= n + 1 /\ \A l \in 1 .. n : seqs[l] = longer[l]
      BY <1>3
    <3> QED
      BY <1>4, <2>1, <3>1, FlatteningSame
  <2>4. n \in 1 .. n /\ (n + 1) - 1 = n /\ n + 1 # 1
    BY <1>9
  <2> QED
    BY <1>2, <1>5, <1>6, <1>7, <2>2, <2>3, <2>4
<1> QED
  BY <1>8, <1>9

\* Sequences flattened one behind the other
LEMMA FlattenConcat ==
  ASSUME NEW a, IsSequence(a), \A k \in DOMAIN a : IsSequence(a[k]),
         NEW b, IsSequence(b), \A k \in DOMAIN b : IsSequence(b[k])
  PROVE  FlattenSeq(a \o b) = FlattenSeq(a) \o FlattenSeq(b)
<1>1. PICK n \in Nat : n = Len(a) /\ DOMAIN a = 1 .. n
  BY Elements
<1>2. PICK m \in Nat : m = Len(b) /\ DOMAIN b = 1 .. m
  BY Elements
<1>3. PICK both : both = a \o b
  OBVIOUS
<1>4. /\ IsSequence(both) /\ Len(both) = n + m
      /\ \A k \in 1 .. n : both[k] = a[k]
      /\ \A k \in 1 .. m : both[n + k] = b[k]
  <2>1. Joins(a, b, both)
    BY <1>3, Joining
  <2> QED
    BY <1>1, <1>2, <2>1 DEF Joins
<1>5. IsSequence(FlattenSeq(a)) /\ IsSequence(FlattenSeq(b))
  BY Flattened
<1>6. CASE m = 0
  <2>1. b = <<>>
    BY <1>2, <1>6, Elements
  <2>2. FlattenSeq(b) = <<>>
    BY <2>1 DEF FlattenSeq
  <2>3. a \o b = a
    BY <2>1, Nothing
  <2>4. FlattenSeq(a) \o <<>> = FlattenSeq(a)
    BY <1>5, Nothing
  <2> QED
    BY <2>2, <2>3, <2>4
<1>7. CASE n = 0
  <2>1. a = <<>>
    BY <1>1, <1>7, Elements
  <2>2. FlattenSeq(a) = <<>>
    BY <2>1 DEF FlattenSeq
  <2>3. a \o b = b
    BY <2>1, Nothing
  <2>4. <<>> \o FlattenSeq(b) = FlattenSeq(b)
    BY <1>5, Nothing
  <2> QED
    BY <2>2, <2>3, <2>4
<1>8. CASE n # 0 /\ m # 0
  <2>1. PICK f : IsFlattening(a, n, f)
    BY FlatteningExists
  <2>2. PICK g : IsFlattening(b, m, g)
    BY FlatteningExists
  <2>3. PICK h : IsFlattening(both, n + m, h)
    <3>1. n + m \in Nat
      OBVIOUS
    <3> QED
      BY <3>1, FlatteningExists
  <2>4. /\ FlattenSeq(a) = f[n] /\ FlattenSeq(b) = g[m]
        /\ FlattenSeq(both) = h[n + m]
    <3>1. n + m \in Nat /\ n + m # 0
      BY <1>8
    <3>2. FlattenSeq(both) = h[n + m]
      BY <1>4, <2>3, <3>1, FlattenSeqIs
    <3> QED
      BY <1>1, <1>2, <1>8, <2>1, <2>2, <3>2, FlattenSeqIs
  <2>5. \A k \in 1 .. n : f[k] = h[k]
    <3>1. n + m \in Nat /\ n <= n /\ n <= n + m /\ \A l \in 1 .. n : a[l] = both[l]
      BY <1>4
    <3> QED
      BY <2>1, <2>3, <3>1, FlatteningSame
  <2>6. /\ \A k \in 1 .. n : IsSequence(f[k])
        /\ \A k \in 1 .. m : IsSequence(g[k])
    BY <1>1, <1>2, <2>1, <2>2, FlatteningOfSequences
  <2>7. \A l \in 1 .. m : h[n + l] = h[(n + l) - 1] \o b[l]
    <3>1. ASSUME NEW l \in 1 .. m PROVE h[n + l] = h[(n + l) - 1] \o both[n + l]
      <4>1. n + l \in 1 .. n + m /\ n + l # 1
        BY <1>8
      <4>2. PICK x : x = n + l
        OBVIOUS
      <4>3. h[x] = IF x = 1 THEN both[x] ELSE h[x - 1] \o both[x]
        BY <2>3, <4>1, <4>2 DEF IsFlattening
      <4> QED
        BY <4>1, <4>2, <4>3
    <3> QED
      BY <1>4, <3>1
  <2>8. \A l \in 1 .. m : g[l] = IF l = 1 THEN b[l] ELSE g[l - 1] \o b[l]
    BY <2>2 DEF IsFlattening
  <2> DEFINE T == {l \in 1 .. m : h[n + l] = f[n] \o g[l]}
  <2>9. 1 \in T
    <3>1. 1 \in 1 .. m /\ (n + 1) - 1 = n /\ n \in 1 .. n
      BY <1>8
    <3>2. h[n + 1] = h[n] \o b[1] /\ g[1] = b[1] /\ h[n] = f[n]
      BY <2>5, <2>7, <2>8, <3>1
    <3> QED
      BY <3>1, <3>2
  <2>10. ASSUME NEW l \in 1 .. m - 1, l \in T PROVE l + 1 \in T
    <3>1. l \in 1 .. m /\ l + 1 \in 1 .. m /\ (n + (l + 1)) - 1 = n + l /\ (l + 1) - 1 = l /\ l + 1 # 1
      OBVIOUS
    <3>2. h[n + (l + 1)] = h[n + l] \o b[l + 1]
      BY <2>7, <3>1
    <3>3. g[l + 1] = g[l] \o b[l + 1]
      BY <2>8, <3>1
    <3>4. h[n + l] = f[n] \o g[l]
      BY <2>10
    <3>5. IsSequence(f[n]) /\ IsSequence(g[l]) /\ IsSequence(b[l + 1])
      <4>1. n \in 1 .. n
        BY <1>8
      <4> QED
        BY <1>2, <2>6, <3>1, <4>1
    <3>6. (f[n] \o g[l]) \o b[l + 1] = f[n] \o (g[l] \o b[l + 1])
      <4>1. Regroups(f[n], g[l], b[l + 1])
        BY <3>5, Regrouping
      <4> QED
        BY <4>1 DEF Regroups
    <3>7. h[n + (l + 1)] = f[n] \o g[l + 1]
      BY <3>2, <3>3, <3>4, <3>6
    <3> QED
      BY <3>1, <3>7
  <2> HIDE DEF T
  <2>11. \A l \in 1 .. m : l \in T
    <3>1. 1 \in Int /\ m \in Int
      OBVIOUS
    <3> QED
      BY <2>9, <2>10, <3>1, Climb
  <2>12. h[n + m] = f[n] \o g[m]
    <3>1. m \in 1 .. m
      BY <1>8
    <3>2. m \in T
      BY <2>11, <3>1
    <3> QED
      BY <3>2 DEF T
  <2> QED
    BY <1>3, <2>4, <2>12
<1> QED
  BY <1>6, <1>7, <1>8

-----------------------------------------------------------------------------
(* Blanks behind a backslash.                                              *)

\* What str_replace makes of each character
PairAt(string, k) == k \in 1 .. Len(string) - 1 /\ string[k] = "\\" /\ IsSpace(string[k + 1])
Pieces(string) ==
  [k \in DOMAIN string |->
     IF PairAt(string, k) THEN <<"\t">> ELSE IF PairAt(string, k - 1) THEN <<>> ELSE <<string[k]>>]

\* Escaped puts these pieces together.
LEMMA PiecesAre ==
  ASSUME NEW string, IsSequence(string)
  PROVE  /\ Escaped(string) = FlattenSeq(Pieces(string))
         /\ IsSequence(Pieces(string)) /\ Len(Pieces(string)) = Len(string)
         /\ DOMAIN Pieces(string) = 1 .. Len(string)
         /\ \A k \in 1 .. Len(string) :
              /\ Pieces(string)[k] = IF PairAt(string, k) THEN <<"\t">>
                                     ELSE IF PairAt(string, k - 1) THEN <<>> ELSE <<string[k]>>
              /\ IsSequence(Pieces(string)[k])
<1>1. Escaped(string) = FlattenSeq(Pieces(string))
  BY DEF Escaped, Pieces, PairAt
<1>2. PICK n \in Nat : n = Len(string) /\ DOMAIN string = 1 .. n
  BY Elements
<1>3. PICK pieces : pieces = Pieces(string)
  OBVIOUS
<1>4. pieces = [k \in 1 .. n |-> IF PairAt(string, k) THEN <<"\t">>
                                ELSE IF PairAt(string, k - 1) THEN <<>> ELSE <<string[k]>>]
  BY <1>2, <1>3 DEF Pieces
<1>5. \A k \in 1 .. n :
        pieces[k] = IF PairAt(string, k) THEN <<"\t">>
                    ELSE IF PairAt(string, k - 1) THEN <<>> ELSE <<string[k]>>
  BY <1>4
<1>6. IsSequence(pieces) /\ Len(pieces) = n /\ DOMAIN pieces = 1 .. n
  <2>1. pieces = [k \in 1 .. n |-> pieces[k]]
    BY <1>4
  <2> QED
    BY <2>1, FunctionSequence
<1>7. \A k \in 1 .. n : IsSequence(pieces[k])
  BY <1>5, Literals
<1> QED
  BY <1>1, <1>2, <1>3, <1>5, <1>6, <1>7

\* A string escaped in two parts, if they do not part a backslash from its blank
LEMMA EscapedConcat ==
  ASSUME NEW s, IsSequence(s), NEW t, IsSequence(t),
         s # <<>> /\ t # <<>> => ~(s[Len(s)] = "\\" /\ IsSpace(t[1]))
  PROVE  Escaped(s \o t) = Escaped(s) \o Escaped(t)
<1>1. PICK n \in Nat : n = Len(s)
  BY Elements
<1>2. PICK m \in Nat : m = Len(t)
  BY Elements
<1>3. PICK both : both = s \o t
  OBVIOUS
<1>4. /\ IsSequence(both) /\ Len(both) = n + m
      /\ \A k \in 1 .. n : both[k] = s[k]
      /\ \A k \in 1 .. m : both[n + k] = t[k]
  <2>1. Joins(s, t, both)
    BY <1>3, Joining
  <2> QED
    BY <1>1, <1>2, <2>1 DEF Joins
<1>5. n # 0 /\ m # 0 => ~(s[n] = "\\" /\ IsSpace(t[1]))
  BY <1>1, <1>2, Elements
<1>6. \A k \in 0 .. n : PairAt(both, k) <=> PairAt(s, k)
  <2>1. SUFFICES ASSUME NEW k \in 0 .. n PROVE PairAt(both, k) <=> PairAt(s, k)
    OBVIOUS
  <2>2. CASE k = 0
    <3>1. ~(k \in 1 .. Len(both) - 1) /\ ~(k \in 1 .. Len(s) - 1)
      BY <2>2
    <3> QED
      BY <3>1 DEF PairAt
  <2>3. CASE k # 0 /\ k < n
    <3>1. k \in 1 .. n /\ k + 1 \in 1 .. n /\ k \in 1 .. n - 1 /\ k \in 1 .. (n + m) - 1
      BY <2>3
    <3> QED
      BY <1>1, <1>4, <3>1 DEF PairAt
  <2>4. CASE k # 0 /\ k = n
    <3>1. ~PairAt(s, k)
      BY <1>1, <2>4 DEF PairAt
    <3>2. PairAt(both, k) => m # 0
      BY <1>4, <2>4 DEF PairAt
    <3>3. m # 0 => both[k] = s[n] /\ both[k + 1] = t[1]
      BY <1>4, <2>4
    <3> QED
      BY <1>5, <2>4, <3>1, <3>2, <3>3 DEF PairAt
  <2> QED
    BY <2>2, <2>3, <2>4
<1>7. \A k \in 1 .. m : PairAt(both, n + k) <=> PairAt(t, k)
  <2>1. SUFFICES ASSUME NEW k \in 1 .. m PROVE PairAt(both, n + k) <=> PairAt(t, k)
    OBVIOUS
  <2>2. CASE k < m
    <3>1. n + k \in 1 .. (n + m) - 1 /\ k \in 1 .. m - 1 /\ k + 1 \in 1 .. m /\ (n + k) + 1 = n + (k + 1)
      BY <2>2
    <3>2. both[n + k] = t[k] /\ both[(n + k) + 1] = t[k + 1]
      BY <1>4, <3>1
    <3> QED
      BY <1>2, <1>4, <3>1, <3>2 DEF PairAt
  <2>3. CASE k = m
    <3>1. ~(n + k \in 1 .. (n + m) - 1) /\ ~(k \in 1 .. m - 1)
      BY <2>3
    <3> QED
      BY <1>2, <1>4, <3>1 DEF PairAt
  <2> QED
    BY <2>2, <2>3
<1>8. /\ IsSequence(Pieces(s)) /\ Len(Pieces(s)) = n /\ DOMAIN Pieces(s) = 1 .. n
      /\ \A k \in 1 .. n :
           /\ Pieces(s)[k] = IF PairAt(s, k) THEN <<"\t">>
                             ELSE IF PairAt(s, k - 1) THEN <<>> ELSE <<s[k]>>
           /\ IsSequence(Pieces(s)[k])
  BY <1>1, PiecesAre
<1>9. /\ IsSequence(Pieces(t)) /\ Len(Pieces(t)) = m /\ DOMAIN Pieces(t) = 1 .. m
      /\ \A k \in 1 .. m :
           /\ Pieces(t)[k] = IF PairAt(t, k) THEN <<"\t">>
                             ELSE IF PairAt(t, k - 1) THEN <<>> ELSE <<t[k]>>
           /\ IsSequence(Pieces(t)[k])
  BY <1>2, PiecesAre
<1>10. /\ IsSequence(Pieces(both)) /\ Len(Pieces(both)) = n + m
       /\ \A k \in 1 .. n + m :
            Pieces(both)[k] = IF PairAt(both, k) THEN <<"\t">>
                              ELSE IF PairAt(both, k - 1) THEN <<>> ELSE <<both[k]>>
  BY <1>4, PiecesAre
<1>11. PICK ps, pt, pb : ps = Pieces(s) /\ pt = Pieces(t) /\ pb = Pieces(both)
  OBVIOUS
<1>12. \A k \in 1 .. n : pb[k] = ps[k]
  <2>1. SUFFICES ASSUME NEW k \in 1 .. n PROVE pb[k] = ps[k]
    OBVIOUS
  <2>2. k \in 1 .. n + m /\ k \in 0 .. n /\ k - 1 \in 0 .. n
    OBVIOUS
  <2>3. /\ PairAt(both, k) <=> PairAt(s, k)
        /\ PairAt(both, k - 1) <=> PairAt(s, k - 1)
        /\ both[k] = s[k]
    BY <1>4, <1>6, <2>2
  <2> QED
    BY <1>8, <1>10, <1>11, <2>2, <2>3
<1>13. \A k \in 1 .. m : pb[n + k] = pt[k]
  <2>1. SUFFICES ASSUME NEW k \in 1 .. m PROVE pb[n + k] = pt[k]
    OBVIOUS
  <2>2. PICK x \in Int : x = n + k
    OBVIOUS
  <2>3. x \in 1 .. n + m
    BY <2>2
  <2>4. PairAt(both, x) <=> PairAt(t, k)
    BY <1>7, <2>2
  <2>5. PairAt(both, x - 1) <=> PairAt(t, k - 1)
    <3>1. CASE k = 1
      <4>1. x - 1 = n /\ n \in 0 .. n
        BY <2>2, <3>1
      <4>2. PairAt(both, x - 1) <=> PairAt(s, n)
        BY <1>6, <4>1
      <4>3. ~PairAt(s, n) /\ ~PairAt(t, k - 1)
        BY <1>1, <3>1 DEF PairAt
      <4> QED
        BY <4>2, <4>3
    <3>2. CASE k # 1
      <4>1. k - 1 \in 1 .. m /\ x - 1 = n + (k - 1)
        BY <2>2, <3>2
      <4> QED
        BY <1>7, <4>1
    <3> QED
      BY <3>1, <3>2
  <2>6. both[x] = t[k]
    BY <1>4, <2>2
  <2>7. pb[x] = pt[k]
    BY <1>9, <1>10, <1>11, <2>3, <2>4, <2>5, <2>6
  <2> QED
    BY <2>2, <2>7
<1>14. pb = ps \o pt
  <2>1. PICK pst : pst = ps \o pt
    OBVIOUS
  <2>2. Joins(ps, pt, pst)
    BY <1>8, <1>9, <1>11, <2>1, Joining
  <2>3. /\ IsSequence(pst) /\ Len(pst) = n + m
        /\ \A k \in 1 .. n : pst[k] = ps[k]
        /\ \A k \in 1 .. m : pst[n + k] = pt[k]
    BY <1>8, <1>9, <1>11, <2>2 DEF Joins
  <2>4. \A k \in 1 .. n + m : pb[k] = pst[k]
    <3>1. SUFFICES ASSUME NEW k \in 1 .. n + m PROVE pb[k] = pst[k]
      OBVIOUS
    <3>2. CASE k <= n
      BY <1>12, <2>3, <3>2
    <3>3. CASE k > n
      <4>1. PICK l \in Int : l = k - n
        OBVIOUS
      <4>2. l \in 1 .. m /\ k = n + l
        BY <3>3, <4>1
      <4> QED
        BY <1>13, <2>3, <4>2
    <3> QED
      BY <3>2, <3>3
  <2>5. IsSequence(pb) /\ Len(pb) = Len(pst)
    BY <1>10, <1>11, <2>3
  <2>6. pb = pst
    BY <2>3, <2>4, <2>5, EqualSequences
  <2> QED
    BY <2>1, <2>6
<1>15. FlattenSeq(pb) = FlattenSeq(ps) \o FlattenSeq(pt)
  <2>1. FlattenSeq(ps \o pt) = FlattenSeq(ps) \o FlattenSeq(pt)
    BY <1>8, <1>9, <1>11, FlattenConcat
  <2> QED
    BY <1>14, <2>1
<1>16. /\ Escaped(s) = FlattenSeq(ps) /\ Escaped(t) = FlattenSeq(pt)
       /\ Escaped(both) = FlattenSeq(pb)
  BY <1>4, <1>11, PiecesAre
<1> QED
  BY <1>3, <1>15, <1>16

\* The blank
Space == " "

\* What is a blank, and what is not
LEMMA Spaces ==
  /\ \A c : IsSpace(c) <=> c = Space
  /\ ~IsSpace("\\") /\ ~IsSpace("\t") /\ ~IsSpace("|") /\ ~IsSpace("!")
  /\ ~IsSpace("'") /\ ~IsSpace("^") /\ ~IsSpace("$")
BY Zenon DEF IsSpace, Space

\* Nothing, one character and a blank behind a backslash, escaped
LEMMA EscapedNothing ==
  Escaped(<<>>) = <<>>
<1>1. PICK s : s = <<>>
  OBVIOUS
<1>2. IsSequence(s) /\ Len(s) = 0
  BY <1>1, Literals
<1>3. /\ Escaped(s) = FlattenSeq(Pieces(s))
      /\ IsSequence(Pieces(s)) /\ Len(Pieces(s)) = 0
  BY <1>2, PiecesAre
<1>4. Pieces(s) = <<>>
  BY <1>3, Elements
<1>5. FlattenSeq(Pieces(s)) = <<>>
  BY <1>4 DEF FlattenSeq
<1> QED
  BY <1>1, <1>3, <1>5

\* A character alone stays,
LEMMA EscapedOne ==
  ASSUME NEW c
  PROVE  Escaped(<<c>>) = <<c>>
<1>1. PICK s : s = <<c>>
  OBVIOUS
<1>2. IsSequence(s) /\ Len(s) = 1 /\ s[1] = c
  BY <1>1, Literals
<1>3. PICK pieces : pieces = Pieces(s)
  OBVIOUS
<1>4. /\ Escaped(s) = FlattenSeq(pieces)
      /\ Len(pieces) = 1
      /\ pieces[1] = <<c>>
  <2>1. ~PairAt(s, 1) /\ ~PairAt(s, 1 - 1)
    BY <1>2 DEF PairAt
  <2>2. 1 \in 1 .. Len(s)
    BY <1>2
  <2>3. /\ Escaped(s) = FlattenSeq(pieces) /\ Len(pieces) = Len(s)
        /\ \A k \in 1 .. Len(s) :
             pieces[k] = IF PairAt(s, k) THEN <<"\t">>
                         ELSE IF PairAt(s, k - 1) THEN <<>> ELSE <<s[k]>>
    BY <1>2, <1>3, PiecesAre
  <2> QED
    BY <1>2, <2>1, <2>2, <2>3
<1>5. PICK f : IsFlattening(pieces, 1, f)
  <2>1. 1 \in Nat
    OBVIOUS
  <2> QED
    BY <2>1, FlatteningExists
<1>6. FlattenSeq(pieces) = f[1]
  <2>1. Len(pieces) \in Nat /\ Len(pieces) # 0 /\ IsFlattening(pieces, Len(pieces), f)
    BY <1>4, <1>5
  <2>2. FlattenSeq(pieces) = f[Len(pieces)]
    BY <2>1, FlattenSeqIs
  <2> QED
    BY <1>4, <2>2
<1>7. f[1] = pieces[1]
  BY <1>5 DEF IsFlattening
<1> QED
  BY <1>1, <1>4, <1>6, <1>7

\* and a blank with a backslash becomes a tab.
LEMMA EscapedBlank ==
  Escaped(<<"\\", Space>>) = <<"\t">>
<1>1. PICK s : s = <<"\\", Space>>
  OBVIOUS
<1>2. IsSequence(s) /\ Len(s) = 2 /\ s[1] = "\\" /\ IsSpace(s[2])
  BY <1>1, Literals, Spaces
<1>3. PICK pieces : pieces = Pieces(s)
  OBVIOUS
<1>4. /\ Escaped(s) = FlattenSeq(pieces)
      /\ Len(pieces) = 2
      /\ pieces[1] = <<"\t">> /\ pieces[2] = <<>>
  <2>1. PairAt(s, 1) /\ ~PairAt(s, 2) /\ PairAt(s, 2 - 1)
    <3>1. PairAt(s, 1)
      BY <1>2 DEF PairAt
    <3>2. ~PairAt(s, 2)
      BY <1>2 DEF PairAt
    <3>3. 2 - 1 = 1
      OBVIOUS
    <3> QED
      BY <3>1, <3>2, <3>3
  <2>2. 1 \in 1 .. Len(s) /\ 2 \in 1 .. Len(s)
    BY <1>2
  <2>3. /\ Escaped(s) = FlattenSeq(pieces) /\ Len(pieces) = Len(s)
        /\ \A k \in 1 .. Len(s) :
             pieces[k] = IF PairAt(s, k) THEN <<"\t">>
                         ELSE IF PairAt(s, k - 1) THEN <<>> ELSE <<s[k]>>
    BY <1>2, <1>3, PiecesAre
  <2> QED
    BY <1>2, <2>1, <2>2, <2>3
<1>5. PICK f : IsFlattening(pieces, 2, f)
  <2>1. 2 \in Nat
    OBVIOUS
  <2> QED
    BY <2>1, FlatteningExists
<1>6. FlattenSeq(pieces) = f[2]
  <2>1. Len(pieces) \in Nat /\ Len(pieces) # 0 /\ IsFlattening(pieces, Len(pieces), f)
    BY <1>4, <1>5
  <2>2. FlattenSeq(pieces) = f[Len(pieces)]
    BY <2>1, FlattenSeqIs
  <2> QED
    BY <1>4, <2>2
<1>7. f[1] = pieces[1] /\ f[2] = f[1] \o pieces[2]
  <2>1. \A k \in 1 .. 2 : f[k] = IF k = 1 THEN pieces[k] ELSE f[k - 1] \o pieces[k]
    BY <1>5 DEF IsFlattening
  <2>2. 1 \in 1 .. 2 /\ 2 \in 1 .. 2 /\ 2 # 1 /\ 2 - 1 = 1
    OBVIOUS
  <2>3. PICK two : two = 2
    OBVIOUS
  <2>4. f[two] = f[two - 1] \o pieces[two]
    BY <2>1, <2>2, <2>3
  <2> QED
    BY <2>1, <2>2, <2>3, <2>4
<1>8. PICK tab : tab = <<"\t">>
  OBVIOUS
<1>9. IsSequence(tab) /\ tab \o <<>> = tab
  BY <1>8, Literals, Nothing
<1> QED
  BY <1>1, <1>4, <1>6, <1>7, <1>8, <1>9

-----------------------------------------------------------------------------
(* A written term, escaped.                                                *)

\* No blank comes first.
Starts(s) == IsSequence(s) /\ (s # <<>> => ~IsSpace(s[1]))

\* Two strings of which the second starts with no blank
LEMMA StartsConcat ==
  ASSUME NEW s, Starts(s), NEW t, Starts(t)
  PROVE  /\ Starts(s \o t)
         /\ Escaped(s \o t) = Escaped(s) \o Escaped(t)
<1>1. IsSequence(s) /\ IsSequence(t)
  BY DEF Starts
<1>2. Escaped(s \o t) = Escaped(s) \o Escaped(t)
  <2>1. s # <<>> /\ t # <<>> => ~(s[Len(s)] = "\\" /\ IsSpace(t[1]))
    BY DEF Starts
  <2> QED
    BY <1>1, <2>1, EscapedConcat
<1>3. PICK both : both = s \o t
  OBVIOUS
<1>4. /\ IsSequence(both) /\ Len(both) = Len(s) + Len(t)
      /\ \A k \in 1 .. Len(s) : both[k] = s[k]
      /\ \A k \in 1 .. Len(t) : both[Len(s) + k] = t[k]
  <2>1. Joins(s, t, both)
    BY <1>1, <1>3, Joining
  <2> QED
    BY <2>1 DEF Joins
<1>5. ASSUME both # <<>> PROVE ~IsSpace(both[1])
  <2>1. Len(s) \in Nat /\ Len(t) \in Nat /\ Len(both) # 0
    BY <1>1, <1>4, <1>5, Elements
  <2>2. CASE Len(s) # 0
    <3>1. s # <<>> /\ 1 \in 1 .. Len(s)
      BY <1>1, <2>1, <2>2, Elements
    <3> QED
      BY <1>4, <3>1 DEF Starts
  <2>3. CASE Len(s) = 0
    <3>1. Len(t) # 0 /\ 1 \in 1 .. Len(t) /\ Len(s) + 1 = 1
      BY <1>4, <2>1, <2>3
    <3>2. t # <<>>
      BY <1>1, <3>1, Elements
    <3> QED
      BY <1>4, <3>1, <3>2 DEF Starts
  <2> QED
    BY <2>2, <2>3
<1>6. Starts(both)
  BY <1>4, <1>5 DEF Starts
<1> QED
  BY <1>2, <1>3, <1>6

\* The last of two strings
LEMMA LastOfTwo ==
  ASSUME NEW s, IsSequence(s), NEW t, IsSequence(t), t # <<>>
  PROVE  s \o t # <<>> /\ (s \o t)[Len(s \o t)] = t[Len(t)]
<1>1. PICK both : both = s \o t
  OBVIOUS
<1>2. /\ IsSequence(both) /\ Len(both) = Len(s) + Len(t)
      /\ \A k \in 1 .. Len(t) : both[Len(s) + k] = t[k]
  <2>1. Joins(s, t, both)
    BY <1>1, Joining
  <2> QED
    BY <2>1 DEF Joins
<1>3. Len(s) \in Nat /\ Len(t) \in Nat /\ Len(t) # 0
  BY Elements
<1>4. Len(t) \in 1 .. Len(t) /\ Len(both) # 0
  BY <1>2, <1>3
<1>5. both # <<>>
  BY <1>2, <1>4, Elements
<1> QED
  BY <1>1, <1>2, <1>4, <1>5

\* A body in a token: a tab stands for a blank.
Tabbed(body) == [k \in DOMAIN body |-> IF IsSpace(body[k]) THEN "\t" ELSE body[k]]

\* It has no blank.
LEMMA TabbedIs ==
  ASSUME NEW body, IsSequence(body)
  PROVE  /\ IsSequence(Tabbed(body)) /\ Len(Tabbed(body)) = Len(body)
         /\ \A k \in 1 .. Len(body) :
              /\ Tabbed(body)[k] = IF IsSpace(body[k]) THEN "\t" ELSE body[k]
              /\ ~IsSpace(Tabbed(body)[k])
<1>1. PICK n \in Nat : n = Len(body) /\ DOMAIN body = 1 .. n
  BY Elements
<1>2. PICK tabbed : tabbed = Tabbed(body)
  OBVIOUS
<1>3. tabbed = [k \in 1 .. n |-> IF IsSpace(body[k]) THEN "\t" ELSE body[k]]
  BY <1>1, <1>2 DEF Tabbed
<1>4. tabbed = [k \in 1 .. n |-> tabbed[k]]
  BY <1>3
<1>5. IsSequence(tabbed) /\ Len(tabbed) = n
  BY <1>4, FunctionSequence
<1>6. \A k \in 1 .. n : tabbed[k] = IF IsSpace(body[k]) THEN "\t" ELSE body[k]
  BY <1>3
<1>7. \A k \in 1 .. n : ~IsSpace(tabbed[k])
  BY <1>6, Spaces
<1> QED
  BY <1>1, <1>2, <1>5, <1>6, <1>7

\* What Quoted writes for a character, and what becomes of it
Quotation(c) == IF IsSpace(c) THEN <<"\\", Space>> ELSE <<c>>

\* str_replace makes a tab of a blank that Quoted wrote.
LEMMA QuotationIs ==
  ASSUME NEW c
  PROVE  /\ Starts(Quotation(c)) /\ Quotation(c) # <<>>
         /\ Quotation(c)[Len(Quotation(c))] = c
         /\ Escaped(Quotation(c)) = <<IF IsSpace(c) THEN "\t" ELSE c>>
<1>1. CASE IsSpace(c)
  <2>1. PICK q : q = <<"\\", Space>>
    OBVIOUS
  <2>2. IsSequence(q) /\ Len(q) = 2 /\ q[1] = "\\" /\ q[2] = Space /\ q # <<>>
    BY <2>1, Literals
  <2>3. Quotation(c) = q
    BY <1>1, <2>1 DEF Quotation
  <2>4. ~IsSpace(q[1]) /\ q[Len(q)] = c
    BY <1>1, <2>2, Spaces
  <2>5. Escaped(q) = <<IF IsSpace(c) THEN "\t" ELSE c>>
    BY <1>1, <2>1, EscapedBlank
  <2> QED
    BY <2>2, <2>3, <2>4, <2>5 DEF Starts
<1>2. CASE ~IsSpace(c)
  <2>1. PICK q : q = <<c>>
    OBVIOUS
  <2>2. IsSequence(q) /\ Len(q) = 1 /\ q[1] = c /\ q # <<>>
    BY <2>1, Literals
  <2>3. Quotation(c) = q
    BY <1>2, <2>1 DEF Quotation
  <2>4. ~IsSpace(q[1]) /\ q[Len(q)] = c
    BY <1>2, <2>2
  <2>5. Escaped(q) = <<IF IsSpace(c) THEN "\t" ELSE c>>
    BY <1>2, <2>1, EscapedOne
  <2> QED
    BY <2>2, <2>3, <2>4, <2>5 DEF Starts
<1> QED
  BY <1>1, <1>2

\* The first characters of a body, quoted
QuotedUpTo(body, n, s) ==
  /\ Starts(s) /\ s # <<>> /\ s[Len(s)] = body[n]
  /\ IsSequence(Escaped(s)) /\ Len(Escaped(s)) = n
  /\ \A k \in 1 .. n : Escaped(s)[k] = Tabbed(body)[k]

\* One character more
LEMMA QuotedMore ==
  ASSUME NEW body, IsSequence(body), NEW n \in Nat, n + 1 <= Len(body),
         NEW s, QuotedUpTo(body, n, s)
  PROVE  QuotedUpTo(body, n + 1, s \o Quotation(body[n + 1]))
<1>1. PICK c, q : c = body[n + 1] /\ q = Quotation(c)
  OBVIOUS
<1>2. PICK tab : tab = IF IsSpace(c) THEN "\t" ELSE c
  OBVIOUS
<1>3. /\ Starts(q) /\ q # <<>> /\ q[Len(q)] = c /\ Escaped(q) = <<tab>>
  BY <1>1, <1>2, QuotationIs
<1>4. Len(body) \in Nat /\ n + 1 \in 1 .. Len(body)
  BY Elements
<1>5. Tabbed(body)[n + 1] = tab
  BY <1>1, <1>2, <1>4, TabbedIs
<1>6. Starts(s) /\ IsSequence(s) /\ IsSequence(q)
  BY <1>3 DEF QuotedUpTo, Starts
<1>7. /\ Starts(s \o q)
      /\ Escaped(s \o q) = Escaped(s) \o Escaped(q)
  BY <1>3, <1>6, StartsConcat
<1>8. s \o q # <<>> /\ (s \o q)[Len(s \o q)] = body[n + 1]
  BY <1>1, <1>3, <1>6, LastOfTwo
<1>9. PICK one, front, whole : one = <<tab>> /\ front = Escaped(s) /\ whole = front \o one
  OBVIOUS
<1>10. IsSequence(one) /\ Len(one) = 1 /\ one[1] = tab
  BY <1>9, Literals
<1>11. IsSequence(front) /\ Len(front) = n /\ \A k \in 1 .. n : front[k] = Tabbed(body)[k]
  BY <1>9 DEF QuotedUpTo
<1>12. /\ IsSequence(whole) /\ Len(whole) = n + 1
       /\ \A k \in 1 .. n : whole[k] = front[k]
       /\ \A k \in 1 .. 1 : whole[n + k] = one[k]
  <2>1. Joins(front, one, whole)
    BY <1>9, <1>10, <1>11, Joining
  <2> QED
    BY <1>10, <1>11, <2>1 DEF Joins
<1>13. whole[n + 1] = tab
  <2>1. 1 \in 1 .. 1
    OBVIOUS
  <2> QED
    BY <1>10, <1>12, <2>1
<1>14. \A k \in 1 .. n + 1 : whole[k] = Tabbed(body)[k]
  <2>1. SUFFICES ASSUME NEW k \in 1 .. n + 1 PROVE whole[k] = Tabbed(body)[k]
    OBVIOUS
  <2>2. CASE k = n + 1
    BY <1>5, <1>13, <2>2
  <2>3. CASE k # n + 1
    <3>1. k \in 1 .. n
      BY <2>3
    <3> QED
      BY <1>11, <1>12, <3>1
  <2> QED
    BY <2>2, <2>3
<1>15. Escaped(s \o q) = whole
  BY <1>3, <1>7, <1>9
<1>16. QuotedUpTo(body, n + 1, s \o q)
  BY <1>7, <1>8, <1>12, <1>14, <1>15 DEF QuotedUpTo
<1> QED
  BY <1>1, <1>16

\* A quoted body becomes the body with tabs.
LEMMA QuotedIs ==
  ASSUME NEW body, IsSequence(body), body # <<>>
  PROVE  /\ Starts(Quoted(body)) /\ Quoted(body) # <<>>
         /\ Quoted(body)[Len(Quoted(body))] = body[Len(body)]
         /\ Escaped(Quoted(body)) = Tabbed(body)
<1>1. PICK n \in Nat : n = Len(body) /\ n # 0 /\ DOMAIN body = 1 .. n
  BY Elements
<1>2. PICK pieces : pieces = [k \in 1 .. n |-> Quotation(body[k])]
  OBVIOUS
<1>3. Quoted(body) = FlattenSeq(pieces)
  BY <1>1, <1>2, Zenon DEF Quoted, Quotation, Space
<1>4. \A k \in 1 .. n : pieces[k] = Quotation(body[k])
  BY <1>2
<1>5. IsSequence(pieces) /\ Len(pieces) = n
  <2>1. pieces = [k \in 1 .. n |-> pieces[k]]
    BY <1>2
  <2> QED
    BY <2>1, FunctionSequence
<1>6. PICK f : IsFlattening(pieces, n, f)
  BY FlatteningExists
<1>7. FlattenSeq(pieces) = f[n]
  BY <1>1, <1>5, <1>6, FlattenSeqIs
<1>8. \A k \in 1 .. n : f[k] = IF k = 1 THEN pieces[k] ELSE f[k - 1] \o pieces[k]
  BY <1>6 DEF IsFlattening
<1> DEFINE T == {k \in 1 .. n : QuotedUpTo(body, k, f[k])}
<1>9. 1 \in T
  <2>1. 1 \in 1 .. n
    BY <1>1
  <2>2. f[1] = Quotation(body[1])
    BY <1>4, <1>8, <2>1
  <2>3. PICK c, q, tab : c = body[1] /\ q = Quotation(c) /\ tab = IF IsSpace(c) THEN "\t" ELSE c
    OBVIOUS
  <2>4. Starts(q) /\ q # <<>> /\ q[Len(q)] = c /\ Escaped(q) = <<tab>>
    BY <2>3, QuotationIs
  <2>5. PICK one : one = <<tab>>
    OBVIOUS
  <2>6. IsSequence(one) /\ Len(one) = 1 /\ one[1] = tab
    BY <2>5, Literals
  <2>7. Tabbed(body)[1] = tab
    BY <1>1, <2>1, <2>3, TabbedIs
  <2>8. \A k \in 1 .. 1 : one[k] = Tabbed(body)[k]
    BY <2>6, <2>7
  <2>9. QuotedUpTo(body, 1, q)
    BY <2>3, <2>4, <2>5, <2>6, <2>8 DEF QuotedUpTo
  <2> QED
    BY <2>1, <2>2, <2>3, <2>9
<1>10. ASSUME NEW k \in 1 .. n - 1, k \in T PROVE k + 1 \in T
  <2>1. k \in Nat /\ k + 1 \in 1 .. n /\ k + 1 <= Len(body) /\ k + 1 # 1 /\ (k + 1) - 1 = k
    BY <1>1
  <2>2. f[k + 1] = f[k] \o Quotation(body[k + 1])
    BY <1>4, <1>8, <2>1
  <2>3. QuotedUpTo(body, k + 1, f[k] \o Quotation(body[k + 1]))
    BY <1>10, <2>1, QuotedMore
  <2> QED
    BY <2>1, <2>2, <2>3
<1> HIDE DEF T
<1>11. n \in T
  <2>1. 1 \in Int /\ n \in Int /\ n \in 1 .. n
    BY <1>1
  <2>2. \A k \in 1 .. n : k \in T
    BY <1>9, <1>10, <2>1, Climb
  <2> QED
    BY <2>1, <2>2
<1>12. QuotedUpTo(body, n, f[n])
  BY <1>11 DEF T
<1>13. PICK q : q = f[n]
  OBVIOUS
<1>14. Escaped(q) = Tabbed(body)
  <2>1. PICK s, t : s = Escaped(q) /\ t = Tabbed(body)
    OBVIOUS
  <2>2. IsSequence(t) /\ Len(t) = n
    BY <1>1, <2>1, TabbedIs
  <2>3. IsSequence(s) /\ Len(s) = n /\ \A k \in 1 .. n : s[k] = t[k]
    BY <1>12, <1>13, <2>1 DEF QuotedUpTo
  <2>4. s = t
    BY <2>2, <2>3, EqualSequences
  <2> QED
    BY <2>1, <2>4
<1>15. Starts(q) /\ q # <<>> /\ q[Len(q)] = body[n]
  BY <1>12, <1>13 DEF QuotedUpTo
<1> QED
  BY <1>1, <1>3, <1>7, <1>13, <1>14, <1>15

-----------------------------------------------------------------------------
(* What becomes of a written term.                                         *)

\* The parts of a written term
Bang(term) == IF term.inv THEN <<"!">> ELSE <<>>
Mark(term) ==
  CASE term.kind \in {"prefix", "equal"} -> <<"^">>
    [] term.kind = "exact" /\ fuzzy /\ ~term.inv -> <<"'">>
    [] OTHER -> <<>>
Dollar(term) == IF term.kind \in {"suffix", "equal"} THEN <<"$">> ELSE <<>>

\* The token it becomes
Tok(term) == Bang(term) \o Mark(term) \o Tabbed(term.body) \o Dollar(term)

\* One character or none
Single(s, c) == s = <<>> \/ s = <<c>>

\* A mark stays as it is.
LEMMA Singles ==
  ASSUME NEW s, NEW c, Single(s, c), ~IsSpace(c), c # "\\"
  PROVE  /\ Starts(s) /\ Escaped(s) = s
         /\ s # <<>> => s[Len(s)] = c
         /\ \A k \in 1 .. Len(s) : s[k] = c
         /\ Len(s) \in {0, 1}
<1>1. CASE s = <<>>
  <2>1. PICK t : t = <<>>
    OBVIOUS
  <2>2. IsSequence(t) /\ Len(t) = 0 /\ s = t
    BY <1>1, <2>1, Literals
  <2>3. Escaped(t) = t
    BY <2>1, EscapedNothing
  <2>4. Starts(t)
    BY <2>1, <2>2 DEF Starts
  <2>5. t = <<>> /\ \A k \in 1 .. Len(t) : FALSE
    BY <2>1, <2>2
  <2> QED
    BY <2>2, <2>3, <2>4, <2>5
<1>2. CASE s = <<c>>
  <2>1. PICK t : t = <<c>>
    OBVIOUS
  <2>2. IsSequence(t) /\ Len(t) = 1 /\ t[1] = c /\ s = t
    BY <1>2, <2>1, Literals
  <2>3. Escaped(t) = t
    BY <2>1, EscapedOne
  <2>4. Starts(t)
    BY <2>2 DEF Starts
  <2>5. \A k \in 1 .. Len(t) : t[k] = c
    BY <2>2
  <2> QED
    BY <2>2, <2>3, <2>4, <2>5
<1> QED
  BY <1>1, <1>2 DEF Single

\* The parts around the body are such marks,
LEMMA Marks ==
  ASSUME NEW term
  PROVE  /\ Single(Bang(term), "!")
         /\ Single(Mark(term), "^") \/ Single(Mark(term), "'")
         /\ Single(Dollar(term), "$")
BY DEF Bang, Mark, Dollar, Single

\* so they start with no blank and stay as they are.
LEMMA MarksAre ==
  ASSUME NEW term
  PROVE  /\ Starts(Bang(term)) /\ Escaped(Bang(term)) = Bang(term)
         /\ Starts(Mark(term)) /\ Escaped(Mark(term)) = Mark(term)
         /\ Starts(Dollar(term)) /\ Escaped(Dollar(term)) = Dollar(term)
         /\ Dollar(term) # <<>> => Dollar(term)[Len(Dollar(term))] = "$"
         /\ \A k \in 1 .. Len(Bang(term)) : ~IsSpace(Bang(term)[k])
         /\ \A k \in 1 .. Len(Mark(term)) : ~IsSpace(Mark(term)[k])
         /\ \A k \in 1 .. Len(Dollar(term)) : ~IsSpace(Dollar(term)[k])
<1>1. PICK bang, mark, dollar : bang = Bang(term) /\ mark = Mark(term) /\ dollar = Dollar(term)
  OBVIOUS
<1>2. Single(bang, "!") /\ Single(dollar, "$") /\ (Single(mark, "^") \/ Single(mark, "'"))
  BY <1>1, Marks
<1>3. PICK a, b, c, d : a = "!" /\ b = "^" /\ c = "'" /\ d = "$"
  OBVIOUS
<1>4. /\ ~IsSpace(a) /\ ~IsSpace(b) /\ ~IsSpace(c) /\ ~IsSpace(d)
  BY <1>3, Spaces
<1>5. a # "\\" /\ b # "\\" /\ c # "\\" /\ d # "\\"
  BY <1>3
<1>6. /\ Starts(bang) /\ Escaped(bang) = bang
      /\ \A k \in 1 .. Len(bang) : bang[k] = a
  BY <1>2, <1>3, <1>4, <1>5, Singles
<1>7. /\ Starts(dollar) /\ Escaped(dollar) = dollar
      /\ dollar # <<>> => dollar[Len(dollar)] = d
      /\ \A k \in 1 .. Len(dollar) : dollar[k] = d
  BY <1>2, <1>3, <1>4, <1>5, Singles
<1>8. /\ Starts(mark) /\ Escaped(mark) = mark
      /\ \/ \A k \in 1 .. Len(mark) : mark[k] = b
         \/ \A k \in 1 .. Len(mark) : mark[k] = c
  <2>1. CASE Single(mark, "^")
    BY <1>3, <1>4, <1>5, <2>1, Singles
  <2>2. CASE Single(mark, "'")
    BY <1>3, <1>4, <1>5, <2>2, Singles
  <2> QED
    BY <1>2, <2>1, <2>2
<1>9. /\ \A k \in 1 .. Len(bang) : ~IsSpace(bang[k])
      /\ \A k \in 1 .. Len(mark) : ~IsSpace(mark[k])
      /\ \A k \in 1 .. Len(dollar) : ~IsSpace(dollar[k])
  BY <1>4, <1>6, <1>7, <1>8
<1> QED
  BY <1>1, <1>3, <1>6, <1>7, <1>8, <1>9

\* No blank in a string
NoBlank(s) == IsSequence(s) /\ \A k \in 1 .. Len(s) : ~IsSpace(s[k])

\* Two strings without a blank
LEMMA NoBlankConcat ==
  ASSUME NEW s, NoBlank(s), NEW t, NoBlank(t)
  PROVE  NoBlank(s \o t)
<1>1. PICK both : both = s \o t
  OBVIOUS
<1>2. /\ IsSequence(both) /\ Len(both) = Len(s) + Len(t)
      /\ \A k \in 1 .. Len(s) : both[k] = s[k]
      /\ \A k \in 1 .. Len(t) : both[Len(s) + k] = t[k]
  <2>1. Joins(s, t, both)
    BY <1>1, Joining DEF NoBlank
  <2> QED
    BY <2>1 DEF Joins
<1>3. Len(s) \in Nat /\ Len(t) \in Nat
  BY Elements DEF NoBlank
<1>4. ASSUME NEW k \in 1 .. Len(both) PROVE ~IsSpace(both[k])
  <2>1. CASE k <= Len(s)
    <3>1. k \in 1 .. Len(s)
      BY <1>3, <2>1
    <3> QED
      BY <1>2, <3>1 DEF NoBlank
  <2>2. CASE k > Len(s)
    <3>1. k - Len(s) \in 1 .. Len(t) /\ Len(s) + (k - Len(s)) = k
      BY <1>2, <1>3, <2>2
    <3>2. both[k] = t[k - Len(s)]
      BY <1>2, <3>1
    <3> QED
      BY <3>1, <3>2 DEF NoBlank
  <2> QED
    BY <1>2, <1>3, <2>1, <2>2
<1>5. NoBlank(both)
  BY <1>2, <1>4 DEF NoBlank
<1> QED
  BY <1>1, <1>5

\* A term as it is written, and the token it becomes
LEMMA RenderedTerm ==
  ASSUME NEW term, ClearTerm(term)
  PROVE  /\ Starts(RenderTerm(term)) /\ RenderTerm(term) # <<>>
         /\ RenderTerm(term)[Len(RenderTerm(term))] # "\\"
         /\ Escaped(RenderTerm(term)) = Tok(term)
         /\ NoBlank(Tok(term)) /\ Tok(term) # <<>>
<1>1. PICK bang, mark, dollar, body, quoted, tabbed :
        /\ bang = Bang(term) /\ mark = Mark(term) /\ dollar = Dollar(term)
        /\ body = term.body /\ quoted = Quoted(term.body) /\ tabbed = Tabbed(term.body)
  OBVIOUS
<1>2. /\ Starts(bang) /\ Escaped(bang) = bang
      /\ Starts(mark) /\ Escaped(mark) = mark
      /\ Starts(dollar) /\ Escaped(dollar) = dollar
      /\ dollar # <<>> => dollar[Len(dollar)] = "$"
      /\ NoBlank(bang) /\ NoBlank(mark) /\ NoBlank(dollar)
  BY <1>1, MarksAre DEF NoBlank, Starts
<1>3. IsSequence(body) /\ body # <<>> /\ body[Len(body)] # "\\"
  BY <1>1 DEF ClearTerm
<1>4. /\ Starts(quoted) /\ quoted # <<>>
      /\ quoted[Len(quoted)] = body[Len(body)]
      /\ Escaped(quoted) = tabbed
  BY <1>1, <1>3, QuotedIs
<1>5. NoBlank(tabbed) /\ Len(tabbed) = Len(body)
  BY <1>1, <1>3, TabbedIs DEF NoBlank
<1>6. PICK one, two, three, uno, due, tre :
        /\ one = bang \o mark /\ two = one \o quoted /\ three = two \o dollar
        /\ uno = bang \o mark /\ due = uno \o tabbed /\ tre = due \o dollar
  OBVIOUS
<1>7. RenderTerm(term) = three
  BY <1>1, <1>6, Zenon DEF RenderTerm, Bang, Mark, Dollar
<1>8. Tok(term) = tre
  BY <1>1, <1>6 DEF Tok
<1>9. Starts(one) /\ Escaped(one) = bang \o mark
  <2>1. Starts(bang \o mark) /\ Escaped(bang \o mark) = Escaped(bang) \o Escaped(mark)
    <3>1. Starts(bang) /\ Starts(mark)
      BY <1>2
    <3> QED
      BY <3>1, StartsConcat
  <2> QED
    BY <1>2, <1>6, <2>1
<1>10. Starts(two) /\ Escaped(two) = Escaped(one) \o tabbed
  BY <1>4, <1>6, <1>9, StartsConcat
<1>11. Starts(three) /\ Escaped(three) = Escaped(two) \o dollar
  BY <1>2, <1>6, <1>10, StartsConcat, ZenonT(60)
<1>12. Escaped(three) = tre
  BY <1>6, <1>9, <1>10, <1>11
<1>13. two # <<>> /\ two[Len(two)] = body[Len(body)]
  BY <1>4, <1>6, <1>9, LastOfTwo DEF Starts
<1>14. three # <<>> /\ three[Len(three)] # "\\"
  <2>1. CASE dollar = <<>>
    <3>1. three = two
      BY <1>6, <1>10, <2>1, Nothing DEF Starts
    <3> QED
      BY <1>3, <1>13, <3>1
  <2>2. CASE dollar # <<>>
    <3>1. three # <<>> /\ three[Len(three)] = dollar[Len(dollar)]
      BY <1>2, <1>6, <1>10, <2>2, LastOfTwo DEF Starts
    <3> QED
      BY <1>2, <2>2, <3>1
  <2> QED
    BY <2>1, <2>2
<1>15. NoBlank(uno)
  BY <1>2, <1>6, NoBlankConcat
<1>16. NoBlank(due)
  BY <1>5, <1>6, <1>15, NoBlankConcat
<1>17. NoBlank(tre)
  BY <1>2, <1>6, <1>16, NoBlankConcat
<1>18. tre # <<>>
  <2>1. tabbed # <<>>
    BY <1>3, <1>5, Elements DEF NoBlank
  <2>2. due # <<>>
    BY <1>5, <1>6, <1>15, <2>1, LastOfTwo DEF NoBlank
  <2>3. CASE dollar = <<>>
    <3>1. tre = due
      BY <1>6, <1>16, <2>3, Nothing DEF NoBlank
    <3> QED
      BY <2>2, <3>1
  <2>4. CASE dollar # <<>>
    BY <1>2, <1>6, <1>16, <2>4, LastOfTwo DEF NoBlank
  <2> QED
    BY <2>3, <2>4
<1> QED
  BY <1>7, <1>8, <1>11, <1>12, <1>14, <1>17, <1>18

-----------------------------------------------------------------------------
(* A token is read as its term.                                            *)

\* A sequence is put together of two if its elements say so.
LEMMA JoinsUnique ==
  ASSUME NEW s, IsSequence(s), NEW t, IsSequence(t), NEW both, Joins(s, t, both)
  PROVE  both = s \o t
<1>1. PICK st : st = s \o t
  OBVIOUS
<1>2. /\ IsSequence(st) /\ Len(st) = Len(s) + Len(t)
      /\ \A k \in 1 .. Len(s) : st[k] = s[k]
      /\ \A k \in 1 .. Len(t) : st[Len(s) + k] = t[k]
  <2>1. Joins(s, t, st)
    BY <1>1, Joining
  <2> QED
    BY <2>1 DEF Joins
<1>3. Len(s) \in Nat /\ Len(t) \in Nat
  BY Elements
<1>4. /\ IsSequence(both) /\ Len(both) = Len(s) + Len(t)
      /\ \A k \in 1 .. Len(s) : both[k] = s[k]
      /\ \A k \in 1 .. Len(t) : both[Len(s) + k] = t[k]
  BY DEF Joins
<1>5. ASSUME NEW k \in 1 .. Len(both) PROVE both[k] = st[k]
  <2>1. CASE k <= Len(s)
    <3>1. k \in 1 .. Len(s)
      BY <1>3, <2>1
    <3> QED
      BY <1>2, <1>4, <3>1
  <2>2. CASE k > Len(s)
    <3>0. k \in Int
      BY <1>3, <1>4
    <3>1. PICK l \in Int : l = k - Len(s)
      BY <1>3, <3>0
    <3>2. l \in 1 .. Len(t) /\ k = Len(s) + l
      BY <1>3, <1>4, <2>2, <3>0, <3>1
    <3> QED
      BY <1>2, <1>4, <3>2
  <2> QED
    BY <1>3, <1>4, <2>1, <2>2
<1>6. both = st
  BY <1>2, <1>4, <1>5, EqualSequences
<1> QED
  BY <1>1, <1>6

\* A token without its tabs
Plain(token) == [k \in DOMAIN token |-> IF token[k] = "\t" THEN Space ELSE token[k]]

\* It is as long as the token,
LEMMA PlainIs ==
  ASSUME NEW s, IsSequence(s)
  PROVE  /\ IsSequence(Plain(s)) /\ Len(Plain(s)) = Len(s)
         /\ \A k \in 1 .. Len(s) : Plain(s)[k] = IF s[k] = "\t" THEN Space ELSE s[k]
<1>1. PICK n \in Nat : n = Len(s) /\ DOMAIN s = 1 .. n
  BY Elements
<1>2. PICK p : p = Plain(s)
  OBVIOUS
<1>3. p = [k \in 1 .. n |-> IF s[k] = "\t" THEN Space ELSE s[k]]
  BY <1>1, <1>2 DEF Plain
<1>4. p = [k \in 1 .. n |-> p[k]]
  BY <1>3
<1>5. IsSequence(p) /\ Len(p) = n
  BY <1>4, FunctionSequence
<1>6. \A k \in 1 .. n : p[k] = IF s[k] = "\t" THEN Space ELSE s[k]
  BY <1>3
<1> QED
  BY <1>1, <1>2, <1>5, <1>6

\* and so is a text in lower case.
LEMMA LowerIs ==
  ASSUME NEW s, IsSequence(s)
  PROVE  /\ IsSequence(LowerText(s)) /\ Len(LowerText(s)) = Len(s)
         /\ \A k \in 1 .. Len(s) : LowerText(s)[k] = Fold(FALSE, s[k])
<1>1. PICK n \in Nat : n = Len(s) /\ DOMAIN s = 1 .. n
  BY Elements
<1>2. PICK p : p = LowerText(s)
  OBVIOUS
<1>3. p = [k \in 1 .. n |-> Fold(FALSE, s[k])]
  BY <1>1, <1>2 DEF LowerText
<1>4. p = [k \in 1 .. n |-> p[k]]
  BY <1>3
<1>5. IsSequence(p) /\ Len(p) = n
  BY <1>4, FunctionSequence
<1>6. \A k \in 1 .. n : p[k] = Fold(FALSE, s[k])
  BY <1>3
<1> QED
  BY <1>1, <1>2, <1>5, <1>6

\* Both are done character by character.
LEMMA CharacterByCharacter ==
  ASSUME NEW s, IsSequence(s), NEW t, IsSequence(t)
  PROVE  /\ Plain(s \o t) = Plain(s) \o Plain(t)
         /\ LowerText(s \o t) = LowerText(s) \o LowerText(t)
<1>1. PICK both : both = s \o t
  OBVIOUS
<1>2. PICK n \in Nat, m \in Nat : n = Len(s) /\ m = Len(t)
  BY Elements
<1>3. /\ IsSequence(both) /\ Len(both) = n + m
      /\ \A k \in 1 .. n : both[k] = s[k]
      /\ \A k \in 1 .. m : both[n + k] = t[k]
  <2>1. Joins(s, t, both)
    BY <1>1, Joining
  <2> QED
    BY <1>2, <2>1 DEF Joins
<1>4. /\ \A k \in 1 .. n : k \in 1 .. n + m
      /\ \A k \in 1 .. m : n + k \in 1 .. n + m
  OBVIOUS
<1>5. Plain(both) = Plain(s) \o Plain(t)
  <2>1. PICK p, q, r : p = Plain(s) /\ q = Plain(t) /\ r = Plain(both)
    OBVIOUS
  <2>2. /\ IsSequence(p) /\ Len(p) = n
        /\ \A k \in 1 .. n : p[k] = IF s[k] = "\t" THEN Space ELSE s[k]
    BY <1>2, <2>1, PlainIs
  <2>3. /\ IsSequence(q) /\ Len(q) = m
        /\ \A k \in 1 .. m : q[k] = IF t[k] = "\t" THEN Space ELSE t[k]
    BY <1>2, <2>1, PlainIs
  <2>4. /\ IsSequence(r) /\ Len(r) = n + m
        /\ \A k \in 1 .. n + m : r[k] = IF both[k] = "\t" THEN Space ELSE both[k]
    BY <1>3, <2>1, PlainIs
  <2>5. \A k \in 1 .. n : r[k] = p[k]
    BY <1>3, <1>4, <2>2, <2>4
  <2>6. \A k \in 1 .. m : r[n + k] = q[k]
    BY <1>3, <1>4, <2>3, <2>4
  <2>7. Joins(p, q, r)
    BY <2>2, <2>3, <2>4, <2>5, <2>6 DEF Joins
  <2>8. r = p \o q
    BY <2>2, <2>3, <2>7, JoinsUnique
  <2> QED
    BY <2>1, <2>8
<1>6. LowerText(both) = LowerText(s) \o LowerText(t)
  <2>1. PICK p, q, r : p = LowerText(s) /\ q = LowerText(t) /\ r = LowerText(both)
    OBVIOUS
  <2>2. /\ IsSequence(p) /\ Len(p) = n
        /\ \A k \in 1 .. n : p[k] = Fold(FALSE, s[k])
    BY <1>2, <2>1, LowerIs
  <2>3. /\ IsSequence(q) /\ Len(q) = m
        /\ \A k \in 1 .. m : q[k] = Fold(FALSE, t[k])
    BY <1>2, <2>1, LowerIs
  <2>4. /\ IsSequence(r) /\ Len(r) = n + m
        /\ \A k \in 1 .. n + m : r[k] = Fold(FALSE, both[k])
    BY <1>3, <2>1, LowerIs
  <2>5. \A k \in 1 .. n : r[k] = p[k]
    BY <1>3, <1>4, <2>2, <2>4, ZenonT(60)
  <2>6. \A k \in 1 .. m : r[n + k] = q[k]
    BY <1>3, <1>4, <2>3, <2>4, ZenonT(60)
  <2>7. Joins(p, q, r)
    BY <2>2, <2>3, <2>4, <2>5, <2>6 DEF Joins
  <2>8. r = p \o q
    BY <2>2, <2>3, <2>7, JoinsUnique
  <2> QED
    BY <2>1, <2>8
<1> QED
  BY <1>1, <1>5, <1>6

\* What is written around a body
Around(term, body) == Bang(term) \o Mark(term) \o body \o Dollar(term)

\* A mark has no tab and no case.
LEMMA MarksStay ==
  ASSUME NEW s, NEW c, Single(s, c), c \in {"!", "'", "^", "$"}
  PROVE  IsSequence(s) /\ Plain(s) = s /\ LowerText(s) = s
<1>1. ~IsSpace(c) /\ c # "\\"
  BY Spaces
<1>2. IsSequence(s) /\ \A k \in 1 .. Len(s) : s[k] = c
  BY <1>1, Singles DEF Starts
<1>3. c # "\t" /\ Fold(FALSE, c) = c
  BY MarksAssumption DEF Fold
<1>4. PICK p, q : p = Plain(s) /\ q = LowerText(s)
  OBVIOUS
<1>5. /\ IsSequence(p) /\ Len(p) = Len(s)
      /\ \A k \in 1 .. Len(s) : p[k] = IF s[k] = "\t" THEN Space ELSE s[k]
  BY <1>2, <1>4, PlainIs
<1>6. /\ IsSequence(q) /\ Len(q) = Len(s)
      /\ \A k \in 1 .. Len(s) : q[k] = Fold(FALSE, s[k])
  BY <1>2, <1>4, LowerIs
<1>7. \A k \in 1 .. Len(s) : s[k] = p[k] /\ s[k] = q[k]
  BY <1>2, <1>3, <1>5, <1>6
<1>8. s = p /\ s = q
  BY <1>2, <1>5, <1>6, <1>7, EqualSequences
<1> QED
  BY <1>2, <1>4, <1>8

\* What is written around a body stays when it loses its tabs or its case.
LEMMA AroundStays ==
  ASSUME NEW term, NEW body, IsSequence(body)
  PROVE  /\ Plain(Around(term, body)) = Around(term, Plain(body))
         /\ LowerText(Around(term, body)) = Around(term, LowerText(body))
<1>1. PICK bang, mark, dollar : bang = Bang(term) /\ mark = Mark(term) /\ dollar = Dollar(term)
  OBVIOUS
<1>2. Single(bang, "!") /\ Single(dollar, "$") /\ (Single(mark, "^") \/ Single(mark, "'"))
  BY <1>1, Marks
<1>3. /\ IsSequence(bang) /\ Plain(bang) = bang /\ LowerText(bang) = bang
      /\ IsSequence(dollar) /\ Plain(dollar) = dollar /\ LowerText(dollar) = dollar
      /\ IsSequence(mark) /\ Plain(mark) = mark /\ LowerText(mark) = mark
  BY <1>2, MarksStay
<1>4. PICK one, two, three : one = bang \o mark /\ two = one \o body /\ three = two \o dollar
  OBVIOUS
<1>5. IsSequence(one) /\ IsSequence(two) /\ IsSequence(three)
  BY <1>3, <1>4, Concatenated
<1>6. Around(term, body) = three
  BY <1>1, <1>4 DEF Around
<1>7. Plain(one) = one /\ LowerText(one) = one
  <2>1. /\ Plain(bang \o mark) = Plain(bang) \o Plain(mark)
        /\ LowerText(bang \o mark) = LowerText(bang) \o LowerText(mark)
    <3>1. IsSequence(bang) /\ IsSequence(mark)
      BY <1>3
    <3> QED
      BY <3>1, CharacterByCharacter
  <2> QED
    BY <1>3, <1>4, <2>1
<1>8. /\ Plain(two) = one \o Plain(body)
      /\ LowerText(two) = one \o LowerText(body)
  <2>1. /\ Plain(one \o body) = Plain(one) \o Plain(body)
        /\ LowerText(one \o body) = LowerText(one) \o LowerText(body)
    <3>1. IsSequence(one) /\ IsSequence(body)
      BY <1>5
    <3> QED
      BY <3>1, CharacterByCharacter
  <2> QED
    BY <1>4, <1>7, <2>1
<1>9. /\ Plain(three) = Plain(two) \o dollar
      /\ LowerText(three) = LowerText(two) \o dollar
  <2>1. /\ Plain(two \o dollar) = Plain(two) \o Plain(dollar)
        /\ LowerText(two \o dollar) = LowerText(two) \o LowerText(dollar)
    <3>1. IsSequence(two) /\ IsSequence(dollar)
      BY <1>3, <1>5
    <3> QED
      BY <3>1, CharacterByCharacter
  <2> QED
    BY <1>3, <1>4, <2>1
<1> QED
  BY <1>1, <1>4, <1>6, <1>8, <1>9 DEF Around

\* The token's plain text is the body with what is written around it.
LEMMA PlainToken ==
  ASSUME NEW term, ClearTerm(term)
  PROVE  Plain(Tok(term)) = Around(term, term.body)
<1>1. PICK body, tabbed : body = term.body /\ tabbed = Tabbed(body)
  OBVIOUS
<1>2. IsSequence(body) /\ \A k \in 1 .. Len(body) : body[k] # "\t"
  BY <1>1 DEF ClearTerm
<1>3. /\ IsSequence(tabbed) /\ Len(tabbed) = Len(body)
      /\ \A k \in 1 .. Len(body) : tabbed[k] = IF IsSpace(body[k]) THEN "\t" ELSE body[k]
  BY <1>1, <1>2, TabbedIs
<1>4. PICK p : p = Plain(tabbed)
  OBVIOUS
<1>5. /\ IsSequence(p) /\ Len(p) = Len(body)
      /\ \A k \in 1 .. Len(body) : p[k] = IF tabbed[k] = "\t" THEN Space ELSE tabbed[k]
  BY <1>3, <1>4, PlainIs
<1>6. \A k \in 1 .. Len(p) : p[k] = body[k]
  BY <1>2, <1>3, <1>5, Spaces
<1>7. p = body
  BY <1>2, <1>5, <1>6, EqualSequences
<1>8. Tok(term) = Around(term, tabbed)
  BY <1>1 DEF Tok, Around
<1>9. Plain(Around(term, tabbed)) = Around(term, p)
  BY <1>3, <1>4, AroundStays
<1> QED
  BY <1>1, <1>7, <1>8, <1>9

\* The body can be told from what is written around it.
LEMMA AroundTold ==
  ASSUME NEW term, NEW s, IsSequence(s), NEW t, IsSequence(t), Len(s) = Len(t),
         Around(term, s) = Around(term, t)
  PROVE  s = t
<1>1. PICK bang, mark, dollar : bang = Bang(term) /\ mark = Mark(term) /\ dollar = Dollar(term)
  OBVIOUS
<1>2. IsSequence(bang) /\ IsSequence(mark) /\ IsSequence(dollar)
  BY <1>1, MarksAre DEF Starts
<1>3. PICK one, two, three : one = bang \o mark /\ two = one \o s /\ three = two \o dollar
  OBVIOUS
<1>4. PICK due, tre : due = one \o t /\ tre = due \o dollar
  OBVIOUS
<1>5. three = tre
  BY <1>1, <1>3, <1>4 DEF Around
<1>6. IsSequence(one) /\ IsSequence(two) /\ IsSequence(due)
  BY <1>2, <1>3, <1>4, Concatenated
<1>7. Joins(one, s, two) /\ Joins(one, t, due)
  BY <1>3, <1>4, <1>6, Joining
<1>8. Joins(two, dollar, three) /\ Joins(due, dollar, tre)
  BY <1>2, <1>3, <1>4, <1>6, Joining
<1>9. /\ Len(two) = Len(one) + Len(s) /\ Len(due) = Len(one) + Len(t)
      /\ \A k \in 1 .. Len(s) : two[Len(one) + k] = s[k]
      /\ \A k \in 1 .. Len(t) : due[Len(one) + k] = t[k]
  BY <1>7 DEF Joins
<1>10. /\ \A k \in 1 .. Len(two) : three[k] = two[k]
       /\ \A k \in 1 .. Len(due) : tre[k] = due[k]
  BY <1>8 DEF Joins
<1>11. Len(one) \in Nat /\ Len(s) \in Nat
  BY <1>6, Elements
<1>12. ASSUME NEW k \in 1 .. Len(s) PROVE s[k] = t[k]
  <2>1. Len(one) + k \in 1 .. Len(two) /\ Len(one) + k \in 1 .. Len(due) /\ k \in 1 .. Len(t)
    BY <1>9, <1>11
  <2>2. PICK x : x = Len(one) + k
    OBVIOUS
  <2>3. two[x] = s[k] /\ due[x] = t[k]
    BY <1>9, <2>1, <2>2
  <2>4. three[x] = two[x] /\ tre[x] = due[x]
    BY <1>10, <2>1, <2>2
  <2> QED
    BY <1>5, <2>3, <2>4
<1> QED
  BY <1>12, EqualSequences

\* A character put before or behind a string
LEMMA Prepended ==
  ASSUME NEW c, NEW s, IsSequence(s), NEW p, p = <<c>> \o s
  PROVE  p # <<>> /\ Head(p) = c /\ Tail(p) = s
<1>1. PICK one : one = <<c>>
  OBVIOUS
<1>2. IsSequence(one) /\ Len(one) = 1 /\ one[1] = c
  BY <1>1, Literals
<1>3. Joins(one, s, p)
  BY <1>1, <1>2, Joining
<1>4. /\ IsSequence(p) /\ Len(p) = 1 + Len(s)
      /\ \A k \in 1 .. 1 : p[k] = one[k]
      /\ \A k \in 1 .. Len(s) : p[1 + k] = s[k]
  BY <1>2, <1>3 DEF Joins
<1>5. Len(s) \in Nat
  BY Elements
<1>6. p # <<>> /\ p \in Seq(Range(p))
  <2>1. IsSequence(p) /\ Len(p) # 0
    BY <1>4, <1>5
  <2> QED
    BY <2>1, Elements
<1>7. Head(p) = c
  <2>1. 1 \in 1 .. 1
    OBVIOUS
  <2>2. p[1] = c
    BY <1>2, <1>4, <2>1
  <2>3. Head(p) = p[1]
    BY <1>6
  <2> QED
    BY <2>2, <2>3
<1>8. PICK t : t = Tail(p)
  OBVIOUS
<1>9. IsSequence(t) /\ Len(t) = Len(s) /\ \A k \in 1 .. Len(t) : t[k] = p[k + 1]
  <2>1. IsSequence(Tail(p))
    BY <1>4, <1>6, Cut
  <2>2. Len(Tail(p)) = Len(p) - 1 /\ \A k \in 1 .. Len(Tail(p)) : Tail(p)[k] = p[k + 1]
    BY <1>6, HeadTailProperties
  <2> QED
    BY <1>4, <1>5, <1>8, <2>1, <2>2
<1>10. \A k \in 1 .. Len(t) : t[k] = s[k]
  <2>1. \A k \in 1 .. Len(s) : k + 1 = 1 + k
    BY <1>5
  <2> QED
    BY <1>4, <1>9, <2>1
<1>11. t = s
  BY <1>9, <1>10, EqualSequences
<1> QED
  BY <1>6, <1>7, <1>8, <1>11

\* One character behind a string
LEMMA Adjoining ==
  ASSUME NEW s, IsSequence(s), NEW one, Len(one) = 1, NEW p, Joins(s, one, p)
  PROVE  p # <<>> /\ Last(p) = one[1] /\ Front(p) = s /\ Len(p) = Len(s) + 1
<1>4. /\ IsSequence(p) /\ Len(p) = Len(s) + 1
      /\ \A k \in 1 .. Len(s) : p[k] = s[k]
      /\ \A k \in 1 .. 1 : p[Len(s) + k] = one[k]
  BY DEF Joins
<1>5. Len(s) \in Nat
  BY Elements
<1>6. p # <<>>
  BY <1>4, <1>5, Elements
<1>7. Last(p) = one[1]
  <2>1. 1 \in 1 .. 1
    OBVIOUS
  <2>2. p[Len(s) + 1] = one[1]
    BY <1>4, <2>1
  <2> QED
    BY <1>4, <2>2 DEF Last
<1>8. PICK top : top = Len(p) - 1
  OBVIOUS
<1>10. top \in Nat /\ top <= Len(p) /\ top = Len(s)
  BY <1>4, <1>5, <1>8
<1>9. /\ IsSequence(SubSeq(p, 1, top)) /\ Len(SubSeq(p, 1, top)) = IF 1 <= top THEN top - 1 + 1 ELSE 0
      /\ \A k \in 1 .. Len(SubSeq(p, 1, top)) : SubSeq(p, 1, top)[k] = p[1 + k - 1]
  <2>1. 1 \in Nat /\ 1 # 0 /\ IsSequence(p) /\ top \in Nat /\ top <= Len(p)
    BY <1>4, <1>10
  <2> QED
    BY <2>1, Part
<1>11. PICK t : t = SubSeq(p, 1, top)
  OBVIOUS
<1>12. Front(p) = t
  BY <1>8, <1>11 DEF Front
<1>13. /\ IsSequence(t) /\ Len(t) = IF 1 <= top THEN top - 1 + 1 ELSE 0
       /\ \A k \in 1 .. Len(t) : t[k] = p[1 + k - 1]
  BY <1>9, <1>11
<1>14. Len(t) = Len(s)
  BY <1>10, <1>13
<1>15. \A k \in 1 .. Len(t) : t[k] = s[k]
  <2>1. \A k \in 1 .. Len(s) : 1 + k - 1 = k
    BY <1>5
  <2> QED
    BY <1>4, <1>13, <1>14, <2>1
<1>16. t = s
  BY <1>13, <1>14, <1>15, EqualSequences
<1> QED
  BY <1>4, <1>6, <1>7, <1>12, <1>16

\* The same, of a character
LEMMA Adjoined ==
  ASSUME NEW c, NEW s, IsSequence(s), NEW p, p = s \o <<c>>
  PROVE  p # <<>> /\ Last(p) = c /\ Front(p) = s /\ (s # <<>> => p # <<c>>)
<1>1. PICK one : one = <<c>>
  OBVIOUS
<1>2. IsSequence(one) /\ Len(one) = 1 /\ one[1] = c
  BY <1>1, Literals
<1>3. Joins(s, one, p)
  BY <1>1, <1>2, Joining
<1>4. p # <<>> /\ Last(p) = c /\ Front(p) = s /\ Len(p) = Len(s) + 1
  BY <1>2, <1>3, Adjoining
<1>5. s # <<>> => p # <<c>>
  <2>1. s # <<>> => Len(p) # 1
    BY <1>4, Elements
  <2> QED
    BY <1>1, <1>2, <2>1
<1> QED
  BY <1>4, <1>5

\* The parts TermOf takes a text apart into, and the term they make
Inner(text) == IF HasPrefix(text, "!") THEN Tail(text) ELSE text
Ending(left) == left # <<"$">> /\ HasSuffix(left, "$")
Shortened(left) == IF Ending(left) THEN Front(left) ELSE left
KindOf(text, left, short) ==
  CASE HasPrefix(short, "'") -> IF fuzzy /\ ~HasPrefix(text, "!") THEN "exact" ELSE "fuzzy"
    [] HasPrefix(short, "^") -> IF Ending(left) THEN "equal" ELSE "prefix"
    [] Ending(left) /\ ~HasPrefix(short, "'") /\ ~HasPrefix(short, "^") -> "suffix"
    [] OTHER -> IF fuzzy /\ ~HasPrefix(text, "!") THEN "fuzzy" ELSE "exact"
PartsMake(text, left, short, sensitive) ==
  [kind |-> KindOf(text, left, short),
   inv |-> HasPrefix(text, "!"),
   sensitive |-> sensitive,
   body |-> IF HasPrefix(short, "'") \/ HasPrefix(short, "^") THEN Tail(short) ELSE short]

\* TermOf does just that.
LEMMA TermOfIs ==
  ASSUME NEW text, NEW sensitive
  PROVE  TermOf(text, sensitive) = PartsMake(text, Inner(text), Shortened(Inner(text)), sensitive)
BY Zenon DEF TermOf, PartsMake, KindOf, Inner, Shortened, Ending

\* A body with its marks is read as the term it was written for.
LEMMA AroundRead ==
  ASSUME NEW term, term.kind \in {"fuzzy", "exact", "prefix", "suffix", "equal"}, term.inv \in BOOLEAN,
         term.kind = "fuzzy" => fuzzy /\ ~term.inv,
         NEW body, IsSequence(body), body # <<>>,
         body[1] \notin {"!", "'", "^"}, body[Len(body)] # "$",
         NEW sensitive
  PROVE  TermOf(Around(term, body), sensitive) =
           [kind |-> term.kind, inv |-> term.inv, sensitive |-> sensitive, body |-> body]
<1>1. PICK bang, mark, dollar : bang = Bang(term) /\ mark = Mark(term) /\ dollar = Dollar(term)
  OBVIOUS
<1>2. IsSequence(bang) /\ IsSequence(mark) /\ IsSequence(dollar)
  BY <1>1, MarksAre DEF Starts
<1>3. PICK short : short = mark \o body
  OBVIOUS
<1>4. PICK left : left = short \o dollar
  OBVIOUS
<1>5. PICK text : text = Around(term, body)
  OBVIOUS
<1>6. IsSequence(short) /\ IsSequence(left)
  BY <1>2, <1>3, <1>4, Concatenated
<1>7. text = bang \o left
  <2>1. (bang \o mark) \o body = bang \o short
    BY <1>2, <1>3, Threefold
  <2>2. (bang \o short) \o dollar = bang \o left
    BY <1>2, <1>4, <1>6, Threefold, SMTT(40)
  <2>3. text = ((bang \o mark) \o body) \o dollar
    BY <1>1, <1>5 DEF Around
  <2> QED
    BY <2>1, <2>2, <2>3
<1>8. Head(body) = body[1] /\ Last(body) = body[Len(body)]
  <2>1. body \in Seq(Range(body))
    BY DEF IsSequence
  <2> QED
    BY <2>1 DEF Last
<1>9. /\ short # <<>> /\ Last(short) # "$"
      /\ short[Len(short)] = body[Len(body)]
  <2>1. short # <<>> /\ short[Len(short)] = body[Len(body)]
    BY <1>2, <1>3, LastOfTwo
  <2> QED
    BY <2>1 DEF Last
\* the bang
<1>10. HasPrefix(text, "!") <=> term.inv
  <2>1. CASE term.inv
    <3>1. bang = <<"!">>
      BY <1>1, <2>1 DEF Bang
    <3>2. text # <<>> /\ Head(text) = "!"
      BY <1>6, <1>7, <3>1, Prepended
    <3> QED
      BY <2>1, <3>2 DEF HasPrefix
  <2>2. CASE ~term.inv
    <3>1. bang = <<>>
      BY <1>1, <2>2 DEF Bang
    <3>2. text = left
      BY <1>6, <1>7, <3>1, Nothing
    <3>3. Head(left) # "!"
      <4>1. Head(short) # "!"
        <5>1. CASE mark = <<>>
          <6>1. short = body
            BY <1>3, <5>1, Nothing
          <6> QED
            BY <1>8, <6>1
        <5>2. CASE mark = <<"^">>
          <6>1. Head(short) = "^"
            BY <1>3, <5>2, Prepended
          <6> QED
            BY <6>1
        <5>3. CASE mark = <<"'">>
          <6>1. Head(short) = "'"
            BY <1>3, <5>3, Prepended
          <6> QED
            BY <6>1
        <5> QED
          BY <1>1, <5>1, <5>2, <5>3, Marks DEF Single
      <4>2. Joins(short, dollar, left)
        BY <1>2, <1>4, <1>6, Joining
      <4>3. Len(short) \in Nat /\ Len(short) # 0 /\ Len(dollar) \in Nat
        BY <1>2, <1>6, <1>9, Elements
      <4>4. left[1] = short[1] /\ Len(left) # 0
        <5>1. 1 \in 1 .. Len(short)
          BY <4>3
        <5> QED
          BY <4>2, <4>3, <5>1 DEF Joins
      <4>5. left \in Seq(Range(left)) /\ left # <<>> /\ short \in Seq(Range(short))
        BY <1>6, <4>4, Elements
      <4>6. Head(left) = left[1] /\ Head(short) = short[1]
        BY <1>9, <4>5
      <4> QED
        BY <4>1, <4>4, <4>6
    <3> QED
      BY <2>2, <3>2, <3>3 DEF HasPrefix
  <2> QED
    BY <2>1, <2>2
<1>11. left = IF HasPrefix(text, "!") THEN Tail(text) ELSE text
  <2>1. CASE term.inv
    <3>1. bang = <<"!">>
      BY <1>1, <2>1 DEF Bang
    <3>2. Tail(text) = left
      BY <1>6, <1>7, <3>1, Prepended
    <3> QED
      BY <1>10, <2>1, <3>2
  <2>2. CASE ~term.inv
    <3>1. bang = <<>>
      BY <1>1, <2>2 DEF Bang
    <3>2. text = left
      BY <1>6, <1>7, <3>1, Nothing
    <3> QED
      BY <1>10, <2>2, <3>2
  <2> QED
    BY <2>1, <2>2
\* the dollar
<1>12. (left # <<"$">> /\ HasSuffix(left, "$")) <=> term.kind \in {"suffix", "equal"}
  <2>1. CASE term.kind \in {"suffix", "equal"}
    <3>1. dollar = <<"$">>
      BY <1>1, <2>1 DEF Dollar
    <3>2. left # <<>> /\ Last(left) = "$" /\ left # <<"$">>
      BY <1>4, <1>6, <1>9, <3>1, Adjoined
    <3> QED
      BY <2>1, <3>2 DEF HasSuffix
  <2>2. CASE ~(term.kind \in {"suffix", "equal"})
    <3>1. dollar = <<>>
      BY <1>1, <2>2 DEF Dollar
    <3>2. left = short
      BY <1>4, <1>6, <3>1, Nothing
    <3> QED
      BY <1>9, <2>2, <3>2 DEF HasSuffix
  <2> QED
    BY <2>1, <2>2
<1>13. short = IF left # <<"$">> /\ HasSuffix(left, "$") THEN Front(left) ELSE left
  <2>1. CASE term.kind \in {"suffix", "equal"}
    <3>1. dollar = <<"$">>
      BY <1>1, <2>1 DEF Dollar
    <3>2. Front(left) = short
      BY <1>4, <1>6, <3>1, Adjoined
    <3> QED
      BY <1>12, <2>1, <3>2
  <2>2. CASE ~(term.kind \in {"suffix", "equal"})
    <3>1. dollar = <<>>
      BY <1>1, <2>2 DEF Dollar
    <3>2. left = short
      BY <1>4, <1>6, <3>1, Nothing
    <3> QED
      BY <1>12, <2>2, <3>2
  <2> QED
    BY <2>1, <2>2
\* the mark
<1>14. /\ mark = <<"^">> => HasPrefix(short, "^") /\ ~HasPrefix(short, "'") /\ Tail(short) = body
       /\ mark = <<"'">> => HasPrefix(short, "'") /\ ~HasPrefix(short, "^") /\ Tail(short) = body
       /\ mark = <<>> => ~HasPrefix(short, "'") /\ ~HasPrefix(short, "^") /\ short = body
  <2>1. ASSUME mark = <<"^">>
        PROVE  HasPrefix(short, "^") /\ ~HasPrefix(short, "'") /\ Tail(short) = body
    <3>1. short # <<>> /\ Head(short) = "^" /\ Tail(short) = body
      BY <1>3, <2>1, Prepended
    <3> QED
      BY <3>1 DEF HasPrefix
  <2>2. ASSUME mark = <<"'">>
        PROVE  HasPrefix(short, "'") /\ ~HasPrefix(short, "^") /\ Tail(short) = body
    <3>1. short # <<>> /\ Head(short) = "'" /\ Tail(short) = body
      BY <1>3, <2>2, Prepended
    <3> QED
      BY <3>1 DEF HasPrefix
  <2>3. ASSUME mark = <<>>
        PROVE  ~HasPrefix(short, "'") /\ ~HasPrefix(short, "^") /\ short = body
    <3>1. short = body
      BY <1>3, <2>3, Nothing
    <3> QED
      BY <1>8, <3>1 DEF HasPrefix
  <2> QED
    BY <2>1, <2>2, <2>3
<1>15. PICK usual : usual = IF fuzzy /\ ~term.inv THEN "exact" ELSE "fuzzy"
  OBVIOUS
<1>16. /\ term.kind \in {"prefix", "equal"} => mark = <<"^">>
       /\ term.kind \in {"exact", "fuzzy"} /\ term.kind = usual => mark = <<"'">>
       /\ term.kind = "suffix" => mark = <<>>
       /\ term.kind \in {"exact", "fuzzy"} /\ term.kind # usual => mark = <<>>
  <2>1. mark = CASE term.kind \in {"prefix", "equal"} -> <<"^">>
                 [] term.kind = usual -> <<"'">>
                 [] OTHER -> <<>>
    BY <1>1, <1>15 DEF Mark
  <2>2. usual \in {"exact", "fuzzy"}
    BY <1>15
  <2>3. ASSUME term.kind \in {"prefix", "equal"}
        PROVE  mark = <<"^">>
    BY <2>1, <2>2, <2>3
  <2>4. ASSUME term.kind \in {"exact", "fuzzy"}, term.kind = usual
        PROVE  mark = <<"'">>
    BY <2>1, <2>2, <2>4
  <2>5. ASSUME term.kind = "suffix"
        PROVE  mark = <<>>
    BY <2>1, <2>2, <2>5
  <2>6. ASSUME term.kind \in {"exact", "fuzzy"}, term.kind # usual
        PROVE  mark = <<>>
    BY <2>1, <2>2, <2>6
  <2> QED
    BY <2>3, <2>4, <2>5, <2>6
<1>17. TermOf(text, sensitive) = PartsMake(text, left, short, sensitive)
  <2>1. left = Inner(text)
    BY <1>11 DEF Inner
  <2>2. short = Shortened(left)
    BY <1>13 DEF Shortened, Ending
  <2> QED
    BY <2>1, <2>2, TermOfIs
<1>18. (IF HasPrefix(short, "'") \/ HasPrefix(short, "^") THEN Tail(short) ELSE short) = body
  <2>1. mark \in {<<"^">>, <<"'">>, <<>>}
    BY <1>16
  <2> QED
    BY <1>14, <2>1
<1>19. Ending(left) <=> term.kind \in {"suffix", "equal"}
  BY <1>12 DEF Ending
<1>20. KindOf(text, left, short) = term.kind
  <2>1. CASE term.kind = "equal"
    <3>1. ~HasPrefix(short, "'") /\ HasPrefix(short, "^") /\ Ending(left)
      BY <1>14, <1>16, <1>19, <2>1
    <3>2. KindOf(text, left, short) = "equal"
      BY <3>1 DEF KindOf
    <3> QED
      BY <2>1, <3>2
  <2>2. CASE term.kind = "prefix"
    <3>1. ~HasPrefix(short, "'") /\ HasPrefix(short, "^") /\ ~Ending(left)
      BY <1>14, <1>16, <1>19, <2>2
    <3>2. KindOf(text, left, short) = "prefix"
      BY <3>1 DEF KindOf
    <3> QED
      BY <2>2, <3>2
  <2>3. CASE term.kind = "suffix"
    <3>1. ~HasPrefix(short, "'") /\ ~HasPrefix(short, "^") /\ Ending(left)
      BY <1>14, <1>16, <1>19, <2>3
    <3>2. KindOf(text, left, short) = "suffix"
      BY <3>1 DEF KindOf
    <3> QED
      BY <2>3, <3>2
  <2>4. CASE term.kind \in {"exact", "fuzzy"} /\ term.kind = usual
    <3>1. HasPrefix(short, "'") /\ ~HasPrefix(short, "^") /\ ~Ending(left)
      BY <1>14, <1>16, <1>19, <2>4
    <3>2. KindOf(text, left, short) = IF fuzzy /\ ~HasPrefix(text, "!") THEN "exact" ELSE "fuzzy"
      BY <3>1 DEF KindOf
    <3> QED
      BY <1>10, <1>15, <2>4, <3>2
  <2>5. CASE term.kind \in {"exact", "fuzzy"} /\ term.kind # usual
    <3>1. ~HasPrefix(short, "'") /\ ~HasPrefix(short, "^") /\ ~Ending(left)
      BY <1>14, <1>16, <1>19, <2>5
    <3>2. KindOf(text, left, short) = IF fuzzy /\ ~HasPrefix(text, "!") THEN "fuzzy" ELSE "exact"
      BY <3>1 DEF KindOf
    <3> QED
      BY <1>10, <1>15, <2>5, <3>2
  <2> QED
    BY <2>1, <2>2, <2>3, <2>4, <2>5
<1>21. HasPrefix(text, "!") = term.inv
  <2>1. HasPrefix(text, "!") \in BOOLEAN
    BY Zenon DEF HasPrefix
  <2> QED
    BY Zenon, <1>10, <2>1
<1> QED
  <2>1. PartsMake(text, left, short, sensitive) =
          [kind |-> term.kind, inv |-> term.inv, sensitive |-> sensitive, body |-> body]
    BY Zenon, <1>18, <1>20, <1>21 DEF PartsMake
  <2> QED
    BY <1>5, <1>17, <2>1

-----------------------------------------------------------------------------
(* What becomes of a written query.                                        *)

\* The strings of Joined, one after the other
IsJoining(strings, between, n, f) ==
  /\ f[1] = strings[1]
  /\ \A k \in 1 .. n - 1 : f[k + 1] = f[k] \o (between \o strings[k + 1])

\* Joined takes these steps.
LEMMA JoinSteps ==
  ASSUME NEW strings, IsSequence(strings), NEW n \in Nat, n = Len(strings), n # 0,
         \A k \in 1 .. n : IsSequence(strings[k]), NEW between, IsSequence(between)
  PROVE  \E f : /\ IsJoining(strings, between, n, f) /\ Joined(strings, between) = f[n]
                /\ \A k \in 1 .. n : IsSequence(f[k])
<1> DEFINE Piece(k) == IF k = 1 THEN strings[k] ELSE between \o strings[k]
<1>1. PICK pieces : pieces = [k \in 1 .. n |-> Piece(k)]
  OBVIOUS
<1>2. Joined(strings, between) = FlattenSeq(pieces)
  <2>1. DOMAIN strings = 1 .. n
    BY Elements
  <2> QED
    BY <1>1, <2>1 DEF Joined
<1>3. ASSUME NEW k \in 1 .. n PROVE IsSequence(Piece(k))
  <2>1. PICK string : string = strings[k]
    OBVIOUS
  <2>2. IsSequence(string) /\ IsSequence(between \o string)
    BY <2>1, Concatenated
  <2> QED
    BY <2>1, <2>2
<1>4. Piece(1) = strings[1] /\ \A k \in 1 .. n - 1 : Piece(k + 1) = between \o strings[k + 1]
  OBVIOUS
<1> HIDE DEF Piece
<1>5. pieces = [k \in 1 .. n |-> pieces[k]] /\ \A k \in 1 .. n : pieces[k] = Piece(k)
  BY <1>1
<1>6. Len(pieces) = n /\ \A k \in 1 .. n : IsSequence(pieces[k])
  BY <1>3, <1>5, FunctionSequence
<1>7. PICK f : IsFlattening(pieces, n, f)
  BY FlatteningExists
<1>8. FlattenSeq(pieces) = f[n]
  <2>1. IsFlattening(pieces, Len(pieces), f) /\ Len(pieces) \in Nat /\ Len(pieces) # 0
    BY <1>6, <1>7
  <2> QED
    BY <1>6, <2>1, FlattenSeqIs
<1>9. \A k \in 1 .. n : IsSequence(f[k])
  BY <1>6, <1>7, FlatteningOfSequences
<1>10. f[1] = strings[1]
  <2>1. 1 \in 1 .. n
    OBVIOUS
  <2>2. f[1] = pieces[1]
    BY <1>7, <2>1 DEF IsFlattening
  <2> QED
    BY <1>4, <1>5, <2>1, <2>2
<1>11. ASSUME NEW k \in 1 .. n - 1 PROVE f[k + 1] = f[k] \o (between \o strings[k + 1])
  <2>1. k + 1 \in 1 .. n /\ k + 1 # 1 /\ (k + 1) - 1 = k
    OBVIOUS
  <2>2. f[k + 1] = f[(k + 1) - 1] \o pieces[k + 1]
    BY <1>7, <2>1 DEF IsFlattening
  <2>3. pieces[k + 1] = between \o strings[k + 1]
    BY <1>4, <1>5, <2>1
  <2> QED
    BY <2>1, <2>2, <2>3
<1> QED
  BY <1>2, <1>8, <1>9, <1>10, <1>11 DEF IsJoining

\* A string and what becomes of it: others can be put around it.
Ready(s, t) ==
  /\ Starts(s) /\ s # <<>> /\ s[Len(s)] # "\\"
  /\ IsSequence(t) /\ Escaped(s) = t
Separator(s) == IsSequence(s) /\ s # <<>> /\ s[Len(s)] # "\\" /\ Escaped(s) = s

\* A separator and a string behind a string
LEMMA ReadyMore ==
  ASSUME NEW s, NEW a, Ready(s, a), NEW t, NEW b, Ready(t, b), NEW between, Separator(between)
  PROVE  Ready(s \o (between \o t), a \o (between \o b))
<1>1. /\ IsSequence(s) /\ s # <<>> /\ s[Len(s)] # "\\" /\ ~IsSpace(s[1])
      /\ IsSequence(t) /\ t # <<>> /\ t[Len(t)] # "\\" /\ ~IsSpace(t[1])
      /\ IsSequence(a) /\ IsSequence(b) /\ Escaped(s) = a /\ Escaped(t) = b
      /\ IsSequence(between) /\ between # <<>> /\ between[Len(between)] # "\\" /\ Escaped(between) = between
  BY DEF Ready, Separator, Starts
<1>2. PICK bt, all : bt = between \o t /\ all = s \o bt
  OBVIOUS
<1>3. IsSequence(bt) /\ IsSequence(all)
  BY <1>1, <1>2, Concatenated
<1>4. Escaped(bt) = between \o b
  <2>1. Escaped(between \o t) = Escaped(between) \o Escaped(t)
    BY <1>1, EscapedConcat
  <2> QED
    BY <1>1, <1>2, <2>1
<1>5. Escaped(all) = a \o (between \o b)
  <2>1. Escaped(s \o bt) = Escaped(s) \o Escaped(bt)
    BY <1>1, <1>3, EscapedConcat
  <2> QED
    BY <1>1, <1>2, <1>4, <2>1
<1>6. bt # <<>> /\ bt[Len(bt)] = t[Len(t)]
  BY <1>1, <1>2, LastOfTwo
<1>7. all # <<>> /\ all[Len(all)] = t[Len(t)]
  <2>1. all # <<>> /\ all[Len(all)] = bt[Len(bt)]
    BY <1>1, <1>2, <1>3, <1>6, LastOfTwo
  <2> QED
    BY <1>6, <2>1
<1>8. all[1] = s[1]
  <2>1. Joins(s, bt, all)
    BY <1>1, <1>2, <1>3, Joining
  <2>2. 1 \in 1 .. Len(s)
    BY <1>1, Elements
  <2> QED
    BY <2>1, <2>2 DEF Joins
<1>9. IsSequence(a \o (between \o b))
  <2>1. IsSequence(between \o b)
    BY <1>1, Concatenated
  <2>2. PICK u : u = between \o b
    OBVIOUS
  <2>3. IsSequence(a \o u)
    BY <1>1, <2>1, <2>2, Concatenated
  <2> QED
    BY <2>2, <2>3
<1>10. Ready(all, a \o (between \o b))
  BY <1>1, <1>3, <1>5, <1>7, <1>8, <1>9 DEF Ready, Starts
<1> QED
  BY <1>2, <1>10

\* What becomes of strings that are joined is what becomes of each of them, joined.
LEMMA ReadyJoined ==
  ASSUME NEW n \in Nat, n # 0,
         NEW strings, IsSequence(strings), n = Len(strings),
         NEW tokens, IsSequence(tokens), n = Len(tokens),
         \A k \in 1 .. n : Ready(strings[k], tokens[k]), NEW between, Separator(between)
  PROVE  Ready(Joined(strings, between), Joined(tokens, between))
<1>1. /\ IsSequence(between)
      /\ \A k \in 1 .. n : IsSequence(strings[k])
      /\ \A k \in 1 .. n : IsSequence(tokens[k])
  BY DEF Ready, Separator, Starts
<1>2. PICK f : IsJoining(strings, between, n, f) /\ Joined(strings, between) = f[n]
  <2>1. \E f : /\ IsJoining(strings, between, n, f) /\ Joined(strings, between) = f[n]
              /\ \A k \in 1 .. n : IsSequence(f[k])
    BY <1>1, JoinSteps
  <2> QED
    BY <2>1
<1>3. PICK g : IsJoining(tokens, between, n, g) /\ Joined(tokens, between) = g[n]
  <2>1. \E g : /\ IsJoining(tokens, between, n, g) /\ Joined(tokens, between) = g[n]
              /\ \A k \in 1 .. n : IsSequence(g[k])
    BY <1>1, JoinSteps
  <2> QED
    BY <2>1
<1> DEFINE T == {k \in 1 .. n : Ready(f[k], g[k])}
<1>4. 1 \in T
  BY <1>2, <1>3, SMTT(40) DEF IsJoining
<1>5. ASSUME NEW k \in 1 .. n - 1, k \in T PROVE k + 1 \in T
  <2>1. k + 1 \in 1 .. n
    OBVIOUS
  <2>2. PICK s, a, t, b : s = f[k] /\ a = g[k] /\ t = strings[k + 1] /\ b = tokens[k + 1]
    OBVIOUS
  <2>3. Ready(s, a) /\ Ready(t, b)
    BY <1>5, <2>1, <2>2
  <2>4. Ready(s \o (between \o t), a \o (between \o b))
    BY <2>3, ReadyMore
  <2>5. f[k + 1] = s \o (between \o t) /\ g[k + 1] = a \o (between \o b)
    BY <1>2, <1>3, <2>2 DEF IsJoining
  <2> QED
    BY <2>1, <2>4, <2>5
<1> HIDE DEF T
<1>6. \A k \in 1 .. n : k \in T
  <2>1. \A k \in 1 .. n - 1 : k \in T => k + 1 \in T
    BY <1>5
  <2>2. 1 \in Int /\ n \in Int
    OBVIOUS
  <2> QED
    BY <1>4, <2>1, <2>2, Climb
<1>7. n \in T
  BY <1>6
<1> QED
  BY <1>2, <1>3, <1>7 DEF T

\* Where strings stand that are joined: the k-th behind off[k]
LiesUpTo(strings, between, off, k, string) ==
  /\ IsSequence(string) /\ Len(string) = off[k] + Len(strings[k])
  /\ \A l \in 1 .. k : /\ off[l] \in Nat /\ off[l] + Len(strings[l]) <= Len(string)
                       /\ \A x \in 1 .. Len(strings[l]) : string[off[l] + x] = strings[l][x]
  /\ \A l \in 1 .. k - 1 :
       /\ off[l + 1] = off[l] + Len(strings[l]) + Len(between)
       /\ \A x \in 1 .. Len(between) : string[off[l] + Len(strings[l]) + x] = between[x]
Lies(strings, between, off, string) == off[1] = 0 /\ LiesUpTo(strings, between, off, Len(strings), string)

\* One string more
LEMMA LiesMore ==
  ASSUME NEW strings, NEW between, IsSequence(between), NEW off, NEW k \in Nat, k # 0,
         \A l \in 1 .. k + 1 : IsSequence(strings[l]),
         NEW s, LiesUpTo(strings, between, off, k, s),
         off[k + 1] = off[k] + Len(strings[k]) + Len(between),
         NEW t, t = strings[k + 1], NEW all, all = s \o (between \o t)
  PROVE  LiesUpTo(strings, between, off, k + 1, all)
<1>1. IsSequence(s) /\ IsSequence(t)
  BY SMTT(40) DEF LiesUpTo
<1>2. PICK bt : bt = between \o t
  OBVIOUS
<1>3. IsSequence(bt) /\ Joins(between, t, bt) /\ Joins(s, bt, all)
  <2>1. IsSequence(bt)
    BY <1>1, <1>2, Concatenated
  <2> QED
    BY <1>1, <1>2, <2>1, Joining
<1>4. PICK m, n, o \in Nat : m = Len(s) /\ n = Len(between) /\ o = Len(t)
  BY <1>1, Elements
<1>5. /\ Len(bt) = n + o
      /\ \A x \in 1 .. n : bt[x] = between[x]
      /\ \A x \in 1 .. o : bt[n + x] = t[x]
  BY <1>3, <1>4 DEF Joins
<1>6. /\ IsSequence(all) /\ Len(all) = m + (n + o)
      /\ \A x \in 1 .. m : all[x] = s[x]
      /\ \A x \in 1 .. n + o : all[m + x] = bt[x]
  BY <1>3, <1>4, <1>5 DEF Joins
<1>7. \A x \in 1 .. n : all[m + x] = between[x]
  <2>1. \A x \in 1 .. n : x \in 1 .. n + o
    OBVIOUS
  <2> QED
    BY <1>5, <1>6, <2>1
<1>8. \A x \in 1 .. o : all[(m + n) + x] = t[x]
  <2>1. \A x \in 1 .. o : n + x \in 1 .. n + o /\ m + (n + x) = (m + n) + x
    OBVIOUS
  <2> QED
    BY <1>5, <1>6, <2>1
<1>9. /\ m = off[k] + Len(strings[k])
      /\ \A l \in 1 .. k : /\ off[l] \in Nat /\ off[l] + Len(strings[l]) <= m
                           /\ \A x \in 1 .. Len(strings[l]) : s[off[l] + x] = strings[l][x]
      /\ \A l \in 1 .. k - 1 :
           /\ off[l + 1] = off[l] + Len(strings[l]) + n
           /\ \A x \in 1 .. n : s[off[l] + Len(strings[l]) + x] = between[x]
  BY <1>4 DEF LiesUpTo
<1>10. off[k + 1] = m + n
  BY <1>4, <1>9
<1>11. Len(all) = off[k + 1] + Len(strings[k + 1])
  BY <1>4, <1>6, <1>10
<1>12. ASSUME NEW l \in 1 .. k + 1
       PROVE  /\ off[l] \in Nat /\ off[l] + Len(strings[l]) <= Len(all)
              /\ \A x \in 1 .. Len(strings[l]) : all[off[l] + x] = strings[l][x]
  <2>1. CASE l = k + 1
    <3>1. PICK p, q : p = off[l] /\ q = strings[l]
      OBVIOUS
    <3>2. p = m + n /\ q = t
      BY <1>10, <2>1, <3>1
    <3>3. p \in Nat /\ p + Len(q) <= Len(all)
      <4>1. Len(q) = o
        BY <1>4, <3>2
      <4>2. p + o <= Len(all) /\ p \in Nat
        BY <1>6, <3>2
      <4> QED
        BY <4>1, <4>2
    <3>4. \A x \in 1 .. Len(q) : all[p + x] = q[x]
      BY <1>4, <1>8, <3>2
    <3> QED
      BY <3>1, <3>3, <3>4
  <2>2. CASE l # k + 1
    <3>1. l \in 1 .. k
      BY <2>2
    <3>2. PICK p, q : p = off[l] /\ q = strings[l]
      OBVIOUS
    <3>3. p \in Nat /\ p + Len(q) <= m /\ \A x \in 1 .. Len(q) : s[p + x] = q[x]
      BY <1>9, <3>1, <3>2
    <3>4. Len(q) \in Nat
      BY <3>2, Elements
    <3>5. \A x \in 1 .. Len(q) : p + x \in 1 .. m
      BY <3>3, <3>4
    <3>6. \A x \in 1 .. Len(q) : all[p + x] = q[x]
      BY <1>6, <3>3, <3>5
    <3>7. p + Len(q) <= Len(all)
      BY <1>6, <3>3, <3>4
    <3> QED
      BY <3>2, <3>3, <3>6, <3>7
  <2> QED
    BY <2>1, <2>2
<1>13. ASSUME NEW l \in 1 .. (k + 1) - 1
       PROVE  /\ off[l + 1] = off[l] + Len(strings[l]) + Len(between)
              /\ \A x \in 1 .. Len(between) : all[off[l] + Len(strings[l]) + x] = between[x]
  <2>1. CASE l = k
    BY <1>4, <1>7, <1>9, <2>1
  <2>2. CASE l # k
    <3>1. l \in 1 .. k - 1 /\ l \in 1 .. k /\ l + 1 \in 1 .. k
      BY <2>2
    <3>2. PICK p : p = off[l] + Len(strings[l])
      OBVIOUS
    <3>3. PICK c : c = Len(strings[l + 1])
      OBVIOUS
    <3>4. c \in Nat /\ off[l + 1] \in Nat /\ off[l + 1] + c <= m /\ off[l + 1] = p + n
      <4>1. c \in Nat
        <5>1. PICK q : q = strings[l + 1]
          OBVIOUS
        <5>2. IsSequence(q)
          BY <3>1, <5>1
        <5> QED
          BY <3>3, <5>1, <5>2, Elements
      <4>2. off[l + 1] \in Nat /\ off[l + 1] + c <= m
        BY <1>9, <3>1, <3>3
      <4>3. off[l + 1] = p + n
        BY <1>9, <3>1, <3>2
      <4> QED
        BY <4>1, <4>2, <4>3
    <3>5. p \in Nat
      <4>1. PICK q : q = strings[l]
        OBVIOUS
      <4>2. Len(q) \in Nat
        BY <3>1, <4>1, Elements
      <4>3. off[l] \in Nat
        BY <1>9, <3>1
      <4> QED
        BY <3>2, <4>1, <4>2, <4>3
    <3>6. \A x \in 1 .. n : p + x \in 1 .. m
      BY <3>4, <3>5
    <3>7. \A x \in 1 .. n : s[p + x] = between[x]
      BY <1>9, <3>1, <3>2
    <3>8. \A x \in 1 .. n : all[p + x] = between[x]
      BY <1>6, <3>6, <3>7
    <3> QED
      BY <1>4, <1>9, <3>1, <3>2, <3>8
  <2> QED
    BY <2>1, <2>2
<1> QED
  BY <1>6, <1>11, <1>12, <1>13 DEF LiesUpTo

\* Strings that are joined stand somewhere.
LEMMA LiesJoined ==
  ASSUME NEW n \in Nat, n # 0, NEW strings, IsSequence(strings), n = Len(strings),
         \A k \in 1 .. n : IsSequence(strings[k]), NEW between, IsSequence(between)
  PROVE  \E off : Lies(strings, between, off, Joined(strings, between))
<1>1. PICK f : /\ IsJoining(strings, between, n, f) /\ Joined(strings, between) = f[n]
               /\ \A k \in 1 .. n : IsSequence(f[k])
  BY JoinSteps
<1>2. PICK off : off = [k \in 1 .. n |-> Len(f[k]) - Len(strings[k])]
  OBVIOUS
<1>3. ASSUME NEW k \in 1 .. n
      PROVE  /\ Len(strings[k]) \in Nat /\ Len(f[k]) \in Nat
             /\ off[k] = Len(f[k]) - Len(strings[k])
  <2>1. PICK s, t : s = strings[k] /\ t = f[k]
    OBVIOUS
  <2>2. IsSequence(s) /\ IsSequence(t)
    BY <1>1, <2>1
  <2>3. Len(s) \in Nat /\ Len(t) \in Nat
    BY <2>2, Elements
  <2> QED
    BY <1>2, <2>1, <2>3
<1>4. f[1] = strings[1] /\ 1 \in 1 .. n
  BY <1>1 DEF IsJoining
<1>5. off[1] = 0
  <2>1. Len(strings[1]) \in Nat /\ off[1] = Len(f[1]) - Len(strings[1])
    BY <1>3, <1>4
  <2>2. PICK size \in Nat : size = Len(strings[1]) /\ size = Len(f[1])
    BY <1>4, <2>1
  <2> QED
    BY <2>1, <2>2
<1>6. ASSUME NEW k \in 1 .. n - 1
      PROVE  /\ off[k + 1] = off[k] + Len(strings[k]) + Len(between)
             /\ f[k + 1] = f[k] \o (between \o strings[k + 1])
  <2>1. k \in 1 .. n /\ k + 1 \in 1 .. n
    OBVIOUS
  <2>2. PICK s, t, bt, all : s = f[k] /\ t = strings[k + 1] /\ bt = between \o t /\ all = s \o bt
    OBVIOUS
  <2>3. f[k + 1] = all
    BY <1>1, <2>2 DEF IsJoining
  <2>4. IsSequence(s) /\ IsSequence(t) /\ IsSequence(bt)
    <3>1. IsSequence(s) /\ IsSequence(t)
      BY <1>1, <2>1, <2>2
    <3> QED
      BY <2>2, <3>1, Concatenated
  <2>5. Joins(between, t, bt) /\ Joins(s, bt, all)
    BY <2>2, <2>4, Joining
  <2>6. Len(all) = Len(s) + (Len(between) + Len(t))
    BY <2>5 DEF Joins
  <2>7. Len(between) \in Nat
    BY Elements
  <2>8. off[k] = Len(s) - Len(strings[k]) /\ off[k + 1] = Len(all) - Len(t)
    BY <1>3, <2>1, <2>2, <2>3
  <2>9. Len(s) \in Nat /\ Len(t) \in Nat /\ Len(strings[k]) \in Nat
    BY <1>3, <2>1, <2>2
  <2>10. off[k + 1] = off[k] + Len(strings[k]) + Len(between)
    BY <2>6, <2>7, <2>8, <2>9
  <2> QED
    BY <2>2, <2>3, <2>10
<1> DEFINE T == {k \in 1 .. n : LiesUpTo(strings, between, off, k, f[k])}
<1>7. 1 \in T
  <2>1. PICK s : s = strings[1]
    OBVIOUS
  <2>2. IsSequence(s) /\ Len(s) \in Nat
    BY <1>4, <2>1, Elements
  <2>3. \A l \in 1 .. 1 : l = 1
    OBVIOUS
  <2>4. \A l : ~(l \in 1 .. 1 - 1)
    OBVIOUS
  <2>5. LiesUpTo(strings, between, off, 1, s)
    BY <1>5, <2>1, <2>2, <2>3, <2>4 DEF LiesUpTo
  <2> QED
    BY <1>4, <2>1, <2>5
<1>8. ASSUME NEW k \in 1 .. n - 1, k \in T PROVE k + 1 \in T
  <2>1. k \in Nat /\ k # 0 /\ k + 1 \in 1 .. n /\ \A l \in 1 .. k + 1 : l \in 1 .. n
    OBVIOUS
  <2>2. PICK s, t, all : s = f[k] /\ t = strings[k + 1] /\ all = s \o (between \o t)
    OBVIOUS
  <2>3. LiesUpTo(strings, between, off, k, s)
    BY <1>8, <2>2
  <2>4. off[k + 1] = off[k] + Len(strings[k]) + Len(between) /\ f[k + 1] = all
    BY <1>6, <2>2
  <2>5. \A l \in 1 .. k + 1 : IsSequence(strings[l])
    BY <2>1
  <2> HIDE DEF T
  <2>6. LiesUpTo(strings, between, off, k + 1, all)
    BY <2>1, <2>2, <2>3, <2>4, <2>5, LiesMore
  <2> QED
    BY <2>1, <2>4, <2>6 DEF T
<1> HIDE DEF T
<1>9. \A k \in 1 .. n : k \in T
  <2>1. \A k \in 1 .. n - 1 : k \in T => k + 1 \in T
    BY <1>8
  <2>2. 1 \in Int /\ n \in Int
    OBVIOUS
  <2> QED
    BY <1>7, <2>1, <2>2, Climb
<1>10. n \in T
  BY <1>9
<1>11. Lies(strings, between, off, f[n])
  BY <1>5, <1>10 DEF T, Lies
<1> QED
  BY <1>1, <1>11

\* What stands between the terms of a set, and between sets
Or == <<" ", "|", " ">>
And == <<" ">>

\* Both are left as they are by str_replace.
LEMMA Separators ==
  /\ Separator(Or) /\ Len(Or) = 3 /\ IsSpace(Or[1]) /\ Or[2] = "|" /\ IsSpace(Or[3])
  /\ Separator(And) /\ Len(And) = 1 /\ IsSpace(And[1])
<1>1. PICK or, and, bar, tail : /\ or = <<Space, "|", Space>> /\ and = <<Space>>
                                /\ bar = <<"|">> /\ tail = <<"|", Space>>
  OBVIOUS
<1>2. Or = <<Space, "|", Space>> /\ And = <<Space>>
  BY Zenon DEF Or, And, Space
<1>3. Or = or /\ And = and
  BY <1>1, <1>2
<1>4. IsSpace(Space) /\ Space # "\\" /\ ~IsSpace("|")
  <2>1. Space # "\\"
    BY Zenon DEF Space
  <2> QED
    BY <2>1, Spaces
<1>5. /\ IsSequence(or) /\ Len(or) = 3 /\ or[1] = Space /\ or[2] = "|" /\ or[3] = Space
      /\ IsSequence(and) /\ Len(and) = 1 /\ and[1] = Space
      /\ IsSequence(bar) /\ Len(bar) = 1 /\ bar[1] = "|"
      /\ IsSequence(tail) /\ Len(tail) = 2 /\ tail[1] = "|" /\ tail[2] = Space
  BY <1>1, Literals
<1>6. Escaped(and) = and /\ Escaped(bar) = bar
  BY <1>1, EscapedOne
<1>7. tail = bar \o and
  <2>1. Joins(bar, and, tail)
    BY <1>5 DEF Joins
  <2> QED
    BY <1>5, <2>1, JoinsUnique
<1>8. or = and \o tail
  <2>1. /\ \A k \in 1 .. Len(and) : or[k] = and[k]
        /\ \A k \in 1 .. Len(tail) : or[Len(and) + k] = tail[k]
    <3>1. \A k \in 1 .. 2 : k = 1 \/ k = 2
      OBVIOUS
    <3> QED
      BY <1>5, <3>1
  <2>2. Joins(and, tail, or)
    BY <1>5, <2>1 DEF Joins
  <2> QED
    BY <1>5, <2>2, JoinsUnique
<1>9. Escaped(tail) = tail
  <2>1. Escaped(bar \o and) = Escaped(bar) \o Escaped(and)
    <3>1. bar[Len(bar)] # "\\"
      BY <1>5
    <3> QED
      BY <1>5, <3>1, EscapedConcat
  <2> QED
    BY <1>6, <1>7, <2>1
<1>10. Escaped(or) = or
  <2>1. Escaped(and \o tail) = Escaped(and) \o Escaped(tail)
    <3>1. and[Len(and)] # "\\"
      BY <1>4, <1>5
    <3> QED
      BY <1>5, <3>1, EscapedConcat
  <2> QED
    BY <1>6, <1>8, <1>9, <2>1
<1>11. or # <<>> /\ and # <<>>
  BY <1>5, Elements, SMTT(40)
<1>12. or[Len(or)] # "\\" /\ and[Len(and)] # "\\"
  BY <1>4, <1>5
<1>13. Separator(or) /\ Separator(and)
  BY <1>5, <1>6, <1>10, <1>11, <1>12 DEF Separator
<1> QED
  BY <1>3, <1>4, <1>5, <1>13

\* A string stands in another one behind p.
Word(string, p, token) ==
  /\ p \in Nat /\ p + Len(token) <= Len(string)
  /\ \A x \in 1 .. Len(token) : string[p + x] = token[x]

\* What stands in a string stands where that one stands.
LEMMA WordIn ==
  ASSUME NEW whole, NEW line, NEW token, IsSequence(token), IsSequence(line), NEW p, NEW q,
         Len(whole) \in Nat, Word(whole, p, line), Word(line, q, token)
  PROVE  Word(whole, p + q, token)
<1>1. PICK m, n, o \in Nat : m = Len(whole) /\ n = Len(line) /\ o = Len(token)
  BY Elements
<1>2. /\ p \in Nat /\ p + n <= m /\ \A x \in 1 .. n : whole[p + x] = line[x]
      /\ q \in Nat /\ q + o <= n /\ \A x \in 1 .. o : line[q + x] = token[x]
  BY <1>1 DEF Word
<1>3. \A x \in 1 .. o : q + x \in 1 .. n /\ p + (q + x) = (p + q) + x
  BY <1>2
<1>4. \A x \in 1 .. o : whole[(p + q) + x] = token[x]
  BY <1>2, <1>3
<1>5. p + q \in Nat /\ (p + q) + o <= m
  BY <1>2
<1> QED
  BY <1>1, <1>4, <1>5 DEF Word

\* Where joined strings stand, and what is between them
LEMMA LiesThere ==
  ASSUME NEW n \in Nat, n # 0, NEW strings, n = Len(strings), \A k \in 1 .. n : IsSequence(strings[k]),
         NEW between, IsSequence(between), NEW off, NEW string, Lies(strings, between, off, string)
  PROVE  /\ IsSequence(string) /\ off[1] = 0 /\ Len(string) = off[n] + Len(strings[n])
         /\ \A k \in 1 .. n : Word(string, off[k], strings[k])
         /\ \A k \in 1 .. n - 1 :
              /\ off[k + 1] = off[k] + Len(strings[k]) + Len(between)
              /\ Word(string, off[k] + Len(strings[k]), between)
<1>1. /\ off[1] = 0 /\ IsSequence(string) /\ Len(string) = off[n] + Len(strings[n])
      /\ \A l \in 1 .. n : /\ off[l] \in Nat /\ off[l] + Len(strings[l]) <= Len(string)
                           /\ \A x \in 1 .. Len(strings[l]) : string[off[l] + x] = strings[l][x]
      /\ \A l \in 1 .. n - 1 :
           /\ off[l + 1] = off[l] + Len(strings[l]) + Len(between)
           /\ \A x \in 1 .. Len(between) : string[off[l] + Len(strings[l]) + x] = between[x]
  BY DEF Lies, LiesUpTo
<1>2. \A k \in 1 .. n : Word(string, off[k], strings[k])
  BY <1>1 DEF Word
<1>3. \A k \in 1 .. n : Len(strings[k]) \in Nat
  <2> TAKE k \in 1 .. n
  <2>1. PICK s : s = strings[k]
    OBVIOUS
  <2>2. Len(s) \in Nat
    BY <2>1, Elements
  <2> QED
    BY <2>1, <2>2
<1>4. ASSUME NEW k \in 1 .. n - 1 PROVE Word(string, off[k] + Len(strings[k]), between)
  <2>1. k \in 1 .. n /\ k + 1 \in 1 .. n
    OBVIOUS
  <2>2. PICK p : p = off[k] + Len(strings[k])
    OBVIOUS
  <2>3. PICK m : m = Len(strings[k + 1])
    OBVIOUS
  <2>4. m \in Nat /\ off[k] \in Nat /\ Len(strings[k]) \in Nat
    BY <1>1, <1>3, <2>1, <2>3
  <2>5. off[k + 1] + m <= Len(string) /\ off[k + 1] = p + Len(between)
    BY <1>1, <2>1, <2>2, <2>3
  <2>6. p \in Nat
    BY <2>2, <2>4
  <2>7. PICK a, b \in Nat : a = Len(between) /\ b = Len(string)
    BY <1>1, Elements
  <2>8. (p + a) + m <= b
    BY <2>5, <2>7
  <2>9. p + a <= b
    BY <2>4, <2>6, <2>8
  <2>10. \A x \in 1 .. a : string[p + x] = between[x]
    BY <1>1, <2>2, <2>7
  <2>11. Word(string, p, between)
    BY <2>6, <2>7, <2>9, <2>10 DEF Word
  <2> QED
    BY <2>2, <2>11
<1> QED
  BY <1>1, <1>2, <1>4

\* The tokens of a set, and what they become when they are joined
TokensOf(terms) == [l \in DOMAIN terms |-> Tok(terms[l])]
Line(terms) == Joined(TokensOf(terms), Or)

\* There is a token for each term.
LEMMA TokensOfSet ==
  ASSUME NEW terms, ClearSet(terms)
  PROVE  /\ IsSequence(TokensOf(terms)) /\ Len(TokensOf(terms)) = Len(terms)
         /\ Len(terms) \in Nat /\ Len(terms) # 0 /\ DOMAIN terms = 1 .. Len(terms)
         /\ \A l \in 1 .. Len(terms) :
              TokensOf(terms)[l] = Tok(terms[l]) /\ IsSequence(TokensOf(terms)[l])
<1>1. IsSequence(terms) /\ terms # <<>> /\ \A l \in DOMAIN terms : ClearTerm(terms[l])
  BY DEF ClearSet
<1>2. PICK n \in Nat : n = Len(terms) /\ n # 0 /\ DOMAIN terms = 1 .. n
  BY <1>1, Elements
<1>3. PICK tokens : tokens = TokensOf(terms)
  OBVIOUS
<1>4. tokens = [l \in 1 .. n |-> tokens[l]] /\ \A l \in 1 .. n : tokens[l] = Tok(terms[l])
  BY <1>2, <1>3 DEF TokensOf
<1>5. IsSequence(tokens) /\ Len(tokens) = n
  BY <1>4, FunctionSequence
<1>6. ASSUME NEW l \in 1 .. n PROVE IsSequence(tokens[l])
  <2>1. PICK term : term = terms[l]
    OBVIOUS
  <2>2. ClearTerm(term)
    BY <1>1, <1>2, <2>1
  <2>3. IsSequence(Tok(term))
    BY <2>2, RenderedTerm DEF NoBlank
  <2> QED
    BY <1>4, <2>1, <2>3
<1> QED
  BY <1>2, <1>3, <1>4, <1>5, <1>6

\* A set as it is written becomes its line.
LEMMA RenderedSet ==
  ASSUME NEW terms, ClearSet(terms)
  PROVE  Ready(Joined([l \in DOMAIN terms |-> RenderTerm(terms[l])], Or), Line(terms))
<1>1. IsSequence(terms) /\ terms # <<>> /\ \A l \in DOMAIN terms : ClearTerm(terms[l])
  BY DEF ClearSet
<1>2. PICK n \in Nat : n = Len(terms) /\ n # 0 /\ DOMAIN terms = 1 .. n
  BY <1>1, Elements
<1>3. PICK tokens : tokens = TokensOf(terms)
  OBVIOUS
<1>4. IsSequence(tokens) /\ Len(tokens) = n /\ \A l \in 1 .. n : tokens[l] = Tok(terms[l])
  BY <1>2, <1>3, TokensOfSet
<1>5. PICK strings : strings = [l \in DOMAIN terms |-> RenderTerm(terms[l])]
  OBVIOUS
<1>6. strings = [l \in 1 .. n |-> strings[l]] /\ \A l \in 1 .. n : strings[l] = RenderTerm(terms[l])
  BY <1>2, <1>5
<1>7. IsSequence(strings) /\ Len(strings) = n
  BY <1>6, FunctionSequence
<1>8. ASSUME NEW l \in 1 .. n PROVE Ready(strings[l], tokens[l])
  <2>1. PICK term : term = terms[l]
    OBVIOUS
  <2>2. ClearTerm(term)
    BY <1>1, <1>2, <2>1
  <2>3. Ready(RenderTerm(term), Tok(term))
    BY <2>2, RenderedTerm DEF Ready, NoBlank
  <2> QED
    BY <1>4, <1>6, <2>1, <2>3
<1>9. Separator(Or)
  BY Separators
<1>10. Ready(Joined(strings, Or), Joined(tokens, Or))
  BY <1>2, <1>4, <1>7, <1>8, <1>9, ReadyJoined
<1> QED
  BY <1>3, <1>5, <1>10 DEF Line

\* The lines the sets of a query become
Lines(meaning) == [k \in DOMAIN meaning |-> Line(meaning[k])]

\* There is a line for each set.
LEMMA LinesAre ==
  ASSUME NEW meaning, ClearMeaning(meaning), NEW n \in Nat, n = Len(meaning)
  PROVE  /\ IsSequence(Lines(meaning)) /\ Len(Lines(meaning)) = n /\ DOMAIN meaning = 1 .. n
         /\ \A k \in 1 .. n : /\ ClearSet(meaning[k]) /\ Lines(meaning)[k] = Line(meaning[k])
                              /\ IsSequence(Lines(meaning)[k])
<1>1. IsSequence(meaning) /\ \A k \in DOMAIN meaning : ClearSet(meaning[k])
  BY DEF ClearMeaning
<1>2. DOMAIN meaning = 1 .. n
  BY <1>1, Elements
<1>3. PICK lines : lines = Lines(meaning)
  OBVIOUS
<1>4. lines = [k \in 1 .. n |-> lines[k]] /\ \A k \in 1 .. n : lines[k] = Line(meaning[k])
  BY <1>2, <1>3 DEF Lines
<1>5. IsSequence(lines) /\ Len(lines) = n
  BY <1>4, FunctionSequence
<1>6. ASSUME NEW k \in 1 .. n PROVE IsSequence(lines[k])
  <2>1. PICK terms : terms = meaning[k]
    OBVIOUS
  <2>2. ClearSet(terms)
    BY <1>1, <1>2, <2>1
  <2>3. IsSequence(Line(terms))
    BY <2>2, RenderedSet DEF Ready
  <2> QED
    BY <1>4, <2>1, <2>3
<1> QED
  BY <1>1, <1>2, <1>3, <1>4, <1>5, <1>6

\* The query becomes its lines.
LEMMA RenderedWhole ==
  ASSUME NEW meaning, ClearMeaning(meaning), meaning # <<>>
  PROVE  Escaped(Render(meaning)) = Joined(Lines(meaning), And)
<1>1. IsSequence(meaning) /\ \A k \in DOMAIN meaning : ClearSet(meaning[k])
  BY DEF ClearMeaning
<1>2. PICK n \in Nat : n = Len(meaning) /\ n # 0 /\ DOMAIN meaning = 1 .. n
  BY <1>1, Elements
<1>3. PICK lines : lines = Lines(meaning)
  OBVIOUS
<1>4. IsSequence(lines) /\ Len(lines) = n /\ \A k \in 1 .. n : lines[k] = Line(meaning[k])
  BY <1>2, <1>3, LinesAre
<1> DEFINE Text(terms) == Joined([l \in DOMAIN terms |-> RenderTerm(terms[l])], Or)
<1>5. PICK strings : strings = [k \in DOMAIN meaning |-> Text(meaning[k])]
  OBVIOUS
<1>6. Render(meaning) = Joined(strings, And)
  BY Zenon, <1>5 DEF Render, Or, And
<1>7. \A terms : ClearSet(terms) => Ready(Text(terms), Line(terms))
  BY RenderedSet
<1> HIDE DEF Text
<1>8. strings = [k \in 1 .. n |-> strings[k]] /\ \A k \in 1 .. n : strings[k] = Text(meaning[k])
  BY <1>2, <1>5
<1>9. IsSequence(strings) /\ Len(strings) = n
  BY <1>8, FunctionSequence
<1>10. ASSUME NEW k \in 1 .. n PROVE Ready(strings[k], lines[k])
  <2>1. PICK terms : terms = meaning[k]
    OBVIOUS
  <2>2. ClearSet(terms)
    BY <1>1, <1>2, <2>1
  <2> QED
    BY <1>4, <1>7, <1>8, <2>1, <2>2
<1>11. Separator(And)
  BY Separators
<1>12. Ready(Joined(strings, And), Joined(lines, And))
  BY <1>2, <1>4, <1>9, <1>10, <1>11, ReadyJoined
<1> QED
  BY <1>3, <1>6, <1>12 DEF Ready

\* What is behind a token that ends at e: a bar, or a blank, before the next one
BarBehind(string, e, p) ==
  /\ e + 3 <= Len(string) /\ p = e + 3
  /\ IsSpace(string[e + 1]) /\ string[e + 2] = "|" /\ IsSpace(string[e + 3])
BlankBehind(string, e, p) == e + 1 <= Len(string) /\ p = e + 1 /\ IsSpace(string[e + 1])

\* The tokens stand where at says.
EndOf(terms, places, l) == places[l] + Len(Tok(terms[l]))
Words(meaning, at, string) ==
  /\ IsSequence(string)
  /\ at[1][1] = 0
  /\ \A k \in DOMAIN meaning : \A l \in DOMAIN meaning[k] :
       /\ Word(string, at[k][l], Tok(meaning[k][l]))
       /\ l < Len(meaning[k]) => BarBehind(string, EndOf(meaning[k], at[k], l), at[k][l + 1])
       /\ l = Len(meaning[k]) /\ k < Len(meaning) =>
            BlankBehind(string, EndOf(meaning[k], at[k], l), at[k + 1][1])
       /\ l = Len(meaning[k]) /\ k = Len(meaning) => EndOf(meaning[k], at[k], l) = Len(string)

\* A separator that stands in a string
LEMMA SeparatorsThere ==
  ASSUME NEW string, NEW e
  PROVE  /\ Word(string, e, Or) => BarBehind(string, e, e + 3)
         /\ Word(string, e, And) => BlankBehind(string, e, e + 1)
<1>1. /\ Len(Or) = 3 /\ IsSpace(Or[1]) /\ Or[2] = "|" /\ IsSpace(Or[3])
      /\ Len(And) = 1 /\ IsSpace(And[1])
  BY Separators
<1>2. 1 \in 1 .. 3 /\ 2 \in 1 .. 3 /\ 3 \in 1 .. 3 /\ 1 \in 1 .. 1
  OBVIOUS
<1>3. ASSUME Word(string, e, Or) PROVE BarBehind(string, e, e + 3)
  <2>1. e + 3 <= Len(string) /\ \A x \in 1 .. 3 : string[e + x] = Or[x]
    BY <1>1, <1>3 DEF Word
  <2>2. string[e + 1] = Or[1] /\ string[e + 2] = Or[2] /\ string[e + 3] = Or[3]
    BY <1>2, <2>1
  <2> QED
    BY <1>1, <2>1, <2>2 DEF BarBehind
<1>4. ASSUME Word(string, e, And) PROVE BlankBehind(string, e, e + 1)
  <2>1. e + 1 <= Len(string) /\ \A x \in 1 .. 1 : string[e + x] = And[x]
    BY <1>1, <1>4 DEF Word
  <2>2. string[e + 1] = And[1]
    BY <1>2, <2>1
  <2> QED
    BY <1>1, <2>1, <2>2 DEF BlankBehind
<1> QED
  BY <1>3, <1>4

\* Where the tokens of a set stand in its line
Places(terms) == CHOOSE places : Lies(TokensOf(terms), Or, places, Line(terms))

\* The tokens stand there, with bars between them.
LEMMA PlacesAre ==
  ASSUME NEW terms, ClearSet(terms), NEW n \in Nat, n = Len(terms), NEW places, places = Places(terms)
  PROVE  /\ n # 0 /\ IsSequence(Line(terms)) /\ places[1] = 0 /\ Len(Line(terms)) = EndOf(terms, places, n)
         /\ \A l \in 1 .. n : Word(Line(terms), places[l], Tok(terms[l])) /\ IsSequence(Tok(terms[l]))
         /\ \A l \in 1 .. n - 1 : /\ places[l + 1] = EndOf(terms, places, l) + 3
                                  /\ Word(Line(terms), EndOf(terms, places, l), Or)
<1>1. PICK tokens, line : tokens = TokensOf(terms) /\ line = Line(terms)
  OBVIOUS
<1>2. /\ IsSequence(tokens) /\ Len(tokens) = n /\ n # 0
      /\ \A l \in 1 .. n : tokens[l] = Tok(terms[l]) /\ IsSequence(tokens[l])
  BY <1>1, TokensOfSet
<1>3. IsSequence(Or) /\ Len(Or) = 3
  BY Separators DEF Separator
<1>4. Lies(tokens, Or, places, line)
  <2>1. \E off : Lies(tokens, Or, off, Joined(tokens, Or))
    BY <1>2, <1>3, LiesJoined
  <2> QED
    BY <1>1, <2>1 DEF Line, Places
<1>5. /\ IsSequence(line) /\ places[1] = 0 /\ Len(line) = places[n] + Len(tokens[n])
      /\ \A l \in 1 .. n : Word(line, places[l], tokens[l])
      /\ \A l \in 1 .. n - 1 :
           /\ places[l + 1] = places[l] + Len(tokens[l]) + Len(Or)
           /\ Word(line, places[l] + Len(tokens[l]), Or)
  <2>1. IsSequence(Or) /\ n = Len(tokens) /\ \A l \in 1 .. n : IsSequence(tokens[l])
    BY <1>2, <1>3
  <2> QED
    BY <1>2, <1>4, <2>1, LiesThere
<1>6. \A l \in 1 .. n : EndOf(terms, places, l) = places[l] + Len(tokens[l])
  BY <1>2 DEF EndOf
<1>7. n \in 1 .. n /\ \A l \in 1 .. n - 1 : l \in 1 .. n
  BY <1>2
<1> QED
  BY <1>1, <1>2, <1>3, <1>5, <1>6, <1>7

\* A query that is written clearly has its tokens somewhere.
LEMMA WordsStand ==
  ASSUME NEW meaning, ClearMeaning(meaning), meaning # <<>>
  PROVE  \E at : Words(meaning, at, Joined(Lines(meaning), And))
<1>1. PICK n \in Nat : n = Len(meaning) /\ n # 0 /\ DOMAIN meaning = 1 .. n
  BY Elements DEF ClearMeaning
<1>2. PICK lines, string : lines = Lines(meaning) /\ string = Joined(lines, And)
  OBVIOUS
<1>3. /\ IsSequence(lines) /\ Len(lines) = n
      /\ \A k \in 1 .. n : ClearSet(meaning[k]) /\ lines[k] = Line(meaning[k]) /\ IsSequence(lines[k])
  BY <1>1, <1>2, LinesAre
<1>4. IsSequence(And) /\ Len(And) = 1
  BY Separators DEF Separator
<1>5. PICK off : Lies(lines, And, off, string)
  BY <1>1, <1>2, <1>3, <1>4, LiesJoined
<1>6. /\ IsSequence(string) /\ off[1] = 0 /\ Len(string) = off[n] + Len(lines[n])
      /\ \A k \in 1 .. n : Word(string, off[k], lines[k])
      /\ \A k \in 1 .. n - 1 :
           /\ off[k + 1] = off[k] + Len(lines[k]) + Len(And)
           /\ Word(string, off[k] + Len(lines[k]), And)
  <2>1. n = Len(lines) /\ \A k \in 1 .. n : IsSequence(lines[k])
    BY <1>3
  <2> QED
    BY <1>1, <1>4, <1>5, <2>1, LiesThere
<1>7. PICK at : at = [k \in 1 .. n |-> [l \in DOMAIN meaning[k] |-> off[k] + Places(meaning[k])[l]]]
  OBVIOUS
<1>8. Len(string) \in Nat
  BY <1>6, Elements
<1>9. ASSUME NEW k \in 1 .. n, NEW terms, terms = meaning[k], NEW l \in DOMAIN terms
      PROVE  /\ Word(string, at[k][l], Tok(terms[l]))
             /\ l < Len(terms) => BarBehind(string, EndOf(terms, at[k], l), at[k][l + 1])
             /\ l = Len(terms) => EndOf(terms, at[k], l) = off[k] + Len(lines[k])
  <2>1. PICK places, line : places = Places(terms) /\ line = lines[k]
    OBVIOUS
  <2>2. ClearSet(terms) /\ line = Line(terms) /\ IsSequence(line)
    BY <1>3, <1>9, <2>1
  <2>3. PICK m \in Nat : m = Len(terms) /\ DOMAIN terms = 1 .. m
    BY <2>2, TokensOfSet
  <2>4. /\ m # 0 /\ places[1] = 0 /\ Len(line) = EndOf(terms, places, m)
        /\ \A h \in 1 .. m : Word(line, places[h], Tok(terms[h])) /\ IsSequence(Tok(terms[h]))
        /\ \A h \in 1 .. m - 1 : /\ places[h + 1] = EndOf(terms, places, h) + 3
                                 /\ Word(line, EndOf(terms, places, h), Or)
    <3>1. /\ m # 0 /\ places[1] = 0 /\ Len(Line(terms)) = EndOf(terms, places, m)
          /\ \A h \in 1 .. m : Word(Line(terms), places[h], Tok(terms[h])) /\ IsSequence(Tok(terms[h]))
          /\ \A h \in 1 .. m - 1 : /\ places[h + 1] = EndOf(terms, places, h) + 3
                                   /\ Word(Line(terms), EndOf(terms, places, h), Or)
      <4>1. ClearSet(terms) /\ m \in Nat /\ m = Len(terms) /\ places = Places(terms)
        BY <2>1, <2>2, <2>3
      <4> QED
        BY <4>1, PlacesAre
    <3> QED
      BY <2>2, <3>1
  <2>5. \A h \in 1 .. m : at[k][h] = off[k] + places[h]
    BY <1>7, <1>9, <2>1, <2>3
  <2>6. Word(string, off[k], line)
    BY <1>6, <2>1
  <2>7. PICK p, q, token : p = off[k] /\ q = places[l] /\ token = Tok(terms[l])
    OBVIOUS
  <2>8. /\ l \in 1 .. m /\ IsSequence(token) /\ Word(line, q, token) /\ Word(string, p, line)
        /\ at[k][l] = p + q
    BY <2>3, <2>4, <2>5, <2>6, <2>7
  <2>9. Word(string, p + q, token)
    BY <1>8, <2>2, <2>8, WordIn
  <2>10. p \in Nat /\ q \in Nat /\ Len(token) \in Nat
    BY <2>8, Elements DEF Word
  <2>11. PICK e \in Nat : e = q + Len(token)
    BY <2>10
  <2>12. EndOf(terms, places, l) = e /\ EndOf(terms, at[k], l) = p + e
    <3>1. (p + q) + Len(token) = p + e
      BY <2>10, <2>11
    <3> QED
      BY <2>7, <2>8, <2>11, <3>1 DEF EndOf
  <2>13. ASSUME l < m PROVE BarBehind(string, EndOf(terms, at[k], l), at[k][l + 1])
    <3>1. l \in 1 .. m - 1 /\ l + 1 \in 1 .. m
      BY <2>8, <2>13
    <3>2. places[l + 1] = e + 3 /\ Word(line, e, Or)
      BY <2>4, <2>12, <3>1
    <3>3. Word(string, p + e, Or)
      BY <1>8, <2>2, <2>8, <3>2, WordIn, Separators DEF Separator
    <3>4. BarBehind(string, p + e, (p + e) + 3)
      BY <3>3, SeparatorsThere
    <3>5. at[k][l + 1] = (p + e) + 3
      <4>1. at[k][l + 1] = p + (e + 3)
        BY <2>5, <2>7, <3>1, <3>2
      <4> QED
        BY <2>10, <2>11, <4>1
    <3> QED
      BY <2>12, <3>4, <3>5
  <2>14. ASSUME l = m PROVE EndOf(terms, at[k], l) = off[k] + Len(lines[k])
    BY <2>1, <2>4, <2>7, <2>12, <2>14
  <2> QED
    BY <2>3, <2>7, <2>8, <2>9, <2>13, <2>14
<1>10. ASSUME NEW k \in 1 .. n - 1
       PROVE  BlankBehind(string, off[k] + Len(lines[k]), at[k + 1][1])
  <2>1. k + 1 \in 1 .. n
    OBVIOUS
  <2>2. PICK terms : terms = meaning[k + 1]
    OBVIOUS
  <2>3. ClearSet(terms)
    BY <1>3, <2>1, <2>2
  <2>4. PICK m \in Nat : m = Len(terms) /\ m # 0 /\ DOMAIN terms = 1 .. m
    BY <2>3, TokensOfSet
  <2>5. PICK places : places = Places(terms)
    OBVIOUS
  <2>6. places[1] = 0
    BY <2>3, <2>4, <2>5, PlacesAre
  <2>7. 1 \in DOMAIN terms
    BY <2>4
  <2>8. at[k + 1][1] = off[k + 1] + places[1]
    BY <1>7, <2>1, <2>2, <2>5, <2>7
  <2>9. off[k + 1] \in Nat /\ at[k + 1][1] = off[k + 1]
    <3>1. off[k + 1] \in Nat
      BY <1>6, <2>1 DEF Word
    <3> QED
      BY <2>6, <2>8, <3>1
  <2>10. PICK e : e = off[k] + Len(lines[k])
    OBVIOUS
  <2>11. off[k + 1] = e + 1 /\ Word(string, e, And)
    BY <1>4, <1>6, <2>10
  <2> QED
    BY <2>9, <2>10, <2>11, SeparatorsThere
<1>11. at[1][1] = 0
  <2>1. 1 \in 1 .. n
    BY <1>1
  <2>2. PICK terms, places : terms = meaning[1] /\ places = Places(terms)
    OBVIOUS
  <2>3. ClearSet(terms)
    BY <1>3, <2>1, <2>2
  <2>4. PICK m \in Nat : m = Len(terms) /\ m # 0 /\ DOMAIN terms = 1 .. m
    BY <2>3, TokensOfSet
  <2>5. places[1] = 0 /\ 1 \in DOMAIN terms
    BY <2>2, <2>3, <2>4, PlacesAre
  <2>6. at[1][1] = off[1] + places[1]
    BY <1>7, <2>1, <2>2, <2>5
  <2> QED
    BY <1>6, <2>5, <2>6
<1>12. ASSUME NEW k \in DOMAIN meaning, NEW l \in DOMAIN meaning[k]
       PROVE  /\ Word(string, at[k][l], Tok(meaning[k][l]))
              /\ l < Len(meaning[k]) => BarBehind(string, EndOf(meaning[k], at[k], l), at[k][l + 1])
              /\ l = Len(meaning[k]) /\ k < Len(meaning) =>
                   BlankBehind(string, EndOf(meaning[k], at[k], l), at[k + 1][1])
              /\ l = Len(meaning[k]) /\ k = Len(meaning) => EndOf(meaning[k], at[k], l) = Len(string)
  <2>1. k \in 1 .. n
    BY <1>1
  <2>2. PICK terms : terms = meaning[k]
    OBVIOUS
  <2>3. /\ Word(string, at[k][l], Tok(terms[l]))
        /\ l < Len(terms) => BarBehind(string, EndOf(terms, at[k], l), at[k][l + 1])
        /\ l = Len(terms) => EndOf(terms, at[k], l) = off[k] + Len(lines[k])
    BY <1>9, <1>12, <2>1, <2>2
  <2>4. ASSUME l = Len(terms), k < n PROVE BlankBehind(string, EndOf(terms, at[k], l), at[k + 1][1])
    <3>1. k \in 1 .. n - 1
      BY <2>1, <2>4
    <3>2. BlankBehind(string, off[k] + Len(lines[k]), at[k + 1][1])
      BY <1>10, <3>1
    <3> QED
      BY <2>3, <2>4, <3>2
  <2>5. ASSUME l = Len(terms), k = n PROVE EndOf(terms, at[k], l) = Len(string)
    BY <1>6, <2>3, <2>5
  <2> QED
    BY <1>1, <2>2, <2>3, <2>4, <2>5
<1>13. Words(meaning, at, string)
  BY <1>6, <1>11, <1>12 DEF Words
<1> QED
  BY <1>2, <1>13

-----------------------------------------------------------------------------
(* The term that is read.                                                  *)

\* Case counts for a body.
SensitiveTo(mode, body) == mode = "respect" \/ (mode = "smart" /\ body # LowerText(body))

\* A term is what was meant.
Meant(mode, term, meant) ==
  /\ term.kind = meant.kind /\ term.inv = meant.inv
  /\ term.sensitive = SensitiveTo(mode, meant.body)
  /\ term.body = IF term.sensitive THEN meant.body ELSE LowerText(meant.body)

\* ReadTerm looks at the token without its tabs.
LEMMA ReadTermIs ==
  ASSUME NEW token, NEW plain, plain = Plain(token)
  PROVE  ReadTerm(token) = TermOf(IF SensitiveTo(case_mode, plain) THEN plain ELSE LowerText(plain),
                                  SensitiveTo(case_mode, plain))
BY Zenon DEF ReadTerm, Plain, Space, SensitiveTo

\* A body in lower case, with its marks, is not taken for anything else either.
LEMMA LowerClear ==
  ASSUME NEW term, ClearTerm(term), NEW low, low = LowerText(term.body)
  PROVE  /\ IsSequence(low) /\ low # <<>> /\ Len(low) = Len(term.body)
         /\ low[1] \notin {"!", "'", "^"} /\ low[Len(low)] # "$"
<1>1. PICK body : body = term.body
  OBVIOUS
<1>2. /\ IsSequence(body) /\ body # <<>> /\ body[1] \notin {"!", "'", "^"} /\ body[Len(body)] # "$"
  BY <1>1 DEF ClearTerm
<1>3. PICK n \in Nat : n = Len(body) /\ n # 0
  BY <1>2, Elements
<1>4. /\ IsSequence(low) /\ Len(low) = n
      /\ \A k \in 1 .. n : low[k] = Fold(FALSE, body[k])
  BY <1>1, <1>2, <1>3, LowerIs
<1>5. low # <<>>
  BY <1>3, <1>4, Elements
<1>6. ASSUME NEW c, NEW d, d \in {"!", "'", "^", "$"}, Fold(FALSE, c) = d PROVE c = d
  <2>1. CASE c \in DOMAIN LowerOf
    <3>1. Fold(FALSE, c) \in Range(LowerOf)
      BY <2>1 DEF Fold, Range
    <3> QED
      BY <1>6, <3>1, MarksAssumption
  <2>2. CASE c \notin DOMAIN LowerOf
    BY <1>6, <2>2 DEF Fold
  <2> QED
    BY <2>1, <2>2
<1>7. low[1] = Fold(FALSE, body[1]) /\ low[n] = Fold(FALSE, body[n])
  <2>1. 1 \in 1 .. n /\ n \in 1 .. n
    BY <1>3
  <2> QED
    BY <1>4, <2>1
<1>8. low[1] \notin {"!", "'", "^"}
  BY <1>2, <1>6, <1>7
<1>9. low[n] # "$"
  BY <1>2, <1>3, <1>6, <1>7
<1> QED
  BY <1>1, <1>3, <1>4, <1>5, <1>8, <1>9

\* A token is read as the term that was written.
LEMMA TokenMeant ==
  ASSUME NEW term, ClearTerm(term), NEW r, r = ReadTerm(Tok(term))
  PROVE  Meant(case_mode, r, term) /\ r.body # <<>>
<1>1. PICK body, low : body = term.body /\ low = LowerText(term.body)
  OBVIOUS
<1>2. /\ IsSequence(body) /\ body # <<>> /\ body[1] \notin {"!", "'", "^"} /\ body[Len(body)] # "$"
      /\ term.kind \in {"fuzzy", "exact", "prefix", "suffix", "equal"} /\ term.inv \in BOOLEAN
      /\ term.kind = "fuzzy" => fuzzy /\ ~term.inv
  BY <1>1 DEF ClearTerm
<1>3. /\ IsSequence(low) /\ low # <<>> /\ Len(low) = Len(body)
      /\ low[1] \notin {"!", "'", "^"} /\ low[Len(low)] # "$"
  BY <1>1, LowerClear
<1>4. PICK plain : plain = Plain(Tok(term))
  OBVIOUS
<1>5. plain = Around(term, body)
  BY <1>1, <1>4, PlainToken
<1>6. LowerText(plain) = Around(term, low)
  <2>1. LowerText(Around(term, body)) = Around(term, LowerText(body))
    BY <1>2, AroundStays
  <2> QED
    BY <1>1, <1>5, <2>1
<1>7. plain = LowerText(plain) <=> body = LowerText(body)
  <2>1. ASSUME plain = LowerText(plain) PROVE body = low
    BY <1>2, <1>3, <1>5, <1>6, <2>1, AroundTold
  <2>2. ASSUME body = low PROVE plain = LowerText(plain)
    BY <1>5, <1>6, <2>2
  <2> QED
    BY <1>1, <2>1, <2>2
<1>8. SensitiveTo(case_mode, plain) <=> SensitiveTo(case_mode, body)
  BY <1>7 DEF SensitiveTo
<1>9. /\ SensitiveTo(case_mode, plain) \in BOOLEAN /\ SensitiveTo(case_mode, body) \in BOOLEAN
  BY Zenon DEF SensitiveTo
<1>10. SensitiveTo(case_mode, plain) = SensitiveTo(case_mode, body)
  <2>1. CASE SensitiveTo(case_mode, body)
    <3>1. SensitiveTo(case_mode, plain) = TRUE /\ SensitiveTo(case_mode, body) = TRUE
      BY Zenon, <1>8, <1>9, <2>1
    <3> QED
      BY Zenon, <3>1
  <2>2. CASE ~SensitiveTo(case_mode, body)
    <3>1. SensitiveTo(case_mode, plain) = FALSE /\ SensitiveTo(case_mode, body) = FALSE
      BY Zenon, <1>8, <1>9, <2>2
    <3> QED
      BY Zenon, <3>1
  <2> QED
    BY Zenon, <2>1, <2>2
<1>11. PICK sensitive : sensitive = SensitiveTo(case_mode, body)
  OBVIOUS
<1>12. r = TermOf(IF SensitiveTo(case_mode, body) THEN plain ELSE LowerText(plain), sensitive)
  <2>1. r = TermOf(IF SensitiveTo(case_mode, plain) THEN plain ELSE LowerText(plain),
                   SensitiveTo(case_mode, plain))
    BY Zenon, <1>4, ReadTermIs
  <2> QED
    BY Zenon, <1>10, <1>11, <2>1
<1>13. CASE SensitiveTo(case_mode, body)
  <2>1. r = TermOf(Around(term, body), sensitive)
    BY Zenon, <1>5, <1>12, <1>13
  <2>2. r = [kind |-> term.kind, inv |-> term.inv, sensitive |-> sensitive, body |-> body]
    BY <1>2, <2>1, AroundRead
  <2>3. r.kind = term.kind /\ r.inv = term.inv /\ r.sensitive = sensitive /\ r.body = body
    BY <2>2
  <2>4. sensitive = TRUE
    BY Zenon, <1>9, <1>11, <1>13
  <2> QED
    BY Zenon, <1>1, <1>2, <1>11, <2>3, <2>4 DEF Meant
<1>14. CASE ~SensitiveTo(case_mode, body)
  <2>1. r = TermOf(Around(term, low), sensitive)
    BY Zenon, <1>6, <1>12, <1>14
  <2>2. r = [kind |-> term.kind, inv |-> term.inv, sensitive |-> sensitive, body |-> low]
    BY <1>2, <1>3, <2>1, AroundRead
  <2>3. r.kind = term.kind /\ r.inv = term.inv /\ r.sensitive = sensitive /\ r.body = low
    BY <2>2
  <2>4. sensitive = FALSE
    BY Zenon, <1>9, <1>11, <1>14
  <2> QED
    BY Zenon, <1>1, <1>3, <1>11, <2>3, <2>4 DEF Meant
<1> QED
  BY <1>13, <1>14

\* Behind blanks, strtok finds the token that stands there.
LEMMA TokenThere ==
  ASSUME NEW string, IsSequence(string), NEW p \in 0 .. Len(string), p = 0 \/ EndsAt(string, p),
         NEW left, IsLeft(string, p, left),
         NEW token, NoBlank(token), token # <<>>, NEW q, q >= p, Word(string, q, token),
         \A k \in p + 1 .. q : IsSpace(string[k]), EndsAt(string, q + Len(token))
  PROVE  ~Blank(left) /\ Token(left) = token /\ IsLeft(string, q + Len(token), Behind(left))
<1>1. PICK n, m \in Nat : n = Len(string) /\ m = Len(token) /\ m # 0 /\ DOMAIN string = 1 .. n
  BY Elements DEF NoBlank
<1>2. /\ q \in Nat /\ q + m <= n /\ \A x \in 1 .. m : string[q + x] = token[x]
      /\ p \in Nat /\ p <= q
  BY <1>1 DEF Word
<1>3. PICK x, y \in Nat : x = q + 1 /\ y = q + m
  BY <1>2
<1>4. p < x /\ x <= y /\ y <= n
  BY <1>1, <1>2, <1>3
<1>5. ASSUME NEW k \in x .. y PROVE ~IsSpace(string[k])
  <2>1. PICK l \in Int : l = k - q
    BY <1>2
  <2>2. l \in 1 .. m /\ k = q + l
    BY <1>2, <1>3, <2>1
  <2>3. string[k] = token[l]
    BY <1>2, <2>2
  <2> QED
    BY <1>1, <2>2, <2>3 DEF NoBlank
<1>6. \A k \in p + 1 .. x - 1 : IsSpace(string[k])
  BY <1>2, <1>3
<1>7. x \in Begins(string)
  <2>1. x \in 1 .. n /\ ~IsSpace(string[x])
    BY <1>3, <1>4, <1>5
  <2>2. ASSUME x > 1 PROVE IsSpace(string[x - 1])
    <3>1. CASE x - 1 \in p + 1 .. x - 1
      BY <1>6, <3>1
    <3>2. CASE x - 1 \notin p + 1 .. x - 1
      <4>1. x - 1 = p /\ p + 1 = x /\ p # 0 /\ p < n
        BY <1>2, <1>3, <1>4, <2>2, <3>2
      <4>2. IsSpace(string[x])
        BY <1>1, <4>1 DEF EndsAt
      <4> QED
        BY <2>1, <4>2
    <3> QED
      BY <3>1, <3>2
  <2> QED
    BY <1>1, <2>1, <2>2 DEF Begins
<1>8. ~Blank(left)
  <2>1. ~(x <= p)
    BY <1>2, <1>4
  <2>2. Blank(left) => \A k \in Begins(string) : k <= p
    BY TokenNext
  <2> QED
    BY <1>7, <2>1, <2>2
<1>9. PICK b, e \in p + 1 .. n :
        /\ b <= e /\ EndsAt(string, e)
        /\ Token(left) = SubSeq(string, b, e)
        /\ \A k \in b .. e : ~IsSpace(string[k])
        /\ \A k \in p + 1 .. b - 1 : IsSpace(string[k])
        /\ Behind(left) = SubSeq(string, e + 1, Len(string))
  <2>1. \E b, e \in p + 1 .. Len(string) :
          /\ b <= e /\ b \in Begins(string) /\ EndsAt(string, e)
          /\ Token(left) = TokenFrom(string, b)
          /\ Token(left) = SubSeq(string, b, e)
          /\ \A k \in b .. e : ~IsSpace(string[k])
          /\ \A k \in p + 1 .. b - 1 : IsSpace(string[k])
          /\ Behind(left) = SubSeq(string, e + 1, Len(string))
          /\ \A k \in Begins(string) : k <= e => k <= p \/ k = b
    BY <1>8, TokenNext
  <2> QED
    BY <1>1, <2>1
<1>10. b \in Nat /\ e \in Nat /\ p + 1 <= b /\ b <= e /\ e <= n
  BY <1>2, <1>9
<1>11. b = x
  <2>1. CASE b < x
    <3>1. b \in p + 1 .. x - 1 /\ b \in b .. e
      BY <1>2, <1>3, <1>10, <2>1
    <3> QED
      BY <1>6, <1>9, <3>1
  <2>2. CASE x < b
    <3>1. x \in p + 1 .. b - 1 /\ x \in x .. y
      BY <1>2, <1>3, <1>4, <1>10, <2>2
    <3> QED
      BY <1>5, <1>9, <3>1
  <2> QED
    BY <1>3, <1>10, <2>1, <2>2
<1>12. e = y
  <2>1. CASE e < y
    <3>1. e + 1 \in x .. y /\ e < n
      BY <1>3, <1>4, <1>10, <1>11, <2>1
    <3>2. IsSpace(string[e + 1])
      BY <1>1, <1>9, <3>1 DEF EndsAt
    <3> QED
      BY <1>5, <3>1, <3>2
  <2>2. CASE y < e
    <3>1. y + 1 \in b .. e /\ y < n
      BY <1>3, <1>4, <1>10, <1>11, <2>2
    <3>2. IsSpace(string[y + 1])
      BY <1>1, <1>3, <3>1 DEF EndsAt
    <3> QED
      BY <1>9, <3>1, <3>2
  <2> QED
    BY <1>3, <1>10, <2>1, <2>2
<1>13. PICK part : part = SubSeq(string, x, y)
  OBVIOUS
<1>14. /\ IsSequence(part) /\ Len(part) = m
       /\ \A k \in 1 .. m : part[k] = string[x + k - 1]
  <2>1. /\ IsSequence(part) /\ Len(part) = IF x <= y THEN y - x + 1 ELSE 0
        /\ \A k \in 1 .. Len(part) : part[k] = string[x + k - 1]
    <3>1. x \in Nat /\ y \in Nat /\ x # 0 /\ y <= Len(string)
      BY <1>1, <1>2, <1>3, <1>4
    <3> QED
      BY <1>13, <3>1, Part
  <2>2. Len(part) = m
    BY <1>2, <1>3, <1>4, <2>1
  <2> QED
    BY <2>1, <2>2
<1>15. part = token
  <2>1. ASSUME NEW k \in 1 .. m PROVE part[k] = token[k]
    <3>1. x + k - 1 = q + k
      BY <1>2, <1>3
    <3> QED
      BY <1>2, <1>14, <3>1
  <2> QED
    BY <1>1, <1>14, <2>1, EqualSequences DEF NoBlank
<1>16. IsLeft(string, y, Behind(left))
  BY <1>9, <1>12 DEF IsLeft
<1> QED
  BY <1>1, <1>3, <1>8, <1>9, <1>11, <1>12, <1>13, <1>15, <1>16

-----------------------------------------------------------------------------
(* The reading, token by token.                                            *)

\* No term is taken for a bar.
LEMMA NoTermIsBar ==
  ASSUME NEW term, ClearTerm(term)
  PROVE  Tok(term) # <<"|">>
<1>1. PICK bang, mark, dollar, body, tabbed :
        /\ bang = Bang(term) /\ mark = Mark(term) /\ dollar = Dollar(term)
        /\ body = term.body /\ tabbed = Tabbed(term.body)
  OBVIOUS
<1>2. IsSequence(bang) /\ IsSequence(mark) /\ IsSequence(dollar)
  BY <1>1, MarksAre DEF Starts
<1>3. IsSequence(body) /\ body # <<>> /\ body # <<"|">>
  BY <1>1 DEF ClearTerm
<1>4. /\ IsSequence(tabbed) /\ Len(tabbed) = Len(body)
      /\ \A k \in 1 .. Len(body) : tabbed[k] = IF IsSpace(body[k]) THEN "\t" ELSE body[k]
  BY <1>1, <1>3, TabbedIs
<1>5. PICK one, two, three : one = bang \o mark /\ two = one \o tabbed /\ three = two \o dollar
  OBVIOUS
<1>6. IsSequence(one) /\ IsSequence(two) /\ IsSequence(three)
  BY <1>2, <1>4, <1>5, Concatenated
<1>7. Joins(one, tabbed, two) /\ Joins(two, dollar, three)
  BY <1>2, <1>4, <1>5, <1>6, Joining
<1>8. Tok(term) = three
  BY <1>1, <1>5 DEF Tok
<1>9. PICK bar : bar = <<"|">>
  OBVIOUS
<1>10. IsSequence(bar) /\ Len(bar) = 1 /\ bar[1] = "|"
  BY <1>9, Literals
<1>11. SUFFICES ASSUME three = bar PROVE FALSE
  BY <1>8, <1>9
<1>12. PICK a, b, c \in Nat : a = Len(one) /\ b = Len(tabbed) /\ c = Len(dollar) /\ b # 0
  <2>1. Len(body) \in Nat /\ Len(body) # 0
    BY <1>3, Elements
  <2> QED
    BY <1>2, <1>4, <1>6, <2>1, Elements
<1>13. Len(three) = (a + b) + c
  BY <1>7, <1>12 DEF Joins
<1>14. a = 0 /\ b = 1 /\ c = 0
  <2>1. Len(three) = 1
    BY <1>10, <1>11
  <2>2. (a + b) + c = 1
    BY <1>13, <2>1
  <2>3. b # 0
    BY <1>12
  <2> QED
    BY <2>2, <2>3
<1>15. two[0 + 1] = tabbed[1] /\ three[1] = two[1]
  <2>1. /\ \A k \in 1 .. 1 : two[0 + k] = tabbed[k]
        /\ \A k \in 1 .. 1 : three[k] = two[k]
    BY <1>7, <1>12, <1>14 DEF Joins
  <2>2. 1 \in 1 .. 1
    OBVIOUS
  <2> QED
    BY <2>1, <2>2
<1>16. body[1] = "|" /\ Len(body) = 1
  <2>1. tabbed[1] = "|"
    BY <1>10, <1>11, <1>15
  <2>2. Len(body) = 1 /\ 1 \in 1 .. 1
    BY <1>4, <1>12, <1>14
  <2> QED
    BY <1>4, <2>1, <2>2
<1>17. body = bar
  BY <1>3, <1>10, <1>16, EqualSequences
<1> QED
  BY <1>3, <1>9, <1>17

\* What has been read of a query, up to the l-th term of the k-th set
SetMeant(mode, terms, meant) ==
  IsSequence(terms) /\ Len(terms) = Len(meant) /\ \A h \in 1 .. Len(meant) : Meant(mode, terms[h], meant[h])
Taken(mode, meaning, k, l, sets, terms) ==
  /\ IsSequence(sets) /\ Len(sets) = k - 1
  /\ \A h \in 1 .. k - 1 : SetMeant(mode, sets[h], meaning[h])
  /\ IsSequence(terms) /\ Len(terms) = l
  /\ \A h \in 1 .. l : Meant(mode, terms[h], meaning[k][h])
AllMeant(mode, sets, meaning) ==
  /\ IsSequence(sets) /\ Len(sets) = Len(meaning)
  /\ \A h \in 1 .. Len(meaning) : SetMeant(mode, sets[h], meaning[h])

\* The first term is taken,
LEMMA FirstTaken ==
  ASSUME NEW mode, NEW meaning, NEW r, Meant(mode, r, meaning[1][1])
  PROVE  Taken(mode, meaning, 1, 1, <<>>, Append(<<>>, r))
<1>1. PICK none, terms : none = <<>> /\ terms = Append(none, r)
  OBVIOUS
<1>2. IsSequence(none) /\ Len(none) = 0
  BY <1>1, Literals
<1>3. /\ IsSequence(terms) /\ Len(terms) = 1
      /\ \A h \in 1 .. 1 : terms[h] = r
  <2>1. /\ IsSequence(Append(none, r)) /\ Len(Append(none, r)) = Len(none) + 1
        /\ \A h \in 1 .. Len(none) + 1 : Append(none, r)[h] = IF h = Len(none) + 1 THEN r ELSE none[h]
    <3>1. IsSequence(none)
      BY <1>2
    <3> QED
      BY <3>1, Appended
  <2>2. \A h \in 1 .. 1 : h = 0 + 1
    OBVIOUS
  <2> QED
    BY <1>1, <1>2, <2>1, <2>2
<1>4. \A h : ~(h \in 1 .. 1 - 1)
  OBVIOUS
<1>5. \A h \in 1 .. 1 : Meant(mode, terms[h], meaning[1][h])
  <2>1. \A h \in 1 .. 1 : h = 1
    OBVIOUS
  <2> QED
    BY <1>3, <2>1
<1>6. Taken(mode, meaning, 1, 1, none, terms)
  BY <1>2, <1>3, <1>4, <1>5 DEF Taken
<1> QED
  BY <1>1, <1>6

\* another one of the set,
LEMMA FurtherTaken ==
  ASSUME NEW mode, NEW meaning, NEW k \in Nat, NEW l \in Nat, NEW sets, NEW terms,
         Taken(mode, meaning, k, l, sets, terms), NEW r, Meant(mode, r, meaning[k][l + 1])
  PROVE  Taken(mode, meaning, k, l + 1, sets, Append(terms, r))
<1>1. /\ IsSequence(sets) /\ Len(sets) = k - 1
      /\ \A h \in 1 .. k - 1 : SetMeant(mode, sets[h], meaning[h])
      /\ IsSequence(terms) /\ Len(terms) = l
      /\ \A h \in 1 .. l : Meant(mode, terms[h], meaning[k][h])
  BY DEF Taken
<1>2. PICK more : more = Append(terms, r)
  OBVIOUS
<1>3. /\ IsSequence(more) /\ Len(more) = l + 1
      /\ \A h \in 1 .. l + 1 : more[h] = IF h = l + 1 THEN r ELSE terms[h]
  BY <1>1, <1>2, Appended
<1>4. ASSUME NEW h \in 1 .. l + 1 PROVE Meant(mode, more[h], meaning[k][h])
  <2>1. CASE h = l + 1
    BY <1>3, <2>1
  <2>2. CASE h # l + 1
    <3>1. h \in 1 .. l
      BY <2>2
    <3>2. more[h] = terms[h]
      BY <1>3, <2>2
    <3> QED
      BY <1>1, <3>1, <3>2
  <2> QED
    BY <2>1, <2>2
<1>5. Taken(mode, meaning, k, l + 1, sets, more)
  BY <1>1, <1>3, <1>4 DEF Taken
<1> QED
  BY <1>2, <1>5

\* the whole set,
LEMMA SetTaken ==
  ASSUME NEW mode, NEW meaning, NEW k \in Nat, NEW sets, NEW terms, NEW l, l = Len(meaning[k]),
         Taken(mode, meaning, k, l, sets, terms)
  PROVE  /\ IsSequence(Append(sets, terms)) /\ Len(Append(sets, terms)) = k
         /\ \A h \in 1 .. k : SetMeant(mode, Append(sets, terms)[h], meaning[h])
<1>1. /\ IsSequence(sets) /\ Len(sets) = k - 1
      /\ \A h \in 1 .. k - 1 : SetMeant(mode, sets[h], meaning[h])
      /\ SetMeant(mode, terms, meaning[k])
  BY DEF Taken, SetMeant
<1>2. PICK more : more = Append(sets, terms)
  OBVIOUS
<1>3. /\ IsSequence(more) /\ Len(more) = k
      /\ \A h \in 1 .. k : more[h] = IF h = k THEN terms ELSE sets[h]
  <2>1. /\ IsSequence(more) /\ Len(more) = Len(sets) + 1
        /\ \A h \in 1 .. Len(sets) + 1 : more[h] = IF h = Len(sets) + 1 THEN terms ELSE sets[h]
    BY <1>1, <1>2, Appended
  <2>2. Len(sets) + 1 = k
    BY <1>1
  <2> QED
    BY <2>1, <2>2
<1>4. ASSUME NEW h \in 1 .. k PROVE SetMeant(mode, more[h], meaning[h])
  <2>1. CASE h = k
    BY <1>1, <1>3, <2>1
  <2>2. CASE h # k
    <3>1. h \in 1 .. k - 1
      BY <2>2
    <3>2. more[h] = sets[h]
      BY <1>3, <2>2
    <3> QED
      BY <1>1, <3>1, <3>2
  <2> QED
    BY <2>1, <2>2
<1> QED
  BY <1>2, <1>3, <1>4

\* and the first one of the next set
LEMMA NextTaken ==
  ASSUME NEW mode, NEW meaning, NEW k \in Nat, NEW sets, NEW terms, NEW l, l = Len(meaning[k]),
         Taken(mode, meaning, k, l, sets, terms), NEW r, Meant(mode, r, meaning[k + 1][1])
  PROVE  Taken(mode, meaning, k + 1, 1, Append(sets, terms), <<r>>)
<1>1. PICK more, one : more = Append(sets, terms) /\ one = <<r>>
  OBVIOUS
<1>2. /\ IsSequence(more) /\ Len(more) = k
      /\ \A h \in 1 .. k : SetMeant(mode, more[h], meaning[h])
  <2>1. /\ IsSequence(Append(sets, terms)) /\ Len(Append(sets, terms)) = k
        /\ \A h \in 1 .. k : SetMeant(mode, Append(sets, terms)[h], meaning[h])
    BY SetTaken
  <2> QED
    BY <1>1, <2>1
<1>3. IsSequence(one) /\ Len(one) = 1 /\ one[1] = r
  BY <1>1, Literals
<1>4. \A h \in 1 .. 1 : Meant(mode, one[h], meaning[k + 1][h])
  <2>1. \A h \in 1 .. 1 : h = 1
    OBVIOUS
  <2> QED
    BY <1>3, <2>1
<1>5. (k + 1) - 1 = k
  OBVIOUS
<1>6. Taken(mode, meaning, k + 1, 1, more, one)
  BY <1>2, <1>3, <1>4, <1>5 DEF Taken
<1> QED
  BY <1>1, <1>6

\* A term is read where it was written.
LEMMA TermTaken ==
  ASSUME ReadBar \/ ReadToken \/ ParseDone, IsSequence(Whole),
         NEW p \in 0 .. Len(Whole), p = 0 \/ EndsAt(Whole, p), IsLeft(Whole, p, rest),
         NEW meant, ClearTerm(meant), NEW q, q >= p, Word(Whole, q, Tok(meant)),
         \A k \in p + 1 .. q : IsSpace(Whole[k]), EndsAt(Whole, q + Len(Tok(meant)))
  PROVE  \E r : /\ Meant(case_mode, r, meant)
                /\ IsLeft(Whole, q + Len(Tok(meant)), rest')
                /\ ~after_bar' /\ switch_set' /\ pc' = pc
                /\ set' = IF switch_set THEN <<r>> ELSE Append(set, r)
                /\ pattern' = IF switch_set THEN Append(pattern, set) ELSE pattern
<1>1. PICK string, left, token : string = Whole /\ left = rest /\ token = Tok(meant)
  OBVIOUS
<1>2. NoBlank(token) /\ token # <<>>
  BY <1>1, RenderedTerm
<1>3. /\ IsSequence(string) /\ p \in 0 .. Len(string) /\ (p = 0 \/ EndsAt(string, p))
      /\ IsLeft(string, p, left) /\ Word(string, q, token)
      /\ \A k \in p + 1 .. q : IsSpace(string[k])
      /\ EndsAt(string, q + Len(token))
  BY <1>1
<1>4. ~Blank(left) /\ Token(left) = token /\ IsLeft(string, q + Len(token), Behind(left))
  BY <1>2, <1>3, TokenThere
<1>5. ~Blank(rest) /\ Token(rest) = token /\ IsLeft(Whole, q + Len(token), Behind(rest))
  BY <1>1, <1>4
<1>6. ~IsBar(token)
  BY <1>1, NoTermIsBar DEF IsBar
<1>7. ReadToken
  BY <1>5, <1>6 DEF ReadBar, ParseDone
<1>8. PICK r : r = ReadTerm(token)
  OBVIOUS
<1>9. Meant(case_mode, r, meant) /\ r.body # <<>>
  BY <1>1, <1>8, TokenMeant
<1>10. /\ rest' = Behind(rest) /\ after_bar' = FALSE /\ pc' = pc
       /\ switch_set' = TRUE
       /\ set' = IF switch_set THEN <<r>> ELSE Append(set, r)
       /\ pattern' = IF switch_set THEN Append(pattern, set) ELSE pattern
  BY <1>5, <1>7, <1>8, <1>9 DEF ReadToken
<1>11. IsLeft(Whole, q + Len(token), rest') /\ ~after_bar' /\ switch_set'
  BY <1>5, <1>10
<1> QED
  BY <1>1, <1>9, <1>10, <1>11

\* And so is a bar.
LEMMA BarTaken ==
  ASSUME ReadBar \/ ReadToken \/ ParseDone, IsSequence(Whole),
         NEW p \in 0 .. Len(Whole), EndsAt(Whole, p), IsLeft(Whole, p, rest),
         NEW e, BarBehind(Whole, p, e), set # <<>>, ~after_bar
  PROVE  /\ IsLeft(Whole, p + 2, rest') /\ ~switch_set' /\ after_bar'
         /\ UNCHANGED <<pc, set, pattern>>
<1>1. PICK string, left, token, q : string = Whole /\ left = rest /\ token = <<"|">> /\ q = p + 1
  OBVIOUS
<1>2. IsSequence(token) /\ Len(token) = 1 /\ token[1] = "|"
  BY <1>1, Literals
<1>3. NoBlank(token) /\ token # <<>>
  <2>1. \A k \in 1 .. 1 : k = 1
    OBVIOUS
  <2>2. token # <<>>
    BY <1>2, Elements
  <2> QED
    BY <1>2, <2>1, <2>2, Spaces DEF NoBlank
<1>4. /\ p + 3 <= Len(string) /\ IsSpace(string[p + 1]) /\ string[p + 2] = "|" /\ IsSpace(string[p + 3])
      /\ Len(string) \in Nat /\ p \in Nat /\ IsSequence(string)
      /\ p \in 0 .. Len(string) /\ EndsAt(string, p) /\ IsLeft(string, p, left)
  <2>1. Len(string) \in Nat
    BY <1>1, Elements
  <2> QED
    BY <1>1, <2>1 DEF BarBehind
<1>5. Word(string, q, token)
  <2>1. q \in Nat /\ q + 1 <= Len(string) /\ q + 1 = p + 2
    BY <1>1, <1>4
  <2>2. \A x \in 1 .. 1 : x = 1
    OBVIOUS
  <2> QED
    BY <1>2, <1>4, <2>1, <2>2 DEF Word
<1>6. \A k \in p + 1 .. q : IsSpace(string[k])
  <2>1. \A k \in p + 1 .. q : k = p + 1
    BY <1>1, <1>4
  <2> QED
    BY <1>4, <2>1
<1>7. q + Len(token) = p + 2 /\ (p + 2) + 1 = p + 3 /\ q >= p
  BY <1>1, <1>2, <1>4
<1>8. EndsAt(string, q + Len(token))
  BY <1>4, <1>7 DEF EndsAt
<1>9. ~Blank(left) /\ Token(left) = token /\ IsLeft(string, q + Len(token), Behind(left))
  BY <1>3, <1>4, <1>5, <1>6, <1>7, <1>8, TokenThere
<1>10. ~Blank(rest) /\ Token(rest) = token /\ IsLeft(Whole, p + 2, Behind(rest))
  BY <1>1, <1>7, <1>9
<1>11. IsBar(Token(rest))
  BY <1>1, <1>10 DEF IsBar
<1>12. ReadBar
  BY <1>10, <1>11 DEF ReadToken, ParseDone
<1>13. /\ switch_set' = FALSE /\ after_bar' = TRUE /\ rest' = Behind(rest)
       /\ UNCHANGED <<pc, set, pattern>>
  BY <1>12 DEF ReadBar
<1> QED
  BY <1>10, <1>13

\* Nothing is left behind the last term.
LEMMA AllTaken ==
  ASSUME ReadBar \/ ReadToken \/ ParseDone, IsSequence(Whole), IsLeft(Whole, Len(Whole), rest)
  PROVE  ParseDone
<1>1. PICK string, left : string = Whole /\ left = rest
  OBVIOUS
<1>2. IsSequence(string) /\ Len(string) \in Nat
  BY <1>1, Elements
<1>3. left = SubSeq(string, Len(string) + 1, Len(string))
  BY <1>1 DEF IsLeft
<1>4. IsSequence(left) /\ Len(left) = 0
  <2>1. Len(string) + 1 \in Nat /\ Len(string) + 1 # 0 /\ Len(string) <= Len(string)
    BY <1>2
  <2>2. /\ IsSequence(left)
        /\ Len(left) = IF Len(string) + 1 <= Len(string) THEN Len(string) - (Len(string) + 1) + 1 ELSE 0
    BY <1>2, <1>3, <2>1, Part
  <2> QED
    BY <1>2, <2>2
<1>5. DOMAIN left = 1 .. 0
  BY <1>4, Elements
<1>6. Blank(left)
  BY <1>5 DEF Blank
<1> QED
  BY <1>1, <1>6 DEF ReadBar, ReadToken

\* Where a token ends
LEMMA EndsThere ==
  ASSUME NEW meaning, ClearMeaning(meaning), NEW at, NEW string, Words(meaning, at, string),
         NEW k \in 1 .. Len(meaning), NEW l \in 1 .. Len(meaning[k]),
         NEW e, e = EndOf(meaning[k], at[k], l)
  PROVE  /\ ClearTerm(meaning[k][l]) /\ Word(string, at[k][l], Tok(meaning[k][l]))
         /\ e = at[k][l] + Len(Tok(meaning[k][l]))
         /\ e \in 0 .. Len(string) /\ EndsAt(string, e)
         /\ l < Len(meaning[k]) => BarBehind(string, e, at[k][l + 1])
         /\ l = Len(meaning[k]) /\ k < Len(meaning) => BlankBehind(string, e, at[k + 1][1])
         /\ l = Len(meaning[k]) /\ k = Len(meaning) => e = Len(string)
<1>1. PICK n \in Nat : n = Len(meaning) /\ DOMAIN meaning = 1 .. n
  BY Elements DEF ClearMeaning
<1>2. PICK terms : terms = meaning[k]
  OBVIOUS
<1>3. ClearSet(terms)
  BY <1>1, <1>2 DEF ClearMeaning
<1>4. PICK m \in Nat : m = Len(terms) /\ DOMAIN terms = 1 .. m
  BY <1>3, TokensOfSet
<1>5. k \in DOMAIN meaning /\ l \in DOMAIN terms /\ l \in 1 .. m /\ k \in 1 .. n
  BY <1>1, <1>2, <1>4
<1>6. PICK term, token : term = terms[l] /\ token = Tok(term)
  OBVIOUS
<1>7. ClearTerm(term) /\ Len(token) \in Nat
  <2>1. ClearTerm(term)
    BY <1>3, <1>5, <1>6 DEF ClearSet
  <2>2. IsSequence(token)
    BY <1>6, <2>1, RenderedTerm DEF NoBlank
  <2> QED
    BY <2>1, <2>2, Elements
<1>8. /\ IsSequence(string) /\ Word(string, at[k][l], token)
      /\ l < m => BarBehind(string, e, at[k][l + 1])
      /\ l = m /\ k < n => BlankBehind(string, e, at[k + 1][1])
      /\ l = m /\ k = n => e = Len(string)
  BY <1>1, <1>2, <1>4, <1>5, <1>6 DEF Words
<1>9. e = at[k][l] + Len(token)
  BY <1>2, <1>6 DEF EndOf
<1>10. e \in Nat /\ e <= Len(string) /\ Len(string) \in Nat
  <2>1. Len(string) \in Nat
    BY <1>8, Elements
  <2>2. at[k][l] \in Nat /\ at[k][l] + Len(token) <= Len(string)
    BY <1>8 DEF Word
  <2> QED
    BY <1>7, <1>9, <2>1, <2>2
<1>11. EndsAt(string, e)
  <2>1. CASE l < m
    BY <1>8, <2>1 DEF BarBehind, EndsAt
  <2>2. CASE l = m /\ k < n
    BY <1>8, <2>2 DEF BlankBehind, EndsAt
  <2>3. CASE l = m /\ k = n
    BY <1>8, <1>10, <2>3 DEF EndsAt
  <2> QED
    BY <1>5, <2>1, <2>2, <2>3
<1>12. e \in 0 .. Len(string)
  BY <1>10
<1> QED
  BY <1>1, <1>2, <1>4, <1>6, <1>7, <1>8, <1>9, <1>11, <1>12

\* How far the query has been read: not at all, behind a term, behind a bar
AtStart ==
  /\ IsLeft(Whole, 0, rest)
  /\ set = <<>> /\ pattern = <<>> /\ ~switch_set /\ ~after_bar
BehindTerm(at, k, l) ==
  /\ k \in 1 .. Len(written) /\ l \in 1 .. Len(written[k])
  /\ Taken(case_mode, written, k, l, pattern, set)
  /\ IsLeft(Whole, EndOf(written[k], at[k], l), rest)
  /\ switch_set /\ ~after_bar
BehindBar(at, k, l) ==
  /\ k \in 1 .. Len(written) /\ l \in 1 .. Len(written[k]) /\ l < Len(written[k])
  /\ Taken(case_mode, written, k, l, pattern, set)
  /\ IsLeft(Whole, EndOf(written[k], at[k], l) + 2, rest)
  /\ ~switch_set /\ after_bar

AsMeant(at) ==
  /\ written = <<>> => Whole = <<>>
  /\ written # <<>> => Words(written, at, Whole)
  /\ pc = "parse" => AtStart \/ \E k, l : BehindTerm(at, k, l) \/ BehindBar(at, k, l)
  /\ pc # "parse" => AllMeant(case_mode, pattern, written)
MeantOK ==
  written # NoMeaning => ClearMeaning(written) /\ IsSequence(Whole) /\ \E at : AsMeant(at)

\* What was meant stays the same.
LEMMA MeaningStays ==
  ASSUME UNCHANGED <<written, query, fuzzy, case_mode>>
  PROVE  /\ Whole' = Whole
         /\ \A meaning, at, string : Words(meaning, at, string)' <=> Words(meaning, at, string)
         /\ \A terms, places, l : EndOf(terms, places, l)' = EndOf(terms, places, l)
         /\ \A meaning : ClearMeaning(meaning)' <=> ClearMeaning(meaning)
<1>1. Whole' = Whole
  BY DEF Whole
<1>2. \A term : Tok(term)' = Tok(term)
  BY DEF Tok, Mark
<1>3. \A terms, places, l : EndOf(terms, places, l)' = EndOf(terms, places, l)
  BY <1>2 DEF EndOf
<1>4. \A meaning, at, string : Words(meaning, at, string)' <=> Words(meaning, at, string)
  BY <1>2, <1>3 DEF Words
<1>5. \A meaning : ClearMeaning(meaning)' <=> ClearMeaning(meaning)
  BY DEF ClearMeaning, ClearSet, ClearTerm
<1> QED
  BY <1>1, <1>3, <1>4, <1>5

\* The next token is read.
LEMMA MeantFurther ==
  ASSUME MeantOK, written # NoMeaning, NEW at, AsMeant(at), pc = "parse",
         ReadBar \/ ReadToken \/ ParseDone
  PROVE  AsMeant(at)'
<1>1. UNCHANGED <<written, query, fuzzy, case_mode>>
  BY DEF ReadBar, ReadToken, ParseDone, ParseUnchanged
<1>2. /\ Whole' = Whole /\ written' = written /\ case_mode' = case_mode
      /\ \A meaning, string : Words(meaning, at, string)' <=> Words(meaning, at, string)
      /\ \A k, l : EndOf(written[k], at[k], l)' = EndOf(written[k], at[k], l)
  BY <1>1, MeaningStays
<1>3. PICK meaning, string, mode : meaning = written /\ string = Whole /\ mode = case_mode
  OBVIOUS
<1>4. ClearMeaning(meaning) /\ IsSequence(string) /\ ClearMeaning(written) /\ IsSequence(Whole)
  BY <1>3 DEF MeantOK
<1>5. PICK n \in Nat : n = Len(meaning) /\ DOMAIN meaning = 1 .. n /\ (meaning = <<>> <=> n = 0)
  BY <1>4, Elements DEF ClearMeaning
<1>6. Len(string) \in Nat
  BY <1>4, Elements
<1>7. /\ (written = <<>> => Whole = <<>>)'
      /\ (written # <<>> => Words(written, at, Whole))'
  BY <1>2 DEF AsMeant
<1>8. n # 0 => Words(meaning, at, string)
  BY <1>3, <1>5 DEF AsMeant
<1>9. ASSUME pc' = pc, NEW k, NEW l, BehindTerm(at, k, l)' \/ BehindBar(at, k, l)' PROVE AsMeant(at)'
  BY <1>7, <1>9 DEF AsMeant
<1>10. CASE AtStart
  <2>1. IsLeft(Whole, 0, rest) /\ set = <<>> /\ pattern = <<>> /\ ~switch_set /\ ~after_bar
    BY <1>10 DEF AtStart
  <2>2. CASE n = 0
    <3>1. string = <<>> /\ Len(string) = 0
      BY <1>3, <1>4, <1>5, <2>2, Elements DEF AsMeant
    <3>2. IsLeft(Whole, Len(Whole), rest)
      BY <1>3, <2>1, <3>1
    <3>3. ParseDone
      BY <1>4, <3>2, AllTaken
    <3>4. pattern' = <<>> /\ pc' = "ready"
      BY <2>1, <3>3 DEF ParseDone
    <3>5. PICK none : none = <<>>
      OBVIOUS
    <3>6. IsSequence(none) /\ Len(none) = 0 /\ \A h : ~(h \in 1 .. 0)
      BY <3>5, Literals
    <3>7. AllMeant(mode, none, meaning)
      BY <1>5, <2>2, <3>6 DEF AllMeant
    <3>8. AllMeant(case_mode, pattern, written)'
      BY <1>2, <1>3, <3>4, <3>5, <3>7
    <3> QED
      BY <1>7, <3>4, <3>8 DEF AsMeant
  <2>3. CASE n # 0
    <3>1. 1 \in 1 .. n
      BY <2>3
    <3>2. PICK terms : terms = meaning[1]
      OBVIOUS
    <3>3. ClearSet(terms)
      BY <1>4, <1>5, <3>1, <3>2 DEF ClearMeaning
    <3>4. 1 \in 1 .. Len(terms)
      BY <3>3, TokensOfSet
    <3>5. PICK term, token, e : term = terms[1] /\ token = Tok(term) /\ e = EndOf(terms, at[1], 1)
      OBVIOUS
    <3>6. at[1][1] = 0
      BY <1>8, <2>3 DEF Words
    <3>7. /\ ClearTerm(term) /\ Word(string, at[1][1], token)
          /\ e = at[1][1] + Len(token)
          /\ e \in 0 .. Len(string) /\ EndsAt(string, e)
      BY <1>4, <1>5, <1>8, <2>3, <3>1, <3>2, <3>4, <3>5, EndsThere
    <3>8. \A h : ~(h \in 0 + 1 .. 0)
      OBVIOUS
    <3>9. 0 \in 0 .. Len(Whole) /\ 0 >= 0
      BY <1>3, <1>6
    <3>10. Word(Whole, 0, Tok(term)) /\ EndsAt(Whole, 0 + Len(Tok(term))) /\ e = 0 + Len(Tok(term))
      BY <1>3, <3>5, <3>6, <3>7
    <3>11. PICK r : /\ Meant(case_mode, r, term)
                    /\ IsLeft(Whole, 0 + Len(Tok(term)), rest')
                    /\ ~after_bar' /\ switch_set' /\ pc' = pc
                    /\ set' = IF switch_set THEN <<r>> ELSE Append(set, r)
                    /\ pattern' = IF switch_set THEN Append(pattern, set) ELSE pattern
      BY <1>4, <2>1, <3>7, <3>8, <3>9, <3>10, TermTaken
    <3>12. set' = Append(<<>>, r) /\ pattern' = <<>>
      BY <2>1, <3>11
    <3>13. Taken(mode, meaning, 1, 1, <<>>, Append(<<>>, r))
      BY <1>3, <3>2, <3>5, <3>11, FirstTaken
    <3>14. Taken(case_mode, written, 1, 1, pattern, set)'
      BY <1>2, <1>3, <3>12, <3>13
    <3>15. IsLeft(Whole, EndOf(written[1], at[1], 1), rest)'
      BY <1>2, <1>3, <3>2, <3>5, <3>10, <3>11
    <3>16. (1 \in 1 .. Len(written) /\ 1 \in 1 .. Len(written[1]))'
      BY <1>2, <1>3, <1>5, <3>1, <3>2, <3>4
    <3>17. BehindTerm(at, 1, 1)'
      BY <3>11, <3>14, <3>15, <3>16 DEF BehindTerm
    <3> QED
      BY <1>9, <3>11, <3>17
  <2> QED
    BY <2>2, <2>3
<1>11. ASSUME NEW k, NEW l, BehindTerm(at, k, l) PROVE AsMeant(at)'
  <2>1. PICK terms, e : terms = meaning[k] /\ e = EndOf(meaning[k], at[k], l)
    OBVIOUS
  <2>2. /\ k \in 1 .. n /\ l \in 1 .. Len(terms) /\ n # 0
        /\ Taken(mode, meaning, k, l, pattern, set)
        /\ IsLeft(Whole, e, rest) /\ switch_set /\ ~after_bar
    BY <1>3, <1>5, <1>11, <2>1 DEF BehindTerm
  <2>3. ClearSet(terms)
    BY <1>4, <1>5, <2>1, <2>2 DEF ClearMeaning
  <2>4. PICK m \in Nat : m = Len(terms)
    BY <2>3, TokensOfSet
  <2>5. /\ e \in 0 .. Len(string) /\ EndsAt(string, e)
        /\ l < m => BarBehind(string, e, at[k][l + 1])
        /\ l = m /\ k < n => BlankBehind(string, e, at[k + 1][1])
        /\ l = m /\ k = n => e = Len(string)
    BY <1>4, <1>5, <1>8, <2>1, <2>2, <2>4, EndsThere, SMTT(40)
  <2>6. e \in 0 .. Len(Whole) /\ EndsAt(Whole, e)
    BY <1>3, <2>5
  <2>7. set # <<>>
    <3>1. IsSequence(set) /\ Len(set) = l /\ l # 0
      BY <2>2 DEF Taken
    <3>2. PICK s : s = set
      OBVIOUS
    <3>3. s # <<>>
      BY <3>1, <3>2, Elements
    <3> QED
      BY <3>2, <3>3
  <2>8. CASE l < m
    <3>1. PICK p : p = at[k][l + 1]
      OBVIOUS
    <3>2. BarBehind(Whole, e, p)
      BY <1>3, <2>5, <2>8, <3>1
    <3>3. /\ IsLeft(Whole, e + 2, rest') /\ ~switch_set' /\ after_bar'
          /\ UNCHANGED <<pc, set, pattern>>
      BY <1>4, <2>2, <2>6, <2>7, <3>2, BarTaken
    <3>4. Taken(case_mode, written, k, l, pattern, set)'
      BY <1>2, <1>3, <2>2, <3>3
    <3>5. IsLeft(Whole, EndOf(written[k], at[k], l) + 2, rest)'
      BY <1>2, <1>3, <2>1, <3>3
    <3>6. (k \in 1 .. Len(written) /\ l \in 1 .. Len(written[k]) /\ l < Len(written[k]))'
      BY <1>2, <1>3, <1>5, <2>1, <2>2, <2>4, <2>8
    <3>7. BehindBar(at, k, l)'
      BY <3>3, <3>4, <3>5, <3>6 DEF BehindBar
    <3> QED
      BY <1>9, <3>3, <3>7
  <2>9. CASE l = m /\ k < n
    <3>1. k \in Nat /\ k + 1 \in 1 .. n
      BY <2>2, <2>9
    <3>2. PICK more : more = meaning[k + 1]
      OBVIOUS
    <3>3. ClearSet(more)
      BY <1>4, <1>5, <3>1, <3>2 DEF ClearMeaning
    <3>4. 1 \in 1 .. Len(more)
      BY <3>3, TokensOfSet
    <3>5. PICK term, f, q : term = more[1] /\ f = EndOf(more, at[k + 1], 1) /\ q = at[k + 1][1]
      OBVIOUS
    <3>6. /\ ClearTerm(term) /\ Word(string, q, Tok(term)) /\ f = q + Len(Tok(term))
          /\ f \in 0 .. Len(string) /\ EndsAt(string, f)
      BY <1>4, <1>5, <1>8, <2>2, <3>1, <3>2, <3>4, <3>5, EndsThere
    <3>7. q = e + 1 /\ IsSpace(string[e + 1])
      BY <2>5, <2>9, <3>5 DEF BlankBehind
    <3>8. \A h \in e + 1 .. q : IsSpace(Whole[h])
      <4>1. \A h \in e + 1 .. q : h = e + 1
        BY <2>5, <3>7
      <4> QED
        BY <1>3, <3>7, <4>1
    <3>9. q >= e /\ Word(Whole, q, Tok(term)) /\ EndsAt(Whole, q + Len(Tok(term)))
      BY <1>3, <2>5, <3>6, <3>7
    <3>10. PICK r : /\ Meant(case_mode, r, term)
                    /\ IsLeft(Whole, q + Len(Tok(term)), rest')
                    /\ ~after_bar' /\ switch_set' /\ pc' = pc
                    /\ set' = IF switch_set THEN <<r>> ELSE Append(set, r)
                    /\ pattern' = IF switch_set THEN Append(pattern, set) ELSE pattern
      BY <1>4, <2>2, <2>6, <3>6, <3>8, <3>9, TermTaken
    <3>11. set' = <<r>> /\ pattern' = Append(pattern, set)
      BY <2>2, <3>10
    <3>12. Taken(mode, meaning, k + 1, 1, Append(pattern, set), <<r>>)
      <4>1. Meant(mode, r, meaning[k + 1][1]) /\ l = Len(meaning[k])
        BY <1>3, <2>1, <2>4, <2>9, <3>2, <3>5, <3>10
      <4> QED
        BY <2>2, <3>1, <4>1, NextTaken
    <3>13. Taken(case_mode, written, k + 1, 1, pattern, set)'
      BY <1>2, <1>3, <3>11, <3>12
    <3>14. IsLeft(Whole, EndOf(written[k + 1], at[k + 1], 1), rest)'
      BY <1>2, <1>3, <3>2, <3>5, <3>6, <3>10
    <3>15. (k + 1 \in 1 .. Len(written) /\ 1 \in 1 .. Len(written[k + 1]))'
      BY <1>2, <1>3, <1>5, <3>1, <3>2, <3>4
    <3>16. BehindTerm(at, k + 1, 1)'
      BY <3>10, <3>13, <3>14, <3>15 DEF BehindTerm
    <3> QED
      BY <1>9, <3>10, <3>16
  <2>10. CASE l = m /\ k = n
    <3>1. IsLeft(Whole, Len(Whole), rest)
      BY <1>3, <2>2, <2>5, <2>10
    <3>2. ParseDone
      BY <1>4, <3>1, AllTaken
    <3>3. pattern' = Append(pattern, set) /\ pc' = "ready"
      BY <2>7, <3>2 DEF ParseDone
    <3>4. AllMeant(mode, Append(pattern, set), meaning)
      <4>1. /\ IsSequence(Append(pattern, set)) /\ Len(Append(pattern, set)) = k
            /\ \A h \in 1 .. k : SetMeant(mode, Append(pattern, set)[h], meaning[h])
        <5>1. k \in Nat /\ l = Len(meaning[k])
          BY <2>1, <2>2, <2>4, <2>10
        <5> QED
          BY <2>2, <5>1, SetTaken
      <4>2. k = Len(meaning)
        BY <1>5, <2>10
      <4> QED
        BY <4>1, <4>2 DEF AllMeant
    <3>5. AllMeant(case_mode, pattern, written)'
      BY <1>2, <1>3, <3>3, <3>4
    <3> QED
      BY <1>7, <3>3, <3>5 DEF AsMeant
  <2> QED
    BY <2>2, <2>4, <2>8, <2>9, <2>10
<1>12. ASSUME NEW k, NEW l, BehindBar(at, k, l) PROVE AsMeant(at)'
  <2>1. PICK terms, e : terms = meaning[k] /\ e = EndOf(meaning[k], at[k], l)
    OBVIOUS
  <2>2. /\ k \in 1 .. n /\ l \in 1 .. Len(terms) /\ l < Len(terms) /\ n # 0
        /\ Taken(mode, meaning, k, l, pattern, set)
        /\ IsLeft(Whole, e + 2, rest) /\ ~switch_set /\ after_bar
    BY <1>3, <1>5, <1>12, <2>1 DEF BehindBar
  <2>3. ClearSet(terms)
    BY <1>4, <1>5, <2>1, <2>2 DEF ClearMeaning
  <2>4. PICK m \in Nat : m = Len(terms)
    BY <2>3, TokensOfSet
  <2>5. e \in 0 .. Len(string) /\ (l < m => BarBehind(string, e, at[k][l + 1]))
    BY <1>4, <1>5, <1>8, <2>1, <2>2, <2>4, EndsThere
  <2>6. PICK term, f, q : term = terms[l + 1] /\ f = EndOf(terms, at[k], l + 1) /\ q = at[k][l + 1]
    OBVIOUS
  <2>7. e + 3 <= Len(string) /\ q = e + 3 /\ IsSpace(string[e + 3])
    BY <2>2, <2>4, <2>5, <2>6 DEF BarBehind
  <2>8. l + 1 \in 1 .. Len(terms) /\ k \in Nat /\ l \in Nat
    BY <2>2, <2>4
  <2>9. /\ ClearTerm(term) /\ Word(string, q, Tok(term)) /\ f = q + Len(Tok(term))
        /\ f \in 0 .. Len(string) /\ EndsAt(string, f)
    <3>1. PICK h \in Nat : h = l + 1
      BY <2>8
    <3>2. k \in 1 .. Len(meaning) /\ h \in 1 .. Len(meaning[k]) /\ Words(meaning, at, string)
      BY <1>5, <1>8, <2>1, <2>2, <2>8, <3>1
    <3>3. LET x == EndOf(meaning[k], at[k], h)
          IN  /\ ClearTerm(meaning[k][h]) /\ Word(string, at[k][h], Tok(meaning[k][h]))
              /\ x = at[k][h] + Len(Tok(meaning[k][h]))
              /\ x \in 0 .. Len(string) /\ EndsAt(string, x)
      BY <1>4, <3>2, EndsThere
    <3> QED
      BY <2>1, <2>6, <3>1, <3>3
  <2>10. PICK p \in Nat : p = e + 2
    BY <2>5
  <2>11. /\ p \in 0 .. Len(Whole) /\ EndsAt(Whole, p) /\ IsLeft(Whole, p, rest)
    <3>1. p + 1 = e + 3 /\ p \in 0 .. Len(string)
      BY <1>6, <2>5, <2>7, <2>10
    <3> QED
      BY <1>3, <2>2, <2>7, <2>10, <3>1 DEF EndsAt
  <2>12. \A h \in p + 1 .. q : IsSpace(Whole[h])
    <3>1. \A h \in p + 1 .. q : h = e + 3
      BY <2>5, <2>7, <2>10
    <3> QED
      BY <1>3, <2>7, <3>1
  <2>13. q >= p /\ Word(Whole, q, Tok(term)) /\ EndsAt(Whole, q + Len(Tok(term)))
    BY <1>3, <2>5, <2>7, <2>9, <2>10
  <2>14. PICK r : /\ Meant(case_mode, r, term)
                  /\ IsLeft(Whole, q + Len(Tok(term)), rest')
                  /\ ~after_bar' /\ switch_set' /\ pc' = pc
                  /\ set' = IF switch_set THEN <<r>> ELSE Append(set, r)
                  /\ pattern' = IF switch_set THEN Append(pattern, set) ELSE pattern
    BY <1>4, <2>9, <2>11, <2>12, <2>13, TermTaken
  <2>15. set' = Append(set, r) /\ pattern' = pattern
    BY <2>2, <2>14
  <2>16. Taken(mode, meaning, k, l + 1, pattern, Append(set, r))
    <3>1. Meant(mode, r, meaning[k][l + 1])
      BY <1>3, <2>1, <2>6, <2>14
    <3> QED
      BY <2>2, <2>8, <3>1, FurtherTaken
  <2>17. Taken(case_mode, written, k, l + 1, pattern, set)'
    BY <1>2, <1>3, <2>15, <2>16
  <2>18. IsLeft(Whole, EndOf(written[k], at[k], l + 1), rest)'
    BY <1>2, <1>3, <2>1, <2>6, <2>9, <2>14
  <2>19. (k \in 1 .. Len(written) /\ l + 1 \in 1 .. Len(written[k]))'
    BY <1>2, <1>3, <1>5, <2>1, <2>2, <2>8
  <2>20. BehindTerm(at, k, l + 1)'
    BY <2>14, <2>17, <2>18, <2>19 DEF BehindTerm
  <2> QED
    BY <1>9, <2>14, <2>20
<1> QED
  BY <1>10, <1>11, <1>12 DEF AsMeant

\* A query that means nothing is empty.
LEMMA RenderedNothing ==
  Escaped(Render(<<>>)) = <<>>
<1>1. PICK s : s = <<>>
  OBVIOUS
<1>2. IsSequence(s) /\ Len(s) = 0
  BY <1>1, Literals
<1>3. DOMAIN s = {}
  BY <1>1
<1>4. FlattenSeq(s) = s
  BY Zenon, <1>2 DEF FlattenSeq
<1>5. \A f : [k \in DOMAIN s |-> f[k]] = s
  BY <1>1, <1>3
<1>6. Render(s) = s
  BY <1>1, <1>3, <1>4 DEF Render, Joined
<1> QED
  BY <1>1, <1>6, EscapedNothing

\* The reading starts with all of it to be read.
LEMMA MeantStart ==
  ASSUME Init
  PROVE  MeantOK
<1> SUFFICES ASSUME written # NoMeaning PROVE ClearMeaning(written) /\ IsSequence(Whole) /\ \E at : AsMeant(at)
  BY DEF MeantOK
<1>1. query = Render(written)
  BY DEF Init
<1>2. ClearMeaning(written)
  BY DEF Init
<1>3. IsSequence(Whole)
  BY QueryIsSequence
<1>4. pc = "parse" /\ rest = Whole /\ set = <<>> /\ ~switch_set /\ ~after_bar /\ pattern = <<>>
  BY DEF Init, Whole
<1>5. IsLeft(Whole, 0, rest)
  <2>1. PICK string : string = Whole
    OBVIOUS
  <2>2. Len(string) \in Nat /\ IsSequence(string)
    BY <1>3, <2>1, Elements
  <2>3. /\ IsSequence(SubSeq(string, 1, Len(string)))
        /\ Len(SubSeq(string, 1, Len(string))) = IF 1 <= Len(string) THEN Len(string) - 1 + 1 ELSE 0
        /\ \A k \in 1 .. Len(SubSeq(string, 1, Len(string))) : SubSeq(string, 1, Len(string))[k] = string[1 + k - 1]
    <3>1. 1 \in Nat /\ 1 # 0 /\ Len(string) <= Len(string)
      BY <2>2
    <3> QED
      BY <2>2, <3>1, Part
  <2>4. PICK part : part = SubSeq(string, 1, Len(string))
    OBVIOUS
  <2>5. Len(part) = Len(string) /\ \A k \in 1 .. Len(part) : 1 + k - 1 = k
    BY <2>2, <2>3, <2>4
  <2>6. part = string
    BY <2>2, <2>3, <2>4, <2>5, EqualSequences
  <2>7. 0 + 1 = 1
    OBVIOUS
  <2> QED
    BY <1>4, <2>1, <2>4, <2>6, <2>7 DEF IsLeft
<1>6. AtStart
  BY <1>4, <1>5 DEF AtStart
<1>7. CASE written = <<>>
  <2>1. Whole = <<>>
    BY <1>1, <1>7, RenderedNothing DEF Whole
  <2>2. \A at : AsMeant(at)
    BY <1>4, <1>6, <1>7, <2>1 DEF AsMeant
  <2> QED
    BY <1>2, <1>3, <2>2
<1>8. CASE written # <<>>
  <2>1. Whole = Joined(Lines(written), And)
    BY <1>1, <1>2, <1>8, RenderedWhole DEF Whole
  <2>2. PICK at : Words(written, at, Whole)
    BY <1>2, <1>8, <2>1, WordsStand
  <2>3. AsMeant(at)
    BY <1>4, <1>6, <1>8, <2>2 DEF AsMeant
  <2> QED
    BY <1>2, <1>3, <2>3
<1> QED
  BY <1>7, <1>8

\* Asking changes nothing that was read.
LEMMA MeantKept ==
  ASSUME MeantOK, Ask \/ UNCHANGED vars
  PROVE  MeantOK'
<1>1. UNCHANGED <<written, query, fuzzy, case_mode, rest, set, switch_set, after_bar, pattern>>
  BY DEF Ask, Call, InverseTerm, InverseDone, ScoreTerm, ScoreSetDone, ScoreDone, PositionsTerm,
         PositionsSetDone, PositionsDone, CallUnchanged, vars, parseVars
<1>2. pc' = "parse" <=> pc = "parse"
  BY DEF Ask, Call, InverseTerm, InverseDone, ScoreTerm, ScoreSetDone, ScoreDone, PositionsTerm,
         PositionsSetDone, PositionsDone, Finish, vars
<1>3. /\ Whole' = Whole
      /\ \A meaning, at, string : Words(meaning, at, string)' <=> Words(meaning, at, string)
      /\ \A terms, places, l : EndOf(terms, places, l)' = EndOf(terms, places, l)
      /\ ClearMeaning(written)' <=> ClearMeaning(written)
  BY <1>1, MeaningStays
<1>4. AtStart' <=> AtStart
  BY <1>1, <1>3 DEF AtStart
<1>5. \A at, k, l : BehindTerm(at, k, l)' <=> BehindTerm(at, k, l)
  BY <1>1, <1>3 DEF BehindTerm
<1>6. \A at, k, l : BehindBar(at, k, l)' <=> BehindBar(at, k, l)
  BY <1>1, <1>3 DEF BehindBar
<1>7. \A at : AsMeant(at)' <=> AsMeant(at)
  BY <1>1, <1>2, <1>3, <1>4, <1>5, <1>6 DEF AsMeant
<1> QED
  BY <1>1, <1>3, <1>7 DEF MeantOK

\* What is read is what was meant.
LEMMA MeantImplies ==
  ASSUME MeantOK
  PROVE  ParsesAsWritten
<1> SUFFICES ASSUME Parsed, written # NoMeaning
             PROVE  /\ Len(pattern) = Len(written)
                    /\ \A k \in DOMAIN pattern :
                         /\ Len(pattern[k]) = Len(written[k])
                         /\ \A l \in DOMAIN pattern[k] : Meant(case_mode, pattern[k][l], written[k][l])
  BY Zenon DEF ParsesAsWritten, Meant, SensitiveTo
<1>1. ClearMeaning(written) /\ AllMeant(case_mode, pattern, written)
  BY DEF MeantOK, AsMeant, Parsed
<1>2. PICK n \in Nat : n = Len(written)
  BY <1>1, Elements DEF ClearMeaning
<1>3. /\ IsSequence(pattern) /\ Len(pattern) = n
      /\ \A k \in 1 .. n : SetMeant(case_mode, pattern[k], written[k])
  BY <1>1, <1>2 DEF AllMeant
<1>4. DOMAIN pattern = 1 .. n
  BY <1>3, Elements
<1>5. ASSUME NEW k \in 1 .. n
      PROVE  /\ Len(pattern[k]) = Len(written[k])
             /\ \A l \in DOMAIN pattern[k] : Meant(case_mode, pattern[k][l], written[k][l])
  <2>1. PICK terms, meant : terms = pattern[k] /\ meant = written[k]
    OBVIOUS
  <2>2. /\ IsSequence(terms) /\ Len(terms) = Len(meant)
        /\ \A l \in 1 .. Len(meant) : Meant(case_mode, terms[l], meant[l])
    BY <1>3, <1>5, <2>1 DEF SetMeant
  <2>3. DOMAIN terms = 1 .. Len(meant)
    BY <2>2, Elements
  <2> QED
    BY <2>1, <2>2, <2>3
<1> QED
  BY <1>2, <1>3, <1>4, <1>5

\* Clearly written queries are read as they were meant (fzf_parse_pattern).
THEOREM ParsesRight ==
  Spec => []ParsesAsWritten
<1>1. Init => MeantOK
  BY MeantStart
<1>2. MeantOK /\ [Next]_vars => MeantOK'
  <2>1. ASSUME MeantOK, Next \/ UNCHANGED vars PROVE MeantOK'
    <3>1. CASE Ask \/ UNCHANGED vars
      BY <2>1, <3>1, MeantKept
    <3>2. CASE Parse
      <4>1. pc = "parse" /\ UNCHANGED <<written, query, fuzzy, case_mode>>
        BY <3>2 DEF Parse, ReadBar, ReadToken, ParseDone, ParseUnchanged
      <4>2. Whole' = Whole /\ written' = written /\ (ClearMeaning(written)' <=> ClearMeaning(written))
        BY <4>1, MeaningStays
      <4>3. ASSUME written # NoMeaning PROVE \E at : AsMeant(at)'
        <5>1. PICK at : AsMeant(at)
          BY <2>1, <4>3 DEF MeantOK
        <5>2. AsMeant(at)'
          BY <2>1, <3>2, <4>1, <4>3, <5>1, MeantFurther DEF Parse
        <5> QED
          BY <5>2
      <4> QED
        BY <2>1, <4>2, <4>3 DEF MeantOK
    <3> QED
      BY <2>1, <3>1, <3>2 DEF Next
  <2> QED
    BY <2>1
<1>3. MeantOK => ParsesAsWritten
  BY MeantImplies
<1> QED
  BY <1>1, <1>2, <1>3, PTL DEF Spec
=============================================================================

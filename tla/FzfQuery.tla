------------------------------ MODULE FzfQuery ------------------------------
(***************************************************************************)
(* The queries of telescope-fzf-native (src/fzf.c).  fzf_parse_pattern     *)
(* reads a query token by token into a pattern: a sequence of sets of      *)
(* terms, all sets must be satisfied, each by one of its terms.            *)
(* fzf_get_score and fzf_get_positions then ask each term's matcher for a  *)
(* text, set by set.  The fuzzy matcher answers anything its promise       *)
(* allows (FzfFuzzyV2).                                                    *)
(*                                                                         *)
(* A query is written by a user or typed without a meaning in mind; written *)
(* keeps what was meant.                                                   *)
(***************************************************************************)
EXTENDS FzfMatchers

CONSTANTS
  Cap,       \* how many 16 bit numbers the slab holds
  Texts,     \* the texts matched, none of them blank
  Meanings,  \* what users write: sequences of sets (sequences) of written terms
  Typed      \* other queries: sequences of characters

Blank(string) == \A k \in DOMAIN string : IsSpace(string[k])

IsSequence(s) == s \in Seq(Range(s))

ASSUME CapAssumption == Cap \in Nat
ASSUME TextsAssumption == \A text \in Texts : IsSequence(text) /\ ~Blank(text)
ASSUME QueriesAssumption ==
  /\ \A string \in Typed : IsSequence(string)
  /\ \A meaning \in Meanings :
       /\ IsSequence(meaning)
       /\ \A k \in DOMAIN meaning :
            /\ IsSequence(meaning[k])
            /\ \A l \in DOMAIN meaning[k] : IsSequence(meaning[k][l].body)

\* tolower leaves the marks of the syntax alone and makes none of them.
ASSUME MarksAssumption == {"!", "'", "^", "$"} \cap (DOMAIN LowerOf \cup Range(LowerOf)) = {}

NoMeaning == "none"

VARIABLES
  written,       \* what the query means, or NoMeaning
  query, fuzzy, case_mode,
  pc,            \* "parse", "ready", "inverse", "score", "positions" or "done"
  rest,          \* what strtok has not looked at yet
  set, switch_set, after_bar,
  pattern, only_inv,
  call,          \* "score" or "positions", and the text
  i, j,          \* the set and the term to be looked at
  matched, current_score, total_score,
  all_pos,
  answer         \* whether positions were found; for a score, it itself
parseVars == <<rest, set, switch_set, after_bar, pattern, only_inv>>
loopVars == <<i, j, matched, current_score, total_score, all_pos>>
vars == <<written, query, fuzzy, case_mode, pc, parseVars, call, loopVars, answer>>

-----------------------------------------------------------------------------
\* Writing a query, as the README tells.

\* A blank of a term is written with a backslash.
Quoted(body) == FlattenSeq([k \in DOMAIN body |-> IF IsSpace(body[k]) THEN <<"\\", " ">> ELSE <<body[k]>>])

\* A written term: its body, whether it is inverse, and the matcher meant.  "Items
\* that include" it want a quote where the default is another (`'wild`), none where
\* it is inverse (`!fire`) or where the user set fuzzy to FALSE ("false will only do
\* exact matching").
RenderTerm(term) ==
  (IF term.inv THEN <<"!">> ELSE <<>>)
  \o (CASE term.kind \in {"prefix", "equal"} -> <<"^">>
        [] term.kind = "exact" /\ fuzzy /\ ~term.inv -> <<"'">>
        [] OTHER -> <<>>)
  \o Quoted(term.body)
  \o (IF term.kind \in {"suffix", "equal"} THEN <<"$">> ELSE <<>>)

Joined(strings, between) ==
  FlattenSeq([k \in DOMAIN strings |-> IF k = 1 THEN strings[k] ELSE between \o strings[k]])

Render(meaning) ==
  Joined([k \in DOMAIN meaning |->
            Joined([l \in DOMAIN meaning[k] |-> RenderTerm(meaning[k][l])], <<" ", "|", " ">>)],
         <<" ">>)

\* Written clearly: fuzzy matching is asked for only where the README has a way to;
\* a body does not begin or end with a mark that could be taken for the term's own, has
\* no tab and is no lone bar; a backslash at its end would quote the blank behind the
\* term.
ClearTerm(term) ==
  /\ term.kind \in {"fuzzy", "exact", "prefix", "suffix", "equal"} /\ term.inv \in BOOLEAN
  /\ term.kind = "fuzzy" => fuzzy /\ ~term.inv
  /\ IsSequence(term.body) /\ term.body # <<>> /\ term.body # <<"|">>
  /\ term.body[1] \notin {"!", "'", "^"}
  /\ term.body[Len(term.body)] \notin {"$", "\\"}
  /\ \A k \in 1 .. Len(term.body) : term.body[k] # "\t"
ClearSet(terms) == IsSequence(terms) /\ terms # <<>> /\ \A l \in DOMAIN terms : ClearTerm(terms[l])
ClearMeaning(meaning) == IsSequence(meaning) /\ \A k \in DOMAIN meaning : ClearSet(meaning[k])

-----------------------------------------------------------------------------
\* Reading it.

\* Mutant of Escaped: no blank is escaped
EscapedNot(string) == string

\* str_replace: a backslash with a blank behind it becomes a tab.
Escaped(string) ==
  LET Pair(k) == k \in 1 .. Len(string) - 1 /\ string[k] = "\\" /\ IsSpace(string[k + 1])
  IN  FlattenSeq([k \in DOMAIN string |->
        IF Pair(k) THEN <<"\t">> ELSE IF Pair(k - 1) THEN <<>> ELSE <<string[k]>>])

\* strtok: the first token, and what is behind it
TokenSpan(string) ==
  CHOOSE span \in (DOMAIN string) \X (DOMAIN string) :
    /\ span[1] <= span[2]
    /\ Blank(SubSeq(string, 1, span[1] - 1))
    /\ \A k \in span[1] .. span[2] : ~IsSpace(string[k])
    /\ span[2] < Len(string) => IsSpace(string[span[2] + 1])

Token(string) == SubSeq(string, TokenSpan(string)[1], TokenSpan(string)[2])
Behind(string) == SubSeq(string, TokenSpan(string)[2] + 1, Len(string))

LowerText(string) == [k \in DOMAIN string |-> Fold(FALSE, string[k])]

HasPrefix(string, ch) == string # <<>> /\ Head(string) = ch
HasSuffix(string, ch) == string # <<>> /\ Last(string) = ch

\* A token without its tabs and, where case does not count, in lower case, as a
\* term: what stands before and behind its body selects the matcher.
TermOf(text, sensitive) ==
  LET inv == HasPrefix(text, "!")
      body == IF inv THEN Tail(text) ELSE text
      dollar == body # <<"$">> /\ HasSuffix(body, "$")
      short == IF dollar THEN Front(body) ELSE body
      quote == HasPrefix(short, "'")
      caret == HasPrefix(short, "^")
  IN  [kind |-> CASE quote -> IF fuzzy /\ ~inv THEN "exact" ELSE "fuzzy"
                  [] caret -> IF dollar THEN "equal" ELSE "prefix"
                  [] dollar /\ ~quote /\ ~caret -> "suffix"
                  [] OTHER -> IF fuzzy /\ ~inv THEN "fuzzy" ELSE "exact",
       inv |-> inv,
       sensitive |-> sensitive,
       body |-> IF quote \/ caret THEN Tail(short) ELSE short]

ReadTerm(token) ==
  LET plain == [k \in DOMAIN token |-> IF token[k] = "\t" THEN " " ELSE token[k]]
      sensitive == \/ case_mode = "respect"
                   \/ case_mode = "smart" /\ plain # LowerText(plain)
  IN  TermOf(IF sensitive THEN plain ELSE LowerText(plain), sensitive)

Init ==
  /\ fuzzy \in BOOLEAN
  /\ case_mode \in {"smart", "ignore", "respect"}
  /\ \/ written \in Meanings /\ ClearMeaning(written) /\ query = Render(written)
     \/ written = NoMeaning /\ query \in Typed
  /\ pc = "parse"
  /\ rest = Escaped(query)
  /\ set = <<>> /\ switch_set = FALSE /\ after_bar = FALSE
  /\ pattern = <<>> /\ only_inv = FALSE
  /\ call = [op |-> "none", text |-> <<>>]
  /\ i = 1 /\ j = 1
  /\ matched = FALSE /\ current_score = 0 /\ total_score = 0 /\ all_pos = {}
  /\ answer = [found |-> FALSE, score |-> 0]

ParseUnchanged == UNCHANGED <<written, query, fuzzy, case_mode, call, loopVars, answer>>

IsBar(token) == set # <<>> /\ ~after_bar /\ token = <<"|">>

\* Mutant of ReadBar: the next term opens a set of its own
ReadBarSwitches ==
  /\ pc = "parse" /\ ~Blank(rest)
  /\ IsBar(Token(rest))
  /\ after_bar' = TRUE /\ rest' = Behind(rest)
  /\ UNCHANGED <<pc, set, switch_set, pattern, only_inv>>
  /\ ParseUnchanged

\* A bar between terms: the next one joins the set.
ReadBar ==
  /\ pc = "parse" /\ ~Blank(rest)
  /\ IsBar(Token(rest))
  /\ switch_set' = FALSE /\ after_bar' = TRUE
  /\ rest' = Behind(rest)
  /\ UNCHANGED <<pc, set, pattern, only_inv>>
  /\ ParseUnchanged

\* Any other token is a term, unless nothing is left of it.
ReadToken ==
  /\ pc = "parse" /\ ~Blank(rest)
  /\ ~IsBar(Token(rest))
  /\ after_bar' = FALSE
  /\ rest' = Behind(rest)
  /\ LET term == ReadTerm(Token(rest))
     IN  \/ /\ term.body = <<>>
            /\ UNCHANGED <<set, switch_set, pattern>>
         \/ /\ term.body # <<>>
            /\ switch_set' = TRUE
            /\ set' = IF switch_set THEN <<term>> ELSE Append(set, term)
            /\ pattern' = IF switch_set THEN Append(pattern, set) ELSE pattern
  /\ UNCHANGED <<pc, only_inv>>
  /\ ParseUnchanged

\* The empty query is not looked at: only_inv stays FALSE.
ParseDone ==
  /\ pc = "parse" /\ Blank(rest)
  /\ pattern' = IF set # <<>> THEN Append(pattern, set) ELSE pattern
  /\ only_inv' = (query # <<>> /\ \A k \in DOMAIN pattern' : Len(pattern'[k]) = 1 /\ pattern'[k][1].inv)
  /\ pc' = "ready"
  /\ UNCHANGED <<rest, set, switch_set, after_bar>>
  /\ ParseUnchanged

-----------------------------------------------------------------------------
\* Asking for a text.

\* CALL_ALG
Answers(term) ==
  CASE term.kind = "fuzzy"  -> FuzzyMatches(Cap, term.sensitive, call.text, term.body)
    [] term.kind = "exact"  -> {ExactMatch(term.sensitive, call.text, term.body)}
    [] term.kind = "prefix" -> {PrefixMatch(term.sensitive, call.text, term.body)}
    [] term.kind = "suffix" -> {SuffixMatch(term.sensitive, call.text, term.body)}
    [] term.kind = "equal"  -> {EqualMatch(term.sensitive, call.text, term.body)}

CallUnchanged == UNCHANGED <<written, query, fuzzy, case_mode, parseVars, call>>

Finish(found, score) == pc' = "done" /\ answer' = [found |-> found, score |-> score]

\* fzf_get_score or fzf_get_positions is called.
Call(op, text) ==
  /\ pc = "ready"
  /\ call' = [op |-> op, text |-> text]
  /\ \/ /\ pattern = <<>>
        /\ Finish(FALSE, IF op = "score" THEN 1 ELSE 0)
     \/ /\ pattern # <<>>
        /\ pc' = IF op = "score" /\ only_inv THEN "inverse" ELSE op
        /\ answer' = answer
  /\ UNCHANGED <<written, query, fuzzy, case_mode, parseVars, loopVars>>

\* Only inverse terms: no matcher may have found anything.
InverseTerm ==
  /\ pc = "inverse" /\ i <= Len(pattern)
  /\ \E res \in Answers(pattern[i][1]) : total_score' = total_score + res.score
  /\ i' = i + 1
  /\ UNCHANGED <<pc, j, matched, current_score, all_pos, answer>>
  /\ CallUnchanged

InverseDone ==
  /\ pc = "inverse" /\ i > Len(pattern)
  /\ Finish(FALSE, IF total_score > 0 THEN 0 ELSE 1)
  /\ UNCHANGED loopVars
  /\ CallUnchanged

AtTerm == i <= Len(pattern) /\ j <= Len(pattern[i])
AtSetEnd == i <= Len(pattern) /\ j > Len(pattern[i])

\* Mutant of ScoreTerm: an inverse term that is found counts as matched
ScoreTermInverted ==
  /\ pc = "score" /\ AtTerm
  /\ \E res \in Answers(pattern[i][j]) :
       /\ current_score' = IF res.start >= 0 THEN res.score ELSE current_score
       /\ matched' = (matched \/ res.start >= 0)
  /\ j' = j + 1
  /\ UNCHANGED <<pc, i, total_score, all_pos, answer>>
  /\ CallUnchanged

\* A term that is found ends its set.  An inverse one that is not satisfies it, but
\* the terms behind it are still asked.
ScoreTerm ==
  /\ pc = "score" /\ AtTerm
  /\ LET term == pattern[i][j]
     IN  \E res \in Answers(term) :
           \/ /\ res.start >= 0 /\ ~term.inv
              /\ current_score' = res.score /\ matched' = TRUE
              /\ j' = Len(pattern[i]) + 1
           \/ /\ res.start >= 0 /\ term.inv
              /\ j' = j + 1
              /\ UNCHANGED <<current_score, matched>>
           \/ /\ res.start < 0 /\ term.inv
              /\ current_score' = 0 /\ matched' = TRUE
              /\ j' = j + 1
           \/ /\ res.start < 0 /\ ~term.inv
              /\ j' = j + 1
              /\ UNCHANGED <<current_score, matched>>
  /\ UNCHANGED <<pc, i, total_score, all_pos, answer>>
  /\ CallUnchanged

NextSet ==
  /\ i' = i + 1 /\ j' = 1
  /\ matched' = FALSE /\ current_score' = 0

ScoreSetDone ==
  /\ pc = "score" /\ AtSetEnd
  /\ \/ /\ matched
        /\ total_score' = total_score + current_score
        /\ NextSet
        /\ UNCHANGED <<pc, all_pos, answer>>
     \/ /\ ~matched
        /\ Finish(FALSE, 0)
        /\ UNCHANGED loopVars
  /\ CallUnchanged

ScoreDone ==
  /\ pc = "score" /\ i > Len(pattern)
  /\ Finish(FALSE, total_score)
  /\ UNCHANGED loopVars
  /\ CallUnchanged

\* Mutant of PositionsTerm: only terms that are found satisfy their set
PositionsTermFound ==
  /\ pc = "positions" /\ AtTerm
  /\ \E res \in Answers(pattern[i][j]) :
       /\ matched' = (matched \/ (res.start >= 0 /\ ~pattern[i][j].inv))
       /\ all_pos' = IF pattern[i][j].inv THEN all_pos ELSE all_pos \cup res.pos
  /\ j' = j + 1
  /\ UNCHANGED <<pc, i, current_score, total_score, answer>>
  /\ CallUnchanged

\* The columns of the first term found are those to highlight.
PositionsTerm ==
  /\ pc = "positions" /\ AtTerm
  /\ LET term == pattern[i][j]
     IN  \E res \in Answers(term) :
           \/ /\ term.inv
              /\ matched' = (matched \/ res.start < 0)
              /\ j' = j + 1 /\ all_pos' = all_pos
           \/ /\ ~term.inv /\ res.start >= 0
              /\ matched' = TRUE
              /\ all_pos' = all_pos \cup res.pos
              /\ j' = Len(pattern[i]) + 1
           \/ /\ ~term.inv /\ res.start < 0
              /\ j' = j + 1
              /\ UNCHANGED <<matched, all_pos>>
  /\ UNCHANGED <<pc, i, current_score, total_score, answer>>
  /\ CallUnchanged

PositionsSetDone ==
  /\ pc = "positions" /\ AtSetEnd
  /\ \/ /\ matched
        /\ NextSet
        /\ UNCHANGED <<pc, total_score, all_pos, answer>>
     \/ /\ ~matched
        /\ Finish(FALSE, 0)
        /\ UNCHANGED loopVars
  /\ CallUnchanged

PositionsDone ==
  /\ pc = "positions" /\ i > Len(pattern)
  /\ Finish(TRUE, 0)
  /\ UNCHANGED loopVars
  /\ CallUnchanged

Parse == ReadBar \/ ReadToken \/ ParseDone
Ask ==
  \/ \E op \in {"score", "positions"}, text \in Texts : Call(op, text)
  \/ InverseTerm \/ InverseDone
  \/ ScoreTerm \/ ScoreSetDone \/ ScoreDone
  \/ PositionsTerm \/ PositionsSetDone \/ PositionsDone

Next == Parse \/ Ask

Spec == Init /\ [][Next]_vars

-----------------------------------------------------------------------------
\* What queries mean.

Parsed == pc # "parse"

\* A query written as the README tells is read as it was meant: its sets and terms,
\* their matchers and bodies with blanks and case, whether fuzzy is set or not.
ParsesAsWritten ==
  (Parsed /\ written # NoMeaning) =>
    /\ Len(pattern) = Len(written)
    /\ \A k \in DOMAIN pattern :
         /\ Len(pattern[k]) = Len(written[k])
         /\ \A l \in DOMAIN pattern[k] :
              LET term == pattern[k][l]
                  meant == written[k][l]
              IN  /\ term.kind = meant.kind /\ term.inv = meant.inv
                  /\ term.sensitive = (case_mode = "respect"
                       \/ (case_mode = "smart" /\ meant.body # LowerText(meant.body)))
                  /\ term.body = IF term.sensitive THEN meant.body ELSE LowerText(meant.body)

\* Where the tokens of a string begin, and the one that begins at k: a declarative
\* view of what strtok does.
Begins(string) ==
  {k \in DOMAIN string : ~IsSpace(string[k]) /\ (k > 1 => IsSpace(string[k - 1]))}
TokenFrom(string, k) ==
  SubSeq(string, k, CHOOSE last \in k .. Len(string) :
                      /\ \A l \in k .. last : ~IsSpace(string[l])
                      /\ last < Len(string) => IsSpace(string[last + 1]))

\* Whatever is typed: a bar separates if something is left of a token before it and
\* the token just before it does not separate; otherwise it is a term.  Tokens
\* nothing is left of are no terms.  A term opens a set unless a bar separates it
\* from the term before it.  The sets are not empty, and each term is found in the
\* set that was open, at its place.
BarsJoin ==
  Parsed =>
    LET whole == Escaped(query)
        begins == Begins(whole)
        term == [k \in begins |-> ReadTerm(TokenFrom(whole, k))]
        bare == {k \in begins : term[k].body = <<>>}
        \* the last token that begins at k or before separates
        separates[k \in 0 .. Len(whole)] ==
          IF k = 0 THEN FALSE
          ELSE IF k \notin begins THEN separates[k - 1]
          ELSE /\ TokenFrom(whole, k) = <<"|">> /\ ~separates[k - 1]
               /\ \E l \in begins \ bare : l < k
        bars == {k \in begins : separates[k]}
        terms == begins \ (bars \cup bare)
        opening == {k \in terms : \A bar \in bars : bar < k => \E l \in terms : bar < l /\ l < k}
        SetOf(k) == Cardinality({l \in opening : l <= k})
        PlaceOf(k) == Cardinality({l \in terms : l <= k /\ SetOf(l) = SetOf(k)})
    IN  /\ Len(pattern) = Cardinality(opening)
        /\ \A n \in DOMAIN pattern :
             pattern[n] # <<>> /\ Len(pattern[n]) = Cardinality({k \in terms : SetOf(k) = n})
        /\ \A k \in terms : pattern[SetOf(k)][PlaceOf(k)] = term[k]

\* A term is satisfied: what the README's table says of its kind.
Trimmed(text) ==
  SubSeq(text, LeadingWhitespaces(text) + 1, Len(text) - TrailingWhitespaces(text))
Satisfied(term) ==
  LET text == [k \in DOMAIN call.text |-> Fold(term.sensitive, call.text[k])]
      starts == IF IsSpace(Head(term.body)) THEN text ELSE SubSeq(text, LeadingWhitespaces(text) + 1, Len(text))
      ends == IF IsSpace(Last(term.body)) THEN text ELSE SubSeq(text, 1, Len(text) - TrailingWhitespaces(text))
      found == CASE term.kind = "fuzzy"  -> Occurrences(term.sensitive, call.text, term.body) # {}
                 [] term.kind = "exact"  -> term.body \in SubSeqs(text)
                 [] term.kind = "prefix" -> IsPrefix(term.body, starts)
                 [] term.kind = "suffix" -> IsSuffix(term.body, ends)
                 [] term.kind = "equal"  -> term.body = Trimmed(text)
  IN  found # term.inv

QuerySatisfied == \A k \in DOMAIN pattern : \E l \in DOMAIN pattern[k] : Satisfied(pattern[k][l])

\* Where the tables do not fit every occurrence has a positive score: true of texts
\* that are not very long, for in those its gaps may cost more than its characters
\* bring.
PositiveScores ==
  \A text \in Texts : \A cols \in SUBSET Columns(text) :
    (cols # {} /\ Len(text) * Cardinality(cols) > Cap) => ScoreAt(text, cols) > 0

\* A text is kept, with a positive score, exactly if it satisfies the query, as long as
\* no inverse term is one of several alternatives: fzf_get_score gives such a term no
\* score, and `!a | b` keeps no text for the lack of an a.
InverseAlone == \A k \in DOMAIN pattern : \A l \in DOMAIN pattern[k] :
                  pattern[k][l].inv => Len(pattern[k]) = 1
ScoreIffSatisfied ==
  (pc = "done" /\ call.op = "score" /\ InverseAlone) => (answer.score > 0 <=> QuerySatisfied)

\* Positions are returned exactly for the texts that satisfy the query, and spell a
\* term of each set that has no satisfied inverse term.
PositionsIffSatisfied ==
  (pc = "done" /\ call.op = "positions" /\ pattern # <<>>) =>
    /\ answer.found <=> QuerySatisfied
    /\ answer.found => \A k \in DOMAIN pattern : \E l \in DOMAIN pattern[k] :
         LET term == pattern[k][l]
         IN  /\ Satisfied(term)
             /\ term.inv \/ \E cols \in Occurrences(term.sensitive, call.text, term.body) :
                              cols \subseteq all_pos
=============================================================================

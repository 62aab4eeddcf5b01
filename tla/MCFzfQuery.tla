----------------------------- MODULE MCFzfQuery -----------------------------
EXTENDS FzfQuery
MCLowerOf == "A" :> "a" @@ "B" :> "b"
MCTexts == {<<"A", "b">>, <<" ", "a", "b">>, <<"b", " ">>, <<"a", "b", "a">>}
\* what ScoreRight of FzfQueryProofs assumes
ASSUME ScoresArePositive == PositiveScores
Kinds == {"fuzzy", "exact", "prefix", "suffix", "equal"}
Bodies == {<<"a">>, <<"b">>, <<"a", "b">>, <<"A">>, <<"b", " ">>}
Terms == [kind : Kinds, inv : BOOLEAN, body : Bodies]
Simple == [kind : {"fuzzy", "exact"}, inv : BOOLEAN, body : {<<"a">>, <<"b">>}]
\* one term; two sets; one set of two; a set of two and one of one, either way round
MCMeanings ==
  {<<>>} \cup {<< <<t>> >> : t \in Terms}
  \cup {<< <<t>>, <<u>> >> : t \in Terms, u \in Simple}
  \cup {<< <<t, u>> >> : t \in Terms, u \in Simple}
  \cup {<< <<t, u>>, <<v>> >> : t \in Simple, u \in Simple, v \in Simple}
  \cup {<< <<v>>, <<t, u>> >> : t \in Simple, u \in Simple, v \in Simple}
\* up to four of the strings the parser looks for
MCTyped ==
  {FlattenSeq(q) : q \in SeqOf({<<"a">>, <<" ">>, <<" ", "|", " ">>, <<"!">>, <<"'">>, <<"$">>, <<"^">>, <<"\\">>}, 4)}
=============================================================================

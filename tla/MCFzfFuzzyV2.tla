---------------------------- MODULE MCFzfFuzzyV2 ----------------------------
EXTENDS FzfFuzzyV2
MCLowerOf == "A" :> "a" @@ "B" :> "b"
\* in this one the gap costs more than the first character brings
LongGap == <<"-", "b", "a">> \o [k \in 1 .. 15 |-> "0"] \o <<"b">>
MCTexts ==
  (SeqOf({"a", "b", "A", "-"}, 4) \cup SeqOf({"a", "b", "-"}, 5) \cup SeqOf({"a", "A", "-"}, 5)
   \cup {LongGap}) \ {<<>>}
MCPatterns == (SeqOf({"a", "b"}, 3) \ {<<>>}) \cup {<<"-", "a">>, <<"b", "-">>, <<"a", "A">>}
=============================================================================

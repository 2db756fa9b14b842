----------------------------- MODULE MCTplExec -----------------------------
(* Files for TplExec: a page, the mixins list and card, the block b that   *)
(* the page passes and the block c that list passes.                       *)
EXTENDS TplExec

\* A page with one datum, $xs, under its name and again with a small letter.
MCGlobals == <<Binding("$xs", "pair"), Binding("$xs", "pair"), Binding("$global", "map")>>
MCItems == [none |-> <<>>, pair |-> <<"one", "two">>]

May(i) == If(<<i>>, <<>>)
Texts(I) == {<<x>> : x \in I} \cup {<<x, y>> : x \in I, y \in I}
Files(page, list, card, b, c) ==
    {[page |-> p, list |-> l, card |-> k, b |-> x, c |-> y] :
     p \in page, l \in list, k \in card, x \in b, y \in c}

\* Who walks what: a call that stands twice is a loop of two rounds.
MCScopes ==
    Files({<<May(Call("list", "b"))>>, <<Call("list", "b"), May(Call("list", "b"))>>},
          Texts({May(Block), May(Call("card", "c")), Call("card", Null), Call("undefined", "c")}),
          {<<Block>>, <<Block, Block>>},
          {<<>>, <<Call("card", Null)>>},
          {<<>>, <<Block>>})
    \cup \* list calls itself, the depth ends it
    Files({<<Call("list", "b")>>}, {<<Block, Call("list", "c")>>}, {<<>>}, {<<>>}, {<<>>})

\* What the templates do with their variables: $x belongs to whoever sets it.
Steps(v) == {Set("$x", v), Set("$xs", v), Show,
             Each(<<"$x">>, "pair", <<Set("$y", v)>>)}
MCVariables ==
    Files({<<Set("$x", "p"), Set("$y", "p"), Call("list", "b"), Set("$z", "p"), Show>>,
           <<Try(<<Set("$x", "p"), Call("list", "b")>>, "$e", <<Set("$y", "p")>>), Show>>},
          {<<i, Block, j>> : i \in Steps("l"), j \in {Set("$x", "m"), Call("card", "c")}},
          {<<Set("$x", "k"), Block>>},
          {<<i, j>> : i \in Steps("b"), j \in Steps("b2")},
          {<<i>> : i \in Steps("c")})

\* Loops, conditions and exceptions in one another.
Inner == {Show, Set("$x", "i"), Call("card", Null), Each(<<"$k", "$x">>, "$xs", <<Show>>),
          Each(<<"$x">>, "$x", <<Show>>), Each(<<"$v">>, "$x", <<Show>>),
          Each(<<"$v">>, "none", <<Show>>), Try(<<Show>>, "$x", <<Show>>), While(<<Show>>)}
Outer(i) == {While(<<i>>), Each(<<"$x">>, "pair", <<i>>), Try(<<i, i>>, "$e", <<i>>), If(<<i>>, <<Show>>)}
MCControl ==
    Files({<<Set("$x", "p"), o, Show>> : o \in UNION {Outer(i) : i \in Inner}},
          {<<>>}, {<<Set("$x", "k"), Show>>}, {<<>>}, {<<>>})
    \cup \* a mixin that calls itself in a try and in a loop
    Files({<<Call("card", Null)>>}, {<<>>},
          {<<Try(<<Call("card", Null)>>, "$e", <<Show>>), Set("$x", "k")>>,
           <<Each(<<"$x">>, "pair", <<Call("card", Null)>>)>>}, {<<>>}, {<<>>})

\* Loops over the map, which is a literal with keys, with one of them twice,
\* or without any, or data.
MCMaps == {[keys |-> {"b", "a"}, order |-> <<"b", "a">>], [keys |-> {"b", "a"}, order |-> <<"b", "a", "b">>],
           [keys |-> {}, order |-> <<>>], [keys |-> {"a", "b"}, order |-> <<>>]}
MCBefore(a, b) == a # b /\ (a = "a" \/ b = "c")
Loops == {Each(<<"$x">>, "map", <<Put("c")>>), ForIn("$k", <<Put("b")>>), May(Put("c")), Put("a"), ForIn("$k", <<>>)}
MCMapLoops ==
    Files({<<i, j, k, Each(<<"$k", "$x">>, "$m", <<Show>>)>> : i \in Loops, j \in Loops,
                                                             k \in {Set("$m", "map"), Set("$m", "none")}},
          {<<>>}, {<<>>}, {<<>>}, {<<>>})

MCPrograms == MCScopes \cup MCVariables \cup MCControl \cup MCMapLoops

\* list calls itself and passes on the block it was given.
MCRecursive ==
    Files({<<Call("list", "b")>>}, {<<May(Call("list", "c")), Block>>}, {<<>>}, {<<>>}, {<<Block>>})

\* The instructions of a list, with those of the lists in them.
RECURSIVE Within(_)
Within(list) == ToSet(list) \cup UNION {Within(i.list) \cup Within(i.else) : i \in ToSet(list)}
Templates == {"page", "list", "card", "b", "c"}
All(programs) == UNION {Within(list) : list \in UNION {{p[t] : p \in programs} : t \in Templates}}
MCInstructions == All(MCPrograms)
MCRecursiveInstructions == All(MCRecursive)
=============================================================================

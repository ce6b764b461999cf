----------------------------- MODULE MCEnvLines -----------------------------
(***************************************************************************)
(* Two keys, K1 that the protocol's own line B1 routes and K2 routed by    *)
(* B2, another variable X, and up to two more lines in every order, three  *)
(* of those that lead from one name to another.                            *)
(***************************************************************************)
EXTENDS EnvLines

Slots2 == [v \in {"K1", "K2"} |-> IF v = "K1" THEN "B1" ELSE "B2"]

Aside(line, text) == [line EXCEPT !.aside = text]

Set(n, text) == TextLine("set", n, Literal(text))
KeyLine(v) == Set(v, KeyText(v))
Refers(n, m) == TextLine("set", n, RefTo(m))
Hidden(n, value) == TextLine("hidden", n, value)
Note(text) == TextLine("note", "", Literal(text))

MoreLines ==
    {KeyLine("K1"), Hidden("K1", Literal(KeyText("K1"))), Note(KeyText("K1")),
     Aside(Set("X", Url("u")), KeyText("K1")),
     Set("B1", Url("u")), Set("B1", Awkward), Set("B1", Keyed("K1")), Refers("B1", "X"),
     Refers("B1", "B2"), TextLine("bare", "B1", Literal(Empty)), Hidden("B1", Literal(Url("w"))),
     Set("B2", Url("w")), Refers("B2", "B1"),
     Refers("X", "B2"), Refers("X", "B1"), Hidden("X", RefTo("B2"))}

OpenLines ==
    {TextLine("open", "B1", Literal(Url("u"))), Set("B2", Url("w")), Set("X", Url("w")),
     Note(Url("u"))}

\* Those that lead from one name to another, for the longer files.
ChainLines ==
    {Set("B1", Url("u")), Set("B1", Keyed("K1")), Refers("B1", "X"), Set("B2", Url("w")),
     Refers("B2", "B1"), Refers("X", "B2"), Hidden("X", RefTo("B2"))}

FilesOf(lines, n) ==
    {keys \o more : keys \in {<<KeyLine("K1")>>, <<KeyLine("K1"), KeyLine("K2")>>},
                    more \in UNION {[1..m -> lines] : m \in 0..n}}

PlainFiles == FilesOf(MoreLines, 2) \cup FilesOf(ChainLines, 3)
FilesWithOpenQuote ==
    {f \in FilesOf(OpenLines, 3) : Cardinality({i \in DOMAIN f : f[i].shape = "open"}) <= 1}
=============================================================================

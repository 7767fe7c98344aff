------------------------------ MODULE MCParser ------------------------------
EXTENDS Parser

L(k, w, a, c) == [k |-> k, w |-> w, a |-> a, cont |-> c]
Blank == L("blank", "", "none", FALSE)
Comment == L("comment", "", "none", FALSE)
Text == L("text", "", "none", FALSE)
KV(w) == L("kv", w, "none", FALSE)
Sect(w, a) == L("sect", w, a, FALSE)

\* Header words: a valid one, one valid through the digit fold, an unknown.
MCFolded == [w \in {"", "bootstrap", "stage", "otherurl1", "bogus"} |->
                IF w = "otherurl1" THEN "otherurl&n" ELSE w]

\* Recipes without continuation lines.
MCLines ==
    {Blank, Comment, Text, KV("bootstrap"), L("kve", "stage", "none", FALSE),
     KV("otherurl1"), KV("bogus"),
     Sect("post", "none"), Sect("post", "a"), Sect("files", "none"),
     Sect("files", "a"), Sect("appinstall", "a"), Sect("appinstall", "none"),
     Sect("bogus", "none")}

\* Header lines with continuations.
MCContLines ==
    {Blank, Comment, Text, KV("bootstrap"), KV("stage"),
     L("kv", "bootstrap", "none", TRUE), L("kve", "stage", "none", TRUE),
     L("text", "", "none", TRUE), Sect("post", "none")}
====

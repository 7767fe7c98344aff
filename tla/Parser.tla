------------------------------- MODULE Parser -------------------------------
(***************************************************************************)
(* The recipe parser of part_002 (package parser): All splits a recipe on  *)
(* every line that begins with "bootstrap:", and ParseDefinitionFile turns *)
(* each piece into a Definition through scanDefinitionFile, doSections,    *)
(* doHeader, parseTokenSection and populateDefinition.                     *)
(*                                                                         *)
(* A recipe is a sequence of abstract lines.  A line is a record whose     *)
(* kind k is what the parser tells apart:                                  *)
(*   "blank"    only whitespace;                                           *)
(*   "comment"  first non-blank character is '#';                          *)
(*   "kv"       "w: value", key w, value non-empty;                        *)
(*   "kve"      "w:" with an empty value;                                  *)
(*   "text"     a line without ':' (a script line);                        *)
(*   "sect"     first word "%w", with a second word a ("none" if absent).  *)
(* cont says the line ends in a backslash.  A header value is the sequence *)
(* of lines that contributed a piece of it.  The loops of the code are     *)
(* folds over the lines; All's loop over the stages is the state machine.  *)
(***************************************************************************)
EXTENDS Integers, SequencesExt, FiniteSets, TLC

CONSTANTS
    Lines,      \* the lines recipes are made of
    MaxLines,   \* the longest recipe checked
    Folded      \* what `\d+$` -> "&n" makes of each header word

Recipes == UNION {[1..n -> Lines] : n \in 0..MaxLines}

\* validHeaders, validSections and appSections, as listed in the code.
ValidHeaders == {"bootstrap", "from", "includecmd", "mirrorurl", "updateurl",
    "osversion", "include", "library", "registry", "namespace", "stage",
    "product", "user", "regcode", "productpgp", "registerurl", "modules",
    "otherurl&n", "fingerprints", "confurl", "setopt", "target", "frontend",
    "filename", "buildargs"}
ValidSections == {"help", "setup", "files", "labels", "environment", "pre",
    "post", "runscript", "test", "startscript", "arguments"}
AppSections == {"appinstall", "applabels", "appfiles", "appenv", "apptest",
    "apphelp", "apprun", "appstart"}

IsSect(l) == l.k = "sect"
Significant(l) == l.k \notin {"blank", "comment"}
IsKeyLine(l) == l.k \in {"kv", "kve"}
\* The regexp (?mi)^bootstrap: of All.
IsBootstrap(l) == IsKeyLine(l) /\ l.w = "bootstrap"

(***************************************************************************)
(* scanDefinitionFile: a token is the header (the lines before the first   *)
(* section line) or one section line with the lines that follow it.        *)
(***************************************************************************)
ScanStep(toks, l) ==
    IF IsSect(l) \/ toks = <<>> THEN Append(toks, <<l>>)
    ELSE [toks EXCEPT ![Len(toks)] = Append(@, l)]
Tokens(ls) == FoldLeft(ScanStep, <<>>, ls)

\* strings.TrimSpace on a token: leading and trailing blank lines go.
RECURSIVE TrimSpace(_)
TrimSpace(t) ==
    IF t # <<>> /\ Head(t).k = "blank" THEN TrimSpace(Tail(t))
    ELSE IF t # <<>> /\ Last(t).k = "blank" THEN TrimSpace(Front(t))
    ELSE t

(***************************************************************************)
(* doHeader, one line of its loop at a time.  d.Header is still nil when   *)
(* doHeader runs, so the assignment d.Header[keyCont] = valCont on a blank *)
(* or comment line after a continuation panics.                            *)
(***************************************************************************)
NoHeader == [w \in {} |-> <<>>]
HdrStart == [st |-> "ok", header |-> NoHeader, keyCont |-> "", valCont |-> <<>>]
KeyPiece(l) == IF l.k = "kve" THEN <<>> ELSE <<l>>
ValidKey(key) ==
    key \in ValidHeaders \/ (Folded[key] # key /\ Folded[key] \in ValidHeaders)
HeaderLine(s, l) ==
    IF s.st # "ok" THEN s
    ELSE IF ~Significant(l)
         THEN IF s.keyCont # "" THEN [s EXCEPT !.st = "panic"] ELSE s
    ELSE IF s.valCont = <<>> /\ ~IsKeyLine(l) THEN [s EXCEPT !.st = "novalue"]
    ELSE LET first == s.valCont = <<>>
             key == IF first THEN l.w ELSE s.keyCont
             val == IF first THEN KeyPiece(l) ELSE s.valCont \o <<l>>
         IN  IF l.cont THEN [s EXCEPT !.keyCont = key, !.valCont = val]
             ELSE IF ~ValidKey(key) THEN [s EXCEPT !.st = "badkey"]
             ELSE [s EXCEPT !.header = (key :> val) @@ s.header,
                            !.keyCont = IF first THEN s.keyCont ELSE "",
                            !.valCont = <<>>]
DoHeader(t) == FoldLeft(HeaderLine, HdrStart, TrimSpace(t))

(***************************************************************************)
(* parseTokenSection and populateDefinition.  A section key is its name,   *)
(* with the app name for an app section.                                   *)
(***************************************************************************)
Key(l) == [n |-> l.w, a |-> IF l.w \in AppSections THEN l.a ELSE "none"]
SectKeys == {Key(l) : l \in {x \in Lines : IsSect(x)}}
NoScript == [args |-> "none", body |-> <<>>]
Parsed0 == [st |-> "ok", hdr |-> NoHeader, keys |-> {}, files |-> <<>>,
            apps |-> <<>>, scripts |-> [k \in SectKeys |-> NoScript]]
\* The lines of a %files body that become file transports.
FileLines(b) == SelectSeq(b, Significant)
\* Mutant: the app section's name check is dropped.
NeedsAppNameDropped(l) == TRUE
NeedsAppName(l) == l.a # "none"
\* Mutant: a repeated section replaces the script instead of appending to it.
AppendBodyReplace(old, b) == b
AppendBody(old, b) == old \o b
TokenSection(s, tok, trimmed) ==
    LET l == Head(tok)
        f == [args |-> l.a, fs |-> FileLines(Tail(tok))]
        same == {i \in DOMAIN s.files : s.files[i].args = l.a}
    IN  IF trimmed /\ Len(tok) = 1 THEN [s EXCEPT !.st = "section"]
        ELSE IF l.w = "files"
             THEN IF same = {} THEN [s EXCEPT !.files = Append(@, f)]
                  ELSE [s EXCEPT !.files[Min(same)].fs = @ \o f.fs]
        ELSE IF l.w \in AppSections /\ ~NeedsAppName(l)
             THEN [s EXCEPT !.st = "section"]
        ELSE [s EXCEPT
                !.keys = @ \cup {Key(l)},
                !.apps = IF l.w \in AppSections /\ ~Contains(@, l.a)
                         THEN Append(@, l.a) ELSE @,
                !.scripts[Key(l)] =
                    [args |-> IF l.w \notin AppSections /\ l.a # "none"
                              THEN l.a ELSE @.args,
                     body |-> AppendBody(@.body, Tail(tok))]]

NoDef == [header |-> NoHeader, scripts |-> [k \in SectKeys |-> NoScript],
          custom |-> {}, files |-> <<>>, apps |-> <<>>]
IsEmptyDef(d) == d = NoDef
Populate(s) ==
    LET custom == {k \in s.keys : k.n \notin ValidSections}
        d == [header |-> s.hdr, scripts |-> s.scripts, custom |-> custom,
              files |-> s.files, apps |-> s.apps]
    IN  IF \E k \in custom : k.n \notin AppSections
        THEN [st |-> "invalidsection", def |-> NoDef]
        ELSE IF IsEmptyDef(d) THEN [st |-> "empty", def |-> NoDef]
        ELSE [st |-> "ok", def |-> d]

\* doSections: only the first token is trimmed.
DoSections(toks) ==
    LET first == TrimSpace(Head(toks))
        h == DoHeader(first)
        s1 == IF first = <<>> THEN Parsed0
              ELSE IF ~IsSect(Head(first))
                   THEN [Parsed0 EXCEPT !.st = h.st, !.hdr = h.header]
              ELSE TokenSection(Parsed0, first, TRUE)
        Next1(s, t) == IF s.st = "ok" THEN TokenSection(s, t, FALSE) ELSE s
        s2 == FoldLeft(Next1, s1, Tail(toks))
    IN  IF s2.st # "ok" THEN [st |-> s2.st, def |-> NoDef] ELSE Populate(s2)

ParseDefinitionFile(c) ==
    LET toks == Tokens(c)
    IN  IF toks = <<>> THEN [st |-> "empty", def |-> NoDef] ELSE DoSections(toks)

\* All's split: from the last match backwards, prepend buf[index:].
Matches(buf) == SetToSortSeq({i \in DOMAIN buf : IsBootstrap(buf[i])}, <)
RECURSIVE SplitBuf(_, _)
SplitBuf(buf, i) ==
    IF i = <<>> THEN <<buf>>
    ELSE SplitBuf(SubSeq(buf, 1, Last(i) - 1), Front(i))
           \o <<SubSeq(buf, Last(i), Len(buf))>>

-----------------------------------------------------------------------------
VARIABLES file, chunks, stages, res
vars == <<file, chunks, stages, res>>

Init ==
    /\ file \in Recipes
    /\ chunks = SplitBuf(file, Matches(file))
    /\ stages = <<>>
    /\ res = "parsing"

\* for _, stage := range splitBuf: an empty slice is skipped.
SkipEmptyChunk ==
    /\ res = "parsing" /\ chunks # <<>> /\ Head(chunks) = <<>>
    /\ chunks' = Tail(chunks)
    /\ UNCHANGED <<file, stages, res>>

\* ParseDefinitionFile on one slice: a Definition is kept, an empty one is
\* skipped, any other error (a panic included) ends All.
ParseStage ==
    /\ res = "parsing" /\ chunks # <<>> /\ Head(chunks) # <<>>
    /\ chunks' = Tail(chunks)
    /\ UNCHANGED file
    /\ LET r == ParseDefinitionFile(Head(chunks))
       IN  \/ r.st = "ok" /\ stages' = Append(stages, r.def) /\ UNCHANGED res
           \/ r.st = "empty" /\ UNCHANGED <<stages, res>>
           \/ r.st \notin {"ok", "empty"} /\ res' = r.st /\ stages' = <<>>

Finish ==
    /\ res = "parsing" /\ chunks = <<>>
    /\ \/ stages = <<>> /\ res' = "nostages"
       \/ stages # <<>> /\ res' = "ok"
    /\ UNCHANGED <<file, chunks, stages>>

Next == SkipEmptyChunk \/ ParseStage \/ Finish
Spec == Init /\ [][Next]_vars

-----------------------------------------------------------------------------
(***************************************************************************)
(* The recipe grammar of spec.md (sections 3 and 4.A), stated without the  *)
(* code's loops: the header is the lines before the first section line, a *)
(* header entry is a key line with the lines its trailing backslashes      *)
(* continue onto (blank and comment lines skipped), a section runs to the  *)
(* next section line, scripts of one key concatenate, %files blocks merge  *)
(* by their args, and apps keep the order of their first appearance.       *)
(***************************************************************************)
FirstOccurrences(s) ==
    LET I == SelectSeq([i \in DOMAIN s |-> i],
                       LAMBDA i : \A j \in 1..i-1 : s[j] # s[i])
    IN  [m \in DOMAIN I |-> s[I[m]]]
Starts(ls, P(_)) == SetToSortSeq({i \in DOMAIN ls : P(ls[i])}, <)
Slices(ls, p) ==
    [j \in DOMAIN p |-> SubSeq(ls, p[j], IF j = Len(p) THEN Len(ls) ELSE p[j+1] - 1)]
Before(ls, p) == IF p = <<>> THEN ls ELSE SubSeq(ls, 1, p[1] - 1)

RECURSIVE Entries(_)
Entries(s) ==
    IF s = <<>> THEN <<>>
    ELSE LET ends == {i \in DOMAIN s : ~s[i].cont}
             n == IF ends = {} THEN Len(s) ELSE Min(ends)
         IN  <<SubSeq(s, 1, n)>> \o Entries(SubSeq(s, n + 1, Len(s)))
EntryError(e) ==
    IF ~IsKeyLine(e[1]) THEN "novalue"
    ELSE IF ~ValidKey(e[1].w) THEN "badkey" ELSE "ok"
RefHeader(ls) ==
    LET es == Entries(SelectSeq(ls, Significant))
        bad == {i \in DOMAIN es : EntryError(es[i]) # "ok"}
        LastFor(w) == es[Max({i \in DOMAIN es : es[i][1].w = w})]
    IN  IF bad # {} THEN [st |-> EntryError(es[Min(bad)]), header |-> NoHeader]
        ELSE [st |-> "ok",
              header |-> [w \in {es[i][1].w : i \in DOMAIN es} |->
                            KeyPiece(LastFor(w)[1]) \o Tail(LastFor(w))]]

RefParseOne(c) ==
    LET segs == Slices(c, Starts(c, IsSect))
        h == RefHeader(Before(c, Starts(c, IsSect)))
        fsegs == SelectSeq(segs, LAMBDA g : g[1].w = "files")
        others == SelectSeq(segs, LAMBDA g : g[1].w # "files")
        fargs == FirstOccurrences([j \in DOMAIN fsegs |-> fsegs[j][1].a])
        FilesOf(a) == SelectSeq(fsegs, LAMBDA g : g[1].a = a)
        Of(k) == SelectSeq(others, LAMBDA g : Key(g[1]) = k)
        ArgsOf(k) == SelectSeq(Of(k), LAMBDA g : g[1].w \notin AppSections
                                                 /\ g[1].a # "none")
        appsegs == SelectSeq(others, LAMBDA g : g[1].w \in AppSections)
        keys == {Key(others[j][1]) : j \in DOMAIN others}
        d == [header |-> h.header,
              scripts |-> [k \in SectKeys |->
                  [args |-> IF ArgsOf(k) = <<>> THEN "none" ELSE Last(ArgsOf(k))[1].a,
                   body |-> FlattenSeq([j \in DOMAIN Of(k) |-> Tail(Of(k)[j])])]],
              custom |-> {k \in keys : k.n \notin ValidSections},
              files |-> [m \in DOMAIN fargs |->
                  [args |-> fargs[m],
                   fs |-> FlattenSeq([j \in DOMAIN FilesOf(fargs[m]) |->
                                         FileLines(Tail(FilesOf(fargs[m])[j]))])]],
              apps |-> FirstOccurrences([j \in DOMAIN appsegs |-> appsegs[j][1].a])]
    IN  IF h.st # "ok" THEN [st |-> h.st, def |-> NoDef]
        ELSE IF \E j \in DOMAIN appsegs : appsegs[j][1].a = "none"
             THEN [st |-> "section", def |-> NoDef]
        ELSE IF \E k \in d.custom : k.n \notin AppSections
             THEN [st |-> "invalidsection", def |-> NoDef]
        ELSE IF d = NoDef THEN [st |-> "empty", def |-> NoDef]
        ELSE [st |-> "ok", def |-> d]

\* parse_all: the preamble and one slice per bootstrap line, empty slices
\* dropped, empty definitions skipped, the first other error fatal.
RefAll(f) ==
    LET p == Starts(f, IsBootstrap)
        cs == SelectSeq(<<Before(f, p)>> \o Slices(f, p), LAMBDA c : c # <<>>)
        r == [j \in DOMAIN cs |-> RefParseOne(cs[j])]
        fatal == {j \in DOMAIN r : r[j].st \notin {"ok", "empty"}}
        oks == SelectSeq(r, LAMBDA x : x.st = "ok")
    IN  IF fatal # {} THEN [res |-> r[Min(fatal)].st, stages |-> <<>>]
        ELSE IF oks = <<>> THEN [res |-> "nostages", stages |-> <<>>]
        ELSE [res |-> "ok", stages |-> [j \in DOMAIN oks |-> oks[j].def]]

-----------------------------------------------------------------------------
Args == {l.a : l \in Lines}
Outcomes == {"parsing", "ok", "nostages", "novalue", "badkey", "panic",
             "section", "invalidsection"}
IsDef(d) ==
    /\ \A w \in DOMAIN d.header : d.header[w] \in Seq(Lines)
    /\ d.files \in Seq([args : Args, fs : Seq(Lines)])
    /\ d.apps \in Seq(Args \ {"none"})
    /\ d.custom \subseteq SectKeys

TypeOK ==
    /\ file \in Seq(Lines) /\ Len(file) <= MaxLines
    /\ chunks \in Seq(Seq(Lines))
    /\ res \in Outcomes
    /\ DOMAIN stages = 1..Len(stages) /\ \A i \in DOMAIN stages : IsDef(stages[i])

Finished == res # "parsing"
Outcome == [res |-> res, stages |-> stages]
\* A recipe whose first non-blank line is a section: doSections trims that
\* first section token, a case the grammar does not single out.
StartsWithSection(f) ==
    LET nb == SelectSeq(f, LAMBDA l : l.k # "blank") IN nb # <<>> /\ IsSect(nb[1])
HasContinuation(f) == \E i \in DOMAIN f : f[i].cont

\* All, over recipes without continued header values, returns what the
\* grammar says: the same stages with the same header, scripts, merged
\* %files blocks and app order, or the same error.
ParsesAsGrammar ==
    Finished /\ ~StartsWithSection(file) /\ ~HasContinuation(file)
        => Outcome = RefAll(file)

\* Spec section 3: a header value ending in a backslash continues onto the
\* next non-blank line.  doHeader writes the pending value into the nil map
\* d.Header at a blank or comment line, and drops a continuation that ends
\* the header.
ContinuedHeadersAsGrammar ==
    Finished /\ ~StartsWithSection(file) => Outcome = RefAll(file)
====

----------------------------- MODULE Typosquat -----------------------------
(***************************************************************************)
(* dns_server/typosquat.py, the table of brands it is fed from (admin.py)  *)
(* and the loop that reloads it (main.py). A name stands for the label that *)
(* _etld_plus_one_label picks: a sequence of one-letter strings.           *)
(***************************************************************************)
EXTENDS Integers, Sequences, FiniteSets, SequencesExt, FiniteSetsExt

CONSTANTS
    Letter,       \* the letters of the names
    Brand,        \* labels that administrators add as brands
    Name,         \* labels of the names that are asked for
    LongLabel,    \* from this length on a brand is matched at distance 2: 7
    TokenLabel    \* from this length on a brand is matched as a word: 5

ASSUME TyposquatAssumption ==
    /\ Brand \subseteq Seq(Letter) /\ Name \subseteq Seq(Letter)
    /\ LongLabel \in Nat /\ TokenLabel \in Nat

VARIABLES
    brandTable,   \* brand_domains: the labels that have a row
    labels,       \* _brand_labels of the detector in the DNS process
    answer        \* the last call of check with the labels of now, and its result

typosquatVars == <<brandTable, labels, answer>>

NoAnswer == [name |-> <<>>, hit |-> FALSE]

TyposquatTypeOK ==
    /\ brandTable \in SUBSET Brand
    /\ labels \in SUBSET Brand
    /\ answer \in [name : Name \cup {<<>>}, hit : BOOLEAN]

TyposquatInit ==
    /\ brandTable = {}
    /\ labels = {}
    /\ answer = NoAnswer

-----------------------------------------------------------------------------
(* _normalize                                                              *)

\* str.replace of a pair of letters, from left to right.
ReplacePair(s, pair, by) ==
    LET rest[i \in 1..(Len(s) + 1)] ==
            IF i > Len(s) THEN <<>>
            ELSE IF i < Len(s) /\ SubSeq(s, i, i + 1) = pair THEN <<by>> \o rest[i + 2]
            ELSE <<s[i]>> \o rest[i + 1]
    IN  rest[1]

\* HOMOGLYPHS; "$", "@" and "!" occur in no host name.
Glyph(c) ==
    CASE c = "0" -> "o" [] c \in {"1", "i"} -> "l" [] c = "3" -> "e"
      [] c = "4" -> "a" [] c = "5" -> "s" [] OTHER -> c

EachGlyph(s) == [i \in DOMAIN s |-> Glyph(s[i])]

MultiHomoglyphs ==
    <<[pair |-> <<"r", "n">>, by |-> "m"], [pair |-> <<"v", "v">>, by |-> "w"], [pair |-> <<"c", "l">>, by |-> "d"]>>

\* MUTANT of Normalize: letter by letter only.
NormalizeSinglesOnly(s) == EachGlyph(s)

Replaced(s, h) == ReplacePair(s, h.pair, h.by)

\* The pairs in their order, then letter by letter.
Normalize(s) ==
    EachGlyph(Replaced(Replaced(Replaced(s, MultiHomoglyphs[1]), MultiHomoglyphs[2]), MultiHomoglyphs[3]))

\* The letters of host names are closed under what _normalize makes of them.
ASSUME GlyphAssumption ==
    /\ \A c \in Letter : Glyph(c) \in Letter
    /\ \A i \in DOMAIN MultiHomoglyphs :
         MultiHomoglyphs[i].pair \in Seq(Letter) => MultiHomoglyphs[i].by \in Letter

-----------------------------------------------------------------------------
(* _levenshtein                                                            *)

Exceeded == -1

\* The row of a's i-th letter, from the row before it; a row starts with column 0.
NextRow(prev, a, b, i) ==
    LET upTo[j \in 0..Len(b)] ==
            IF j = 0 THEN <<i>>
            ELSE LET curr == upTo[j - 1]
                     cost == IF a[i] = b[j] THEN 0 ELSE 1
                 IN  Append(curr, Min({curr[j] + 1, prev[j + 1] + 1, prev[j] + cost}))
    IN  upTo[Len(b)]

RowMin(row) == Min(ToSet(row))

\* MUTANT of StopsEarly: a row whose minimum is the bound itself ends the search.
StopsEarlyAtBound(row, bound) == RowMin(row) >= bound

StopsEarly(row, bound) == RowMin(row) > bound

\* The rows one after the other; after an early exit they are empty.
Levenshtein(a, b, bound) ==
    LET rows[i \in 0..Len(a)] ==
            IF i = 0 THEN [j \in 1..(Len(b) + 1) |-> j - 1]
            ELSE LET prev == rows[i - 1]
                     curr == NextRow(prev, a, b, i)
                 IN  IF prev = <<>> \/ StopsEarly(curr, bound) THEN <<>> ELSE curr
        lastRow == rows[Len(a)]
    IN  IF Len(a) - Len(b) > bound \/ Len(b) - Len(a) > bound THEN Exceeded
        ELSE IF a = b THEN 0
        ELSE IF lastRow = <<>> THEN Exceeded
        ELSE Last(lastRow)

-----------------------------------------------------------------------------
(* check                                                                   *)

MaxDistance(b) == IF Len(b) >= LongLabel THEN 2 ELSE 1

Near(c, b) == Levenshtein(c, b, MaxDistance(b)) \in 1..MaxDistance(b)

Occurrences(c, b) == {i \in 1..(Len(c) - Len(b) + 1) : SubSeq(c, i, i + Len(b) - 1) = b}

\* _contains_at_boundary
ContainsAtBoundary(c, b) ==
    /\ c # b
    /\ \E i \in Occurrences(c, b) :
         /\ i = 1 \/ c[i - 1] \in {"-", "_"}
         /\ i + Len(b) - 1 = Len(c) \/ c[i + Len(b)] \in {"-", "_"}

\* TyposquatDetector.check: is name a lookalike of one of the brands in known?
Check(name, known) ==
    LET normal     == Normalize(name)
        candidates == {name, normal}
    IN  /\ name # <<>> /\ name \notin known
        /\ \/ normal # name /\ normal \in known
           \/ \E b \in known, c \in candidates : Near(c, b)
           \/ \E b \in known, c \in candidates : Len(b) >= TokenLabel /\ ContainsAtBoundary(c, b)

-----------------------------------------------------------------------------
\* add_brand, remove_brand
AddBrand(b) ==
    /\ brandTable' = brandTable \cup {b}
    /\ UNCHANGED <<labels, answer>>

RemoveBrand(b) ==
    /\ brandTable' = brandTable \ {b}
    /\ UNCHANGED <<labels, answer>>

\* _refresh_lists_loop; load_brand_domains answers an error with no brands at all.
ReloadBrands ==
    /\ labels' \in {brandTable, {}}
    /\ answer' = NoAnswer
    /\ UNCHANGED brandTable

Ask(name) ==
    /\ answer' = [name |-> name, hit |-> Check(name, labels)]
    /\ UNCHANGED <<brandTable, labels>>

TyposquatNext ==
    \/ \E b \in Brand : AddBrand(b) \/ RemoveBrand(b)
    \/ ReloadBrands
    \/ \E name \in Name : Ask(name)

TyposquatSpec == TyposquatInit /\ [][TyposquatNext]_typosquatVars

-----------------------------------------------------------------------------
(* What the detector is meant to find, stated without its algorithms.      *)

\* One letter inserted, deleted or replaced.
OneEdit(s) ==
    {SubSeq(s, 1, i) \o <<x>> \o SubSeq(s, i + 1, Len(s)) : i \in 0..Len(s), x \in Letter}
    \cup {SubSeq(s, 1, i - 1) \o SubSeq(s, i + 1, Len(s)) : i \in 1..Len(s)}
    \cup {[s EXCEPT ![i] = x] : i \in 1..Len(s), x \in Letter}

\* n edits from both sides: at most two are ever asked for.
WithinEdits(s, t, n) ==
    IF n = 1 THEN t \in OneEdit(s) ELSE OneEdit(s) \cap OneEdit(t) # {}

IsWordOf(b, c) ==
    \E i \in 0..(Len(c) - Len(b)) :
        LET before == SubSeq(c, 1, i)
            after  == SubSeq(c, i + Len(b) + 1, Len(c))
        IN  /\ c = before \o b \o after
            /\ before = <<>> \/ Last(before) \in {"-", "_"}
            /\ after = <<>> \/ Head(after) \in {"-", "_"}

Alike(c, b) ==
    \/ c = b
    \/ WithinEdits(c, b, MaxDistance(b))
    \/ Len(b) >= TokenLabel /\ IsWordOf(b, c)

\* A label is read letter by letter, or as it looks: a brand's as well as a name's.
Readings(label) == {label, Normalize(label)}

Resembles(name, b) == \E c \in Readings(name), e \in Readings(b) : Alike(c, e)

\* The ways to write one letter, and a label.
Writings(c) == {<<x>> : x \in {y \in Letter : Glyph(y) = c}}
    \cup {MultiHomoglyphs[i].pair : i \in {j \in DOMAIN MultiHomoglyphs : MultiHomoglyphs[j].by = c}}

Lookalikes(b) ==
    LET ways[i \in 1..(Len(b) + 1)] ==
            IF i > Len(b) THEN {<<>>} ELSE {x \o w : x \in Writings(b[i]), w \in ways[i + 1]}
    IN  ways[1]

\* The label b has nothing in it that is written for something else, and no letter
\* that could be taken for a part of the next one's writing: "vw" written as "vvv".
Plain(b) ==
    \A i \in DOMAIN b :
        /\ Glyph(b[i]) = b[i]
        /\ i < Len(b) => <<b[i], b[i + 1]>> \notin {<<"r", "n">>, <<"v", "v">>, <<"c", "l">>, <<"v", "w">>}

\* The name of the last call may be a lookalike: it is no brand itself.
Suspect == answer.name # <<>> /\ answer.name \notin labels

\* typosquat.py check: a hit is within the edits of a brand, or has it as a word, and
\* the early exit and the search for a word lose no such name: all lookalikes of a brand
\* that is its own normal form are hits, and of any brand those that are alike as they
\* are spelled. What the code loses of the others is in LookalikesAreHits.
HitsResemble ==
    /\ answer.hit => Suspect /\ \E b \in labels : Resembles(answer.name, b)
    /\ \A b \in labels :
         /\ Suspect /\ Resembles(answer.name, b)
         /\ Normalize(b) = b \/ Alike(answer.name, b)
         => answer.hit

\* typosquat.py _normalize: a brand written in other glyphs is caught, whichever and
\* however many are replaced. The detector compares with labels as they are in the
\* table: the promise is for brands that are their own normal form ("citi" is not),
\* and _normalize reads pairs from the left ("vvv" is "wv", not "vw").
HomoglyphsAreCaught ==
    \A b \in labels : Plain(b) /\ answer.name \in Lookalikes(b) \ labels => answer.hit

-----------------------------------------------------------------------------
(* What the repository says of the program and the program does not do.    *)

\* typosquat.py:53, "normalized brand labels"; docs/ARCHITECTURE.md:408: a lookalike of
\* any brand is a hit. The labels are not normalized: a name whose homoglyphs are undone
\* no longer matches a brand that has one of them in its own name.
LookalikesAreHits ==
    Suspect /\ (\E b \in labels : Resembles(answer.name, b)) => answer.hit
=============================================================================

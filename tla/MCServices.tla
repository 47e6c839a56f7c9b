------------------------------ MODULE MCServices ------------------------------
(***************************************************************************)
(* Services on small instances.                                            *)
(***************************************************************************)
EXTENDS Services

CONSTANTS ward, g1, e1

MCOwner == [e \in {e1} |-> g1]

\* "mal" has a look-alike "rnal"; "alla" is long, and a word of other labels.
MCLetter == {"a", "l", "m", "n", "r", "1", "-"}
MCBrand  == {<<"m", "a", "l">>, <<"a", "l", "l", "a">>}
MCName   ==
    UNION {[1..n -> {"a", "l", "-"}] : n \in 1..3} \cup [1..4 -> {"a", "l"}]
    \cup UNION {Lookalikes(b) : b \in MCBrand}
    \cup {<<"a", "l", "a">> \o <<"-">> \o <<"a", "l", "l", "a">>,
          <<"l">> \o <<"a", "l", "l", "a">> \o <<"-">> \o <<"a", "l", "l", "a">>,
          <<"a", "1", "1", "a">> \o <<"-", "m">>}

MCDays == {13, 14, 364, 365}

\* Full pages with any signs, and pages at the thresholds of classify_empty_page.
FullPage == [fields |-> {}, scripts |-> 0, status |-> 200, html |-> 200, text |-> 600, parked |-> TRUE]
MCField == {"password", "card", "otp", "seed", "brand", "tld"}
MCPage ==
    {[FullPage EXCEPT !.fields = f] : f \in SUBSET {"password", "card", "seed", "brand", "tld"}}
    \cup {[FullPage EXCEPT !.fields = f, !.scripts = n] : f \in SUBSET {"password", "otp"}, n \in 2..5}
    \cup {[FullPage EXCEPT !.fields = {"seed"}, !.status = n] : n \in {0, 399, 400}}
    \cup {[FullPage EXCEPT !.fields = {"seed"}, !.html = 199, !.text = 199, !.parked = FALSE]}
    \cup {[FullPage EXCEPT !.fields = {"seed"}, !.text = n, !.parked = FALSE] : n \in {79, 80}}
    \cup {[FullPage EXCEPT !.fields = {"seed"}, !.text = 599]}

MCReply ==
    {[verdict |-> "safe", confidence |-> 70], [verdict |-> "suspicious", confidence |-> -1],
     [verdict |-> "scam", confidence |-> 69], [verdict |-> "scam", confidence |-> 70],
     [verdict |-> "other", confidence |-> 250]}
=============================================================================

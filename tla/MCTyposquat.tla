----------------------------- MODULE MCTyposquat -----------------------------
(***************************************************************************)
(* The detector with one brand that has a homoglyph in its own name, and a *)
(* name that the documentation gives as one of its matches.                *)
(***************************************************************************)
EXTENDS Typosquat

Microsoft == <<"m", "i", "c", "r", "o", "s", "o", "f", "t">>
Disguised == <<"m", "i", "c", "r", "o", "s", "0", "f", "t">>
Security  == <<"-", "s", "e", "c", "u", "r", "i", "t", "y">>

MCLetter == ToSet(Microsoft) \cup ToSet(Disguised) \cup ToSet(Security) \cup {"l", "d"}

MCBrand == {Microsoft}

\* micros0ft.com and micros0ft-security.com
MCName == {Disguised, Disguised \o Security}
=============================================================================

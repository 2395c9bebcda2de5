---------------------------- MODULE MCDeleteRederive ----------------------------
(* Instances of DeleteRederive for TLC. *)
EXTENDS DeleteRederive

\* A symmetric property with a property below it, used in both directions.
Symmetric == <<"p", "type", "Symmetric">>
Below == <<"q", "subPropertyOf", "p">>
There == <<"a", "q", "b">>
Direct == <<"a", "p", "b">>
\* Derives statements of the vocabulary that is not maintained.
Cell == <<"a", "rest", "b">>
Lists == <<"q", "subPropertyOf", "rest">>

\* A class for what stands on its left.
Class == <<"p", "domain", "A">>

MCStatable == {Symmetric, Below, There, Direct, Class, Lists, Cell}

\* What the rules ever derive from those.
RECURSIVE Everything(_)
Everything(F) ==
    LET more == Conclusions(RulesOver(F)) IN
    IF more \subseteq F THEN F ELSE Everything(F \cup more)
MCDerivable == Everything(MCStatable) \ MCStatable

MCOwnRows == [id \in {<<"r">>} |-> {There, Direct}]
=============================================================================

----------------------------- MODULE MCSelections -----------------------------
(* The instance is given by Selections_Choices.cfg. *)
EXTENDS Selections, TLC

\* One group; two, the second of which begins with the first; and one that leads
\* through another to DIRECT, beside one whose members lead to each other.
One    == [Proxy |-> <<"p1", "p2">>]
Nested == [Proxy |-> <<"p1", "p2">>, Media |-> <<"Proxy", "p2">>]
Bypass == [Home |-> <<"DIRECT", "p2">>, Media |-> <<"Home", "p2">>]
Cycle  == [Auto |-> <<"Media", "p2">>, Media |-> <<"Auto", "p2">>]
MCTexts == {One, Nested, Bypass, Cycle}

MCProxies == {"p1", "p2", "gone", "DIRECT", "Proxy", "Media", "Home", "Auto"}

MCMaxEvents(n) == IF n = 1 THEN 3 ELSE 2

\* Profiles differ in nothing but their name.
ProfileSymmetry == Permutations(Profiles)
===============================================================================

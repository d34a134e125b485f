--------------------------- MODULE MC_ConfigCache ---------------------------
(* ConfigCache for TLC: one prefix configured twice (two watch goroutines), *)
(* one setting, and texts that take each branch of SetConfig: digits, a    *)
(* mixed-case boolean, a JSON object, and digits around another character. *)
EXTENDS ConfigCache

CONSTANTS pA, k1

MCTexts == {<<"4", "2">>, <<"t", "R", "u", "E">>, <<"{", "}">>, <<"1", "x", "2">>}
MCValidJSON == {<<"{", "}">>}
====

------------------------------ MODULE MCScreen ------------------------------
(***************************************************************************)
(* Small instance of Screen for TLC.  Lines with no '7', with one at an    *)
(* end, inside, and nothing else; with a ':' of their own; cut short by    *)
(* 253, which becomes the end of the string.  Users "a", "a:a" and "a|".   *)
(***************************************************************************)
EXTENDS Screen

MCNames == {<<97>>, <<97, Colon, 97>>, <<97, Bar>>}
MCTexts == {<< >>, <<97>>, <<Colon, 97>>, <<Seven, Seven>>, <<Seven, 97>>,
            <<97, Seven>>, <<97, Seven, 97>>, <<97, 253, 97>>, <<Seven, 253>>}
=============================================================================

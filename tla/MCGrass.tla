------------------------------ MODULE MCGrass ------------------------------
(***************************************************************************)
(* Instances of Grass for TLC.                                             *)
(***************************************************************************)
EXTENDS GrassGate, GrassPromises

CONSTANTS s1, s2, u1, u2

(* Two clients with an account each and a stranger who knows no password;  *)
(* one account used by all.                                                *)
OwnAccounts == [s \in Sessions |-> IF s = s1 THEN {u1} ELSE IF s = s2 THEN {u2} ELSE {}]
OneAccount  == [s \in Sessions |-> {u1}]

(* Arguments of cd, mkdir and rm.                                          *)
Nothing == {}
Down    == {<<"a">>}
UpDown  == {<<"a">>, <<"..">>}
TwoDown == {<<"a">>, <<"..">>, <<"a", "a">>}
Around  == {<<"a">>, <<"..">>, <<".">>}

(* Trees.                                                                  *)
BaseAndA == {<<>>, <<"a">>}
Nested   == {<<>>, <<"a">>, <<"a", "a">>}
NoFiles  == {}
=============================================================================

------------------------------- MODULE MCGrep -------------------------------
(* An instance of Grep for TLC.                                            *)
EXTENDS Grep

FewPaths == {<<>>, <<"a">>, <<"a", "b">>, <<"d">>, <<".e">>, <<".e", "b">>}
=============================================================================

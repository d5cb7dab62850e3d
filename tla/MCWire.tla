------------------------------- MODULE MCWire -------------------------------
(* An instance of Wire for TLC; its constants are given in MCWire.cfg.     *)
EXTENDS Wire

A == {<<"a">>}
B == {<<"b">>}
PortTexts == [k \in {"get", "put"} |-> IF k = "get" THEN <<"a">> ELSE <<"b">>]
=============================================================================

------------------------------- MODULE MCPing -------------------------------
(* An instance of Ping for TLC: its only constant is a bound.              *)
EXTENDS Ping
=============================================================================

------------------------------ MODULE MCFiles ------------------------------
(* An instance of Files for TLC.  The sessions are alike, so that the      *)
(* first transfer may as well be of the first one.                         *)
EXTENDS Files
CONSTANTS s1, s2

MCInit == FilesInit /\ owner[1] = s1

MCSpec == MCInit /\ [][FilesNext]_filesVars /\ FilesFairness
=============================================================================

----------------------------- MODULE PathsCheck -----------------------------
(***************************************************************************)
(* resolve_path against a definition of what a path means, on every short  *)
(* argument given in every shallow directory.  A state is a directory and  *)
(* an argument; a step makes the argument one component longer.            *)
(***************************************************************************)
EXTENDS Paths
LOCAL INSTANCE SequencesExt

CONSTANTS MaxCwd,   \* bound: depth of the directory
          MaxArg    \* bound: components of the argument

ASSUME PathsCheckAssumption == MaxCwd \in Nat /\ MaxArg \in Nat

VARIABLES cwd, arg

Init ==
    /\ cwd \in BoundedSeq(Names, MaxCwd)
    /\ arg = <<>>

Next ==
    /\ Len(arg) < MaxArg
    /\ \E c \in Names \cup {".", ".."} : arg' = Append(arg, c)
    /\ UNCHANGED cwd
-----------------------------------------------------------------------------
(* A walk from the base directory, and how deep below it its first n steps *)
(* lead.                                                                   *)
Depth(walk, n) ==
    Cardinality({i \in 1..n : walk[i] \in Names})
        - Cardinality({i \in 1..n : walk[i] = ".."})

(* It never climbs above the base directory.                               *)
StaysBelow(walk) == \A n \in 1..Len(walk) : Depth(walk, n) >= 0

(* Where it ends: at each depth, in the directory it entered last there.   *)
Enters(walk, i, depth) == walk[i] \in Names /\ Depth(walk, i) = depth

EntersLast(walk, i, depth) ==
    /\ Enters(walk, i, depth)
    /\ \A k \in (i + 1)..Len(walk) : ~Enters(walk, k, depth)

Destination(walk) ==
    [depth \in 1..Depth(walk, Len(walk)) |->
        walk[CHOOSE i \in 1..Len(walk) : EntersLast(walk, i, depth)]]

(* A path is accepted exactly when no prefix of it climbs above the base   *)
(* directory, even if it comes back through the name of the base, and it   *)
(* then means the place the walk ends in (resolve_path, whose loop breaks  *)
(* on an empty vector and whose last test is on the text it has built).    *)
ResolveIsWalk ==
    LET text == Resolve(cwd, arg)
        walk == cwd \o arg
    IN  /\ InsideBase(text) <=> StaysBelow(walk)
        /\ StaysBelow(walk) => Relative(text) = Destination(walk)
=============================================================================

------------------------------- MODULE Paths -------------------------------
(***************************************************************************)
(* The path arithmetic of the server: Parsing::resolve_path,               *)
(* get_relative_path, format, and conn::getCurrentDir.                     *)
(*                                                                         *)
(* The program works on strings; a text is here the sequence of its        *)
(* '/'-separated components, so "repo/a" is <<"repo", "a">> and the doubled *)
(* slash of "repo//a" is an empty component.  A name is opaque.  The base  *)
(* directory is one component, as in every grass.conf of the repository:   *)
(* then the string-prefix test on the base is a test on the first          *)
(* component.                                                              *)
(***************************************************************************)
EXTENDS Integers, Sequences, FiniteSets
LOCAL INSTANCE SequencesExt

CONSTANTS Names,   \* directory and file names
          Base     \* the base directory of grass.conf

ASSUME PathAssumption == {"", ".", ".."} \cap Names = {}

Components == Names \cup {Base}

(* A place in the shared tree, relative to the base directory.             *)
TreePaths == Seq(Names)

(* Broken variant: the loop goes on above the base directory.              *)
DescendUnstopped(vec, dir) ==
    IF dir = "." THEN vec
    ELSE IF dir # ".." THEN Append(vec, dir)
    ELSE IF vec = <<>> THEN vec ELSE Front(vec)

(* One round of the loop of resolve_path: once ".." has emptied the        *)
(* vector the loop breaks, so what follows is ignored.                     *)
Descend(vec, dir) ==
    IF vec = <<>> \/ dir = "." THEN vec
    ELSE IF dir = ".." THEN Front(vec)
    ELSE Append(vec, dir)

(* The components resolve_path has built before the first round of its     *)
(* loop and after each of them,                                            *)
Built(cwd, arg) ==
    LET vec[k \in 0..Len(arg)] ==
            IF k = 0 THEN <<Base>> \o cwd ELSE Descend(vec[k - 1], arg[k])
    IN  vec

(* and when the loop ends.                                                 *)
Resolve(cwd, arg) == Built(cwd, arg)[Len(arg)]

(* The test newCurrentDir.find(base) == 0: when it fails resolve_path      *)
(* throws.  What follows the base are names, for "." and ".." are never    *)
(* kept.                                                                   *)
InsideBase(text) ==
    /\ text # <<>>
    /\ Head(text) = Base
    /\ Tail(text) \in TreePaths

(* get_relative_path on a resolved text, without its leading slash.        *)
Relative(text) == Tail(text)

(* The text resolve_path returns for a place in the tree.                  *)
ResolvedText(p) == <<Base>> \o p

(* The text of conn::getCurrentDir("").  currentDir keeps the leading      *)
(* slash get_relative_path leaves, so below the base the text has two      *)
(* slashes in a row.                                                       *)
CurrentDirText(cwd) == IF cwd = <<>> THEN <<Base>> ELSE <<Base, "">> \o cwd

(***************************************************************************)
(* Keys of the shared tables.  Parsing::format puts a quote at each end of *)
(* a text; a prefix of a quoted text keeps the opening quote only.         *)
(***************************************************************************)
Keys == [quotes : {"none", "both", "opening"}, comps : Seq(Components)]

Plain(comps) == [quotes |-> "none", comps |-> comps]
Format(key)  == [key EXCEPT !.quotes = "both"]

(* split_string then join_vector of the first n components.                *)
Cut(key, n) ==
    [quotes |-> IF key.quotes = "both" /\ n < Len(key.comps)
                THEN "opening" ELSE key.quotes,
     comps  |-> SubSeq(key.comps, 1, n)]

(* The key of a place as cd writes it, and as mkdir and rm write it.       *)
RelativeKey(p) == Plain(p)
ResolvedKey(p) == Plain(ResolvedText(p))
=============================================================================

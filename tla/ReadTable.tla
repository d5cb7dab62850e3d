----------------------------- MODULE ReadTable -----------------------------
(***************************************************************************)
(* UserReadTable: which users are in, or read, which directory.  The map   *)
(* FilesBeingRead is a function whose domain is the set of keys present;   *)
(* each operator is what one call does to it between mtx.lock() and        *)
(* mtx.unlock().                                                           *)
(***************************************************************************)
EXTENDS Paths

(* The helper hasKey of UserReadTable.cpp.  It answers false for a key     *)
(* that IS in the map.                                                     *)
HasKey(table, key) == key \notin DOMAIN table

(* operator[] of std::map: an absent key is given the empty set.           *)
Readers(table, key) == IF key \in DOMAIN table THEN table[key] ELSE {}

(* The keys addFile and removeFile go through, one per prefix.             *)
KeysOf(key) == {Cut(key, n) : n \in 1..Len(key.comps)}

(* Broken variant of addFile: the parents are not recorded.                *)
AddFileLeaf(table, key, u) ==
    [k \in DOMAIN table \cup {key} |-> IF k = key THEN {u} ELSE table[k]]

(* addFile: every prefix whose key hasKey denies is reset to the empty     *)
(* set, then the user is inserted.                                         *)
AddFile(table, key, u) ==
    [k \in DOMAIN table \cup KeysOf(key) |->
        IF k \notin KeysOf(key) THEN table[k]
        ELSE IF ~HasKey(table, k) THEN {u}
        ELSE Readers(table, k) \cup {u}]

(* The prefixes removeFile erases from: it starts at the full key, and a   *)
(* key hasKey denies takes the "continue" that skips pop_back, so that no  *)
(* shorter prefix is ever reached.                                         *)
Erased(table, key) ==
    {Cut(key, n) : n \in {m \in 1..Len(key.comps) :
                             \A i \in m..Len(key.comps) : HasKey(table, Cut(key, i))}}

RemoveFile(table, key, u) ==
    [k \in DOMAIN table \cup Erased(table, key) |->
        IF k \in Erased(table, key) THEN Readers(table, k) \ {u} ELSE table[k]]

(* isBeingRead: the map after the call (operator[] may insert the key) and *)
(* the answer, which looks the file name up among the user names.          *)
AfterIsBeingRead(table, key) ==
    IF ~HasKey(table, key) THEN table
    ELSE [k \in DOMAIN table \cup {key} |-> Readers(table, k)]

IsBeingRead(table, key) ==
    /\ HasKey(table, key)
    /\ key \in Readers(table, key)
=============================================================================

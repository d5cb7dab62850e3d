----------------------------- MODULE GrepProofs -----------------------------
(***************************************************************************)
(* grep reports every file that is not hidden and has matched all the time *)
(* and no file that has never matched, for any tree and whatever the other *)
(* sessions do.                                                            *)
(***************************************************************************)
EXTENDS Grep, FiniteSetTheorems, TLAPS
LOCAL INSTANCE SequencesExt

-----------------------------------------------------------------------------
(* Prefixes and sequences.                                                 *)

USE DEF Texts

LEMMA PathsAreTexts == Paths \subseteq Texts
<1> SUFFICES ASSUME NEW p \in Paths PROVE p \in Texts
  OBVIOUS
<1>1. p \in Seq(Names)
  BY GrepAssumption
<1>2. p \in Seq(Names \cup {"?"})
  BY <1>1
<1> QED BY <1>2

(* Prefixes, element by element.                                           *)
LEMMA PrefixByElements ==
    ASSUME NEW p \in Texts, NEW q \in Texts
    PROVE  /\ IsPrefix(p, q) <=> Len(p) <= Len(q) /\ \A k \in 1..Len(p) : p[k] = q[k]
           /\ IsStrictPrefix(p, q) <=> IsPrefix(p, q) /\ Len(p) < Len(q)
<1>1. p = SubSeq(p, 1, Len(p))
  OBVIOUS
<1>2. Len(p) <= Len(q) =>
          (p = SubSeq(q, 1, Len(p)) <=> \A k \in 1..Len(p) : p[k] = q[k])
  <2> SUFFICES ASSUME Len(p) <= Len(q)
               PROVE  p = SubSeq(q, 1, Len(p)) <=> \A k \in 1..Len(p) : p[k] = q[k]
    OBVIOUS
  <2> DEFINE r == SubSeq(q, 1, Len(p))
  <2>1. Len(r) = Len(p) /\ r \in Texts /\ \A k \in 1..Len(p) : r[k] = q[k]
    OBVIOUS
  <2>2. p = [k \in 1..Len(p) |-> p[k]] /\ r = [k \in 1..Len(p) |-> r[k]]
    BY <2>1
  <2> HIDE DEF r
  <2>3. p = r <=> \A k \in 1..Len(p) : p[k] = q[k]
    BY <2>1, <2>2
  <2> QED BY <2>3 DEF r
<1>3. Len(p) = Len(q) /\ p = SubSeq(q, 1, Len(p)) => p = q
  OBVIOUS
<1> QED BY <1>1, <1>2, <1>3 DEF IsPrefix, IsStrictPrefix

(* The entry of a directory that leads to what is below it.                *)
LEMMA WayDown ==
    ASSUME NEW p \in Texts, NEW q \in Paths, IsStrictPrefix(p, q)
    PROVE  LET r == SubSeq(q, 1, Len(p) + 1)
           IN  /\ r \in Paths /\ p \in Paths
               /\ Child(p, r)
               /\ IsPrefix(r, q)
               /\ r = q \/ IsStrictPrefix(r, q)
               /\ Shown(p, q) => Shown(p, r) /\ Shown(r, q)
<1> DEFINE r == SubSeq(q, 1, Len(p) + 1)
<1>1. q \in Texts
  BY PathsAreTexts
<1>2. /\ Len(p) \in Nat /\ Len(q) \in Nat /\ Len(p) < Len(q)
      /\ \A k \in 1..Len(p) : p[k] = q[k]
  BY <1>1, PrefixByElements
<1>3. r \in Paths /\ SubSeq(q, 1, Len(p)) \in Paths
  BY <1>2, GrepAssumption
<1>4. p = SubSeq(q, 1, Len(p))
  BY <1>1 DEF IsStrictPrefix, IsPrefix
<1>5. r \in Texts /\ Len(r) = Len(p) + 1 /\ \A k \in 1..(Len(p) + 1) : r[k] = q[k]
  BY <1>1, <1>2
<1>6. IsStrictPrefix(p, r) /\ IsPrefix(r, q)
  <2>1. Len(p) <= Len(r) /\ Len(p) < Len(r) /\ \A k \in 1..Len(p) : p[k] = r[k]
    BY <1>2, <1>5
  <2>2. Len(r) <= Len(q) /\ \A k \in 1..Len(r) : r[k] = q[k]
    BY <1>2, <1>5
  <2> HIDE DEF r
  <2>3. IsStrictPrefix(p, r)
    BY <1>5, <2>1, PrefixByElements
  <2>4. IsPrefix(r, q)
    BY <1>1, <1>5, <2>2, PrefixByElements
  <2> QED BY <2>3, <2>4
<1>7. r = q \/ IsStrictPrefix(r, q)
  BY <1>6 DEF IsStrictPrefix
<1>8. ASSUME Shown(p, q) PROVE Shown(p, r) /\ Shown(r, q)
  <2>1. (Len(p) + 1)..Len(r) \subseteq (Len(p) + 1)..Len(q)
    BY <1>2, <1>5
  <2>2. (Len(r) + 1)..Len(q) \subseteq (Len(p) + 1)..Len(q)
    BY <1>2, <1>5
  <2>3. \A k \in (Len(p) + 1)..Len(r) : r[k] = q[k]
    BY <1>2, <1>5
  <2> HIDE DEF r
  <2> QED BY <1>8, <2>1, <2>2, <2>3 DEF Shown
<1> QED BY <1>3, <1>4, <1>5, <1>6, <1>7, <1>8 DEF Child

(* A file that is reached by an entry of a sequence is reached by its head *)
(* or by one of its tail, and by one of any longer sequence.               *)
Leads(p)   == IsPrefix(p, watched) /\ Shown(p, watched)
Reached(s) == \E i \in 1..Len(s) : Leads(s[i])

LEMMA ReachedByTail ==
    ASSUME NEW s \in Seq(Texts), s # <<>>, Reached(s)
    PROVE  Leads(Head(s)) \/ Reached(Tail(s))
<1>1. PICK i \in 1..Len(s) : Leads(s[i])
  BY DEF Reached
<1>2. CASE i = 1
  BY <1>1, <1>2
<1>3. CASE i # 1
  <2>1. i - 1 \in 1..Len(Tail(s)) /\ Tail(s)[i - 1] = s[i]
    BY <1>3
  <2> QED BY <1>1, <2>1 DEF Reached
<1> QED BY <1>2, <1>3

LEMMA ReachedByBoth ==
    ASSUME NEW s \in Seq(Texts), NEW t \in Seq(Texts), Reached(s) \/ Reached(t)
    PROVE  Reached(s \o t)
<1>1. ASSUME NEW i \in 1..Len(s), Leads(s[i]) PROVE Reached(s \o t)
  <2>1. i \in 1..Len(s \o t) /\ (s \o t)[i] = s[i]
    OBVIOUS
  <2> QED BY <1>1, <2>1 DEF Reached
<1>2. ASSUME NEW i \in 1..Len(t), Leads(t[i]) PROVE Reached(s \o t)
  <2>1. Len(s) + i \in 1..Len(s \o t) /\ (s \o t)[Len(s) + i] = t[i]
    OBVIOUS
  <2> QED BY <1>2, <2>1 DEF Reached
<1> QED BY <1>1, <1>2 DEF Reached

(* The same of the sequences that hold the file itself.                    *)
LEMMA HeldByAppend ==
    ASSUME NEW s \in Seq(Texts), NEW p \in Texts
    PROVE  \A x : x \in ToSet(Append(s, p)) <=> x = p \/ x \in ToSet(s)
<1>1. /\ Append(s, p) \in Seq(Texts) /\ Len(Append(s, p)) = Len(s) + 1
      /\ Append(s, p)[Len(s) + 1] = p
      /\ \A i \in 1..Len(s) : Append(s, p)[i] = s[i]
  OBVIOUS
<1>2. ToSet(s) = {s[i] : i \in 1..Len(s)}
      /\ ToSet(Append(s, p)) = {Append(s, p)[i] : i \in 1..(Len(s) + 1)}
  <2>1. DOMAIN s = 1..Len(s) /\ DOMAIN Append(s, p) = 1..(Len(s) + 1)
    OBVIOUS
  <2> QED BY <2>1 DEF ToSet
<1>3. Len(s) + 1 \in 1..(Len(s) + 1) /\ \A i \in 1..(Len(s) + 1) : i = Len(s) + 1 \/ i \in 1..Len(s)
  OBVIOUS
<1>4. \A i \in 1..Len(s) : i \in 1..(Len(s) + 1)
  OBVIOUS
<1> QED BY <1>1, <1>2, <1>3, <1>4

LEMMA HeldByTail ==
    ASSUME NEW s \in Seq(Texts), s # <<>>
    PROVE  \A x : x \in ToSet(s) => x = Head(s) \/ x \in ToSet(Tail(s))
<1> SUFFICES ASSUME NEW i \in 1..Len(s), i # 1 PROVE s[i] \in ToSet(Tail(s))
  BY DEF ToSet
<1>1. i - 1 \in 1..Len(Tail(s)) /\ Tail(s)[i - 1] = s[i] /\ DOMAIN Tail(s) = 1..Len(Tail(s))
  OBVIOUS
<1> QED BY <1>1 DEF ToSet

-----------------------------------------------------------------------------
(* The tree.                                                               *)

(* Two paths that both lead down to one are in line.                       *)
LEMMA InLine ==
    ASSUME NEW p \in Paths, NEW q \in Paths, NEW r \in Paths,
           Child(q, r), IsStrictPrefix(p, r)
    PROVE  p = q \/ IsStrictPrefix(p, q)
<1>1. p \in Texts /\ q \in Texts /\ r \in Texts
  BY PathsAreTexts
<1>2. /\ Len(p) < Len(r) /\ Len(r) = Len(q) + 1
      /\ \A k \in 1..Len(p) : p[k] = r[k]
      /\ \A k \in 1..Len(q) : q[k] = r[k]
  BY <1>1, PrefixByElements DEF Child
<1>3. Len(p) <= Len(q) /\ \A k \in 1..Len(p) : p[k] = q[k]
  BY <1>1, <1>2
<1> QED BY <1>1, <1>3, PrefixByElements DEF IsStrictPrefix

LEMMA ShapeKept == GrepTypes /\ TreeShape /\ [Next]_vars => TreeShape'
<1> SUFFICES ASSUME GrepTypes, TreeShape, [Next]_vars PROVE TreeShape'
  OBVIOUS
<1>1. CASE UNCHANGED tree
  BY <1>1 DEF TreeShape
<1>2. ASSUME NEW p \in Paths, NEW kind \in {"dir", "plain"}, Make(p, kind) PROVE TreeShape'
  <2>1. /\ tree[p] = "none" /\ tree' = [tree EXCEPT ![p] = kind]
        /\ \E q \in Paths : Child(q, p) /\ tree[q] = "dir"
    BY <1>2 DEF Make, Changed
  <2>2. ASSUME NEW q \in Paths, NEW r \in Paths, IsStrictPrefix(q, r), tree'[r] # "none"
        PROVE  tree'[q] = "dir"
    <3>1. CASE r = p
      <4>1. q # p /\ tree[q] = "dir"
        BY <2>1, <2>2, <3>1, InLine DEF TreeShape, IsStrictPrefix
      <4> QED BY <2>1, <4>1 DEF GrepTypes
    <3>2. CASE r # p
      <4>1. tree[r] # "none"
        BY <2>1, <2>2, <3>2 DEF GrepTypes
      <4>2. tree[q] = "dir"
        BY <2>2, <4>1 DEF TreeShape
      <4> QED BY <2>1, <4>2 DEF GrepTypes
    <3> QED BY <3>1, <3>2
  <2> QED BY <2>2 DEF TreeShape
<1>3. ASSUME NEW p \in Paths, NEW kind \in {"match", "plain"}, Write(p, kind) PROVE TreeShape'
  <2>1. tree[p] \in {"match", "plain"} /\ tree' = [tree EXCEPT ![p] = kind]
    BY <1>3 DEF Write, Changed
  <2>2. ASSUME NEW q \in Paths, NEW r \in Paths, IsStrictPrefix(q, r), tree'[r] # "none"
        PROVE  tree'[q] = "dir"
    <3>1. tree[r] # "none"
      BY <2>1, <2>2 DEF GrepTypes
    <3>2. tree[q] = "dir"
      BY <2>2, <3>1 DEF TreeShape
    <3> QED BY <2>1, <3>2 DEF GrepTypes
  <2> QED BY <2>2 DEF TreeShape
<1>4. ASSUME NEW p \in Paths, Unlink(p) PROVE TreeShape'
  <2>1. /\ tree[p] # "none" /\ tree' = [tree EXCEPT ![p] = "none"]
        /\ \A q \in Paths : Child(p, q) => tree[q] = "none"
    BY <1>4 DEF Unlink, Changed
  <2>2. ASSUME NEW q \in Paths, NEW r \in Paths, IsStrictPrefix(q, r), tree'[r] # "none"
        PROVE  tree'[q] = "dir"
    <3>1. tree[r] # "none"
      BY <2>1, <2>2 DEF GrepTypes
    <3>2. tree[q] = "dir"
      BY <2>2, <3>1 DEF TreeShape
    <3>3. CASE q = p
      <4> DEFINE c == SubSeq(r, 1, Len(p) + 1)
      <4>1. p \in Texts
        BY PathsAreTexts
      <4>2. c \in Paths /\ Child(p, c) /\ (c = r \/ IsStrictPrefix(c, r))
        BY <2>2, <3>3, <4>1, WayDown
      <4>3. tree[c] # "none"
        BY <3>1, <4>2 DEF TreeShape
      <4> QED BY <2>1, <4>2, <4>3
    <3>4. CASE q # p
      BY <2>1, <3>2, <3>4 DEF GrepTypes
    <3> QED BY <3>3, <3>4
  <2> QED BY <2>2 DEF TreeShape
<1> QED BY <1>1, <1>2, <1>3, <1>4
        DEF Next, Others, Walk, Start, List, IsDir, IsFile, Match, Answer, vars

-----------------------------------------------------------------------------
(* The walk.                                                               *)

LEMMA NothingThere == ToSet(<<>>) = {} /\ ~Reached(<<>>)
<1>1. \A i : i \notin 1..Len(<<>>)
  OBVIOUS
<1>2. DOMAIN <<>> = {}
  OBVIOUS
<1> QED BY <1>1, <1>2 DEF ToSet, Reached

(* An order of a listing is a sequence of texts.                           *)
LEMMA OrdersAreSequences ==
    ASSUME NEW p \in Texts, NEW order \in Orders(Listing(p))
    PROVE  order \in Seq(Texts) /\ ToSet(order) = Listing(p)
<1>1. Listing(p) \subseteq Texts
  <2>1. Append(p, "?") \in Texts
    BY DEF Texts
  <2> QED BY <2>1, PathsAreTexts, NothingThere DEF Listing
<1>2. IsFiniteSet(Listing(p))
  <2>1. IsFiniteSet({}) /\ IsFiniteSet({Append(p, "?")})
    BY FS_EmptySet, FS_Singleton
  <2>2. IsFiniteSet({q \in Paths : Child(p, q) /\ Shown(p, q) /\ tree[q] # "none"})
    BY GrepAssumption, FS_Subset
  <2> QED BY <2>1, <2>2 DEF Listing
<1>3. Cardinality(Listing(p)) \in Nat
  BY <1>2, FS_CardinalityType
<1>4. order \in [1..Cardinality(Listing(p)) -> Listing(p)] /\ ToSet(order) = Listing(p)
  BY DEF Orders
<1>5. order \in [1..Cardinality(Listing(p)) -> Texts]
  BY <1>1, <1>4
<1> QED BY <1>3, <1>4, <1>5

Rest == GrepTypes /\ Left /\ OnItsWay /\ Recorded

LEMMA StartKeeps ==
    ASSUME Rest, NEW p \in Paths, Start(p)
    PROVE  Rest'
<1>1. /\ pc = "idle" /\ pc' = "list" /\ dir' = p /\ UNCHANGED <<tree, todo, files, result, watched>>
      /\ steady' = (tree[watched] = "match" /\ IsStrictPrefix(p, watched) /\ Shown(p, watched))
      /\ ever' = (tree[watched] = "match")
  BY DEF Start
<1>2. result = <<>>
  BY <1>1 DEF Rest, Left
<1>3. GrepTypes'
  BY <1>1, PathsAreTexts, NothingThere DEF Rest, GrepTypes
<1>4. OnItsWay'
  BY <1>1 DEF OnItsWay
<1>5. Left' /\ Recorded'
  BY <1>1, <1>2, PathsAreTexts, NothingThere DEF Rest, Left, Recorded
<1> QED BY <1>3, <1>4, <1>5 DEF Rest

LEMMA ChangedKeeps ==
    ASSUME Rest, NEW p \in Paths, NEW kind \in {"none", "dir", "match", "plain"}, Changed(p, kind)
    PROVE  Rest'
<1>1. /\ tree' = [tree EXCEPT ![p] = kind] /\ UNCHANGED <<pc, dir, todo, files, result, watched>>
      /\ steady' = (steady /\ (p = watched => kind = "match"))
      /\ ever' = (ever \/ (p = watched /\ kind = "match"))
  BY DEF Changed, walk
<1>2. tree'[watched] = IF p = watched THEN kind ELSE tree[watched]
  BY <1>1 DEF Rest, GrepTypes
<1>3. GrepTypes'
  BY <1>1 DEF Rest, GrepTypes
<1>4. OnItsWay'
  BY <1>1, <1>2 DEF Rest, OnItsWay
<1>5. Left' /\ Recorded'
  BY <1>1, <1>2 DEF Rest, Left, Recorded
<1> QED BY <1>3, <1>4, <1>5 DEF Rest

LEMMA ListKeeps ==
    ASSUME Rest, TreeShape, List
    PROVE  Rest'
<1>1. PICK order \in Orders(Listing(dir)) : todo' = order \o todo
  BY DEF List
<1>2. /\ pc = "list" /\ pc' = (IF todo' = <<>> THEN "grep" ELSE "isDir")
      /\ UNCHANGED <<tree, dir, files, result, watched, steady, ever>>
  BY DEF List, history
<1>3. dir \in Texts /\ todo \in Seq(Texts) /\ watched \in Paths
  BY DEF Rest, GrepTypes
<1>4. order \in Seq(Texts) /\ ToSet(order) = Listing(dir)
  BY <1>3, OrdersAreSequences
<1>5. GrepTypes'
  BY <1>1, <1>2, <1>3, <1>4 DEF Rest, GrepTypes
<1>6. Left' /\ Recorded'
  BY <1>2 DEF Rest, Left, Recorded
<1>7. ASSUME steady, IsStrictPrefix(dir, watched), Shown(dir, watched) PROVE Reached(order)
  <2> DEFINE c == SubSeq(watched, 1, Len(dir) + 1)
  <2>1. c \in Paths /\ dir \in Paths /\ Child(dir, c) /\ IsPrefix(c, watched)
        /\ (c = watched \/ IsStrictPrefix(c, watched))
        /\ Shown(dir, c) /\ Shown(c, watched)
    BY <1>3, <1>7, WayDown
  <2>2. tree[watched] = "match"
    BY <1>7 DEF Rest, OnItsWay
  <2>3. tree[dir] = "dir" /\ tree[c] # "none"
    BY <1>3, <1>7, <2>1, <2>2 DEF TreeShape
  <2>4. c \in Listing(dir)
    BY <2>1, <2>3 DEF Listing, Kind
  <2>5. \E i \in 1..Len(order) : order[i] = c
    <3>1. DOMAIN order = 1..Len(order)
      BY <1>4
    <3> QED BY <1>4, <2>4, <3>1 DEF ToSet
  <2> QED BY <2>1, <2>5 DEF Reached, Leads
<1>8. Reached(order) \/ Reached(todo) => Reached(order \o todo)
  BY <1>3, <1>4, ReachedByBoth
<1>9. OnItsWay'
  BY <1>1, <1>2, <1>7, <1>8 DEF Rest, OnItsWay, Reached, Leads
<1> QED BY <1>5, <1>6, <1>9 DEF Rest

LEMMA IsDirKeeps ==
    ASSUME Rest, TreeShape, todo # <<>>, IsDir(Head(todo))
    PROVE  Rest'
<1> DEFINE p == Head(todo)
<1>1. /\ pc = "isDir" /\ UNCHANGED <<tree, files, result, watched, steady, ever>>
      /\ \/ /\ TRUE \in StatAnswers(p, {"dir"})
            /\ pc' = "list" /\ dir' = p /\ todo' = Tail(todo)
         \/ /\ FALSE \in StatAnswers(p, {"dir"})
            /\ pc' = "isFile" /\ UNCHANGED <<dir, todo>>
  <2>1. PICK answer \in StatAnswers(p, {"dir"}) :
            IF answer
            THEN pc' = "list" /\ dir' = p /\ todo' = Tail(todo)
            ELSE pc' = "isFile" /\ UNCHANGED <<dir, todo>>
    BY DEF IsDir
  <2>2. answer = TRUE \/ answer = FALSE
    BY DEF StatAnswers
  <2> QED BY <2>1, <2>2 DEF IsDir, history
<1>2. todo \in Seq(Texts) /\ p \in Texts /\ Tail(todo) \in Seq(Texts) /\ watched \in Paths
  BY DEF Rest, GrepTypes
<1>3. GrepTypes'
  BY <1>1, <1>2 DEF Rest, GrepTypes
<1>4. Left' /\ Recorded'
  BY <1>1, <1>2 DEF Rest, Left, Recorded
<1>5. Reached(todo) => Leads(p) \/ Reached(Tail(todo))
  BY <1>2, ReachedByTail
<1>6. ASSUME steady, IsPrefix(p, watched)
      PROVE  IF p = watched THEN TRUE \notin StatAnswers(p, {"dir"})
             ELSE IsStrictPrefix(p, watched) /\ FALSE \notin StatAnswers(p, {"dir"})
  <2>1. tree[watched] = "match"
    BY <1>6 DEF Rest, OnItsWay
  <2>2. CASE p = watched
    BY <1>2, <2>1, <2>2 DEF StatAnswers, Kind
  <2>3. CASE p # watched
    <3>1. IsStrictPrefix(p, watched)
      BY <1>6, <2>3 DEF IsStrictPrefix
    <3>2. p \in Paths
      BY <1>2, <3>1, WayDown
    <3>3. tree[p] = "dir"
      BY <1>2, <2>1, <3>1, <3>2 DEF TreeShape
    <3> QED BY <2>3, <3>1, <3>2, <3>3 DEF StatAnswers, Kind
  <2> QED BY <2>2, <2>3
<1>7. IsStrictPrefix(p, watched) => IsPrefix(p, watched) /\ p # watched
  BY DEF IsStrictPrefix
<1> HIDE DEF p
<1>8. OnItsWay'
  <2>1. CASE TRUE \in StatAnswers(p, {"dir"}) /\ pc' = "list" /\ dir' = p /\ todo' = Tail(todo)
    BY <1>1, <1>5, <1>6, <2>1 DEF Rest, OnItsWay, Reached, Leads
  <2>2. CASE FALSE \in StatAnswers(p, {"dir"}) /\ pc' = "isFile" /\ UNCHANGED <<dir, todo>>
    BY <1>1, <1>6, <1>7, <2>2 DEF Rest, OnItsWay, p
  <2> QED BY <1>1, <2>1, <2>2
<1> QED BY <1>3, <1>4, <1>8 DEF Rest

LEMMA IsFileKeeps ==
    ASSUME Rest, todo # <<>>, IsFile(Head(todo))
    PROVE  Rest'
<1> DEFINE p == Head(todo)
<1>1. /\ pc = "isFile" /\ todo' = Tail(todo) /\ pc' = (IF todo' = <<>> THEN "grep" ELSE "isDir")
      /\ UNCHANGED <<tree, dir, result, watched, steady, ever>>
      /\ \/ files' = Append(files, p)
         \/ FALSE \in StatAnswers(p, {"match", "plain"}) /\ files' = files
  <2>1. PICK answer \in StatAnswers(p, {"match", "plain"}) :
            files' = IF answer THEN Append(files, p) ELSE files
    BY DEF IsFile
  <2>2. answer = TRUE \/ answer = FALSE
    BY DEF StatAnswers
  <2> QED BY <2>1, <2>2 DEF IsFile, history
<1>2. todo \in Seq(Texts) /\ p \in Texts /\ Tail(todo) \in Seq(Texts)
      /\ files \in Seq(Texts) /\ watched \in Paths
  BY DEF Rest, GrepTypes
<1>3. GrepTypes'
  <2>1. Append(files, p) \in Seq(Texts)
    BY <1>2
  <2>2. files' \in Seq(Texts) /\ todo' \in Seq(Texts)
    BY <1>1, <1>2, <2>1
  <2> HIDE DEF p
  <2> QED BY <1>1, <2>2 DEF Rest, GrepTypes
<1>4. Left' /\ Recorded'
  BY <1>1, <1>2 DEF Rest, Left, Recorded
<1>5. Reached(todo) => Leads(p) \/ Reached(Tail(todo))
  BY <1>2, ReachedByTail
<1>6. steady /\ IsPrefix(p, watched) => p = watched /\ FALSE \notin StatAnswers(p, {"match", "plain"})
  BY <1>1, <1>2 DEF Rest, OnItsWay, IsStrictPrefix, StatAnswers, Kind
<1>7. \A x : x \in ToSet(Append(files, p)) <=> x = p \/ x \in ToSet(files)
  BY <1>2, HeldByAppend
<1> HIDE DEF p
<1>8. steady => \/ Reached(todo') \/ watched \in ToSet(files') \/ watched \in ToSet(result)
  BY <1>1, <1>5, <1>6, <1>7 DEF Rest, OnItsWay, Reached, Leads
<1>9. OnItsWay'
  BY <1>1, <1>8 DEF Rest, OnItsWay, Reached, Leads
<1> QED BY <1>3, <1>4, <1>9 DEF Rest

LEMMA MatchKeeps ==
    ASSUME Rest, files # <<>>, Match(Head(files))
    PROVE  Rest'
<1> DEFINE p == Head(files)
<1>1. /\ pc = "grep" /\ files' = Tail(files)
      /\ result' = (IF Kind(p) = "match" THEN Append(result, p) ELSE result)
      /\ UNCHANGED <<tree, pc, dir, todo, watched, steady, ever>>
  BY DEF Match, history
<1>2. files \in Seq(Texts) /\ p \in Texts /\ Tail(files) \in Seq(Texts)
      /\ result \in Seq(Texts) /\ watched \in Paths
  BY DEF Rest, GrepTypes
<1>3. /\ \A x : x \in ToSet(Append(result, p)) <=> x = p \/ x \in ToSet(result)
      /\ \A x : x \in ToSet(files) => x = p \/ x \in ToSet(Tail(files))
  BY <1>2, HeldByAppend, HeldByTail
<1> HIDE DEF p
<1>4. GrepTypes'
  <2>1. Append(result, p) \in Seq(Texts)
    BY <1>2
  <2>2. result' \in Seq(Texts) /\ files' \in Seq(Texts)
    BY <1>1, <1>2, <2>1 DEF p
  <2> QED BY <1>1, <2>2 DEF Rest, GrepTypes
<1>5. Left'
  BY <1>1 DEF Rest, Left
<1>6. p = watched => Kind(p) = tree[watched]
  BY <1>2 DEF Kind
<1>7. Recorded'
  BY <1>1, <1>3, <1>6 DEF Rest, Recorded
<1>8. OnItsWay'
  BY <1>1, <1>3, <1>6 DEF Rest, OnItsWay
<1> QED BY <1>4, <1>5, <1>7, <1>8 DEF Rest

LEMMA NothingKeeps == ASSUME Rest, UNCHANGED vars PROVE Rest'
<1> USE DEF vars, walk, history
<1>1. GrepTypes'
  BY DEF Rest, GrepTypes
<1>2. Left' /\ OnItsWay' /\ Recorded'
  BY DEF Rest, Left, OnItsWay, Recorded
<1> QED BY <1>1, <1>2 DEF Rest

LEMMA AnswerKeeps == ASSUME Rest, Answer PROVE Rest'
<1> USE DEF Answer, history
<1>1. GrepTypes'
  BY DEF Rest, GrepTypes
<1>2. Left'
  BY DEF Rest, Left
<1>3. OnItsWay' /\ Recorded'
  BY DEF Rest, OnItsWay, Recorded
<1> QED BY <1>1, <1>2, <1>3 DEF Rest

LEMMA GrepInvNext == GrepInv /\ [Next]_vars => GrepInv'
<1> SUFFICES ASSUME GrepInv, [Next]_vars PROVE Rest'
  BY ShapeKept DEF Rest, GrepInv
<1>2. Rest /\ TreeShape
  BY DEF Rest, GrepInv
<1>3. CASE UNCHANGED vars
  BY <1>2, <1>3, NothingKeeps
<1>4. CASE Answer
  BY <1>2, <1>4, AnswerKeeps
<1>5. CASE Others
  <2>1. PICK p \in Paths, kind \in {"none", "dir", "match", "plain"} : Changed(p, kind)
    BY <1>5 DEF Others, Make, Write, Unlink
  <2> QED BY <1>2, <2>1, ChangedKeeps
<1>6. CASE \E p \in Paths : Start(p)
  BY <1>2, <1>6, StartKeeps
<1>7. CASE Walk
  BY <1>2, <1>4, <1>7, ListKeeps, IsDirKeeps, IsFileKeeps, MatchKeeps DEF Walk
<1> QED BY <1>3, <1>4, <1>5, <1>6, <1>7 DEF Next

LEMMA AlwaysGrepInv == Spec => []GrepInv
<1>1. Init => GrepInv
  <2> SUFFICES ASSUME Init PROVE GrepInv
    OBVIOUS
  <2>1. GrepTypes
    <3>1. <<>> \in Texts /\ <<>> \in Seq(Texts)
      OBVIOUS
    <3> QED BY <3>1, PathsAreTexts, NothingThere DEF Init, GrepTypes
  <2>2. Left /\ OnItsWay /\ Recorded
    BY PathsAreTexts, NothingThere DEF Init, Left, OnItsWay, Recorded
  <2> QED BY <2>1, <2>2 DEF Init, GrepInv
<1> QED BY <1>1, GrepInvNext, PTL DEF Spec

(* grep misses no file that has matched all the time and has no name that  *)
(* begins with a dot on the way down to it, although the tree changes      *)
(* between its ls, its two tests and its grep program                      *)
(* (fetch_all_files_from_dir, command::grep).                              *)
THEOREM GrepFinds == Spec => []FindsAll
<1>1. GrepInv => FindsAll
  BY PathsAreTexts, NothingThere DEF GrepInv, Left, OnItsWay, FindsAll, Reached
<1> QED BY <1>1, AlwaysGrepInv, PTL

(* It reports no file that has not matched at some time since it began     *)
(* (command::grep).                                                        *)
THEOREM GrepInventsNothing == Spec => []FindsOnly
<1>1. GrepInv => FindsOnly
  BY DEF GrepInv, Recorded, FindsOnly
<1> QED BY <1>1, AlwaysGrepInv, PTL
=============================================================================

----------------------------- MODULE TextProofs -----------------------------
(***************************************************************************)
(* The arithmetic of paths, the chains of run_command, the passwords of    *)
(* grass.conf and the cutting of a line mean what they should for texts of *)
(* any length.  What a loop computes is the solution of the equation its   *)
(* rounds satisfy (Recursion), and what holds of it is shown round by      *)
(* round (UpTo).                                                           *)
(***************************************************************************)
EXTENDS TextCheck, Induction, FiniteSetTheorems, SequenceTheorems
LOCAL INSTANCE SequencesExt

-----------------------------------------------------------------------------
(* The loop of resolve_path, round by round.                               *)

Steps == Names \cup {".", ".."}
Parts == Steps \cup {Base}

LEMMA DescendType ==
    ASSUME NEW vec \in Seq(Parts), NEW dir \in Steps
    PROVE  Descend(vec, dir) \in Seq(Parts)
<1>1. vec # <<>> => Front(vec) \in Seq(Parts)
  BY DEF Front
<1>2. Append(vec, dir) \in Seq(Parts)
  BY DEF Parts
<1> QED BY <1>1, <1>2 DEF Descend

BuiltFrom(dir, path, vec) ==
    [k \in 0..Len(path) |-> IF k = 0 THEN <<Base>> \o dir ELSE Descend(vec[k - 1], path[k])]

LEMMA BuiltEquation ==
    ASSUME NEW dir \in Seq(Parts), NEW path \in Seq(Steps)
    PROVE  /\ Built(dir, path)[0] = <<Base>> \o dir
           /\ \A k \in 1..Len(path) :
                  Built(dir, path)[k] = Descend(Built(dir, path)[k - 1], path[k])
           /\ \A k \in 0..Len(path) : Built(dir, path)[k] \in Seq(Parts)
<1> DEFINE m == Len(path)
           base == <<Base>> \o dir
           Step == [k \in 1..m |-> [vec \in Seq(Parts) |-> Descend(vec, path[k])]]
<1>1. m \in Nat /\ base \in Seq(Parts)
  BY DEF Parts
<1>2. Step \in [1..m -> [Seq(Parts) -> Seq(Parts)]]
  <2>1. ASSUME NEW k \in 1..m, NEW vec \in Seq(Parts) PROVE Descend(vec, path[k]) \in Seq(Parts)
    BY DescendType
  <2> QED BY <2>1
<1>3. PICK g : Computes(g, m, Seq(Parts), base, Step)
  <2> HIDE DEF m, base, Step
  <2> QED BY <1>1, <1>2, Recursion
<1>4. g = BuiltFrom(dir, path, g)
  <2>1. ASSUME NEW k \in 1..m PROVE g[k] = Descend(g[k - 1], path[k])
    <3>1. k - 1 \in 0..m
      BY <1>1
    <3> QED BY <1>3, <3>1 DEF Computes
  <2> HIDE DEF Step, base
  <2>2. \A k \in 0..m : g[k] = IF k = 0 THEN base ELSE Descend(g[k - 1], path[k])
    <3>1. \A k \in 0..m : k = 0 \/ k \in 1..m
      BY <1>1
    <3>2. g[0] = base
      BY <1>3 DEF Computes
    <3> HIDE DEF m
    <3> QED BY <2>1, <3>1, <3>2
  <2> QED BY <1>3, <2>2 DEF BuiltFrom, base, Computes
<1> DEFINE Solves(vec) == vec = BuiltFrom(dir, path, vec)
           built == Built(dir, path)
<1>5. built = CHOOSE vec : Solves(vec)
  BY Zenon DEF Built, BuiltFrom
<1>6. built = BuiltFrom(dir, path, built)
  <2>1. Solves(g)
    BY <1>4
  <2> HIDE DEF Solves, built
  <2>2. Solves(built)
    BY <1>5, <2>1, Zenon
  <2> QED BY <2>2 DEF Solves
<1> HIDE DEF built, Step
<1>7. built[0] = base /\ \A k \in 1..m : built[k] = Descend(built[k - 1], path[k])
  <2>1. \A k \in 0..m : built[k] = IF k = 0 THEN base ELSE Descend(built[k - 1], path[k])
    BY <1>6 DEF BuiltFrom
  <2>2. 0 \in 0..m /\ \A k \in 1..m : k \in 0..m /\ k # 0
    BY <1>1
  <2> HIDE DEF m, base
  <2> QED BY <2>1, <2>2
<1>8. \A k \in 0..m : built[k] \in Seq(Parts)
  <2> DEFINE S == {k \in 0..m : built[k] \in Seq(Parts)}
  <2>1. 0 \in S
    <3>1. 0 \in 0..m
      BY <1>1
    <3>2. built[0] \in Seq(Parts)
      <4> HIDE DEF base
      <4> QED BY <1>1, <1>7
    <3> QED BY <3>1, <3>2
  <2>2. ASSUME NEW k \in 0..(m - 1), k \in S PROVE k + 1 \in S
    <3>1. k + 1 \in 1..m /\ k + 1 \in 0..m /\ (k + 1) - 1 = k
      BY <1>1
    <3>2. built[k + 1] = Descend(built[k], path[k + 1])
      <4> HIDE DEF m
      <4> QED BY <1>7, <3>1
    <3>3. built[k] \in Seq(Parts) /\ path[k + 1] \in Steps
      BY <2>2, <3>1
    <3> QED BY <3>1, <3>2, <3>3, DescendType
  <2> HIDE DEF S
  <2>3. \A k \in 0..m : k \in S
    BY <1>1, <2>1, <2>2, UpTo
  <2> QED BY <2>3 DEF S
<1> QED BY <1>7, <1>8 DEF built

(* One component more is one round more.                                   *)
LEMMA ResolveStep ==
    ASSUME NEW dir \in Seq(Parts), NEW path \in Seq(Steps), NEW step \in Steps
    PROVE  /\ Resolve(dir, <<>>) = <<Base>> \o dir
           /\ Resolve(dir, path) \in Seq(Parts)
           /\ Resolve(dir, Append(path, step)) = Descend(Resolve(dir, path), step)
<1> DEFINE n == Len(path)  longer == Append(path, step)
           u == Built(dir, path)  v == Built(dir, longer)
<1>1. /\ n \in Nat /\ longer \in Seq(Steps) /\ Len(longer) = n + 1
      /\ longer[n + 1] = step /\ \A k \in 1..n : longer[k] = path[k]
  OBVIOUS
<1>2. /\ u[0] = <<Base>> \o dir
      /\ \A k \in 1..n : u[k] = Descend(u[k - 1], path[k])
      /\ \A k \in 0..n : u[k] \in Seq(Parts)
  BY BuiltEquation
<1>3. /\ v[0] = <<Base>> \o dir
      /\ \A k \in 1..(n + 1) : v[k] = Descend(v[k - 1], longer[k])
  <2>1. Len(longer) = n + 1 /\ longer \in Seq(Steps)
    BY <1>1
  <2>2. \A k \in 1..Len(longer) : v[k] = Descend(v[k - 1], longer[k])
    <3> HIDE DEF longer
    <3> QED BY <2>1, BuiltEquation
  <2>3. v[0] = <<Base>> \o dir
    <3> HIDE DEF longer
    <3> QED BY <2>1, BuiltEquation
  <2> HIDE DEF longer, v
  <2> QED BY <2>1, <2>2, <2>3
<1> HIDE DEF longer, u, v
<1>4. \A k \in 0..n : u[k] = v[k]
  <2> DEFINE S == {k \in 0..n : u[k] = v[k]}
  <2>1. 0 \in S
    <3>1. 0 \in 0..n /\ u[0] = v[0]
      BY <1>1, <1>2, <1>3
    <3> QED BY <3>1
  <2>2. ASSUME NEW k \in 0..(n - 1), k \in S PROVE k + 1 \in S
    <3>1. k + 1 \in 1..n /\ k + 1 \in 1..(n + 1) /\ k + 1 \in 0..n /\ (k + 1) - 1 = k
      BY <1>1
    <3> QED BY <1>1, <1>2, <1>3, <2>2, <3>1
  <2> HIDE DEF S
  <2>3. \A k \in 0..n : k \in S
    BY <1>1, <2>1, <2>2, UpTo
  <2> QED BY <2>3 DEF S
<1>5. v[n + 1] = Descend(u[n], step)
  <2>1. n + 1 \in 1..(n + 1) /\ (n + 1) - 1 = n /\ n \in 0..n
    BY <1>1
  <2> QED BY <1>1, <1>3, <1>4, <2>1
<1>6. Resolve(dir, <<>>) = <<Base>> \o dir
  <2>1. <<>> \in Seq(Steps) /\ Len(<<>>) = 0
    OBVIOUS
  <2> QED BY <2>1, BuiltEquation DEF Resolve
<1> QED BY <1>1, <1>2, <1>5, <1>6 DEF Resolve, u, v, longer

-----------------------------------------------------------------------------
(* A walk, step by step.                                                   *)

LEMMA DepthType ==
    ASSUME NEW walk, NEW n \in Nat
    PROVE  Depth(walk, n) \in Int
<1> DEFINE D == {i \in 1..n : walk[i] \in Names}  U == {i \in 1..n : walk[i] = ".."}
<1>1. IsFiniteSet(1..n)
  BY FS_Interval
<1>2. IsFiniteSet(D) /\ IsFiniteSet(U)
  BY <1>1, FS_Subset
<1> HIDE DEF D, U
<1>3. Cardinality(D) \in Nat /\ Cardinality(U) \in Nat
  BY <1>2, FS_CardinalityType
<1> QED BY <1>3 DEF Depth, D, U

LEMMA DepthStart == ASSUME NEW walk PROVE Depth(walk, 0) = 0
<1>1. {i \in 1..0 : walk[i] \in Names} = {} /\ {i \in 1..0 : walk[i] = ".."} = {}
  OBVIOUS
<1> QED BY <1>1, FS_EmptySet DEF Depth

LEMMA DepthStep ==
    ASSUME NEW walk, NEW n \in Nat
    PROVE  Depth(walk, n + 1) =
               Depth(walk, n) + (IF walk[n + 1] \in Names THEN 1
                                 ELSE IF walk[n + 1] = ".." THEN -1 ELSE 0)
<1> DEFINE D(m) == {i \in 1..m : walk[i] \in Names}  U(m) == {i \in 1..m : walk[i] = ".."}
<1>1. IsFiniteSet(1..n)
  BY FS_Interval
<1>2. IsFiniteSet(D(n)) /\ IsFiniteSet(U(n))
  BY <1>1, FS_Subset
<1>3. /\ D(n + 1) = IF walk[n + 1] \in Names THEN D(n) \cup {n + 1} ELSE D(n)
      /\ U(n + 1) = IF walk[n + 1] = ".." THEN U(n) \cup {n + 1} ELSE U(n)
      /\ n + 1 \notin D(n) /\ n + 1 \notin U(n)
  OBVIOUS
<1>4. ".." \notin Names
  BY PathAssumption DEF PathAssumption
<1>5. Depth(walk, n) = Cardinality(D(n)) - Cardinality(U(n))
      /\ Depth(walk, n + 1) = Cardinality(D(n + 1)) - Cardinality(U(n + 1))
  BY DEF Depth
<1> HIDE DEF D, U
<1>6. Cardinality(D(n)) \in Nat /\ Cardinality(U(n)) \in Nat
  BY <1>2, FS_CardinalityType
<1>7. /\ Cardinality(D(n) \cup {n + 1}) = Cardinality(D(n)) + 1
      /\ Cardinality(U(n) \cup {n + 1}) = Cardinality(U(n)) + 1
  BY <1>2, <1>3, FS_AddElement
<1> QED BY <1>3, <1>4, <1>5, <1>6, <1>7

(* A step at the end changes nothing of what came before.                  *)
LEMMA DepthBefore ==
    ASSUME NEW walk \in Seq(Steps), NEW step \in Steps, NEW n \in 0..Len(walk)
    PROVE  Depth(Append(walk, step), n) = Depth(walk, n)
<1> DEFINE longer == Append(walk, step)
<1>1. \A i \in 1..n : longer[i] = walk[i]
  OBVIOUS
<1> HIDE DEF longer
<1>2. /\ {i \in 1..n : longer[i] \in Names} = {i \in 1..n : walk[i] \in Names}
      /\ {i \in 1..n : longer[i] = ".."} = {i \in 1..n : walk[i] = ".."}
  BY <1>1
<1> QED BY <1>2 DEF Depth, longer

(* Every depth on the way to the end was entered.                          *)
Found(walk) ==
    \A depth \in 1..Depth(walk, Len(walk)) :
        \E i \in 1..Len(walk) : EntersLast(walk, i, depth)

Final(walk) == Depth(walk, Len(walk))

LEMMA FinalType ==
    ASSUME NEW walk \in Seq(Steps), StaysBelow(walk)
    PROVE  Final(walk) \in Nat
<1>1. Len(walk) \in Nat
  OBVIOUS
<1>2. CASE Len(walk) = 0
  BY <1>2, DepthStart DEF Final
<1>3. CASE Len(walk) # 0
  <2>1. Len(walk) \in 1..Len(walk)
    BY <1>1, <1>3
  <2>2. Depth(walk, Len(walk)) >= 0 /\ Depth(walk, Len(walk)) \in Int
    BY <1>1, <2>1, DepthType DEF StaysBelow
  <2> QED BY <2>2 DEF Final
<1> QED BY <1>2, <1>3

(* No two steps are the last to enter a depth.                             *)
LEMMA LastIsOne ==
    ASSUME NEW walk \in Seq(Steps), NEW depth, NEW i \in 1..Len(walk), EntersLast(walk, i, depth)
    PROVE  (CHOOSE k \in 1..Len(walk) : EntersLast(walk, k, depth)) = i
<1> DEFINE last == CHOOSE k \in 1..Len(walk) : EntersLast(walk, k, depth)
<1>1. last \in 1..Len(walk) /\ EntersLast(walk, last, depth)
  BY Zenon
<1> HIDE DEF last
<1>2. ~(last < i) /\ ~(i < last)
  <2>1. last < i => i \in (last + 1)..Len(walk)
    BY <1>1
  <2>2. i < last => last \in (i + 1)..Len(walk)
    BY <1>1
  <2> QED BY <1>1, <2>1, <2>2 DEF EntersLast
<1>3. last = i
  BY <1>1, <1>2
<1> QED BY <1>3 DEF last

LEMMA DestinationType ==
    ASSUME NEW walk \in Seq(Steps), StaysBelow(walk), Found(walk)
    PROVE  Destination(walk) \in Seq(Names) /\ Len(Destination(walk)) = Final(walk)
<1>1. Final(walk) \in Nat
  BY FinalType
<1>2. ASSUME NEW depth \in 1..Final(walk)
      PROVE  walk[CHOOSE i \in 1..Len(walk) : EntersLast(walk, i, depth)] \in Names
  <2>1. PICK i \in 1..Len(walk) : EntersLast(walk, i, depth)
    BY DEF Found, Final
  <2>2. (CHOOSE k \in 1..Len(walk) : EntersLast(walk, k, depth)) = i
    BY <2>1, LastIsOne
  <2>3. walk[i] \in Names
    BY <2>1 DEF EntersLast, Enters
  <2> QED BY <2>2, <2>3
<1>3. Destination(walk) = [depth \in 1..Final(walk) |->
          walk[CHOOSE i \in 1..Len(walk) : EntersLast(walk, i, depth)]]
  BY DEF Destination, Final
<1> DEFINE Last_(depth) == walk[CHOOSE i \in 1..Len(walk) : EntersLast(walk, i, depth)]
<1>4. Destination(walk) = [depth \in 1..Final(walk) |-> Last_(depth)]
      /\ \A depth \in 1..Final(walk) : Last_(depth) \in Names
  BY <1>2, <1>3
<1> HIDE DEF Last_
<1> QED BY <1>1, <1>4

(* The same step is the last to enter a depth of the longer walk, unless   *)
(* the new step enters it.                                                 *)
LEMMA LastBefore ==
    ASSUME NEW walk \in Seq(Steps), NEW step \in Steps, NEW depth, NEW i \in 1..Len(walk),
           EntersLast(walk, i, depth), ~Enters(Append(walk, step), Len(walk) + 1, depth)
    PROVE  /\ i \in 1..Len(Append(walk, step))
           /\ EntersLast(Append(walk, step), i, depth)
           /\ Append(walk, step)[i] = walk[i]
<1> DEFINE longer == Append(walk, step)  n == Len(walk)
<1>1. n \in Nat /\ Len(longer) = n + 1 /\ \A k \in 1..n : longer[k] = walk[k]
  OBVIOUS
<1>2. \A k \in 1..n : Depth(longer, k) = Depth(walk, k)
  <2>1. \A k \in 1..n : k \in 0..n
    BY <1>1
  <2> QED BY <2>1, DepthBefore
<1> HIDE DEF longer
<1>3. \A k \in 1..n : Enters(longer, k, depth) <=> Enters(walk, k, depth)
  BY <1>1, <1>2 DEF Enters
<1>4. ASSUME NEW k \in (i + 1)..(n + 1) PROVE ~Enters(longer, k, depth)
  <2>1. CASE k = n + 1
    BY <2>1 DEF longer
  <2>2. CASE k # n + 1
    <3>1. k \in (i + 1)..n /\ k \in 1..n
      BY <1>1, <2>2
    <3> QED BY <1>3, <3>1 DEF EntersLast
  <2> QED BY <2>1, <2>2
<1>5. Enters(longer, i, depth)
  BY <1>3 DEF EntersLast
<1> QED BY <1>1, <1>4, <1>5 DEF EntersLast, longer

LEMMA FinalStep ==
    ASSUME NEW walk \in Seq(Steps), NEW step \in Steps
    PROVE  LET longer == Append(walk, step)
           IN  /\ longer \in Seq(Steps) /\ Len(longer) = Len(walk) + 1
               /\ longer[Len(walk) + 1] = step
               /\ Final(longer) = Final(walk) + (IF step \in Names THEN 1
                                                ELSE IF step = ".." THEN -1 ELSE 0)
               /\ StaysBelow(longer) <=> StaysBelow(walk) /\ Final(longer) >= 0
<1> DEFINE longer == Append(walk, step)  n == Len(walk)
<1>1. /\ n \in Nat /\ longer \in Seq(Steps) /\ Len(longer) = n + 1
      /\ longer[n + 1] = step
  OBVIOUS
<1>2. \A k \in 0..n : Depth(longer, k) = Depth(walk, k)
  BY DepthBefore
<1> HIDE DEF longer
<1>3. Depth(longer, n + 1) =
          Depth(longer, n) + (IF step \in Names THEN 1 ELSE IF step = ".." THEN -1 ELSE 0)
  BY <1>1, DepthStep
<1>4. Depth(longer, n) = Depth(walk, n)
  <2>1. n \in 0..n
    BY <1>1
  <2> QED BY <1>2, <2>1
<1>5. StaysBelow(longer) <=> StaysBelow(walk) /\ Depth(longer, n + 1) >= 0
  <2>1. \A k \in 1..(n + 1) : k \in 1..n \/ k = n + 1
    BY <1>1
  <2>2. n + 1 \in 1..(n + 1) /\ \A k \in 1..n : k \in 1..(n + 1) /\ k \in 0..n
    BY <1>1
  <2> QED BY <1>1, <1>2, <2>1, <2>2 DEF StaysBelow
<1> QED BY <1>1, <1>3, <1>4, <1>5 DEF Final, longer

(* Depths of the longer walk that its last step does not enter.            *)
LEMMA SameBelow ==
    ASSUME NEW walk \in Seq(Steps), NEW step \in Steps, Found(walk),
           NEW depth \in 1..Final(walk), depth \in 1..Final(Append(walk, step)),
           ~Enters(Append(walk, step), Len(walk) + 1, depth)
    PROVE  /\ \E i \in 1..Len(Append(walk, step)) : EntersLast(Append(walk, step), i, depth)
           /\ Destination(Append(walk, step))[depth] = Destination(walk)[depth]
<1> DEFINE longer == Append(walk, step)
<1>1. PICK i \in 1..Len(walk) : EntersLast(walk, i, depth)
  BY DEF Found, Final
<1>2. i \in 1..Len(longer) /\ EntersLast(longer, i, depth) /\ longer[i] = walk[i]
  BY <1>1, LastBefore
<1>3. longer \in Seq(Steps)
  OBVIOUS
<1> HIDE DEF longer
<1>4. /\ (CHOOSE k \in 1..Len(walk) : EntersLast(walk, k, depth)) = i
      /\ (CHOOSE k \in 1..Len(longer) : EntersLast(longer, k, depth)) = i
  BY <1>1, <1>2, <1>3, LastIsOne
<1>5. Destination(walk)[depth] = walk[CHOOSE k \in 1..Len(walk) : EntersLast(walk, k, depth)]
  BY DEF Destination, Final
<1>6. Destination(longer)[depth] = longer[CHOOSE k \in 1..Len(longer) : EntersLast(longer, k, depth)]
  BY DEF Destination, Final, longer
<1> QED BY <1>2, <1>4, <1>5, <1>6 DEF longer

LEMMA WalkStep ==
    ASSUME NEW walk \in Seq(Steps), NEW step \in Steps,
           StaysBelow(walk), Found(walk), StaysBelow(Append(walk, step))
    PROVE  /\ Found(Append(walk, step))
           /\ Destination(Append(walk, step)) =
                  IF step \in Names THEN Append(Destination(walk), step)
                  ELSE IF step = ".." THEN Front(Destination(walk)) ELSE Destination(walk)
<1> DEFINE longer == Append(walk, step)  n == Len(walk)
           before == Destination(walk)  after == Destination(longer)
<1>1. /\ n \in Nat /\ longer \in Seq(Steps) /\ Len(longer) = n + 1 /\ longer[n + 1] = step
      /\ Final(longer) = Final(walk) + (IF step \in Names THEN 1
                                       ELSE IF step = ".." THEN -1 ELSE 0)
  BY FinalStep
<1>2. Final(walk) \in Nat /\ Final(longer) \in Nat
  BY <1>1, FinalType
<1>3. \A depth : Enters(longer, n + 1, depth) <=> step \in Names /\ depth = Final(walk) + 1
  BY <1>1, <1>2 DEF Enters, Final
<1>4. ASSUME NEW depth \in 1..Final(longer), depth <= Final(walk)
      PROVE  /\ \E i \in 1..Len(longer) : EntersLast(longer, i, depth)
             /\ after[depth] = before[depth]
  <2>1. depth \in 1..Final(walk)
    BY <1>2, <1>4
  <2>2. ~Enters(longer, n + 1, depth)
    BY <1>2, <1>3, <1>4
  <2> QED BY <1>4, <2>1, <2>2, SameBelow
<1>5. ASSUME step \in Names
      PROVE  /\ EntersLast(longer, n + 1, Final(longer))
             /\ after[Final(longer)] = step
  <2> HIDE DEF longer
  <2>1. EntersLast(longer, n + 1, Final(longer)) /\ n + 1 \in 1..Len(longer)
    BY <1>1, <1>2, <1>3, <1>5 DEF EntersLast
  <2>2. (CHOOSE k \in 1..Len(longer) : EntersLast(longer, k, Final(longer))) = n + 1
    BY <1>1, <2>1, LastIsOne
  <2>3. Final(longer) \in 1..Final(longer)
    BY <1>1, <1>2, <1>5
  <2>4. after[Final(longer)] =
            longer[CHOOSE k \in 1..Len(longer) : EntersLast(longer, k, Final(longer))]
    BY <2>3 DEF Destination, Final
  <2> QED BY <1>1, <2>1, <2>2, <2>4
<1>6. Found(longer)
  <2>1. ASSUME NEW depth \in 1..Final(longer)
        PROVE  \E i \in 1..Len(longer) : EntersLast(longer, i, depth)
    <3>1. CASE depth <= Final(walk)
      BY <1>4, <3>1
    <3>2. CASE depth > Final(walk)
      <4>1. step \in Names /\ depth = Final(longer)
        BY <1>1, <1>2, <3>2
      <4>2. n + 1 \in 1..Len(longer)
        BY <1>1
      <4> QED BY <1>5, <4>1, <4>2
    <3> QED BY <1>2, <3>1, <3>2
  <2> QED BY <2>1 DEF Found, Final
<1>7. /\ before \in Seq(Names) /\ Len(before) = Final(walk)
      /\ after \in Seq(Names) /\ Len(after) = Final(longer)
  BY <1>1, <1>6, DestinationType
<1> HIDE DEF longer, before, after
<1>8. CASE step \in Names
  <2> DEFINE other == Append(before, step)
  <2>1. /\ other \in Seq(Names) /\ Len(other) = Len(after)
        /\ \A depth \in 1..Len(before) : other[depth] = before[depth]
        /\ other[Len(before) + 1] = step
    BY <1>1, <1>2, <1>7, <1>8
  <2> HIDE DEF other
  <2>2. \A depth \in 1..Len(after) : after[depth] = other[depth]
    <3> SUFFICES ASSUME NEW depth \in 1..Final(longer) PROVE after[depth] = other[depth]
      BY <1>7
    <3>1. CASE depth <= Final(walk)
      BY <1>2, <1>4, <1>7, <2>1, <3>1
    <3>2. CASE depth > Final(walk)
      <4>1. Final(longer) = Final(walk) + 1
        BY <1>1, <1>8
      <4>2. depth = Final(longer) /\ depth = Len(before) + 1
        BY <1>2, <1>7, <3>2, <4>1
      <4>3. after[Final(longer)] = step
        BY <1>5, <1>8
      <4> QED BY <2>1, <4>2, <4>3
    <3> QED BY <1>2, <3>1, <3>2
  <2>3. after = other
    BY <1>7, <2>1, <2>2, SeqEqual
  <2> QED BY <1>6, <1>8, <2>3 DEF other, longer, before, after
<1>9. CASE step \notin Names
  <2>1. step = ".." \/ step # ".."
    OBVIOUS
  <2> DEFINE other == IF step = ".." THEN Front(before) ELSE before
  <2>2. other \in Seq(Names) /\ Len(other) = Len(after)
        /\ \A depth \in 1..Len(after) : other[depth] = before[depth] /\ depth <= Final(walk)
    <3>1. CASE step = ".."
      <4>1. Len(before) \in Nat \ {0}
        BY <1>1, <1>2, <1>7, <1>9, <3>1
      <4> QED BY <1>1, <1>2, <1>7, <1>9, <3>1, <4>1 DEF Front
    <3>2. CASE step # ".."
      BY <1>1, <1>2, <1>7, <1>9, <3>2
    <3> QED BY <3>1, <3>2
  <2> HIDE DEF other
  <2>3. \A depth \in 1..Len(after) : after[depth] = other[depth]
    BY <1>4, <1>7, <2>2
  <2>4. after = other
    BY <1>7, <2>2, <2>3, SeqEqual
  <2> QED BY <1>6, <1>9, <2>4 DEF other, longer, before, after
<1> QED BY <1>8, <1>9

-----------------------------------------------------------------------------
(* What resolve_path makes of a walk, and that it makes it of every walk.  *)

Means(dir, path) ==
    LET walk == dir \o path
    IN  IF StaysBelow(walk)
        THEN Found(walk) /\ Resolve(dir, path) = <<Base>> \o Destination(walk)
        ELSE Resolve(dir, path) = <<>>

(* A directory is a walk that enters one depth after the other.            *)
LEMMA MeansStart ==
    ASSUME NEW dir \in Seq(Names)
    PROVE  Means(dir, <<>>)
<1> DEFINE n == Len(dir)
<1>1. /\ n \in Nat /\ dir \in Seq(Steps) /\ dir \in Seq(Parts) /\ dir \o <<>> = dir
      /\ \A k \in 1..n : dir[k] \in Names
  BY DEF Steps, Parts
<1>2. \A k \in 0..n : Depth(dir, k) = k
  <2> DEFINE S == {k \in 0..n : Depth(dir, k) = k}
  <2>1. 0 \in S
    BY <1>1, DepthStart
  <2>2. ASSUME NEW k \in 0..(n - 1), k \in S PROVE k + 1 \in S
    <3>1. k \in Nat /\ k + 1 \in 0..n /\ k + 1 \in 1..n
      BY <1>1
    <3>2. Depth(dir, k + 1) = Depth(dir, k) + 1
      BY <1>1, <3>1, DepthStep
    <3> QED BY <2>2, <3>1, <3>2
  <2> HIDE DEF S
  <2>3. \A k \in 0..n : k \in S
    BY <1>1, <2>1, <2>2, UpTo
  <2> QED BY <2>3 DEF S
<1>3. StaysBelow(dir) /\ Final(dir) = n
  BY <1>1, <1>2 DEF StaysBelow, Final
<1>4. ASSUME NEW depth \in 1..n PROVE depth \in 1..Len(dir) /\ EntersLast(dir, depth, depth)
  <2>1. \A k \in 1..n : Enters(dir, k, depth) <=> k = depth
    <3>1. \A k \in 1..n : k \in 0..n
      BY <1>1
    <3> QED BY <1>1, <1>2, <3>1 DEF Enters
  <2>2. \A k \in (depth + 1)..n : k \in 1..n /\ k # depth
    BY <1>1
  <2> QED BY <2>1, <2>2 DEF EntersLast
<1>5. Found(dir)
  BY <1>3, <1>4 DEF Found, Final
<1>6. Destination(dir) = dir
  <2>1. Destination(dir) \in Seq(Names) /\ Len(Destination(dir)) = n
    BY <1>1, <1>3, <1>5, DestinationType
  <2>2. ASSUME NEW depth \in 1..n PROVE Destination(dir)[depth] = dir[depth]
    <3>1. (CHOOSE k \in 1..Len(dir) : EntersLast(dir, k, depth)) = depth
      BY <1>1, <1>4, LastIsOne
    <3>2. Destination(dir)[depth] =
              dir[CHOOSE k \in 1..Len(dir) : EntersLast(dir, k, depth)]
      BY <1>3 DEF Destination, Final
    <3> QED BY <3>1, <3>2
  <2> HIDE DEF n
  <2> QED BY <2>1, <2>2, SeqEqual DEF n
<1>7. Resolve(dir, <<>>) = <<Base>> \o dir
  <2>1. <<>> \in Seq(Steps) /\ "." \in Steps
    BY DEF Steps
  <2> QED BY <1>1, <2>1, ResolveStep
<1> QED BY <1>1, <1>3, <1>5, <1>6, <1>7 DEF Means

(* One component more: the place of the longer walk, or, for good, nothing *)
(* once the walk has left the base directory.                              *)
LEMMA MeansStep ==
    ASSUME NEW dir \in Seq(Names), NEW path \in Seq(Steps), NEW step \in Steps,
           Means(dir, path)
    PROVE  Means(dir, Append(path, step))
<1> DEFINE walk == dir \o path  longer == Append(walk, step)
           text == Resolve(dir, path)  extended == Resolve(dir, Append(path, step))
<1>1. dir \in Seq(Steps) /\ dir \in Seq(Parts)
  BY DEF Steps, Parts
<1>2. walk \in Seq(Steps) /\ dir \o Append(path, step) = longer
  BY <1>1
<1>3. extended = Descend(text, step)
  BY <1>1, ResolveStep
<1>4. /\ Final(longer) = Final(walk) + (IF step \in Names THEN 1
                                       ELSE IF step = ".." THEN -1 ELSE 0)
      /\ StaysBelow(longer) <=> StaysBelow(walk) /\ Final(longer) >= 0
  <2> HIDE DEF walk
  <2> QED BY <1>2, FinalStep
<1>5. "." \notin Names /\ ".." \notin Names /\ "." # ".."
  BY PathAssumption DEF PathAssumption
<1> HIDE DEF walk, text, extended
<1>6. CASE ~StaysBelow(walk)
  <2>1. ~StaysBelow(longer) /\ text = <<>>
    BY <1>4, <1>6 DEF Means, walk, text
  <2>2. extended = <<>>
    BY <1>3, <2>1 DEF Descend
  <2> QED BY <1>2, <2>1, <2>2 DEF Means, extended
<1>7. CASE StaysBelow(walk)
  <2> DEFINE place == Destination(walk)
  <2>1. Found(walk) /\ text = <<Base>> \o place
    BY <1>7 DEF Means, walk, text
  <2>2. place \in Seq(Names) /\ Len(place) = Final(walk) /\ Final(walk) \in Nat
    BY <1>2, <1>7, <2>1, DestinationType, FinalType
  <2> HIDE DEF place
  <2>3. text # <<>>
    BY <2>1, <2>2
  <2>4. CASE StaysBelow(longer)
    <3>1. /\ Found(longer)
          /\ Destination(longer) = IF step \in Names THEN Append(place, step)
                                   ELSE IF step = ".." THEN Front(place) ELSE place
      BY <1>2, <1>7, <2>1, <2>4, WalkStep DEF place
    <3>2. extended = <<Base>> \o Destination(longer)
      <4>1. CASE step \in Names
        BY <1>3, <1>5, <2>1, <2>2, <2>3, <3>1, <4>1 DEF Descend
      <4>2. CASE step = ".."
        <5>1. Len(place) \in Nat \ {0}
          BY <1>4, <1>5, <2>2, <2>4, <4>2
        <5>2. Front(<<Base>> \o place) = <<Base>> \o Front(place)
          BY <2>2, <5>1 DEF Front
        <5> QED BY <1>3, <1>5, <2>1, <2>3, <3>1, <4>2, <5>2 DEF Descend
      <4>3. CASE step = "."
        BY <1>3, <1>5, <2>1, <3>1, <4>3 DEF Descend
      <4> QED BY <4>1, <4>2, <4>3 DEF Steps
    <3> QED BY <1>2, <2>4, <3>1, <3>2 DEF Means, extended
  <2>5. CASE ~StaysBelow(longer)
    <3>1. step = ".." /\ Len(place) = 0
      BY <1>4, <1>7, <2>2, <2>5
    <3>2. text = <<Base>> /\ Front(<<Base>>) = <<>>
      BY <2>1, <2>2, <3>1 DEF Front
    <3>3. extended = <<>>
      BY <1>3, <1>5, <2>3, <3>1, <3>2 DEF Descend
    <3> QED BY <1>2, <2>5, <3>3 DEF Means, extended
  <2> QED BY <2>4, <2>5
<1> QED BY <1>6, <1>7

LEMMA MeansWalk ==
    ASSUME NEW dir \in Seq(Names), NEW path \in Seq(Steps), Means(dir, path)
    PROVE  LET text == Resolve(dir, path)
               walk == dir \o path
           IN  /\ InsideBase(text) <=> StaysBelow(walk)
               /\ StaysBelow(walk) => Relative(text) = Destination(walk)
<1> DEFINE walk == dir \o path  text == Resolve(dir, path)  place == Destination(walk)
<1>1. walk \in Seq(Steps)
  BY DEF Steps
<1>2. CASE StaysBelow(walk)
  <2>1. Found(walk) /\ text = <<Base>> \o place
    BY <1>2 DEF Means
  <2> HIDE DEF walk, text
  <2>2. place \in Seq(Names)
    BY <1>1, <1>2, <2>1, DestinationType
  <2> HIDE DEF place
  <2>3. text # <<>> /\ Head(text) = Base /\ Tail(text) = place
    BY <2>1, <2>2
  <2> QED BY <1>2, <2>2, <2>3 DEF InsideBase, Relative, TreePaths, place, text, walk
<1>3. CASE ~StaysBelow(walk)
  BY <1>3 DEF Means, InsideBase
<1> QED BY <1>2, <1>3

-----------------------------------------------------------------------------
(* The invariants of the texts.                                            *)

PathsMean == cwd \in Seq(Names) /\ arg \in Seq(Steps) /\ Means(cwd, arg)

LEMMA PathsStart == TextInit => PathsMean
<1> SUFFICES ASSUME TextInit PROVE PathsMean
  OBVIOUS
<1>1. arg = <<>> /\ cwd \in BoundedSeq(Names, MaxCwd)
  BY DEF TextInit, Init
<1>2. cwd \in Seq(Names)
  <2>1. PICK m \in 0..MaxCwd : cwd \in [1..m -> Names]
    BY <1>1 DEF BoundedSeq, SeqOf
  <2> QED BY <2>1
<1>3. Means(cwd, <<>>)
  BY <1>2, MeansStart
<1> QED BY <1>1, <1>2, <1>3 DEF PathsMean

LEMMA PathsGoOn == PathsMean /\ [TextNext]_<<cwd, texts>> => PathsMean'
<1> SUFFICES ASSUME PathsMean, [TextNext]_<<cwd, texts>> PROVE PathsMean'
  OBVIOUS
<1>1. CASE Next
  <2>1. PICK step \in Steps : arg' = Append(arg, step) /\ cwd' = cwd
    BY <1>1 DEF Next, Steps
  <2>2. Means(cwd, Append(arg, step))
    BY MeansStep DEF PathsMean
  <2> QED BY <2>1, <2>2 DEF PathsMean
<1>2. CASE UNCHANGED <<cwd, arg>>
  BY <1>2 DEF PathsMean, Means
<1> QED BY <1>1, <1>2 DEF TextNext, texts

(* cd, mkdir, rm, get and put mean the place a walk along their argument   *)
(* ends in, and are refused exactly when the walk leaves the base          *)
(* directory: for every set of names, every directory and every argument   *)
(* (resolve_path with its break, its pops and its last test).              *)
THEOREM PathsAreWalks == TextSpec => []ResolveIsWalk
<1>1. TextInit => PathsMean
  BY PathsStart
<1>2. PathsMean /\ [TextNext]_<<cwd, texts>> => PathsMean'
  BY PathsGoOn
<1>3. PathsMean => ResolveIsWalk
  BY MeansWalk DEF PathsMean, ResolveIsWalk
<1> QED BY <1>1, <1>2, <1>3, PTL DEF TextSpec

-----------------------------------------------------------------------------
(* The chains of run_command: where one handler is found the other three   *)
(* conditions and the calls behind them add nothing.                       *)

LEMMA OneOfFive ==
    ASSUME NEW c
    PROVE  /\ <<c>> \o <<>> \o <<>> \o <<>> \o <<>> \o <<>> = <<c>>
           /\ <<>> \o <<c>> \o <<>> \o <<>> \o <<>> \o <<>> = <<c>>
           /\ <<>> \o <<>> \o <<c>> \o <<>> \o <<>> \o <<>> = <<c>>
           /\ <<>> \o <<>> \o <<>> \o <<c>> \o <<>> \o <<>> = <<c>>
           /\ <<>> \o <<>> \o <<>> \o <<>> \o <<c>> \o <<>> = <<c>>
           /\ <<>> \o <<>> \o <<>> \o <<>> \o <<>> \o <<c>> = <<c>>
<1>1. <<>> \o <<>> = <<>>
  OBVIOUS
<1>2. <<>> \o <<c>> = <<c>>
  OBVIOUS
<1>3. <<c>> \o <<>> = <<c>>
  OBVIOUS
<1> QED BY <1>1, <1>2, <1>3, Zenon

LEMMA ShortSequence ==
    ASSUME NEW S, NEW t \in Seq(S)
    PROVE  /\ Len(t) = 1 => t = <<t[1]>>
           /\ Len(t) = 2 => t = <<t[1], t[2]>>
<1>1. ASSUME Len(t) = 1 PROVE t = <<t[1]>>
  <2> DEFINE a == t[1]  u == <<a>>
  <2>1. a \in S
    BY <1>1
  <2> HIDE DEF a
  <2>2. u \in Seq(S) /\ Len(u) = 1 /\ u[1] = a
    BY <2>1
  <2> HIDE DEF u
  <2>3. \A k \in 1..Len(t) : t[k] = u[k]
    BY <1>1, <2>2 DEF a
  <2>4. t = u
    BY <1>1, <2>2, <2>3, SeqEqual
  <2> QED BY <2>4 DEF u, a
<1>2. ASSUME Len(t) = 2 PROVE t = <<t[1], t[2]>>
  <2> DEFINE a == t[1]  b == t[2]  u == <<a, b>>
  <2>1. a \in S /\ b \in S
    BY <1>2
  <2> HIDE DEF a, b
  <2>2. u \in Seq(S) /\ Len(u) = 2 /\ u[1] = a /\ u[2] = b
    BY <2>1
  <2> HIDE DEF u
  <2>3. \A k \in 1..Len(t) : t[k] = u[k]
    BY <1>2, <2>2 DEF a, b
  <2>4. t = u
    BY <1>2, <2>2, <2>3, SeqEqual
  <2> QED BY <2>4 DEF u, a, b
<1> QED BY <1>1, <1>2

LEMMA ShortTail ==
    ASSUME NEW S, NEW w \in Seq(S)
    PROVE  /\ Len(w) = 1 => Tail(w) = <<>>
           /\ Len(w) = 2 => Tail(w) = <<w[2]>>
           /\ Len(w) = 3 => Tail(w) = <<w[2], w[3]>>
<1>1. CASE Len(w) = 1
  BY <1>1
<1>2. ASSUME Len(w) = 2 PROVE Tail(w) = <<w[2]>>
  <2>1. Tail(w) \in Seq(S) /\ Len(Tail(w)) = 1
    BY <1>2
  <2>2. Tail(w)[1] = w[2]
    <3>1. 1 \in 1..Len(Tail(w)) /\ 1 + 1 = 2
      BY <2>1
    <3>2. w # <<>>
      <4>1. Len(<<>>) = 0
        OBVIOUS
      <4> QED BY <1>2, <4>1
    <3>3. \A i \in 1..Len(Tail(w)) : Tail(w)[i] = w[i + 1]
      BY <3>2, HeadTailProperties
    <3> QED BY <3>1, <3>3
  <2>3. Tail(w) = <<Tail(w)[1]>>
    BY <2>1, ShortSequence
  <2> QED BY <2>2, <2>3
<1>3. ASSUME Len(w) = 3 PROVE Tail(w) = <<w[2], w[3]>>
  <2>1. Tail(w) \in Seq(S) /\ Len(Tail(w)) = 2
    BY <1>3
  <2>2. Tail(w)[1] = w[2] /\ Tail(w)[2] = w[3]
    BY <1>3
  <2>3. Tail(w) = <<Tail(w)[1], Tail(w)[2]>>
    BY <2>1, ShortSequence
  <2> QED BY <2>2, <2>3
<1> QED BY <1>1, <1>2, <1>3

(* The line that run_command sees: a known or an unknown command and       *)
(* numbers.                                                                *)
Line(w) ==
    /\ w \in Seq(CommandNames \cup Int)
    /\ w # <<>> => w[1] \in CommandNames /\ \A k \in 2..Len(w) : w[k] \in Int

LEMMA AcceptedLine ==
    ASSUME NEW w, Line(w), ~Refused(w)
    PROVE  /\ w # <<>> /\ Len(w) \in Nat /\ Head(w) = w[1]
           /\ \/ Head(w) \in CommandsWithoutArgument /\ Len(w) = 1 /\ Tail(w) = <<>>
              \/ Head(w) \in CommandsOfOneArgument /\ Len(w) = 2 /\ Tail(w) = <<w[2]>>
              \/ Head(w) = "put" /\ Len(w) = 3 /\ Tail(w) = <<w[2], w[3]>>
<1>1. w # <<>> /\ w \in Seq(CommandNames \cup Int) /\ Head(w) = w[1] /\ Len(w) \in Nat \ {0}
  BY DEF Refused, Line
<1>2. HasCommand(Head(w)) /\ Len(w) - 1 = ArgumentTotal[Head(w)]
  BY DEF Refused
<1> DEFINE name == Head(w)
<1>3. name \in CommandsWithoutArgument \cup CommandsOfOneArgument \cup {"put"}
  BY <1>2 DEF HasCommand, ArgumentTotal
<1>4. ArgumentTotal[name] = IF name \in CommandsWithoutArgument THEN 0
                            ELSE IF name \in CommandsOfOneArgument THEN 1 ELSE 2
  BY <1>3 DEF ArgumentTotal
<1> HIDE DEF name
<1>5. CASE name \in CommandsWithoutArgument
  <2>1. Len(w) = 1
    BY <1>1, <1>2, <1>4, <1>5 DEF name
  <2> QED BY <1>1, <1>5, <2>1, ShortTail DEF name
<1>6. CASE name \notin CommandsWithoutArgument /\ name \in CommandsOfOneArgument
  <2>1. Len(w) = 2
    BY <1>1, <1>2, <1>4, <1>6 DEF name
  <2> QED BY <1>1, <1>6, <2>1, ShortTail DEF name
<1>7. CASE name \notin CommandsWithoutArgument /\ name \notin CommandsOfOneArgument
  <2>1. Len(w) = 3 /\ name = "put"
    BY <1>1, <1>2, <1>3, <1>4, <1>7 DEF name
  <2> QED BY <1>1, <1>7, <2>1, ShortTail DEF name
<1> QED BY <1>5, <1>6, <1>7

LEMMA OneCall ==
    ASSUME NEW w, Line(w), ~Refused(w)
    PROVE  Calls(w) = <<IF Head(w) = "put" /\ ~ValidLength(w[3])
                        THEN Call("send_error", <<>>) ELSE Call(Head(w), Tail(w))>>
<1> DEFINE name == Head(w)  one == <<Given(w, 1)>>
           c == IF name = "put" /\ ~ValidLength(w[3])
                THEN Call("send_error", <<>>) ELSE Call(name, Tail(w))
           A == IF name \in {"rm", "cd"} THEN <<Call(name, one)>> ELSE <<>>
           B == IF name \in {"ls"} THEN <<Call(name, <<>>)>> ELSE <<>>
           G == IF name \in {"get"} THEN <<Call(name, one)>> ELSE <<>>
           P == IF name # "put" THEN <<>>
                ELSE IF ValidLength(Given(w, 2))
                     THEN <<Call(name, <<Given(w, 1), Given(w, 2)>>)>>
                     ELSE <<Call("send_error", <<>>)>>
           X == IF name \in {"ping", "login", "pass", "grep"} THEN <<Call(name, one)>> ELSE <<>>
           Y == IF name \in {"w", "whoami", "date", "exit", "logout"}
                THEN <<Call(name, <<>>)>> ELSE <<>>
<1>1. Calls(w) = IF name = "mkdir" THEN <<Call(name, one)>> ELSE A \o B \o G \o P \o X \o Y
  BY DEF Calls
<1>2. /\ w # <<>> /\ Len(w) \in Nat
      /\ \/ name \in CommandsWithoutArgument /\ Len(w) = 1 /\ Tail(w) = <<>>
         \/ name \in CommandsOfOneArgument /\ Len(w) = 2 /\ Tail(w) = <<w[2]>>
         \/ name = "put" /\ Len(w) = 3 /\ Tail(w) = <<w[2], w[3]>>
  BY AcceptedLine
<1> HIDE DEF name
<1>3. CASE name \in CommandsOfOneArgument
  <2>1. name # "put" /\ name \notin CommandsWithoutArgument
    BY <1>3 DEF CommandsOfOneArgument, CommandsWithoutArgument
  <2>2. Len(w) = 2 /\ Tail(w) = <<w[2]>>
    BY <1>2, <2>1
  <2>3. one = Tail(w)
    BY <2>2 DEF Given
  <2>4. c = Call(name, one)
    BY <2>1, <2>3 DEF name
  <2> HIDE DEF one
  <2>5. \/ name = "mkdir"
        \/ A = <<c>> /\ B = <<>> /\ G = <<>> /\ P = <<>> /\ X = <<>> /\ Y = <<>>
        \/ A = <<>> /\ B = <<>> /\ G = <<c>> /\ P = <<>> /\ X = <<>> /\ Y = <<>>
        \/ A = <<>> /\ B = <<>> /\ G = <<>> /\ P = <<>> /\ X = <<c>> /\ Y = <<>>
    BY <1>3, <2>4 DEF CommandsOfOneArgument
  <2> HIDE DEF A, B, G, P, X, Y, c
  <2>6. Calls(w) = <<c>>
    BY <1>1, <2>4, <2>5, OneOfFive, Zenon
  <2> QED BY <2>6 DEF c, name
<1>4. CASE name \in CommandsWithoutArgument
  <2>1. c = Call(name, <<>>)
    BY <1>2, <1>4 DEF CommandsOfOneArgument, CommandsWithoutArgument
  <2>2. \/ A = <<>> /\ B = <<c>> /\ G = <<>> /\ P = <<>> /\ X = <<>> /\ Y = <<>>
        \/ A = <<>> /\ B = <<>> /\ G = <<>> /\ P = <<>> /\ X = <<>> /\ Y = <<c>>
    BY <1>4, <2>1 DEF CommandsWithoutArgument
  <2>3. name # "mkdir"
    BY <1>4 DEF CommandsWithoutArgument
  <2> HIDE DEF A, B, G, P, X, Y, c
  <2>4. Calls(w) = <<c>>
    BY <1>1, <2>2, <2>3, OneOfFive, Zenon
  <2> QED BY <2>4 DEF c, name
<1>5. CASE name = "put"
  <2>1. Given(w, 1) = w[2] /\ Given(w, 2) = w[3] /\ Tail(w) = <<w[2], w[3]>>
    BY <1>2, <1>5 DEF Given, CommandsOfOneArgument, CommandsWithoutArgument
  <2>2. A = <<>> /\ B = <<>> /\ G = <<>> /\ P = <<c>> /\ X = <<>> /\ Y = <<>>
    BY <1>5, <2>1 DEF name
  <2>3. name # "mkdir"
    BY <1>5
  <2> HIDE DEF A, B, G, P, X, Y, c
  <2>4. Calls(w) = <<c>>
    BY <1>1, <2>2, <2>3, OneOfFive, Zenon
  <2> QED BY <2>4 DEF c, name
<1> QED BY <1>2, <1>3, <1>4, <1>5

LEMMA LineUnderstood ==
    ASSUME NEW w, Line(w)
    PROVE  /\ TransfersOf(w) = ClientWatches(w)
           /\ ~Refused(w) =>
                 /\ Len(CallsOf(w)) = 1
                 /\ CallsOf(w)[1] \in {Call(Head(w), Tail(w)), Call("send_error", <<>>)}
<1> DEFINE calls    == CallsOf(w)
           handlers == {calls[i].handler : i \in 1..Len(calls)}
<1>h. HandlersOf(w) = handlers /\ TransfersOf(w) = handlers \cap {"get", "put"}
  BY DEF HandlersOf, TransfersOf
<1>1. CASE Refused(w)
  <2>1. handlers = {}
    BY <1>1 DEF CallsOf
  <2>2. ClientWatches(w) = {}
    <3>1. ArgumentTotal["get"] = 1 /\ ArgumentTotal["put"] = 2
          /\ HasCommand("get") /\ HasCommand("put")
      BY DEF HasCommand, ArgumentTotal, CommandsOfOneArgument, CommandsWithoutArgument
    <3>2. CASE w = <<>>
      BY <3>2 DEF ClientWatches
    <3>3. CASE w # <<>>
      <4>1. Len(w) \in Nat
        BY DEF Line
      <4>2. ASSUME Head(w) = "get" PROVE Len(w) # 2
        <5>1. Len(w) - 1 # 1
          BY <1>1, <3>1, <3>3, <4>2 DEF Refused
        <5> QED BY <4>1, <5>1
      <4>3. ASSUME Head(w) = "put" PROVE Len(w) # 3
        <5>1. Len(w) - 1 # 2
          BY <1>1, <3>1, <3>3, <4>3 DEF Refused
        <5> QED BY <4>1, <5>1
      <4> QED BY <3>3, <4>2, <4>3 DEF ClientWatches
    <3> QED BY <3>2, <3>3
  <2> HIDE DEF handlers
  <2> QED BY <1>h, <1>1, <2>1, <2>2
<1>2. CASE ~Refused(w)
  <2> DEFINE c == IF Head(w) = "put" /\ ~ValidLength(w[3])
                  THEN Call("send_error", <<>>) ELSE Call(Head(w), Tail(w))
  <2>1. calls = <<c>>
    BY <1>2, OneCall DEF CallsOf
  <2> HIDE DEF calls
  <2>2. handlers = {c.handler}
    BY <2>1
  <2>3. ClientWatches(w) = {c.handler} \cap {"get", "put"}
    BY <1>2, AcceptedLine DEF ClientWatches, Call, CommandsOfOneArgument, CommandsWithoutArgument
  <2>4. Len(calls) = 1 /\ calls[1] = c
    BY <2>1
  <2>5. c \in {Call(Head(w), Tail(w)), Call("send_error", <<>>)}
    OBVIOUS
  <2> HIDE DEF c, handlers
  <2> QED BY <1>h, <1>2, <2>2, <2>3, <2>4, <2>5 DEF calls
<1> QED BY <1>1, <1>2

LEMMA LinesStart == TextInit => Line(words)
<1>1. <<>> \in Seq(CommandNames \cup Int)
  OBVIOUS
<1> QED BY <1>1 DEF TextInit, Line

LEMMA LinesGoOn == Line(words) /\ [TextNext]_<<cwd, texts>> => Line(words)'
<1> SUFFICES ASSUME Line(words), [TextNext]_<<cwd, texts>> PROVE Line(words')
  BY DEF Line
<1>1. CASE UNCHANGED words
  BY <1>1
<1>2. CASE \E word \in IF words = <<>> THEN CommandNames ELSE Numbers :
               words' = Append(words, word)
  <2>1. PICK word \in IF words = <<>> THEN CommandNames ELSE Numbers :
               words' = Append(words, word)
    BY <1>2
  <2>2. words \in Seq(CommandNames \cup Int) /\ Numbers \subseteq Int
    BY DEF Line, Numbers, NoNumber
  <2>3. word \in CommandNames \cup Int
    BY <2>1, <2>2
  <2>4. words' \in Seq(CommandNames \cup Int) /\ Len(words') = Len(words) + 1
        /\ words'[Len(words) + 1] = word
    BY <2>1, <2>2, <2>3
  <2>5. \A k \in 1..Len(words) : words'[k] = words[k]
    BY <2>1, <2>2, <2>3
  <2>6. CASE words = <<>>
    <3>1. Len(words') = 1 /\ words'[1] = word /\ word \in CommandNames
      BY <2>1, <2>4, <2>6
    <3> QED BY <2>4, <3>1 DEF Line
  <2>7. CASE words # <<>>
    <3>1. Len(words) \in Nat \ {0}
      BY <2>2, <2>7
    <3>2. words'[1] \in CommandNames
      BY <2>5, <2>7, <3>1 DEF Line
    <3>3. ASSUME NEW k \in 2..Len(words') PROVE words'[k] \in Int
      <4>1. CASE k = Len(words) + 1
        BY <2>1, <2>2, <2>4, <2>7, <4>1
      <4>2. CASE k # Len(words) + 1
        <5>1. k \in 1..Len(words) /\ k \in 2..Len(words)
          BY <2>4, <3>1, <4>2
        <5> QED BY <2>5, <2>7, <5>1 DEF Line
      <4> QED BY <4>1, <4>2
    <3> QED BY <2>4, <3>2, <3>3 DEF Line
  <2> QED BY <2>6, <2>7
<1> QED BY <1>1, <1>2 DEF TextNext, texts

-----------------------------------------------------------------------------
(* The lines of grass.conf: the first of a user decides.                   *)

FirstOf(user, file, i) ==
    /\ i \in 1..Len(file)
    /\ LineOfUser(user, file[i])
    /\ \A k \in 1..(i - 1) : ~LineOfUser(user, file[k])

LEMMA PasswordOfLine ==
    ASSUME NEW user, NEW entry \in ConfLines, LineOfUser(user, entry)
    PROVE  entry[3] \in Passwords
<1>1. entry # <<>> /\ Head(entry) = "user"
  BY DEF LineOfUser
<1>2. Head(<<"base", "u", "p">>) # "user"
  OBVIOUS
<1>3. PICK u \in Users, password \in Passwords : entry = <<"user", u, password>>
  BY <1>1, <1>2 DEF ConfLines
<1> QED BY <1>3

LEMMA FirstDecides ==
    ASSUME NEW user, NEW file \in Seq(ConfLines), NEW i, FirstOf(user, file, i)
    PROVE  Accepted(user, file) = {file[i][3]}
<1>1. file[i] \in ConfLines /\ LineOfUser(user, file[i]) /\ i \in 1..Len(file)
  BY DEF FirstOf
<1>2. file[i][3] \in Passwords
  BY <1>1, PasswordOfLine
<1>3. \A password \in Passwords :
          CheckIfUserPasswordExists(user, password, file) <=> password = file[i][3]
  <2>1. ASSUME NEW j \in 1..Len(file), LineOfUser(user, file[j]),
               \A k \in 1..(j - 1) : ~LineOfUser(user, file[k])
        PROVE  j = i
    <3>1. j < i => j \in 1..(i - 1)
      BY <1>1
    <3>2. i < j => i \in 1..(j - 1)
      BY <1>1
    <3> QED BY <1>1, <2>1, <3>1, <3>2 DEF FirstOf
  <2>2. \A password \in Passwords :
            password = file[i][3] => CheckIfUserPasswordExists(user, password, file)
    BY DEF FirstOf, CheckIfUserPasswordExists
  <2>3. \A password \in Passwords :
            CheckIfUserPasswordExists(user, password, file) => password = file[i][3]
    BY <2>1 DEF CheckIfUserPasswordExists
  <2> QED BY <2>2, <2>3
<1> QED BY <1>2, <1>3 DEF Accepted

LEMMA FirstThere ==
    ASSUME NEW user, NEW file \in Seq(ConfLines), CheckIfUserExists(user, file)
    PROVE  \E i \in 1..Len(file) : FirstOf(user, file, i)
<1> DEFINE T == {i \in 1..Len(file) : LineOfUser(user, file[i])}
<1>1. T # {} /\ T \in SUBSET Nat
  BY DEF CheckIfUserExists
<1>2. PICK i \in T : \A k \in T : i <= k
  <2> HIDE DEF T
  <2> QED BY <1>1, LeastElement
<1>3. \A k \in 1..(i - 1) : k \in 1..Len(file) /\ ~(i <= k)
  BY <1>2
<1> QED BY <1>2, <1>3 DEF FirstOf

LEMMA NoneWithout ==
    ASSUME NEW user, NEW file, ~CheckIfUserExists(user, file)
    PROVE  Accepted(user, file) = {}
  BY DEF Accepted, CheckIfUserExists, CheckIfUserPasswordExists

LEMMA PasswordOfEach ==
    ASSUME NEW user, NEW file \in Seq(ConfLines)
    PROVE  /\ Cardinality(Accepted(user, file)) = IF CheckIfUserExists(user, file) THEN 1 ELSE 0
           /\ \A n \in 1..Len(file) :
                  Accepted(user, SubSeq(file, 1, n)) \in {{}, Accepted(user, file)}
<1>1. CASE ~CheckIfUserExists(user, file)
  <2>1. Cardinality(Accepted(user, file)) = 0
    BY <1>1, NoneWithout, FS_EmptySet
  <2>2. ASSUME NEW n \in 1..Len(file) PROVE Accepted(user, SubSeq(file, 1, n)) = {}
    <3>1. ~CheckIfUserExists(user, SubSeq(file, 1, n))
      BY <1>1 DEF CheckIfUserExists
    <3> QED BY <3>1, NoneWithout
  <2> QED BY <1>1, <2>1, <2>2
<1>2. CASE CheckIfUserExists(user, file)
  <2>1. PICK i \in 1..Len(file) : FirstOf(user, file, i)
    BY <1>2, FirstThere
  <2>2. Accepted(user, file) = {file[i][3]}
    BY <2>1, FirstDecides
  <2>3. Cardinality(Accepted(user, file)) = 1
    BY <2>2, FS_Singleton
  <2>4. ASSUME NEW n \in 1..Len(file)
        PROVE  Accepted(user, SubSeq(file, 1, n)) \in {{}, Accepted(user, file)}
    <3> DEFINE begin == SubSeq(file, 1, n)
    <3>1. begin \in Seq(ConfLines) /\ Len(begin) = n /\ \A k \in 1..n : begin[k] = file[k]
      OBVIOUS
    <3> HIDE DEF begin
    <3>2. CASE ~CheckIfUserExists(user, begin)
      BY <3>2, NoneWithout DEF begin
    <3>3. CASE CheckIfUserExists(user, begin)
      <4>1. i \in 1..n
        <5>1. PICK j \in 1..n : LineOfUser(user, file[j])
          BY <3>1, <3>3 DEF CheckIfUserExists
        <5>2. ~(j < i)
          <6>1. j < i => j \in 1..(i - 1)
            OBVIOUS
          <6> QED BY <2>1, <5>1, <6>1 DEF FirstOf
        <5> QED BY <5>2
      <4>2. \A k \in 1..(i - 1) : k \in 1..n
        BY <4>1
      <4>3. FirstOf(user, begin, i) /\ begin[i] = file[i]
        BY <2>1, <3>1, <4>1, <4>2 DEF FirstOf
      <4>4. Accepted(user, begin) = {file[i][3]}
        BY <3>1, <4>3, FirstDecides
      <4> QED BY <2>2, <4>4 DEF begin
    <3> QED BY <3>2, <3>3
  <2> QED BY <1>2, <2>3, <2>4
<1> QED BY <1>1, <1>2

(* However the lines of grass.conf repeat or contradict each other, a user *)
(* login accepts has exactly one password that pass accepts, and nobody    *)
(* else has one; lines added at the end change nothing of it (the loops of *)
(* check_if_user_exists and check_if_user_password_exists).                *)
THEOREM EachHasOnePassword == TextSpec => []OnePasswordEach
<1> DEFINE Lines == conf \in Seq(ConfLines)
<1>1. TextInit => Lines
  BY DEF TextInit
<1>2. Lines /\ [TextNext]_<<cwd, texts>> => Lines'
  <2> SUFFICES ASSUME conf \in Seq(ConfLines), [TextNext]_<<cwd, texts>>
               PROVE  conf' \in Seq(ConfLines)
    OBVIOUS
  <2>1. CASE UNCHANGED conf
    BY <2>1
  <2>2. CASE \E entry \in ConfLines : conf' = Append(conf, entry)
    BY <2>2
  <2> QED BY <2>1, <2>2 DEF TextNext, texts
<1>3. Lines => OnePasswordEach
  <2>1. SUFFICES ASSUME conf \in Seq(ConfLines), NEW user \in Users
                 PROVE  /\ Cardinality(Accepted(user, conf)) =
                               IF CheckIfUserExists(user, conf) THEN 1 ELSE 0
                        /\ \A n \in 1..Len(conf) :
                              Accepted(user, SubSeq(conf, 1, n)) \in {{}, Accepted(user, conf)}
    BY DEF OnePasswordEach
  <2> QED BY <2>1, PasswordOfEach
<1> HIDE DEF Lines
<1> QED BY <1>1, <1>2, <1>3, PTL DEF TextSpec

-----------------------------------------------------------------------------
(* Where the quotes of a line are, and which spaces replace_spaces keeps.  *)

PositionsFrom(text, char, positions) ==
    [n \in 0..Len(text) |->
        IF n = 0 THEN <<>>
        ELSE IF text[n] = char THEN Append(positions[n - 1], n) ELSE positions[n - 1]]

LEMMA OccurrencesEquation ==
    ASSUME NEW text \in Seq(Characters), NEW char
    PROVE  LET positions == OccurrencesUpTo(text, char)
           IN  /\ positions[0] = <<>>
               /\ \A n \in 1..Len(text) :
                      positions[n] = IF text[n] = char THEN Append(positions[n - 1], n)
                                     ELSE positions[n - 1]
<1> DEFINE m == Len(text)
           Step == [n \in 1..m |-> [vec \in Seq(Nat) |->
                       IF text[n] = char THEN Append(vec, n) ELSE vec]]
<1>1. m \in Nat /\ <<>> \in Seq(Nat) /\ Step \in [1..m -> [Seq(Nat) -> Seq(Nat)]]
  <2>1. ASSUME NEW n \in 1..m, NEW vec \in Seq(Nat)
        PROVE  (IF text[n] = char THEN Append(vec, n) ELSE vec) \in Seq(Nat)
    OBVIOUS
  <2> QED BY <2>1
<1>2. PICK g : Computes(g, m, Seq(Nat), <<>>, Step)
  <2> HIDE DEF m, Step
  <2> QED BY <1>1, Recursion
<1>3. g = PositionsFrom(text, char, g)
  <2>1. ASSUME NEW n \in 1..m
        PROVE  g[n] = IF text[n] = char THEN Append(g[n - 1], n) ELSE g[n - 1]
    <3>1. n - 1 \in 0..m
      BY <1>1
    <3> QED BY <1>2, <3>1 DEF Computes
  <2> HIDE DEF Step
  <2>2. \A n \in 0..m : g[n] = IF n = 0 THEN <<>>
                               ELSE IF text[n] = char THEN Append(g[n - 1], n) ELSE g[n - 1]
    <3>1. \A n \in 0..m : n = 0 \/ n \in 1..m
      BY <1>1
    <3>2. g[0] = <<>>
      BY <1>2 DEF Computes
    <3> HIDE DEF m
    <3> QED BY <2>1, <3>1, <3>2
  <2> QED BY <1>2, <2>2 DEF PositionsFrom, Computes
<1> DEFINE Solves(positions) == positions = PositionsFrom(text, char, positions)
           found == OccurrencesUpTo(text, char)
<1>4. found = CHOOSE positions : Solves(positions)
  BY Zenon DEF OccurrencesUpTo, PositionsFrom
<1>5. found = PositionsFrom(text, char, found)
  <2>1. Solves(g)
    BY <1>3
  <2> HIDE DEF Solves, found
  <2>2. Solves(found)
    BY <1>4, <2>1, Zenon
  <2> QED BY <2>2 DEF Solves
<1> HIDE DEF found, Step
<1>6. \A n \in 0..m : found[n] = IF n = 0 THEN <<>>
                                 ELSE IF text[n] = char THEN Append(found[n - 1], n)
                                 ELSE found[n - 1]
  BY <1>5 DEF PositionsFrom
<1>7. 0 \in 0..m /\ \A n \in 1..m : n \in 0..m /\ n # 0
  BY <1>1
<1> HIDE DEF m
<1> QED BY <1>6, <1>7 DEF m, found

LEMMA QuotesBeforeStep ==
    ASSUME NEW i \in Nat
    PROVE  /\ QuotesBefore(1) = 0
           /\ QuotesBefore(i + 1) \in Nat
           /\ QuotesBefore(i + 2) =
                  QuotesBefore(i + 1) + (IF line[i + 1] = Quote THEN 1 ELSE 0)
<1> DEFINE Q(n) == {j \in 1..n : line[j] = Quote}
<1>1. Q(0) = {} /\ IsFiniteSet(1..i)
  BY FS_Interval
<1>2. IsFiniteSet(Q(i))
  BY <1>1, FS_Subset
<1>3. Q(i + 1) = (IF line[i + 1] = Quote THEN Q(i) \cup {i + 1} ELSE Q(i)) /\ i + 1 \notin Q(i)
  OBVIOUS
<1>4. /\ QuotesBefore(1) = Cardinality(Q(0)) /\ QuotesBefore(i + 1) = Cardinality(Q(i))
      /\ QuotesBefore(i + 2) = Cardinality(Q(i + 1))
  <2>1. 1 - 1 = 0 /\ (i + 1) - 1 = i /\ (i + 2) - 1 = i + 1
    OBVIOUS
  <2> QED BY <2>1 DEF QuotesBefore
<1> HIDE DEF Q
<1>5. Cardinality(Q(0)) = 0 /\ Cardinality(Q(i)) \in Nat
  BY <1>1, <1>2, FS_EmptySet, FS_CardinalityType
<1>6. Cardinality(Q(i) \cup {i + 1}) = Cardinality(Q(i)) + 1
  BY <1>2, <1>3, FS_AddElement
<1> QED BY <1>3, <1>4, <1>5, <1>6

(* The positions found up to n, in order: k of them are before the next    *)
(* character exactly when that many quotes are.                            *)
Ordered(positions, n) ==
    /\ positions \in Seq(Nat)
    /\ Len(positions) = QuotesBefore(n + 1)
    /\ \A i \in 1..(n + 1) : QuotesBefore(i) \in Nat /\ QuotesBefore(i) <= QuotesBefore(n + 1)
    /\ \A k \in 1..Len(positions) :
           /\ positions[k] \in 1..n
           /\ line[positions[k]] = Quote
           /\ \A i \in 1..(n + 1) : positions[k] < i <=> k <= QuotesBefore(i)

LEMMA OrderedStep ==
    ASSUME NEW n \in Nat, NEW positions, Ordered(positions, n)
    PROVE  Ordered(IF line[n + 1] = Quote THEN Append(positions, n + 1) ELSE positions, n + 1)
<1> DEFINE q == QuotesBefore(n + 1)
<1>1. q \in Nat /\ positions \in Seq(Nat) /\ Len(positions) = q
  BY QuotesBeforeStep DEF Ordered
<1>2. QuotesBefore(n + 2) = q + (IF line[n + 1] = Quote THEN 1 ELSE 0)
  BY QuotesBeforeStep
<1>3. (n + 1) + 1 = n + 2 /\ \A i \in 1..(n + 2) : i \in 1..(n + 1) \/ i = n + 2
  OBVIOUS
<1>4. \A i \in 1..(n + 1) : QuotesBefore(i) \in Nat /\ QuotesBefore(i) <= q
  BY DEF Ordered
<1>5. /\ QuotesBefore(n + 2) \in Nat
      /\ \A i \in 1..(n + 2) : QuotesBefore(i) \in Nat /\ QuotesBefore(i) <= QuotesBefore(n + 2)
  <2> HIDE DEF q
  <2> QED BY <1>1, <1>2, <1>3, <1>4
<1>6. \A k \in 1..q :
          /\ positions[k] \in 1..n
          /\ line[positions[k]] = Quote
          /\ \A i \in 1..(n + 1) : positions[k] < i <=> k <= QuotesBefore(i)
  BY <1>1 DEF Ordered
<1> HIDE DEF q
<1>7. ASSUME NEW k \in 1..q
      PROVE  /\ positions[k] \in 1..(n + 1)
             /\ line[positions[k]] = Quote
             /\ \A i \in 1..(n + 2) : positions[k] < i <=> k <= QuotesBefore(i)
  <2>1. positions[k] \in 1..n /\ line[positions[k]] = Quote
    BY <1>6
  <2>2. k <= QuotesBefore(n + 2) /\ positions[k] < n + 2
    BY <1>1, <1>2, <2>1
  <2>3. \A i \in 1..(n + 1) : positions[k] < i <=> k <= QuotesBefore(i)
    BY <1>6
  <2> QED BY <1>3, <2>1, <2>2, <2>3
<1>8. CASE line[n + 1] # Quote
  <2>1. Len(positions) = QuotesBefore(n + 2)
    BY <1>1, <1>2, <1>8
  <2> QED BY <1>1, <1>3, <1>5, <1>7, <1>8, <2>1 DEF Ordered
<1>9. CASE line[n + 1] = Quote
  <2> DEFINE longer == Append(positions, n + 1)
  <2>1. /\ longer \in Seq(Nat) /\ Len(longer) = q + 1 /\ longer[q + 1] = n + 1
        /\ \A k \in 1..q : longer[k] = positions[k]
    BY <1>1
  <2> HIDE DEF longer
  <2>2. Len(longer) = QuotesBefore(n + 2)
    BY <1>1, <1>2, <1>9, <2>1
  <2>3. \A i \in 1..(n + 2) : n + 1 < i <=> q + 1 <= QuotesBefore(i)
    <3>1. ASSUME NEW i \in 1..(n + 1) PROVE ~(n + 1 < i) /\ ~(q + 1 <= QuotesBefore(i))
      BY <1>1, <1>4
    <3>2. n + 1 < n + 2 /\ q + 1 <= QuotesBefore(n + 2)
      BY <1>1, <1>2, <1>9
    <3> QED BY <1>3, <3>1, <3>2
  <2>4. ASSUME NEW k \in 1..Len(longer)
        PROVE  /\ longer[k] \in 1..(n + 1)
               /\ line[longer[k]] = Quote
               /\ \A i \in 1..(n + 2) : longer[k] < i <=> k <= QuotesBefore(i)
    <3>1. CASE k = q + 1
      <4>1. longer[k] = n + 1 /\ n + 1 \in 1..(n + 1)
        BY <2>1, <3>1
      <4> QED BY <1>9, <2>3, <3>1, <4>1
    <3>2. CASE k # q + 1
      <4>1. k \in 1..q
        BY <1>1, <2>1, <3>2
      <4>2. longer[k] = positions[k]
        BY <2>1, <4>1
      <4> QED BY <1>7, <4>1, <4>2
    <3> QED BY <3>1, <3>2
  <2> QED BY <1>3, <1>5, <1>9, <2>1, <2>2, <2>4 DEF Ordered, longer
<1> QED BY <1>8, <1>9

LEMMA OrderedQuotes ==
    ASSUME line \in Seq(Characters)
    PROVE  Ordered(Occurrences(line, Quote), Len(line))
<1> DEFINE m == Len(line)  positions == OccurrencesUpTo(line, Quote)
           S == {n \in 0..m : Ordered(positions[n], n)}
<1>1. m \in Nat
  OBVIOUS
<1>2. /\ positions[0] = <<>>
      /\ \A n \in 1..m : positions[n] = IF line[n] = Quote THEN Append(positions[n - 1], n)
                                        ELSE positions[n - 1]
  BY OccurrencesEquation
<1> HIDE DEF positions
<1>3. 0 \in S
  <2>1. QuotesBefore(1) = 0
    BY QuotesBeforeStep
  <2>2. \A i \in 1..(0 + 1) : i = 1
    OBVIOUS
  <2>3. <<>> \in Seq(Nat) /\ Len(<<>>) = 0 /\ 1..0 = {} /\ 0 + 1 = 1
    OBVIOUS
  <2>4. Ordered(<<>>, 0)
    BY <2>1, <2>2, <2>3 DEF Ordered
  <2> QED BY <1>1, <1>2, <2>4
<1>4. ASSUME NEW n \in 0..(m - 1), n \in S PROVE n + 1 \in S
  <2>1. n + 1 \in 1..m /\ n + 1 \in 0..m /\ (n + 1) - 1 = n /\ n \in Nat
    BY <1>1
  <2>2. positions[n + 1] = IF line[n + 1] = Quote THEN Append(positions[n], n + 1)
                           ELSE positions[n]
    BY <1>2, <2>1
  <2>3. Ordered(positions[n], n)
    BY <1>4
  <2> QED BY <2>1, <2>2, <2>3, OrderedStep
<1> HIDE DEF S
<1>5. \A n \in 0..m : n \in S
  BY <1>1, <1>3, <1>4, UpTo
<1>6. m \in S
  BY <1>1, <1>5
<1> QED BY <1>6 DEF S, Occurrences, positions

LEMMA OddBetween ==
    ASSUME line \in Seq(Characters), NEW beyond \in Nat,
           NEW i \in 1..Len(line), line[i] = Space
    PROVE  LET quotes == Occurrences(line, Quote) \o <<beyond>>
           IN  (\E k \in 1..(Len(quotes) - 1) :
                    k % 2 = 1 /\ quotes[k] < i /\ i < quotes[k + 1])
               <=> i \notin Separators(beyond)
<1> DEFINE positions == Occurrences(line, Quote)  quotes == positions \o <<beyond>>
           m == Len(line)  q == QuotesBefore(i)  all == QuotesBefore(m + 1)
<1>1. Ordered(positions, m) /\ m \in Nat
  BY OrderedQuotes
<1>2. positions \in Seq(Nat) /\ Len(positions) = all
  BY <1>1 DEF Ordered
<1>3. q \in Nat /\ all \in Nat /\ q <= all
  <2>1. i \in 1..(m + 1) /\ m + 1 \in 1..(m + 1)
    BY <1>1
  <2> QED BY <1>1, <2>1 DEF Ordered
<1> HIDE DEF positions, all
<1>4. /\ Len(quotes) - 1 = all
      /\ \A k \in 1..all : quotes[k] = positions[k]
      /\ quotes[all + 1] = beyond
  BY <1>2, <1>3
<1>5. \A k \in 1..all : (positions[k] < i <=> k <= q) /\ positions[k] # i /\ positions[k] \in Nat
  <2>1. i \in 1..(m + 1)
    BY <1>1
  <2>2. Quote # Space
    BY DEF Quote, Space
  <2> HIDE DEF m
  <2> QED BY <1>1, <1>2, <2>1, <2>2 DEF Ordered
<1> HIDE DEF quotes, q
<1>6. ASSUME NEW k \in 1..all
      PROVE  quotes[k] < i /\ i < quotes[k + 1] <=> k = q /\ (q = all => i < beyond)
  <2>1. quotes[k] < i <=> k <= q
    BY <1>4, <1>5
  <2>2. CASE k = all
    <3>1. quotes[k + 1] = beyond
      BY <1>4, <2>2
    <3> QED BY <1>3, <2>1, <2>2, <3>1
  <2>3. CASE k # all
    <3>1. k + 1 \in 1..all
      BY <1>3, <2>3
    <3>2. quotes[k + 1] = positions[k + 1]
      BY <1>4, <3>1
    <3>3. i < positions[k + 1] <=> ~(k + 1 <= q)
      BY <1>5, <3>1
    <3> QED BY <1>3, <2>1, <2>3, <3>2, <3>3
  <2> QED BY <2>2, <2>3
<1>7. (\E k \in 1..all : k % 2 = 1 /\ quotes[k] < i /\ i < quotes[k + 1])
      <=> q % 2 = 1 /\ (q = all => i < beyond)
  <2>1. q % 2 = 1 => q \in 1..all
    BY <1>3
  <2> QED BY <1>6, <2>1
<1>8. i \notin Separators(beyond) <=> q % 2 # 0 /\ (q = all => ~(i >= beyond))
  BY DEF Separators, q, all
<1>9. (q % 2 # 0 <=> q % 2 = 1) /\ (~(i >= beyond) <=> i < beyond)
  BY <1>3
<1> QED BY <1>4, <1>7, <1>8, <1>9 DEF quotes, positions

(* What replace_spaces leaves: a space where the line is cut, and what     *)
(* put_spaces turns back into the character of the line elsewhere.         *)
LEMMA Replaced ==
    ASSUME line \in Seq(Characters), NEW beyond \in Nat
    PROVE  LET text == ReplaceSpaces(line, beyond)
           IN  /\ text \in Seq(Characters) /\ Len(text) = Len(line)
               /\ \A i \in 1..Len(line) :
                      /\ text[i] = Space <=> i \in Separators(beyond)
                      /\ (IF text[i] = Nul THEN Space ELSE text[i]) =
                             IF line[i] = Nul THEN Space ELSE line[i]
<1> DEFINE text == ReplaceSpaces(line, beyond)  quotes == Occurrences(line, Quote) \o <<beyond>>
           Kept(i) == \E k \in 1..(Len(quotes) - 1) :
                          k % 2 = 1 /\ quotes[k] < i /\ i < quotes[k + 1]
<1>1. text = [i \in 1..Len(line) |-> IF line[i] = Space /\ Kept(i) THEN Nul ELSE line[i]]
  BY DEF ReplaceSpaces
<1>2. \A i \in 1..Len(line) : line[i] = Space => (Kept(i) <=> i \notin Separators(beyond))
  BY OddBetween
<1>3. \A i \in 1..Len(line) : i \in Separators(beyond) => line[i] = Space
  BY DEF Separators
<1> HIDE DEF text, Kept
<1>4. Nul # Space /\ Nul \in Characters
  BY DEF Nul, Space, Characters
<1>5. Len(line) \in Nat /\ \A i \in 1..Len(line) : line[i] \in Characters
  OBVIOUS
<1>6. text \in Seq(Characters) /\ Len(text) = Len(line)
  BY <1>1, <1>4, <1>5
<1>7. \A i \in 1..Len(line) : text[i] = IF line[i] = Space /\ Kept(i) THEN Nul ELSE line[i]
  BY <1>1
<1>8. \A i \in 1..Len(line) : text[i] = Space <=> i \in Separators(beyond)
  BY <1>2, <1>3, <1>4, <1>7
<1>9. \A i \in 1..Len(line) : (IF text[i] = Nul THEN Space ELSE text[i]) =
                                  IF line[i] = Nul THEN Space ELSE line[i]
  BY <1>4, <1>7
<1> QED BY <1>6, <1>8, <1>9 DEF text

-----------------------------------------------------------------------------
(* The loop over getline, character by character.                          *)

Texts == Seq(Characters)
Accs  == [vec : Seq(Texts), token : Texts]

LEMMA PushedType ==
    ASSUME NEW vec \in Seq(Texts), NEW token \in Texts
    PROVE  /\ PutSpaces(token) \in Texts /\ Len(PutSpaces(token)) = Len(token)
           /\ Pushed(vec, token) \in Seq(Texts)
<1>1. Len(token) \in Nat /\ \A i \in 1..Len(token) : token[i] \in Characters
  BY DEF Texts
<1>2. Space \in Characters
  BY DEF Characters
<1>3. PutSpaces(token) \in Texts /\ Len(PutSpaces(token)) = Len(token)
  BY <1>1, <1>2 DEF PutSpaces, Texts
<1> QED BY <1>3 DEF Pushed

LEMMA ReadType ==
    ASSUME NEW acc \in Accs, NEW char \in Characters
    PROVE  Read(acc, char, Space) \in Accs
<1>1. acc.vec \in Seq(Texts) /\ acc.token \in Texts
  BY DEF Accs
<1>2. Pushed(acc.vec, acc.token) \in Seq(Texts) /\ Append(acc.token, char) \in Texts
      /\ <<>> \in Texts
  BY <1>1, PushedType DEF Texts
<1> QED BY <1>1, <1>2 DEF Read, Accs

NoToken == [vec |-> <<>>, token |-> <<>>]

TokensFrom(text, acc) ==
    [n \in 0..Len(text) |-> IF n = 0 THEN NoToken ELSE Read(acc[n - 1], text[n], Space)]

LEMMA TokensEquation ==
    ASSUME NEW text \in Texts
    PROVE  LET acc == Tokens(text, Space)
           IN  /\ acc[0] = NoToken
               /\ \A n \in 1..Len(text) : acc[n] = Read(acc[n - 1], text[n], Space)
<1> DEFINE m == Len(text)
           Step == [n \in 1..m |-> [acc \in Accs |-> Read(acc, text[n], Space)]]
<1>1. m \in Nat /\ NoToken \in Accs /\ \A n \in 1..m : text[n] \in Characters
  BY DEF Texts, Accs, NoToken
<1>2. Step \in [1..m -> [Accs -> Accs]]
  <2>1. ASSUME NEW n \in 1..m, NEW acc \in Accs PROVE Read(acc, text[n], Space) \in Accs
    BY <1>1, ReadType
  <2> QED BY <2>1
<1>3. PICK g : Computes(g, m, Accs, NoToken, Step)
  <2> HIDE DEF m, Step
  <2> QED BY <1>1, <1>2, Recursion
<1>4. g = TokensFrom(text, g)
  <2>1. ASSUME NEW n \in 1..m PROVE g[n] = Read(g[n - 1], text[n], Space)
    <3>1. n - 1 \in 0..m
      BY <1>1
    <3> QED BY <1>3, <3>1 DEF Computes
  <2> HIDE DEF Step
  <2>2. \A n \in 0..m : g[n] = IF n = 0 THEN NoToken ELSE Read(g[n - 1], text[n], Space)
    <3>1. \A n \in 0..m : n = 0 \/ n \in 1..m
      BY <1>1
    <3>2. g[0] = NoToken
      BY <1>3 DEF Computes
    <3> HIDE DEF m
    <3> QED BY <2>1, <3>1, <3>2
  <2> QED BY <1>3, <2>2 DEF TokensFrom, Computes
<1> DEFINE Solves(acc) == acc = TokensFrom(text, acc)
           found == Tokens(text, Space)
<1>5. found = CHOOSE acc : Solves(acc)
  BY Zenon DEF Tokens, TokensFrom, NoToken
<1>6. found = TokensFrom(text, found)
  <2>1. Solves(g)
    BY <1>4
  <2> HIDE DEF Solves, found
  <2>2. Solves(found)
    BY <1>5, <2>1, Zenon
  <2> QED BY <2>2 DEF Solves
<1> HIDE DEF found, Step
<1>7. \A n \in 0..m : found[n] = IF n = 0 THEN NoToken ELSE Read(found[n - 1], text[n], Space)
  BY <1>6 DEF TokensFrom
<1>8. 0 \in 0..m /\ \A n \in 1..m : n \in 0..m /\ n # 0
  BY <1>1
<1> HIDE DEF m
<1> QED BY <1>7, <1>8 DEF m, found

(* How many words begin up to a place.                                     *)
Rank(separators, n) == Cardinality(Starts(separators) \cap (1..n))

LEMMA RankStep ==
    ASSUME NEW separators, NEW n \in Nat
    PROVE  /\ Rank(separators, 0) = 0
           /\ Rank(separators, n) \in Nat
           /\ n + 1 \in Starts(separators) => Rank(separators, n + 1) = Rank(separators, n) + 1
           /\ n + 1 \notin Starts(separators) => Rank(separators, n + 1) = Rank(separators, n)
<1> DEFINE T(k) == Starts(separators) \cap (1..k)
<1>1. IsFiniteSet(1..n) /\ T(0) = {}
  BY FS_Interval
<1>2. IsFiniteSet(T(n))
  BY <1>1, FS_Subset
<1>3. /\ n + 1 \in Starts(separators) => T(n + 1) = T(n) \cup {n + 1}
      /\ n + 1 \notin Starts(separators) => T(n + 1) = T(n)
      /\ n + 1 \notin T(n)
  OBVIOUS
<1>4. /\ Rank(separators, 0) = Cardinality(T(0)) /\ Rank(separators, n) = Cardinality(T(n))
      /\ Rank(separators, n + 1) = Cardinality(T(n + 1))
  BY DEF Rank
<1> HIDE DEF T
<1>5. Cardinality(T(0)) = 0 /\ Cardinality(T(n)) \in Nat
  BY <1>1, <1>2, FS_EmptySet, FS_CardinalityType
<1>6. Cardinality(T(n) \cup {n + 1}) = Cardinality(T(n)) + 1
  BY <1>2, <1>3, FS_AddElement
<1> QED BY <1>3, <1>4, <1>5, <1>6

(* The words that begin up to n, in their order.                           *)
HoldsWords(vec, n, separators) ==
    /\ vec \in Seq(Texts)
    /\ Len(vec) = Rank(separators, n)
    /\ \A i \in Starts(separators) :
           i <= n => /\ Rank(separators, i) \in 1..Len(vec)
                     /\ vec[Rank(separators, i)] = Word(i, separators)

LEMMA SameWords ==
    ASSUME NEW separators, NEW n \in Nat, NEW vec, HoldsWords(vec, n, separators),
           n + 1 \notin Starts(separators)
    PROVE  HoldsWords(vec, n + 1, separators)
<1>1. Len(vec) = Rank(separators, n + 1)
  BY RankStep DEF HoldsWords
<1>2. \A i \in Starts(separators) : i \in Nat /\ (i <= n + 1 => i <= n)
  BY DEF Starts
<1> QED BY <1>1, <1>2 DEF HoldsWords

LEMMA WordAdded ==
    ASSUME NEW separators, NEW n \in Nat, NEW vec, HoldsWords(vec, n, separators),
           n + 1 \in Starts(separators), Word(n + 1, separators) \in Texts
    PROVE  HoldsWords(Append(vec, Word(n + 1, separators)), n + 1, separators)
<1> DEFINE longer == Append(vec, Word(n + 1, separators))  r == Rank(separators, n)
<1>1. r \in Nat /\ Rank(separators, n + 1) = r + 1
  BY RankStep
<1>2. vec \in Seq(Texts) /\ Len(vec) = r
  BY DEF HoldsWords
<1> HIDE DEF r
<1>3. /\ longer \in Seq(Texts) /\ Len(longer) = r + 1
      /\ longer[r + 1] = Word(n + 1, separators)
      /\ \A k \in 1..r : longer[k] = vec[k]
  BY <1>1, <1>2
<1> HIDE DEF longer
<1>4. ASSUME NEW i \in Starts(separators), i <= n + 1
      PROVE  /\ Rank(separators, i) \in 1..Len(longer)
             /\ longer[Rank(separators, i)] = Word(i, separators)
  <2>1. i \in Nat
    BY DEF Starts
  <2>2. CASE i = n + 1
    BY <1>1, <1>3, <2>2
  <2>3. CASE i # n + 1
    <3>1. i <= n
      BY <1>4, <2>1, <2>3
    <3>2. Rank(separators, i) \in 1..r /\ vec[Rank(separators, i)] = Word(i, separators)
      BY <1>2, <3>1 DEF HoldsWords
    <3> QED BY <1>1, <1>3, <3>2
  <2> QED BY <2>2, <2>3
<1> QED BY <1>1, <1>3, <1>4 DEF HoldsWords, longer

(* A text that is cut at these places, and is that of the line but for     *)
(* what put_spaces turns back.                                             *)
CutAt(text, separators) ==
    /\ text \in Texts /\ Len(text) = Len(line) /\ Len(line) \in Nat
    /\ separators \subseteq 1..Len(line)
    /\ \A i \in 1..Len(line) :
           /\ text[i] = Space <=> i \in separators
           /\ (IF text[i] = Nul THEN Space ELSE text[i]) =
                  IF line[i] = Nul THEN Space ELSE line[i]

Piece(text, from, to) == [k \in 1..(to - from + 1) |-> text[from + k - 1]]

LEMMA RunEnds ==
    ASSUME NEW text, NEW separators, CutAt(text, separators),
           NEW s \in Starts(separators), NEW n \in s..Len(line),
           \A j \in s..n : j \notin separators, n = Len(line) \/ n + 1 \in separators
    PROVE  /\ PutSpaces(Piece(text, s, n)) = Word(s, separators)
           /\ Word(s, separators) \in Texts
<1> DEFINE piece == Piece(text, s, n)  l == n - s + 1
<1>1. s \in 1..Len(line) /\ Len(line) \in Nat /\ text \in Texts /\ Len(text) = Len(line)
  BY DEF Starts, CutAt
<1>2. l \in Nat \ {0} /\ \A k \in 1..l : s + k - 1 \in 1..Len(line)
  BY <1>1
<1>3. \A k \in 1..l : text[s + k - 1] \in Characters
  BY <1>1, <1>2 DEF Texts
<1>4. /\ piece \in Texts /\ Len(piece) = l
      /\ \A k \in 1..l : piece[k] = text[s + k - 1]
  BY <1>2, <1>3 DEF Piece, Texts
<1>5. Run(s, separators) = s..n
  <2>1. ASSUME NEW j \in s..Len(line)
        PROVE  (\A k \in s..j : k \notin separators) <=> j \in s..n
    <3>1. CASE j <= n
      BY <1>1, <3>1
    <3>2. CASE ~(j <= n)
      <4>1. n + 1 \in s..j /\ n # Len(line)
        BY <1>1, <3>2
      <4> QED BY <3>2, <4>1
    <3> QED BY <3>1, <3>2
  <2>2. s..n \subseteq s..Len(line)
    BY <1>1
  <2> QED BY <2>1, <2>2 DEF Run
<1>6. Cardinality(Run(s, separators)) = l
  BY <1>1, <1>2, <1>5, FS_Interval
<1>7. Word(s, separators) = [k \in 1..l |->
                                IF line[s + k - 1] = Nul THEN Space ELSE line[s + k - 1]]
  BY <1>6 DEF Word
<1>8. PutSpaces(piece) = [k \in 1..l |-> IF piece[k] = Nul THEN Space ELSE piece[k]]
  BY <1>4 DEF PutSpaces
<1> HIDE DEF piece, l
<1>9. \A k \in 1..l : (IF piece[k] = Nul THEN Space ELSE piece[k]) =
                          IF line[s + k - 1] = Nul THEN Space ELSE line[s + k - 1]
  BY <1>2, <1>4 DEF CutAt
<1>10. PutSpaces(piece) = Word(s, separators)
  BY <1>7, <1>8, <1>9
<1>11. PutSpaces(piece) \in Texts
  <2>1. <<>> \in Seq(Texts)
    OBVIOUS
  <2> QED BY <1>4, <2>1, PushedType
<1> QED BY <1>10, <1>11 DEF piece

(* The loop has pushed the words that have ended, and reads a word that    *)
(* has begun, if any.                                                      *)
Between(acc, n, separators) ==
    /\ n = 0 \/ n \in separators
    /\ acc.token = <<>>
    /\ HoldsWords(acc.vec, n, separators)

InWord(acc, text, n, separators, s) ==
    /\ s \in Starts(separators) /\ s <= n
    /\ \A j \in s..n : j \notin separators
    /\ acc.token = Piece(text, s, n)
    /\ HoldsWords(acc.vec, s - 1, separators)

Reading(acc, text, n, separators) ==
    \/ Between(acc, n, separators)
    \/ \E s \in 1..Len(line) : InWord(acc, text, n, separators, s)

(* Where a word ends it is pushed.                                         *)
LEMMA ReadingEnds ==
    ASSUME NEW text, NEW separators, CutAt(text, separators), NEW n \in 0..Len(line),
           NEW acc, Reading(acc, text, n, separators), n = Len(line) \/ n + 1 \in separators
    PROVE  HoldsWords(Pushed(acc.vec, acc.token), n, separators)
<1>1. CASE Between(acc, n, separators)
  BY <1>1 DEF Between, Pushed
<1>2. ASSUME NEW s \in 1..Len(line), InWord(acc, text, n, separators, s)
      PROVE  HoldsWords(Pushed(acc.vec, acc.token), n, separators)
  <2>1. s \in Starts(separators) /\ s <= n /\ Len(line) \in Nat
        /\ acc.token = Piece(text, s, n) /\ HoldsWords(acc.vec, s - 1, separators)
    BY <1>2 DEF InWord, CutAt
  <2>2. n \in s..Len(line) /\ s - 1 \in Nat /\ (s - 1) + 1 = s
    BY <2>1
  <2>3. PutSpaces(acc.token) = Word(s, separators) /\ Word(s, separators) \in Texts
    <3>1. \A j \in s..n : j \notin separators
      BY <1>2 DEF InWord
    <3> QED BY <2>1, <2>2, <3>1, RunEnds
  <2>4. acc.token # <<>>
    <3>1. acc.token = [k \in 1..(n - s + 1) |-> text[s + k - 1]] /\ 1 \in 1..(n - s + 1)
      BY <2>1, <2>2 DEF Piece
    <3>2. 1 \in DOMAIN acc.token
      BY <3>1
    <3>3. DOMAIN <<>> = {}
      OBVIOUS
    <3> QED BY <3>2, <3>3
  <2>5. HoldsWords(Append(acc.vec, Word(s, separators)), s, separators)
    <3> DEFINE p == s - 1
    <3>1. p \in Nat /\ p + 1 = s /\ HoldsWords(acc.vec, p, separators)
      BY <2>1, <2>2
    <3> HIDE DEF p
    <3>2. p + 1 \in Starts(separators) /\ Word(p + 1, separators) \in Texts
      BY <2>1, <2>3, <3>1
    <3>3. HoldsWords(Append(acc.vec, Word(p + 1, separators)), p + 1, separators)
      BY <3>1, <3>2, WordAdded
    <3> QED BY <3>1, <3>3
  <2> DEFINE vec == Append(acc.vec, Word(s, separators))
             S == {k \in 0..(n - s) : HoldsWords(vec, s + k, separators)}
  <2> HIDE DEF vec
  <2>6. 0 \in S
    <3>1. 0 \in 0..(n - s) /\ s + 0 = s
      BY <2>2
    <3> QED BY <2>5, <3>1 DEF vec
  <2>7. ASSUME NEW k \in 0..((n - s) - 1), k \in S PROVE k + 1 \in S
    <3>1. s + k \in Nat /\ s + (k + 1) = (s + k) + 1 /\ k + 1 \in 0..(n - s)
          /\ (s + k) + 1 # 1 /\ ((s + k) + 1) - 1 \in s..n
      BY <2>2
    <3>2. ((s + k) + 1) - 1 \notin separators
      BY <1>2, <3>1 DEF InWord
    <3>3. (s + k) + 1 \notin Starts(separators)
      BY <3>1, <3>2 DEF Starts
    <3>4. HoldsWords(vec, (s + k) + 1, separators)
      BY <2>7, <3>1, <3>3, SameWords
    <3> QED BY <3>1, <3>4
  <2>8. HoldsWords(vec, n, separators)
    <3>1. n - s \in Nat /\ s + (n - s) = n
      BY <2>2
    <3> HIDE DEF S
    <3>2. \A k \in 0..(n - s) : k \in S
      BY <2>6, <2>7, <3>1, UpTo
    <3>3. n - s \in S
      BY <3>1, <3>2
    <3>4. HoldsWords(vec, s + (n - s), separators)
      BY <3>3 DEF S
    <3> QED BY <3>1, <3>4
  <2> QED BY <2>3, <2>4, <2>8 DEF Pushed, vec
<1> QED BY <1>1, <1>2 DEF Reading

LEMMA PieceGrows ==
    ASSUME NEW text \in Texts, NEW s \in 1..Len(text), NEW n \in Nat, s <= n, n + 1 <= Len(text)
    PROVE  Append(Piece(text, s, n), text[n + 1]) = Piece(text, s, n + 1)
<1> DEFINE piece == Piece(text, s, n)  l == n - s + 1
           other == Piece(text, s, n + 1)  longer == Append(piece, text[n + 1])
<1>1. l \in Nat /\ (n + 1) - s + 1 = l + 1 /\ s + (l + 1) - 1 = n + 1
  OBVIOUS
<1>2. \A k \in 1..(l + 1) : s + k - 1 \in 1..Len(text)
  OBVIOUS
<1>3. \A k \in 1..(l + 1) : text[s + k - 1] \in Characters
  BY <1>2 DEF Texts
<1>4. piece = [k \in 1..l |-> text[s + k - 1]]
      /\ other = [k \in 1..(l + 1) |-> text[s + k - 1]]
  BY <1>1 DEF Piece
<1> HIDE DEF piece, l, other
<1>5. /\ piece \in Seq(Characters) /\ Len(piece) = l
      /\ \A k \in 1..l : piece[k] = text[s + k - 1]
  <2>1. ASSUME NEW k \in 1..l PROVE text[s + k - 1] \in Characters
    <3>1. k \in 1..(l + 1)
      BY <1>1
    <3> QED BY <1>3, <3>1
  <2> QED BY <1>1, <1>4, <2>1
<1>6. /\ other \in Seq(Characters) /\ Len(other) = l + 1
      /\ \A k \in 1..(l + 1) : other[k] = text[s + k - 1]
  BY <1>1, <1>3, <1>4
<1>7. text[n + 1] \in Characters
  BY DEF Texts
<1>8. /\ longer \in Seq(Characters) /\ Len(longer) = l + 1
      /\ longer[l + 1] = text[n + 1] /\ \A k \in 1..l : longer[k] = piece[k]
  BY <1>5, <1>7
<1> HIDE DEF longer
<1>9. \A k \in 1..Len(longer) : longer[k] = other[k]
  <2>1. \A k \in 1..(l + 1) : k = l + 1 \/ k \in 1..l
    BY <1>1
  <2>2. longer[l + 1] = other[l + 1]
    <3>1. l + 1 \in 1..(l + 1)
      BY <1>1
    <3>2. other[l + 1] = text[s + (l + 1) - 1]
      BY <1>6, <3>1
    <3> QED BY <1>1, <1>8, <3>2
  <2>3. \A k \in 1..l : longer[k] = other[k]
    <3>1. \A k \in 1..l : k \in 1..(l + 1)
      BY <1>1
    <3> QED BY <1>5, <1>6, <1>8, <3>1
  <2> QED BY <1>8, <2>1, <2>2, <2>3
<1>10. longer = other
  BY <1>6, <1>8, <1>9, SeqEqual
<1> QED BY <1>10 DEF longer, other, piece

LEMMA ReadingStep ==
    ASSUME NEW text, NEW separators, CutAt(text, separators),
           NEW n \in 0..(Len(line) - 1), NEW acc, Reading(acc, text, n, separators)
    PROVE  Reading(Read(acc, text[n + 1], Space), text, n + 1, separators)
<1> DEFINE next == Read(acc, text[n + 1], Space)
<1>1. /\ Len(line) \in Nat /\ n \in Nat /\ n + 1 \in 1..Len(line) /\ n \in 0..Len(line)
      /\ text \in Texts /\ Len(text) = Len(line) /\ (n + 1) - 1 = n
  BY DEF CutAt
<1>2. text[n + 1] = Space <=> n + 1 \in separators
  BY <1>1 DEF CutAt
<1>3. CASE n + 1 \in separators
  <2>1. next.vec = Pushed(acc.vec, acc.token) /\ next.token = <<>>
    BY <1>2, <1>3 DEF Read
  <2> HIDE DEF next
  <2>2. HoldsWords(next.vec, n, separators)
    BY <1>1, <1>3, <2>1, ReadingEnds
  <2>3. n + 1 \notin Starts(separators)
    BY <1>3 DEF Starts
  <2>4. HoldsWords(next.vec, n + 1, separators)
    BY <1>1, <2>2, <2>3, SameWords
  <2> QED BY <1>3, <2>1, <2>4 DEF Reading, Between, next
<1>4. CASE n + 1 \notin separators
  <2>1. next.vec = acc.vec /\ next.token = Append(acc.token, text[n + 1])
    BY <1>2, <1>4 DEF Read
  <2> HIDE DEF next
  <2>2. CASE Between(acc, n, separators)
    <3>1. n + 1 \in Starts(separators)
      BY <1>1, <1>4, <2>2 DEF Between, Starts
    <3>2. next.token = Piece(text, n + 1, n + 1)
      <4>1. next.token = <<text[n + 1]>>
        BY <2>1, <2>2 DEF Between
      <4>2. (n + 1) - (n + 1) + 1 = 1 /\ \A k \in 1..1 : (n + 1) + k - 1 = n + 1
        BY <1>1
      <4>3. Piece(text, n + 1, n + 1) = [k \in 1..1 |-> text[n + 1]]
        BY <4>2 DEF Piece
      <4>4. <<text[n + 1]>> = [k \in 1..1 |-> text[n + 1]]
        <5> DEFINE c == text[n + 1]
        <5> HIDE DEF c
        <5>1. <<c>> = [k \in 1..1 |-> c]
          OBVIOUS
        <5> QED BY <5>1 DEF c
      <4> QED BY <4>1, <4>3, <4>4
    <3>3. HoldsWords(next.vec, (n + 1) - 1, separators)
      BY <1>1, <2>1, <2>2 DEF Between
    <3>4. \A j \in (n + 1)..(n + 1) : j \notin separators
      BY <1>1, <1>4
    <3>5. InWord(next, text, n + 1, separators, n + 1)
      BY <1>1, <3>1, <3>2, <3>3, <3>4 DEF InWord
    <3> QED BY <1>1, <3>5 DEF Reading, next
  <2>3. ASSUME NEW s \in 1..Len(line), InWord(acc, text, n, separators, s)
        PROVE  Reading(next, text, n + 1, separators)
    <3>1. s \in Starts(separators) /\ s <= n /\ acc.token = Piece(text, s, n)
          /\ HoldsWords(acc.vec, s - 1, separators)
      BY <2>3 DEF InWord
    <3>2. s <= n + 1 /\ \A j \in s..(n + 1) : j \in s..n \/ j = n + 1
      BY <1>1, <3>1
    <3>3. \A j \in s..(n + 1) : j \notin separators
      BY <1>4, <2>3, <3>2 DEF InWord
    <3>4. next.token = Piece(text, s, n + 1)
      <4>1. s \in 1..Len(text) /\ n + 1 <= Len(text)
        BY <1>1
      <4> QED BY <1>1, <2>1, <3>1, <4>1, PieceGrows
    <3>5. InWord(next, text, n + 1, separators, s)
      BY <2>1, <3>1, <3>2, <3>3, <3>4 DEF InWord
    <3> QED BY <3>5 DEF Reading
  <2> QED BY <2>2, <2>3 DEF Reading, next
<1> QED BY <1>3, <1>4

LEMMA SplitWords ==
    ASSUME line \in Seq(Characters), NEW beyond \in Nat
    PROVE  WordsBetween(SplitString(line, Space, beyond), Separators(beyond))
<1> DEFINE text == ReplaceSpaces(line, beyond)  separators == Separators(beyond)
           m == Len(line)  acc == Tokens(text, Space)
           S == {n \in 0..m : Reading(acc[n], text, n, separators)}
<1>1. m \in Nat
  OBVIOUS
<1>2. CutAt(text, separators)
  <2>1. separators \subseteq 1..Len(line)
    BY DEF Separators
  <2> HIDE DEF separators
  <2>2. /\ text \in Seq(Characters) /\ Len(text) = Len(line)
        /\ \A i \in 1..Len(line) :
               /\ text[i] = Space <=> i \in separators
               /\ (IF text[i] = Nul THEN Space ELSE text[i]) =
                      IF line[i] = Nul THEN Space ELSE line[i]
    BY Replaced DEF separators
  <2> HIDE DEF text
  <2> QED BY <1>1, <2>1, <2>2 DEF CutAt, Texts
<1> HIDE DEF text, separators
<1>3. text \in Texts /\ Len(text) = m
  BY <1>2 DEF CutAt
<1>4. acc[0] = NoToken /\ \A n \in 1..m : acc[n] = Read(acc[n - 1], text[n], Space)
  BY <1>3, TokensEquation
<1> HIDE DEF acc
<1>5. 0 \in S
  <2>1. Rank(separators, 0) = 0 /\ \A i \in Starts(separators) : ~(i <= 0)
    BY RankStep DEF Starts
  <2>2. <<>> \in Seq(Texts) /\ Len(<<>>) = 0
    OBVIOUS
  <2>3. HoldsWords(<<>>, 0, separators)
    BY <2>1, <2>2 DEF HoldsWords
  <2>4. acc[0].vec = <<>> /\ acc[0].token = <<>>
    BY <1>4 DEF NoToken
  <2>5. Reading(acc[0], text, 0, separators)
    BY <2>3, <2>4 DEF Reading, Between
  <2> QED BY <1>1, <2>5
<1>6. ASSUME NEW n \in 0..(m - 1), n \in S PROVE n + 1 \in S
  <2>1. n + 1 \in 1..m /\ n + 1 \in 0..m /\ (n + 1) - 1 = n
    BY <1>1
  <2>2. acc[n + 1] = Read(acc[n], text[n + 1], Space)
    BY <1>4, <2>1
  <2>3. Reading(acc[n + 1], text, n + 1, separators)
    BY <1>2, <1>6, <2>2, ReadingStep
  <2> QED BY <2>1, <2>3
<1>7. Reading(acc[m], text, m, separators)
  <2> HIDE DEF S
  <2>1. \A n \in 0..m : n \in S
    BY <1>1, <1>5, <1>6, UpTo
  <2>2. m \in S
    BY <1>1, <2>1
  <2> QED BY <2>2 DEF S
<1> DEFINE split == Pushed(acc[m].vec, acc[m].token)
<1>8. HoldsWords(split, m, separators)
  <2>1. m \in 0..m
    BY <1>1
  <2> QED BY <1>2, <1>7, <2>1, ReadingEnds
<1>9. split = SplitString(line, Space, beyond)
  BY DEF SplitString, acc, text
<1> HIDE DEF split
<1>10. Starts(separators) \cap (1..m) = Starts(separators)
       /\ \A i \in Starts(separators) : i <= m
  BY <1>1 DEF Starts
<1>11. WordsBetween(split, separators)
  BY <1>8, <1>10 DEF WordsBetween, HoldsWords, Rank, Texts
<1> QED BY <1>9, <1>11 DEF separators

(* A line of characters stays one.                                         *)
LineOfCharacters == line \in Seq(Characters)

LEMMA CharactersStart == TextInit => LineOfCharacters
  BY DEF TextInit, LineOfCharacters

LEMMA CharactersGoOn == LineOfCharacters /\ [TextNext]_<<cwd, texts>> => LineOfCharacters'
<1> SUFFICES ASSUME line \in Seq(Characters), [TextNext]_<<cwd, texts>>
             PROVE  line' \in Seq(Characters)
  BY DEF LineOfCharacters
<1>1. CASE UNCHANGED line
  BY <1>1
<1>2. CASE \E char \in Characters : line' = Append(line, char)
  BY <1>2
<1> QED BY <1>1, <1>2 DEF TextNext, texts

(* A line is cut into its words, whatever its length and whatever the loop *)
(* of replace_spaces reads behind the last of an odd number of quotes      *)
(* (split_string, which the server and the client run on each line).       *)
THEOREM LinesAreCutAtSpaces == TextSpec => []SplitIsWords
<1>1. LineOfCharacters => SplitIsWords
  <2>1. SUFFICES ASSUME line \in Seq(Characters), NEW split \in Splits(line)
                 PROVE  \E place \in 0..(Len(line) + 1) :
                            WordsBetween(split, Separators(place))
    BY DEF SplitIsWords, LineOfCharacters
  <2>2. PICK beyond \in 0..(Len(line) + 1) : split = SplitString(line, Space, beyond)
    BY DEF Splits
  <2> QED BY <2>1, <2>2, SplitWords
<1> QED BY CharactersStart, CharactersGoOn, <1>1, PTL DEF TextSpec

-----------------------------------------------------------------------------
(* Two processes cut one line.                                             *)

(* When the quotes are even nothing that is read past them counts.         *)
LEMMA PairedSplit ==
    ASSUME line \in Seq(Characters), Paired(line), NEW a \in Nat, NEW b \in Nat
    PROVE  SplitString(line, Space, a) = SplitString(line, Space, b)
<1> DEFINE positions == Occurrences(line, Quote)  n == Len(positions)
           Kept(i, beyond) ==
               LET quotes == positions \o <<beyond>>
               IN  \E k \in 1..(Len(quotes) - 1) :
                       k % 2 = 1 /\ quotes[k] < i /\ i < quotes[k + 1]
           Pair(i) == \E k \in 1..n : /\ k + 1 \in 1..n /\ k % 2 = 1
                                      /\ positions[k] < i /\ i < positions[k + 1]
<1>1. positions \in Seq(Nat) /\ n \in Nat
  BY OrderedQuotes DEF Ordered
<1>2. n % 2 = 0
  BY DEF Paired
<1> HIDE DEF positions
<1>3. ASSUME NEW beyond \in Nat, NEW i PROVE Kept(i, beyond) <=> Pair(i)
  <2> DEFINE quotes == positions \o <<beyond>>
  <2>1. Len(quotes) - 1 = n /\ \A k \in 1..n : quotes[k] = positions[k]
    BY <1>1
  <2> HIDE DEF quotes, n
  <2>2. \A k \in 1..n : k % 2 = 1 => k + 1 \in 1..n
    BY <1>1, <1>2
  <2> QED BY <2>1, <2>2 DEF quotes
<1> HIDE DEF Pair, n
<1>4. \A i : Kept(i, a) <=> Kept(i, b)
  BY <1>3
<1>5. \A beyond : ReplaceSpaces(line, beyond) =
          [i \in 1..Len(line) |-> IF line[i] = Space /\ Kept(i, beyond) THEN Nul ELSE line[i]]
  BY DEF ReplaceSpaces, positions
<1> HIDE DEF Kept
<1>6. ReplaceSpaces(line, a) = ReplaceSpaces(line, b)
  BY <1>4, <1>5
<1> QED BY <1>6 DEF SplitString

(* The first word of a line begins at the first place that is no           *)
(* separator.                                                              *)
LEMMA FirstWord ==
    ASSUME line \in Seq(Characters), NEW split, NEW separators,
           WordsBetween(split, separators), NEW i \in 1..Len(line), i \notin separators,
           \A k \in 1..(i - 1) : k \in separators
    PROVE  split # <<>> /\ split[1] = Word(i, separators)
<1>1. Len(line) \in Nat
  OBVIOUS
<1>2. i \in Starts(separators)
  <2>1. i = 1 \/ i - 1 \in 1..(i - 1)
    BY <1>1
  <2> QED BY <2>1 DEF Starts
<1>3. Starts(separators) \cap (1..i) = {i}
  <2>1. \A k \in 1..i : k = i \/ k \in 1..(i - 1)
    BY <1>1
  <2> QED BY <1>1, <1>2, <2>1 DEF Starts
<1>4. split[Cardinality({i})] = Word(i, separators) /\ split \in Seq(Seq(Characters))
      /\ Len(split) = Cardinality(Starts(separators))
  BY <1>2, <1>3 DEF WordsBetween
<1>5. Cardinality({i}) = 1
  BY FS_Singleton
<1>6. split # <<>>
  <2>1. IsFiniteSet(Starts(separators))
    <3>1. IsFiniteSet(1..Len(line)) /\ Starts(separators) \subseteq 1..Len(line)
      BY <1>1, FS_Interval DEF Starts
    <3> QED BY <3>1, FS_Subset
  <2>2. Cardinality(Starts(separators)) # 0
    BY <1>2, <2>1, FS_EmptySet
  <2> QED BY <1>4, <2>2
<1> QED BY <1>4, <1>5, <1>6

(* A word that goes past a quote is no command.                            *)
LEMMA QuotedWord ==
    ASSUME line \in Seq(Characters), NEW separators, NEW i \in 1..Len(line),
           NEW q \in i..Len(line), line[q] = Quote, \A k \in i..q : k \notin separators
    PROVE  NameOf(Word(i, separators)) = "nosuch"
<1> DEFINE run == Run(i, separators)  word == Word(i, separators)
<1>1. Len(line) \in Nat /\ i \in Nat /\ q \in Nat /\ i <= q
  OBVIOUS
<1>2. i..q \subseteq run /\ run \subseteq i..Len(line)
  BY <1>1 DEF Run
<1> HIDE DEF run
<1>3. IsFiniteSet(run) /\ Cardinality(i..q) <= Cardinality(run) /\ Cardinality(run) \in Nat
  <2>1. IsFiniteSet(i..Len(line))
    BY <1>1, FS_Interval
  <2> QED BY <1>2, <2>1, FS_Subset, FS_CardinalityType
<1>4. Cardinality(i..q) = q - i + 1
  BY <1>1, FS_Interval
<1>5. q - i + 1 \in 1..Cardinality(run) /\ i + (q - i + 1) - 1 = q
  BY <1>1, <1>3, <1>4
<1>6. Len(word) = Cardinality(run)
      /\ word[q - i + 1] = IF line[q] = Nul THEN Space ELSE line[q]
  BY <1>3, <1>5 DEF Word, run
<1>7. word[q - i + 1] = Quote /\ Quote \notin CommandNames
  BY <1>6 DEF Quote, Nul, CommandNames
<1> HIDE DEF word
<1>8. Len(word) = 1 => q - i + 1 = 1
  BY <1>1, <1>5, <1>6
<1> QED BY <1>7, <1>8 DEF NameOf, word

(* Of an odd number of quotes, all that comes before the last of them is   *)
(* cut at the same places.                                                 *)
LEMMA SameBefore ==
    ASSUME line \in Seq(Characters), ~Paired(line), NEW a \in Nat, NEW b \in Nat
    PROVE  \E q \in 1..Len(line) :
              /\ line[q] = Quote
              /\ \A i \in 1..q : i \in Separators(a) <=> i \in Separators(b)
<1> DEFINE positions == Occurrences(line, Quote)  n == Len(positions)  m == Len(line)
<1>1. Ordered(positions, m) /\ m \in Nat
  BY OrderedQuotes
<1>2. n \in Nat /\ n # 0
  BY <1>1 DEF Ordered, Paired
<1> HIDE DEF positions, m
<1>3. n \in 1..n /\ n = QuotesBefore(m + 1)
  BY <1>1, <1>2 DEF Ordered
<1> DEFINE q == positions[n]
<1>4. q \in 1..m /\ line[q] = Quote /\ \A i \in 1..(m + 1) : q < i <=> n <= QuotesBefore(i)
  BY <1>1, <1>3 DEF Ordered
<1> HIDE DEF q, n
<1>5. ASSUME NEW i \in 1..q PROVE QuotesBefore(i) # QuotesBefore(m + 1)
  <2>1. i \in 1..(m + 1) /\ ~(q < i)
    BY <1>1, <1>4
  <2>2. ~(n <= QuotesBefore(i))
    BY <1>4, <2>1
  <2> QED BY <1>2, <1>3, <2>2
<1>6. \A i \in 1..q : i \in Separators(a) <=> i \in Separators(b)
  BY <1>5 DEF Separators, m
<1> QED BY <1>4, <1>6 DEF m

(* Both see the same command, or both see none.                            *)
LEMMA SameCommand ==
    ASSUME line \in Seq(Characters), ~Paired(line), NEW a \in Nat, NEW b \in Nat,
           NEW ours, WordsBetween(ours, Separators(a)),
           NEW theirs, WordsBetween(theirs, Separators(b))
    PROVE  ours # <<>> /\ theirs # <<>> /\ NameOf(ours[1]) = NameOf(theirs[1])
<1> DEFINE s == Separators(a)  t == Separators(b)
<1>1. Len(line) \in Nat
  OBVIOUS
<1>2. PICK q \in 1..Len(line) : line[q] = Quote /\ \A i \in 1..q : i \in s <=> i \in t
  BY SameBefore
<1>3. q \notin s
  BY <1>2 DEF Separators, Quote, Space
<1> HIDE DEF s, t
<1>4. PICK i \in 1..q : i \notin s /\ \A k \in 1..(i - 1) : k \in s
  <2> DEFINE S == {n \in 0..q : (\A k \in 1..n : k \in s)
                                \/ \E i \in 1..q : i \notin s /\ \A k \in 1..(i - 1) : k \in s}
  <2>1. 0 \in S
    BY <1>1
  <2>2. ASSUME NEW n \in 0..(q - 1), n \in S PROVE n + 1 \in S
    <3>1. n + 1 \in 1..q /\ (n + 1) - 1 = n /\ \A k \in 1..(n + 1) : k \in 1..n \/ k = n + 1
      BY <1>1
    <3>2. CASE n + 1 \in s
      BY <2>2, <3>1, <3>2
    <3>3. CASE n + 1 \notin s
      BY <2>2, <3>1, <3>3
    <3> QED BY <3>2, <3>3
  <2>3. q \in Nat
    BY <1>1
  <2> HIDE DEF S
  <2>4. \A n \in 0..q : n \in S
    BY <2>1, <2>2, <2>3, UpTo
  <2>5. q \in S /\ q \in 1..q
    BY <2>3, <2>4
  <2> QED BY <1>3, <2>5 DEF S
<1>5. i \in 1..Len(line) /\ i \notin t /\ \A k \in 1..(i - 1) : k \in t
  <2>1. \A k \in 1..(i - 1) : k \in 1..q
    BY <1>1
  <2> QED BY <1>1, <1>2, <1>4, <2>1
<1>6. ours # <<>> /\ ours[1] = Word(i, s)
  BY <1>4, <1>5, FirstWord DEF s
<1>7. theirs # <<>> /\ theirs[1] = Word(i, t)
  BY <1>5, FirstWord DEF t
<1>8. \A k \in i..q : k \in 1..q
  BY <1>1
<1>9. CASE \A k \in i..q : k \notin s
  <2>1. \A k \in i..q : k \notin t
    BY <1>2, <1>8, <1>9
  <2>2. q \in i..Len(line)
    BY <1>1
  <2>3. NameOf(Word(i, s)) = "nosuch"
    BY <1>2, <1>5, <1>9, <2>2, QuotedWord
  <2>4. NameOf(Word(i, t)) = "nosuch"
    BY <1>2, <1>5, <2>1, <2>2, QuotedWord
  <2> QED BY <1>6, <1>7, <2>3, <2>4
<1>10. CASE \E k \in i..q : k \in s
  <2>1. PICK k \in i..q : k \in s
    BY <1>10
  <2>2. k \in t
    BY <1>2, <1>8, <2>1
  <2>3. ASSUME NEW j \in i..Len(line)
        PROVE  (\A x \in i..j : x \notin s) <=> (\A x \in i..j : x \notin t)
    <3>1. CASE k <= j
      <4>1. k \in i..j
        BY <1>1, <3>1
      <4> QED BY <2>1, <2>2, <4>1
    <3>2. CASE ~(k <= j)
      <4>1. \A x \in i..j : x \in 1..q
        BY <1>1, <3>2
      <4> QED BY <1>2, <4>1
    <3> QED BY <3>1, <3>2
  <2>4. Run(i, s) = Run(i, t)
    BY <2>3 DEF Run
  <2>5. Word(i, s) = Word(i, t)
    BY <2>4 DEF Word
  <2> QED BY <1>6, <1>7, <2>5
<1> QED BY <1>6, <1>7, <1>9, <1>10

(* The words of a split are a line run_command can be given.               *)
LEMMA WordsAreALine ==
    ASSUME NEW split \in Seq(Seq(Characters))
    PROVE  /\ Line(WordsOf(split))
           /\ split # <<>> => WordsOf(split) # <<>> /\ Head(WordsOf(split)) = NameOf(split[1])
<1> DEFINE w == WordsOf(split)
<1>1. Len(split) \in Nat
  OBVIOUS
<1>2. \A word : NameOf(word) \in CommandNames /\ NumberOf(word) \in Int
  BY DEF NameOf, NumberOf, NoNumber, CommandNames
<1>3. w = [i \in 1..Len(split) |-> IF i = 1 THEN NameOf(split[i]) ELSE NumberOf(split[i])]
  BY DEF WordsOf
<1> HIDE DEF w
<1>4. w \in Seq(CommandNames \cup Int) /\ Len(w) = Len(split)
  BY <1>1, <1>2, <1>3
<1>5. w # <<>> => w[1] = NameOf(split[1]) /\ Head(w) = w[1]
  BY <1>1, <1>3, <1>4
<1>6. \A k \in 2..Len(w) : w[k] \in Int
  BY <1>1, <1>2, <1>3, <1>4
<1>7. split # <<>> => w # <<>>
  BY <1>1, <1>4
<1> QED BY <1>2, <1>4, <1>5, <1>6, <1>7 DEF Line, w

(* However it is cut, a line is about the transfer its first word names.   *)
LEMMA TransferNamed ==
    ASSUME NEW w, Line(w)
    PROVE  /\ w = <<>> => TransfersOf(w) = {} /\ ClientWatches(w) = {}
           /\ w # <<>> => TransfersOf(w) \subseteq {Head(w)} /\ ClientWatches(w) \subseteq {Head(w)}
<1>1. TransfersOf(w) = ClientWatches(w)
  BY LineUnderstood
<1> QED BY <1>1 DEF ClientWatches

(* A line that is not refused reaches one handler, with its own words,     *)
(* however long it is.  Client and server agree on whether it starts a     *)
(* transfer when its quotes are even, though each cuts and reads it by     *)
(* itself; of an odd number they still never take it for transfers of two  *)
(* kinds (run_command, the table of commands, split_string, and the watch  *)
(* for a port of the client).                                              *)
THEOREM LinesReachOneHandler == TextSpec => []LinesUnderstood
<1>1. LineOfCharacters /\ Line(words) => LinesUnderstood
  <2> SUFFICES ASSUME line \in Seq(Characters), Line(words) PROVE LinesUnderstood
    BY DEF LineOfCharacters
  <2>1. ASSUME NEW ours \in Splits(line), NEW theirs \in Splits(line)
        PROVE  LET server == WordsOf(ours)  client == WordsOf(theirs)
               IN  /\ Paired(line) => TransfersOf(server) = ClientWatches(client)
                   /\ \A kind \in TransfersOf(server) : ClientWatches(client) \subseteq {kind}
    <3> DEFINE server == WordsOf(ours)  client == WordsOf(theirs)
    <3>1. PICK a \in 0..(Len(line) + 1) : ours = SplitString(line, Space, a)
      BY DEF Splits
    <3>2. PICK b \in 0..(Len(line) + 1) : theirs = SplitString(line, Space, b)
      BY DEF Splits
    <3>3. a \in Nat /\ b \in Nat
      OBVIOUS
    <3>4. WordsBetween(ours, Separators(a)) /\ WordsBetween(theirs, Separators(b))
      BY <3>1, <3>2, <3>3, SplitWords
    <3>5. ours \in Seq(Seq(Characters)) /\ theirs \in Seq(Seq(Characters))
      BY <3>4 DEF WordsBetween
    <3>6. Line(server) /\ Line(client)
      BY <3>5, WordsAreALine
    <3>7. CASE Paired(line)
      <4>1. server = client
        BY <3>1, <3>2, <3>3, <3>7, PairedSplit
      <4> HIDE DEF server, client
      <4>2. TransfersOf(server) = ClientWatches(client)
        BY <3>6, <4>1, LineUnderstood
      <4>3. \A kind \in TransfersOf(server) : ClientWatches(client) \subseteq {kind}
        BY <3>6, <4>1, TransferNamed
      <4> QED BY <4>2, <4>3 DEF server, client
    <3>8. CASE ~Paired(line)
      <4>1. ours # <<>> /\ theirs # <<>> /\ NameOf(ours[1]) = NameOf(theirs[1])
        BY <3>3, <3>4, <3>8, SameCommand
      <4>2. server # <<>> /\ client # <<>> /\ Head(server) = Head(client)
        BY <3>5, <4>1, WordsAreALine
      <4> HIDE DEF server, client
      <4>3. \A kind \in TransfersOf(server) : ClientWatches(client) \subseteq {kind}
        BY <3>6, <4>2, TransferNamed
      <4> QED BY <3>8, <4>3 DEF server, client
    <3> QED BY <3>7, <3>8
  <2>2. \A server, client \in {WordsOf(split) : split \in Splits(line)} :
            /\ Paired(line) => TransfersOf(server) = ClientWatches(client)
            /\ \A kind \in TransfersOf(server) : ClientWatches(client) \subseteq {kind}
    BY <2>1
  <2> QED BY <2>2, LineUnderstood DEF LinesUnderstood
<1> QED BY LinesStart, LinesGoOn, CharactersStart, CharactersGoOn, <1>1, PTL DEF TextSpec
=============================================================================
